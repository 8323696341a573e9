SPECIFICATION MCSpec
CONSTANTS
  Capacity = 3
  Geometry <- MCGeometry
  Values = {0, 1}
  Flags = {"focus"}
  Scales = {1, 2}
  MaxSequence = 4
  MaxDropped = 1
  ControlWindows = {w1, w2, w3}
  First = w1
  Third = w3
  Cursors = {k1, k2}
  ImageSets <- MCImages
  Dpis = {96, 144}
  Sizes = {1, 2}
  NoWindow = NoWindow
  NoCursor = NoCursor
  MaxIcons = 2
INVARIANTS
  EventsAreFaithful
  ControlsAgree
PROPERTY ImplementsQueue
