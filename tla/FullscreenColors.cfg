INIT FullscreenInit
NEXT FullscreenNext
CONSTANTS
  ModeWindows = {w1}
  Displays = {d1, d2}
  PrimaryDisplay = d1
  ExactModes = {"game", "odd"}
  ListedModes = {"game"}
  MaxActivations = 2
  None = None
INVARIANT ColorChangeIsAnnounced
