INIT MCInit
NEXT MCNext
CONSTANTS
  Dialogs = {d1, d2}
  NoDialog = NoDialog
  Descriptions <- MCDialogs
  MaxFaults = 2
  MaxToggles = 2
  RollbackFaults = TRUE
  Items = {i1, i2}
  Shown = {a}
  Blank = Blank
  Unfit = Unfit
  QueueSlots = 2
  MaxEvents = 3
  MaxNotices = 1
  MaxMail = 1
  Callers = {c1, c2}
  Payloads <- MCPayloads
  ForeignData <- MCForeign
  MaxTries = 1
  Surfaces = {s1, s2}
  Second = s2
  SurfacePositions = {1, 2}
  Extents = {1}
  ScaleSteps = {1, 2}
  EventSlots = 2
  MaxStrays = 1
SYMMETRY Symmetry
INVARIANTS
  OwnersStayUsable
  ShellIsAccounted
  ClipboardIsTrue
  SurfacesAreTrue
