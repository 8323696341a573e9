INIT MCInit
NEXT MCNext
CONSTANTS
  Scopes = {outer, inner, spare, held}
  SessionScopes = {held}
  MaxDepth = 3
  DestructorFlushFails = FALSE
  Sessions = {first, second}
  Threads = {t1, t2}
  Outputs = {cursor, screen}
  MaxNesting = 2
  OpensAlone = TRUE
  StreamBytes = {"a", "h", "l", "r", "n"}
  Records <- MCRecords
  Limits = {1, 3}
  BatchSize = 2
  MaxSent = 3
  MaxEndpoints = 2
  Widths = {3, 4}
  Rows = {2, 20}
  Starts = {2}
  TabStop = 2
  MaxBytes = 4
  Typed = {"a", "w", "m"}
  Pastes <- MCPastes
  MaxRepeat = 2
  MaxResizes = 1
  NumSlots = 2
  XPads = {0}
  HidPads = {h1}
  Unusable = {}
  MaxIndex = 3
  MaxPlugs = 1
  MaxPackets = 2
  MaxClears = 2
  Pool <- MCPool
  CaptureOptions <- MCOptions
  CancelControls = {}
  HoldSeconds = 2
  DoubleTapSeconds = 1
  MaxToggles = 2
  MaxBindings = 2
  MaxChanges = 2
  Positions = {0, 1, 2}
SYMMETRY MCSymmetry
INVARIANTS
  ScopesAreTrue
  LeaseKeepsBinding
  SessionIsConsistent
  InputIsExact
  LineIsTrue
  PadsAreExact
  ActionsAreExact
