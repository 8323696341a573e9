SPECIFICATION MCSpec
CONSTANTS
  Extents = {0, 1, 2}
  MaxGeneration = 4
  MaxEpoch = 4
  Readers = {r1, r2}
  FieldCount = 2
  MaxVersion = 3
  MaxAttempts = 2
  Publishers = {p1}
  Clients = {c1}
  Root = 1
  Contents <- MCContents
  RingSize = 2
  ActionSlots = 1
  MaxProviders = 2
  MaxPublications = 3
  MaxRuntime = 2
  MaxRequest = 1
  TextClients = {t1, t2}
  Slots = {s1}
  Units = {"character", "document"}
  Texts <- MCTexts
  Counts <- MCCounts
  MaxExchanges = 2
  TreeIds = {1, 2, 3}
  TreeRoot = 1
  NodeShapes <- MCNodeShapes
  MaxTreeNodes = 3
  MaxChildren = 2
  MaxNodeBytes = 1
  MaxTotalBytes = 1
  ModeWindows = {w1}
  Displays = {d1, d2}
  PrimaryDisplay = d1
  ExactModes = {"game", "odd"}
  ListedModes = {"game"}
  MaxActivations = 2
  None = None
  Owners = {o1, o2}
  Extensions = {ext}
  Schemes = {uri}
  Apps = {app}
  AppDescriptions = {a1}
  NoValue = NoValue
  Malformed = Malformed
  Other = Other
  PartialRecord = PartialRecord
  MaxCalls = 2
  Regions = {"r1"}
  DropSlots = 3
  MaxDropSequence = 4
  MaxSessions = 2
INVARIANTS
  ActiveMaskIsCurrent
  RendererSeesTheWindow
  GeometryCoherent
  TreesAreTrue
  RangesAreShared
  TreesAreExact
  DesktopIsRestored
  RegistrationIsAtomic
  DefaultsNameAProgram
  DragIsSound
PROPERTY
  GenerationsGrow
