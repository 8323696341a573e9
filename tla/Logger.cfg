INIT MCInit
NEXT MCNext
CONSTANTS
  Producers = {p1, p2}
  SoftLimit = 1
  HardLimit = 2
  BatchLimit = 1
  SizeMod = 8
  Operations = {"shutdown"}
  MaxLogs = 3
  MaxEpochs = 2
  LogLevels = {l1}
  LogSources = {s1}
  MaxRecords = 2
  MaxReports = 1
  MaxInits = 2
  MaxFaults = 2
  SinkBatchLimit = 2
SYMMETRY ProducerSymmetry
CONSTRAINT Bounds
INVARIANTS
  RingIsSafe
  StorageOutlivesUse
  DeliveredInTicketOrder
  NoLostWakeup
  SinksAreTrue
