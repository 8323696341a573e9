SPECIFICATION MCSpec
CONSTANTS
  Producers = {p1, p2}
  First = p1
  SoftLimit = 1
  HardLimit = 1
  BatchLimit = 1
  SizeMod = 8
  Operations = {"flush", "shutdown"}
  MaxLogs = 2
  MaxEpochs = 1
INVARIANTS
  CallsCoverRecords
PROPERTIES
  CallsReturn
  TicketsAreDrained
