SPECIFICATION MCSpec
CONSTANTS
  Dialogs = {d1, d2}
  NoDialog = NoDialog
  Descriptions <- MCBlockingOnly
  MaxFaults = 2
  MaxToggles = 0
  RollbackFaults = FALSE
  Sessions = {first}
  Threads = {t1, t2}
  Outputs = {cursor}
  MaxNesting = 2
  OpensAlone = TRUE
PROPERTIES
  DestructionSettles
  MutationsFinish
\* a session and a dialog at rest may stay so; deadlock is checked by the runs of their safety
CHECK_DEADLOCK FALSE
