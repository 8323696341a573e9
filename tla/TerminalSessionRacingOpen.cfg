SPECIFICATION SessionSpec
CONSTANTS
  Sessions = {first}
  Threads = {t1, t2}
  Outputs = {cursor}
  MaxNesting = 1
  OpensAlone = FALSE
INVARIANTS
  LeaseKeepsBinding
