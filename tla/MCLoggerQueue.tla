---------------------------- MODULE MCLoggerQueue ----------------------------
(***************************************************************************)
(* The queue with its liveness: TLC cannot use the symmetry of the         *)
(* producers here, so the one that logs first is named.  Fairness asks no  *)
(* producer to begin a call, so nothing else is restricted.                *)
(***************************************************************************)
EXTENDS LoggerQueue

CONSTANT First

FirstLogs == calls = 0 /\ calls' = 1 => record'[First] = 1

MCSpec == Init /\ [][Next /\ FirstLogs]_vars /\ Fairness
=============================================================================
