--------------------------- MODULE MCCallsFinish ---------------------------
(***************************************************************************)
(* Liveness of two components that wait for other threads: the progress    *)
(* dialogs, whose destruction the owner's pump completes, and the terminal *)
(* Session, whose mutations wait for the calls in flight.  Each behaviour  *)
(* is one of them, and the fairness of each is stated for its behaviours.  *)
(***************************************************************************)
EXTENDS ProgressDialogs, TerminalSession

VARIABLE part

MCBlockingOnly == {[owned |-> TRUE, blocks |-> TRUE, cancelable |-> TRUE]}

MCInit == Init /\ SessionInit /\ part \in {"progress", "session"}

MCNext ==
    /\ UNCHANGED part
    /\ \/ part = "progress" /\ Next /\ UNCHANGED sessionVars
       \/ part = "session" /\ SessionNext /\ UNCHANGED vars

\* ProgressDialogs!Fairness, for the behaviours of that part
FairDialogs ==
    /\ WF_vars(part = "progress" /\ OwnerContinues)
    /\ SF_vars(part = "progress" /\ Pump)
    /\ \A d \in Dialogs :
         WF_vars(/\ part = "progress"
                 /\ ReadOwnerThread(d) \/ ReadThroughPlatform(d) \/ DeferToOwner(d) \/ ForeignFallback(d))

\* TerminalSession!SessionFairness, likewise
FairSessions ==
    /\ \A t \in Threads : WF_sessionVars(part = "session" /\ Step(t))
    /\ \A t \in Threads, n \in 1 .. MaxNesting :
         SF_sessionVars(part = "session" /\ Len(stack[t]) = n /\ EndOperation(t))

MCSpec == MCInit /\ [][MCNext]_<<vars, sessionVars, part>> /\ FairDialogs /\ FairSessions
=============================================================================
