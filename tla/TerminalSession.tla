--------------------------- MODULE TerminalSession ---------------------------
(***************************************************************************)
(* Terminal::Session: the active-operation leases of its calls, the        *)
(* lifecycle mutations open, close and destruction that wait for them, the *)
(* process-wide ownership of stdin that Sessions share with direct reads,  *)
(* the native input mode and the output obligations a close gives back.    *)
(*                                                                         *)
(* A thread is a stack of calls, because a formatter run by a formatted    *)
(* write may call the same or another Session, or read directly.           *)
(***************************************************************************)
EXTENDS Integers, Sequences, FiniteSets, SequencesExt

CONSTANTS Sessions, Threads,
          Outputs,          \* persistent output states a Session can hold
          MaxNesting,       \* deepest nesting of calls on one thread
          OpensAlone        \* whether the program keeps open() apart from other calls

ASSUME SessionAssumption ==
  /\ IsFiniteSet(Sessions) /\ IsFiniteSet(Threads) /\ IsFiniteSet(Outputs)
  /\ Sessions \cap Threads = {}
  /\ "none" \notin Sessions \cup Threads /\ "original" \notin Sessions \cup Threads
  /\ MaxNesting \in Nat \ {0}
  /\ OpensAlone \in BOOLEAN

VARIABLES stack,     \* calls under way on each thread, the outermost first
          open,      \* State::open
          gate,      \* "free", "draining" (lifecycleMutation set) or "held" (activeOperations is 0
                     \* and the mutation keeps lifecycleMutex)
          active,    \* State::activeOperations
          owed,      \* outputRestoreOrder of each Session
          holder,    \* InputCoordinator: the Session or the reading thread that owns stdin
          mode,      \* native input mode: "original" or the owner that configured it
          saved,     \* PreparedInputOwnership::previousMode of each owner, or "none"
          lost       \* history: a best-effort restoration of the input mode failed

inputVars == <<holder, mode, saved, lost>>
sessionVars == <<stack, open, gate, active, owed, inputVars>>

Owners == Sessions \cup Threads
Operations == {"read", "format", "output"}
Mutations == {"open", "close", "destroy"}
Frames == [op : Operations \cup Mutations \cup {"direct"}, session : Sessions \cup {"none"},
           at : {"start", "check", "using", "done", "draining", "held", "claimed", "undo", "configured",
                 "restoring", "restored", "leaving"},
           leased : BOOLEAN]

Top(t) == Last(stack[t])
At(t, ops, place) == stack[t] # <<>> /\ Top(t).op \in ops /\ Top(t).at = place
Owner(t) == IF Top(t).op = "direct" THEN t ELSE Top(t).session

Calls(s) == {c \in Threads \X (1..MaxNesting) : c[2] \in DOMAIN stack[c[1]] /\ stack[c[1]][c[2]].session = s}

\* Operation::activeOnCurrentThread
ActiveOnThread(t, s) ==
  \E i \in DOMAIN stack[t] : stack[t][i].session = s /\ stack[t][i].leased

\* The current call moves on, or returns.
Goto(t, place) == stack' = [stack EXCEPT ![t][Len(stack[t])].at = place]
Return(t) == stack' = [stack EXCEPT ![t] = Front(@)]

-----------------------------------------------------------------------------
(* Calls.  A call that returns before it touches any state is not a step:  *)
(* an invalid argument, a Session never opened, open or close from inside  *)
(* an operation of the same Session, a direct read that was cancelled.     *)

\* How the program may use a Session: it destroys one only when no call is under way, and when
\* OpensAlone it does not call open while an operation is.
Permitted(op, s) ==
  /\ op = "destroy" => Calls(s) = {}
  /\ \A c \in Calls(s) : stack[c[1]][c[2]].op # "destroy"
  /\ OpensAlone => \A c \in Calls(s) :
       /\ op = "open" => stack[c[1]][c[2]].op \in Mutations
       /\ op \in Operations => stack[c[1]][c[2]].op # "open"

Call(t, op, s) ==
  /\ Len(stack[t]) < MaxNesting
  /\ stack[t] # <<>> => At(t, {"format"}, "using")
  /\ op \in Mutations => ~ActiveOnThread(t, s)
  /\ op # "direct" => Permitted(op, s)
  /\ stack' = [stack EXCEPT ![t] = Append(@, [op |-> op, session |-> s, at |-> "start", leased |-> FALSE])]
  /\ UNCHANGED <<open, gate, active, owed, inputVars>>

-----------------------------------------------------------------------------
(* Operations.                                                             *)

\* Mutation: a nested call waits for the mutation like any other.
Admit_ReentrantWaits(t) ==
  LET s == Top(t).session IN
  /\ At(t, Operations, "start") /\ gate[s] = "free"
  /\ stack' = [stack EXCEPT ![t][Len(stack[t])] = [op |-> @.op, session |-> s, at |-> "check", leased |-> open[s]]]
  /\ active' = [active EXCEPT ![s] = IF open[s] THEN @ + 1 ELSE @]
  /\ UNCHANGED <<open, gate, owed, inputVars>>

\* State::Operation's constructor: it waits out a mutation unless this thread is inside an
\* operation of the same Session already, and takes a lease if the Session is open.
Admit(t) ==
  LET s == Top(t).session IN
  /\ At(t, Operations, "start")
  /\ gate[s] = "free" \/ (gate[s] = "draining" /\ ActiveOnThread(t, s))
  /\ stack' = [stack EXCEPT ![t][Len(stack[t])] = [op |-> @.op, session |-> s, at |-> "check", leased |-> open[s]]]
  /\ active' = [active EXCEPT ![s] = IF open[s] THEN @ + 1 ELSE @]
  /\ UNCHANGED <<open, gate, owed, inputVars>>

\* Operation's destructor
ReleaseLease(t) ==
  /\ active' = [active EXCEPT ![Top(t).session] = IF Top(t).leased THEN @ - 1 ELSE @]
  /\ Return(t)

\* Every operation looks at State::open again after the constructor returned; a read takes
\* inputOperationMutex before it does.
CheckOpen(t) ==
  LET s == Top(t).session IN
  /\ At(t, Operations, "check")
  /\ Top(t).op = "read" => \A u \in Threads : At(u, {"read"}, "using") => Top(u).session # s
  /\ IF open[s] THEN Goto(t, "using") /\ UNCHANGED active ELSE ReleaseLease(t)
  /\ UNCHANGED <<open, gate, owed, inputVars>>

\* Mutation: a state is recorded again although the Session holds it.
UseOutput_RecordsTwice(t) ==
  LET s == Top(t).session IN
  /\ At(t, {"output"}, "using")
  /\ \E k \in Outputs : owed' = [owed EXCEPT ![s] = Append(@, k)]
  /\ Goto(t, "done")
  /\ UNCHANGED <<open, gate, active, inputVars>>

\* setCursorVisible, enterAlternateScreen and leaveAlternateScreen under persistentOutputMutex:
\* a state is taken once, given back when the Session holds it, and kept when the terminal fails.
UseOutput(t) ==
  LET s == Top(t).session IN
  /\ At(t, {"output"}, "using")
  /\ \E k \in Outputs :
       \/ UNCHANGED owed
       \/ ~Contains(owed[s], k) /\ owed' = [owed EXCEPT ![s] = Append(@, k)]
       \/ \E i \in DOMAIN owed[s] : owed[s][i] = k /\ owed' = [owed EXCEPT ![s] = RemoveAt(@, i)]
  /\ Goto(t, "done")
  /\ UNCHANGED <<open, gate, active, inputVars>>

\* The backend call or the formatter returns, and the lease with it.
EndOperation(t) ==
  /\ At(t, {"read", "format"}, "using") \/ At(t, {"output"}, "done")
  /\ ReleaseLease(t)
  /\ UNCHANGED <<open, gate, owed, inputVars>>

-----------------------------------------------------------------------------
(* Lifecycle mutations.                                                    *)

\* State::Mutation's constructor up to its second wait
BeginMutation(t) ==
  LET s == Top(t).session IN
  /\ At(t, Mutations, "start") /\ gate[s] = "free"
  /\ gate' = [gate EXCEPT ![s] = "draining"]
  /\ Goto(t, "draining")
  /\ UNCHANGED <<open, active, owed, inputVars>>

\* Mutation: the mutation does not wait for the active operations.
EnterMutation_DoesNotWait(t) ==
  LET s == Top(t).session IN
  /\ At(t, Mutations, "draining")
  /\ gate' = [gate EXCEPT ![s] = "held"]
  /\ Goto(t, "held")
  /\ UNCHANGED <<open, active, owed, inputVars>>

\* and its end: no operation is active, and lifecycleMutex stays locked
EnterMutation(t) ==
  LET s == Top(t).session IN
  /\ At(t, Mutations, "draining") /\ active[s] = 0
  /\ gate' = [gate EXCEPT ![s] = "held"]
  /\ Goto(t, "held")
  /\ UNCHANGED <<open, active, owed, inputVars>>

\* State::Mutation's destructor, with which every lifecycle call returns
EndMutation(t) ==
  LET s == Top(t).session IN
  /\ \/ At(t, Mutations, "leaving")
     \/ (At(t, {"open"}, "held") /\ open[s])                \* AlreadyOpen
     \/ (At(t, {"close", "destroy"}, "held") /\ ~open[s])   \* nothing to close
  /\ gate' = [gate EXCEPT ![s] = "free"]
  /\ Return(t)
  /\ UNCHANGED <<open, active, owed, inputVars>>

\* claimInput and claimDirectInput; a busy stdin ends the call.
Claim(t) ==
  /\ At(t, {"direct"}, "start") \/ (At(t, {"open"}, "held") /\ ~open[Top(t).session])
  /\ \/ holder = "none" /\ holder' = Owner(t) /\ Goto(t, "claimed")
     \/ /\ holder # "none" /\ UNCHANGED holder
        /\ IF Top(t).op = "direct" THEN Return(t) ELSE Goto(t, "leaving")
  /\ UNCHANGED <<open, gate, active, owed, mode, saved, lost>>

\* Mutation: the mode is set before it is captured, and the capture may fail.
Configure_CapturesLate(t) ==
  LET o == Owner(t) IN
  /\ At(t, {"open", "direct"}, "claimed")
  /\ mode' = o
  /\ \/ saved' = [saved EXCEPT ![o] = mode] /\ Goto(t, "configured")
     \/ UNCHANGED saved /\ Goto(t, "undo")
  /\ UNCHANGED <<open, gate, active, owed, holder, lost>>

\* acquireManagedInput under the input mutex: a redirected stdin has no mode to manage, the
\* capabilities, the capture or the new mode may fail.
Configure(t) ==
  LET o == Owner(t) IN
  /\ At(t, {"open", "direct"}, "claimed")
  /\ \/ UNCHANGED <<mode, saved>> /\ (Goto(t, "configured") \/ Goto(t, "undo"))
     \/ saved' = [saved EXCEPT ![o] = mode] /\ mode' = o /\ Goto(t, "configured")
     \/ saved' = [saved EXCEPT ![o] = mode] /\ UNCHANGED mode /\ Goto(t, "undo")
  /\ UNCHANGED <<open, gate, active, owed, holder, lost>>

\* Session::open stores the ownership and publishes the open Session.
PublishOpen(t) ==
  /\ At(t, {"open"}, "configured")
  /\ open' = [open EXCEPT ![Top(t).session] = TRUE]
  /\ Goto(t, "leaving")
  /\ UNCHANGED <<gate, active, owed, inputVars>>

\* Mutation: the input mode is restored before the output states, which may fail.
RestoreOutput_AfterInput(t) ==
  LET s == Top(t).session IN
  /\ At(t, {"close", "destroy"}, "held") /\ open[s]
  /\ mode' = IF saved[s] = "none" THEN mode ELSE saved[s]
  /\ \E n \in 0..Len(owed[s]) :
       /\ owed' = [owed EXCEPT ![s] = SubSeq(@, 1, n)]
       /\ Goto(t, IF n = 0 THEN "restoring" ELSE "leaving")
  /\ UNCHANGED <<open, gate, active, holder, saved, lost>>

\* restoreOutputState gives back in reverse order until it fails; a destructor goes on.
RestoreOutput(t) ==
  LET s == Top(t).session IN
  /\ At(t, {"close", "destroy"}, "held") /\ open[s]
  /\ \E n \in 0..Len(owed[s]) :
       IF n = 0 \/ Top(t).op = "destroy"
       THEN owed' = [owed EXCEPT ![s] = <<>>] /\ Goto(t, "restoring")
       ELSE owed' = [owed EXCEPT ![s] = SubSeq(@, 1, n)] /\ Goto(t, "leaving")
  /\ UNCHANGED <<open, gate, active, inputVars>>

\* Whether a failed restoration of the input mode keeps the ownership for a retry
Retains(t) == Top(t).op = "close"

\* Mutation: a close that cannot restore the mode gives up stdin although the Session stays open.
RestoreInput_AlwaysReleases(t) ==
  LET o == Owner(t) IN
  /\ At(t, {"close", "destroy"}, "restoring") \/ At(t, {"open", "direct"}, "undo")
     \/ At(t, {"direct"}, "configured")
  /\ \/ /\ mode' = (IF saved[o] = "none" THEN mode ELSE saved[o]) /\ Goto(t, "restored")
        /\ UNCHANGED <<lost, holder>>
     \/ /\ saved[o] # "none" /\ UNCHANGED mode /\ lost' = TRUE
        /\ IF Retains(t) THEN Goto(t, "leaving") /\ holder' = "none" ELSE Goto(t, "restored") /\ UNCHANGED holder
  /\ UNCHANGED <<open, gate, active, owed, saved>>

\* First half of restoreManagedInput, in close, in a destructor, after a failed acquisition and
\* when a direct read is over
RestoreInput(t) ==
  LET o == Owner(t) IN
  /\ At(t, {"close", "destroy"}, "restoring") \/ At(t, {"open", "direct"}, "undo")
     \/ At(t, {"direct"}, "configured")
  /\ \/ mode' = (IF saved[o] = "none" THEN mode ELSE saved[o]) /\ Goto(t, "restored") /\ UNCHANGED lost
     \/ /\ saved[o] # "none" /\ UNCHANGED mode
        /\ IF Retains(t) THEN Goto(t, "leaving") /\ UNCHANGED lost ELSE Goto(t, "restored") /\ lost' = TRUE
  /\ UNCHANGED <<open, gate, active, owed, holder, saved>>

\* Second half: releaseInput or releaseDirectInput, and the captured mode is forgotten.
ReleaseInput(t) ==
  LET o == Owner(t) IN
  /\ At(t, {"open", "close", "destroy", "direct"}, "restored")
  /\ holder' = IF holder = o THEN "none" ELSE holder
  /\ saved' = [saved EXCEPT ![o] = "none"]
  /\ IF Top(t).op = "direct" THEN Return(t) ELSE Goto(t, IF Top(t).op = "open" THEN "leaving" ELSE "done")
  /\ UNCHANGED <<open, gate, active, owed, mode, lost>>

\* The end of close and of the destructor
PublishClosed(t) ==
  /\ At(t, {"close", "destroy"}, "done")
  /\ open' = [open EXCEPT ![Top(t).session] = FALSE]
  /\ Goto(t, "leaving")
  /\ UNCHANGED <<gate, active, owed, inputVars>>

-----------------------------------------------------------------------------

SessionInit ==
  /\ stack = [t \in Threads |-> <<>>]
  /\ open = [s \in Sessions |-> FALSE]
  /\ gate = [s \in Sessions |-> "free"]
  /\ active = [s \in Sessions |-> 0]
  /\ owed = [s \in Sessions |-> <<>>]
  /\ holder = "none" /\ mode = "original"
  /\ saved = [o \in Owners |-> "none"]
  /\ lost = FALSE

\* What a call under way does next
Step(t) ==
  \/ Admit(t) \/ CheckOpen(t) \/ UseOutput(t)
  \/ BeginMutation(t) \/ EnterMutation(t) \/ EndMutation(t)
  \/ Claim(t) \/ Configure(t) \/ PublishOpen(t)
  \/ RestoreOutput(t) \/ RestoreInput(t) \/ ReleaseInput(t) \/ PublishClosed(t)

SessionNext ==
  \E t \in Threads :
    \/ \E op \in Operations \cup Mutations, s \in Sessions : Call(t, op, s)
    \/ Call(t, "direct", "none")
    \/ Step(t) \/ EndOperation(t)

SessionSpec == SessionInit /\ [][SessionNext]_sessionVars

\* Threads are scheduled, a blocking read ends and a formatter makes finitely many calls, so that
\* the operation at each level of nesting ends.
SessionFairness ==
  /\ \A t \in Threads : WF_sessionVars(Step(t))
  /\ \A t \in Threads, n \in 1..MaxNesting : SF_sessionVars(Len(stack[t]) = n /\ EndOperation(t))

SessionFairSpec == SessionSpec /\ SessionFairness

-----------------------------------------------------------------------------

\* Types; outputRestoreOrder is an array with one place per kind of output state.
SessionTypeOK ==
  /\ \A t \in Threads : Len(stack[t]) <= MaxNesting /\ \A i \in DOMAIN stack[t] : stack[t][i] \in Frames
  /\ open \in [Sessions -> BOOLEAN]
  /\ gate \in [Sessions -> {"free", "draining", "held"}]
  /\ active \in [Sessions -> 0..(Cardinality(Threads) * MaxNesting)]
  /\ \A s \in Sessions : Range(owed[s]) \subseteq Outputs /\ Len(owed[s]) <= Cardinality(Outputs)
  /\ holder \in Owners \cup {"none"}
  /\ mode \in Owners \cup {"original"}
  /\ saved \in [Owners -> Owners \cup {"original", "none"}]
  /\ lost \in BOOLEAN

\* A close or destruction that was let in
Closing(s) ==
  \E c \in Calls(s) : LET f == stack[c[1]][c[2]] IN f.op \in {"close", "destroy"} /\ f.at \notin {"start", "draining"}

\* A call that went past its open check finds the Session open, and no close inside its critical
\* part, until it returns (docs/read_write.md on active-operation leases).
LeaseKeepsBinding ==
  \A s \in Sessions : \A c \in Calls(s) :
    stack[c[1]][c[2]].op \in Operations /\ stack[c[1]][c[2]].at \in {"using", "done"}
      => open[s] /\ ~Closing(s)

\* An open Session owns stdin, and once no mutation is in its critical part a closed one does not:
\* no failure or retry of open and close separates the two.
OpenOwnsInput ==
  \A s \in Sessions : gate[s] # "held" => (open[s] <=> holder = s)

\* While an owner that captured a mode owns stdin its own mode is in force: nobody else's
\* configuration or restoration runs in between, nested and direct reads included.
ModeOfOwner ==
  \A s \in Sessions : open[s] /\ gate[s] # "held" /\ saved[s] # "none" => mode = s

\* When nobody owns stdin it has the mode it had before anybody did, unless a best-effort
\* restoration failed.
ModeIsRestored == holder = "none" /\ ~lost => mode = "original"

\* A Session that is closed has given back every output state: no call adds one after close
\* gave them back.
ClosedOwesNothing ==
  \A s \in Sessions : ~open[s] => owed[s] = <<>>

\* A mutation that closed the admission gate enters, finishes and reopens it, whatever calls
\* formatters make on the Session being closed.
MutationsFinish ==
  \A s \in Sessions : gate[s] # "free" ~> gate[s] = "free"

\* Who owns stdin, and what is owed to the terminal: an open session owns the
\* input, the console has the mode of its owner, and a close leaves neither a mode
\* nor a scope behind.
SessionIsConsistent ==
    /\ SessionTypeOK
    /\ OpenOwnsInput
    /\ ModeOfOwner
    /\ ModeIsRestored
    /\ ClosedOwesNothing
=============================================================================
