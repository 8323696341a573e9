--------------------------- MODULE TerminalScopes ---------------------------
(***************************************************************************)
(* Nested output-state scopes of one terminal output stream.  The cursor   *)
(* scope is modelled; AlternateScreenScope is the same code with other     *)
(* control sequences.  Scopes belong to different threads: each critical   *)
(* section under OutputState::mutex is one action, and a destructor has    *)
(* two of them.                                                            *)
(*                                                                         *)
(* A control sequence that was written may still fail to flush, so a scope *)
(* is "inactive", "active", "emitted" (the show sequence is out, its flush *)
(* is owed) or "dying" (its destructor is about to abandon it).            *)
(***************************************************************************)
EXTENDS Integers, FiniteSets

CONSTANTS Scopes,                  \* scope objects
          SessionScopes,           \* those that belong to a Session
          MaxDepth,                \* largest nesting depth (size_t in the code)
          DestructorFlushFails     \* whether the flush of a destructor's restore may fail

ASSUME ScopesAssumption ==
  /\ IsFiniteSet(Scopes) /\ SessionScopes \subseteq Scopes
  /\ MaxDepth \in Nat \ {0}
  /\ DestructorFlushFails \in BOOLEAN

VARIABLES scope,     \* phase of each scope object
          depth,     \* OutputState::cursorHiddenScopeDepth
          cursor,    \* "hidden" or "shown", as the emitted sequences left it
          author     \* history: "scopes" when their last sequence left the cursor so, "other" when
                     \* a direct call did or a destructor could not emit the show sequence

vars == <<scope, depth, cursor, author>>

Phases == {"inactive", "active", "emitted", "dying"}

Holders == {s \in Scopes : scope[s] \in {"active", "dying"}}

-----------------------------------------------------------------------------

\* writeControlSequenceUnlocked with a sequence that was written
Emit(value) ==
  cursor' = value /\ author' = "scopes"

\* Mutation: the depth is raised without looking at its limit.
ScopedCursorHidden_Unbounded(s) ==
  /\ scope[s] = "inactive"
  /\ IF depth = 0 THEN Emit("hidden") ELSE UNCHANGED <<cursor, author>>
  /\ depth' = depth + 1
  /\ scope' = [scope EXCEPT ![s] = "active"]

\* scopedCursorHidden; a capability or write failure leaves an inactive scope and no trace.
ScopedCursorHidden(s) ==
  /\ scope[s] = "inactive" /\ depth < MaxDepth
  /\ IF depth = 0 THEN Emit("hidden") ELSE UNCHANGED <<cursor, author>>
  /\ depth' = depth + 1
  /\ scope' = [scope EXCEPT ![s] = "active"]

\* A scope object created outside Sessions
CreateScope(s) ==
  /\ s \notin SessionScopes
  /\ ScopedCursorHidden(s)

\* Session::setCursorVisible(false), which takes its own active scope for a hidden cursor, even
\* one that only owes a flush
SessionHide(s) ==
  /\ s \in SessionScopes
  /\ \/ ScopedCursorHidden(s)
     \/ scope[s] \in {"active", "emitted"} /\ UNCHANGED vars

\* Terminal::setCursorVisible, which knows nothing of the scopes, called by the program or by a
\* Session that has nothing to restore
DirectSetCursorVisible(value) ==
  /\ cursor' = value /\ author' = "other"
  /\ UNCHANGED <<scope, depth>>

\* Mutation: every restore shows the cursor, not only the outermost.
RestoreStep_ShowsAlways(s, after) ==
  \/ /\ scope[s] = "active" /\ depth > 0 /\ after \in {"inactive", "emitted"}
     /\ depth' = depth - 1 /\ Emit("shown")
  \/ /\ scope[s] = "emitted" /\ after \in {"inactive", "emitted"}
     /\ UNCHANGED <<depth, cursor, author>>

\* Mutation: the outermost restore gives up its depth although nothing was written.
RestoreStep_ReleasesUnwritten(s, after) ==
  \/ /\ scope[s] = "active" /\ depth # 1 /\ after = "inactive"
     /\ depth' = IF depth > 0 THEN depth - 1 ELSE 0
     /\ UNCHANGED <<cursor, author>>
  \/ /\ scope[s] = "active" /\ depth = 1
     /\ depth' = 0 /\ after = "inactive" /\ (Emit("shown") \/ UNCHANGED <<cursor, author>>)

\* CursorHiddenScope::restore and restoreCursorHiddenScope, which leave the phase `after'.
\* Inner scopes only count down; the outermost emits, and flushes if that was asked for.  A
\* write that fails keeps the obligation, a flush that fails keeps only the flush.
RestoreStep(s, after) ==
  \/ /\ scope[s] = "active" /\ depth # 1 /\ after = "inactive"
     /\ depth' = IF depth > 0 THEN depth - 1 ELSE 0
     /\ UNCHANGED <<cursor, author>>
  \/ /\ scope[s] = "active" /\ depth = 1 /\ after \in {"inactive", "emitted"}
     /\ depth' = 0 /\ Emit("shown")
  \/ /\ scope[s] = "active" /\ depth = 1 /\ after = "active"
     /\ UNCHANGED <<depth, cursor, author>>
  \/ /\ scope[s] = "emitted" /\ after \in {"inactive", "emitted"}
     /\ UNCHANGED <<depth, cursor, author>>

\* restore(), Session::setCursorVisible(true) and the retrying restoration of Session::close
Restore(s, after) ==
  /\ RestoreStep(s, after)
  /\ scope' = [scope EXCEPT ![s] = after]

\* Mutation: the source is taken over although the destination still holds an obligation.
MoveAssign_Drops(destination, source) ==
  /\ destination # source /\ {destination, source} \cap SessionScopes = {}
  /\ scope[source] # "dying" /\ scope[destination] # "dying"
  /\ scope' = [scope EXCEPT ![destination] = scope[source], ![source] = "inactive"]
  /\ UNCHANGED <<depth, cursor, author>>

\* operator=(CursorHiddenScope &&): a destination that stays active refuses the source.
MoveAssign(destination, source) ==
  /\ destination # source /\ {destination, source} \cap SessionScopes = {}
  /\ scope[source] # "dying"
  /\ \/ /\ \/ scope[destination] = "inactive" /\ UNCHANGED <<depth, cursor, author>>
           \/ RestoreStep(destination, "inactive")
        /\ scope' = [scope EXCEPT ![destination] = scope[source], ![source] = "inactive"]
     \/ \E after \in {"active", "emitted"} :
          /\ RestoreStep(destination, after)
          /\ scope' = [scope EXCEPT ![destination] = after]

\* First half of ~CursorHiddenScope, and of the best-effort restoration in ~Session
BeginDestroy(s) ==
  /\ \/ /\ RestoreStep(s, "inactive")
        /\ scope' = [scope EXCEPT ![s] = "inactive"]
     \/ /\ DestructorFlushFails /\ RestoreStep(s, "emitted")
        /\ scope' = [scope EXCEPT ![s] = "dying"]
     \/ /\ scope[s] = "active" /\ depth = 1 \* the show sequence could not be written
        /\ scope' = [scope EXCEPT ![s] = "dying"]
        /\ author' = "other"
        /\ UNCHANGED <<depth, cursor>>

\* Second half: abandonCursorHiddenScope releases the depth of a scope that is still active.
Abandon(s) ==
  /\ scope[s] = "dying"
  /\ depth' = IF depth > 0 THEN depth - 1 ELSE 0
  /\ scope' = [scope EXCEPT ![s] = "inactive"]
  /\ UNCHANGED <<cursor, author>>

-----------------------------------------------------------------------------

Init ==
  /\ scope = [s \in Scopes |-> "inactive"]
  /\ depth = 0 /\ cursor = "shown" /\ author = "scopes"

Next ==
  \/ \E s \in Scopes : CreateScope(s) \/ SessionHide(s) \/ BeginDestroy(s) \/ Abandon(s)
  \/ \E s \in Scopes, after \in {"inactive", "active", "emitted"} : Restore(s, after)
  \/ \E destination, source \in Scopes : MoveAssign(destination, source)
  \/ \E value \in {"hidden", "shown"} : DirectSetCursorVisible(value)

Spec == Init /\ [][Next]_vars

-----------------------------------------------------------------------------

\* Types
TypeOK ==
  /\ scope \in [Scopes -> Phases]
  /\ depth \in 0..MaxDepth
  /\ cursor \in {"hidden", "shown"} /\ author \in {"scopes", "other"}

\* The shared depth of the stream is the number of scopes that still have to release it, whatever
\* writes and flushes failed, was retried, moved or destroyed (OutputState::cursorHiddenScopeDepth).
DepthCountsHolders == depth = Cardinality(Holders)

\* While some scope is active and nobody wrote to the cursor behind the scopes' back, the cursor
\* is hidden: an inner scope that is restored, moved or destroyed does not show it.
HiddenWhileHeld == Holders # {} /\ author = "scopes" => cursor = "hidden"

\* Once every scope has released its part the cursor is shown: the last one to restore emits
\* the show sequence, in whatever order the scopes end.
ShownWhenReleased == Holders = {} /\ author = "scopes" => cursor = "shown"

\* The shared depth and the cursor agree with the scopes that are alive, whatever was
\* nested, moved, abandoned or restored late: the depth counts the scopes that owe a
\* release, and the cursor is hidden while there is one and shown afterwards.
ScopesAreTrue == TypeOK /\ DepthCountsHolders /\ HiddenWhileHeld /\ ShownWhenReleased
=============================================================================
