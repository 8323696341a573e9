--------------------------- MODULE TerminalProofs ---------------------------
(***************************************************************************)
(* Proofs about what the terminal library shares.                          *)
(*                                                                         *)
(* Output scopes: for any number of scopes, created, restored, moved and   *)
(* destroyed in any order, the nesting depth counts the scopes that hold   *)
(* the cursor hidden, the cursor is hidden while there is one and shown    *)
(* when there is none.  The only assumption is that the flush of a         *)
(* destructor's restore does not fail: the model shows what happens when   *)
(* it does.                                                                *)
(*                                                                         *)
(* Sessions: for any number of Sessions, threads and levels of nesting,    *)
(* who owns stdin, whose input mode is in force and what is owed to the    *)
(* terminal stay together through every interleaving of operations, opens, *)
(* closes, destructions and direct reads.  What a lease protects is proved *)
(* for programs that keep open() apart from other calls, as the runs       *)
(* assume.                                                                 *)
(***************************************************************************)
EXTENDS TerminalScopes, TerminalSession, FiniteSetTheorems, SequenceTheorems, TLAPS

-----------------------------------------------------------------------------
(* Output scopes *)

\* While a destructor is between its failed restore and its release, the scopes have emitted
\* nothing since: its depth keeps every other scope from being the outermost.
DyingIsOther == \A s \in Scopes : scope[s] = "dying" => author = "other"

\* The inductive invariant.  DyingIsOther is what the release of a destructor needs: the depth it
\* brings to zero leaves a cursor that nobody showed.
ScopeInv ==
  /\ TypeOK
  /\ DepthCountsHolders
  /\ HiddenWhileHeld
  /\ ShownWhenReleased
  /\ DyingIsOther

\* The holders are finite, and empty exactly when the depth is zero.
LEMMA HoldersFinite ==
  ASSUME TypeOK
  PROVE  /\ IsFiniteSet(Holders)
         /\ Cardinality(Holders) \in Nat
         /\ Cardinality(Holders) = 0 <=> Holders = {}
<1>1. Holders \subseteq Scopes
  BY DEF Holders
<1>2. IsFiniteSet(Holders)
  BY <1>1, FS_Subset, ScopesAssumption
<1> QED
  BY <1>2, FS_CardinalityType, FS_EmptySet

\* A scope that becomes a holder raises the count by one.
LEMMA HoldersGain ==
  ASSUME TypeOK, NEW s \in Scopes, s \notin Holders, Holders' = Holders \cup {s}
  PROVE  Cardinality(Holders') = Cardinality(Holders) + 1
BY HoldersFinite, FS_AddElement

\* A scope that stops being a holder lowers the count by one.
LEMMA HoldersLose ==
  ASSUME TypeOK, NEW s \in Holders, Holders' = Holders \ {s}
  PROVE  Cardinality(Holders') = Cardinality(Holders) - 1
BY HoldersFinite, FS_RemoveElement

\* The two statements about the cursor, told by the depth instead of by the holders.
Balanced ==
  /\ depth # 0 /\ author = "scopes" => cursor = "hidden"
  /\ depth = 0 /\ author = "scopes" => cursor = "shown"

\* ScopeInv is types, counting and balance.
LEMMA ScopeInvParts ==
  ScopeInv <=> TypeOK /\ DepthCountsHolders /\ Balanced /\ DyingIsOther
BY HoldersFinite DEF ScopeInv, DepthCountsHolders, HiddenWhileHeld, ShownWhenReleased, Balanced

\* The same of the next state.
LEMMA ScopeInvPartsPrimed ==
  ScopeInv' <=> TypeOK' /\ DepthCountsHolders' /\ Balanced' /\ DyingIsOther'
BY ScopeInvParts, PTL

\* What a restore leaves in the shared state of the stream: the depth counts the holders
\* without the scope, unless the scope keeps its obligation.
LEMMA RestoreStepEffect ==
  ASSUME ScopeInv, NEW s \in Scopes, NEW after \in {"inactive", "active", "emitted"},
         RestoreStep(s, after)
  PROVE  /\ depth' = Cardinality(IF after = "active" THEN Holders ELSE Holders \ {s})
         /\ depth' \in 0..MaxDepth /\ cursor' \in {"hidden", "shown"} /\ author' \in {"scopes", "other"}
         /\ Balanced'
         /\ author' = author \/ \A r \in Scopes : scope[r] # "dying"
<1>1. TypeOK /\ DepthCountsHolders /\ Balanced /\ DyingIsOther
  BY ScopeInvParts
<1>2. Cardinality(Holders \ {s}) = IF s \in Holders THEN Cardinality(Holders) - 1 ELSE Cardinality(Holders)
  BY <1>1, HoldersFinite, FS_RemoveElement
<1>3. CASE scope[s] = "active"
  <2>1. s \in Holders /\ Cardinality(Holders) # 0 /\ depth \in Nat /\ depth = Cardinality(Holders)
    BY <1>1, <1>3, HoldersFinite DEF Holders, DepthCountsHolders
  <2>2. depth # 0
    BY <2>1
  <2>3. CASE depth # 1
    <3>1. after = "inactive" /\ depth' = depth - 1 /\ UNCHANGED <<cursor, author>>
      BY <1>3, <2>2, <2>1, <2>3 DEF RestoreStep
    <3>2. depth' # 0 /\ depth' \in 0..MaxDepth /\ depth # 0
      BY <3>1, <2>1, <2>2, <2>3, <1>1, ScopesAssumption DEF TypeOK
    <3>3. depth' = Cardinality(Holders \ {s})
      BY <3>1, <2>1, <1>2
    <3> QED
      BY <3>1, <3>2, <3>3, <1>1 DEF TypeOK, Balanced
  <2>4. CASE depth = 1
    <3>1. CASE after = "active"
      <4>1. UNCHANGED <<depth, cursor, author>>
        BY <1>3, <3>1, <2>4 DEF RestoreStep
      <4> QED
        BY <4>1, <3>1, <2>1, <1>1 DEF TypeOK, Balanced
    <3>2. CASE after # "active"
      <4>1. depth' = 0 /\ cursor' = "shown" /\ author' = "scopes"
        BY <1>3, <3>2, <2>4 DEF RestoreStep, Emit
      <4>2. Holders = {s}
        <5>1. IsFiniteSet(Holders) /\ Cardinality(Holders) = 1
          BY <2>1, <2>4, <1>1, HoldersFinite
        <5>2. PICK x : Holders = {x}
          BY <5>1, FS_Singleton
        <5> QED
          BY <5>2, <2>1
      <4>3. \A r \in Scopes : scope[r] # "dying"
        BY <4>2, <1>3 DEF Holders
      <4> QED
        BY <4>1, <4>3, <3>2, <2>1, <2>4, <1>2, <1>1, ScopesAssumption DEF TypeOK, Balanced
    <3> QED
      BY <3>1, <3>2
  <2> QED
    BY <2>3, <2>4
<1>4. CASE scope[s] # "active"
  <2>1. scope[s] = "emitted" /\ after # "active" /\ UNCHANGED <<depth, cursor, author>>
    BY <1>4 DEF RestoreStep
  <2>2. s \notin Holders
    BY <2>1 DEF Holders
  <2> QED
    BY <2>1, <2>2, <1>1, <1>2 DEF TypeOK, Balanced, DepthCountsHolders
<1> QED
  BY <1>3, <1>4

\* scopedCursorHidden adds one holder.
LEMMA HideKeepsScopeInv ==
  ASSUME ScopeInv, NEW s \in Scopes, ScopedCursorHidden(s)
  PROVE  ScopeInv'
<1>1. TypeOK /\ DepthCountsHolders /\ Balanced /\ DyingIsOther
  BY ScopeInvParts
<1>2. s \notin Holders /\ Holders' = Holders \cup {s}
  BY <1>1 DEF ScopedCursorHidden, Holders, TypeOK
<1>3. Cardinality(Holders') = depth + 1
  BY <1>1, <1>2, HoldersGain DEF DepthCountsHolders
<1>4. TypeOK'
  BY <1>1, ScopesAssumption DEF ScopedCursorHidden, Emit, TypeOK, Phases
<1>5. Balanced'
  BY <1>1 DEF ScopedCursorHidden, Emit, Balanced, TypeOK
<1>6. DyingIsOther'
  <2>1. CASE depth = 0
    <3>1. \A r \in Scopes : scope[r] # "dying"
      BY <1>1, <2>1, HoldersFinite DEF DepthCountsHolders, Holders
    <3> QED
      BY <3>1, <1>1 DEF ScopedCursorHidden, DyingIsOther, TypeOK
  <2>2. CASE depth # 0
    BY <1>1, <2>2 DEF ScopedCursorHidden, DyingIsOther, TypeOK
  <2> QED
    BY <2>1, <2>2
<1> QED
  BY <1>3, <1>4, <1>5, <1>6, ScopeInvPartsPrimed DEF DepthCountsHolders, ScopedCursorHidden

\* Every step but the temporal argument: no action breaks the invariant.
LEMMA ScopeInvKept ==
  ASSUME ~DestructorFlushFails, ScopeInv, [Next]_vars
  PROVE  ScopeInv'
<1>1. TypeOK /\ DepthCountsHolders /\ Balanced /\ DyingIsOther
  BY ScopeInvParts
<1>2. CASE UNCHANGED vars
  BY <1>2, <1>1, ScopeInvPartsPrimed
     DEF vars, TypeOK, DepthCountsHolders, Balanced, DyingIsOther, Holders
<1>3. ASSUME NEW s \in Scopes, CreateScope(s)
      PROVE  ScopeInv'
  BY <1>1, <1>3, HideKeepsScopeInv DEF CreateScope, TypeOK
<1>4. ASSUME NEW s \in Scopes, SessionHide(s)
      PROVE  ScopeInv'
  <2>2. CASE ScopedCursorHidden(s)
    BY <2>2, HideKeepsScopeInv
  <2>3. CASE UNCHANGED vars
    BY <1>1, <2>3, ScopeInvPartsPrimed
       DEF vars, TypeOK, DepthCountsHolders, Balanced, DyingIsOther, Holders
  <2> QED
    BY <1>4, <2>2, <2>3 DEF SessionHide
<1>5. ASSUME NEW s \in Scopes, NEW after \in {"inactive", "active", "emitted"},
             RestoreStep(s, after), scope' = [scope EXCEPT ![s] = after]
      PROVE  ScopeInv'
  <2>1. /\ depth' = Cardinality(IF after = "active" THEN Holders ELSE Holders \ {s})
        /\ depth' \in 0..MaxDepth
        /\ cursor' \in {"hidden", "shown"} /\ author' \in {"scopes", "other"}
        /\ Balanced'
        /\ author' = author \/ \A r \in Scopes : scope[r] # "dying"
    BY <1>5, RestoreStepEffect
  <2>2. Holders' = IF after = "active" THEN Holders ELSE Holders \ {s}
    BY <1>1, <1>5 DEF Holders, TypeOK, RestoreStep
  <2>3. TypeOK'
    BY <1>1, <1>5, <2>1 DEF TypeOK, Phases
  <2>4. DyingIsOther'
    BY <1>1, <1>5, <2>1 DEF DyingIsOther, TypeOK
  <2> QED
    BY <2>1, <2>2, <2>3, <2>4, ScopeInvPartsPrimed DEF DepthCountsHolders
<1>6. ASSUME NEW s \in Scopes, NEW after \in {"inactive", "active", "emitted"}, Restore(s, after)
      PROVE  ScopeInv'
  BY <1>1, <1>5, <1>6 DEF Restore, TypeOK
<1>7. ASSUME NEW s \in Scopes, BeginDestroy(s)
      PROVE  ScopeInv'
  <2>2. CASE RestoreStep(s, "inactive") /\ scope' = [scope EXCEPT ![s] = "inactive"]
    BY <1>5, <2>2
  <2>3. CASE ~(RestoreStep(s, "inactive") /\ scope' = [scope EXCEPT ![s] = "inactive"])
    <3>1. /\ scope[s] = "active" /\ scope' = [scope EXCEPT ![s] = "dying"]
          /\ author' = "other" /\ UNCHANGED <<depth, cursor>>
      BY <1>7, <2>3 DEF BeginDestroy
    <3>2. Holders' = Holders
      BY <1>1, <3>1 DEF Holders, TypeOK
    <3> QED
      BY <1>1, <3>1, <3>2, ScopeInvPartsPrimed
         DEF TypeOK, Phases, DepthCountsHolders, Balanced, DyingIsOther
  <2> QED
    BY <2>2, <2>3
<1>8. ASSUME NEW s \in Scopes, Abandon(s)
      PROVE  ScopeInv'
  <2>1. s \in Holders /\ Holders' = Holders \ {s}
    BY <1>1, <1>8 DEF Abandon, Holders, TypeOK
  <2>2. Cardinality(Holders') = Cardinality(Holders) - 1 /\ Cardinality(Holders) \in Nat \ {0}
    BY <1>1, <2>1, HoldersLose, HoldersFinite
  <2>3. depth' = depth - 1 /\ author = "other" /\ UNCHANGED <<cursor, author>>
    BY <1>1, <1>8, <2>2 DEF Abandon, DyingIsOther, DepthCountsHolders
  <2>4. TypeOK' /\ DyingIsOther'
    BY <1>1, <1>8, <2>2, <2>3, ScopesAssumption DEF Abandon, TypeOK, Phases, DepthCountsHolders, DyingIsOther
  <2>5. DepthCountsHolders' /\ Balanced'
    BY <1>1, <2>2, <2>3 DEF DepthCountsHolders, Balanced
  <2> QED
    BY <2>4, <2>5, ScopeInvPartsPrimed
<1>9. ASSUME NEW d \in Scopes, NEW s \in Scopes, MoveAssign(d, s)
      PROVE  ScopeInv'
  <2>1. d # s /\ scope[s] # "dying"
    BY <1>9 DEF MoveAssign
  <2>2. CASE \E after \in {"active", "emitted"} :
               RestoreStep(d, after) /\ scope' = [scope EXCEPT ![d] = after]
    BY <1>1, <1>5, <2>1, <2>2 DEF TypeOK
  <2>3. ASSUME scope' = [scope EXCEPT ![d] = scope[s], ![s] = "inactive"],
               \/ scope[d] = "inactive" /\ UNCHANGED <<depth, cursor, author>>
               \/ RestoreStep(d, "inactive")
        PROVE  ScopeInv'
    <3>1. /\ depth' = Cardinality(Holders \ {d})
          /\ depth' \in 0..MaxDepth
          /\ cursor' \in {"hidden", "shown"} /\ author' \in {"scopes", "other"}
          /\ Balanced'
          /\ author' = author \/ \A r \in Scopes : scope[r] # "dying"
      <4>1. CASE RestoreStep(d, "inactive")
        BY <4>1, RestoreStepEffect
      <4>2. CASE scope[d] = "inactive" /\ UNCHANGED <<depth, cursor, author>>
        <5>1. Holders \ {d} = Holders
          BY <4>2 DEF Holders
        <5> QED
          BY <5>1, <4>2, <1>1 DEF TypeOK, DepthCountsHolders, Balanced
      <4> QED
        BY <2>3, <4>1, <4>2
    <3>2. Cardinality(Holders') = Cardinality(Holders \ {d})
      <4>1. IsFiniteSet(Holders \ {d})
        BY <1>1, HoldersFinite, FS_RemoveElement
      <4>2. CASE s \in Holders
        <5>1. Holders' = ((Holders \ {d}) \ {s}) \cup {d}
          BY <1>1, <2>1, <2>3, <4>2 DEF Holders, TypeOK
        <5>2. s \in Holders \ {d} /\ d \notin (Holders \ {d}) \ {s}
          BY <2>1, <4>2
        <5>3. /\ IsFiniteSet((Holders \ {d}) \ {s})
              /\ Cardinality((Holders \ {d}) \ {s}) = Cardinality(Holders \ {d}) - 1
          BY <4>1, <5>2, FS_RemoveElement
        <5>4. Cardinality(((Holders \ {d}) \ {s}) \cup {d}) = Cardinality((Holders \ {d}) \ {s}) + 1
          BY <5>2, <5>3, FS_AddElement
        <5>5. Cardinality(Holders \ {d}) \in Nat
          BY <4>1, FS_CardinalityType
        <5> QED
          BY <5>1, <5>3, <5>4, <5>5
      <4>3. CASE s \notin Holders
        <5>1. Holders' = Holders \ {d}
          BY <1>1, <2>1, <2>3, <4>3 DEF Holders, TypeOK
        <5> QED
          BY <5>1
      <4> QED
        BY <4>2, <4>3
    <3>3. TypeOK' /\ DyingIsOther'
      BY <1>1, <2>1, <2>3, <3>1 DEF TypeOK, DyingIsOther, Phases
    <3> QED
      BY <3>1, <3>2, <3>3, ScopeInvPartsPrimed DEF DepthCountsHolders
  <2> QED
    BY <1>9, <2>2, <2>3 DEF MoveAssign
<1>10. ASSUME NEW value \in {"hidden", "shown"}, DirectSetCursorVisible(value)
       PROVE  ScopeInv'
  <2>1. Holders' = Holders /\ author' = "other" /\ UNCHANGED <<scope, depth>> /\ cursor' = value
    BY <1>10 DEF DirectSetCursorVisible, Holders
  <2> QED
    BY <1>1, <2>1, ScopeInvPartsPrimed DEF TypeOK, DepthCountsHolders, Balanced, DyingIsOther
<1>11. ASSUME NEW s \in Scopes, CreateScope(s) \/ SessionHide(s) \/ BeginDestroy(s) \/ Abandon(s)
       PROVE  ScopeInv'
  BY <1>3, <1>4, <1>7, <1>8, <1>11
<1>12. CASE Next
  BY <1>6, <1>9, <1>10, <1>11, <1>12 DEF Next
<1> QED
  BY <1>2, <1>12

\* When no destructor's flush fails, the invariant holds in every reachable state.
THEOREM ScopeInvariance ==
  ASSUME ~DestructorFlushFails
  PROVE  Spec => []ScopeInv
<1>1. Init => ScopeInv
  <2> SUFFICES ASSUME Init PROVE ScopeInv
    OBVIOUS
  <2>1. Holders = {}
    BY DEF Init, Holders
  <2>2. TypeOK /\ DyingIsOther
    BY ScopesAssumption DEF Init, TypeOK, Phases, DyingIsOther
  <2> QED
    BY <2>1, <2>2, FS_EmptySet DEF Init, ScopeInv, DepthCountsHolders, HiddenWhileHeld, ShownWhenReleased
<1>2. ScopeInv /\ [Next]_vars => ScopeInv'
  BY ScopeInvKept
<1> QED
  BY <1>1, <1>2, PTL DEF Spec

\* The depth counts the scopes that hold it: each release is made once, and none is forgotten.
THEOREM DepthIsExact ==
  ASSUME ~DestructorFlushFails
  PROVE  Spec => []DepthCountsHolders
<1>1. ScopeInv => DepthCountsHolders
  BY DEF ScopeInv
<1>2. Spec => []ScopeInv
  BY ScopeInvariance
<1> QED
  BY <1>1, <1>2, PTL

\* The cursor is hidden while a scope holds it and shown once none does, unless it was
\* written to directly or a destructor could not write.
THEOREM CursorFollowsScopes ==
  ASSUME ~DestructorFlushFails
  PROVE  Spec => [](HiddenWhileHeld /\ ShownWhenReleased)
<1>1. ScopeInv => HiddenWhileHeld /\ ShownWhenReleased
  BY DEF ScopeInv
<1>2. Spec => []ScopeInv
  BY ScopeInvariance
<1> QED
  BY <1>1, <1>2, PTL

\* Depth, cursor and scopes agree for any number of scopes and any depth limit.
THEOREM ScopesAreAlwaysTrue ==
  ASSUME ~DestructorFlushFails
  PROVE  Spec => []ScopesAreTrue
<1>1. ScopeInv => ScopesAreTrue
  BY DEF ScopeInv, ScopesAreTrue
<1>2. Spec => []ScopeInv
  BY ScopeInvariance
<1> QED
  BY <1>1, <1>2, PTL

-----------------------------------------------------------------------------
(* Sessions *)

Places == {"start", "check", "using", "done", "draining", "held", "claimed", "undo", "configured",
           "restoring", "restored", "leaving"}
Ops == Operations \cup Mutations \cup {"direct"}
Closes == {"close", "destroy"}

\* The stacks of calls, and the shared state.
StackTyped ==
  /\ stack \in [Threads -> Seq(Frames)]
  /\ \A t \in Threads : Len(stack[t]) \in 0..MaxNesting

SharedTyped ==
  /\ open \in [Sessions -> BOOLEAN]
  /\ gate \in [Sessions -> {"free", "draining", "held"}]
  /\ active \in [Sessions -> Int]
  /\ owed \in [Sessions -> Seq(Outputs)]
  /\ holder \in Owners \cup {"none"}
  /\ mode \in Owners \cup {"original"}
  /\ saved \in [Owners -> Owners \cup {"original", "none"}]
  /\ lost \in BOOLEAN

Busy(t) == stack[t] # <<>>

\* Where each kind of call can be, and which calls hold a lease.
Shape(f) ==
  /\ f.op = "direct" => f.session = "none" /\ f.at \in {"start", "claimed", "undo", "configured", "restored"}
  /\ f.op # "direct" => f.session \in Sessions
  /\ f.op \in Operations => f.at \in {"start", "check", "using", "done"}
  /\ f.op = "open" => f.at \in {"start", "draining", "held", "claimed", "undo", "configured", "restored", "leaving"}
  /\ f.op \in Closes => f.at \in {"start", "draining", "held", "restoring", "restored", "done", "leaving"}
  /\ f.leased => f.op \in Operations /\ f.at # "start"
  /\ OpensAlone /\ f.op \in Operations /\ f.at \in {"using", "done"} => f.leased

ShapesOK == \A t \in Threads : Busy(t) => Shape(Top(t))

\* Only a formatter makes calls.
Outer(f) == Shape(f) /\ f.op = "format" /\ f.at = "using"
OuterFormats == \A t \in Threads : \A i \in 1..(Len(stack[t]) - 1) : Outer(stack[t][i])

\* A Session has one mutation at a time past its first wait.
InMutation(t) == Busy(t) /\ Top(t).op \in Mutations /\ Top(t).at # "start"
OneMutation ==
  \A t, u \in Threads : InMutation(t) /\ InMutation(u) /\ Top(t).session = Top(u).session => t = u

\* What OpensAlone says of the calls under way.
NoOperationOn(s) == \A u \in Threads : \A i \in 1..Len(stack[u]) : stack[u][i].session = s => stack[u][i].op \notin Operations
OpensApart == OpensAlone => \A t \in Threads : Busy(t) /\ Top(t).op = "open" => NoOperationOn(Top(t).session)

\* activeOperations counts the leases; while there is one the Session is open and no mutation is past its second wait.
Leased(s) == {c \in Threads \X (1..MaxNesting) : /\ c[2] \in 1..Len(stack[c[1]])
                                                 /\ stack[c[1]][c[2]].session = s
                                                 /\ stack[c[1]][c[2]].leased}
LeasesCounted == \A s \in Sessions : active[s] = Cardinality(Leased(s))
LeasesHold == \A s \in Sessions : Leased(s) # {} => open[s] /\ gate[s] # "held"

StackOK == StackTyped /\ ShapesOK /\ OuterFormats /\ OneMutation /\ OpensApart

\* What the innermost call of a thread knows of the shared state at each of its places.
GateOK(f) == /\ f.op \in Mutations /\ f.at = "draining" => gate[f.session] = "draining"
             /\ f.op \in Mutations /\ f.at \notin {"start", "draining"} => gate[f.session] = "held"
OwnsOK(f, o) ==
  /\ f.op \in {"open", "direct"} /\ f.at \in {"claimed", "configured", "undo", "restored"} => holder = o
  /\ f.op = "open" /\ f.at \in {"claimed", "configured", "undo", "restored"} => ~open[o]
  /\ f.op \in Closes /\ f.at \in {"restoring", "restored"} => open[o] /\ holder = o
  /\ f.op \in Closes /\ f.at = "done" => open[o] /\ holder # o
  /\ f.op \in Mutations /\ f.at \in {"held", "leaving"} => (open[o] <=> holder = o)
ModeOK(f, o) ==
  /\ f.at = "claimed" => saved[o] = "none"
  /\ f.op \notin Operations /\ f.at \in {"configured", "held", "restoring", "leaving"} /\ saved[o] # "none" => mode = o
  /\ f.at = "restored" /\ ~lost => mode = "original"
OwedOK(f) ==
  OpensAlone => /\ f.op \in Closes /\ f.at \in {"restoring", "restored", "done"} => owed[f.session] = <<>>
                /\ f.op \in Operations /\ f.at = "check" /\ ~f.leased => ~open[f.session]

StageOK(t) == GateOK(Top(t)) /\ OwnsOK(Top(t), Owner(t)) /\ ModeOK(Top(t), Owner(t)) /\ OwedOK(Top(t))
StagesOK == \A t \in Threads : Busy(t) => StageOK(t)

\* What is true of a Session, and of an owner of stdin.
SessionOK(s) ==
  /\ gate[s] # "held" => (open[s] <=> holder = s)
  /\ open[s] /\ gate[s] # "held" /\ saved[s] # "none" => mode = s
  /\ OpensAlone /\ ~open[s] => owed[s] = <<>>
  /\ \A i, j \in 1..Len(owed[s]) : owed[s][i] = owed[s][j] => i = j
SessionsOK == \A s \in Sessions : SessionOK(s)

OwnerOK(o) ==
  /\ saved[o] # "none" => holder = o
  /\ ~lost /\ holder = o /\ saved[o] = "none" => mode = "original"
  /\ ~lost /\ saved[o] # "none" => saved[o] = "original"
OwnersOK == \A o \in Owners : OwnerOK(o)

\* The inductive invariant.
SessionInv ==
  /\ StackOK /\ SharedTyped
  /\ LeasesCounted /\ LeasesHold
  /\ StagesOK /\ SessionsOK /\ OwnersOK /\ ModeIsRestored

-----------------------------------------------------------------------------
(* Steps of a stack                                                        *)

Frame(op, s, place, leased) == [op |-> op, session |-> s, at |-> place, leased |-> leased]

\* The innermost call moves on, with or without a lease.
Moves(t, place, leased) ==
  stack' = [stack EXCEPT ![t] = [stack[t] EXCEPT ![Len(stack[t])] = Frame(Top(t).op, Top(t).session, place, leased)]]

\* The innermost call is the last of its stack.
LEMMA TopIsLast ==
  ASSUME StackTyped, NEW t \in Threads, Busy(t)
  PROVE  /\ Len(stack[t]) \in 1..MaxNesting
         /\ Top(t) = stack[t][Len(stack[t])] /\ Top(t) \in Frames
<1>1. stack[t] \in Seq(Frames) /\ Len(stack[t]) \in 0..MaxNesting
  BY DEF StackTyped
<1>2. Len(stack[t]) # 0
  BY <1>1, EmptySeq DEF Busy
<1>3. Len(stack[t]) \in 1..MaxNesting /\ Len(stack[t]) \in 1..Len(stack[t])
  BY <1>1, <1>2, SessionAssumption
<1> QED
  BY <1>1, <1>3, ElementOfSeq DEF Top, Last

\* A call is a record of four fields.
LEMMA FrameFields ==
  ASSUME NEW f \in Frames
  PROVE  /\ f = Frame(f.op, f.session, f.at, f.leased)
         /\ f.op \in Ops /\ f.session \in Sessions \cup {"none"} /\ f.at \in Places /\ f.leased \in BOOLEAN
BY DEF Frames, Frame, Ops, Places

\* Its fields are what it was made of.
LEMMA FrameIs ==
  ASSUME NEW op, NEW s, NEW place, NEW leased
  PROVE  /\ Frame(op, s, place, leased).op = op /\ Frame(op, s, place, leased).session = s
         /\ Frame(op, s, place, leased).at = place /\ Frame(op, s, place, leased).leased = leased
BY DEF Frame

\* Such a record is a call.
LEMMA FrameTyped ==
  ASSUME NEW op \in Ops, NEW s \in Sessions \cup {"none"}, NEW place \in Places, NEW leased \in BOOLEAN
  PROVE  Frame(op, s, place, leased) \in Frames
BY DEF Frames, Frame, Ops, Places

\* Going to a place keeps the lease.
LEMMA GotoMoves ==
  ASSUME StackTyped, NEW t \in Threads, Busy(t), NEW place \in Places, Goto(t, place)
  PROVE  Moves(t, place, Top(t).leased)
<1> DEFINE n == Len(stack[t])
           f == stack[t][n]
<1>1. f = Top(t) /\ f \in Frames
  BY TopIsLast
<1>2. [f EXCEPT !.at = place] = Frame(f.op, f.session, place, f.leased)
  BY <1>1 DEF Frames, Frame
<1>3. stack' = [stack EXCEPT ![t] = [stack[t] EXCEPT ![n] = [f EXCEPT !.at = place]]]
  BY DEF Goto
<1> QED
  BY <1>1, <1>2, <1>3 DEF Moves

\* What the stacks are after the innermost call of one thread moved on.
LEMMA MovedStack ==
  ASSUME StackTyped, NEW t \in Threads, Busy(t), NEW place \in Places, NEW leased \in BOOLEAN, Moves(t, place, leased)
  PROVE  /\ StackTyped' /\ Busy(t)'
         /\ \A u \in Threads : Len(stack'[u]) = Len(stack[u]) /\ (u # t => stack'[u] = stack[u])
         /\ \A i \in 1..(Len(stack[t]) - 1) : stack'[t][i] = stack[t][i]
         /\ Top(t)' = Frame(Top(t).op, Top(t).session, place, leased)
         /\ stack'[t][Len(stack[t])] = Frame(Top(t).op, Top(t).session, place, leased)
<1> DEFINE n == Len(stack[t])
           g == Frame(Top(t).op, Top(t).session, place, leased)
<1>1. n \in 1..MaxNesting /\ Top(t) = stack[t][n] /\ Top(t) \in Frames
  BY TopIsLast
<1>2. g \in Frames
  BY <1>1, FrameFields, FrameTyped
<1>3. stack \in [Threads -> Seq(Frames)] /\ stack[t] \in Seq(Frames)
  BY DEF StackTyped
<1> HIDE DEF g
<1>4. n \in 1..Len(stack[t])
  BY <1>1, SessionAssumption
<1>5. /\ [stack[t] EXCEPT ![n] = g] \in Seq(Frames)
      /\ Len([stack[t] EXCEPT ![n] = g]) = n
      /\ \A j \in 1..n : [stack[t] EXCEPT ![n] = g][j] = IF j = n THEN g ELSE stack[t][j]
  BY <1>2, <1>3, <1>4, ExceptSeq
<1>6. stack' = [stack EXCEPT ![t] = [stack[t] EXCEPT ![n] = g]]
  BY DEF Moves, g
<1>7. stack'[t] = [stack[t] EXCEPT ![n] = g] /\ stack' \in [Threads -> Seq(Frames)]
  BY <1>3, <1>5, <1>6
<1>8. \A u \in Threads : u # t => stack'[u] = stack[u]
  BY <1>3, <1>6
<1>9. \A u \in Threads : Len(stack'[u]) = Len(stack[u])
  BY <1>5, <1>7, <1>8
<1>10. \A i \in 1..(n - 1) : stack'[t][i] = stack[t][i]
  <2>1. \A i \in 1..(n - 1) : i \in 1..n /\ i # n
    BY <1>1, SessionAssumption
  <2> QED
    BY <2>1, <1>5, <1>7
<1>11. stack'[t][n] = g
  BY <1>1, <1>4, <1>5, <1>7
<1>12. Top(t)' = g
  BY <1>9, <1>11 DEF Top, Last
<1>13. StackTyped'
  BY <1>7, <1>9 DEF StackTyped
<1>14. Busy(t)'
  <2>1. Len(stack'[t]) # 0
    BY <1>1, <1>9
  <2> QED
    BY <2>1, EmptySeq DEF Busy
<1> QED
  BY <1>8, <1>9, <1>10, <1>11, <1>12, <1>13, <1>14 DEF g

\* What they are after it returned.
LEMMA ReturnedStack ==
  ASSUME StackTyped, NEW t \in Threads, Busy(t), Return(t)
  PROVE  /\ StackTyped'
         /\ Len(stack'[t]) = Len(stack[t]) - 1
         /\ \A u \in Threads : u # t => stack'[u] = stack[u]
         /\ \A i \in 1..(Len(stack[t]) - 1) : stack'[t][i] = stack[t][i]
         /\ Busy(t)' => Top(t)' = stack[t][Len(stack[t]) - 1] /\ Len(stack[t]) - 1 \in 1..(Len(stack[t]) - 1)
<1> DEFINE n == Len(stack[t])
<1>1. n \in 1..MaxNesting /\ n \in Nat /\ MaxNesting \in Nat
  BY TopIsLast, SessionAssumption
<1>2. stack \in [Threads -> Seq(Frames)] /\ stack[t] \in Seq(Frames)
  BY DEF StackTyped
<1>3. stack' = [stack EXCEPT ![t] = SubSeq(stack[t], 1, n - 1)]
  BY DEF Return, Front
<1>4. \A i \in 1..(n - 1) : stack[t][i] \in Frames
  <2>1. \A i \in 1..(n - 1) : i \in 1..n
    BY <1>1
  <2> QED
    BY <2>1, <1>2, ElementOfSeq
<1>5. /\ SubSeq(stack[t], 1, n - 1) \in Seq(Frames)
      /\ Len(SubSeq(stack[t], 1, n - 1)) = n - 1
      /\ \A i \in 1..(n - 1) : SubSeq(stack[t], 1, n - 1)[i] = stack[t][i]
  <2>1. n - 1 \in Int /\ (1 <= n - 1 \/ n - 1 = 0)
    <3> HIDE DEF n
    <3>1. n \in Nat /\ 1 <= n
      BY <1>1
    <3> QED
      BY <3>1
  <2>2. /\ SubSeq(stack[t], 1, n - 1) \in Seq(Frames)
        /\ Len(SubSeq(stack[t], 1, n - 1)) = IF 1 <= n - 1 THEN n - 1 - 1 + 1 ELSE 0
        /\ \A i \in 1..(n - 1 - 1 + 1) : SubSeq(stack[t], 1, n - 1)[i] = stack[t][1 + i - 1]
    BY <2>1, <1>4, SubSeqProperties
  <2>3. n - 1 - 1 + 1 = n - 1 /\ \A i \in 1..(n - 1) : 1 + i - 1 = i
    BY <2>1
  <2> QED
    BY <2>1, <2>2, <2>3
<1>6. stack'[t] = SubSeq(stack[t], 1, n - 1) /\ stack' \in [Threads -> Seq(Frames)]
  BY <1>2, <1>3, <1>5
<1>7. \A u \in Threads : u # t => stack'[u] = stack[u]
  BY <1>2, <1>3
<1>8. Len(stack'[t]) = n - 1 /\ n - 1 \in 0..MaxNesting
  BY <1>1, <1>5, <1>6
<1>9. \A i \in 1..(n - 1) : stack'[t][i] = stack[t][i]
  BY <1>5, <1>6
<1>10. StackTyped'
  BY <1>6, <1>7, <1>8 DEF StackTyped
<1>11. Busy(t)' => n - 1 \in 1..(n - 1)
  <2>1. Busy(t)' => n - 1 # 0
    BY <1>6, <1>8, <1>5, EmptySeq DEF Busy
  <2> HIDE DEF n
  <2>2. n - 1 # 0 => n - 1 \in 1..(n - 1)
    BY <1>1
  <2> QED
    BY <2>1, <2>2
<1>12. Busy(t)' => Top(t)' = stack[t][n - 1]
  BY <1>8, <1>9, <1>11 DEF Top, Last
<1> QED
  BY <1>7, <1>8, <1>9, <1>10, <1>11, <1>12

\* What they are after a call began.
LEMMA CalledStack ==
  ASSUME StackTyped, NEW t \in Threads, NEW f \in Frames, Len(stack[t]) < MaxNesting,
         stack' = [stack EXCEPT ![t] = Append(stack[t], f)]
  PROVE  /\ StackTyped' /\ Busy(t)' /\ Top(t)' = f
         /\ Len(stack'[t]) = Len(stack[t]) + 1 /\ stack'[t][Len(stack[t]) + 1] = f
         /\ \A u \in Threads : u # t => stack'[u] = stack[u]
         /\ \A i \in 1..Len(stack[t]) : stack'[t][i] = stack[t][i]
<1> DEFINE n == Len(stack[t])
<1>1. stack \in [Threads -> Seq(Frames)] /\ stack[t] \in Seq(Frames) /\ n \in 0..MaxNesting
  BY DEF StackTyped
<1>2. /\ Append(stack[t], f) \in Seq(Frames) /\ Append(stack[t], f) # <<>>
      /\ Len(Append(stack[t], f)) = n + 1
      /\ \A i \in 1..n : Append(stack[t], f)[i] = stack[t][i]
      /\ Append(stack[t], f)[n + 1] = f
  BY <1>1, AppendProperties
<1>3. stack'[t] = Append(stack[t], f) /\ stack' \in [Threads -> Seq(Frames)] /\ \A u \in Threads : u # t => stack'[u] = stack[u]
  BY <1>1, <1>2
<1>4. Len(stack'[t]) \in 0..MaxNesting
  BY <1>1, <1>2, <1>3, SessionAssumption
<1>5. StackTyped'
  BY <1>3, <1>4 DEF StackTyped
<1> QED
  BY <1>2, <1>3, <1>5 DEF Busy, Top, Last

-----------------------------------------------------------------------------
(* What a step of a stack keeps                                            *)

\* A call under way keeps its kind and its Session when the innermost moves on.
LEMMA MovedCalls ==
  ASSUME StackTyped, NEW t \in Threads, Busy(t), NEW place \in Places, NEW leased \in BOOLEAN, Moves(t, place, leased)
  PROVE  \A u \in Threads : \A i \in 1..Len(stack[u]) :
           /\ stack'[u][i].op = stack[u][i].op /\ stack'[u][i].session = stack[u][i].session
           /\ u # t \/ i # Len(stack[t]) => stack'[u][i].leased = stack[u][i].leased
<1> DEFINE n == Len(stack[t])
           g == Frame(Top(t).op, Top(t).session, place, leased)
<1>1. n \in 1..MaxNesting /\ Top(t) = stack[t][n] /\ Top(t) \in Frames
  BY TopIsLast
<1>2. g.op = stack[t][n].op /\ g.session = stack[t][n].session
  BY <1>1, FrameIs
<1>3. /\ \A u \in Threads : u # t => stack'[u] = stack[u]
      /\ \A i \in 1..(n - 1) : stack'[t][i] = stack[t][i]
      /\ stack'[t][n] = g
  BY MovedStack
<1> HIDE DEF g
<1> SUFFICES ASSUME NEW u \in Threads, NEW i \in 1..Len(stack[u])
             PROVE  /\ stack'[u][i].op = stack[u][i].op /\ stack'[u][i].session = stack[u][i].session
                    /\ u # t \/ i # Len(stack[t]) => stack'[u][i].leased = stack[u][i].leased
  OBVIOUS
<1>4. CASE u # t
  BY <1>3, <1>4
<1>5. CASE u = t /\ i = n
  BY <1>2, <1>3, <1>5
<1>6. CASE u = t /\ i # n
  <2>1. i \in 1..(n - 1)
    BY <1>1, <1>6, SessionAssumption
  <2> QED
    BY <2>1, <1>3, <1>6
<1> QED
  BY <1>4, <1>5, <1>6

\* Moving on keeps the stacks sound when the call has the shape of its new place and is the only
\* mutation of its Session there.
LEMMA MovedStackOK ==
  ASSUME StackOK, NEW t \in Threads, Busy(t), NEW place \in Places, NEW leased \in BOOLEAN, Moves(t, place, leased),
         Shape(Frame(Top(t).op, Top(t).session, place, leased)),
         Top(t).op \in Mutations =>
           \A u \in Threads : u # t /\ InMutation(u) => Top(u).session # Top(t).session
  PROVE  StackOK'
<1> DEFINE n == Len(stack[t])
           g == Frame(Top(t).op, Top(t).session, place, leased)
<1>1. StackTyped /\ ShapesOK /\ OuterFormats /\ OneMutation /\ OpensApart
  BY DEF StackOK
<1>2. Top(t) \in Frames /\ g.op = Top(t).op /\ g.session = Top(t).session
  BY <1>1, TopIsLast, FrameIs
<1>3. /\ StackTyped' /\ Busy(t)' /\ Top(t)' = g
      /\ \A u \in Threads : Len(stack'[u]) = Len(stack[u]) /\ (u # t => stack'[u] = stack[u])
      /\ \A i \in 1..(n - 1) : stack'[t][i] = stack[t][i]
  BY <1>1, MovedStack
<1> HIDE DEF g
<1>4. \A u \in Threads : u # t => (Busy(u)' <=> Busy(u)) /\ Top(u)' = Top(u) /\ (InMutation(u)' <=> InMutation(u))
  BY <1>3 DEF Busy, Top, InMutation
<1>5. ShapesOK'
  <2>1. Shape(g)
    BY DEF g
  <2>2. ASSUME NEW u \in Threads, Busy(u)' PROVE Shape(Top(u))'
    <3>1. CASE u = t
      BY <3>1, <2>1, <1>3 DEF Shape
    <3>2. CASE u # t
      BY <3>2, <2>2, <1>1, <1>4 DEF Shape, ShapesOK
    <3> QED
      BY <3>1, <3>2
  <2> QED
    BY <2>2 DEF ShapesOK
<1>6. OuterFormats'
  <2>1. ASSUME NEW u \in Threads, NEW i \in 1..(Len(stack'[u]) - 1) PROVE stack'[u][i] = stack[u][i] /\ i \in 1..(Len(stack[u]) - 1)
    BY <1>3
  <2> QED
    BY <2>1, <1>1 DEF OuterFormats, Outer, Shape
<1>7. OneMutation'
  <2>1. ASSUME NEW u \in Threads, NEW v \in Threads, InMutation(u)', InMutation(v)', Top(u)'.session = Top(v)'.session
        PROVE  u = v
    <3>1. CASE u # t /\ v # t
      BY <3>1, <2>1, <1>1, <1>4 DEF OneMutation
    <3>2. CASE u = t /\ v # t
      <4>1. Top(t).op \in Mutations
        BY <3>2, <2>1, <1>2, <1>3 DEF InMutation
      <4> QED
        BY <4>1, <3>2, <2>1, <1>2, <1>3, <1>4
    <3>3. CASE v = t /\ u # t
      <4>1. Top(t).op \in Mutations
        BY <3>3, <2>1, <1>2, <1>3 DEF InMutation
      <4> QED
        BY <4>1, <3>3, <2>1, <1>2, <1>3, <1>4
    <3> QED
      BY <3>1, <3>2, <3>3
  <2> QED
    BY <2>1 DEF OneMutation
<1>8. OpensApart'
  <2>1. ASSUME OpensAlone, NEW u \in Threads, Busy(u)', Top(u)'.op = "open" PROVE NoOperationOn(Top(u).session)'
    <3>1. Busy(u) /\ Top(u).op = "open" /\ Top(u)'.session = Top(u).session
      BY <2>1, <1>2, <1>3, <1>4
    <3>2. NoOperationOn(Top(u).session)
      BY <3>1, <2>1, <1>1 DEF OpensApart
    <3>3. \A v \in Threads : \A i \in 1..Len(stack[v]) :
            stack'[v][i].op = stack[v][i].op /\ stack'[v][i].session = stack[v][i].session
      BY <1>1, MovedCalls
    <3> QED
      BY <3>1, <3>2, <3>3, <1>3 DEF NoOperationOn
  <2> QED
    BY <2>1 DEF OpensApart
<1> QED
  BY <1>3, <1>5, <1>6, <1>7, <1>8 DEF StackOK

\* Returning does, and what it returns to is a formatter.
LEMMA ReturnedStackOK ==
  ASSUME StackOK, NEW t \in Threads, Busy(t), Return(t)
  PROVE  /\ StackOK'
         /\ \A u \in Threads : u # t => (Busy(u)' <=> Busy(u)) /\ Top(u)' = Top(u)
         /\ Busy(t)' => Outer(Top(t))' /\ Outer(stack[t][Len(stack[t]) - 1])
<1> DEFINE n == Len(stack[t])
<1>1. StackTyped /\ ShapesOK /\ OuterFormats /\ OneMutation /\ OpensApart
  BY DEF StackOK
<1>2. n \in Nat /\ n >= 1
  BY <1>1, TopIsLast, SessionAssumption
<1>3. /\ StackTyped' /\ Len(stack'[t]) = n - 1
      /\ \A u \in Threads : u # t => stack'[u] = stack[u]
      /\ \A i \in 1..(n - 1) : stack'[t][i] = stack[t][i]
      /\ Busy(t)' => Top(t)' = stack[t][n - 1] /\ n - 1 \in 1..(n - 1)
  BY <1>1, ReturnedStack
<1>4. \A u \in Threads : u # t => (Busy(u)' <=> Busy(u)) /\ Top(u)' = Top(u) /\ (InMutation(u)' <=> InMutation(u))
  BY <1>3 DEF Busy, Top, InMutation
<1>5. Busy(t)' => Outer(Top(t)') /\ Outer(stack[t][n - 1])
  BY <1>1, <1>3 DEF OuterFormats
<1>6. Busy(t)' => Shape(Top(t)') /\ Top(t)'.op = "format"
  BY <1>5 DEF Outer
<1>7. ShapesOK'
  <2>2. ASSUME NEW u \in Threads, Busy(u)' PROVE Shape(Top(u))'
    <3>1. CASE u = t
      BY <3>1, <2>2, <1>6 DEF Shape
    <3>2. CASE u # t
      BY <3>2, <2>2, <1>1, <1>4 DEF Shape, ShapesOK
    <3> QED
      BY <3>1, <3>2
  <2> QED
    BY <2>2 DEF ShapesOK
<1>8. OuterFormats'
  <2>1. ASSUME NEW u \in Threads, NEW i \in 1..(Len(stack'[u]) - 1) PROVE stack'[u][i] = stack[u][i] /\ i \in 1..(Len(stack[u]) - 1)
    <3>1. CASE u # t
      BY <3>1, <1>3
    <3>2. CASE u = t
      <4>1. i \in 1..(n - 1 - 1)
        BY <3>2, <1>3
      <4>2. i \in 1..(n - 1)
        BY <4>1, <1>2
      <4> QED
        BY <4>2, <3>2, <1>3
    <3> QED
      BY <3>1, <3>2
  <2> QED
    BY <2>1, <1>1 DEF OuterFormats, Outer, Shape
<1>9. ~InMutation(t)'
  BY <1>6 DEF InMutation, Mutations
<1>10. OneMutation'
  BY <1>1, <1>4, <1>9 DEF OneMutation
<1>11. OpensApart'
  <2>1. ASSUME OpensAlone, NEW u \in Threads, Busy(u)', Top(u)'.op = "open" PROVE NoOperationOn(Top(u).session)'
    <3>1. u # t
      BY <2>1, <1>6
    <3>2. NoOperationOn(Top(u).session)
      BY <3>1, <2>1, <1>1, <1>4 DEF OpensApart
    <3>3. ASSUME NEW v \in Threads, NEW i \in 1..Len(stack'[v]) PROVE stack'[v][i] = stack[v][i] /\ i \in 1..Len(stack[v])
      <4>1. CASE v # t
        BY <4>1, <1>3
      <4>2. CASE v = t
        <5>1. i \in 1..(n - 1)
          BY <4>2, <1>3
        <5>2. i \in 1..n
          BY <5>1, <1>2
        <5> QED
          BY <5>1, <5>2, <4>2, <1>3
      <4> QED
        BY <4>1, <4>2
    <3> QED
      BY <3>1, <3>2, <3>3, <1>4 DEF NoOperationOn
  <2> QED
    BY <2>1 DEF OpensApart
<1>12. Busy(t)' => Outer(Top(t))'
  BY <1>5 DEF Outer, Shape
<1> QED
  BY <1>3, <1>4, <1>5, <1>7, <1>8, <1>10, <1>11, <1>12 DEF StackOK

\* Beginning a call does, when the program may make it.
LEMMA CalledStackOK ==
  ASSUME StackOK, NEW t \in Threads, NEW op \in Ops, NEW s \in Sessions \cup {"none"},
         op = "direct" <=> s = "none", Call(t, op, s)
  PROVE  /\ StackOK' /\ Busy(t)' /\ Top(t)' = Frame(op, s, "start", FALSE)
         /\ \A u \in Threads : u # t => (Busy(u)' <=> Busy(u)) /\ Top(u)' = Top(u)
<1> DEFINE n == Len(stack[t])
           f == Frame(op, s, "start", FALSE)
<1>1. StackTyped /\ ShapesOK /\ OuterFormats /\ OneMutation /\ OpensApart
  BY DEF StackOK
<1>2. f \in Frames /\ f.op = op /\ f.session = s /\ f.at = "start" /\ f.leased = FALSE
  <2>1. "start" \in Places /\ FALSE \in BOOLEAN
    BY DEF Places
  <2>2. f \in Frames
    BY <2>1 DEF Frames, Frame, Ops, Places
  <2> QED
    BY <2>2 DEF Frame
<1>3. n < MaxNesting /\ stack' = [stack EXCEPT ![t] = Append(stack[t], f)]
  BY DEF Call, Frame
<1> HIDE DEF f
<1>4. /\ StackTyped' /\ Busy(t)' /\ Top(t)' = f
      /\ Len(stack'[t]) = n + 1 /\ stack'[t][n + 1] = f
      /\ \A u \in Threads : u # t => stack'[u] = stack[u]
      /\ \A i \in 1..n : stack'[t][i] = stack[t][i]
  BY <1>1, <1>2, <1>3, CalledStack
<1>5. \A u \in Threads : u # t => (Busy(u)' <=> Busy(u)) /\ Top(u)' = Top(u) /\ (InMutation(u)' <=> InMutation(u))
  BY <1>4 DEF Busy, Top, InMutation
<1>6. n \in Nat
  BY <1>1, SessionAssumption DEF StackTyped
<1>7. Shape(f)
  BY <1>2, SessionAssumption DEF Shape, Ops, Operations, Mutations, Closes
<1>8. Busy(t) => n \in 1..MaxNesting /\ Top(t) = stack[t][n] /\ Outer(Top(t))
  <2>1. Busy(t) => At(t, {"format"}, "using")
    BY DEF Call, Busy
  <2> QED
    BY <2>1, <1>1, TopIsLast DEF At, Outer, ShapesOK
<1>9. ShapesOK'
  <2>2. ASSUME NEW u \in Threads, Busy(u)' PROVE Shape(Top(u))'
    <3>1. CASE u = t
      BY <3>1, <2>2, <1>4, <1>7 DEF Shape
    <3>2. CASE u # t
      BY <3>2, <2>2, <1>1, <1>5 DEF Shape, ShapesOK
    <3> QED
      BY <3>1, <3>2
  <2> QED
    BY <2>2 DEF ShapesOK
<1>10. OuterFormats'
  <2>1. ASSUME NEW u \in Threads, NEW i \in 1..(Len(stack'[u]) - 1) PROVE Outer(stack'[u][i])
    <3>1. CASE u # t
      BY <3>1, <1>1, <1>4 DEF OuterFormats
    <3>2. CASE u = t
      <4>1. i \in 1..n
        BY <3>2, <1>4, <1>6
      <4>2. stack'[t][i] = stack[t][i]
        BY <4>1, <1>4
      <4>3. CASE i = n
        <5>1. Busy(t)
          BY <4>1, <4>3, <1>6, EmptySeq DEF Busy
        <5> QED
          BY <5>1, <4>2, <4>3, <3>2, <1>8
      <4>4. CASE i # n
        <5>1. i \in 1..(n - 1)
          BY <4>1, <4>4, <1>6
        <5> QED
          BY <5>1, <4>2, <3>2, <1>1 DEF OuterFormats
      <4> QED
        BY <4>3, <4>4
    <3> QED
      BY <3>1, <3>2
  <2> QED
    BY <2>1 DEF OuterFormats, Outer, Shape
<1>11. ~InMutation(t)'
  BY <1>2, <1>4 DEF InMutation
<1>12. OneMutation'
  BY <1>1, <1>5, <1>11 DEF OneMutation
<1>13. \A u \in Threads, i \in 1..MaxNesting : i \in 1..Len(stack[u]) /\ stack[u][i].session = s => <<u, i>> \in Calls(s)
  <2>1. \A u \in Threads : stack[u] \in Seq(Frames) /\ DOMAIN stack[u] = 1..Len(stack[u])
    BY <1>1, LenProperties DEF StackTyped
  <2> QED
    BY <2>1 DEF Calls
<1>14. \A u \in Threads : \A i \in 1..Len(stack[u]) : i \in 1..MaxNesting
  BY <1>1, SessionAssumption DEF StackTyped
<1>15. OpensApart'
  <2>1. ASSUME OpensAlone, NEW u \in Threads, Busy(u)', Top(u)'.op = "open", NEW v \in Threads, NEW i \in 1..Len(stack'[v]),
               stack'[v][i].session = Top(u)'.session
        PROVE  stack'[v][i].op \notin Operations
    <3>1. CASE u = t
      <4>1. op = "open" /\ Top(u)'.session = s /\ op # "direct"
        BY <3>1, <2>1, <1>2, <1>4
      <4>2. \A c \in Calls(s) : stack[c[1]][c[2]].op \in Mutations
        BY <4>1, <2>1 DEF Call, Permitted
      <4>3. CASE v = t /\ i = n + 1
        BY <4>1, <4>3, <1>2, <1>4 DEF Operations
      <4>4. CASE ~(v = t /\ i = n + 1)
        <5>1. i \in 1..Len(stack[v]) /\ stack'[v][i] = stack[v][i]
          BY <4>4, <1>4, <1>6
        <5>2. <<v, i>> \in Calls(s)
          BY <5>1, <4>1, <2>1, <1>13, <1>14
        <5>3. stack[v][i].op \in Mutations
          BY <5>2, <4>2
        <5> QED
          BY <5>1, <5>3 DEF Operations, Mutations
      <4> QED
        BY <4>3, <4>4
    <3>2. CASE u # t
      <4>1. Busy(u) /\ Top(u)' = Top(u) /\ Top(u).op = "open"
        BY <3>2, <2>1, <1>5
      <4>2. NoOperationOn(Top(u).session)
        BY <4>1, <2>1, <1>1 DEF OpensApart
      <4>3. CASE v = t /\ i = n + 1
        <5>1. s = Top(u).session /\ stack'[v][i].op = op
          BY <4>1, <4>3, <2>1, <1>2, <1>4
        <5>2. Len(stack[u]) \in 1..Len(stack[u]) /\ Top(u) = stack[u][Len(stack[u])]
          BY <4>1, <1>1, TopIsLast, SessionAssumption
        <5>3. <<u, Len(stack[u])>> \in Calls(s)
          BY <5>1, <5>2, <1>13, <1>14
        <5>4. op # "direct" => op \notin Operations
          BY <5>3, <5>2, <4>1, <2>1 DEF Call, Permitted
        <5> QED
          BY <5>1, <5>4 DEF Operations
      <4>4. CASE ~(v = t /\ i = n + 1)
        <5>1. i \in 1..Len(stack[v]) /\ stack'[v][i] = stack[v][i]
          BY <4>4, <1>4, <1>6
        <5> QED
          BY <5>1, <4>1, <4>2, <2>1 DEF NoOperationOn
      <4> QED
        BY <4>3, <4>4
    <3> QED
      BY <3>1, <3>2
  <2> QED
    BY <2>1 DEF OpensApart, NoOperationOn
<1> QED
  BY <1>4, <1>5, <1>9, <1>10, <1>12, <1>15 DEF StackOK, f

-----------------------------------------------------------------------------
(* Leases                                                                  *)

\* The leases of a Session are finitely many.
LEMMA LeasesFinite ==
  ASSUME NEW s
  PROVE  /\ IsFiniteSet(Leased(s)) /\ Cardinality(Leased(s)) \in Nat
         /\ Cardinality(Leased(s)) <= Cardinality(Threads) * MaxNesting
<1>1. IsFiniteSet(1..MaxNesting) /\ Cardinality(1..MaxNesting) = MaxNesting
  <2>1. 1 \in Int /\ MaxNesting \in Int /\ ~(1 > MaxNesting) /\ MaxNesting - 1 + 1 = MaxNesting
    BY SessionAssumption
  <2> QED
    BY <2>1, FS_Interval
<1>2. IsFiniteSet(Threads \X (1..MaxNesting)) /\ Cardinality(Threads \X (1..MaxNesting)) = Cardinality(Threads) * MaxNesting
  BY <1>1, FS_Product, SessionAssumption
<1>3. Leased(s) \subseteq Threads \X (1..MaxNesting)
  BY DEF Leased
<1> QED
  BY <1>2, <1>3, FS_Subset, FS_CardinalityType

\* Moving on without taking a lease changes none.
LEMMA MovedLeases ==
  ASSUME StackTyped, NEW t \in Threads, Busy(t), NEW place \in Places, Moves(t, place, Top(t).leased), NEW s
  PROVE  Leased(s)' = Leased(s)
<1> DEFINE n == Len(stack[t])
<1>1. Top(t) \in Frames /\ Top(t) = stack[t][n] /\ Top(t).leased \in BOOLEAN
  BY TopIsLast, FrameFields
<1>2. Frame(Top(t).op, Top(t).session, place, Top(t).leased).leased = Top(t).leased
  BY <1>1, FrameIs
<1>3. \A u \in Threads : Len(stack'[u]) = Len(stack[u])
  BY <1>1, MovedStack
<1>4. stack'[t][n].leased = stack[t][n].leased
  BY <1>1, <1>2, MovedStack
<1>5. \A u \in Threads : \A i \in 1..Len(stack[u]) :
        stack'[u][i].session = stack[u][i].session /\ stack'[u][i].leased = stack[u][i].leased
  BY <1>1, <1>4, MovedCalls
<1> QED
  BY <1>3, <1>5 DEF Leased

\* Taking one adds it to those of its Session.
LEMMA AdmittedLeases ==
  ASSUME StackTyped, NEW t \in Threads, Busy(t), NEW place \in Places, NEW leased \in BOOLEAN, leased,
         Moves(t, place, leased), ~Top(t).leased,
         NEW s, s = Top(t).session
  PROVE  /\ \A r : r # s => Leased(r)' = Leased(r)
         /\ Leased(s)' = Leased(s) \cup {<<t, Len(stack[t])>>}
         /\ <<t, Len(stack[t])>> \notin Leased(s)
<1> DEFINE n == Len(stack[t])
<1>1. Top(t) \in Frames /\ Top(t) = stack[t][n] /\ n \in 1..MaxNesting /\ n \in 1..n
  BY TopIsLast, SessionAssumption
<1>2. \A u \in Threads : Len(stack'[u]) = Len(stack[u])
  BY MovedStack
<1>3. stack'[t][n].leased /\ Top(t)'.session = Top(t).session
  <2>1. /\ stack'[t][n] = Frame(Top(t).op, Top(t).session, place, leased)
        /\ Top(t)' = Frame(Top(t).op, Top(t).session, place, leased)
    BY MovedStack
  <2>2. /\ stack'[t][n].leased = leased
        /\ Top(t)'.session = Top(t).session
    BY <2>1 DEF Frame
  <2>3. leased = TRUE
    OBVIOUS
  <2> QED
    BY <2>2, <2>3
<1>4. \A u \in Threads : \A i \in 1..Len(stack[u]) :
        /\ stack'[u][i].session = stack[u][i].session
        /\ u # t \/ i # n => stack'[u][i].leased = stack[u][i].leased
  BY MovedCalls
<1>5. \A c \in Threads \X (1..MaxNesting) : c[1] = t /\ c[2] = n <=> c = <<t, n>>
  OBVIOUS
<1>6. ASSUME NEW r, r # s PROVE Leased(r)' = Leased(r)
  <2>1. \A c \in Threads \X (1..MaxNesting) : c \in Leased(r)' <=> c \in Leased(r)
    BY <1>1, <1>2, <1>4, <1>6 DEF Leased
  <2> QED
    BY <2>1 DEF Leased
<1>7. <<t, n>> \notin Leased(s)
  BY <1>1 DEF Leased
<1>8. Leased(s)' = Leased(s) \cup {<<t, n>>}
  <2> DEFINE L == Leased(s)
             P == {c \in Threads \X (1..MaxNesting) : /\ c[2] \in 1..Len(stack'[c[1]])
                                                      /\ stack'[c[1]][c[2]].session = s
                                                      /\ stack'[c[1]][c[2]].leased}
  <2>1. <<t, n>> \in P
    BY <1>1, <1>2, <1>3, <1>4
  <2>2. \A c \in Threads \X (1..MaxNesting) : c # <<t, n>> => (c \in P <=> c \in L)
    BY <1>1, <1>2, <1>4, <1>5 DEF Leased
  <2>3. P = L \cup {<<t, n>>}
    BY <2>1, <2>2, <1>1 DEF Leased
  <2> QED
    BY <2>3, <1>3 DEF Leased
<1> QED
  BY <1>6, <1>7, <1>8

\* Returning gives up the lease of the call that returns.
LEMMA ReturnedLeases ==
  ASSUME StackTyped, NEW t \in Threads, Busy(t), Return(t), NEW s
  PROVE  /\ Leased(s)' = Leased(s) \ {<<t, Len(stack[t])>>}
         /\ <<t, Len(stack[t])>> \in Leased(s) <=> Top(t).leased /\ Top(t).session = s
<1> DEFINE n == Len(stack[t])
<1>1. Top(t) \in Frames /\ Top(t) = stack[t][n] /\ n \in 1..MaxNesting /\ n \in 1..n /\ n \in Nat
  BY TopIsLast, SessionAssumption
<1>2. /\ Len(stack'[t]) = n - 1
      /\ \A u \in Threads : u # t => stack'[u] = stack[u]
      /\ \A i \in 1..(n - 1) : stack'[t][i] = stack[t][i]
  BY ReturnedStack
<1>3. Top(t).leased \in BOOLEAN
  BY <1>1, FrameFields
<1>4. <<t, n>> \in Leased(s) <=> Top(t).leased /\ Top(t).session = s
  BY <1>1, <1>3 DEF Leased
<1>5. ASSUME NEW u \in Threads, NEW i \in 1..MaxNesting
      PROVE  <<u, i>> \in Leased(s)' <=> <<u, i>> \in Leased(s) /\ <<u, i>> # <<t, n>>
  <2>1. CASE u # t
    BY <2>1, <1>2 DEF Leased
  <2>2. CASE u = t
    <3>1. i \in 1..Len(stack'[u]) <=> i \in 1..n /\ i # n
      BY <2>2, <1>1, <1>2
    <3>2. i \in 1..Len(stack'[u]) => stack'[u][i] = stack[u][i]
      BY <2>2, <1>2
    <3> QED
      BY <3>1, <3>2, <2>2 DEF Leased
  <2> QED
    BY <2>1, <2>2
<1>6. Leased(s) \subseteq Threads \X (1..MaxNesting) /\ Leased(s)' \subseteq Threads \X (1..MaxNesting)
  BY DEF Leased
<1>7. Leased(s)' = Leased(s) \ {<<t, n>>}
  <2>1. \A c \in Threads \X (1..MaxNesting) : \E u \in Threads, i \in 1..MaxNesting : c = <<u, i>>
    OBVIOUS
  <2>2. \A c \in Threads \X (1..MaxNesting) : c \in Leased(s)' <=> c \in Leased(s) /\ c # <<t, n>>
    BY <2>1, <1>5
  <2> HIDE DEF n
  <2> QED
    BY <2>2, <1>6
<1> QED
  BY <1>4, <1>7

\* Beginning a call takes none.
LEMMA CalledLeases ==
  ASSUME StackTyped, NEW t \in Threads, NEW f \in Frames, Len(stack[t]) < MaxNesting, ~f.leased,
         stack' = [stack EXCEPT ![t] = Append(stack[t], f)], NEW s
  PROVE  Leased(s)' = Leased(s)
<1> DEFINE n == Len(stack[t])
<1>1. /\ Len(stack'[t]) = n + 1 /\ stack'[t][n + 1] = f
      /\ \A u \in Threads : u # t => stack'[u] = stack[u]
      /\ \A i \in 1..n : stack'[t][i] = stack[t][i]
  BY CalledStack
<1>2. n \in Nat
  BY SessionAssumption DEF StackTyped
<1>3. ASSUME NEW u \in Threads, NEW i \in 1..MaxNesting
      PROVE  <<u, i>> \in Leased(s)' <=> <<u, i>> \in Leased(s)
  <2>1. CASE u # t
    BY <2>1, <1>1 DEF Leased
  <2>2. CASE u = t
    <3>1. i \in 1..Len(stack'[u]) <=> i \in 1..n \/ i = n + 1
      BY <2>2, <1>1, <1>2
    <3>2. i \in 1..n => stack'[u][i] = stack[u][i]
      BY <2>2, <1>1
    <3>3. i = n + 1 => ~stack'[u][i].leased /\ i \notin 1..n
      BY <2>2, <1>1, <1>2
    <3> QED
      BY <3>1, <3>2, <3>3, <2>2 DEF Leased
  <2> QED
    BY <2>1, <2>2
<1>4. Leased(s) \subseteq Threads \X (1..MaxNesting) /\ Leased(s)' \subseteq Threads \X (1..MaxNesting)
  BY DEF Leased
<1>5. \A c \in Threads \X (1..MaxNesting) : \E u \in Threads, i \in 1..MaxNesting : c = <<u, i>>
  OBVIOUS
<1>6. \A c \in Threads \X (1..MaxNesting) : c \in Leased(s)' <=> c \in Leased(s)
  BY <1>3, <1>5
<1> QED
  BY <1>4, <1>6

-----------------------------------------------------------------------------
(* The shared state                                                        *)

\* The innermost call after it went to a place, and those of the other threads.
LEMMA GotoFacts ==
  ASSUME StackTyped, NEW t \in Threads, Busy(t), NEW place \in Places, Goto(t, place)
  PROVE  /\ StackTyped' /\ Busy(t)' /\ Owner(t)' = Owner(t)
         /\ Top(t)' = Frame(Top(t).op, Top(t).session, place, Top(t).leased)
         /\ Top(t)'.op = Top(t).op /\ Top(t)'.session = Top(t).session
         /\ Top(t)'.at = place /\ Top(t)'.leased = Top(t).leased
         /\ \A u \in Threads : u # t => (Busy(u)' <=> Busy(u)) /\ Top(u)' = Top(u)
<1>1. Top(t) \in Frames /\ Top(t).leased \in BOOLEAN
  BY TopIsLast, FrameFields
<1>2. Moves(t, place, Top(t).leased)
  BY GotoMoves
<1>3. /\ StackTyped' /\ Busy(t)' /\ Top(t)' = Frame(Top(t).op, Top(t).session, place, Top(t).leased)
      /\ \A u \in Threads : u # t => stack'[u] = stack[u]
  BY <1>1, <1>2, MovedStack
<1>4. /\ Top(t)'.op = Top(t).op /\ Top(t)'.session = Top(t).session
      /\ Top(t)'.at = place /\ Top(t)'.leased = Top(t).leased
  BY <1>3 DEF Frame
<1>5. Owner(t)' = Owner(t)
  BY <1>4 DEF Owner
<1>6. \A u \in Threads : u # t => (Busy(u)' <=> Busy(u)) /\ Top(u)' = Top(u)
  BY <1>3 DEF Busy, Top
<1> QED
  BY <1>3, <1>4, <1>5, <1>6

\* What a step of a call may touch: its own Session, its own captured mode, stdin when it is free or
\* its own, and the input mode while stdin is its own.
Local(t) ==
  /\ \A r \in Sessions : r # Top(t).session => open'[r] = open[r] /\ gate'[r] = gate[r] /\ owed'[r] = owed[r]
  /\ \A o \in Owners : o # Owner(t) => saved'[o] = saved[o]
  /\ holder' # holder => (holder = "none" /\ holder' = Owner(t)) \/ (holder = Owner(t) /\ holder' = "none")
  /\ mode' # mode => holder = Owner(t)
  /\ lost => lost'

\* A call owns stdin as its Session, a direct read as its thread.
LEMMA OwnerIs ==
  ASSUME StackOK, NEW t \in Threads, Busy(t)
  PROVE  /\ Shape(Top(t)) /\ Top(t) \in Frames /\ Owner(t) \in Owners /\ Owner(t) # "none"
         /\ Top(t).op = "direct" => Owner(t) = t /\ Top(t).session = "none"
         /\ Top(t).op # "direct" => Owner(t) = Top(t).session /\ Top(t).session \in Sessions /\ Owner(t) \notin Threads
BY TopIsLast, SessionAssumption DEF StackOK, ShapesOK, Shape, Owner, Owners

\* A step of one call leaves the others where they stand.
LEMMA OthersStand ==
  ASSUME SessionInv, NEW t \in Threads, NEW u \in Threads, u # t, Busy(t), Busy(u),
         Top(t).op \notin Operations, Local(t), Top(u)' = Top(u),
         InMutation(u) => Top(u).session # Top(t).session,
         OpensAlone /\ Top(u).op \in Operations /\ Top(u).session = Top(t).session /\ ~open[Top(u).session]
           /\ Top(u).at = "check" => ~open'[Top(u).session]
  PROVE  StageOK(u)'
<1> DEFINE f == Top(u)
           o == Owner(u)
<1>1. /\ Shape(f) /\ f \in Frames /\ o \in Owners /\ o # "none"
      /\ f.op = "direct" => o = u
      /\ f.op # "direct" => o = f.session /\ f.session \in Sessions /\ o \notin Threads
  BY OwnerIs DEF SessionInv
<1>2. /\ Top(t).op = "direct" => Owner(t) = t /\ Top(t).session = "none"
      /\ Top(t).op # "direct" => Owner(t) = Top(t).session /\ Top(t).session \in Sessions /\ Owner(t) \notin Threads
  BY OwnerIs DEF SessionInv
<1>3. Owner(u)' = o /\ Top(u)' = f
  BY DEF Owner
<1>4. GateOK(f) /\ OwnsOK(f, o) /\ ModeOK(f, o) /\ OwedOK(f)
  BY DEF SessionInv, StagesOK, StageOK
<1>5. OwnerOK(o)
  BY <1>1 DEF SessionInv, OwnersOK
<1>6. f.op \in Operations \cup Mutations \cup {"direct"} /\ f.leased \in BOOLEAN
  BY <1>1, FrameFields DEF Ops
<1>7. f.session # Top(t).session /\ f.op # "direct" => /\ open'[f.session] = open[f.session]
                                                     /\ gate'[f.session] = gate[f.session]
                                                     /\ owed'[f.session] = owed[f.session]
  BY <1>1 DEF Local
<1>8. CASE f.op \in Operations
  <2>1. f.at \notin {"claimed", "restored"} /\ f.op \notin Mutations \cup {"direct"} /\ f.op \notin Closes /\ f.op # "open"
    BY <1>1, <1>8 DEF Shape, Operations, Mutations, Closes
  <2>2. OpensAlone /\ f.at = "check" /\ ~f.leased => ~open'[f.session]
    <3>1. OpensAlone /\ f.at = "check" /\ ~f.leased => ~open[f.session]
      BY <1>4, <1>8 DEF OwedOK
    <3>2. CASE f.session = Top(t).session
      BY <3>1, <3>2, <1>8
    <3>3. CASE f.session # Top(t).session
      BY <3>1, <3>3, <1>7, <2>1
    <3> QED
      BY <3>2, <3>3
  <2>3. GateOK(Top(u))' /\ OwnsOK(Top(u), Owner(u))'
    BY <2>1, <1>3 DEF GateOK, OwnsOK
  <2>4. ModeOK(Top(u), Owner(u))'
    BY <2>1, <1>3, <1>8 DEF ModeOK
  <2>5. OwedOK(Top(u))'
    BY <2>1, <2>2, <1>3 DEF OwedOK
  <2> QED
    BY <2>3, <2>4, <2>5 DEF StageOK
<1>9. CASE f.op \in Mutations /\ f.at = "start"
  <2>1. f.op \notin Operations
    BY <1>9 DEF Operations, Mutations
  <2>3. GateOK(Top(u))' /\ OwnsOK(Top(u), Owner(u))'
    BY <1>3, <1>9 DEF GateOK, OwnsOK
  <2>4. ModeOK(Top(u), Owner(u))'
    BY <1>3, <1>9 DEF ModeOK
  <2>5. OwedOK(Top(u))'
    BY <2>1, <1>3, <1>9 DEF OwedOK
  <2> QED
    BY <2>3, <2>4, <2>5 DEF StageOK
<1>10. CASE InMutation(u) \/ f.op = "direct"
  <2>1. f.op \notin Operations
    BY <1>10 DEF Operations, Mutations, InMutation
  <2>2. o # Owner(t)
    <3>1. CASE f.op = "direct"
      BY <3>1, <1>1, <1>2
    <3>2. CASE f.op # "direct"
      BY <3>2, <1>1, <1>2, <1>10
    <3> QED
      BY <3>1, <3>2
  <2>3. (holder' = o <=> holder = o) /\ saved'[o] = saved[o] /\ (holder = o => mode' = mode) /\ (~lost' => ~lost)
    BY <2>2, <1>1 DEF Local
  <2>4. f.op # "direct" => /\ f.session = o /\ open'[o] = open[o] /\ gate'[o] = gate[o] /\ owed'[o] = owed[o]
    BY <1>1, <1>7, <1>10
  <2>5. f.op \in Mutations \/ f.op = "open" \/ f.op \in Closes => f.op # "direct"
    BY DEF Mutations, Closes
  <2>6. GateOK(Top(u))'
    BY <1>3, <1>4, <2>4, <2>5 DEF GateOK
  <2>7. OwnsOK(Top(u), Owner(u))'
    BY <1>3, <1>4, <2>3, <2>4, <2>5 DEF OwnsOK
  <2>8. ModeOK(Top(u), Owner(u))'
    <3>1. f.at = "claimed" => saved'[o] = "none"
      BY <1>4, <2>3 DEF ModeOK
    <3>2. f.at \in {"configured", "held", "restoring", "leaving"} /\ saved'[o] # "none" => mode' = o
      BY <1>4, <1>5, <2>1, <2>3 DEF ModeOK, OwnerOK
    <3>3. f.at = "restored" => holder = o
      BY <1>1, <1>4, <1>6, <2>1 DEF OwnsOK, Shape, Mutations, Closes
    <3>4. f.at = "restored" /\ ~lost' => mode' = "original"
      BY <1>4, <2>3, <3>3 DEF ModeOK
    <3> QED
      BY <1>3, <3>1, <3>2, <3>4 DEF ModeOK
  <2>9. OwedOK(Top(u))'
    BY <1>3, <1>4, <2>1, <2>4, <2>5 DEF OwedOK
  <2> QED
    BY <2>6, <2>7, <2>8, <2>9 DEF StageOK
<1> QED
  BY <1>6, <1>8, <1>9, <1>10 DEF InMutation

\* and the other Sessions and owners as they are.
LEMMA OthersKept ==
  ASSUME SessionInv, NEW t \in Threads, Busy(t), Local(t)
  PROVE  /\ \A r \in Sessions : r # Owner(t) => SessionOK(r)'
         /\ \A o \in Owners : o # Owner(t) => OwnerOK(o)'
<1>1. /\ Owner(t) \in Owners /\ Owner(t) # "none"
      /\ Top(t).op = "direct" => Top(t).session = "none"
      /\ Top(t).op # "direct" => Owner(t) = Top(t).session
  BY OwnerIs DEF SessionInv
<1>2. ASSUME NEW o \in Owners, o # Owner(t)
      PROVE  /\ (holder' = o <=> holder = o) /\ saved'[o] = saved[o] /\ (holder = o => mode' = mode) /\ (~lost' => ~lost)
             /\ OwnerOK(o)
  <2>1. o # "none"
    BY SessionAssumption DEF Owners
  <2> QED
    BY <1>2, <2>1 DEF Local, SessionInv, OwnersOK
<1>3. ASSUME NEW o \in Owners, o # Owner(t) PROVE OwnerOK(o)'
  BY <1>2, <1>3 DEF OwnerOK
<1>4. ASSUME NEW r \in Sessions, r # Owner(t) PROVE SessionOK(r)'
  <2>1. r \in Owners /\ r # Top(t).session
    BY <1>1, <1>4, SessionAssumption DEF Owners
  <2>2. open'[r] = open[r] /\ gate'[r] = gate[r] /\ owed'[r] = owed[r]
    BY <2>1 DEF Local
  <2>3. SessionOK(r)
    BY DEF SessionInv, SessionsOK
  <2>4. (holder' = r <=> holder = r) /\ saved'[r] = saved[r] /\ (holder = r => mode' = mode)
    BY <1>2, <1>4, <2>1
  <2> QED
    BY <2>2, <2>3, <2>4 DEF SessionOK
<1> QED
  BY <1>3, <1>4

\* A formatter knows nothing but its lease.
LEMMA FormatterStands ==
  ASSUME NEW t \in Threads, Outer(Top(t))'
  PROVE  StageOK(t)'
<1>1. Top(t)'.op = "format" /\ Top(t)'.at = "using"
  BY DEF Outer
<1>2. Top(t)'.op \in Operations /\ Top(t)'.op \notin Mutations /\ Top(t)'.op \notin Closes
  BY <1>1 DEF Operations, Mutations, Closes
<1> QED
  BY <1>1, <1>2 DEF StageOK, GateOK, OwnsOK, ModeOK, OwedOK

\* The parts of the invariant that a step of a lifecycle call or a direct read does not touch; what
\* it does touch is left to the step.
Concerns(t) ==
  /\ \A s \in Sessions : Leased(s) # {} => open'[s] /\ gate'[s] # "held"
  /\ OpensAlone /\ Top(t).op # "direct" /\ ~open[Top(t).session] /\ open'[Top(t).session] => NoOperationOn(Top(t).session)
  /\ Top(t).op # "direct" => SessionOK(Owner(t))'
  /\ OwnerOK(Owner(t))'
  /\ ModeIsRestored'

\* Such a step keeps the invariant, whether the call goes on
LEMMA StepGoesOn ==
  ASSUME SessionInv, NEW t \in Threads, Busy(t), Top(t).op \notin Operations, NEW place \in Places, Goto(t, place),
         Shape(Frame(Top(t).op, Top(t).session, place, Top(t).leased)),
         Top(t).op \in Mutations => \A u \in Threads : u # t /\ InMutation(u) => Top(u).session # Top(t).session,
         Local(t), active' = active, SharedTyped', Concerns(t), StageOK(t)'
  PROVE  SessionInv'
<1>1. StackOK /\ StackTyped /\ LeasesCounted /\ Top(t) \in Frames /\ Top(t).leased \in BOOLEAN
  BY TopIsLast, FrameFields DEF SessionInv, StackOK
<1>2. Moves(t, place, Top(t).leased)
  BY <1>1, GotoMoves
<1>3. StackOK'
  BY <1>1, <1>2, MovedStackOK
<1>4. \A s : Leased(s)' = Leased(s)
  BY <1>1, <1>2, MovedLeases
<1>5. LeasesCounted' /\ LeasesHold'
  BY <1>1, <1>4 DEF LeasesCounted, LeasesHold, Concerns
<1>6. \A u \in Threads : u # t => (Busy(u)' <=> Busy(u)) /\ Top(u)' = Top(u)
  BY <1>1, GotoFacts
<1>7. ASSUME NEW u \in Threads, Busy(u)' PROVE StageOK(u)'
  <2>1. CASE u = t
    BY <2>1
  <2>2. CASE u # t
    <3>1. Busy(u) /\ Top(u)' = Top(u)
      BY <2>2, <1>6, <1>7
    <3>2. InMutation(u) => Top(u).session # Top(t).session
      <4>1. Top(t).op \in Mutations \cup {"direct"}
        BY <1>1, FrameFields DEF Ops
      <4>2. CASE Top(t).op \in Mutations
        BY <4>2, <2>2
      <4>3. CASE Top(t).op = "direct"
        <5>1. Top(t).session = "none"
          BY <4>3, <1>1, OwnerIs
        <5>2. InMutation(u) => Top(u).session \in Sessions
          BY <3>1, <1>1, OwnerIs DEF InMutation, Mutations
        <5> QED
          BY <5>1, <5>2, SessionAssumption
      <4> QED
        BY <4>1, <4>2, <4>3
    <3>3. OpensAlone /\ Top(u).op \in Operations /\ Top(u).session = Top(t).session /\ ~open[Top(u).session]
            /\ Top(u).at = "check" => ~open'[Top(u).session]
      <4>1. SUFFICES ASSUME OpensAlone, Top(u).op \in Operations, Top(u).session = Top(t).session,
                            ~open[Top(u).session], open'[Top(u).session]
                     PROVE  FALSE
        BY <4>1
      <4>2. Top(t).op # "direct"
        <5>1. Top(u).session \in Sessions
          BY <4>1, <3>1, <1>1, OwnerIs DEF Operations
        <5>2. Top(t).op = "direct" => Top(t).session = "none"
          BY <1>1, OwnerIs
        <5> QED
          BY <5>1, <5>2, <4>1, SessionAssumption
      <4>3. NoOperationOn(Top(t).session)
        BY <4>1, <4>2 DEF Concerns
      <4>4. Top(u) = stack[u][Len(stack[u])] /\ Len(stack[u]) \in 1..Len(stack[u])
        BY <3>1, <1>1, TopIsLast, SessionAssumption
      <4> QED
        BY <4>1, <4>3, <4>4 DEF NoOperationOn
    <3> QED
      BY <3>1, <3>2, <3>3, <2>2, OthersStand
  <2> QED
    BY <2>1, <2>2
<1>8. Top(t).op # "direct" => Owner(t) \in Sessions
  BY <1>1, OwnerIs
<1>9. SessionsOK'
  <2>1. ASSUME NEW r \in Sessions PROVE SessionOK(r)'
    <3>1. CASE r # Owner(t)
      BY <3>1, OthersKept
    <3>2. CASE r = Owner(t)
      <4>1. Top(t).op # "direct"
        BY <3>2, <1>1, OwnerIs, SessionAssumption
      <4>2. SessionOK(Owner(t))'
        BY <4>1 DEF Concerns
      <4>3. Owner(t)' = Owner(t)
        BY <1>1, GotoFacts
      <4> QED
        BY <4>2, <4>3, <3>2 DEF SessionOK
    <3> QED
      BY <3>1, <3>2
  <2> QED
    BY <2>1 DEF SessionsOK
<1>10. OwnersOK'
  <2>1. ASSUME NEW o \in Owners PROVE OwnerOK(o)'
    <3>1. CASE o # Owner(t)
      BY <3>1, OthersKept
    <3>2. CASE o = Owner(t)
      <4>2. OwnerOK(Owner(t))'
        BY DEF Concerns
      <4>3. Owner(t)' = Owner(t)
        BY <1>1, GotoFacts
      <4> QED
        BY <4>2, <4>3, <3>2 DEF OwnerOK
    <3> QED
      BY <3>1, <3>2
  <2> QED
    BY <2>1 DEF OwnersOK
<1>11. StagesOK' /\ ModeIsRestored'
  BY <1>7 DEF StagesOK, Concerns
<1> QED
  BY <1>3, <1>5, <1>9, <1>10, <1>11 DEF SessionInv

\* What the call that returns owned is what it owns no more.
ConcernsOf(t, s, o) ==
  /\ \A r \in Sessions : Leased(r) # {} => open'[r] /\ gate'[r] # "held"
  /\ OpensAlone /\ s \in Sessions /\ ~open[s] => ~open'[s]
  /\ s \in Sessions => SessionOK(s)'
  /\ OwnerOK(o)'
  /\ ModeIsRestored'

\* or returns.
LEMMA StepReturns ==
  ASSUME SessionInv, NEW t \in Threads, Busy(t), Top(t).op \notin Operations, Return(t),
         NEW s, s = Top(t).session, NEW o, o = Owner(t),
         InMutation(t) \/ Top(t).op = "direct",
         Local(t), active' = active, SharedTyped', ConcernsOf(t, s, o)
  PROVE  SessionInv'
<1>1. StackOK /\ StackTyped /\ LeasesCounted /\ OneMutation /\ Top(t) \in Frames /\ ~Top(t).leased
  BY TopIsLast, OwnerIs DEF SessionInv, StackOK, Shape
<1>2. /\ StackOK' /\ \A u \in Threads : u # t => (Busy(u)' <=> Busy(u)) /\ Top(u)' = Top(u)
      /\ Busy(t)' => Outer(Top(t))'
  BY <1>1, ReturnedStackOK
<1>3. ASSUME NEW r PROVE Leased(r)' = Leased(r)
  <2> DEFINE x == <<t, Len(stack[t])>>
  <2>1. Leased(r)' = Leased(r) \ {x} /\ (x \in Leased(r) <=> Top(t).leased /\ Top(t).session = r)
    BY <1>1, ReturnedLeases
  <2> HIDE DEF x
  <2>2. x \notin Leased(r)
    BY <2>1, <1>1
  <2> QED
    BY <2>1, <2>2
<1>4. LeasesCounted' /\ LeasesHold'
  BY <1>1, <1>3 DEF LeasesCounted, LeasesHold, ConcernsOf
<1>5. ASSUME NEW u \in Threads, Busy(u)' PROVE StageOK(u)'
  <2>1. CASE u = t
    BY <2>1, <1>2, <1>5, FormatterStands
  <2>2. CASE u # t
    <3>1. Busy(u) /\ Top(u)' = Top(u)
      BY <2>2, <1>2, <1>5
    <3>2. InMutation(u) => Top(u).session # Top(t).session
      <4>1. CASE InMutation(t)
        BY <4>1, <2>2, <1>1 DEF OneMutation
      <4>2. CASE Top(t).op = "direct"
        <5>1. Top(t).session = "none"
          BY <4>2, <1>1, OwnerIs
        <5>2. InMutation(u) => Top(u).session \in Sessions
          BY <3>1, <1>1, OwnerIs DEF InMutation, Mutations
        <5> QED
          BY <5>1, <5>2, SessionAssumption
      <4> QED
        BY <4>1, <4>2
    <3>3. OpensAlone /\ Top(u).op \in Operations /\ Top(u).session = Top(t).session /\ ~open[Top(u).session]
            /\ Top(u).at = "check" => ~open'[Top(u).session]
      <4>1. Top(u).op \in Operations => Top(u).session \in Sessions
        BY <3>1, <1>1, OwnerIs DEF Operations
      <4> QED
        BY <4>1 DEF ConcernsOf
    <3> QED
      BY <3>1, <3>2, <3>3, <2>2, OthersStand
  <2> QED
    BY <2>1, <2>2
<1>6. SessionsOK'
  <2>1. ASSUME NEW r \in Sessions PROVE SessionOK(r)'
    <3>1. CASE r # Owner(t)
      BY <3>1, OthersKept
    <3>2. CASE r = Owner(t)
      <4>1. r = s
        BY <3>2, <1>1, OwnerIs, SessionAssumption
      <4> QED
        BY <4>1 DEF ConcernsOf
    <3> QED
      BY <3>1, <3>2
  <2> QED
    BY <2>1 DEF SessionsOK
<1>7. OwnersOK'
  <2>1. ASSUME NEW p \in Owners PROVE OwnerOK(p)'
    <3>1. CASE p # Owner(t)
      BY <3>1, OthersKept
    <3>2. CASE p = Owner(t)
      BY <3>2 DEF ConcernsOf
    <3> QED
      BY <3>1, <3>2
  <2> QED
    BY <2>1 DEF OwnersOK
<1>8. StagesOK' /\ ModeIsRestored'
  BY <1>5 DEF StagesOK, ConcernsOf
<1> QED
  BY <1>2, <1>4, <1>6, <1>7, <1>8 DEF SessionInv

-----------------------------------------------------------------------------
(* Operations                                                              *)

\* A step that leaves the shared state alone keeps what is known of it.
LEMMA SharedStands ==
  ASSUME SessionInv, UNCHANGED <<open, gate, owed, inputVars>>
  PROVE  /\ SessionsOK' /\ OwnersOK' /\ ModeIsRestored'
         /\ \A u \in Threads : Busy(u) /\ Top(u)' = Top(u) => StageOK(u)'
<1>1. open' = open /\ gate' = gate /\ owed' = owed /\ holder' = holder /\ mode' = mode /\ saved' = saved /\ lost' = lost
  BY DEF inputVars
<1>2. SessionsOK' /\ OwnersOK' /\ ModeIsRestored'
  BY <1>1 DEF SessionInv, SessionsOK, SessionOK, OwnersOK, OwnerOK, ModeIsRestored
<1>3. ASSUME NEW u \in Threads, Busy(u), Top(u)' = Top(u) PROVE StageOK(u)'
  <2>1. StageOK(u)
    BY <1>3 DEF SessionInv, StagesOK
  <2>2. Owner(u)' = Owner(u)
    BY <1>3 DEF Owner
  <2>3. GateOK(Top(u))' /\ OwnsOK(Top(u), Owner(u))'
    BY <1>1, <1>3, <2>1, <2>2 DEF StageOK, GateOK, OwnsOK
  <2>4. ModeOK(Top(u), Owner(u))'
    BY <1>1, <1>3, <2>1, <2>2 DEF StageOK, ModeOK
  <2>5. OwedOK(Top(u))'
    BY <1>1, <1>3, <2>1 DEF StageOK, OwedOK
  <2> QED
    BY <2>3, <2>4, <2>5 DEF StageOK
<1> QED
  BY <1>2, <1>3

\* A call under way begins.
LEMMA CallStep ==
  ASSUME SessionInv, NEW t \in Threads, NEW op \in Ops, NEW s \in Sessions \cup {"none"},
         op = "direct" <=> s = "none", Call(t, op, s)
  PROVE  SessionInv'
<1>1. StackOK /\ StackTyped
  BY DEF SessionInv, StackOK
<1>2. /\ StackOK' /\ Busy(t)' /\ Top(t)' = Frame(op, s, "start", FALSE)
      /\ \A u \in Threads : u # t => (Busy(u)' <=> Busy(u)) /\ Top(u)' = Top(u)
  BY <1>1, CalledStackOK
<1>3. UNCHANGED <<open, gate, active, owed, inputVars>> /\ UNCHANGED <<open, gate, owed, inputVars>>
  BY DEF Call
<1>4. SharedTyped'
  BY <1>3 DEF SessionInv, SharedTyped, inputVars
<1>5. ASSUME NEW r PROVE Leased(r)' = Leased(r)
  <2>1. PICK f : f = Frame(op, s, "start", FALSE)
    OBVIOUS
  <2>2. f \in Frames /\ ~f.leased
    BY <2>1 DEF Frame, Frames, Ops
  <2>3. Len(stack[t]) < MaxNesting /\ stack' = [stack EXCEPT ![t] = Append(stack[t], f)]
    BY <2>1 DEF Call, Frame
  <2> QED
    BY <1>1, <2>2, <2>3, CalledLeases
<1>6. LeasesCounted' /\ LeasesHold'
  BY <1>3, <1>5 DEF SessionInv, LeasesCounted, LeasesHold
<1>7. StageOK(t)'
  <2>1. Top(t)'.at = "start"
    BY <1>2 DEF Frame
  <2> QED
    BY <2>1 DEF StageOK, GateOK, OwnsOK, ModeOK, OwedOK
<1>8. StagesOK'
  BY <1>2, <1>3, <1>7, SharedStands DEF StagesOK
<1> QED
  BY <1>2, <1>3, <1>4, <1>6, <1>8, SharedStands DEF SessionInv

\* The end of an operation gives its lease back.
LEMMA ReleaseStep ==
  ASSUME SessionInv, NEW t \in Threads, Busy(t), Top(t).op \in Operations, ReleaseLease(t),
         UNCHANGED <<open, gate, owed, inputVars>>
  PROVE  SessionInv'
<1> DEFINE x == <<t, Len(stack[t])>>
           s == Top(t).session
<1>1. StackOK /\ StackTyped /\ Top(t).leased \in BOOLEAN /\ s \in Sessions /\ active \in [Sessions -> Int] /\ LeasesCounted
  BY TopIsLast, FrameFields, OwnerIs DEF SessionInv, StackOK, SharedTyped, Operations
<1>2. Return(t) /\ active' = [active EXCEPT ![s] = IF Top(t).leased THEN active[s] - 1 ELSE active[s]]
  BY DEF ReleaseLease
<1>3. /\ StackOK' /\ \A u \in Threads : u # t => (Busy(u)' <=> Busy(u)) /\ Top(u)' = Top(u)
      /\ Busy(t)' => Outer(Top(t))'
  BY <1>1, <1>2, ReturnedStackOK
<1>4. \A r : Leased(r)' = Leased(r) \ {x} /\ (x \in Leased(r) <=> Top(t).leased /\ s = r)
  BY <1>1, <1>2, ReturnedLeases
<1> HIDE DEF x, s
<1>5. LeasesHold'
  <2>1. \A r \in Sessions : Leased(r)' # {} => Leased(r) # {}
    BY <1>4
  <2> QED
    BY <2>1 DEF SessionInv, LeasesHold
<1>6. LeasesCounted'
  <2>1. ASSUME NEW r \in Sessions PROVE active'[r] = Cardinality(Leased(r)')
    <3>1. IsFiniteSet(Leased(r)) /\ Cardinality(Leased(r)) \in Nat /\ active[r] = Cardinality(Leased(r))
      BY <1>1, LeasesFinite DEF LeasesCounted
    <3>2. Cardinality(Leased(r) \ {x}) = IF x \in Leased(r) THEN Cardinality(Leased(r)) - 1 ELSE Cardinality(Leased(r))
      BY <3>1, FS_RemoveElement
    <3>3. CASE r = s /\ Top(t).leased
      <4>1. active'[r] = active[r] - 1
        BY <3>3, <1>1, <1>2
      <4>2. x \in Leased(r) /\ Leased(r)' = Leased(r) \ {x}
        BY <3>3, <1>4
      <4> QED
        BY <4>1, <4>2, <3>1, <3>2
    <3>4. CASE ~(r = s /\ Top(t).leased)
      <4>1. active'[r] = active[r]
        BY <3>4, <1>1, <1>2
      <4>2. x \notin Leased(r) /\ Leased(r)' = Leased(r) \ {x}
        BY <3>4, <1>4
      <4> QED
        BY <4>1, <4>2, <3>1, <3>2
    <3> QED
      BY <3>3, <3>4
  <2> QED
    BY <2>1 DEF LeasesCounted
<1>7. SharedTyped'
  <2>1. active' \in [Sessions -> Int]
    BY <1>1, <1>2
  <2> QED
    BY <2>1 DEF SessionInv, SharedTyped, inputVars
<1>8. StagesOK'
  <2>1. ASSUME NEW u \in Threads, Busy(u)' PROVE StageOK(u)'
    <3>1. CASE u = t
      BY <3>1, <2>1, <1>3, FormatterStands
    <3>2. CASE u # t
      BY <3>2, <2>1, <1>3, SharedStands
    <3> QED
      BY <3>1, <3>2
  <2> QED
    BY <2>1 DEF StagesOK
<1> QED
  BY <1>3, <1>5, <1>6, <1>7, <1>8, SharedStands DEF SessionInv

\* The constructor of an operation: it takes a lease when the Session is open.
LEMMA AdmitStep ==
  ASSUME SessionInv, NEW t \in Threads, Admit(t)
  PROVE  SessionInv'
<1> DEFINE n == Len(stack[t])
           x == <<t, n>>
<1>0. PICK s, l : s = Top(t).session /\ l = open[s]
  OBVIOUS
<1>1. Busy(t) /\ Top(t).op \in Operations /\ Top(t).at = "start"
  BY DEF Admit, At, Busy
<1>2. /\ StackOK /\ StackTyped /\ s \in Sessions /\ active \in [Sessions -> Int] /\ open \in [Sessions -> BOOLEAN]
      /\ LeasesCounted /\ LeasesHold
      /\ Top(t) \in Frames /\ Top(t) = stack[t][n]
      /\ ~Top(t).leased /\ Top(t).op \notin Mutations /\ Top(t).op # "open" /\ Top(t).op # "direct" /\ Top(t).op \notin Closes
  BY <1>0, <1>1, TopIsLast, OwnerIs DEF SessionInv, StackOK, SharedTyped, Operations, Mutations, Closes, Shape
<1>3. l \in BOOLEAN /\ "check" \in Places
  BY <1>0, <1>2 DEF Places
<1>4. /\ l = open[s] /\ gate[s] # "held" /\ UNCHANGED <<open, gate, owed, inputVars>>
      /\ active' = [active EXCEPT ![s] = IF l THEN active[s] + 1 ELSE active[s]]
      /\ stack' = [stack EXCEPT ![t] = [stack[t] EXCEPT ![n] = [op |-> stack[t][n].op, session |-> s, at |-> "check", leased |-> l]]]
  BY <1>0 DEF Admit
<1>5. [op |-> stack[t][n].op, session |-> s, at |-> "check", leased |-> l] = Frame(Top(t).op, Top(t).session, "check", l)
  BY <1>0, <1>2 DEF Frame
<1>6. Moves(t, "check", l)
  BY <1>0, <1>4, <1>5 DEF Moves
<1>7. Shape(Frame(Top(t).op, Top(t).session, "check", l))
  <2>1. /\ Frame(Top(t).op, s, "check", l).op = Top(t).op /\ Frame(Top(t).op, s, "check", l).session = s
        /\ Frame(Top(t).op, s, "check", l).at = "check"
    BY DEF Frame
  <2> QED
    BY <2>1, <1>0, <1>1, <1>2 DEF Shape
<1>8. /\ StackOK' /\ Busy(t)'
      /\ Top(t)' = Frame(Top(t).op, s, "check", l)
      /\ \A u \in Threads : u # t => (Busy(u)' <=> Busy(u)) /\ Top(u)' = Top(u)
  BY <1>0, <1>1, <1>2, <1>3, <1>6, <1>7, MovedStackOK, MovedStack DEF Busy, Top
<1>9. l => /\ \A r : r # s => Leased(r)' = Leased(r)
           /\ Leased(s)' = Leased(s) \cup {x} /\ x \notin Leased(s)
  BY <1>0, <1>1, <1>2, <1>3, <1>6, AdmittedLeases
<1>10. ~l => \A r : Leased(r)' = Leased(r)
  <2>1. ~l => l = Top(t).leased
    BY <1>2, <1>3, FrameFields
  <2> QED
    BY <2>1, <1>1, <1>2, <1>3, <1>6, MovedLeases
<1> HIDE DEF x
<1>11. LeasesHold'
  <2>1. \A r \in Sessions : Leased(r)' # {} => Leased(r) # {} \/ (l /\ r = s)
    BY <1>9, <1>10
  <2> QED
    BY <2>1, <1>2, <1>4 DEF LeasesHold
<1>12. LeasesCounted'
  <2>1. ASSUME NEW r \in Sessions PROVE active'[r] = Cardinality(Leased(r)')
    <3>1. IsFiniteSet(Leased(r)) /\ Cardinality(Leased(r)) \in Nat /\ active[r] = Cardinality(Leased(r))
      BY <1>2, LeasesFinite DEF LeasesCounted
    <3>2. CASE r = s /\ l
      <4>1. active'[r] = active[r] + 1
        BY <3>2, <1>2, <1>4
      <4>2. Cardinality(Leased(r) \cup {x}) = Cardinality(Leased(r)) + 1
        BY <3>1, <3>2, <1>9, FS_AddElement
      <4>3. Leased(r)' = Leased(r) \cup {x}
        BY <3>2, <1>9
      <4> QED
        BY <4>1, <4>2, <4>3, <3>1
    <3>3. CASE ~(r = s /\ l)
      <4>1. active'[r] = active[r]
        BY <3>3, <1>2, <1>4
      <4>2. Leased(r)' = Leased(r)
        BY <3>3, <1>9, <1>10
      <4> QED
        BY <4>1, <4>2, <3>1
    <3> QED
      BY <3>2, <3>3
  <2> QED
    BY <2>1 DEF LeasesCounted
<1>13. SharedTyped'
  <2>1. active' \in [Sessions -> Int]
    BY <1>2, <1>3, <1>4
  <2> QED
    BY <2>1, <1>4 DEF SessionInv, SharedTyped, inputVars
<1>14. StageOK(t)'
  <2>1. /\ Top(t)'.op = Top(t).op /\ Top(t)'.session = s /\ Top(t)'.at = "check" /\ (l => Top(t)'.leased)
    BY <1>3, <1>8 DEF Frame
  <2>2. ~Top(t)'.leased => ~open'[s]
    BY <2>1, <1>4
  <2> QED
    BY <2>1, <2>2, <1>0, <1>1, <1>2 DEF StageOK, GateOK, OwnsOK, ModeOK, OwedOK
<1>15. StagesOK'
  BY <1>4, <1>8, <1>14, SharedStands DEF StagesOK
<1> QED
  BY <1>4, <1>8, <1>11, <1>12, <1>13, <1>15, SharedStands DEF SessionInv

\* A step of an operation that neither takes a lease nor gives one back.
LEMMA OperationGoesOn ==
  ASSUME SessionInv, NEW t \in Threads, Busy(t), Top(t).op \in Operations, NEW place \in {"using", "done"}, Goto(t, place),
         OpensAlone => Top(t).leased, UNCHANGED <<open, gate, active, inputVars>>
  PROVE  /\ StackOK' /\ LeasesCounted' /\ LeasesHold' /\ StageOK(t)'
         /\ \A u \in Threads : u # t => (Busy(u)' <=> Busy(u)) /\ Top(u)' = Top(u)
<1>1. /\ StackOK /\ StackTyped /\ LeasesCounted /\ LeasesHold /\ Top(t) \in Frames /\ Shape(Top(t))
      /\ Top(t).op \notin Mutations /\ Top(t).op # "open" /\ Top(t).op # "direct" /\ Top(t).op \notin Closes
      /\ Top(t).leased \in BOOLEAN /\ Top(t).session \in Sessions
  BY TopIsLast, FrameFields, OwnerIs DEF SessionInv, StackOK, Operations, Mutations, Closes
<1>2. place \in Places
  BY DEF Places
<1>3. Moves(t, place, Top(t).leased)
  BY <1>1, <1>2, GotoMoves
<1>4. Shape(Frame(Top(t).op, Top(t).session, place, Top(t).leased))
  BY <1>1 DEF Shape, Frame
<1>5. StackOK' /\ \A r : Leased(r)' = Leased(r)
  BY <1>1, <1>2, <1>3, <1>4, MovedStackOK, MovedLeases
<1>6. /\ Top(t)'.op = Top(t).op /\ Top(t)'.at = place
      /\ \A u \in Threads : u # t => (Busy(u)' <=> Busy(u)) /\ Top(u)' = Top(u)
  BY <1>1, <1>2, GotoFacts
<1>7. LeasesCounted' /\ LeasesHold'
  BY <1>1, <1>5 DEF LeasesCounted, LeasesHold
<1>8. StageOK(t)'
  BY <1>1, <1>6 DEF StageOK, GateOK, OwnsOK, ModeOK, OwedOK
<1> QED
  BY <1>5, <1>6, <1>7, <1>8

\* The look at State::open: who goes on past it holds a lease.
LEMMA CheckOpenStep ==
  ASSUME SessionInv, NEW t \in Threads, CheckOpen(t)
  PROVE  SessionInv'
<1>1. Busy(t) /\ Top(t).op \in Operations /\ Top(t).at = "check" /\ UNCHANGED <<open, gate, owed, inputVars>>
  BY DEF CheckOpen, At, Busy
<1>2. CASE ~open[Top(t).session]
  BY <1>1, <1>2, ReleaseStep DEF CheckOpen
<1>3. CASE open[Top(t).session]
  <2>1. Goto(t, "using") /\ UNCHANGED <<open, gate, active, inputVars>>
    BY <1>1, <1>3 DEF CheckOpen
  <2>2. OpensAlone => Top(t).leased
    BY <1>1, <1>3 DEF SessionInv, StagesOK, StageOK, OwedOK
  <2>3. /\ StackOK' /\ LeasesCounted' /\ LeasesHold' /\ StageOK(t)'
        /\ \A u \in Threads : u # t => (Busy(u)' <=> Busy(u)) /\ Top(u)' = Top(u)
    BY <1>1, <2>1, <2>2, OperationGoesOn
  <2>4. SharedTyped'
    BY <1>1, <2>1 DEF SessionInv, SharedTyped, inputVars
  <2>5. StagesOK'
    BY <1>1, <2>3, SharedStands DEF StagesOK
  <2> QED
    BY <1>1, <2>3, <2>4, <2>5, SharedStands DEF SessionInv
<1> QED
  BY <1>2, <1>3

\* The return of an operation.
LEMMA EndOperationStep ==
  ASSUME SessionInv, NEW t \in Threads, EndOperation(t)
  PROVE  SessionInv'
<1>1. /\ Busy(t) /\ Top(t).op \in Operations /\ ReleaseLease(t) /\ UNCHANGED <<open, gate, owed, inputVars>>
  BY DEF EndOperation, At, Busy, Operations
<1> QED
  BY <1>1, ReleaseStep

\* A list of output states with no state twice.
Distinct(q) == \A i, j \in 1..Len(q) : q[i] = q[j] => i = j

\* It has none twice after a state it did not hold was added,
LEMMA AppendDistinct ==
  ASSUME NEW q \in Seq(Outputs), Distinct(q), NEW k \in Outputs, ~Contains(q, k)
  PROVE  Append(q, k) \in Seq(Outputs) /\ Distinct(Append(q, k))
<1> DEFINE a == Append(q, k)
           n == Len(q)
<1>1. a \in Seq(Outputs) /\ Len(a) = n + 1 /\ (\A i \in 1..n : a[i] = q[i]) /\ a[n + 1] = k /\ n \in Nat
  BY AppendProperties, LenProperties
<1>2. \A i \in 1..n : q[i] # k
  BY DEF Contains
<1> HIDE DEF a
<1>3. ASSUME NEW i \in 1..(n + 1), NEW j \in 1..(n + 1), a[i] = a[j] PROVE i = j
  <2>1. (i \in 1..n \/ i = n + 1) /\ (j \in 1..n \/ j = n + 1)
    <3> HIDE DEF n
    <3> QED
      BY <1>1
  <2> QED
    BY <2>1, <1>1, <1>2, <1>3 DEF Distinct
<1> QED
  BY <1>1, <1>3 DEF Distinct, a

\* after one was taken out,
LEMMA RemoveDistinct ==
  ASSUME NEW q \in Seq(Outputs), Distinct(q), NEW i \in 1..Len(q)
  PROVE  RemoveAt(q, i) \in Seq(Outputs) /\ Distinct(RemoveAt(q, i))
<1> DEFINE n == Len(q)
           a == SubSeq(q, 1, i - 1)
           b == SubSeq(q, i + 1, n)
           r == RemoveAt(q, i)
<1>1. n \in Nat /\ i \in Nat /\ 1 <= i /\ i <= n /\ \A p \in 1..n : q[p] \in Outputs
  <2>1. n \in Nat /\ \A p \in 1..n : q[p] \in Outputs
    BY LenProperties, ElementOfSeq
  <2> HIDE DEF n
  <2> QED
    BY <2>1 DEF n
<1> HIDE DEF n
<1>2. a \in Seq(Outputs) /\ Len(a) = i - 1 /\ \A p \in 1..(i - 1) : a[p] = q[p]
  <2>1. \A p \in 1..(i - 1) : q[p] \in Outputs
    BY <1>1
  <2>2. i - 1 \in Int /\ 1 \in Int
    BY <1>1
  <2>3. /\ a \in Seq(Outputs) /\ Len(a) = IF 1 <= i - 1 THEN i - 1 - 1 + 1 ELSE 0
        /\ \A p \in 1..(i - 1 - 1 + 1) : a[p] = q[1 + p - 1]
    BY <2>1, <2>2, SubSeqProperties
  <2>4. (IF 1 <= i - 1 THEN i - 1 - 1 + 1 ELSE 0) = i - 1 /\ i - 1 - 1 + 1 = i - 1
    BY <1>1
  <2>5. \A p \in 1..(i - 1) : 1 + p - 1 = p
    BY <1>1
  <2> HIDE DEF a
  <2> QED
    BY <2>3, <2>4, <2>5
<1>3. b \in Seq(Outputs) /\ Len(b) = n - i /\ \A p \in 1..(n - i) : b[p] = q[p + i]
  <2>1. \A p \in (i + 1)..n : q[p] \in Outputs
    BY <1>1
  <2>2. i + 1 \in Int /\ n \in Int
    BY <1>1
  <2>3. /\ b \in Seq(Outputs) /\ Len(b) = IF i + 1 <= n THEN n - (i + 1) + 1 ELSE 0
        /\ \A p \in 1..(n - (i + 1) + 1) : b[p] = q[i + 1 + p - 1]
    BY <2>1, <2>2, SubSeqProperties
  <2>4. (IF i + 1 <= n THEN n - (i + 1) + 1 ELSE 0) = n - i /\ n - (i + 1) + 1 = n - i
    BY <1>1
  <2>5. \A p \in 1..(n - i) : i + 1 + p - 1 = p + i
    BY <1>1
  <2> HIDE DEF b
  <2> QED
    BY <2>3, <2>4, <2>5
<1>4. r = a \o b
  BY DEF RemoveAt, n
<1> HIDE DEF a, b, r
<1>5. /\ r \in Seq(Outputs) /\ Len(r) = n - 1
      /\ \A p \in 1..(n - 1) : r[p] = IF p <= i - 1 THEN a[p] ELSE b[p - (i - 1)]
  <2>1. Len(a) + Len(b) = n - 1
    BY <1>1, <1>2, <1>3
  <2> QED
    BY <2>1, <1>2, <1>3, <1>4, ConcatProperties
<1>6. \A p \in 1..(n - 1) : \/ p < i /\ p \in 1..n /\ r[p] = q[p]
                            \/ p >= i /\ p + 1 \in 1..n /\ r[p] = q[p + 1]
  <2>1. ASSUME NEW p \in 1..(n - 1), p <= i - 1 PROVE p < i /\ p \in 1..n /\ r[p] = q[p]
    <3>1. p < i /\ p \in 1..n /\ p \in 1..(i - 1)
      BY <2>1, <1>1
    <3>2. r[p] = a[p]
      BY <2>1, <1>5
    <3> QED
      BY <3>1, <3>2, <1>2
  <2>2. ASSUME NEW p \in 1..(n - 1), ~(p <= i - 1) PROVE p >= i /\ p + 1 \in 1..n /\ r[p] = q[p + 1]
    <3>1. p >= i /\ p + 1 \in 1..n /\ p - (i - 1) \in 1..(n - i) /\ p - (i - 1) + i = p + 1
      BY <2>2, <1>1
    <3>2. r[p] = b[p - (i - 1)]
      BY <2>2, <1>5
    <3>3. b[p - (i - 1)] = q[p - (i - 1) + i]
      BY <3>1, <1>3
    <3> QED
      BY <3>1, <3>2, <3>3
  <2> QED
    BY <2>1, <2>2
<1>7. ASSUME NEW p \in 1..(n - 1), NEW o \in 1..(n - 1), r[p] = r[o] PROVE p = o
  <2>1. \A x, y \in 1..n : q[x] = q[y] => x = y
    BY DEF Distinct, n
  <2>2. CASE p < i /\ p \in 1..n /\ r[p] = q[p] /\ o < i /\ o \in 1..n /\ r[o] = q[o]
    BY <2>1, <2>2, <1>7
  <2>3. CASE p < i /\ p \in 1..n /\ r[p] = q[p] /\ o >= i /\ o + 1 \in 1..n /\ r[o] = q[o + 1]
    <3>1. p = o + 1
      BY <2>1, <2>3, <1>7
    <3> QED
      BY <3>1, <2>3, <1>1
  <2>4. CASE p >= i /\ p + 1 \in 1..n /\ r[p] = q[p + 1] /\ o < i /\ o \in 1..n /\ r[o] = q[o]
    <3>1. p + 1 = o
      BY <2>1, <2>4, <1>7
    <3> QED
      BY <3>1, <2>4, <1>1
  <2>5. CASE p >= i /\ p + 1 \in 1..n /\ r[p] = q[p + 1] /\ o >= i /\ o + 1 \in 1..n /\ r[o] = q[o + 1]
    <3>1. p + 1 = o + 1
      BY <2>1, <2>5, <1>7
    <3> QED
      BY <3>1, <1>1
  <2> QED
    BY <2>2, <2>3, <2>4, <2>5, <1>6
<1> QED
  BY <1>5, <1>7 DEF Distinct, r

\* and after its end was given back.
LEMMA PrefixDistinct ==
  ASSUME NEW q \in Seq(Outputs), Distinct(q), NEW n \in 0..Len(q)
  PROVE  SubSeq(q, 1, n) \in Seq(Outputs) /\ Distinct(SubSeq(q, 1, n))
<1> DEFINE m == Len(q)
           a == SubSeq(q, 1, n)
<1>1. m \in Nat /\ \A p \in 1..m : q[p] \in Outputs
  BY LenProperties, ElementOfSeq
<1> HIDE DEF m
<1>2. n \in Nat /\ n <= m
  BY <1>1 DEF m
<1>3. \A p \in 1..n : p \in 1..m /\ q[p] \in Outputs
  BY <1>1, <1>2
<1>4. /\ a \in Seq(Outputs) /\ Len(a) = IF 1 <= n THEN n - 1 + 1 ELSE 0
      /\ \A p \in 1..(n - 1 + 1) : a[p] = q[1 + p - 1]
  <2>1. 1 \in Int /\ n \in Int
    BY <1>2
  <2> QED
    BY <2>1, <1>3, SubSeqProperties
<1>5. (IF 1 <= n THEN n - 1 + 1 ELSE 0) = n /\ n - 1 + 1 = n /\ \A p \in 1..n : 1 + p - 1 = p
  BY <1>2
<1> HIDE DEF a
<1>6. a \in Seq(Outputs) /\ Len(a) = n /\ \A p \in 1..n : a[p] = q[p]
  BY <1>4, <1>5
<1>7. \A i, j \in 1..n : a[i] = a[j] => i = j
  BY <1>3, <1>6 DEF Distinct, m
<1> QED
  BY <1>6, <1>7 DEF Distinct, a

\* setCursorVisible, enterAlternateScreen and leaveAlternateScreen: a state is owed at most once, and only
\* by an open Session.
LEMMA UseOutputStep ==
  ASSUME SessionInv, NEW t \in Threads, UseOutput(t)
  PROVE  SessionInv'
<1>0. PICK s : s = Top(t).session
  OBVIOUS
<1>1. /\ Busy(t) /\ Top(t).op \in Operations /\ Top(t).at = "using" /\ Goto(t, "done")
      /\ UNCHANGED <<open, gate, active, inputVars>>
  BY DEF UseOutput, At, Busy, Operations
<1>2. /\ StackOK /\ StackTyped /\ s \in Sessions /\ Top(t) \in Frames /\ Shape(Top(t))
      /\ Top(t).session = s /\ Top(t).op # "direct"
      /\ owed \in [Sessions -> Seq(Outputs)] /\ SessionOK(s)
  BY <1>0, <1>1, OwnerIs, TopIsLast DEF SessionInv, StackOK, Operations, SharedTyped, SessionsOK
<1>3. OpensAlone => Top(t).leased
  BY <1>1, <1>2 DEF Shape
<1>4. /\ StackOK' /\ LeasesCounted' /\ LeasesHold' /\ StageOK(t)'
      /\ \A u \in Threads : u # t => (Busy(u)' <=> Busy(u)) /\ Top(u)' = Top(u)
  BY <1>1, <1>3, OperationGoesOn
<1>5. OpensAlone => open[s] /\ gate[s] # "held"
  <2>1. SUFFICES ASSUME OpensAlone PROVE Leased(s) # {}
    BY <1>2 DEF SessionInv, LeasesHold
  <2>2. Len(stack[t]) \in 1..MaxNesting /\ Top(t) = stack[t][Len(stack[t])] /\ Len(stack[t]) \in 1..Len(stack[t])
    BY <1>1, <1>2, TopIsLast, SessionAssumption
  <2>3. <<t, Len(stack[t])>> \in Leased(s)
    BY <2>1, <2>2, <1>2, <1>3 DEF Leased
  <2> QED
    BY <2>3
<1>6. Distinct(owed[s]) /\ owed[s] \in Seq(Outputs) /\ DOMAIN owed[s] = 1..Len(owed[s])
  BY <1>2, LenProperties DEF SessionOK, Distinct
<1>7. PICK q : q \in Seq(Outputs) /\ Distinct(q) /\ owed' = [owed EXCEPT ![s] = q]
  <2>1. PICK k \in Outputs : \/ UNCHANGED owed
                             \/ ~Contains(owed[s], k) /\ owed' = [owed EXCEPT ![s] = Append(owed[s], k)]
                             \/ \E i \in DOMAIN owed[s] : owed[s][i] = k /\ owed' = [owed EXCEPT ![s] = RemoveAt(owed[s], i)]
    BY <1>0 DEF UseOutput
  <2>2. CASE UNCHANGED owed
    BY <2>2, <1>2, <1>6
  <2>3. CASE ~Contains(owed[s], k) /\ owed' = [owed EXCEPT ![s] = Append(owed[s], k)]
    BY <2>3, <1>6, AppendDistinct
  <2>4. CASE \E i \in DOMAIN owed[s] : owed[s][i] = k /\ owed' = [owed EXCEPT ![s] = RemoveAt(owed[s], i)]
    BY <2>4, <1>6, RemoveDistinct
  <2> QED
    BY <2>1, <2>2, <2>3, <2>4
<1>8. owed' \in [Sessions -> Seq(Outputs)] /\ owed'[s] = q /\ \A r \in Sessions : r # s => owed'[r] = owed[r]
  BY <1>2, <1>7
<1>9. open' = open /\ gate' = gate /\ holder' = holder /\ mode' = mode /\ saved' = saved /\ lost' = lost /\ active' = active
  BY <1>1 DEF inputVars
<1>10. SharedTyped'
  BY <1>8, <1>9 DEF SessionInv, SharedTyped
<1>11. SessionsOK'
  <2>1. ASSUME NEW r \in Sessions PROVE SessionOK(r)'
    <3>1. SessionOK(r)
      BY DEF SessionInv, SessionsOK
    <3>2. CASE r # s
      BY <3>1, <3>2, <1>8, <1>9 DEF SessionOK
    <3>3. CASE r = s
      BY <3>1, <3>3, <1>5, <1>7, <1>8, <1>9 DEF SessionOK, Distinct
    <3> QED
      BY <3>2, <3>3
  <2> QED
    BY <2>1 DEF SessionsOK
<1>12. OwnersOK' /\ ModeIsRestored'
  BY <1>9 DEF SessionInv, OwnersOK, OwnerOK, ModeIsRestored
<1>13. StagesOK'
  <2>1. ASSUME NEW u \in Threads, Busy(u)' PROVE StageOK(u)'
    <3>1. CASE u = t
      BY <3>1, <1>4
    <3>2. CASE u # t
      <4>1. Busy(u) /\ Top(u)' = Top(u) /\ Owner(u)' = Owner(u)
        BY <3>2, <2>1, <1>4 DEF Owner
      <4>2. StageOK(u) /\ Shape(Top(u)) /\ (Top(u).op # "direct" => Top(u).session \in Sessions)
        BY <4>1, <1>2, OwnerIs DEF SessionInv, StagesOK
      <4>3. GateOK(Top(u))' /\ OwnsOK(Top(u), Owner(u))'
        BY <4>1, <4>2, <1>9 DEF StageOK, GateOK, OwnsOK
      <4>4. ModeOK(Top(u), Owner(u))'
        BY <4>1, <4>2, <1>9 DEF StageOK, ModeOK
      <4>5. OpensAlone /\ Top(u).op \in Closes /\ Top(u).at \in {"restoring", "restored", "done"} => owed'[Top(u).session] = <<>>
        <5>1. SUFFICES ASSUME OpensAlone, Top(u).op \in Closes, Top(u).at \in {"restoring", "restored", "done"}
                       PROVE  owed'[Top(u).session] = <<>>
          OBVIOUS
        <5>2. gate[Top(u).session] = "held" /\ owed[Top(u).session] = <<>> /\ Top(u).session \in Sessions
          BY <5>1, <4>2 DEF StageOK, GateOK, OwedOK, Closes, Mutations
        <5>3. Top(u).session # s
          BY <5>1, <5>2, <1>5
        <5> QED
          BY <5>2, <5>3, <1>8
      <4>6. OwedOK(Top(u))'
        BY <4>1, <4>2, <4>5, <1>9 DEF StageOK, OwedOK
      <4> QED
        BY <4>3, <4>4, <4>6 DEF StageOK
    <3> QED
      BY <3>1, <3>2
  <2> QED
    BY <2>1 DEF StagesOK
<1> QED
  BY <1>4, <1>10, <1>11, <1>12, <1>13 DEF SessionInv

-----------------------------------------------------------------------------
(* Lifecycle mutations                                                     *)

\* What is known where a lifecycle call stands.
LEMMA MutationFacts ==
  ASSUME SessionInv, NEW t \in Threads, Busy(t), Top(t).op \in Mutations, NEW s, s = Top(t).session
  PROVE  /\ s \in Sessions /\ s \in Owners /\ s # "none" /\ Owner(t) = s
         /\ Top(t).op \notin Operations /\ Top(t).op # "direct" /\ Top(t) \in Frames /\ Shape(Top(t))
         /\ GateOK(Top(t)) /\ OwnsOK(Top(t), s) /\ ModeOK(Top(t), s) /\ OwedOK(Top(t))
         /\ SessionOK(s) /\ OwnerOK(s) /\ StackTyped /\ ModeIsRestored /\ SharedTyped
         /\ \A r \in Sessions : Leased(r) # {} => open[r] /\ gate[r] # "held"
         /\ Top(t).at # "start" => \A u \in Threads : u # t /\ InMutation(u) => Top(u).session # Top(t).session
<1>1. /\ s \in Sessions /\ s \in Owners /\ s # "none" /\ Owner(t) = s
      /\ Top(t).op \notin Operations /\ Top(t).op # "direct" /\ Top(t) \in Frames /\ Shape(Top(t))
  BY OwnerIs DEF SessionInv, Operations, Mutations
<1>2. GateOK(Top(t)) /\ OwnsOK(Top(t), s) /\ ModeOK(Top(t), s) /\ OwedOK(Top(t))
  BY <1>1 DEF SessionInv, StagesOK, StageOK
<1>3. SessionOK(s) /\ OwnerOK(s) /\ StackTyped /\ ModeIsRestored /\ SharedTyped
  BY <1>1 DEF SessionInv, SessionsOK, OwnersOK, StackOK
<1>4. \A r \in Sessions : Leased(r) # {} => open[r] /\ gate[r] # "held"
  BY DEF SessionInv, LeasesHold
<1>5. Top(t).at # "start" => \A u \in Threads : u # t /\ InMutation(u) => Top(u).session # Top(t).session
  BY DEF SessionInv, StackOK, OneMutation, InMutation
<1> QED
  BY <1>1, <1>2, <1>3, <1>4, <1>5

\* The first wait of a mutation: nobody else is past it.
LEMMA BeginMutationStep ==
  ASSUME SessionInv, NEW t \in Threads, BeginMutation(t)
  PROVE  SessionInv'
<1>0. PICK s : s = Top(t).session
  OBVIOUS
<1>1. /\ Busy(t) /\ Top(t).op \in Mutations /\ Top(t).at = "start" /\ gate[s] = "free"
      /\ gate' = [gate EXCEPT ![s] = "draining"] /\ Goto(t, "draining") /\ UNCHANGED <<open, active, owed, inputVars>>
  BY <1>0 DEF BeginMutation, At, Busy
<1>2. /\ s \in Sessions /\ Owner(t) = s /\ Top(t).op \notin Operations /\ Top(t).op # "direct" /\ Shape(Top(t))
      /\ SessionOK(s) /\ OwnerOK(s) /\ StackTyped /\ ModeIsRestored /\ SharedTyped
      /\ \A r \in Sessions : Leased(r) # {} => open[r] /\ gate[r] # "held"
  BY <1>0, <1>1, MutationFacts
<1>3. "draining" \in Places
  BY DEF Places
<1>4. /\ Owner(t)' = s /\ Top(t)'.op = Top(t).op /\ Top(t)'.session = s /\ Top(t)'.at = "draining"
  BY <1>0, <1>1, <1>2, <1>3, GotoFacts
<1>5. Shape(Frame(Top(t).op, Top(t).session, "draining", Top(t).leased))
  BY <1>1, <1>2 DEF Shape, Frame, Mutations
<1>6. \A u \in Threads : u # t /\ InMutation(u) => Top(u).session # Top(t).session
  <2>1. ASSUME NEW u \in Threads, InMutation(u), Top(u).session = s PROVE FALSE
    <3>1. GateOK(Top(u)) /\ Top(u).op \in Mutations /\ Top(u).at # "start"
      BY <2>1 DEF SessionInv, StagesOK, StageOK, InMutation
    <3> QED
      BY <3>1, <2>1, <1>1 DEF GateOK
  <2> QED
    BY <2>1, <1>0
<1>7. gate \in [Sessions -> {"free", "draining", "held"}]
  BY <1>2 DEF SharedTyped
<1>8. gate'[s] = "draining" /\ \A r \in Sessions : r # s => gate'[r] = gate[r]
  BY <1>1, <1>2, <1>7
<1>9. open' = open /\ owed' = owed /\ holder' = holder /\ mode' = mode /\ saved' = saved /\ lost' = lost /\ active' = active
  BY <1>1 DEF inputVars
<1>10. Local(t)
  BY <1>0, <1>8, <1>9 DEF Local
<1>11. SharedTyped'
  <2>1. gate' \in [Sessions -> {"free", "draining", "held"}]
    BY <1>1, <1>7
  <2> QED
    BY <2>1, <1>2, <1>9 DEF SharedTyped
<1>12. Concerns(t)
  <2>1. \A r \in Sessions : Leased(r) # {} => open'[r] /\ gate'[r] # "held"
    BY <1>2, <1>8, <1>9
  <2>2. SessionOK(s)'
    BY <1>1, <1>2, <1>8, <1>9 DEF SessionOK
  <2>3. OwnerOK(s)' /\ ModeIsRestored'
    BY <1>2, <1>9 DEF OwnerOK, ModeIsRestored
  <2> QED
    BY <2>1, <2>2, <2>3, <1>4, <1>9 DEF Concerns, SessionOK, OwnerOK
<1>13. StageOK(t)'
  BY <1>1, <1>2, <1>4, <1>8 DEF StageOK, GateOK, OwnsOK, ModeOK, OwedOK
<1> QED
  BY <1>1, <1>2, <1>3, <1>5, <1>6, <1>9, <1>10, <1>11, <1>12, <1>13, StepGoesOn

\* The second: no operation holds a lease.
LEMMA EnterMutationStep ==
  ASSUME SessionInv, NEW t \in Threads, EnterMutation(t)
  PROVE  SessionInv'
<1>0. PICK s : s = Top(t).session
  OBVIOUS
<1>1. /\ Busy(t) /\ Top(t).op \in Mutations /\ Top(t).at = "draining" /\ active[s] = 0
      /\ gate' = [gate EXCEPT ![s] = "held"] /\ Goto(t, "held") /\ UNCHANGED <<open, active, owed, inputVars>>
  BY <1>0 DEF EnterMutation, At, Busy
<1>2. /\ s \in Sessions /\ Owner(t) = s /\ Top(t).op \notin Operations /\ Top(t).op # "direct" /\ Shape(Top(t)) /\ GateOK(Top(t))
      /\ SessionOK(s) /\ OwnerOK(s) /\ StackTyped /\ ModeIsRestored /\ SharedTyped
      /\ \A r \in Sessions : Leased(r) # {} => open[r] /\ gate[r] # "held"
      /\ \A u \in Threads : u # t /\ InMutation(u) => Top(u).session # Top(t).session
  BY <1>0, <1>1, MutationFacts
<1>3. "held" \in Places
  BY DEF Places
<1>4. /\ Owner(t)' = s /\ Top(t)'.op = Top(t).op /\ Top(t)'.session = s /\ Top(t)'.at = "held"
  BY <1>0, <1>1, <1>2, <1>3, GotoFacts
<1>5. Shape(Frame(Top(t).op, Top(t).session, "held", Top(t).leased))
  BY <1>1, <1>2 DEF Shape, Frame, Mutations
<1>6. Leased(s) = {}
  <2>1. Cardinality(Leased(s)) = 0
    BY <1>1, <1>2 DEF SessionInv, LeasesCounted
  <2> QED
    BY <2>1, LeasesFinite, FS_EmptySet
<1>7. gate \in [Sessions -> {"free", "draining", "held"}] /\ gate[s] = "draining"
  BY <1>0, <1>1, <1>2 DEF SharedTyped, GateOK
<1>8. gate'[s] = "held" /\ \A r \in Sessions : r # s => gate'[r] = gate[r]
  BY <1>1, <1>2, <1>7
<1>9. open' = open /\ owed' = owed /\ holder' = holder /\ mode' = mode /\ saved' = saved /\ lost' = lost /\ active' = active
  BY <1>1 DEF inputVars
<1>10. Local(t)
  BY <1>0, <1>8, <1>9 DEF Local
<1>11. SharedTyped'
  <2>1. gate' \in [Sessions -> {"free", "draining", "held"}]
    BY <1>1, <1>7
  <2> QED
    BY <2>1, <1>2, <1>9 DEF SharedTyped
<1>12. Concerns(t)
  <2>1. \A r \in Sessions : Leased(r) # {} => open'[r] /\ gate'[r] # "held"
    BY <1>2, <1>6, <1>8, <1>9
  <2>2. SessionOK(s)'
    BY <1>2, <1>8, <1>9 DEF SessionOK
  <2>3. OwnerOK(s)' /\ ModeIsRestored'
    BY <1>2, <1>9 DEF OwnerOK, ModeIsRestored
  <2> QED
    BY <2>1, <2>2, <2>3, <1>4, <1>9 DEF Concerns, SessionOK, OwnerOK
<1>13. StageOK(t)'
  <2>1. open[s] <=> holder = s
    BY <1>2, <1>7 DEF SessionOK
  <2>2. saved[s] # "none" => mode = s
    BY <2>1, <1>2, <1>7 DEF SessionOK, OwnerOK
  <2>3. GateOK(Top(t))' /\ OwnsOK(Top(t), Owner(t))'
    BY <2>1, <1>4, <1>8, <1>9 DEF GateOK, OwnsOK
  <2>4. ModeOK(Top(t), Owner(t))'
    BY <2>2, <1>4, <1>9 DEF ModeOK
  <2>5. OwedOK(Top(t))'
    BY <1>2, <1>4 DEF OwedOK
  <2> QED
    BY <2>3, <2>4, <2>5 DEF StageOK
<1> QED
  BY <1>1, <1>2, <1>3, <1>5, <1>9, <1>10, <1>11, <1>12, <1>13, StepGoesOn

\* The destructor of a mutation: what it leaves is what others may rely on.
LEMMA EndMutationStep ==
  ASSUME SessionInv, NEW t \in Threads, EndMutation(t)
  PROVE  SessionInv'
<1>0. PICK s : s = Top(t).session
  OBVIOUS
<1>1. /\ Busy(t) /\ Top(t).op \in Mutations /\ Top(t).at \in {"leaving", "held"}
      /\ gate' = [gate EXCEPT ![s] = "free"] /\ Return(t) /\ UNCHANGED <<open, active, owed, inputVars>>
  BY <1>0 DEF EndMutation, At, Busy, Mutations
<1>2. /\ s \in Sessions /\ Owner(t) = s /\ Top(t).op \notin Operations /\ Top(t).op # "direct" /\ s # "none"
      /\ OwnsOK(Top(t), s) /\ ModeOK(Top(t), s)
      /\ SessionOK(s) /\ OwnerOK(s) /\ StackTyped /\ ModeIsRestored /\ SharedTyped
      /\ \A r \in Sessions : Leased(r) # {} => open[r] /\ gate[r] # "held"
  BY <1>0, <1>1, MutationFacts
<1>3. gate \in [Sessions -> {"free", "draining", "held"}]
  BY <1>2 DEF SharedTyped
<1>4. gate'[s] = "free" /\ \A r \in Sessions : r # s => gate'[r] = gate[r]
  BY <1>1, <1>2, <1>3
<1>5. open' = open /\ owed' = owed /\ holder' = holder /\ mode' = mode /\ saved' = saved /\ lost' = lost /\ active' = active
  BY <1>1 DEF inputVars
<1>6. Local(t)
  BY <1>0, <1>4, <1>5 DEF Local
<1>7. SharedTyped'
  <2>1. gate' \in [Sessions -> {"free", "draining", "held"}]
    BY <1>1, <1>3
  <2> QED
    BY <2>1, <1>2, <1>5 DEF SharedTyped
<1>8. ConcernsOf(t, s, s)
  <2>1. \A r \in Sessions : Leased(r) # {} => open'[r] /\ gate'[r] # "held"
    BY <1>2, <1>4, <1>5
  <2>2. SessionOK(s)'
    <3>1. open[s] <=> holder = s
      BY <1>1, <1>2 DEF OwnsOK
    <3>2. saved[s] # "none" => mode = s
      BY <1>1, <1>2 DEF ModeOK
    <3> QED
      BY <3>1, <3>2, <1>2, <1>5 DEF SessionOK
  <2>3. OwnerOK(s)' /\ ModeIsRestored'
    BY <1>2, <1>5 DEF OwnerOK, ModeIsRestored
  <2> QED
    BY <2>1, <2>2, <2>3, <1>5 DEF ConcernsOf
<1>9. InMutation(t)
  BY <1>1 DEF InMutation
<1> QED
  BY <1>0, <1>1, <1>2, <1>5, <1>6, <1>7, <1>8, <1>9, StepReturns

-----------------------------------------------------------------------------
(* Ownership of stdin and the input mode                                   *)

\* What is known where a lifecycle call or a direct read stands.
LEMMA CriticalFacts ==
  ASSUME SessionInv, NEW t \in Threads, Busy(t), Top(t).op \notin Operations, NEW o, o = Owner(t)
  PROVE  /\ o \in Owners /\ o # "none" /\ Top(t).op \in Mutations \cup {"direct"} /\ Top(t) \in Frames /\ Shape(Top(t))
         /\ GateOK(Top(t)) /\ OwnsOK(Top(t), o) /\ ModeOK(Top(t), o) /\ OwedOK(Top(t))
         /\ OwnerOK(o) /\ StackTyped /\ ModeIsRestored /\ SharedTyped
         /\ \A r \in Sessions : Leased(r) # {} => open[r] /\ gate[r] # "held"
         /\ Top(t).op \in Mutations /\ Top(t).at # "start" =>
              \A u \in Threads : u # t /\ InMutation(u) => Top(u).session # Top(t).session
         /\ Top(t).op # "direct" => /\ o = Top(t).session /\ o \in Sessions /\ SessionOK(o)
                                    /\ (Top(t).at \notin {"start", "draining"} => gate[o] = "held")
         /\ Top(t).op = "direct" => o = t /\ o \notin Sessions /\ Top(t).session = "none"
<1>1. /\ Shape(Top(t)) /\ Top(t) \in Frames /\ o \in Owners /\ o # "none"
      /\ Top(t).op = "direct" => o = t /\ Top(t).session = "none"
      /\ Top(t).op # "direct" => o = Top(t).session /\ Top(t).session \in Sessions
  BY OwnerIs DEF SessionInv
<1>2. Top(t).op \in Mutations \cup {"direct"}
  BY <1>1, FrameFields DEF Ops
<1>3. GateOK(Top(t)) /\ OwnsOK(Top(t), o) /\ ModeOK(Top(t), o) /\ OwedOK(Top(t))
  BY DEF SessionInv, StagesOK, StageOK
<1>4. OwnerOK(o) /\ StackTyped /\ ModeIsRestored /\ SharedTyped
  BY <1>1 DEF SessionInv, OwnersOK, StackOK
<1>5. \A r \in Sessions : Leased(r) # {} => open[r] /\ gate[r] # "held"
  BY DEF SessionInv, LeasesHold
<1>6. Top(t).op \in Mutations /\ Top(t).at # "start" =>
        \A u \in Threads : u # t /\ InMutation(u) => Top(u).session # Top(t).session
  BY DEF SessionInv, StackOK, OneMutation, InMutation
<1>7. Top(t).op # "direct" => SessionOK(o)
  BY <1>1 DEF SessionInv, SessionsOK
<1>8. Top(t).op # "direct" /\ Top(t).at \notin {"start", "draining"} => gate[o] = "held"
  BY <1>1, <1>2, <1>3 DEF GateOK
<1>9. Top(t).op = "direct" => o \notin Sessions
  BY <1>1, SessionAssumption
<1> QED
  BY <1>1, <1>2, <1>3, <1>4, <1>5, <1>6, <1>7, <1>8, <1>9

\* A step of such a call that concerns stdin and its mode only.
LEMMA InputStep ==
  ASSUME SessionInv, NEW t \in Threads, Busy(t), Top(t).op \notin Operations, NEW o, o = Owner(t),
         Top(t).op # "direct" => Top(t).at \notin {"start", "draining"},
         NEW place \in Places, place \notin {"start", "draining"}, Goto(t, place),
         NEW f, f = Frame(Top(t).op, Top(t).session, place, Top(t).leased), Shape(f),
         UNCHANGED <<open, gate, active, owed>>,
         holder' \in Owners \cup {"none"}, mode' \in Owners \cup {"original"},
         saved' \in [Owners -> Owners \cup {"original", "none"}], lost' \in BOOLEAN,
         \A p \in Owners : p # o => saved'[p] = saved[p],
         holder' # holder => (holder = "none" /\ holder' = o) \/ (holder = o /\ holder' = "none"),
         mode' # mode => holder = o,
         lost => lost',
         OwnsOK(f, o)', ModeOK(f, o)', OwedOK(f)', OwnerOK(o)', ModeIsRestored'
  PROVE  SessionInv'
<1>1. /\ o \in Owners /\ Top(t).op \in Mutations \cup {"direct"} /\ Top(t) \in Frames /\ StackTyped /\ SharedTyped
      /\ \A r \in Sessions : Leased(r) # {} => open[r] /\ gate[r] # "held"
      /\ Top(t).op \in Mutations /\ Top(t).at # "start" =>
           \A u \in Threads : u # t /\ InMutation(u) => Top(u).session # Top(t).session
      /\ Top(t).op # "direct" => o = Top(t).session /\ o \in Sessions /\ SessionOK(o) /\ gate[o] = "held"
  BY CriticalFacts
<1>2. Owner(t)' = o /\ Top(t)' = f
  BY <1>1, GotoFacts
<1>3. Local(t)
  BY DEF Local
<1>4. SharedTyped'
  BY <1>1 DEF SharedTyped
<1>5. f.op = Top(t).op /\ f.session = Top(t).session /\ f.at = place
  BY FrameIs
<1>6. Concerns(t)
  <2>1. \A r \in Sessions : Leased(r) # {} => open'[r] /\ gate'[r] # "held"
    BY <1>1
  <2>2. Top(t).op # "direct" => SessionOK(o)'
    BY <1>1 DEF SessionOK
  <2>3. OwnerOK(Owner(t))' /\ (Top(t).op # "direct" => SessionOK(Owner(t))')
    BY <2>2, <1>2 DEF OwnerOK, SessionOK
  <2> QED
    BY <2>1, <2>3 DEF Concerns
<1>7. GateOK(f)'
  BY <1>1, <1>5 DEF GateOK, Mutations
<1>8. StageOK(t)'
  BY <1>2, <1>7 DEF StageOK, GateOK, OwnsOK, ModeOK, OwedOK
<1>9. Top(t).op \in Mutations => \A u \in Threads : u # t /\ InMutation(u) => Top(u).session # Top(t).session
  BY <1>1 DEF Mutations
<1> QED
  BY <1>1, <1>3, <1>4, <1>6, <1>8, <1>9, StepGoesOn

\* claimInput and claimDirectInput
LEMMA ClaimStep ==
  ASSUME SessionInv, NEW t \in Threads, Claim(t)
  PROVE  SessionInv'
<1>0. PICK o, s, n : o = Owner(t) /\ s = Top(t).session /\ n = Top(t).op
  OBVIOUS
<1>1. /\ Busy(t) /\ n \in {"direct", "open"} /\ Top(t).op \notin Operations
      /\ n = "direct" => Top(t).at = "start"
      /\ n = "open" => Top(t).at = "held" /\ ~open[s]
      /\ UNCHANGED <<open, gate, active, owed, mode, saved, lost>>
  BY <1>0 DEF Claim, At, Busy, Operations
<1>2. /\ o \in Owners /\ o # "none" /\ Top(t) \in Frames /\ Shape(Top(t))
      /\ OwnsOK(Top(t), o) /\ ModeOK(Top(t), o) /\ OwnerOK(o) /\ ModeIsRestored /\ SharedTyped /\ StackTyped
      /\ n # "direct" => o = s /\ o \in Sessions
      /\ n = "direct" => o = t /\ s = "none" /\ o \notin Sessions
      /\ \A r \in Sessions : Leased(r) # {} => open[r] /\ gate[r] # "held"
  BY <1>0, <1>1, CriticalFacts
<1>3. Top(t).op # "direct" => Top(t).at \notin {"start", "draining"}
  BY <1>0, <1>1
<1>4. /\ mode' \in Owners \cup {"original"} /\ saved' \in [Owners -> Owners \cup {"original", "none"}] /\ lost' \in BOOLEAN
      /\ holder \in Owners \cup {"none"}
  BY <1>1, <1>2 DEF SharedTyped
<1>5. CASE holder = "none" /\ holder' = o /\ Goto(t, "claimed")
  <2>1. PICK f : f = Frame(Top(t).op, Top(t).session, "claimed", Top(t).leased)
    OBVIOUS
  <2>2. f.op = n /\ f.session = s /\ f.at = "claimed" /\ f.leased = Top(t).leased /\ "claimed" \in Places
    BY <2>1, <1>0 DEF Frame, Places
  <2>3. Shape(f)
    BY <2>2, <1>0, <1>1, <1>2 DEF Shape, Operations, Closes
  <2>4. saved[o] = "none"
    BY <1>2, <1>5 DEF OwnerOK
  <2>5. OwnsOK(f, o)'
    BY <2>2, <1>1, <1>2, <1>5 DEF OwnsOK, Closes, Mutations
  <2>6. ModeOK(f, o)'
    BY <2>2, <2>4, <1>1 DEF ModeOK
  <2>7. OwedOK(f)'
    BY <2>2, <1>1 DEF OwedOK, Closes, Operations
  <2>8. OwnerOK(o)' /\ ModeIsRestored'
    BY <2>4, <1>1, <1>2, <1>5 DEF OwnerOK, ModeIsRestored
  <2>9. /\ UNCHANGED <<open, gate, active, owed>> /\ holder' \in Owners \cup {"none"} /\ o = Owner(t)
        /\ \A p \in Owners : p # o => saved'[p] = saved[p]
        /\ holder' # holder => holder = "none" /\ holder' = o
        /\ mode' = mode /\ lost' = lost
    BY <1>0, <1>1, <1>2, <1>5
  <2> QED
    BY <1>1, <1>3, <1>4, <1>5, <2>1, <2>2, <2>3, <2>5, <2>6, <2>7, <2>8, <2>9, InputStep
<1>6. CASE holder # "none" /\ UNCHANGED holder /\ n = "open" /\ Goto(t, "leaving")
  <2>1. PICK f : f = Frame(Top(t).op, Top(t).session, "leaving", Top(t).leased)
    OBVIOUS
  <2>2. f.op = n /\ f.session = s /\ f.at = "leaving" /\ f.leased = Top(t).leased /\ "leaving" \in Places
    BY <2>1, <1>0 DEF Frame, Places
  <2>3. Shape(f)
    BY <2>2, <1>0, <1>1, <1>2, <1>6 DEF Shape, Operations, Closes
  <2>5. OwnsOK(f, o)'
    BY <2>2, <1>0, <1>1, <1>2, <1>6 DEF OwnsOK, Closes, Mutations
  <2>4. saved[o] # "none" => mode = o
    BY <1>0, <1>1, <1>2, <1>6 DEF ModeOK, Operations
  <2>6. ModeOK(f, o)'
    BY <2>2, <2>4, <1>1 DEF ModeOK
  <2>7. OwedOK(f)'
    BY <2>2, <1>1 DEF OwedOK, Closes, Operations
  <2>8. OwnerOK(o)' /\ ModeIsRestored'
    BY <1>1, <1>2, <1>6 DEF OwnerOK, ModeIsRestored
  <2> QED
    BY <1>0, <1>1, <1>2, <1>3, <1>4, <1>6, <2>1, <2>2, <2>3, <2>5, <2>6, <2>7, <2>8, InputStep
<1>7. CASE holder # "none" /\ UNCHANGED holder /\ n = "direct" /\ Return(t)
  <2>1. Local(t)
    BY <1>1, <1>7 DEF Local
  <2>2. SharedTyped'
    BY <1>1, <1>2, <1>7 DEF SharedTyped
  <2>3. OwnerOK(o)' /\ ModeIsRestored'
    BY <1>1, <1>2, <1>7 DEF OwnerOK, ModeIsRestored
  <2>4. ConcernsOf(t, s, o)
    BY <2>3, <1>1, <1>2, <1>7, SessionAssumption DEF ConcernsOf
  <2> QED
    BY <1>0, <1>1, <1>7, <2>1, <2>2, <2>4, StepReturns
<1> QED
  BY <1>0, <1>1, <1>5, <1>6, <1>7 DEF Claim

\* acquireManagedInput
LEMMA ConfigureStep ==
  ASSUME SessionInv, NEW t \in Threads, Configure(t)
  PROVE  SessionInv'
<1>0. PICK o, s, n : o = Owner(t) /\ s = Top(t).session /\ n = Top(t).op
  OBVIOUS
<1>1. /\ Busy(t) /\ n \in {"direct", "open"} /\ Top(t).op \notin Operations /\ Top(t).at = "claimed"
      /\ UNCHANGED <<open, gate, active, owed, holder, lost>>
  BY <1>0 DEF Configure, At, Busy, Operations
<1>2. /\ o \in Owners /\ o # "none" /\ Top(t) \in Frames /\ Shape(Top(t))
      /\ OwnsOK(Top(t), o) /\ ModeOK(Top(t), o) /\ OwnerOK(o) /\ ModeIsRestored /\ SharedTyped
      /\ n # "direct" => o = s /\ o \in Sessions
  BY <1>0, <1>1, CriticalFacts
<1>3. holder = o /\ saved[o] = "none" /\ (~lost => mode = "original") /\ (n = "open" => ~open[o])
  BY <1>0, <1>1, <1>2 DEF OwnsOK, ModeOK, OwnerOK
<1>4. /\ mode \in Owners \cup {"original"} /\ saved \in [Owners -> Owners \cup {"original", "none"}] /\ lost' \in BOOLEAN
      /\ holder' \in Owners \cup {"none"}
  BY <1>1, <1>2 DEF SharedTyped
<1>5. PICK place : /\ place \in {"configured", "undo"} /\ Goto(t, place)
                   /\ \/ UNCHANGED <<mode, saved>>
                      \/ saved' = [saved EXCEPT ![o] = mode] /\ mode' = o /\ place = "configured"
                      \/ saved' = [saved EXCEPT ![o] = mode] /\ UNCHANGED mode /\ place = "undo"
  BY <1>0 DEF Configure
<1>6. PICK f : f = Frame(Top(t).op, Top(t).session, place, Top(t).leased)
  OBVIOUS
<1>7. f.op = n /\ f.session = s /\ f.at = place /\ f.leased = Top(t).leased /\ place \in Places
  BY <1>5, <1>6, <1>0 DEF Frame, Places
<1>8. Shape(f)
  BY <1>7, <1>5, <1>0, <1>1, <1>2 DEF Shape, Operations, Closes
<1>9. /\ mode' \in Owners \cup {"original"} /\ saved' \in [Owners -> Owners \cup {"original", "none"}]
      /\ \A p \in Owners : p # o => saved'[p] = saved[p]
      /\ saved'[o] = "none" => mode' = mode
      /\ saved'[o] # "none" => saved'[o] = mode /\ (place = "configured" => mode' = o)
  <2>1. mode # "none"
    BY <1>4, SessionAssumption DEF Owners
  <2>2. CASE UNCHANGED <<mode, saved>>
    BY <2>2, <1>3, <1>4
  <2>3. CASE saved' = [saved EXCEPT ![o] = mode] /\ mode' = o /\ place = "configured"
    BY <2>1, <2>3, <1>2, <1>4
  <2>4. CASE saved' = [saved EXCEPT ![o] = mode] /\ UNCHANGED mode /\ place = "undo"
    BY <2>1, <2>4, <1>2, <1>4
  <2> QED
    BY <2>2, <2>3, <2>4, <1>5
<1>10. OwnsOK(f, o)'
  BY <1>7, <1>5, <1>1, <1>3 DEF OwnsOK, Closes
<1>11. ModeOK(f, o)'
  BY <1>7, <1>5, <1>9 DEF ModeOK
<1>12. OwedOK(f)'
  BY <1>7, <1>1 DEF OwedOK, Closes, Operations
<1>13. OwnerOK(o)' /\ ModeIsRestored'
  BY <1>1, <1>2, <1>3, <1>9 DEF OwnerOK, ModeIsRestored
<1>14. /\ UNCHANGED <<open, gate, active, owed>> /\ place \notin {"start", "draining"}
       /\ Top(t).op # "direct" => Top(t).at \notin {"start", "draining"}
       /\ holder' = holder /\ lost' = lost
  BY <1>1, <1>5
<1> QED
  BY <1>0, <1>1, <1>3, <1>4, <1>5, <1>6, <1>7, <1>8, <1>9, <1>10, <1>11, <1>12, <1>13, <1>14, InputStep

\* restoreManagedInput, first half
LEMMA RestoreInputStep ==
  ASSUME SessionInv, NEW t \in Threads, RestoreInput(t)
  PROVE  SessionInv'
<1>0. PICK o, s, n : o = Owner(t) /\ s = Top(t).session /\ n = Top(t).op
  OBVIOUS
<1>1. /\ Busy(t) /\ Top(t).op \notin Operations
      /\ \/ n \in Closes /\ Top(t).at = "restoring"
         \/ n \in {"open", "direct"} /\ Top(t).at \in {"undo", "configured"}
      /\ n = "open" => Top(t).at = "undo"
      /\ UNCHANGED <<open, gate, active, owed, holder, saved>>
  <2>1. /\ \/ At(t, {"close", "destroy"}, "restoring")
           \/ At(t, {"open", "direct"}, "undo")
           \/ At(t, {"direct"}, "configured")
        /\ UNCHANGED <<open, gate, active, owed, holder, saved>>
    BY DEF RestoreInput
  <2>2. \/ n \in Closes /\ Top(t).at = "restoring"
        \/ n \in {"open", "direct"} /\ Top(t).at = "undo"
        \/ n = "direct" /\ Top(t).at = "configured"
    BY <2>1, <1>0 DEF At, Closes
  <2>3. Busy(t)
    BY <2>1 DEF At, Busy
  <2>4. n \notin Operations
    BY <2>2 DEF Operations, Closes
  <2> QED
    BY <2>1, <2>2, <2>3, <2>4, <1>0 DEF Closes
<1>2. /\ o \in Owners /\ o # "none" /\ Top(t) \in Frames /\ Shape(Top(t))
      /\ OwnsOK(Top(t), o) /\ ModeOK(Top(t), o) /\ OwedOK(Top(t)) /\ OwnerOK(o) /\ ModeIsRestored /\ SharedTyped
      /\ n # "direct" => o = s /\ o \in Sessions
  BY <1>0, <1>1, CriticalFacts
<1>3. holder = o /\ (n = "open" => ~open[o]) /\ (n \in Closes => open[o])
  BY <1>0, <1>1, <1>2 DEF OwnsOK, Closes
<1>4. /\ mode \in Owners \cup {"original"} /\ saved' \in [Owners -> Owners \cup {"original", "none"}] /\ lost \in BOOLEAN
      /\ holder' \in Owners \cup {"none"}
  BY <1>1, <1>2 DEF SharedTyped
<1>5. PICK place : /\ place \in {"restored", "leaving"} /\ Goto(t, place)
                   /\ \/ place = "restored" /\ mode' = (IF saved[o] = "none" THEN mode ELSE saved[o]) /\ UNCHANGED lost
                      \/ place = "leaving" /\ n = "close" /\ saved[o] # "none" /\ UNCHANGED <<mode, lost>>
                      \/ place = "restored" /\ saved[o] # "none" /\ UNCHANGED mode /\ lost' = TRUE
  BY <1>0 DEF RestoreInput, Retains
<1>6. PICK f : f = Frame(Top(t).op, Top(t).session, place, Top(t).leased)
  OBVIOUS
<1>7. f.op = n /\ f.session = s /\ f.at = place /\ f.leased = Top(t).leased /\ place \in Places
  BY <1>5, <1>6, <1>0 DEF Frame, Places
<1>8. Shape(f)
  BY <1>7, <1>5, <1>0, <1>1, <1>2 DEF Shape, Operations, Closes
<1>9. /\ mode' \in Owners \cup {"original"} /\ lost' \in BOOLEAN /\ (lost => lost')
  <2>1. saved[o] \in Owners \cup {"original", "none"}
    BY <1>1, <1>2 DEF SharedTyped
  <2>2. mode' \in Owners \cup {"original"}
    BY <2>1, <1>4, <1>5
  <2>3. lost' = lost \/ lost' = TRUE
    BY <1>5
  <2> QED
    BY <2>2, <2>3, <1>4
<1>10. OwnsOK(f, o)'
  BY <1>7, <1>5, <1>1, <1>3 DEF OwnsOK, Closes, Mutations
<1>15. /\ place = "restored" /\ ~lost' => mode' = "original"
       /\ place = "leaving" /\ saved[o] # "none" => mode = o
  BY <1>0, <1>1, <1>2, <1>3, <1>5, <1>9 DEF OwnerOK, ModeOK, Closes, Operations
<1>11. ModeOK(f, o)'
  BY <1>7, <1>5, <1>1, <1>15 DEF ModeOK
<1>12. OwedOK(f)'
  <2>1. OpensAlone /\ n \in Closes => owed[s] = <<>>
    BY <1>0, <1>1, <1>2 DEF OwedOK, Closes
  <2> QED
    BY <2>1, <1>7, <1>1 DEF OwedOK, Closes, Operations
<1>13. OwnerOK(o)' /\ ModeIsRestored'
  BY <1>1, <1>2, <1>3, <1>5, <1>9 DEF OwnerOK, ModeIsRestored
<1>14. /\ UNCHANGED <<open, gate, active, owed>> /\ place \notin {"start", "draining"}
       /\ Top(t).op # "direct" => Top(t).at \notin {"start", "draining"}
       /\ holder' = holder /\ saved' = saved
  BY <1>0, <1>1, <1>5
<1> QED
  BY <1>0, <1>1, <1>3, <1>4, <1>5, <1>6, <1>7, <1>8, <1>9, <1>10, <1>11, <1>12, <1>13, <1>14, InputStep

\* and its second half
LEMMA ReleaseInputStep ==
  ASSUME SessionInv, NEW t \in Threads, ReleaseInput(t)
  PROVE  SessionInv'
<1>0. PICK o, s, n : o = Owner(t) /\ s = Top(t).session /\ n = Top(t).op
  OBVIOUS
<1>1. /\ Busy(t) /\ Top(t).op \notin Operations
      /\ n \in Closes \cup {"open", "direct"} /\ Top(t).at = "restored"
      /\ holder' = (IF holder = o THEN "none" ELSE holder) /\ saved' = [saved EXCEPT ![o] = "none"]
      /\ UNCHANGED <<open, gate, active, owed, mode, lost>>
  BY <1>0 DEF ReleaseInput, At, Busy, Operations, Closes
<1>2. /\ o \in Owners /\ o # "none" /\ Top(t) \in Frames /\ Shape(Top(t))
      /\ OwnsOK(Top(t), o) /\ ModeOK(Top(t), o) /\ OwedOK(Top(t)) /\ OwnerOK(o) /\ ModeIsRestored /\ SharedTyped
      /\ n # "direct" => o = s /\ o \in Sessions
      /\ n = "direct" => o = t /\ s = "none" /\ o \notin Sessions
      /\ \A r \in Sessions : Leased(r) # {} => open[r] /\ gate[r] # "held"
  BY <1>0, <1>1, CriticalFacts
<1>3. holder = o /\ (n = "open" => ~open[o]) /\ (n \in Closes => open[o]) /\ (~lost => mode = "original")
  BY <1>0, <1>1, <1>2 DEF OwnsOK, ModeOK, Closes
<1>4. /\ mode' \in Owners \cup {"original"} /\ saved \in [Owners -> Owners \cup {"original", "none"}] /\ lost' \in BOOLEAN
  BY <1>1, <1>2 DEF SharedTyped
<1>5. /\ holder' = "none" /\ saved'[o] = "none" /\ saved' \in [Owners -> Owners \cup {"original", "none"}]
      /\ \A p \in Owners : p # o => saved'[p] = saved[p]
  BY <1>1, <1>2, <1>3, <1>4
<1>6. OwnerOK(o)' /\ ModeIsRestored'
  BY <1>1, <1>2, <1>3, <1>5 DEF OwnerOK, ModeIsRestored
<1>7. CASE n # "direct"
  <2>1. PICK place : /\ place \in {"done", "leaving"} /\ Goto(t, place) /\ (place = "leaving" <=> n = "open")
    BY <1>0, <1>7 DEF ReleaseInput
  <2>2. PICK f : f = Frame(Top(t).op, Top(t).session, place, Top(t).leased)
    OBVIOUS
  <2>3. f.op = n /\ f.session = s /\ f.at = place /\ f.leased = Top(t).leased /\ place \in Places
    BY <2>1, <2>2, <1>0 DEF Frame, Places
  <2>4. Shape(f)
    BY <2>3, <2>1, <1>0, <1>1, <1>2, <1>7 DEF Shape, Operations, Closes
  <2>5. OwnsOK(f, o)'
    BY <2>3, <2>1, <1>1, <1>2, <1>3, <1>5, <1>7 DEF OwnsOK, Closes, Mutations
  <2>6. ModeOK(f, o)'
    BY <2>3, <2>1, <1>5 DEF ModeOK
  <2>7. OwedOK(f)'
    <3>1. OpensAlone /\ n \in Closes => owed[s] = <<>>
      BY <1>0, <1>1, <1>2 DEF OwedOK, Closes
    <3> QED
      BY <3>1, <2>3, <1>1 DEF OwedOK, Closes, Operations
  <2>8. /\ UNCHANGED <<open, gate, active, owed>> /\ place \notin {"start", "draining"}
        /\ Top(t).op # "direct" => Top(t).at \notin {"start", "draining"}
        /\ mode' = mode /\ lost' = lost
    BY <1>1, <2>1
  <2> QED
    BY <1>0, <1>1, <1>3, <1>4, <1>5, <1>6, <2>1, <2>2, <2>3, <2>4, <2>5, <2>6, <2>7, <2>8, InputStep
<1>8. CASE n = "direct"
  <2>1. Return(t)
    BY <1>0, <1>8 DEF ReleaseInput
  <2>2. Local(t)
    BY <1>0, <1>1, <1>3, <1>5 DEF Local
  <2>3. SharedTyped'
    BY <1>1, <1>2, <1>5 DEF SharedTyped
  <2>4. ConcernsOf(t, s, o)
    BY <1>6, <1>1, <1>2, <1>8, SessionAssumption DEF ConcernsOf
  <2> QED
    BY <1>0, <1>1, <1>8, <2>1, <2>2, <2>3, <2>4, StepReturns
<1> QED
  BY <1>7, <1>8

\* The end of open
LEMMA PublishOpenStep ==
  ASSUME SessionInv, NEW t \in Threads, PublishOpen(t)
  PROVE  SessionInv'
<1>0. PICK s : s = Top(t).session
  OBVIOUS
<1>1. /\ Busy(t) /\ Top(t).op = "open" /\ Top(t).op \in Mutations /\ Top(t).at = "configured"
      /\ open' = [open EXCEPT ![s] = TRUE] /\ Goto(t, "leaving") /\ UNCHANGED <<gate, active, owed, inputVars>>
  BY <1>0 DEF PublishOpen, At, Busy, Mutations
<1>2. /\ s \in Sessions /\ Owner(t) = s /\ Top(t).op \notin Operations /\ Top(t).op # "direct" /\ Shape(Top(t))
      /\ GateOK(Top(t)) /\ OwnsOK(Top(t), s) /\ ModeOK(Top(t), s)
      /\ SessionOK(s) /\ OwnerOK(s) /\ StackTyped /\ ModeIsRestored /\ SharedTyped
      /\ \A r \in Sessions : Leased(r) # {} => open[r] /\ gate[r] # "held"
      /\ \A u \in Threads : u # t /\ InMutation(u) => Top(u).session # Top(t).session
  BY <1>0, <1>1, MutationFacts
<1>3. open \in [Sessions -> BOOLEAN]
  BY <1>2 DEF SharedTyped
<1>4. open'[s] /\ (\A r \in Sessions : r # s => open'[r] = open[r]) /\ open' \in [Sessions -> BOOLEAN]
  BY <1>1, <1>2, <1>3
<1>5. gate' = gate /\ owed' = owed /\ holder' = holder /\ mode' = mode /\ saved' = saved /\ lost' = lost /\ active' = active
  BY <1>1 DEF inputVars
<1>6. holder = s /\ (saved[s] # "none" => mode = s) /\ gate[s] = "held"
  BY <1>0, <1>1, <1>2 DEF OwnsOK, ModeOK, GateOK, Operations
<1>7. Local(t)
  BY <1>0, <1>4, <1>5 DEF Local
<1>8. SharedTyped'
  BY <1>2, <1>4, <1>5 DEF SharedTyped
<1>9. Concerns(t)
  <2>1. \A r \in Sessions : Leased(r) # {} => open'[r] /\ gate'[r] # "held"
    BY <1>2, <1>4, <1>5
  <2>2. SessionOK(s)'
    BY <1>2, <1>4, <1>5, <1>6 DEF SessionOK
  <2>3. OwnerOK(s)' /\ ModeIsRestored'
    BY <1>2, <1>5 DEF OwnerOK, ModeIsRestored
  <2>4. OpensAlone => NoOperationOn(Top(t).session)
    BY <1>1 DEF SessionInv, StackOK, OpensApart
  <2>5. Owner(t)' = s
    BY <1>1, <1>2, GotoFacts DEF Places
  <2>6. SessionOK(Owner(t))' /\ OwnerOK(Owner(t))'
    BY <2>2, <2>3, <2>5 DEF SessionOK, OwnerOK
  <2> QED
    BY <2>1, <2>3, <2>4, <2>6 DEF Concerns
<1>10. PICK f : f = Frame(Top(t).op, Top(t).session, "leaving", Top(t).leased)
  OBVIOUS
<1>11. f.op = "open" /\ f.session = s /\ f.at = "leaving" /\ f.leased = Top(t).leased /\ "leaving" \in Places
  BY <1>0, <1>1, <1>10 DEF Frame, Places
<1>12. Shape(f)
  BY <1>1, <1>2, <1>11 DEF Shape, Operations, Closes
<1>13. GateOK(f)' /\ OwnsOK(f, s)' /\ ModeOK(f, s)' /\ OwedOK(f)'
  BY <1>4, <1>5, <1>6, <1>11 DEF GateOK, OwnsOK, ModeOK, OwedOK, Closes, Operations
<1>14. Top(t)' = f /\ Owner(t)' = s
  BY <1>1, <1>2, <1>10, <1>11, GotoFacts
<1>15. StageOK(t)'
  BY <1>13, <1>14 DEF StageOK, GateOK, OwnsOK, ModeOK, OwedOK
<1> QED
  BY <1>1, <1>2, <1>5, <1>7, <1>8, <1>9, <1>10, <1>11, <1>12, <1>15, StepGoesOn

\* The end of close and of the destructor
LEMMA PublishClosedStep ==
  ASSUME SessionInv, NEW t \in Threads, PublishClosed(t)
  PROVE  SessionInv'
<1>0. PICK s, n : s = Top(t).session /\ n = Top(t).op
  OBVIOUS
<1>1. /\ Busy(t) /\ n \in Closes /\ Top(t).op \in Mutations /\ Top(t).at = "done"
      /\ open' = [open EXCEPT ![s] = FALSE] /\ Goto(t, "leaving") /\ UNCHANGED <<gate, active, owed, inputVars>>
  BY <1>0 DEF PublishClosed, At, Busy, Mutations, Closes
<1>2. /\ s \in Sessions /\ Owner(t) = s /\ Top(t).op \notin Operations /\ Top(t).op # "direct" /\ Shape(Top(t))
      /\ GateOK(Top(t)) /\ OwnsOK(Top(t), s) /\ OwedOK(Top(t))
      /\ SessionOK(s) /\ OwnerOK(s) /\ StackTyped /\ ModeIsRestored /\ SharedTyped
      /\ \A r \in Sessions : Leased(r) # {} => open[r] /\ gate[r] # "held"
      /\ \A u \in Threads : u # t /\ InMutation(u) => Top(u).session # Top(t).session
  BY <1>0, <1>1, MutationFacts
<1>3. open \in [Sessions -> BOOLEAN]
  BY <1>2 DEF SharedTyped
<1>4. ~open'[s] /\ (\A r \in Sessions : r # s => open'[r] = open[r]) /\ open' \in [Sessions -> BOOLEAN]
  BY <1>1, <1>2, <1>3
<1>5. gate' = gate /\ owed' = owed /\ holder' = holder /\ mode' = mode /\ saved' = saved /\ lost' = lost /\ active' = active
  BY <1>1 DEF inputVars
<1>6. holder # s /\ saved[s] = "none" /\ gate[s] = "held" /\ (OpensAlone => owed[s] = <<>>) /\ open[s]
  BY <1>0, <1>1, <1>2 DEF OwnsOK, GateOK, OwnerOK, OwedOK
<1>7. Local(t)
  BY <1>0, <1>4, <1>5 DEF Local
<1>8. SharedTyped'
  BY <1>2, <1>4, <1>5 DEF SharedTyped
<1>9. Concerns(t)
  <2>1. \A r \in Sessions : Leased(r) # {} => open'[r] /\ gate'[r] # "held"
    BY <1>2, <1>4, <1>5, <1>6
  <2>2. SessionOK(s)'
    BY <1>2, <1>4, <1>5, <1>6 DEF SessionOK
  <2>3. OwnerOK(s)' /\ ModeIsRestored'
    BY <1>2, <1>5 DEF OwnerOK, ModeIsRestored
  <2>5. Owner(t)' = s
    BY <1>1, <1>2, GotoFacts DEF Places
  <2>6. SessionOK(Owner(t))' /\ OwnerOK(Owner(t))'
    BY <2>2, <2>3, <2>5 DEF SessionOK, OwnerOK
  <2> QED
    BY <2>1, <2>3, <2>6, <1>0, <1>4 DEF Concerns
<1>10. PICK f : f = Frame(Top(t).op, Top(t).session, "leaving", Top(t).leased)
  OBVIOUS
<1>11. f.op = n /\ f.session = s /\ f.at = "leaving" /\ f.leased = Top(t).leased /\ "leaving" \in Places
  BY <1>0, <1>10 DEF Frame, Places
<1>12. Shape(f)
  BY <1>0, <1>1, <1>2, <1>11 DEF Shape, Operations, Closes
<1>13. GateOK(f)' /\ OwnsOK(f, s)' /\ ModeOK(f, s)' /\ OwedOK(f)'
  BY <1>1, <1>4, <1>5, <1>6, <1>11 DEF GateOK, OwnsOK, ModeOK, OwedOK, Closes, Operations
<1>14. Top(t)' = f /\ Owner(t)' = s
  BY <1>1, <1>2, <1>10, <1>11, GotoFacts
<1>15. StageOK(t)'
  BY <1>13, <1>14 DEF StageOK, GateOK, OwnsOK, ModeOK, OwedOK
<1> QED
  BY <1>1, <1>2, <1>5, <1>7, <1>8, <1>9, <1>10, <1>11, <1>12, <1>15, StepGoesOn

\* restoreOutputState
LEMMA RestoreOutputStep ==
  ASSUME SessionInv, NEW t \in Threads, RestoreOutput(t)
  PROVE  SessionInv'
<1>0. PICK s, n : s = Top(t).session /\ n = Top(t).op
  OBVIOUS
<1>1. /\ Busy(t) /\ n \in Closes /\ Top(t).op \in Mutations /\ Top(t).at = "held" /\ open[s]
      /\ UNCHANGED <<open, gate, active, inputVars>>
  BY <1>0 DEF RestoreOutput, At, Busy, Mutations, Closes
<1>2. /\ s \in Sessions /\ Owner(t) = s /\ Top(t).op \notin Operations /\ Top(t).op # "direct" /\ Shape(Top(t))
      /\ GateOK(Top(t)) /\ OwnsOK(Top(t), s) /\ ModeOK(Top(t), s)
      /\ SessionOK(s) /\ OwnerOK(s) /\ StackTyped /\ ModeIsRestored /\ SharedTyped
      /\ \A r \in Sessions : Leased(r) # {} => open[r] /\ gate[r] # "held"
      /\ \A u \in Threads : u # t /\ InMutation(u) => Top(u).session # Top(t).session
  BY <1>0, <1>1, MutationFacts
<1>3. owed \in [Sessions -> Seq(Outputs)]
  BY <1>2 DEF SharedTyped
<1>4. PICK q, place : /\ q \in Seq(Outputs) /\ Distinct(q) /\ owed' = [owed EXCEPT ![s] = q]
                      /\ Goto(t, place) /\ place \in {"restoring", "leaving"} /\ (place = "restoring" => q = <<>>)
  <2>1. PICK k \in 0..Len(owed[s]) :
          \/ owed' = [owed EXCEPT ![s] = <<>>] /\ Goto(t, "restoring")
          \/ owed' = [owed EXCEPT ![s] = SubSeq(owed[s], 1, k)] /\ Goto(t, "leaving")
    BY <1>0 DEF RestoreOutput
  <2>2. owed[s] \in Seq(Outputs) /\ Distinct(owed[s])
    BY <1>2, <1>3 DEF SessionOK, Distinct
  <2>3. SubSeq(owed[s], 1, k) \in Seq(Outputs) /\ Distinct(SubSeq(owed[s], 1, k))
    BY <2>2, PrefixDistinct
  <2>4. <<>> \in Seq(Outputs) /\ Distinct(<<>>)
    BY EmptySeq DEF Distinct
  <2>5. CASE owed' = [owed EXCEPT ![s] = <<>>] /\ Goto(t, "restoring")
    BY <2>4, <2>5
  <2>6. CASE owed' = [owed EXCEPT ![s] = SubSeq(owed[s], 1, k)] /\ Goto(t, "leaving")
    <3>1. PICK q : q = SubSeq(owed[s], 1, k)
      OBVIOUS
    <3>2. q \in Seq(Outputs) /\ Distinct(q) /\ owed' = [owed EXCEPT ![s] = q]
      BY <2>3, <2>6, <3>1
    <3>3. "leaving" \in {"restoring", "leaving"} /\ ("leaving" = "restoring" => q = <<>>) /\ Goto(t, "leaving")
      BY <2>6
    <3> QED
      BY <3>2, <3>3, Zenon
  <2> QED
    BY <2>1, <2>5, <2>6
<1>5. open' = open /\ gate' = gate /\ holder' = holder /\ mode' = mode /\ saved' = saved /\ lost' = lost /\ active' = active
  BY <1>1 DEF inputVars
<1>6. owed'[s] = q /\ (\A r \in Sessions : r # s => owed'[r] = owed[r]) /\ owed' \in [Sessions -> Seq(Outputs)]
  BY <1>2, <1>3, <1>4
<1>7. holder = s /\ (saved[s] # "none" => mode = s) /\ gate[s] = "held"
  BY <1>0, <1>1, <1>2 DEF OwnsOK, ModeOK, GateOK
<1>8. Local(t)
  BY <1>0, <1>5, <1>6 DEF Local
<1>9. SharedTyped'
  BY <1>2, <1>5, <1>6 DEF SharedTyped
<1>10. Concerns(t)
  <2>1. \A r \in Sessions : Leased(r) # {} => open'[r] /\ gate'[r] # "held"
    BY <1>2, <1>5
  <2>2. SessionOK(s)'
    BY <1>1, <1>2, <1>4, <1>5, <1>6, <1>7 DEF SessionOK, Distinct
  <2>3. OwnerOK(s)' /\ ModeIsRestored'
    BY <1>2, <1>5 DEF OwnerOK, ModeIsRestored
  <2>5. Owner(t)' = s
    BY <1>1, <1>2, <1>4, GotoFacts DEF Places
  <2>6. SessionOK(Owner(t))' /\ OwnerOK(Owner(t))'
    BY <2>2, <2>3, <2>5 DEF SessionOK, OwnerOK
  <2> QED
    BY <2>1, <2>3, <2>6, <1>0, <1>5 DEF Concerns
<1>11. PICK f : f = Frame(Top(t).op, Top(t).session, place, Top(t).leased)
  OBVIOUS
<1>12. f.op = n /\ f.session = s /\ f.at = place /\ f.leased = Top(t).leased /\ place \in Places
  BY <1>0, <1>4, <1>11 DEF Frame, Places
<1>13. Shape(f)
  BY <1>0, <1>1, <1>2, <1>4, <1>12 DEF Shape, Operations, Closes
<1>14. GateOK(f)' /\ OwnsOK(f, s)' /\ ModeOK(f, s)' /\ OwedOK(f)'
  BY <1>1, <1>4, <1>5, <1>6, <1>7, <1>12 DEF GateOK, OwnsOK, ModeOK, OwedOK, Closes, Operations
<1>15. Top(t)' = f /\ Owner(t)' = s
  BY <1>1, <1>2, <1>4, <1>11, <1>12, GotoFacts
<1>16. StageOK(t)'
  BY <1>14, <1>15 DEF StageOK, GateOK, OwnsOK, ModeOK, OwedOK
<1> QED
  BY <1>1, <1>2, <1>4, <1>5, <1>8, <1>9, <1>10, <1>11, <1>12, <1>13, <1>16, StepGoesOn

-----------------------------------------------------------------------------
(* The invariant                                                           *)

\* Nothing runs, every Session is closed and the terminal is as it was found.
LEMMA SessionInitInv ==
  ASSUME SessionInit
  PROVE  SessionInv
<1>1. /\ stack = [t \in Threads |-> <<>>] /\ open = [s \in Sessions |-> FALSE] /\ gate = [s \in Sessions |-> "free"]
      /\ active = [s \in Sessions |-> 0] /\ owed = [s \in Sessions |-> <<>>] /\ holder = "none" /\ mode = "original"
      /\ saved = [o \in Owners |-> "none"] /\ lost = FALSE
  BY DEF SessionInit
<1>2. \A t \in Threads : stack[t] = <<>> /\ Len(stack[t]) = 0 /\ ~Busy(t)
  BY <1>1, EmptySeq DEF Busy
<1>3. StackTyped
  BY <1>1, <1>2, SessionAssumption, EmptySeq DEF StackTyped
<1>4. OuterFormats /\ OpensApart /\ ShapesOK /\ StagesOK /\ OneMutation
  BY <1>2 DEF OuterFormats, OpensApart, ShapesOK, StagesOK, OneMutation, InMutation
<1>5. \A s : Leased(s) = {}
  BY <1>2 DEF Leased
<1>6. LeasesCounted /\ LeasesHold
  BY <1>1, <1>5, FS_EmptySet DEF LeasesCounted, LeasesHold
<1>7. SharedTyped
  <2>1. <<>> \in Seq(Outputs)
    BY EmptySeq
  <2>2. owed \in [Sessions -> Seq(Outputs)] /\ active \in [Sessions -> Int]
    BY <1>1, <2>1
  <2>3. /\ open \in [Sessions -> BOOLEAN] /\ gate \in [Sessions -> {"free", "draining", "held"}]
        /\ saved \in [Owners -> Owners \cup {"original", "none"}]
    BY <1>1
  <2> QED
    BY <1>1, <2>2, <2>3 DEF SharedTyped
<1>8. \A s \in Sessions : owed[s] = <<>> /\ Len(owed[s]) = 0 /\ holder # s /\ ~open[s]
  BY <1>1, SessionAssumption, EmptySeq
<1>9. SessionsOK
  BY <1>8 DEF SessionsOK, SessionOK
<1>10. OwnersOK /\ ModeIsRestored
  BY <1>1, SessionAssumption DEF OwnersOK, OwnerOK, ModeIsRestored, Owners
<1> QED
  BY <1>3, <1>4, <1>6, <1>7, <1>9, <1>10 DEF SessionInv, StackOK

\* Every step keeps it.
LEMMA SessionStep ==
  ASSUME SessionInv, [SessionNext]_sessionVars
  PROVE  SessionInv'
<1>1. CASE UNCHANGED sessionVars
  <2>1. /\ stack' = stack /\ open' = open /\ gate' = gate /\ active' = active /\ owed' = owed
        /\ holder' = holder /\ mode' = mode /\ saved' = saved /\ lost' = lost
    BY <1>1 DEF sessionVars, inputVars
  <2>2. StackOK'
    BY <2>1 DEF SessionInv, StackOK, StackTyped, ShapesOK, OuterFormats, Outer, OneMutation, InMutation, OpensApart,
      NoOperationOn, Busy, Top, Shape
  <2>3. SharedTyped' /\ LeasesCounted' /\ LeasesHold' /\ ModeIsRestored'
    BY <2>1 DEF SessionInv, SharedTyped, LeasesCounted, LeasesHold, Leased, ModeIsRestored
  <2>4. StagesOK'
    BY <2>1 DEF SessionInv, StagesOK, StageOK, GateOK, OwnsOK, ModeOK, OwedOK, Busy, Top, Owner
  <2>5. SessionsOK' /\ OwnersOK'
    BY <2>1 DEF SessionInv, SessionsOK, SessionOK, OwnersOK, OwnerOK
  <2> QED
    BY <2>2, <2>3, <2>4, <2>5 DEF SessionInv
<1>2. ASSUME NEW t \in Threads, NEW op \in Operations \cup Mutations, NEW s \in Sessions, Call(t, op, s)
      PROVE  SessionInv'
  <2>1. op \in Ops /\ op # "direct" /\ s # "none"
    BY SessionAssumption DEF Ops, Operations, Mutations
  <2> QED
    BY <1>2, <2>1, CallStep
<1>3. ASSUME NEW t \in Threads, Call(t, "direct", "none")
      PROVE  SessionInv'
  BY <1>3, CallStep DEF Ops
<1>4. ASSUME NEW t \in Threads, Step(t)
      PROVE  SessionInv'
  BY <1>4, AdmitStep, CheckOpenStep, UseOutputStep, BeginMutationStep, EnterMutationStep, EndMutationStep, ClaimStep,
     ConfigureStep, PublishOpenStep, RestoreOutputStep, RestoreInputStep, ReleaseInputStep, PublishClosedStep DEF Step
<1>5. ASSUME NEW t \in Threads, EndOperation(t)
      PROVE  SessionInv'
  BY <1>5, EndOperationStep
<1> QED
  BY <1>1, <1>2, <1>3, <1>4, <1>5 DEF SessionNext

\* The inductive invariant holds in every reachable state.
THEOREM SessionInvariance == SessionSpec => []SessionInv
BY SessionInitInv, SessionStep, PTL DEF SessionSpec

\* A call under way has the shape of its kind, and only the innermost one is a mutation.
LEMMA CallShape ==
  ASSUME StackOK, NEW u \in Threads, NEW i \in DOMAIN stack[u]
  PROVE  /\ stack[u][i] \in Frames /\ Shape(stack[u][i])
         /\ stack[u][i].op \in Mutations => Busy(u) /\ stack[u][i] = Top(u)
<1>1. StackTyped /\ ShapesOK /\ OuterFormats
  BY DEF StackOK
<1>2. stack[u] \in Seq(Frames) /\ Len(stack[u]) \in Nat
  BY <1>1, SessionAssumption DEF StackTyped
<1>3. i \in 1..Len(stack[u]) /\ stack[u][i] \in Frames
  BY <1>2, LenProperties, ElementOfSeq
<1>4. Busy(u)
  <2>1. Len(stack[u]) # 0
    BY <1>2, <1>3
  <2> QED
    BY <2>1, EmptySeq DEF Busy
<1>5. CASE i = Len(stack[u])
  BY <1>1, <1>3, <1>4, <1>5, TopIsLast DEF ShapesOK
<1>6. CASE i # Len(stack[u])
  <2>1. i \in 1..(Len(stack[u]) - 1)
    BY <1>2, <1>3, <1>6
  <2>2. Outer(stack[u][i])
    BY <1>1, <2>1 DEF OuterFormats
  <2>3. stack[u][i].op \notin Mutations
    BY <2>2 DEF Outer, Mutations
  <2> QED
    BY <1>3, <2>2, <2>3 DEF Outer
<1> QED
  BY <1>5, <1>6

\* A call past its open check holds a lease, and a close past its waits shuts out leases.
LEMMA InvKeepsBinding ==
  ASSUME SessionInv, OpensAlone
  PROVE  LeaseKeepsBinding
<1> SUFFICES ASSUME NEW s \in Sessions, NEW c \in Calls(s),
                    stack[c[1]][c[2]].op \in Operations, stack[c[1]][c[2]].at \in {"using", "done"}
             PROVE  open[s] /\ ~Closing(s)
  BY DEF LeaseKeepsBinding
<1>1. StackOK /\ LeasesHold /\ StagesOK
  BY DEF SessionInv
<1>2. c \in Threads \X (1..MaxNesting) /\ c[2] \in DOMAIN stack[c[1]] /\ stack[c[1]][c[2]].session = s
  BY DEF Calls
<1>3. c[1] \in Threads
  BY <1>2
<1>4. Shape(stack[c[1]][c[2]])
  BY <1>1, <1>2, <1>3, CallShape
<1>5. stack[c[1]][c[2]].leased
  BY <1>4 DEF Shape
<1>6. c[2] \in 1..Len(stack[c[1]])
  BY <1>1, <1>2, <1>3, LenProperties DEF StackOK, StackTyped
<1>7. c \in Leased(s)
  BY <1>2, <1>5, <1>6 DEF Leased
<1>8. open[s] /\ gate[s] # "held"
  BY <1>1, <1>7 DEF LeasesHold
<1>9. ASSUME Closing(s) PROVE FALSE
  <2>1. PICK d \in Calls(s) : stack[d[1]][d[2]].op \in {"close", "destroy"} /\ stack[d[1]][d[2]].at \notin {"start", "draining"}
    BY <1>9 DEF Closing
  <2>2. d[1] \in Threads /\ d[2] \in DOMAIN stack[d[1]] /\ stack[d[1]][d[2]].session = s
    BY DEF Calls
  <2>3. stack[d[1]][d[2]].op \in Mutations
    BY <2>1 DEF Mutations
  <2>4. Busy(d[1]) /\ stack[d[1]][d[2]] = Top(d[1])
    BY <1>1, <2>2, <2>3, CallShape
  <2>5. GateOK(Top(d[1]))
    BY <1>1, <2>2, <2>4 DEF StagesOK, StageOK
  <2> QED
    BY <1>8, <2>1, <2>2, <2>3, <2>4, <2>5 DEF GateOK
<1> QED
  BY <1>8, <1>9

\* A list of output states that names none twice is no longer than there are states.
LEMMA DistinctIsShort ==
  ASSUME NEW q \in Seq(Outputs), Distinct(q)
  PROVE  Range(q) \subseteq Outputs /\ Len(q) <= Cardinality(Outputs)
<1>1. Len(q) \in Nat /\ DOMAIN q = 1..Len(q) /\ q \in [1..Len(q) -> Outputs]
  BY LenProperties
<1>2. Range(q) \subseteq Outputs
  BY <1>1 DEF Range
<1>3. q \in Injection(1..Len(q), Outputs)
  BY <1>1 DEF Injection, IsInjective, Distinct
<1>4. Cardinality(1..Len(q)) <= Cardinality(Outputs)
  BY <1>3, FS_Injection, SessionAssumption
<1>5. Cardinality(1..Len(q)) = Len(q)
  <2> DEFINE n == Len(q)
  <2>1. n \in Nat
    BY <1>1
  <2> HIDE DEF n
  <2>2. 1 \in Int /\ n \in Int
    BY <2>1
  <2>3. Cardinality(1..n) = IF 1 > n THEN 0 ELSE n - 1 + 1
    BY <2>2, FS_Interval
  <2>4. Cardinality(1..n) = n
    BY <2>1, <2>3
  <2> QED
    BY <2>4 DEF n
<1> QED
  BY <1>2, <1>4, <1>5

\* The types that the runs check.
LEMMA InvTypes ==
  ASSUME SessionInv
  PROVE  SessionTypeOK
<1>1. StackOK /\ StackTyped /\ SharedTyped /\ LeasesCounted /\ SessionsOK
  BY DEF SessionInv, StackOK
<1>2. \A t \in Threads : Len(stack[t]) <= MaxNesting /\ \A i \in DOMAIN stack[t] : stack[t][i] \in Frames
  BY <1>1, CallShape, SessionAssumption DEF StackTyped
<1>3. active \in [Sessions -> 0..(Cardinality(Threads) * MaxNesting)]
  <2> DEFINE m == Cardinality(Threads) * MaxNesting
  <2>1. Cardinality(Threads) \in Nat /\ MaxNesting \in Nat
    BY SessionAssumption, FS_CardinalityType
  <2>2. m \in Int
    BY <2>1
  <2> HIDE DEF m
  <2>3. ASSUME NEW s \in Sessions PROVE active[s] \in 0..m
    <3>1. Cardinality(Leased(s)) \in Nat /\ Cardinality(Leased(s)) <= m
      BY LeasesFinite DEF m
    <3>2. active[s] = Cardinality(Leased(s))
      BY <1>1 DEF LeasesCounted
    <3> QED
      BY <2>2, <3>1, <3>2
  <2>4. active \in [Sessions -> 0..m]
    BY <1>1, <2>3 DEF SharedTyped
  <2> QED
    BY <2>4 DEF m
<1>4. ASSUME NEW s \in Sessions PROVE Range(owed[s]) \subseteq Outputs /\ Len(owed[s]) <= Cardinality(Outputs)
  <2>1. owed[s] \in Seq(Outputs) /\ Distinct(owed[s])
    BY <1>1 DEF SharedTyped, SessionsOK, SessionOK, Distinct
  <2> QED
    BY <2>1, DistinctIsShort
<1> QED
  BY <1>1, <1>2, <1>3, <1>4 DEF SessionTypeOK, SharedTyped

\* Ownership of stdin and the mode in force, for every program, the ones that open a Session
\* while it is used included: no interleaving of opens, closes, destructions and direct reads,
\* with any of their failures, separates the open Session from stdin or leaves a foreign mode.
THEOREM InputFollowsOwner == SessionSpec => [](OpenOwnsInput /\ ModeOfOwner /\ ModeIsRestored)
<1>1. SessionInv => OpenOwnsInput /\ ModeOfOwner /\ ModeIsRestored
  BY DEF SessionInv, SessionsOK, SessionOK, OpenOwnsInput, ModeOfOwner
<1> QED
  BY <1>1, SessionInvariance, PTL

\* Where the program keeps open() apart from other calls, a lease keeps its Session open and
\* every close out (State::Operation and State::Mutation), at any depth of nested calls.
THEOREM LeasesKeepBinding ==
  ASSUME OpensAlone
  PROVE  SessionSpec => []LeaseKeepsBinding
<1>1. SessionInv => LeaseKeepsBinding
  BY InvKeepsBinding
<1> QED
  BY <1>1, SessionInvariance, PTL

\* For the same programs types, ownership of stdin, the input mode and the restored output
\* states stay together.
THEOREM SessionsAreConsistent ==
  ASSUME OpensAlone
  PROVE  SessionSpec => []SessionIsConsistent
<1>1. SessionInv => SessionIsConsistent
  <2> SUFFICES ASSUME SessionInv PROVE SessionIsConsistent
    OBVIOUS
  <2>1. SessionTypeOK
    BY InvTypes
  <2>2. OpenOwnsInput /\ ModeOfOwner /\ ModeIsRestored /\ ClosedOwesNothing
    BY DEF SessionInv, SessionsOK, SessionOK, OpenOwnsInput, ModeOfOwner, ClosedOwesNothing
  <2> QED
    BY <2>1, <2>2 DEF SessionIsConsistent
<1> QED
  BY <1>1, SessionInvariance, PTL

=============================================================================
