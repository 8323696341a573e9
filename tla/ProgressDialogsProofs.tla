----------------------- MODULE ProgressDialogsProofs -----------------------
(***************************************************************************)
(* For any number of dialogs, descriptions, native failures and changes of *)
(* the Window: whatever order dialogs are opened, lost, destroyed by their *)
(* own or a foreign thread, pruned and abandoned in, the owner Window      *)
(* stays disabled while a dialog blocks it, no list or native window leads *)
(* to freed memory, and the window class is counted exactly.               *)
(***************************************************************************)
EXTENDS ProgressDialogs, FiniteSetTheorems, SequenceTheorems, TLAPS

Phases == {"idle", "rollback", "ownerLoss", "closeRollback", "prune", "exit", "abandon", "exited"}
Leaving == {"exit", "abandon", "exited"}

\* A dialog's state: data without an owner never belongs to a live state, a
\* window keeps its data and its class, a restoration is owed by a dialog that
\* no longer blocks, and before the owner thread exits a state without native
\* data is clean.  A foreign destructor holds its state until it is through.
RecordSound(r, f, phase, kept) ==
    /\ r.data = "owned" => r.at \in {"held", "deferred"}
    /\ r.hwnd = "live" => r.data \in {"owned", "leaked"} /\ r.classHeld
    /\ r.hwnd = "detached" => kept > 0
    /\ r.restorePending => ~r.blocking
    /\ phase \notin Leaving /\ r.data # "owned"
        => r.hwnd = "none" /\ ~r.classHeld /\ ~r.blocking /\ r.data \in {"none", "freed"}
    /\ phase = "exited" => r.hwnd = "none"
    /\ f # "none" => r.at = "held"
    /\ f = "fallback" /\ r.data = "owned" => phase = "exited"

DialogsSound == \A d \in Dialogs : RecordSound(dlg[d], fpc[d], pc, retained)

\* The registry and the chain of restorations lead to native data, the chains
\* of cleanup to states they own; no dialog is in one list twice.
NativeLists ==
    /\ \A d \in Range(registry) \cup Range(restoreChain) : dlg[d].data = "owned"
    /\ \A d \in Range(restoreChain) : dlg[d].restorePending
    /\ IsInjective(registry) /\ IsInjective(restoreChain)

CleanupLists ==
    /\ \A d \in Range(deferred) \cup Range(cleanup) : dlg[d].at = "deferred"
    /\ \A d \in Range(deferred) : d \notin Range(cleanup)
    /\ IsInjective(deferred) /\ IsInjective(cleanup)

\* What the owner thread holds at each point of its handlers.
ThreadSound ==
    /\ pc \notin {"prune", "exit", "abandon"} => cleanup = <<>>
    /\ pc \in Leaving => deferred = <<>>
    /\ pc = "exited" => registry = <<>> /\ restoreChain = <<>>
    /\ pc = "rollback" => /\ cur \in Dialogs /\ fpc[cur] = "none"
                          /\ dlg[cur].at = "held" /\ dlg[cur].data = "owned"
    /\ pc = "abandon" => /\ cur \in Dialogs /\ dlg[cur].data = "owned"
                         /\ cur \notin Range(restoreChain)
                         /\ cleanup # <<>> => cur = Head(cleanup)

Holders == {d \in Dialogs : dlg[d].classHeld}
ClassCounted == IsFiniteSet(Holders) /\ classUsers = retained + Cardinality(Holders)

ProgressInv ==
    /\ TypeOK /\ BlockedWhileBlocking
    /\ DialogsSound /\ NativeLists /\ CleanupLists /\ ThreadSound /\ ClassCounted

-----------------------------------------------------------------------------
(* Lists *)

\* Appending a dialog that is not in the list.
LEMMA Appended ==
  ASSUME NEW S, NEW s \in Seq(S), NEW d \in S
  PROVE  /\ Append(s, d) \in Seq(S) /\ Range(Append(s, d)) = Range(s) \cup {d}
         /\ IsInjective(s) /\ d \notin Range(s) => IsInjective(Append(s, d))
<1>1. /\ Append(s, d) \in Seq(S) /\ Len(Append(s, d)) = Len(s) + 1
      /\ \A i \in 1 .. Len(s) : Append(s, d)[i] = s[i]
      /\ Append(s, d)[Len(s) + 1] = d
  BY AppendProperties
<1>2. DOMAIN s = 1 .. Len(s) /\ Len(s) \in Nat /\ DOMAIN Append(s, d) = 1 .. Len(s) + 1
  BY <1>1
<1>3. Range(Append(s, d)) = Range(s) \cup {d}
  BY <1>1, <1>2, SMT DEF Range
<1>4. IsInjective(s) /\ d \notin Range(s) => IsInjective(Append(s, d))
  BY <1>1, <1>2, SMT DEF Range, IsInjective
<1> QED
  BY <1>1, <1>3, <1>4

\* Joining two lists.
LEMMA Joined ==
  ASSUME NEW S, NEW s \in Seq(S), NEW t \in Seq(S)
  PROVE  /\ s \o t \in Seq(S) /\ Range(s \o t) = Range(s) \cup Range(t)
         /\ IsInjective(s) /\ IsInjective(t) /\ (\A d \in Range(s) : d \notin Range(t)) => IsInjective(s \o t)
<1>1. /\ s \o t \in Seq(S) /\ Len(s \o t) = Len(s) + Len(t)
      /\ \A i \in 1 .. Len(s) : (s \o t)[i] = s[i]
      /\ \A i \in 1 .. Len(t) : (s \o t)[Len(s) + i] = t[i]
  BY ConcatProperties
<1>2. /\ DOMAIN s = 1 .. Len(s) /\ Len(s) \in Nat /\ DOMAIN t = 1 .. Len(t) /\ Len(t) \in Nat
      /\ DOMAIN (s \o t) = 1 .. Len(s) + Len(t)
  BY <1>1
<1>3. Range(s \o t) = Range(s) \cup Range(t)
  BY RangeConcatenation
<1>4. ASSUME IsInjective(s), IsInjective(t), \A d \in Range(s) : d \notin Range(t)
      PROVE  IsInjective(s \o t)
  <2>1. SUFFICES ASSUME NEW i \in 1 .. Len(s) + Len(t), NEW j \in 1 .. Len(s) + Len(t),
                        (s \o t)[i] = (s \o t)[j]
                 PROVE  i = j
    BY <1>2 DEF IsInjective
  <2>2. CASE i \leq Len(s) /\ j \leq Len(s)
    BY <1>1, <1>2, <1>4, <2>1, <2>2 DEF IsInjective
  <2>3. CASE i > Len(s) /\ j > Len(s)
    <3>1. /\ i - Len(s) \in 1 .. Len(t) /\ j - Len(s) \in 1 .. Len(t)
          /\ i = Len(s) + (i - Len(s)) /\ j = Len(s) + (j - Len(s))
      BY <1>2, <2>3
    <3>2. t[i - Len(s)] = t[j - Len(s)]
      BY <1>1, <2>1, <3>1
    <3> QED
      BY <1>2, <1>4, <3>1, <3>2 DEF IsInjective
  <2>4. ASSUME NEW k \in 1 .. Len(s), NEW l \in 1 .. Len(s) + Len(t), l > Len(s) PROVE (s \o t)[k] # (s \o t)[l]
    <3>1. l - Len(s) \in 1 .. Len(t) /\ l = Len(s) + (l - Len(s))
      BY <1>2, <2>4
    <3>2. (s \o t)[l] \in Range(t) /\ (s \o t)[k] \in Range(s)
      BY <1>1, <1>2, <3>1 DEF Range
    <3> QED
      BY <1>4, <3>2
  <2> QED
    BY <1>2, <2>1, <2>2, <2>3, <2>4
<1> QED
  BY <1>1, <1>3, <1>4

\* Putting a dialog in front of a list.
LEMMA Pushed ==
  ASSUME NEW S, NEW s \in Seq(S), NEW d \in S
  PROVE  /\ <<d>> \o s \in Seq(S) /\ Range(<<d>> \o s) = Range(s) \cup {d}
         /\ IsInjective(s) /\ d \notin Range(s) => IsInjective(<<d>> \o s)
<1>1. PICK one : one = <<d>>
  OBVIOUS
<1>2. one \in Seq(S) /\ Range(one) = {d} /\ IsInjective(one)
  BY <1>1 DEF Range, IsInjective
<1>3. /\ one \o s \in Seq(S) /\ Range(one \o s) = Range(one) \cup Range(s)
      /\ IsInjective(s) /\ (\A e \in Range(one) : e \notin Range(s)) => IsInjective(one \o s)
  BY <1>2, Joined
<1>4. Range(one \o s) = Range(s) \cup {d}
  BY <1>2, <1>3
<1>5. IsInjective(s) /\ d \notin Range(s) => IsInjective(one \o s)
  BY <1>2, <1>3
<1> QED
  BY <1>1, <1>3, <1>4, <1>5

\* The head and the rest of a list.
LEMMA Split ==
  ASSUME NEW S, NEW s \in Seq(S), s # <<>>
  PROVE  /\ Head(s) \in S /\ Head(s) \in Range(s) /\ Tail(s) \in Seq(S)
         /\ Last(s) \in Range(s) /\ Last(s) \in S
         /\ Range(s) = Range(Tail(s)) \cup {Head(s)}
         /\ IsInjective(s) => IsInjective(Tail(s)) /\ Head(s) \notin Range(Tail(s))
<1>1. /\ Head(s) \in S /\ Tail(s) \in Seq(S) /\ Len(Tail(s)) = Len(s) - 1
      /\ \A i \in 1 .. Len(Tail(s)) : Tail(s)[i] = s[i + 1]
  BY HeadTailProperties
<1>2. /\ DOMAIN s = 1 .. Len(s) /\ Len(s) \in Nat /\ Len(s) > 0 /\ DOMAIN Tail(s) = 1 .. Len(s) - 1
      /\ Head(s) = s[1] /\ \A i \in 1 .. Len(s) : s[i] \in S
  BY <1>1, EmptySeq
<1>3. Last(s) \in Range(s) /\ Last(s) \in S /\ Head(s) \in Range(s)
  BY <1>2 DEF Last, Range
<1>4. \A d : d \in Range(s) <=> d \in Range(Tail(s)) \cup {Head(s)}
  <2>1. ASSUME NEW i \in 1 .. Len(s) PROVE s[i] \in Range(Tail(s)) \cup {Head(s)}
    <3>1. CASE i = 1
      BY <1>2, <3>1
    <3>2. CASE i # 1
      <4>1. i - 1 \in 1 .. Len(s) - 1 /\ i = (i - 1) + 1
        BY <1>2, <3>2
      <4> QED
        BY <1>1, <1>2, <4>1 DEF Range
    <3> QED
      BY <3>1, <3>2
  <2>2. ASSUME NEW i \in 1 .. Len(s) - 1 PROVE Tail(s)[i] \in Range(s)
    BY <1>1, <1>2 DEF Range
  <2> QED
    BY <1>2, <1>3, <2>1, <2>2 DEF Range
<1>5. ASSUME IsInjective(s) PROVE IsInjective(Tail(s)) /\ Head(s) \notin Range(Tail(s))
  BY <1>1, <1>2, <1>5 DEF IsInjective, Range
<1> QED
  BY <1>1, <1>3, <1>4, <1>5

\* The first members of a list.
LEMMA Prefixed ==
  ASSUME NEW S, NEW s \in Seq(S), NEW k \in 0 .. Len(s)
  PROVE  /\ SubSeq(s, 1, k) \in Seq(S) /\ Range(SubSeq(s, 1, k)) \subseteq Range(s)
         /\ IsInjective(s) => IsInjective(SubSeq(s, 1, k))
<1>1. \A i \in 1 .. k : s[i] \in S
  BY ElementOfSeq
<1>2. /\ SubSeq(s, 1, k) \in Seq(S) /\ Len(SubSeq(s, 1, k)) = k
      /\ \A i \in 1 .. k : SubSeq(s, 1, k)[i] = s[i]
  BY <1>1, SubSeqProperties
<1>3. DOMAIN SubSeq(s, 1, k) = 1 .. k /\ DOMAIN s = 1 .. Len(s) /\ 1 .. k \subseteq 1 .. Len(s)
  BY <1>2
<1> QED
  BY <1>2, <1>3 DEF Range, IsInjective

\* Nothing is in the empty list.
LEMMA Emptied ==
  \A S : <<>> \in Seq(S) /\ Range(<<>>) = {} /\ IsInjective(<<>>)
BY DEF Range, IsInjective

\* Taking a dialog out of a list.
LEMMA TakenOut ==
  ASSUME NEW S, NEW s \in Seq(S), NEW d, IsInjective(s)
  PROVE  /\ Without(s, d) \in Seq(S) /\ Range(Without(s, d)) = Range(s) \ {d}
         /\ IsInjective(Without(s, d))
<1>1. CASE d \notin Range(s)
  BY <1>1 DEF Without
<1>2. CASE d \in Range(s)
  <2>1. /\ DOMAIN s = 1 .. Len(s) /\ Len(s) \in Nat /\ \A k \in 1 .. Len(s) : s[k] \in S
    BY ElementOfSeq
  <2>2. PICK i \in 1 .. Len(s) : i = (CHOOSE j \in DOMAIN s : s[j] = d) /\ s[i] = d
    BY <1>2, <2>1 DEF Range
  <2>3. Without(s, d) = SubSeq(s, 1, i - 1) \o SubSeq(s, i + 1, Len(s))
    BY <1>2, <2>2 DEF Without, RemoveAt
  <2>4. PICK a, b : a = SubSeq(s, 1, i - 1) /\ b = SubSeq(s, i + 1, Len(s))
    OBVIOUS
  <2>5. a \in Seq(S) /\ Range(a) \subseteq Range(s) /\ IsInjective(a)
    BY <2>1, <2>4, Prefixed
  <2>6. Len(a) = i - 1 /\ (\A k \in 1 .. i - 1 : a[k] = s[k]) /\ DOMAIN a = 1 .. i - 1
    BY <2>1, <2>4, <2>5, SubSeqProperties
  <2>7. /\ b \in Seq(S) /\ Len(b) = Len(s) - i /\ \A k \in 1 .. Len(s) - i : b[k] = s[i + k]
        /\ DOMAIN b = 1 .. Len(s) - i
    <3>1. \A k \in i + 1 .. Len(s) : s[k] \in S
      BY <2>1
    <3>2. /\ b \in Seq(S) /\ Len(b) = (IF i + 1 \leq Len(s) THEN Len(s) - (i + 1) + 1 ELSE 0)
          /\ \A k \in 1 .. Len(s) - (i + 1) + 1 : b[k] = s[i + 1 + k - 1]
      BY <2>1, <2>4, <3>1, SubSeqProperties
    <3>3. Len(s) - (i + 1) + 1 = Len(s) - i /\ \A k \in 1 .. Len(s) - i : i + 1 + k - 1 = i + k
      BY <2>1
    <3>4. (IF i + 1 \leq Len(s) THEN Len(s) - (i + 1) + 1 ELSE 0) = Len(s) - i
      BY <2>1, <2>2
    <3>5. Len(b) = Len(s) - i
      BY <3>2, <3>4
    <3>6. DOMAIN b = 1 .. Len(s) - i
      BY <3>2, <3>5
    <3> QED
      BY <3>2, <3>3, <3>5, <3>6
  <2>8. Range(b) \subseteq Range(s) /\ IsInjective(b)
    <3>1. \A k \in 1 .. Len(s) - i : i + k \in 1 .. Len(s) /\ b[k] = s[i + k]
      BY <2>1, <2>7
    <3>2. Range(b) \subseteq Range(s)
      <4>1. DOMAIN b = 1 .. Len(s) - i /\ \A k \in 1 .. Len(s) - i : i + k \in DOMAIN s /\ b[k] = s[i + k]
        BY <2>1, <2>7, <3>1
      <4> QED
        BY <4>1, Zenon DEF Range
    <3>3. ASSUME NEW k \in 1 .. Len(s) - i, NEW l \in 1 .. Len(s) - i, b[k] = b[l] PROVE k = l
      <4>1. i + k \in DOMAIN s /\ i + l \in DOMAIN s /\ s[i + k] = s[i + l]
        BY <2>1, <3>1, <3>3
      <4>2. i + k = i + l
        BY <4>1 DEF IsInjective
      <4> QED
        BY <2>1, <4>2
    <3>4. IsInjective(b)
      BY <2>1, <2>7, <3>3 DEF IsInjective
    <3> QED
      BY <3>2, <3>4
  <2>9. \A e \in Range(a) : e \notin Range(b) /\ e # d
    <3>1. SUFFICES ASSUME NEW k \in 1 .. i - 1 PROVE a[k] \notin Range(b) /\ a[k] # d
      BY <2>6 DEF Range
    <3>2. a[k] = s[k] /\ k \in 1 .. Len(s) /\ k # i
      BY <2>1, <2>6
    <3>3. a[k] # d
      BY <2>1, <2>2, <3>2 DEF IsInjective
    <3>4. ASSUME NEW l \in 1 .. Len(s) - i PROVE a[k] # b[l]
      <4>1. b[l] = s[i + l] /\ i + l \in 1 .. Len(s) /\ i + l # k
        BY <2>1, <2>7
      <4> QED
        BY <2>1, <3>2, <4>1 DEF IsInjective
    <3> QED
      BY <2>7, <3>3, <3>4 DEF Range
  <2>10. d \notin Range(b)
    <3>1. SUFFICES ASSUME NEW l \in 1 .. Len(s) - i PROVE b[l] # d
      BY <2>7 DEF Range
    <3>2. b[l] = s[i + l] /\ i + l \in 1 .. Len(s) /\ i + l # i
      BY <2>1, <2>7
    <3> QED
      BY <2>1, <2>2, <3>2 DEF IsInjective
  <2>11. \A e \in Range(s) : e # d => e \in Range(a) \cup Range(b)
    <3>1. SUFFICES ASSUME NEW k \in 1 .. Len(s), s[k] # d PROVE s[k] \in Range(a) \cup Range(b)
      BY <2>1 DEF Range
    <3>2. CASE k < i
      BY <2>1, <2>6, <3>2 DEF Range
    <3>3. CASE k > i
      <4>1. k - i \in 1 .. Len(s) - i /\ i + (k - i) = k
        BY <2>1, <3>3
      <4> QED
        BY <2>7, <4>1 DEF Range
    <3> QED
      BY <2>1, <2>2, <3>1, <3>2, <3>3
  <2>12. a \o b \in Seq(S) /\ Range(a \o b) = Range(a) \cup Range(b) /\ IsInjective(a \o b)
    BY <2>5, <2>7, <2>8, <2>9, Joined
  <2>13. Range(a \o b) = Range(s) \ {d}
    BY <2>5, <2>8, <2>9, <2>10, <2>11, <2>12
  <2> QED
    BY <2>3, <2>4, <2>12, <2>13
<1> QED
  BY <1>1, <1>2

\* The orders a finite set of dialogs can be listed in.
LEMMA Listed ==
  ASSUME NEW S, NEW T, IsFiniteSet(T), T \subseteq S, NEW q \in SetToSeqs(T)
  PROVE  q \in Seq(S) /\ Range(q) \subseteq T /\ IsInjective(q)
<1>1. Cardinality(T) \in Nat
  BY FS_CardinalityType
<1>2. q \in [1 .. Cardinality(T) -> T] /\ \A i, j \in 1 .. Cardinality(T) : i # j => q[i] # q[j]
  BY DEF SetToSeqs
<1>3. q \in Seq(S)
  BY <1>1, <1>2
<1> QED
  BY <1>2, <1>3 DEF Range, IsInjective

\* A registry that loses a set of dialogs.
LEMMA Kept ==
  ASSUME NEW S, NEW s \in Seq(S), NEW T, NEW r \in Keeping(s, T)
  PROVE  r \in Seq(S) /\ Range(r) \subseteq Range(s) /\ (\A d \in Range(r) : d \notin T) /\ IsInjective(r)
<1>1. Range(s) \ T \subseteq S
  BY RangeOfSeq
<1>2. IsFiniteSet(Range(s))
  <2>1. s \in Surjection(1 .. Len(s), Range(s)) /\ Len(s) \in Nat
    BY DEF Surjection, Range
  <2> QED
    BY <2>1, FS_Interval, FS_Surjection
<1>3. IsFiniteSet(Range(s) \ T)
  BY <1>2, FS_Subset
<1>4. r \in SetToSeqs(Range(s) \ T)
  BY DEF Keeping
<1>5. r \in Seq(S) /\ Range(r) \subseteq Range(s) \ T /\ IsInjective(r)
  BY <1>1, <1>3, <1>4, Listed
<1> QED
  BY <1>5

-----------------------------------------------------------------------------
(* One dialog changes *)

WinType == [open : BOOLEAN, enabled : BOOLEAN, interaction : BOOLEAN, destroying : BOOLEAN]

PhaseKept == /\ pc' \in Phases /\ (pc \in Leaving => pc' \in Leaving)
             /\ (pc' = "exited" <=> pc = "exited")

\* The owner thread's progress and more references left to teardown disturb no dialog.
LEMMA RecordKept ==
  ASSUME NEW r, NEW f, TypeOK, PhaseKept, retained' \in Nat, retained' >= retained,
         RecordSound(r, f, pc, retained)
  PROVE  RecordSound(r, f, pc', retained')
<1>1. retained \in Nat
  BY DEF TypeOK
<1> QED
  BY <1>1 DEF RecordSound, PhaseKept, Leaving

LEMMA OthersSound ==
  ASSUME TypeOK, DialogsSound, PhaseKept, retained' \in Nat, retained' >= retained,
         NEW d \in Dialogs, NEW rec \in DialogType, dlg' = [dlg EXCEPT ![d] = rec],
         \A e \in Dialogs : e # d => fpc'[e] = fpc[e],
         RecordSound(rec, fpc'[d], pc', retained')
  PROVE  DialogsSound'
<1>1. SUFFICES ASSUME NEW e \in Dialogs PROVE RecordSound(dlg'[e], fpc'[e], pc', retained')
  BY DEF DialogsSound
<1>2. dlg \in [Dialogs -> DialogType]
  BY DEF TypeOK
<1>3. CASE e = d
  BY <1>2, <1>3
<1>4. CASE e # d
  <2>1. dlg'[e] = dlg[e] /\ fpc'[e] = fpc[e]
    BY <1>2, <1>4
  <2>2. RecordSound(dlg[e], fpc[e], pc, retained)
    BY DEF DialogsSound
  <2>3. RecordSound(dlg[e], fpc[e], pc', retained')
    BY <2>2, RecordKept
  <2> QED
    BY <2>1, <2>3
<1> QED
  BY <1>3, <1>4

\* The class count moves with the references of the dialog and with those left to teardown.
LEMMA ClassMoves ==
  ASSUME TypeOK, ClassCounted, NEW d \in Dialogs, NEW rec \in DialogType,
         dlg' = [dlg EXCEPT ![d] = rec], NEW k \in Nat, retained' = retained + k,
         NEW n \in Int, classUsers' = classUsers + n,
         n = k + (IF rec.classHeld THEN 1 ELSE 0) - (IF dlg[d].classHeld THEN 1 ELSE 0)
  PROVE  ClassCounted' /\ classUsers' \in Nat /\ retained' \in Nat
<1>1. dlg \in [Dialogs -> DialogType] /\ classUsers \in Nat /\ retained \in Nat
  BY DEF TypeOK
<1>2. IsFiniteSet(Holders) /\ classUsers = retained + Cardinality(Holders) /\ Cardinality(Holders) \in Nat
  BY FS_CardinalityType DEF ClassCounted
<1>3. \A e \in Dialogs : dlg'[e] = IF e = d THEN rec ELSE dlg[e]
  BY <1>1
<1>4. rec.classHeld \in BOOLEAN /\ dlg[d].classHeld \in BOOLEAN
  BY <1>1 DEF DialogType
<1>5. Holders' = {e \in Dialogs : dlg'[e].classHeld}
  BY DEF Holders
<1>6. SUFFICES IsFiniteSet(Holders') /\ Cardinality(Holders') + (IF dlg[d].classHeld THEN 1 ELSE 0)
                                       = Cardinality(Holders) + (IF rec.classHeld THEN 1 ELSE 0)
               /\ Cardinality(Holders') \in Nat
  <2>1. CASE rec.classHeld /\ dlg[d].classHeld
    BY <1>1, <1>2, <1>6, <2>1 DEF ClassCounted
  <2>2. CASE rec.classHeld /\ ~dlg[d].classHeld
    BY <1>1, <1>2, <1>6, <2>2 DEF ClassCounted
  <2>3. CASE ~rec.classHeld /\ dlg[d].classHeld
    BY <1>1, <1>2, <1>6, <2>3 DEF ClassCounted
  <2>4. CASE ~rec.classHeld /\ ~dlg[d].classHeld
    BY <1>1, <1>2, <1>6, <2>4 DEF ClassCounted
  <2> QED
    BY <1>4, <2>1, <2>2, <2>3, <2>4
<1>7. CASE rec.classHeld = dlg[d].classHeld
  <2>1. Holders' = Holders
    BY <1>3, <1>5, <1>7 DEF Holders
  <2> QED
    BY <1>2, <1>7, <2>1
<1>8. CASE rec.classHeld /\ ~dlg[d].classHeld
  <2>1. Holders' = Holders \cup {d} /\ d \notin Holders
    BY <1>3, <1>5, <1>8 DEF Holders
  <2>2. IsFiniteSet(Holders \cup {d}) /\ Cardinality(Holders \cup {d}) = Cardinality(Holders) + 1
    BY <1>2, <2>1, FS_AddElement
  <2> QED
    BY <1>2, <1>8, <2>1, <2>2
<1>9. CASE ~rec.classHeld /\ dlg[d].classHeld
  <2>1. Holders' = Holders \ {d} /\ d \in Holders
    BY <1>3, <1>5, <1>9 DEF Holders
  <2>2. IsFiniteSet(Holders \ {d}) /\ Cardinality(Holders \ {d}) = Cardinality(Holders) - 1
    BY <1>2, <2>1, FS_RemoveElement
  <2>3. Cardinality(Holders \ {d}) \in Nat
    BY <2>2, FS_CardinalityType
  <2> QED
    BY <1>2, <1>9, <2>1, <2>2, <2>3
<1> QED
  BY <1>4, <1>7, <1>8, <1>9

\* A registry blocks the owner through one of its members.
LEMMA Blockers ==
  ASSUME NEW reg
  PROVE  HasBlocking(reg) <=> \E e \in Range(reg) : BlocksOwner(e)
BY DEF HasBlocking, Range

\* A dialog's change blocks the owner only if the dialog did before.
BlocksNoMore(d, rec) ==
    rec.data = "owned" /\ rec.blocking =>
        dlg[d].data = "owned" /\ dlg[d].blocking /\ rec.finalize = dlg[d].finalize /\ rec.desc = dlg[d].desc

LEMMA BlockersLeft ==
  ASSUME TypeOK, NEW d \in Dialogs, NEW rec \in DialogType, dlg' = [dlg EXCEPT ![d] = rec],
         BlocksNoMore(d, rec), Range(registry') \subseteq Range(registry)
  PROVE  /\ \A e \in Range(registry) : e # d => (BlocksOwner(e)' => BlocksOwner(e))
         /\ BlocksOwner(d)' => BlocksOwner(d)
         /\ HasBlocking(registry)' => HasBlocking(registry)
<1>1. dlg \in [Dialogs -> DialogType] /\ Range(registry) \subseteq Dialogs
  BY RangeOfSeq DEF TypeOK
<1>2. dlg'[d] = rec /\ \A e \in Dialogs : e # d => dlg'[e] = dlg[e]
  BY <1>1
<1>3. \A e \in Range(registry) : e # d => (BlocksOwner(e)' => BlocksOwner(e))
  BY <1>1, <1>2 DEF BlocksOwner, Platform
<1>4. BlocksOwner(d)' => BlocksOwner(d)
  BY <1>2 DEF BlocksOwner, Platform, BlocksNoMore
<1>5. HasBlocking(registry) <=> \E e \in Range(registry) : BlocksOwner(e)
  BY Blockers
<1>6. HasBlocking(registry)' <=> \E e \in Range(registry)' : BlocksOwner(e)'
  BY DEF HasBlocking, Range
<1> QED
  BY <1>3, <1>4, <1>5, <1>6

\* Enabling the owner after a removal is safe: nobody else blocks it.
LEMMA RestoredSafely ==
  ASSUME TypeOK, BlockedWhileBlocking, IsInjective(registry),
         NEW d \in Dialogs, NEW rec \in DialogType, dlg' = [dlg EXCEPT ![d] = rec],
         BlocksNoMore(d, rec), Range(registry') \subseteq Range(registry),
         \/ win' = win
         \/ win' = Restored(d) /\ (rec.data = "owned" => ~rec.blocking)
  PROVE  win' \in WinType /\ BlockedWhileBlocking'
<1>1. /\ dlg \in [Dialogs -> DialogType] /\ win \in WinType /\ registry \in Seq(Dialogs)
  BY DEF TypeOK, WinType
<1>2. HasBlocking(registry)' => HasBlocking(registry)
  BY BlockersLeft
<1>3. CASE win' = win
  BY <1>1, <1>2, <1>3 DEF BlockedWhileBlocking
<1>4. CASE win' = Restored(d) /\ (rec.data = "owned" => ~rec.blocking)
  <2>1. CASE ~Restores(d)
    <3>1. win' = win
      BY <1>1, <1>4, <2>1 DEF Restored, EnabledAfter, WinType
    <3> QED
      BY <1>3, <3>1
  <2>2. CASE Restores(d)
    <3>1. ~HasBlocking(Without(registry, d))
      BY <2>2 DEF Restores
    <3>2. Range(Without(registry, d)) = Range(registry) \ {d}
      BY <1>1, TakenOut
    <3>3. \A e \in Range(registry) : e # d => ~BlocksOwner(e)
      BY <3>1, <3>2, Blockers
    <3>4. dlg'[d] = rec
      BY <1>1
    <3>5. ~BlocksOwner(d)'
      BY <1>4, <3>4 DEF BlocksOwner, Platform
    <3>6. \A e \in Range(registry) : e # d => (BlocksOwner(e)' => BlocksOwner(e))
      BY BlockersLeft
    <3>7. HasBlocking(registry)' <=> \E e \in Range(registry)' : BlocksOwner(e)'
      BY DEF HasBlocking, Range
    <3>8. ~HasBlocking(registry)'
      BY <3>3, <3>5, <3>6, <3>7
    <3>9. win' \in WinType
      BY <1>1, <1>4, <2>2 DEF Restored, EnabledAfter, WinType
    <3> QED
      BY <3>8, <3>9 DEF BlockedWhileBlocking
  <2> QED
    BY <2>1, <2>2
<1> QED
  BY <1>3, <1>4

\* What a step that changes one dialog's native state leaves behind.
Changed(d, rec) ==
    /\ rec \in DialogType /\ dlg' = [dlg EXCEPT ![d] = rec] /\ BlocksNoMore(d, rec)
    /\ registry' \in Seq(Dialogs) /\ IsInjective(registry') /\ Range(registry') \subseteq Range(registry)
    /\ restoreChain' \in Seq(Dialogs) /\ IsInjective(restoreChain')
    /\ Range(restoreChain') \subseteq Range(restoreChain) \cup {d}
    /\ d \in Range(restoreChain') => rec.restorePending
    /\ win' \in WinType /\ BlockedWhileBlocking' /\ faults' \in 0..MaxFaults

LEMMA ListsAfter ==
  ASSUME TypeOK, NativeLists, NEW d \in Dialogs, NEW rec, Changed(d, rec),
         rec.data = "owned" \/ (d \notin Range(registry') /\ d \notin Range(restoreChain'))
  PROVE  NativeLists'
<1>1. dlg \in [Dialogs -> DialogType] /\ Range(registry) \subseteq Dialogs /\ Range(restoreChain) \subseteq Dialogs
  BY RangeOfSeq DEF TypeOK
<1>2. dlg'[d] = rec /\ \A e \in Dialogs : e # d => dlg'[e] = dlg[e]
  BY <1>1 DEF Changed
<1>3. IsInjective(registry)' /\ IsInjective(restoreChain)'
  BY DEF Changed, IsInjective
<1>4. \A e \in Range(registry)' : e \in Range(registry) /\ (e = d => rec.data = "owned")
  BY DEF Changed, Range
<1>5. \A e \in Range(restoreChain)' : (e # d => e \in Range(restoreChain)) /\ (e = d => rec.data = "owned" /\ rec.restorePending)
  BY DEF Changed, Range
<1> QED
  BY <1>1, <1>2, <1>3, <1>4, <1>5 DEF NativeLists

-----------------------------------------------------------------------------
(* finalizeNative *)

\* A native call that fails is counted, one that does not is free.
LEMMA Faults ==
  ASSUME TypeOK, Fail \/ NoFail
  PROVE  faults' \in 0..MaxFaults
BY ConstantsAssumption DEF TypeOK, Fail, NoFail, MayFail

\* The record of a dialog whose native state is out of every list.
LEMMA Records ==
  ASSUME TypeOK, NEW d \in Dialogs, NEW owner \in {"fresh", "held", "deferred", "freed"}
  PROVE  /\ dlg[d] \in DialogType
         /\ [dlg[d] EXCEPT !.at = owner] \in DialogType
         /\ [Cancelled(d) EXCEPT !.at = owner] \in DialogType
         /\ [[Removed(d) EXCEPT !.restorePending = TRUE] EXCEPT !.at = owner] \in DialogType
         /\ [[Removed(d) EXCEPT !.finalize = TRUE, !.cancel = FALSE] EXCEPT !.at = owner] \in DialogType
         /\ [[Cancelled(d) EXCEPT !.finalize = TRUE, !.cancel = FALSE] EXCEPT !.at = owner] \in DialogType
         /\ [[Removed(d) EXCEPT !.finalize = TRUE, !.cancel = FALSE, !.classHeld = FALSE, !.data = "freed"]
               EXCEPT !.at = owner] \in DialogType
<1>1. PICK r \in DialogType : r = dlg[d]
  BY DEF TypeOK
<1>2. [r EXCEPT !.at = owner] \in DialogType
  BY DEF DialogType
<1>3. PICK c \in DialogType : c = Cancelled(d)
  BY <1>1 DEF Cancelled, DialogType
<1>4. [c EXCEPT !.at = owner] \in DialogType
  BY DEF DialogType
<1>5. PICK m \in DialogType : m = Removed(d)
  BY <1>3 DEF Removed, DialogType
<1>6. [[m EXCEPT !.restorePending = TRUE] EXCEPT !.at = owner] \in DialogType
  BY DEF DialogType
<1>7. [[m EXCEPT !.finalize = TRUE, !.cancel = FALSE] EXCEPT !.at = owner] \in DialogType
  BY DEF DialogType
<1>8. [[c EXCEPT !.finalize = TRUE, !.cancel = FALSE] EXCEPT !.at = owner] \in DialogType
  BY DEF DialogType
<1>9. [[m EXCEPT !.finalize = TRUE, !.cancel = FALSE, !.classHeld = FALSE, !.data = "freed"] EXCEPT !.at = owner] \in DialogType
  BY DEF DialogType
<1> QED
  BY <1>1, <1>2, <1>3, <1>4, <1>5, <1>6, <1>7, <1>8, <1>9

\* A finalisation that keeps native resources: the dialog stays owned, with
\* its class, and a pending restoration is in the chain.
Retained(d, rec, owner) ==
    /\ rec.at = owner /\ rec.data = "owned" /\ rec.hwnd \in {dlg[d].hwnd, "none"}
    /\ rec.classHeld = dlg[d].classHeld /\ (rec.restorePending => ~rec.blocking)

LEMMA Keeps ==
  ASSUME TypeOK, BlockedWhileBlocking, DialogsSound, NativeLists, NEW d \in Dialogs,
         NEW restoreOwner \in BOOLEAN, NEW owner \in {"fresh", "held", "deferred", "freed"},
         FinalizeKeeps(d, restoreOwner, owner)
  PROVE  /\ \E rec : Changed(d, rec) /\ Retained(d, rec, owner)
         /\ classUsers' = classUsers /\ dlg[d].data = "owned"
         /\ ~restoreOwner => d \notin Range(restoreChain')
<1>1. /\ dlg \in [Dialogs -> DialogType] /\ win \in WinType /\ faults \in 0..MaxFaults
      /\ registry \in Seq(Dialogs) /\ restoreChain \in Seq(Dialogs)
      /\ IsInjective(registry) /\ IsInjective(restoreChain)
  BY DEF TypeOK, WinType, NativeLists
<1>2. dlg[d] \in DialogType /\ (dlg[d].restorePending => ~dlg[d].blocking)
  BY <1>1 DEF DialogsSound, RecordSound
<1>3. /\ Without(registry, d) \in Seq(Dialogs) /\ Range(Without(registry, d)) = Range(registry) \ {d}
      /\ IsInjective(Without(registry, d))
      /\ Without(restoreChain, d) \in Seq(Dialogs) /\ IsInjective(Without(restoreChain, d))
      /\ Range(Without(restoreChain, d)) = Range(restoreChain) \ {d}
  BY <1>1, TakenOut
<1>4. Pend(d, restoreOwner) => restoreOwner /\ dlg[d].restorePending
  BY DEF Pend
<1>5. CASE /\ Pend(d, restoreOwner) /\ RestoreCanFail(d) /\ Fail
           /\ Become(d, dlg[d], owner)
           /\ UNCHANGED <<registry, restoreChain, classUsers, win>>
  <2>1. PICK rec : rec = [dlg[d] EXCEPT !.at = owner] /\ rec \in DialogType
    BY Records
  <2>2. /\ rec.at = owner /\ rec.data = dlg[d].data /\ rec.hwnd = dlg[d].hwnd /\ rec.classHeld = dlg[d].classHeld
        /\ rec.blocking = dlg[d].blocking /\ rec.restorePending = dlg[d].restorePending
        /\ rec.finalize = dlg[d].finalize /\ rec.desc = dlg[d].desc
    BY <1>2, <2>1 DEF DialogType
  <2>3. dlg' = [dlg EXCEPT ![d] = rec] /\ registry' = registry /\ restoreChain' = restoreChain /\ win' = win
        /\ classUsers' = classUsers
    BY <1>5, <2>1 DEF Become
  <2>4. dlg[d].data = "owned"
    BY <1>5 DEF RestoreCanFail, Restores, Platform
  <2>5. BlocksNoMore(d, rec)
    BY <2>2 DEF BlocksNoMore
  <2>6. win' \in WinType /\ BlockedWhileBlocking'
    BY <1>1, <2>1, <2>3, <2>5, RestoredSafely
  <2>7. faults' \in 0..MaxFaults
    BY <1>5, Faults
  <2>8. dlg[d].restorePending /\ restoreOwner
    BY <1>4, <1>5
  <2>9. Changed(d, rec)
    BY <1>1, <2>1, <2>2, <2>3, <2>5, <2>6, <2>7, <2>8 DEF Changed
  <2>10. Retained(d, rec, owner)
    BY <1>2, <2>2, <2>4 DEF Retained
  <2> QED
    BY <2>3, <2>4, <2>8, <2>9, <2>10
<1>6. CASE /\ Platform(d) /\ dlg[d].hwnd = "live" /\ Fail
           /\ Become(d, Cancelled(d), owner)
           /\ restoreChain' = Without(restoreChain, d)
           /\ win' = IF Pend(d, restoreOwner) THEN Restored(d) ELSE win
           /\ UNCHANGED <<registry, classUsers>>
  <2>1. PICK rec : rec = [Cancelled(d) EXCEPT !.at = owner] /\ rec \in DialogType
    BY Records
  <2>2. /\ rec.at = owner /\ rec.data = dlg[d].data /\ rec.hwnd = dlg[d].hwnd /\ rec.classHeld = dlg[d].classHeld
        /\ rec.blocking = dlg[d].blocking /\ rec.restorePending = FALSE
        /\ rec.finalize = dlg[d].finalize /\ rec.desc = dlg[d].desc
    BY <1>2, <2>1 DEF DialogType, Cancelled
  <2>3. dlg' = [dlg EXCEPT ![d] = rec] /\ registry' = registry /\ classUsers' = classUsers
    BY <1>6, <2>1 DEF Become
  <2>4. dlg[d].data = "owned"
    BY <1>6 DEF Platform
  <2>5. BlocksNoMore(d, rec)
    BY <2>2 DEF BlocksNoMore
  <2>6. \/ win' = win
        \/ win' = Restored(d) /\ (rec.data = "owned" => ~rec.blocking)
    BY <1>2, <1>4, <1>6, <2>2
  <2>7. win' \in WinType /\ BlockedWhileBlocking'
    BY <1>1, <2>1, <2>3, <2>5, <2>6, RestoredSafely
  <2>8. faults' \in 0..MaxFaults
    BY <1>6, Faults
  <2>9. Changed(d, rec)
    BY <1>1, <1>3, <1>6, <2>1, <2>3, <2>5, <2>7, <2>8 DEF Changed
  <2>10. Retained(d, rec, owner)
    BY <2>2, <2>4 DEF Retained
  <2>11. d \notin Range(restoreChain')
    BY <1>3, <1>6
  <2> QED
    BY <2>3, <2>4, <2>9, <2>10, <2>11
<1>7. CASE /\ Platform(d) /\ Back(d, restoreOwner) /\ RestoreCanFail(d) /\ Fail
           /\ Become(d, [Removed(d) EXCEPT !.restorePending = TRUE], owner)
           /\ restoreChain' = <<d>> \o Without(restoreChain, d)
           /\ registry' = Without(registry, d)
           /\ UNCHANGED <<classUsers, win>>
  <2>1. PICK rec : rec = [[Removed(d) EXCEPT !.restorePending = TRUE] EXCEPT !.at = owner] /\ rec \in DialogType
    BY Records
  <2>2. /\ rec.at = owner /\ rec.data = dlg[d].data /\ rec.hwnd = "none" /\ rec.classHeld = dlg[d].classHeld
        /\ rec.blocking = FALSE /\ rec.restorePending = TRUE
    BY <1>2, <2>1 DEF DialogType, Removed, Cancelled
  <2>3. dlg' = [dlg EXCEPT ![d] = rec] /\ classUsers' = classUsers /\ win' = win
    BY <1>7, <2>1 DEF Become
  <2>4. dlg[d].data = "owned" /\ restoreOwner
    BY <1>7 DEF Platform, Back
  <2>5. BlocksNoMore(d, rec)
    BY <2>2 DEF BlocksNoMore
  <2>6. Range(registry') \subseteq Range(registry) /\ IsInjective(registry') /\ registry' \in Seq(Dialogs)
    BY <1>3, <1>7
  <2>7. win' \in WinType /\ BlockedWhileBlocking'
    BY <1>1, <2>1, <2>3, <2>5, <2>6, RestoredSafely
  <2>8. faults' \in 0..MaxFaults
    BY <1>7, Faults
  <2>9. /\ restoreChain' \in Seq(Dialogs) /\ IsInjective(restoreChain')
        /\ Range(restoreChain') \subseteq Range(restoreChain) \cup {d}
    BY <1>3, <1>7, Pushed
  <2>10. Changed(d, rec)
    BY <2>1, <2>2, <2>3, <2>5, <2>6, <2>7, <2>8, <2>9 DEF Changed
  <2>11. Retained(d, rec, owner)
    BY <2>2, <2>4 DEF Retained
  <2> QED
    BY <2>3, <2>4, <2>10, <2>11
<1>8. CASE /\ Platform(d) /\ dlg[d].classHeld /\ classUsers = 1 /\ Fail
           /\ Become(d, [Removed(d) EXCEPT !.finalize = TRUE, !.cancel = FALSE], owner)
           /\ restoreChain' = Without(restoreChain, d)
           /\ registry' = Without(registry, d)
           /\ win' = IF Pend(d, restoreOwner) \/ Back(d, restoreOwner) THEN Restored(d) ELSE win
           /\ UNCHANGED classUsers
  <2>1. PICK rec : rec = [[Removed(d) EXCEPT !.finalize = TRUE, !.cancel = FALSE] EXCEPT !.at = owner] /\ rec \in DialogType
    BY Records
  <2>2. /\ rec.at = owner /\ rec.data = dlg[d].data /\ rec.hwnd = "none" /\ rec.classHeld = dlg[d].classHeld
        /\ rec.blocking = FALSE /\ rec.restorePending = FALSE
    BY <1>2, <2>1 DEF DialogType, Removed, Cancelled
  <2>3. dlg' = [dlg EXCEPT ![d] = rec] /\ classUsers' = classUsers
    BY <1>8, <2>1 DEF Become
  <2>4. dlg[d].data = "owned"
    BY <1>8 DEF Platform
  <2>5. BlocksNoMore(d, rec)
    BY <2>2 DEF BlocksNoMore
  <2>6. Range(registry') \subseteq Range(registry) /\ IsInjective(registry') /\ registry' \in Seq(Dialogs)
    BY <1>3, <1>8
  <2>7. \/ win' = win
        \/ win' = Restored(d) /\ (rec.data = "owned" => ~rec.blocking)
    BY <1>8, <2>2
  <2>8. win' \in WinType /\ BlockedWhileBlocking'
    BY <1>1, <2>1, <2>3, <2>5, <2>6, <2>7, RestoredSafely
  <2>9. faults' \in 0..MaxFaults
    BY <1>8, Faults
  <2>10. Changed(d, rec)
    BY <1>3, <1>8, <2>1, <2>3, <2>5, <2>6, <2>8, <2>9 DEF Changed
  <2>11. Retained(d, rec, owner)
    BY <2>2, <2>4 DEF Retained
  <2>12. d \notin Range(restoreChain')
    BY <1>3, <1>8
  <2> QED
    BY <2>3, <2>4, <2>10, <2>11, <2>12
<1> QED
  BY <1>5, <1>6, <1>7, <1>8 DEF FinalizeKeeps

\* A finalisation that closes: the native data is gone, and with it the window,
\* the class reference and every list entry.
Closed(d, rec, owner) ==
    /\ rec.at = owner /\ rec.data # "owned" /\ (rec.restorePending => ~rec.blocking)
    /\ dlg[d].data = "owned" => /\ rec.hwnd = "none" /\ ~rec.classHeld /\ ~rec.blocking /\ rec.data = "freed"
    /\ dlg[d].data # "owned" => /\ rec.hwnd = dlg[d].hwnd /\ rec.classHeld = dlg[d].classHeld
                                /\ rec.blocking = dlg[d].blocking /\ rec.data = dlg[d].data
    /\ d \notin Range(registry') /\ d \notin Range(restoreChain')
    /\ classUsers' = classUsers - (IF dlg[d].classHeld /\ ~rec.classHeld THEN 1 ELSE 0)

LEMMA Closes ==
  ASSUME TypeOK, BlockedWhileBlocking, DialogsSound, NativeLists, NEW d \in Dialogs,
         NEW restoreOwner \in BOOLEAN, NEW owner \in {"fresh", "held", "deferred", "freed"},
         FinalizeCloses(d, restoreOwner, owner)
  PROVE  \E rec : Changed(d, rec) /\ Closed(d, rec, owner)
<1>1. /\ dlg \in [Dialogs -> DialogType] /\ win \in WinType /\ faults \in 0..MaxFaults /\ classUsers \in Nat
      /\ registry \in Seq(Dialogs) /\ restoreChain \in Seq(Dialogs)
      /\ IsInjective(registry) /\ IsInjective(restoreChain)
  BY DEF TypeOK, WinType, NativeLists
<1>2. dlg[d] \in DialogType
  BY <1>1
<1>3. /\ Without(registry, d) \in Seq(Dialogs) /\ Range(Without(registry, d)) = Range(registry) \ {d}
      /\ IsInjective(Without(registry, d))
      /\ Without(restoreChain, d) \in Seq(Dialogs) /\ IsInjective(Without(restoreChain, d))
      /\ Range(Without(restoreChain, d)) = Range(restoreChain) \ {d}
  BY <1>1, TakenOut
<1>4. restoreChain' = Without(restoreChain, d) /\ faults' \in 0..MaxFaults
  BY Faults DEF FinalizeCloses
<1>5. CASE /\ ~Platform(d)
           /\ Become(d, [Cancelled(d) EXCEPT !.finalize = TRUE, !.cancel = FALSE], owner)
           /\ UNCHANGED <<registry, classUsers, win>>
  <2>1. PICK rec : rec = [[Cancelled(d) EXCEPT !.finalize = TRUE, !.cancel = FALSE] EXCEPT !.at = owner] /\ rec \in DialogType
    BY Records
  <2>2. /\ rec.at = owner /\ rec.data = dlg[d].data /\ rec.hwnd = dlg[d].hwnd /\ rec.classHeld = dlg[d].classHeld
        /\ rec.blocking = dlg[d].blocking /\ rec.restorePending = FALSE
    BY <1>2, <2>1 DEF DialogType, Cancelled
  <2>3. dlg' = [dlg EXCEPT ![d] = rec] /\ classUsers' = classUsers /\ registry' = registry /\ win' = win
    BY <1>5, <2>1 DEF Become
  <2>4. dlg[d].data # "owned"
    BY <1>5 DEF Platform
  <2>5. BlocksNoMore(d, rec)
    BY <2>2, <2>4 DEF BlocksNoMore
  <2>6. win' \in WinType /\ BlockedWhileBlocking'
    BY <1>1, <2>1, <2>3, <2>5, RestoredSafely
  <2>7. Changed(d, rec)
    BY <1>1, <1>3, <1>4, <2>1, <2>3, <2>5, <2>6 DEF Changed
  <2>8. d \notin Range(registry)
    BY <2>4 DEF NativeLists
  <2>9. classUsers' = classUsers - (IF dlg[d].classHeld /\ ~rec.classHeld THEN 1 ELSE 0)
    BY <1>1, <2>2, <2>3
  <2>10. Closed(d, rec, owner)
    BY <1>3, <1>4, <2>2, <2>3, <2>4, <2>8, <2>9 DEF Closed
  <2> QED
    BY <2>7, <2>10
<1>6. CASE /\ Platform(d)
           /\ Become(d, [Removed(d) EXCEPT !.finalize = TRUE, !.cancel = FALSE,
                                           !.classHeld = FALSE, !.data = "freed"], owner)
           /\ registry' = Without(registry, d)
           /\ win' = IF Pend(d, restoreOwner) \/ Back(d, restoreOwner) THEN Restored(d) ELSE win
           /\ classUsers' = classUsers - (IF dlg[d].classHeld THEN 1 ELSE 0)
  <2>1. PICK rec : /\ rec = [[Removed(d) EXCEPT !.finalize = TRUE, !.cancel = FALSE, !.classHeld = FALSE, !.data = "freed"]
                                EXCEPT !.at = owner]
                   /\ rec \in DialogType
    BY Records
  <2>2. /\ rec.at = owner /\ rec.data = "freed" /\ rec.hwnd = "none" /\ rec.classHeld = FALSE
        /\ rec.blocking = FALSE /\ rec.restorePending = FALSE
    <3>1. PICK m : m = Removed(d)
      OBVIOUS
    <3>2. m \in DialogType /\ m.hwnd = "none" /\ m.blocking = FALSE /\ m.restorePending = FALSE
      BY <1>2, <3>1 DEF DialogType, Removed, Cancelled
    <3>3. rec = [[m EXCEPT !.finalize = TRUE, !.cancel = FALSE, !.classHeld = FALSE, !.data = "freed"] EXCEPT !.at = owner]
      BY <2>1, <3>1
    <3> QED
      BY <3>2, <3>3 DEF DialogType
  <2>3. dlg' = [dlg EXCEPT ![d] = rec]
    BY <1>6, <2>1 DEF Become
  <2>4. dlg[d].data = "owned"
    BY <1>6 DEF Platform
  <2>5. BlocksNoMore(d, rec)
    BY <2>2 DEF BlocksNoMore
  <2>6. Range(registry') = Range(registry) \ {d} /\ IsInjective(registry') /\ registry' \in Seq(Dialogs)
    BY <1>3, <1>6
  <2>7. \/ win' = win
        \/ win' = Restored(d) /\ (rec.data = "owned" => ~rec.blocking)
    BY <1>6, <2>2
  <2>8. win' \in WinType /\ BlockedWhileBlocking'
    BY <1>1, <2>1, <2>3, <2>5, <2>6, <2>7, RestoredSafely
  <2>9. Changed(d, rec)
    BY <1>3, <1>4, <2>1, <2>3, <2>5, <2>6, <2>8 DEF Changed
  <2>10. classUsers' = classUsers - (IF dlg[d].classHeld /\ ~rec.classHeld THEN 1 ELSE 0)
    BY <1>6, <2>2
  <2>11. Closed(d, rec, owner)
    BY <1>3, <1>4, <2>2, <2>4, <2>6, <2>10 DEF Closed
  <2> QED
    BY <2>9, <2>11
<1> QED
  BY <1>5, <1>6 DEF FinalizeCloses

\* A state without native data is released.
LEMMA Releases ==
  ASSUME TypeOK, BlockedWhileBlocking, DialogsSound, NativeLists, NEW d \in Dialogs, Release(d)
  PROVE  \E rec : Changed(d, rec) /\ Closed(d, rec, "freed")
<1>1. /\ dlg \in [Dialogs -> DialogType] /\ win \in WinType /\ faults \in 0..MaxFaults /\ classUsers \in Nat
      /\ registry \in Seq(Dialogs) /\ restoreChain \in Seq(Dialogs)
      /\ IsInjective(registry) /\ IsInjective(restoreChain)
  BY DEF TypeOK, WinType, NativeLists
<1>2. dlg[d] \in DialogType /\ (dlg[d].restorePending => ~dlg[d].blocking)
  BY <1>1 DEF DialogsSound, RecordSound
<1>3. /\ dlg[d].data # "owned" /\ dlg' = [dlg EXCEPT ![d].at = "freed"]
      /\ registry' = registry /\ restoreChain' = restoreChain /\ classUsers' = classUsers
      /\ win' = win /\ faults' = faults
  BY DEF Release, Platform
<1>4. PICK rec \in DialogType : rec = [dlg[d] EXCEPT !.at = "freed"]
  BY Records
<1>5. dlg' = [dlg EXCEPT ![d] = rec]
  BY <1>1, <1>3, <1>4
<1>6. /\ rec.at = "freed" /\ rec.data = dlg[d].data /\ rec.hwnd = dlg[d].hwnd /\ rec.classHeld = dlg[d].classHeld
      /\ rec.blocking = dlg[d].blocking /\ rec.restorePending = dlg[d].restorePending
  BY <1>2, <1>4 DEF DialogType
<1>7. BlocksNoMore(d, rec)
  BY <1>3, <1>6 DEF BlocksNoMore
<1>8. win' \in WinType /\ BlockedWhileBlocking'
  BY <1>1, <1>3, <1>5, <1>7, RestoredSafely
<1>9. d \notin Range(registry) /\ d \notin Range(restoreChain)
  BY <1>3 DEF NativeLists
<1>10. Changed(d, rec)
  BY <1>1, <1>3, <1>4, <1>5, <1>7, <1>8, <1>9 DEF Changed
<1>11. classUsers' = classUsers - (IF dlg[d].classHeld /\ ~rec.classHeld THEN 1 ELSE 0)
  BY <1>1, <1>3, <1>6
<1>12. Closed(d, rec, "freed")
  BY <1>2, <1>3, <1>6, <1>9, <1>11 DEF Closed
<1> QED
  BY <1>10, <1>12

\* Every other dialog and list survives a finalisation that keeps its resources.
LEMMA AfterKept ==
  ASSUME ProgressInv, NEW d \in Dialogs, NEW rec, NEW owner \in {"held", "deferred"},
         Changed(d, rec), Retained(d, rec, owner), dlg[d].data = "owned",
         classUsers' = classUsers, retained' = retained, PhaseKept, fpc' = fpc,
         fpc[d] # "none" => owner = "held"
  PROVE  DialogsSound' /\ NativeLists' /\ ClassCounted'
<1>1. TypeOK /\ DialogsSound /\ NativeLists /\ ClassCounted
  BY DEF ProgressInv
<1>2. retained \in Nat /\ classUsers \in Nat /\ dlg[d] \in DialogType
  BY <1>1 DEF TypeOK
<1>3. rec \in DialogType /\ dlg' = [dlg EXCEPT ![d] = rec]
  BY DEF Changed
<1>4. RecordSound(dlg[d], fpc[d], pc, retained)
  BY <1>1 DEF DialogsSound
<1>5. RecordSound(dlg[d], fpc[d], pc', retained')
  BY <1>1, <1>2, <1>4, RecordKept
<1>6. RecordSound(rec, fpc'[d], pc', retained')
  BY <1>5 DEF RecordSound, Retained
<1>7. DialogsSound'
  <2>1. retained' \in Nat /\ retained' >= retained /\ \A e \in Dialogs : e # d => fpc'[e] = fpc[e]
    BY <1>2
  <2>2. TypeOK /\ DialogsSound
    BY <1>1
  <2> QED
    BY <1>3, <1>6, <2>1, <2>2, OthersSound
<1>8. NativeLists'
  BY <1>1, ListsAfter DEF Retained
<1>9. ClassCounted'
  <2>1. rec.classHeld = dlg[d].classHeld
    BY DEF Retained
  <2>2. 0 = 0 + (IF rec.classHeld THEN 1 ELSE 0) - (IF dlg[d].classHeld THEN 1 ELSE 0)
    BY <2>1
  <2>3. retained' = retained + 0 /\ classUsers' = classUsers + 0
    BY <1>2
  <2>4. 0 \in Nat /\ 0 \in Int /\ TypeOK /\ ClassCounted
    BY <1>1
  <2> QED
    BY <1>3, <2>2, <2>3, <2>4, ClassMoves
<1> QED
  BY <1>7, <1>8, <1>9

\* Every other dialog and list survives a finalisation that closes.
LEMMA AfterClosed ==
  ASSUME ProgressInv, NEW d \in Dialogs, NEW rec, NEW owner,
         Changed(d, rec), Closed(d, rec, owner), retained' = retained, PhaseKept, fpc' = fpc,
         fpc[d] # "none" => owner = "held"
  PROVE  DialogsSound' /\ NativeLists' /\ ClassCounted' /\ classUsers' \in Nat
<1>1. TypeOK /\ DialogsSound /\ NativeLists /\ ClassCounted
  BY DEF ProgressInv
<1>2. retained \in Nat /\ classUsers \in Nat /\ dlg[d] \in DialogType
  BY <1>1 DEF TypeOK
<1>3. rec \in DialogType /\ dlg' = [dlg EXCEPT ![d] = rec]
  BY DEF Changed
<1>4. RecordSound(dlg[d], fpc[d], pc, retained)
  BY <1>1 DEF DialogsSound
<1>5. RecordSound(dlg[d], fpc[d], pc', retained')
  BY <1>1, <1>2, <1>4, RecordKept
<1>6. RecordSound(rec, fpc'[d], pc', retained')
  <2>1. CASE dlg[d].data = "owned"
    BY <1>5, <2>1 DEF RecordSound, Closed
  <2>2. CASE dlg[d].data # "owned"
    BY <1>5, <2>2 DEF RecordSound, Closed
  <2> QED
    BY <2>1, <2>2
<1>7. DialogsSound'
  <2>1. retained' \in Nat /\ retained' >= retained /\ \A e \in Dialogs : e # d => fpc'[e] = fpc[e]
    BY <1>2
  <2>2. TypeOK /\ DialogsSound
    BY <1>1
  <2> QED
    BY <1>3, <1>6, <2>1, <2>2, OthersSound
<1>8. NativeLists'
  BY <1>1, ListsAfter DEF Closed
<1>9. ClassCounted' /\ classUsers' \in Nat
  <2>1. /\ rec.classHeld \in BOOLEAN /\ dlg[d].classHeld \in BOOLEAN /\ (rec.classHeld => dlg[d].classHeld)
        /\ classUsers' = classUsers - (IF dlg[d].classHeld /\ ~rec.classHeld THEN 1 ELSE 0)
    BY <1>2, <1>3 DEF DialogType, Closed
  <2>2. PICK n \in Int : n = 0 + (IF rec.classHeld THEN 1 ELSE 0) - (IF dlg[d].classHeld THEN 1 ELSE 0)
    OBVIOUS
  <2>3. retained' = retained + 0 /\ classUsers' = classUsers + n
    BY <1>2, <2>1, <2>2
  <2> QED
    BY <1>1, <1>3, <2>2, <2>3, ClassMoves
<1> QED
  BY <1>7, <1>8, <1>9

\* The chains of cleanup, after one dialog's change.
LEMMA CleanupAfter ==
  ASSUME TypeOK, CleanupLists, NEW d \in Dialogs, NEW rec \in DialogType, dlg' = [dlg EXCEPT ![d] = rec],
         deferred' \in Seq(Dialogs), cleanup' \in Seq(Dialogs),
         IsInjective(deferred'), IsInjective(cleanup'),
         \A e \in Range(deferred') : e \notin Range(cleanup'),
         \A e \in Range(deferred') \cup Range(cleanup') :
            (e # d => e \in Range(deferred) \cup Range(cleanup)) /\ (e = d => rec.at = "deferred")
  PROVE  CleanupLists'
<1>1. dlg \in [Dialogs -> DialogType] /\ Range(deferred) \subseteq Dialogs /\ Range(cleanup) \subseteq Dialogs
  BY RangeOfSeq DEF TypeOK
<1>2. dlg'[d] = rec /\ \A e \in Dialogs : e # d => dlg'[e] = dlg[e]
  BY <1>1
<1>3. IsInjective(deferred)' /\ IsInjective(cleanup)'
  BY DEF IsInjective
<1>4. \A e \in Range(deferred') \cup Range(cleanup') : dlg'[e].at = "deferred"
  BY <1>1, <1>2 DEF CleanupLists
<1> QED
  BY <1>3, <1>4 DEF CleanupLists, Range

\* The chains of cleanup stay, and the dialog is in none or stays deferred.
LEMMA CleanupSame ==
  ASSUME TypeOK, CleanupLists, NEW d \in Dialogs, NEW rec \in DialogType, dlg' = [dlg EXCEPT ![d] = rec],
         deferred' = deferred, cleanup' = cleanup, rec.at = "deferred" \/ dlg[d].at # "deferred"
  PROVE  CleanupLists'
<1>1. dlg \in [Dialogs -> DialogType] /\ Range(deferred) \subseteq Dialogs /\ Range(cleanup) \subseteq Dialogs
  BY RangeOfSeq DEF TypeOK
<1>2. dlg'[d] = rec /\ \A e \in Dialogs : e # d => dlg'[e] = dlg[e]
  BY <1>1
<1>3. \A e \in Range(deferred) \cup Range(cleanup) : dlg'[e].at = "deferred"
  BY <1>1, <1>2 DEF CleanupLists
<1> QED
  BY <1>3 DEF CleanupLists, Range, IsInjective

\* A dialog held by its object is in no chain of cleanup.
LEMMA HeldIsOut ==
  ASSUME CleanupLists, NEW d, dlg[d].at # "deferred"
  PROVE  d \notin Range(deferred) /\ d \notin Range(cleanup)
BY DEF CleanupLists

\* The dialogs and the Window keep their types through a change.
LEMMA ChangedTyped ==
  ASSUME TypeOK, NEW d \in Dialogs, NEW rec, Changed(d, rec)
  PROVE  /\ dlg' \in [Dialogs -> DialogType] /\ registry' \in Seq(Dialogs) /\ restoreChain' \in Seq(Dialogs)
         /\ win' \in [open : BOOLEAN, enabled : BOOLEAN, interaction : BOOLEAN, destroying : BOOLEAN]
         /\ faults' \in 0..MaxFaults
BY DEF TypeOK, Changed, WinType

-----------------------------------------------------------------------------
(* The owner thread's operations on dialogs *)

\* A failed open is rolled back, or handed to the deferred chain.
LEMMA RollbackOpenInv ==
  ASSUME ProgressInv, RollbackOpen
  PROVE  ProgressInv'
<1>1. TypeOK /\ BlockedWhileBlocking /\ DialogsSound /\ NativeLists /\ CleanupLists /\ ThreadSound
  BY DEF ProgressInv
<1>2. /\ pc = "rollback" /\ cleanup = <<>> /\ cur \in Dialogs /\ fpc[cur] = "none"
      /\ dlg[cur].at = "held" /\ dlg[cur].data = "owned"
      /\ UNCHANGED <<cleanup, retained, posted, idx, fpc, toggles>>
  BY <1>1 DEF RollbackOpen, ThreadSound, Leaving
<1>3. cur \notin Range(deferred) /\ cur \notin Range(cleanup) /\ dlg[cur] \in DialogType
  BY <1>1, <1>2, HeldIsOut DEF TypeOK
<1>4. /\ deferred \in Seq(Dialogs) /\ cleanup \in Seq(Dialogs) /\ IsInjective(deferred) /\ IsInjective(cleanup)
      /\ \A e \in Range(deferred) : e \notin Range(cleanup)
  BY <1>1 DEF TypeOK, CleanupLists
<1>5. CASE /\ FinalizeCloses(cur, TRUE, "freed")
           /\ pc' = "idle" /\ cur' = NoDialog /\ tries' = 0
           /\ UNCHANGED deferred
  <2>1. PICK rec : Changed(cur, rec) /\ Closed(cur, rec, "freed")
    BY <1>1, <1>2, <1>5, Closes
  <2>2. PhaseKept
    BY <1>2, <1>5 DEF PhaseKept, Phases, Leaving
  <2>3. DialogsSound' /\ NativeLists' /\ ClassCounted' /\ classUsers' \in Nat
    BY <1>2, <2>1, <2>2, AfterClosed
  <2>4. CleanupLists'
    BY <1>1, <1>2, <1>3, <1>5, <2>1, CleanupSame DEF Changed
  <2>5. ThreadSound'
    BY <1>2, <1>5 DEF ThreadSound, Leaving
  <2>6. TypeOK'
    BY <1>1, <1>2, <1>5, <2>1, <2>3, ChangedTyped DEF TypeOK
  <2> QED
    BY <2>1, <2>3, <2>4, <2>5, <2>6 DEF ProgressInv, Changed
<1>6. CASE /\ tries > 1
           /\ FinalizeKeeps(cur, TRUE, "held")
           /\ tries' = tries - 1
           /\ UNCHANGED <<deferred, pc, cur>>
  <2>1. PICK rec : Changed(cur, rec) /\ Retained(cur, rec, "held")
    BY <1>1, <1>2, <1>6, Keeps
  <2>2. PhaseKept
    BY <1>2, <1>6 DEF PhaseKept, Phases, Leaving
  <2>3. classUsers' = classUsers
    BY <1>1, <1>2, <1>6, Keeps
  <2>4. DialogsSound' /\ NativeLists' /\ ClassCounted'
    BY <1>2, <2>1, <2>2, <2>3, AfterKept
  <2>5. CleanupLists'
    BY <1>1, <1>2, <1>3, <1>6, <2>1, CleanupSame DEF Changed
  <2>6. dlg'[cur] = rec
    BY <1>1, <1>2, <2>1 DEF Changed, TypeOK
  <2>7. ThreadSound'
    BY <1>2, <1>6, <2>1, <2>6 DEF ThreadSound, Leaving, Retained
  <2>8. TypeOK'
    BY <1>1, <1>2, <1>6, <2>1, <2>3, ChangedTyped DEF TypeOK
  <2> QED
    BY <2>1, <2>4, <2>5, <2>7, <2>8 DEF ProgressInv, Changed
<1>7. CASE /\ tries = 1
           /\ FinalizeKeeps(cur, TRUE, "deferred")
           /\ deferred' = <<cur>> \o deferred
           /\ pc' = "idle" /\ cur' = NoDialog /\ tries' = 0
  <2>1. PICK rec : Changed(cur, rec) /\ Retained(cur, rec, "deferred")
    BY <1>1, <1>2, <1>7, Keeps
  <2>2. PhaseKept
    BY <1>2, <1>7 DEF PhaseKept, Phases, Leaving
  <2>3. classUsers' = classUsers
    BY <1>1, <1>2, <1>7, Keeps
  <2>4. DialogsSound' /\ NativeLists' /\ ClassCounted'
    BY <1>2, <2>1, <2>2, <2>3, AfterKept
  <2>5. deferred' \in Seq(Dialogs) /\ Range(deferred') = Range(deferred) \cup {cur} /\ IsInjective(deferred')
    BY <1>2, <1>3, <1>4, <1>7, Pushed
  <2>6. CleanupLists'
    BY <1>1, <1>2, <1>3, <1>4, <2>1, <2>5, CleanupAfter DEF Changed, Retained
  <2>7. ThreadSound'
    BY <1>2, <1>7 DEF ThreadSound, Leaving
  <2>8. TypeOK'
    BY <1>1, <1>2, <1>7, <2>1, <2>3, <2>5, ChangedTyped DEF TypeOK
  <2> QED
    BY <2>1, <2>4, <2>6, <2>7, <2>8 DEF ProgressInv, Changed
<1> QED
  BY <1>5, <1>6, <1>7 DEF RollbackOpen

\* Everything an open has built, wherever it stops.
LEMMA Opened ==
  ASSUME ProgressInv, NEW d \in Dialogs, NEW desc \in Descriptions, NEW point \in OpenPoints \cup {"done"},
         pc = "idle", dlg[d].at = "fresh", PhaseKept, pc' \notin Leaving,
         dlg' = [dlg EXCEPT ![d] = Partial(d, desc, point)],
         registry' = IF Partial(d, desc, point).registered THEN Append(registry, d) ELSE registry,
         classUsers' = classUsers + 1,
         win' = IF Partial(d, desc, point).blocking THEN [win EXCEPT !.enabled = FALSE] ELSE win,
         UNCHANGED <<restoreChain, deferred, cleanup, retained, fpc>>
  PROVE  /\ DialogsSound' /\ NativeLists' /\ CleanupLists' /\ ClassCounted' /\ BlockedWhileBlocking'
         /\ dlg' \in [Dialogs -> DialogType] /\ registry' \in Seq(Dialogs) /\ classUsers' \in Nat /\ win' \in WinType
         /\ dlg'[d].at = "held" /\ dlg'[d].data = "owned" /\ fpc[d] = "none"
<1>1. TypeOK /\ BlockedWhileBlocking /\ DialogsSound /\ NativeLists /\ CleanupLists /\ ClassCounted
  BY DEF ProgressInv
<1>2. /\ dlg \in [Dialogs -> DialogType] /\ win \in WinType /\ classUsers \in Nat /\ retained \in Nat
      /\ registry \in Seq(Dialogs) /\ restoreChain \in Seq(Dialogs) /\ fpc \in [Dialogs -> {"none", "defer", "deref", "lock", "fallback"}]
  BY <1>1 DEF TypeOK, WinType
<1>3. RecordSound(dlg[d], fpc[d], pc, retained)
  BY <1>1 DEF DialogsSound
<1>4. dlg[d].data # "owned" /\ dlg[d].classHeld = FALSE /\ fpc[d] = "none"
  BY <1>2, <1>3 DEF RecordSound, Leaving, DialogType
<1>5. d \notin Range(registry) /\ d \notin Range(restoreChain) /\ d \notin Range(deferred) /\ d \notin Range(cleanup)
  BY <1>1, <1>4, HeldIsOut DEF NativeLists
<1>6. PICK rec : rec = Partial(d, desc, point)
  OBVIOUS
<1>7. desc \in [owned : BOOLEAN, blocks : BOOLEAN, cancelable : BOOLEAN]
  BY ConstantsAssumption
<1>8. /\ rec \in DialogType /\ rec.at = "held" /\ rec.data = "owned" /\ rec.classHeld = TRUE /\ rec.desc = desc
      /\ rec.hwnd \in {"none", "live"} /\ rec.restorePending = FALSE
      /\ rec.blocking => desc.owned /\ desc.blocks
  <2>1. PICK f : f = Fresh /\ f \in DialogType /\ f.restorePending = FALSE
    <3>1. PICK none \in [owned : BOOLEAN, blocks : BOOLEAN, cancelable : BOOLEAN] :
            none = [owned |-> FALSE, blocks |-> FALSE, cancelable |-> FALSE]
      OBVIOUS
    <3>2. PICK f : f = [at |-> "fresh", data |-> "none", hwnd |-> "none",
                        classHeld |-> FALSE, registered |-> FALSE, blocking |-> FALSE,
                        finalize |-> FALSE, restorePending |-> FALSE, cancel |-> FALSE, desc |-> none]
      OBVIOUS
    <3>3. f = Fresh
      BY <3>1, <3>2 DEF Fresh
    <3>4. f \in DialogType
      BY <3>1, <3>2 DEF DialogType
    <3>5. f.restorePending = FALSE
      BY <3>2
    <3> QED
      BY <3>3, <3>4, <3>5
  <2>2. PICK h \in {"none", "live"}, g \in BOOLEAN, b \in BOOLEAN :
          /\ rec = [f EXCEPT !.at = "held", !.data = "owned", !.classHeld = TRUE, !.desc = desc,
                       !.hwnd = h, !.registered = g, !.blocking = b]
          /\ b => desc.owned /\ desc.blocks
    <3>1. PICK h, g, b : /\ h = (IF point = "create" THEN "none" ELSE "live")
                         /\ g = (point \in {"controls", "configure", "show", "done"})
                         /\ b = (point \in {"show", "done"} /\ desc.owned /\ desc.blocks)
      OBVIOUS
    <3>2. rec = [f EXCEPT !.at = "held", !.data = "owned", !.classHeld = TRUE, !.desc = desc,
                   !.hwnd = h, !.registered = g, !.blocking = b]
      BY <1>6, <2>1, <3>1 DEF Partial
    <3>3. h \in {"none", "live"} /\ g \in BOOLEAN /\ b \in BOOLEAN /\ (b => desc.owned /\ desc.blocks)
      BY <1>7, <3>1
    <3> QED
      BY <3>2, <3>3
  <2>3. rec \in DialogType
    BY <1>7, <2>1, <2>2 DEF DialogType
  <2>4. /\ DOMAIN f = {"at", "data", "hwnd", "classHeld", "registered", "blocking", "finalize", "restorePending", "cancel", "desc"}
    BY <2>1 DEF DialogType
  <2>5. rec.at = "held" /\ rec.data = "owned" /\ rec.classHeld = TRUE
    BY <2>2, <2>4
  <2>6. rec.desc = desc /\ rec.restorePending = FALSE
    BY <2>1, <2>2, <2>4
  <2>7. rec.hwnd \in {"none", "live"} /\ (rec.blocking => desc.owned /\ desc.blocks)
    BY <2>2, <2>4
  <2> QED
    BY <2>3, <2>5, <2>6, <2>7
<1>9. dlg' = [dlg EXCEPT ![d] = rec] /\ dlg'[d] = rec /\ (\A e \in Dialogs : e # d => dlg'[e] = dlg[e])
  BY <1>2, <1>6
<1>10. DialogsSound'
  <2>1. RecordSound(rec, fpc'[d], pc', retained')
    BY <1>4, <1>8 DEF RecordSound, Leaving
  <2>2. retained' \in Nat /\ retained' >= retained /\ \A e \in Dialogs : e # d => fpc'[e] = fpc[e]
    BY <1>2
  <2> QED
    BY <1>1, <1>8, <1>9, <2>1, <2>2, OthersSound
<1>11. ClassCounted' /\ classUsers' \in Nat
  <2>1. 1 = 0 + (IF rec.classHeld THEN 1 ELSE 0) - (IF dlg[d].classHeld THEN 1 ELSE 0)
    BY <1>4, <1>8
  <2>2. retained' = retained + 0 /\ 0 \in Nat /\ 1 \in Int
    BY <1>2
  <2> QED
    BY <1>1, <1>8, <1>9, <2>1, <2>2, ClassMoves
<1>12. CleanupLists'
  BY <1>1, <1>8, <1>9, CleanupSame
<1>13. /\ registry' \in Seq(Dialogs) /\ IsInjective(registry') /\ Range(registry') \subseteq Range(registry) \cup {d}
  <2>1. IsInjective(registry)
    BY <1>1 DEF NativeLists
  <2>2. CASE rec.registered
    BY <1>2, <1>5, <1>6, <2>1, <2>2, Appended
  <2>3. CASE ~rec.registered
    BY <1>2, <1>6, <2>1, <2>3
  <2> QED
    BY <2>2, <2>3
<1>14. Range(registry) \subseteq Dialogs /\ Range(restoreChain) \subseteq Dialogs
  BY <1>2, RangeOfSeq
<1>15. NativeLists'
  <2>1. \A e \in Range(registry') \cup Range(restoreChain') : dlg'[e].data = "owned"
    BY <1>1, <1>8, <1>9, <1>13, <1>14 DEF NativeLists
  <2>2. \A e \in Range(restoreChain') : dlg'[e].restorePending
    BY <1>1, <1>5, <1>9, <1>14 DEF NativeLists
  <2>3. IsInjective(registry)' /\ IsInjective(restoreChain)'
    BY <1>1, <1>13 DEF NativeLists, IsInjective
  <2> QED
    BY <2>1, <2>2, <2>3 DEF NativeLists, Range
<1>16. win' \in WinType
  BY <1>2 DEF WinType
<1>17. BlockedWhileBlocking'
  <2>1. CASE rec.blocking
    BY <1>2, <1>6, <2>1 DEF WinType, BlockedWhileBlocking
  <2>2. CASE ~rec.blocking
    <3>1. win' = win
      BY <1>6, <2>2
    <3>2. ~BlocksOwner(d)'
      BY <1>9, <2>2 DEF BlocksOwner
    <3>3. \A e \in Range(registry) : e # d => (BlocksOwner(e)' => BlocksOwner(e))
      BY <1>9, <1>14 DEF BlocksOwner, Platform
    <3>4. HasBlocking(registry)' <=> \E e \in Range(registry)' : BlocksOwner(e)'
      BY DEF HasBlocking, Range
    <3>5. HasBlocking(registry) <=> \E e \in Range(registry) : BlocksOwner(e)
      BY Blockers
    <3>6. Range(registry)' \subseteq Range(registry) \cup {d}
      BY <1>13 DEF Range
    <3>7. HasBlocking(registry)' => HasBlocking(registry)
      BY <3>2, <3>3, <3>4, <3>5, <3>6
    <3> QED
      BY <1>1, <3>1, <3>7 DEF BlockedWhileBlocking
  <2> QED
    BY <2>1, <2>2
<1>18. dlg' \in [Dialogs -> DialogType]
  BY <1>2, <1>8, <1>9
<1> QED
  BY <1>4, <1>8, <1>9, <1>10, <1>11, <1>12, <1>13, <1>15, <1>16, <1>17, <1>18

LEMMA OpenInv ==
  ASSUME ProgressInv, NEW d \in Dialogs, NEW desc \in Descriptions, Open(d, desc)
  PROVE  ProgressInv'
<1>1. TypeOK /\ ThreadSound
  BY DEF ProgressInv
<1>2. pc = "idle" /\ pc' = pc /\ dlg[d].at = "fresh" /\ PhaseKept
  BY DEF Open, Idle, PhaseKept, Phases, Leaving, ctl
<1>3. /\ Partial(d, desc, "done").registered = TRUE
      /\ Partial(d, desc, "done").blocking = (desc.owned /\ desc.blocks)
  BY ConstantsAssumption DEF Partial, Fresh
<1>4. /\ registry' = IF Partial(d, desc, "done").registered THEN Append(registry, d) ELSE registry
      /\ win' = IF Partial(d, desc, "done").blocking THEN [win EXCEPT !.enabled = FALSE] ELSE win
      /\ dlg' = [dlg EXCEPT ![d] = Partial(d, desc, "done")] /\ classUsers' = classUsers + 1
      /\ UNCHANGED <<restoreChain, deferred, cleanup, retained, posted, pc, cur, tries, idx, fpc, faults, toggles>>
  BY <1>3 DEF Open, ctl
<1>5. /\ DialogsSound' /\ NativeLists' /\ CleanupLists' /\ ClassCounted' /\ BlockedWhileBlocking'
      /\ dlg' \in [Dialogs -> DialogType] /\ registry' \in Seq(Dialogs) /\ classUsers' \in Nat /\ win' \in WinType
  BY <1>2, <1>4, Opened DEF Leaving
<1>6. ThreadSound'
  BY <1>1, <1>2, <1>4 DEF ThreadSound, Leaving
<1>7. TypeOK'
  BY <1>1, <1>4, <1>5 DEF TypeOK, WinType
<1> QED
  BY <1>5, <1>6, <1>7 DEF ProgressInv

LEMMA OpenFailsInv ==
  ASSUME ProgressInv, NEW d \in Dialogs, NEW desc \in Descriptions, NEW point \in OpenPoints,
         OpenFails(d, desc, point)
  PROVE  ProgressInv'
<1>1. TypeOK /\ ThreadSound
  BY DEF ProgressInv
<1>2. pc = "idle" /\ pc' = "rollback" /\ cur' = d /\ dlg[d].at = "fresh" /\ PhaseKept
  BY DEF OpenFails, Idle, PhaseKept, Phases, Leaving
<1>3. /\ registry' = IF Partial(d, desc, point).registered THEN Append(registry, d) ELSE registry
      /\ win' = IF Partial(d, desc, point).blocking THEN [win EXCEPT !.enabled = FALSE] ELSE win
      /\ dlg' = [dlg EXCEPT ![d] = Partial(d, desc, point)] /\ classUsers' = classUsers + 1
      /\ tries' \in 0..2
      /\ UNCHANGED <<restoreChain, deferred, cleanup, retained, posted, idx, fpc, toggles>>
  BY DEF OpenFails
<1>4. /\ DialogsSound' /\ NativeLists' /\ CleanupLists' /\ ClassCounted' /\ BlockedWhileBlocking'
      /\ dlg' \in [Dialogs -> DialogType] /\ registry' \in Seq(Dialogs) /\ classUsers' \in Nat /\ win' \in WinType
      /\ dlg'[d].at = "held" /\ dlg'[d].data = "owned" /\ fpc[d] = "none"
  BY <1>2, <1>3, Opened DEF Leaving
<1>5. faults' \in 0..MaxFaults
  BY <1>1, Faults DEF OpenFails
<1>6. ThreadSound'
  BY <1>1, <1>2, <1>3, <1>4 DEF ThreadSound, Leaving
<1>7. TypeOK'
  BY <1>1, <1>2, <1>3, <1>4, <1>5 DEF TypeOK, WinType
<1> QED
  BY <1>4, <1>6, <1>7 DEF ProgressInv

\* closeProgress on the owner thread
LEMMA Succeeds ==
  ASSUME ProgressInv, NEW d \in Dialogs, CloseSucceeds(d)
  PROVE  \E rec : Changed(d, rec) /\ Closed(d, rec, "freed")
BY Releases, Closes DEF CloseSucceeds, ProgressInv

LEMMA CloseInv ==
  ASSUME ProgressInv, NEW d \in Dialogs, Close(d)
  PROVE  ProgressInv'
<1>1. TypeOK /\ BlockedWhileBlocking /\ DialogsSound /\ NativeLists /\ CleanupLists /\ ThreadSound
  BY DEF ProgressInv
<1>2. /\ pc = "idle" /\ dlg[d].at = "held" /\ fpc[d] = "none"
      /\ UNCHANGED <<deferred, cleanup, retained, posted, pc, cur, tries, idx, fpc, toggles>>
  BY DEF Close, Usable, Idle, ctl
<1>3. PhaseKept
  BY <1>2 DEF PhaseKept, Phases, Leaving
<1>4. ThreadSound'
  BY <1>1, <1>2 DEF ThreadSound, Leaving
<1>5. CASE CloseSucceeds(d)
  <2>1. PICK rec : Changed(d, rec) /\ Closed(d, rec, "freed")
    BY <1>5, Succeeds
  <2>2. DialogsSound' /\ NativeLists' /\ ClassCounted' /\ classUsers' \in Nat
    BY <1>2, <1>3, <2>1, AfterClosed
  <2>3. CleanupLists'
    BY <1>1, <1>2, <2>1, CleanupSame DEF Changed
  <2>4. TypeOK'
    BY <1>1, <1>2, <2>1, <2>2, ChangedTyped DEF TypeOK
  <2> QED
    BY <1>4, <2>1, <2>2, <2>3, <2>4 DEF ProgressInv, Changed
<1>6. CASE CloseFails(d, "held")
  <2>1. /\ \E rec : Changed(d, rec) /\ Retained(d, rec, "held")
        /\ classUsers' = classUsers /\ dlg[d].data = "owned"
    BY <1>1, <1>6, Keeps DEF CloseFails
  <2>2. PICK rec : Changed(d, rec) /\ Retained(d, rec, "held")
    BY <2>1
  <2>3. DialogsSound' /\ NativeLists' /\ ClassCounted'
    BY <1>2, <1>3, <2>1, <2>2, AfterKept
  <2>4. CleanupLists'
    BY <1>1, <1>2, <2>2, CleanupSame DEF Changed
  <2>5. TypeOK'
    BY <1>1, <1>2, <2>1, <2>2, ChangedTyped DEF TypeOK
  <2> QED
    BY <1>4, <2>2, <2>3, <2>4, <2>5 DEF ProgressInv, Changed
<1> QED
  BY <1>5, <1>6 DEF Close

LEMMA DestroyInv ==
  ASSUME ProgressInv, NEW d \in Dialogs, Destroy(d)
  PROVE  ProgressInv'
<1>1. TypeOK /\ BlockedWhileBlocking /\ DialogsSound /\ NativeLists /\ CleanupLists /\ ThreadSound
  BY DEF ProgressInv
<1>2. /\ pc = "idle" /\ dlg[d].at = "held" /\ fpc[d] = "none"
      /\ UNCHANGED <<cleanup, retained, posted, pc, cur, tries, idx, fpc, toggles>>
  BY DEF Destroy, Usable, Idle, ctl
<1>3. PhaseKept
  BY <1>2 DEF PhaseKept, Phases, Leaving
<1>4. ThreadSound'
  BY <1>1, <1>2 DEF ThreadSound, Leaving
<1>5. CASE CloseSucceeds(d) /\ UNCHANGED deferred
  <2>1. PICK rec : Changed(d, rec) /\ Closed(d, rec, "freed")
    BY <1>5, Succeeds
  <2>2. DialogsSound' /\ NativeLists' /\ ClassCounted' /\ classUsers' \in Nat
    BY <1>2, <1>3, <2>1, AfterClosed
  <2>3. CleanupLists'
    BY <1>1, <1>2, <1>5, <2>1, CleanupSame DEF Changed
  <2>4. TypeOK'
    BY <1>1, <1>2, <1>5, <2>1, <2>2, ChangedTyped DEF TypeOK
  <2> QED
    BY <1>4, <2>1, <2>2, <2>3, <2>4 DEF ProgressInv, Changed
<1>6. CASE CloseFails(d, "deferred") /\ deferred' = <<d>> \o deferred
  <2>1. /\ \E rec : Changed(d, rec) /\ Retained(d, rec, "deferred")
        /\ classUsers' = classUsers /\ dlg[d].data = "owned"
    BY <1>1, <1>6, Keeps DEF CloseFails
  <2>2. PICK rec : Changed(d, rec) /\ Retained(d, rec, "deferred")
    BY <2>1
  <2>3. DialogsSound' /\ NativeLists' /\ ClassCounted'
    BY <1>2, <1>3, <2>1, <2>2, AfterKept
  <2>4. d \notin Range(deferred) /\ d \notin Range(cleanup)
    BY <1>1, <1>2, HeldIsOut
  <2>5. /\ deferred \in Seq(Dialogs) /\ cleanup \in Seq(Dialogs) /\ IsInjective(deferred) /\ IsInjective(cleanup)
        /\ \A e \in Range(deferred) : e \notin Range(cleanup)
    BY <1>1 DEF TypeOK, CleanupLists
  <2>6. deferred' \in Seq(Dialogs) /\ Range(deferred') = Range(deferred) \cup {d} /\ IsInjective(deferred')
    BY <1>6, <2>4, <2>5, Pushed
  <2>7. CleanupLists'
    BY <1>1, <1>2, <2>2, <2>4, <2>5, <2>6, CleanupAfter DEF Changed, Retained
  <2>8. TypeOK'
    BY <1>1, <1>2, <2>1, <2>2, <2>6, ChangedTyped DEF TypeOK
  <2> QED
    BY <1>4, <2>2, <2>3, <2>7, <2>8 DEF ProgressInv, Changed
<1> QED
  BY <1>5, <1>6 DEF Destroy

\* A cancellation is requested or cleared: nothing else moves.
LEMMA CancelInv ==
  ASSUME ProgressInv, NEW d \in Dialogs, RequestCancel(d) \/ ClearCancelRequest(d)
  PROVE  ProgressInv'
<1>1. /\ TypeOK /\ BlockedWhileBlocking /\ DialogsSound /\ NativeLists /\ CleanupLists /\ ThreadSound /\ ClassCounted
      /\ dlg \in [Dialogs -> DialogType] /\ retained \in Nat /\ classUsers \in Nat
  BY DEF ProgressInv, TypeOK
<1>2. /\ UNCHANGED <<registry, restoreChain, deferred, cleanup, classUsers, retained, win, posted, pc, cur, tries, idx,
                     fpc, faults, toggles>>
      /\ pc = "idle" /\ PhaseKept
  BY DEF RequestCancel, ClearCancelRequest, Usable, Idle, chains, class, ctl, PhaseKept, Phases, Leaving
<1>3. PICK v \in BOOLEAN : dlg' = [dlg EXCEPT ![d].cancel = v]
  BY DEF RequestCancel, ClearCancelRequest
<1>4. PICK rec : rec = [dlg[d] EXCEPT !.cancel = v]
  OBVIOUS
<1>5. rec \in DialogType /\ dlg' = [dlg EXCEPT ![d] = rec]
  BY <1>1, <1>3, <1>4 DEF DialogType
<1>6. /\ rec.at = dlg[d].at /\ rec.data = dlg[d].data /\ rec.hwnd = dlg[d].hwnd /\ rec.classHeld = dlg[d].classHeld
      /\ rec.blocking = dlg[d].blocking /\ rec.restorePending = dlg[d].restorePending
      /\ rec.finalize = dlg[d].finalize /\ rec.desc = dlg[d].desc
  BY <1>1, <1>4 DEF DialogType
<1>7. BlocksNoMore(d, rec)
  BY <1>6 DEF BlocksNoMore
<1>8. win' \in WinType /\ BlockedWhileBlocking'
  BY <1>1, <1>2, <1>5, <1>7, RestoredSafely DEF NativeLists
<1>9. DialogsSound'
  <2>1. RecordSound(rec, fpc'[d], pc', retained')
    BY <1>1, <1>2, <1>6 DEF DialogsSound, RecordSound
  <2>2. retained' \in Nat /\ retained' >= retained /\ \A e \in Dialogs : e # d => fpc'[e] = fpc[e]
    BY <1>1, <1>2
  <2> QED
    BY <1>1, <1>2, <1>5, <2>1, <2>2, OthersSound
<1>10. dlg'[d] = rec /\ \A e \in Dialogs : e # d => dlg'[e] = dlg[e]
  BY <1>1, <1>5
<1>11. Range(registry) \subseteq Dialogs /\ Range(restoreChain) \subseteq Dialogs
  BY <1>1, RangeOfSeq DEF TypeOK
<1>12. NativeLists'
  BY <1>1, <1>2, <1>6, <1>10, <1>11 DEF NativeLists
<1>13. CleanupLists'
  BY <1>1, <1>2, <1>5, <1>6, CleanupSame DEF CleanupLists
<1>14. ClassCounted'
  <2>1. 0 = 0 + (IF rec.classHeld THEN 1 ELSE 0) - (IF dlg[d].classHeld THEN 1 ELSE 0)
    BY <1>6
  <2>2. retained' = retained + 0 /\ classUsers' = classUsers + 0 /\ 0 \in Nat /\ 0 \in Int
    BY <1>1, <1>2
  <2> QED
    BY <1>1, <1>5, <2>1, <2>2, ClassMoves
<1>15. ThreadSound'
  BY <1>1, <1>2 DEF ThreadSound, Leaving
<1>16. TypeOK'
  BY <1>1, <1>2, <1>5 DEF TypeOK
<1> QED
  BY <1>8, <1>9, <1>12, <1>13, <1>14, <1>15, <1>16 DEF ProgressInv

-----------------------------------------------------------------------------
(* Native losses and the owner Window *)

\* Dialogs whose windows are destroyed under them: their data stays, the
\* blocking ones queue a restoration, nobody blocks the owner any more than before.
LEMMA LostSafely ==
  ASSUME ProgressInv, NEW S, S \subseteq Live(Dialogs), dlg' = Lost(S), QueueProgressOwnerRestore(S),
         registry' \in Seq(Dialogs), IsInjective(registry'), Range(registry') \subseteq Range(registry),
         \A e \in Range(registry') : e \notin S, PhaseKept,
         UNCHANGED <<deferred, cleanup, classUsers, retained, fpc>>
  PROVE  /\ dlg' \in [Dialogs -> DialogType] /\ restoreChain' \in Seq(Dialogs)
         /\ DialogsSound' /\ NativeLists' /\ CleanupLists' /\ ClassCounted'
         /\ HasBlocking(registry)' => HasBlocking(registry)
<1>1. /\ TypeOK /\ DialogsSound /\ NativeLists /\ CleanupLists /\ ClassCounted
      /\ dlg \in [Dialogs -> DialogType] /\ retained \in Nat /\ classUsers \in Nat
      /\ registry \in Seq(Dialogs) /\ restoreChain \in Seq(Dialogs)
  BY DEF ProgressInv, TypeOK
<1>2. S \subseteq Dialogs /\ \A e \in S : dlg[e].hwnd = "live" /\ dlg[e].data = "owned"
  BY DEF Live, Platform
<1>3. \A e \in Dialogs : e \notin S => dlg'[e] = dlg[e]
  BY DEF Lost
<1>4. ASSUME NEW e \in S
      PROVE  /\ dlg'[e] \in DialogType /\ dlg'[e].at = dlg[e].at /\ dlg'[e].data = "owned" /\ dlg'[e].hwnd = "none"
             /\ dlg'[e].classHeld = dlg[e].classHeld /\ dlg'[e].blocking = FALSE
             /\ dlg'[e].restorePending = (dlg[e].restorePending \/ dlg[e].blocking)
  <2>1. PICK r \in DialogType : r = dlg[e] /\ r.data = "owned"
    BY <1>1, <1>2
  <2>2. PICK p \in BOOLEAN : p = (r.restorePending \/ r.blocking)
    OBVIOUS
  <2>3. dlg'[e] = [r EXCEPT !.hwnd = "none", !.registered = FALSE, !.blocking = FALSE, !.restorePending = p,
                            !.cancel = FALSE, !.finalize = TRUE]
    BY <1>2, <2>1, <2>2 DEF Lost
  <2>4. dlg'[e] \in DialogType
    BY <2>1, <2>3 DEF DialogType
  <2>5. dlg'[e].at = r.at /\ dlg'[e].data = "owned" /\ dlg'[e].hwnd = "none" /\ dlg'[e].classHeld = r.classHeld
    BY <2>1, <2>3 DEF DialogType
  <2>6. dlg'[e].blocking = FALSE /\ dlg'[e].restorePending = p
    BY <2>1, <2>3 DEF DialogType
  <2> QED
    BY <2>1, <2>2, <2>4, <2>5, <2>6
<1>5. dlg' \in [Dialogs -> DialogType]
  <2>1. DOMAIN dlg' = Dialogs /\ dlg' = [e \in Dialogs |-> dlg'[e]]
    BY DEF Lost
  <2> QED
    BY <1>1, <1>3, <1>4, <2>1
<1>6. DialogsSound'
  <2>1. SUFFICES ASSUME NEW e \in Dialogs PROVE RecordSound(dlg'[e], fpc'[e], pc', retained')
    BY DEF DialogsSound
  <2>2. RecordSound(dlg[e], fpc[e], pc', retained')
    <3>1. RecordSound(dlg[e], fpc[e], pc, retained)
      BY <1>1 DEF DialogsSound
    <3>2. retained' \in Nat /\ retained' >= retained
      BY <1>1
    <3> QED
      BY <1>1, <3>1, <3>2, RecordKept
  <2>3. CASE e \in S
    BY <1>2, <1>4, <2>2, <2>3 DEF RecordSound
  <2>4. CASE e \notin S
    BY <1>3, <2>2, <2>4
  <2> QED
    BY <2>3, <2>4
<1>7. Holders' = Holders
  BY <1>2, <1>3, <1>4 DEF Holders
<1>8. ClassCounted'
  BY <1>1, <1>7 DEF ClassCounted
<1>9. Range(registry) \subseteq Dialogs /\ Range(restoreChain) \subseteq Dialogs
      /\ Range(deferred) \subseteq Dialogs /\ Range(cleanup) \subseteq Dialogs
  BY <1>1, RangeOfSeq DEF TypeOK
<1>10. CleanupLists'
  <2>1. \A e \in Dialogs : dlg'[e].at = dlg[e].at
    BY <1>3, <1>4
  <2> QED
    BY <1>1, <1>9, <2>1 DEF CleanupLists
<1>11. /\ restoreChain' \in Seq(Dialogs) /\ IsInjective(restoreChain')
       /\ \A e \in Range(restoreChain') : e \in Range(restoreChain) \/ (e \in S /\ dlg[e].blocking)
  <2>1. PICK T : T = {e \in S : dlg[e].blocking /\ ~dlg[e].restorePending}
    OBVIOUS
  <2>2. PICK q \in SetToSeqs(T) : restoreChain' = q \o restoreChain
    BY <2>1 DEF QueueProgressOwnerRestore
  <2>3. T \subseteq Holders
    BY <1>1, <1>2, <2>1 DEF Holders, DialogsSound, RecordSound
  <2>4. IsFiniteSet(T) /\ T \subseteq Dialogs
    BY <1>1, <2>3, FS_Subset DEF ClassCounted, Holders
  <2>5. q \in Seq(Dialogs) /\ Range(q) \subseteq T /\ IsInjective(q)
    BY <2>2, <2>4, Listed
  <2>6. IsInjective(restoreChain) /\ \A e \in Range(q) : e \notin Range(restoreChain)
    BY <1>1, <2>1, <2>5 DEF NativeLists
  <2>7. /\ q \o restoreChain \in Seq(Dialogs) /\ IsInjective(q \o restoreChain)
        /\ Range(q \o restoreChain) = Range(q) \cup Range(restoreChain)
    BY <1>1, <2>5, <2>6, Joined
  <2> QED
    BY <2>1, <2>2, <2>5, <2>7
<1>12. NativeLists'
  <2>1. \A e \in Range(registry') : dlg'[e].data = "owned"
    BY <1>1, <1>3, <1>9 DEF NativeLists
  <2>2. \A e \in Range(restoreChain') : dlg'[e].data = "owned" /\ dlg'[e].restorePending
    <3>1. SUFFICES ASSUME NEW e \in Range(restoreChain') PROVE dlg'[e].data = "owned" /\ dlg'[e].restorePending
      OBVIOUS
    <3>2. CASE e \in S
      BY <1>1, <1>4, <1>11, <3>2 DEF NativeLists
    <3>3. CASE e \notin S
      BY <1>1, <1>3, <1>9, <1>11, <3>3 DEF NativeLists
    <3> QED
      BY <3>2, <3>3
  <2>3. IsInjective(registry)' /\ IsInjective(restoreChain)'
    BY <1>11 DEF IsInjective
  <2> QED
    BY <2>1, <2>2, <2>3 DEF NativeLists, Range
<1>13. HasBlocking(registry)' => HasBlocking(registry)
  <2>1. \A e \in Range(registry') : BlocksOwner(e)' => BlocksOwner(e)
    BY <1>3, <1>9 DEF BlocksOwner, Platform
  <2>2. HasBlocking(registry)' <=> \E e \in Range(registry)' : BlocksOwner(e)'
    BY DEF HasBlocking, Range
  <2>3. HasBlocking(registry) <=> \E e \in Range(registry) : BlocksOwner(e)
    BY Blockers
  <2>4. Range(registry)' = Range(registry')
    BY DEF Range
  <2> QED
    BY <2>1, <2>2, <2>3, <2>4
<1> QED
  BY <1>5, <1>6, <1>8, <1>10, <1>11, <1>12, <1>13

LEMMA NativeLossInv ==
  ASSUME ProgressInv, NEW d \in Dialogs, NativeLoss(d)
  PROVE  ProgressInv'
<1>1. /\ TypeOK /\ BlockedWhileBlocking /\ NativeLists /\ ThreadSound /\ registry \in Seq(Dialogs)
  BY DEF ProgressInv, TypeOK
<1>2. /\ pc = "idle" /\ pc' = pc /\ win' = win /\ PhaseKept /\ {d} \subseteq Live(Dialogs)
      /\ UNCHANGED <<deferred, cleanup, classUsers, retained, cur, tries, idx, fpc, toggles>>
      /\ dlg' = Lost({d}) /\ QueueProgressOwnerRestore({d}) /\ registry' = Without(registry, d)
  BY DEF NativeLoss, Idle, class, ctl, PhaseKept, Phases, Leaving
<1>3. registry' \in Seq(Dialogs) /\ IsInjective(registry') /\ Range(registry') = Range(registry) \ {d}
  BY <1>1, <1>2, TakenOut DEF NativeLists
<1>4. /\ dlg' \in [Dialogs -> DialogType] /\ restoreChain' \in Seq(Dialogs)
      /\ DialogsSound' /\ NativeLists' /\ CleanupLists' /\ ClassCounted'
      /\ HasBlocking(registry)' => HasBlocking(registry)
  BY <1>2, <1>3, LostSafely
<1>5. BlockedWhileBlocking'
  BY <1>1, <1>2, <1>4 DEF BlockedWhileBlocking
<1>6. posted' \in BOOLEAN /\ faults' \in 0..MaxFaults
  BY <1>1, Faults DEF NativeLoss, TypeOK, NoFail
<1>7. ThreadSound'
  BY <1>1, <1>2 DEF ThreadSound, Leaving
<1>8. TypeOK'
  BY <1>1, <1>2, <1>3, <1>4, <1>6 DEF TypeOK
<1> QED
  BY <1>4, <1>5, <1>7, <1>8 DEF ProgressInv

\* The owner Window takes its dialogs with it.
LEMMA WindowGoes ==
  ASSUME ProgressInv, WindowGone, PhaseKept, UNCHANGED <<deferred, cleanup, classUsers, retained, fpc>>
  PROVE  /\ dlg' \in [Dialogs -> DialogType] /\ restoreChain' \in Seq(Dialogs) /\ registry' \in Seq(Dialogs)
         /\ win' \in WinType /\ posted' = FALSE
         /\ DialogsSound' /\ NativeLists' /\ CleanupLists' /\ ClassCounted' /\ BlockedWhileBlocking'
<1>1. registry \in Seq(Dialogs) /\ win \in WinType
  BY DEF ProgressInv, TypeOK, WinType
<1>2. PICK S : S = Live({e \in Dialogs : dlg[e].desc.owned})
  OBVIOUS
<1>3. S \subseteq Live(Dialogs)
  BY <1>2 DEF Live
<1>4. /\ dlg' = Lost(S) /\ registry' \in Keeping(registry, S) /\ QueueProgressOwnerRestore(S)
      /\ win' = [win EXCEPT !.open = FALSE, !.destroying = FALSE] /\ posted' = FALSE
  BY <1>2 DEF WindowGone
<1>5. /\ registry' \in Seq(Dialogs) /\ IsInjective(registry') /\ Range(registry') \subseteq Range(registry)
      /\ \A e \in Range(registry') : e \notin S
  BY <1>1, <1>4, Kept
<1>6. /\ dlg' \in [Dialogs -> DialogType] /\ restoreChain' \in Seq(Dialogs)
      /\ DialogsSound' /\ NativeLists' /\ CleanupLists' /\ ClassCounted'
  BY <1>3, <1>4, <1>5, LostSafely
<1>7. win' \in WinType /\ win'.open = FALSE
  BY <1>1, <1>4 DEF WinType
<1>8. BlockedWhileBlocking'
  BY <1>7 DEF BlockedWhileBlocking
<1> QED
  BY <1>4, <1>5, <1>6, <1>7, <1>8

LEMMA WindowNativeLossInv ==
  ASSUME ProgressInv, WindowNativeLoss
  PROVE  ProgressInv'
<1>1. TypeOK /\ ThreadSound
  BY DEF ProgressInv
<1>2. /\ pc = "idle" /\ WindowGone /\ PhaseKept
      /\ UNCHANGED <<deferred, cleanup, classUsers, retained, pc, cur, tries, idx, fpc, faults, toggles>>
  BY DEF WindowNativeLoss, Idle, class, ctl, PhaseKept, Phases, Leaving
<1>3. /\ dlg' \in [Dialogs -> DialogType] /\ restoreChain' \in Seq(Dialogs) /\ registry' \in Seq(Dialogs)
      /\ win' \in WinType /\ posted' = FALSE
      /\ DialogsSound' /\ NativeLists' /\ CleanupLists' /\ ClassCounted' /\ BlockedWhileBlocking'
  BY <1>2, WindowGoes
<1>4. ThreadSound'
  BY <1>1, <1>2 DEF ThreadSound, Leaving
<1>5. TypeOK'
  BY <1>1, <1>2, <1>3 DEF TypeOK, WinType
<1> QED
  BY <1>3, <1>4, <1>5 DEF ProgressInv

LEMMA DestroyOwnerWindowInv ==
  ASSUME ProgressInv, DestroyOwnerWindow
  PROVE  ProgressInv'
<1>1. TypeOK /\ ThreadSound /\ DialogsSound /\ BlockedWhileBlocking /\ NativeLists /\ CleanupLists /\ ClassCounted
  BY DEF ProgressInv
<1>2. /\ pc = "ownerLoss"
      /\ UNCHANGED <<deferred, cleanup, classUsers, retained, cur, tries, idx, fpc, toggles>>
  BY DEF DestroyOwnerWindow, class
<1>3. CASE WindowGone /\ NoFail /\ pc' = "idle"
  <2>1. PhaseKept
    BY <1>2, <1>3 DEF PhaseKept, Phases, Leaving
  <2>2. /\ dlg' \in [Dialogs -> DialogType] /\ restoreChain' \in Seq(Dialogs) /\ registry' \in Seq(Dialogs)
        /\ win' \in WinType /\ posted' = FALSE
        /\ DialogsSound' /\ NativeLists' /\ CleanupLists' /\ ClassCounted' /\ BlockedWhileBlocking'
    BY <1>2, <1>3, <2>1, WindowGoes
  <2>3. ThreadSound'
    BY <1>1, <1>2, <1>3 DEF ThreadSound, Leaving
  <2>4. TypeOK'
    BY <1>1, <1>2, <1>3, <2>2 DEF TypeOK, WinType, NoFail
  <2> QED
    BY <2>2, <2>3, <2>4 DEF ProgressInv
<1>4. CASE Fail /\ pc' = "closeRollback" /\ UNCHANGED <<dlg, registry, restoreChain, win, posted>>
  <2>1. faults' \in 0..MaxFaults
    BY <1>1, <1>4, Faults
  <2>2. TypeOK'
    BY <1>1, <1>2, <1>4, <2>1 DEF TypeOK
  <2>3. ThreadSound'
    BY <1>1, <1>2, <1>4 DEF ThreadSound, Leaving
  <2>4. DialogsSound'
    BY <1>1, <1>2, <1>4 DEF DialogsSound, RecordSound, Leaving
  <2>5. NativeLists' /\ CleanupLists' /\ BlockedWhileBlocking'
    BY <1>1, <1>2, <1>4 DEF NativeLists, CleanupLists, BlockedWhileBlocking, HasBlocking, BlocksOwner, Platform
  <2>6. ClassCounted'
    BY <1>1, <1>2, <1>4 DEF ClassCounted, Holders
  <2> QED
    BY <2>2, <2>3, <2>4, <2>5, <2>6 DEF ProgressInv
<1> QED
  BY <1>3, <1>4 DEF DestroyOwnerWindow

\* Steps that leave every dialog alone.
LEMMA DialogsKept ==
  ASSUME ProgressInv, PhaseKept, UNCHANGED <<dlg, registry, restoreChain, classUsers, retained, fpc>>
  PROVE  /\ DialogsSound' /\ NativeLists' /\ ClassCounted'
         /\ HasBlocking(registry)' <=> HasBlocking(registry)
<1>1. TypeOK /\ DialogsSound /\ NativeLists /\ ClassCounted /\ retained \in Nat
  BY DEF ProgressInv, TypeOK
<1>2. DialogsSound'
  <2>1. SUFFICES ASSUME NEW e \in Dialogs PROVE RecordSound(dlg[e], fpc[e], pc', retained')
    BY DEF DialogsSound
  <2>2. RecordSound(dlg[e], fpc[e], pc, retained) /\ retained' \in Nat /\ retained' >= retained
    BY <1>1 DEF DialogsSound
  <2> QED
    BY <1>1, <2>2, RecordKept
<1>3. NativeLists'
  BY <1>1 DEF NativeLists
<1>4. ClassCounted'
  BY <1>1 DEF ClassCounted, Holders
<1>5. HasBlocking(registry)' <=> HasBlocking(registry)
  BY DEF HasBlocking, BlocksOwner, Platform
<1> QED
  BY <1>2, <1>3, <1>4, <1>5

\* Whatever is asked of the Window, it is enabled only if nobody blocks it.
LEMMA WindowInv ==
  ASSUME ProgressInv, SetUserInteractionEnabled \/ CloseWindow \/ CloseRollback
  PROVE  ProgressInv'
<1>1. /\ TypeOK /\ ThreadSound /\ BlockedWhileBlocking /\ CleanupLists /\ win \in WinType
      /\ pc \in Phases /\ idx \in Nat \ {0} /\ toggles \in 0..MaxToggles /\ MaxToggles \in Nat
  BY ConstantsAssumption DEF ProgressInv, TypeOK, WinType, Phases
<1>2. UNCHANGED <<dlg, registry, restoreChain, deferred, cleanup, classUsers, retained, posted, cur, tries, fpc>>
  BY DEF SetUserInteractionEnabled, CloseWindow, CloseRollback, chains, class, ctl
<1>3. PhaseKept /\ pc \in {"idle", "closeRollback"} /\ pc' \in {"idle", "ownerLoss"} /\ idx' \in Nat \ {0}
  BY <1>1 DEF SetUserInteractionEnabled, CloseWindow, CloseRollback, Idle, PhaseKept, Phases, Leaving, ctl
<1>4. toggles' \in 0..MaxToggles
  BY <1>1 DEF SetUserInteractionEnabled, CloseWindow, CloseRollback
<1>5. faults' \in 0..MaxFaults
  BY <1>1, Faults DEF SetUserInteractionEnabled, CloseWindow, CloseRollback, NoFail
<1>6. DialogsSound' /\ NativeLists' /\ ClassCounted' /\ (HasBlocking(registry)' <=> HasBlocking(registry))
  BY <1>2, <1>3, DialogsKept
<1>7. CleanupLists'
  BY <1>1, <1>2 DEF CleanupLists
<1>8. ThreadSound'
  BY <1>1, <1>2, <1>3 DEF ThreadSound, Leaving
<1>9. win' \in WinType /\ (win'.open /\ HasBlocking(registry) => ~win'.enabled)
  <2>1. PICK b \in BOOLEAN : b = HasBlocking(registry)
    BY DEF HasBlocking
  <2>2. win.open /\ b => ~win.enabled
    BY <1>1, <2>1 DEF BlockedWhileBlocking
  <2>3. CASE SetUserInteractionEnabled
    <3>1. CASE win' = win
      BY <1>1, <2>1, <2>2, <3>1
    <3>2. CASE win' = [win EXCEPT !.interaction = ~win.interaction, !.enabled = (~win.interaction /\ ~b)]
      BY <1>1, <2>1, <3>2 DEF WinType
    <3> QED
      BY <2>1, <2>3, <3>1, <3>2 DEF SetUserInteractionEnabled
  <2>4. CASE CloseWindow
    <3>1. win' = [win EXCEPT !.destroying = TRUE]
      BY <2>4 DEF CloseWindow
    <3> QED
      BY <1>1, <2>1, <2>2, <3>1 DEF WinType
  <2>5. CASE CloseRollback
    <3>1. CASE win' = [win EXCEPT !.destroying = FALSE, !.enabled = IF b THEN @ ELSE win.interaction]
      <4>1. CASE b
        BY <1>1, <2>1, <2>2, <3>1, <4>1 DEF WinType
      <4>2. CASE ~b
        BY <1>1, <2>1, <3>1, <4>2 DEF WinType
      <4> QED
        BY <4>1, <4>2
    <3>2. CASE win' = [win EXCEPT !.destroying = FALSE]
      BY <1>1, <2>1, <2>2, <3>2 DEF WinType
    <3> QED
      BY <2>1, <2>5, <3>1, <3>2 DEF CloseRollback
  <2> QED
    BY <2>3, <2>4, <2>5
<1>10. BlockedWhileBlocking'
  BY <1>6, <1>9 DEF BlockedWhileBlocking
<1>11. TypeOK'
  BY <1>1, <1>2, <1>3, <1>4, <1>5, <1>9 DEF TypeOK, WinType
<1> QED
  BY <1>6, <1>7, <1>8, <1>10, <1>11 DEF ProgressInv

\* One iteration of notifyProgressOwnerLoss
LEMMA NotifyProgressOwnerLossInv ==
  ASSUME ProgressInv, NotifyProgressOwnerLoss
  PROVE  ProgressInv'
<1>1. TypeOK /\ BlockedWhileBlocking /\ DialogsSound /\ NativeLists /\ CleanupLists /\ ThreadSound
  BY DEF ProgressInv
<1>2. /\ pc = "ownerLoss" /\ idx \in Nat \ {0} /\ idx <= Len(registry) /\ registry \in Seq(Dialogs)
      /\ UNCHANGED <<deferred, cleanup, retained, posted, cur, tries, fpc, toggles>>
  BY <1>1 DEF NotifyProgressOwnerLoss, TypeOK
<1>3. PICK d \in Dialogs : d = registry[idx]
  BY <1>2, ElementOfSeq
<1>4. d \in Range(registry)
  BY <1>2, <1>3 DEF Range
<1>5. dlg[d].data = "owned" /\ dlg[d] \in DialogType /\ RecordSound(dlg[d], fpc[d], pc, retained)
  BY <1>1, <1>4 DEF NativeLists, DialogsSound, TypeOK
<1>6. /\ dlg[d].at \in {"held", "deferred"} /\ (fpc[d] # "none" => dlg[d].at = "held")
  BY <1>5 DEF RecordSound
<1>7. ASSUME pc' \in {"ownerLoss", "closeRollback"} PROVE PhaseKept /\ ThreadSound'
  BY <1>1, <1>2, <1>7 DEF PhaseKept, Phases, Leaving, ThreadSound
<1>8. CASE idx' = idx + 1 /\ UNCHANGED <<dlg, registry, restoreChain, classUsers, win, faults, pc>>
  <2>1. PhaseKept /\ ThreadSound'
    BY <1>2, <1>7, <1>8
  <2>2. DialogsSound' /\ NativeLists' /\ ClassCounted' /\ (HasBlocking(registry)' <=> HasBlocking(registry))
    BY <1>2, <1>8, <2>1, DialogsKept
  <2>3. CleanupLists' /\ BlockedWhileBlocking'
    BY <1>1, <1>2, <1>8, <2>2 DEF CleanupLists, BlockedWhileBlocking
  <2>4. TypeOK'
    BY <1>1, <1>2, <1>8 DEF TypeOK
  <2> QED
    BY <2>1, <2>2, <2>3, <2>4 DEF ProgressInv
<1>9. CASE FinalizeCloses(d, FALSE, dlg[d].at) /\ UNCHANGED <<idx, pc>>
  <2>1. PICK rec : Changed(d, rec) /\ Closed(d, rec, dlg[d].at)
    BY <1>1, <1>6, <1>9, Closes
  <2>2. PhaseKept /\ ThreadSound'
    BY <1>2, <1>7, <1>9
  <2>3. DialogsSound' /\ NativeLists' /\ ClassCounted' /\ classUsers' \in Nat
    BY <1>2, <1>6, <2>1, <2>2, AfterClosed
  <2>4. CleanupLists'
    BY <1>1, <1>2, <2>1, CleanupSame DEF Changed, Closed
  <2>5. TypeOK'
    BY <1>1, <1>2, <1>9, <2>1, <2>3, ChangedTyped DEF TypeOK
  <2> QED
    BY <2>1, <2>2, <2>3, <2>4, <2>5 DEF ProgressInv, Changed
<1>10. CASE FinalizeKeeps(d, FALSE, dlg[d].at) /\ pc' = "closeRollback" /\ UNCHANGED idx
  <2>1. PICK rec : Changed(d, rec) /\ Retained(d, rec, dlg[d].at)
    BY <1>1, <1>6, <1>10, Keeps
  <2>2. classUsers' = classUsers
    BY <1>1, <1>6, <1>10, Keeps
  <2>3. PhaseKept /\ ThreadSound'
    BY <1>7, <1>10
  <2>4. DialogsSound' /\ NativeLists' /\ ClassCounted'
    BY <1>2, <1>5, <1>6, <2>1, <2>2, <2>3, AfterKept
  <2>5. CleanupLists'
    BY <1>1, <1>2, <2>1, CleanupSame DEF Changed, Retained
  <2>6. TypeOK'
    BY <1>1, <1>2, <1>10, <2>1, <2>2, ChangedTyped DEF TypeOK
  <2> QED
    BY <2>1, <2>3, <2>4, <2>5, <2>6 DEF ProgressInv, Changed
<1> QED
  BY <1>3, <1>8, <1>9, <1>10 DEF NotifyProgressOwnerLoss

-----------------------------------------------------------------------------
(* The event pump *)

\* The walk over the chain of restorations: what stays in it is still owed,
\* and the owner is enabled only if no dialog blocks it.
LEMMA Restorations ==
  ASSUME ProgressInv, RestorePendingProgressOwners, PhaseKept, UNCHANGED <<registry, classUsers, retained, fpc>>
  PROVE  /\ dlg' \in [Dialogs -> DialogType] /\ restoreChain' \in Seq(Dialogs)
         /\ win' \in WinType /\ faults' \in 0..MaxFaults
         /\ \A e \in Dialogs : dlg'[e].at = dlg[e].at
         /\ DialogsSound' /\ NativeLists' /\ ClassCounted' /\ BlockedWhileBlocking'
<1>1. /\ TypeOK /\ DialogsSound /\ NativeLists /\ ClassCounted /\ BlockedWhileBlocking
      /\ dlg \in [Dialogs -> DialogType] /\ win \in WinType /\ retained \in Nat /\ faults \in 0..MaxFaults
      /\ registry \in Seq(Dialogs) /\ restoreChain \in Seq(Dialogs)
  BY DEF ProgressInv, TypeOK, WinType
<1> DEFINE kept(c) == [d \in Dialogs |-> [dlg[d] EXCEPT !.restorePending = @ /\ d \in Range(c)]]
<1>2. ASSUME NEW c \in Seq(Dialogs), IsInjective(c), Range(c) \subseteq Range(restoreChain),
             restoreChain' = c, dlg' = kept(c)
      PROVE  /\ dlg' \in [Dialogs -> DialogType] /\ restoreChain' \in Seq(Dialogs)
             /\ \A e \in Dialogs : dlg'[e].at = dlg[e].at
             /\ DialogsSound' /\ NativeLists' /\ ClassCounted'
             /\ HasBlocking(registry)' <=> HasBlocking(registry)
  <2>1. ASSUME NEW e \in Dialogs
        PROVE  /\ dlg'[e] \in DialogType /\ dlg'[e].at = dlg[e].at /\ dlg'[e].data = dlg[e].data
               /\ dlg'[e].hwnd = dlg[e].hwnd /\ dlg'[e].classHeld = dlg[e].classHeld
               /\ dlg'[e].blocking = dlg[e].blocking /\ dlg'[e].finalize = dlg[e].finalize
               /\ dlg'[e].desc = dlg[e].desc
               /\ dlg'[e].restorePending = (dlg[e].restorePending /\ e \in Range(c))
    <3>1. PICK r \in DialogType : r = dlg[e]
      BY <1>1
    <3>2. PICK p \in BOOLEAN : p = (r.restorePending /\ e \in Range(c))
      BY <3>1 DEF DialogType
    <3>3. dlg'[e] = [r EXCEPT !.restorePending = p]
      BY <1>2, <3>1, <3>2
    <3> QED
      BY <3>1, <3>2, <3>3 DEF DialogType
  <2> HIDE DEF kept
  <2>2. dlg' \in [Dialogs -> DialogType]
    <3>1. dlg' = [d \in Dialogs |-> dlg'[d]]
      BY <1>2 DEF kept
    <3> QED
      BY <2>1, <3>1
  <2>3. DialogsSound'
    <3>1. SUFFICES ASSUME NEW e \in Dialogs PROVE RecordSound(dlg'[e], fpc'[e], pc', retained')
      BY DEF DialogsSound
    <3>2. RecordSound(dlg[e], fpc[e], pc, retained) /\ retained' \in Nat /\ retained' >= retained
      BY <1>1 DEF DialogsSound
    <3>3. RecordSound(dlg[e], fpc[e], pc', retained')
      BY <1>1, <3>2, RecordKept
    <3> QED
      BY <2>1, <3>3 DEF RecordSound
  <2>4. Range(registry) \subseteq Dialogs /\ Range(restoreChain) \subseteq Dialogs
    BY <1>1, RangeOfSeq
  <2>5. NativeLists'
    <3>1. \A e \in Range(registry) \cup Range(c) : dlg'[e].data = "owned"
      BY <1>1, <1>2, <2>1, <2>4 DEF NativeLists
    <3>2. \A e \in Range(c) : dlg'[e].restorePending
      BY <1>1, <1>2, <2>1, <2>4 DEF NativeLists
    <3>3. IsInjective(registry)
      BY <1>1 DEF NativeLists
    <3> QED
      BY <1>2, <3>1, <3>2, <3>3 DEF NativeLists
  <2>6. ClassCounted'
    <3>1. Holders' = Holders
      BY <2>1 DEF Holders
    <3> QED
      BY <1>1, <3>1 DEF ClassCounted
  <2>7. HasBlocking(registry)' <=> HasBlocking(registry)
    <3>1. \A e \in Dialogs : BlocksOwner(e)' <=> BlocksOwner(e)
      BY <2>1 DEF BlocksOwner, Platform
    <3>2. \A i \in DOMAIN registry : registry[i] \in Dialogs
      BY <1>1, ElementOfSeq
    <3> QED
      BY <3>1, <3>2 DEF HasBlocking
  <2> QED
    BY <1>2, <2>1, <2>2, <2>3, <2>5, <2>6, <2>7
<1> HIDE DEF kept
<1>3. CASE /\ restoreChain' = <<>> /\ dlg' = kept(<<>>)
           /\ UNCHANGED <<win, faults>>
  <2>1. PICK c : c = <<>> /\ c \in Seq(Dialogs) /\ IsInjective(c) /\ Range(c) \subseteq Range(restoreChain)
    BY Emptied
  <2>2. restoreChain' = c /\ dlg' = kept(c)
    BY <1>3, <2>1
  <2> QED
    BY <1>1, <1>2, <1>3, <2>1, <2>2 DEF BlockedWhileBlocking
<1>4. CASE UNCHANGED <<restoreChain, dlg, win, faults>>
  <2>1. DialogsSound' /\ NativeLists' /\ ClassCounted' /\ (HasBlocking(registry)' <=> HasBlocking(registry))
    BY <1>4, DialogsKept
  <2> QED
    BY <1>1, <1>4, <2>1 DEF BlockedWhileBlocking
<1>5. ASSUME ~HasBlocking(registry), NEW k \in 0..Len(restoreChain),
             faults + k <= MaxFaults, faults' = faults + k,
             restoreChain' = SubSeq(restoreChain, 1, k), dlg' = kept(SubSeq(restoreChain, 1, k)),
             win' = IF k < Len(restoreChain) THEN [win EXCEPT !.enabled = win.interaction] ELSE win
      PROVE  /\ dlg' \in [Dialogs -> DialogType] /\ restoreChain' \in Seq(Dialogs)
             /\ win' \in WinType /\ faults' \in 0..MaxFaults
             /\ \A e \in Dialogs : dlg'[e].at = dlg[e].at
             /\ DialogsSound' /\ NativeLists' /\ ClassCounted' /\ BlockedWhileBlocking'
  <2>1. PICK c : /\ c = SubSeq(restoreChain, 1, k) /\ c \in Seq(Dialogs) /\ IsInjective(c)
                 /\ Range(c) \subseteq Range(restoreChain)
    BY <1>1, Prefixed DEF NativeLists
  <2>2. restoreChain' = c /\ dlg' = kept(c)
    BY <1>5, <2>1
  <2>3. win' \in WinType
    BY <1>1, <1>5 DEF WinType
  <2>4. faults' \in 0..MaxFaults
    BY <1>1, <1>5, ConstantsAssumption
  <2> QED
    BY <1>2, <1>5, <2>1, <2>2, <2>3, <2>4 DEF BlockedWhileBlocking
<1> QED
  BY <1>3, <1>4, <1>5 DEF RestorePendingProgressOwners, kept

LEMMA RestoreMessageInv ==
  ASSUME ProgressInv, RestoreMessage
  PROVE  ProgressInv'
<1>1. /\ TypeOK /\ CleanupLists /\ ThreadSound
      /\ Range(deferred) \subseteq Dialogs /\ Range(cleanup) \subseteq Dialogs
  BY RangeOfSeq DEF ProgressInv, TypeOK
<1>2. /\ pc = "idle" /\ posted' = FALSE /\ RestorePendingProgressOwners /\ PhaseKept
      /\ UNCHANGED <<registry, deferred, cleanup, classUsers, retained, pc, cur, tries, idx, fpc, toggles>>
  BY DEF RestoreMessage, Idle, class, ctl, PhaseKept, Phases, Leaving
<1>3. /\ dlg' \in [Dialogs -> DialogType] /\ restoreChain' \in Seq(Dialogs)
      /\ win' \in WinType /\ faults' \in 0..MaxFaults
      /\ \A e \in Dialogs : dlg'[e].at = dlg[e].at
      /\ DialogsSound' /\ NativeLists' /\ ClassCounted' /\ BlockedWhileBlocking'
  BY <1>2, Restorations
<1>4. CleanupLists'
  BY <1>1, <1>2, <1>3 DEF CleanupLists
<1>5. ThreadSound'
  BY <1>1, <1>2 DEF ThreadSound, Leaving
<1>6. TypeOK'
  BY <1>1, <1>2, <1>3 DEF TypeOK, WinType
<1> QED
  BY <1>3, <1>4, <1>5, <1>6 DEF ProgressInv

\* The deferred chain is taken as a whole.
LEMMA ChainTaken ==
  ASSUME TypeOK, CleanupLists, cleanup' = deferred, deferred' = <<>>,
         \A e \in Dialogs : dlg'[e].at = dlg[e].at
  PROVE  CleanupLists' /\ cleanup' \in Seq(Dialogs) /\ deferred' \in Seq(Dialogs)
<1>1. deferred \in Seq(Dialogs) /\ Range(deferred) \subseteq Dialogs
  BY RangeOfSeq DEF TypeOK
<1>2. PICK c : c = <<>> /\ c \in Seq(Dialogs) /\ Range(c) = {} /\ IsInjective(c)
  BY Emptied
<1>3. deferred' = c
  BY <1>2
<1> QED
  BY <1>1, <1>2, <1>3 DEF CleanupLists

LEMMA PumpInv ==
  ASSUME ProgressInv, Pump
  PROVE  ProgressInv'
<1>1. TypeOK /\ CleanupLists /\ ThreadSound
  BY DEF ProgressInv
<1>2. /\ pc = "idle" /\ pc' = "prune" /\ RestorePendingProgressOwners /\ PhaseKept
      /\ cleanup' = deferred /\ deferred' = <<>>
      /\ UNCHANGED <<registry, classUsers, retained, posted, cur, tries, idx, fpc, toggles>>
  BY DEF Pump, Idle, class, PhaseKept, Phases, Leaving
<1>3. /\ dlg' \in [Dialogs -> DialogType] /\ restoreChain' \in Seq(Dialogs)
      /\ win' \in WinType /\ faults' \in 0..MaxFaults
      /\ \A e \in Dialogs : dlg'[e].at = dlg[e].at
      /\ DialogsSound' /\ NativeLists' /\ ClassCounted' /\ BlockedWhileBlocking'
  BY <1>2, Restorations
<1>4. CleanupLists' /\ cleanup' \in Seq(Dialogs) /\ deferred' \in Seq(Dialogs)
  BY <1>1, <1>2, <1>3, ChainTaken
<1>5. ThreadSound'
  BY <1>1, <1>2 DEF ThreadSound, Leaving
<1>6. TypeOK'
  BY <1>1, <1>2, <1>3, <1>4 DEF TypeOK, WinType
<1> QED
  BY <1>3, <1>4, <1>5, <1>6 DEF ProgressInv

\* One iteration of the progress loop of pruneAbandonedStates
LEMMA PruneAbandonedStatesInv ==
  ASSUME ProgressInv, PruneAbandonedStates
  PROVE  ProgressInv'
<1>1. TypeOK /\ BlockedWhileBlocking /\ DialogsSound /\ NativeLists /\ CleanupLists /\ ThreadSound
  BY DEF ProgressInv
<1>2. pc = "prune" /\ UNCHANGED <<retained, posted, cur, tries, idx, fpc, toggles>>
  BY DEF PruneAbandonedStates
<1>3. /\ deferred \in Seq(Dialogs) /\ cleanup \in Seq(Dialogs) /\ IsInjective(deferred) /\ IsInjective(cleanup)
      /\ \A e \in Range(deferred) : e \notin Range(cleanup)
  BY <1>1 DEF TypeOK, CleanupLists
<1>4. ASSUME pc' \in {"idle", "prune"} PROVE PhaseKept
  BY <1>2, <1>4 DEF PhaseKept, Phases, Leaving
<1>5. CASE cleanup = <<>> /\ pc' = "idle"
           /\ UNCHANGED <<dlg, registry, restoreChain, classUsers, win, faults, deferred, cleanup>>
  <2>1. DialogsSound' /\ NativeLists' /\ ClassCounted' /\ (HasBlocking(registry)' <=> HasBlocking(registry))
    BY <1>2, <1>4, <1>5, DialogsKept
  <2>2. CleanupLists' /\ BlockedWhileBlocking'
    BY <1>1, <1>5, <2>1 DEF CleanupLists, BlockedWhileBlocking
  <2>3. ThreadSound'
    BY <1>2, <1>5 DEF ThreadSound, Leaving
  <2>4. TypeOK'
    BY <1>1, <1>2, <1>5 DEF TypeOK
  <2> QED
    BY <2>1, <2>2, <2>3, <2>4 DEF ProgressInv
<1>6. ASSUME cleanup # <<>>
      PROVE  /\ Head(cleanup) \in Dialogs /\ Tail(cleanup) \in Seq(Dialogs) /\ IsInjective(Tail(cleanup))
             /\ Head(cleanup) \notin Range(Tail(cleanup)) /\ Range(cleanup) = Range(Tail(cleanup)) \cup {Head(cleanup)}
             /\ Head(cleanup) \in Range(cleanup)
  BY <1>3, <1>6, Split
<1>7. ASSUME cleanup # <<>> PROVE dlg[Head(cleanup)].at = "deferred" /\ fpc[Head(cleanup)] = "none"
  <2>1. dlg[Head(cleanup)].at = "deferred"
    BY <1>1, <1>6, <1>7 DEF CleanupLists
  <2> QED
    BY <1>1, <1>6, <1>7, <2>1 DEF DialogsSound, RecordSound
<1>8. CASE cleanup # <<>> /\ CloseSucceeds(Head(cleanup)) /\ cleanup' = Tail(cleanup) /\ UNCHANGED <<deferred, pc>>
  <2>1. PICK d \in Dialogs : d = Head(cleanup)
    BY <1>6, <1>8
  <2>2. PICK rec : Changed(d, rec) /\ Closed(d, rec, "freed")
    BY <1>8, <2>1, Succeeds
  <2>3. DialogsSound' /\ NativeLists' /\ ClassCounted' /\ classUsers' \in Nat
    BY <1>2, <1>4, <1>7, <1>8, <2>1, <2>2, AfterClosed
  <2>4. CleanupLists'
    <3>1. /\ deferred' \in Seq(Dialogs) /\ cleanup' \in Seq(Dialogs) /\ IsInjective(deferred') /\ IsInjective(cleanup')
          /\ \A e \in Range(deferred') : e \notin Range(cleanup')
      BY <1>3, <1>6, <1>8
    <3>2. d \notin Range(deferred') /\ d \notin Range(cleanup')
      BY <1>3, <1>6, <1>8, <2>1
    <3>3. \A e \in Range(deferred') \cup Range(cleanup') : e \in Range(deferred) \cup Range(cleanup)
      BY <1>6, <1>8
    <3>4. rec \in DialogType /\ dlg' = [dlg EXCEPT ![d] = rec]
      BY <2>2 DEF Changed
    <3>5. \A e \in Range(deferred') \cup Range(cleanup') :
            (e # d => e \in Range(deferred) \cup Range(cleanup)) /\ (e = d => rec.at = "deferred")
      BY <3>2, <3>3
    <3> QED
      BY <1>1, <3>1, <3>4, <3>5, CleanupAfter
  <2>5. ThreadSound'
    BY <1>2, <1>8 DEF ThreadSound, Leaving
  <2>6. TypeOK'
    BY <1>1, <1>2, <1>6, <1>8, <2>2, <2>3, ChangedTyped DEF TypeOK
  <2> QED
    BY <2>2, <2>3, <2>4, <2>5, <2>6 DEF ProgressInv, Changed
<1>9. CASE cleanup # <<>> /\ CloseFails(Head(cleanup), "deferred") /\ deferred' = cleanup \o deferred
           /\ cleanup' = <<>> /\ pc' = "idle"
  <2>1. PICK d \in Dialogs : d = Head(cleanup)
    BY <1>6, <1>9
  <2>2. /\ \E rec : Changed(d, rec) /\ Retained(d, rec, "deferred")
        /\ classUsers' = classUsers /\ dlg[d].data = "owned"
    BY <1>1, <1>9, <2>1, Keeps DEF CloseFails
  <2>3. PICK rec : Changed(d, rec) /\ Retained(d, rec, "deferred")
    BY <2>2
  <2>4. DialogsSound' /\ NativeLists' /\ ClassCounted'
    BY <1>2, <1>4, <1>7, <1>9, <2>1, <2>2, <2>3, AfterKept
  <2>5. PICK c : c = <<>> /\ c \in Seq(Dialogs) /\ Range(c) = {} /\ IsInjective(c)
    BY Emptied
  <2>6. deferred' \in Seq(Dialogs) /\ IsInjective(deferred') /\ Range(deferred') = Range(cleanup) \cup Range(deferred)
    BY <1>3, <1>9, Joined
  <2>7. CleanupLists'
    <3>1. cleanup' = c
      BY <1>9, <2>5
    <3>2. /\ cleanup' \in Seq(Dialogs) /\ IsInjective(cleanup') /\ Range(cleanup') = {}
      BY <2>5, <3>1
    <3>3. rec \in DialogType /\ dlg' = [dlg EXCEPT ![d] = rec] /\ rec.at = "deferred"
      BY <2>3 DEF Changed, Retained
    <3>4. \A e \in Range(deferred') : e \notin Range(cleanup')
      BY <3>2
    <3>5. \A e \in Range(deferred') \cup Range(cleanup') :
            (e # d => e \in Range(deferred) \cup Range(cleanup)) /\ (e = d => rec.at = "deferred")
      BY <2>6, <3>2, <3>3
    <3> QED
      BY <1>1, <2>6, <3>2, <3>3, <3>4, <3>5, CleanupAfter
  <2>8. ThreadSound'
    BY <1>2, <1>9 DEF ThreadSound, Leaving
  <2>9. TypeOK'
    BY <1>1, <1>2, <1>9, <2>2, <2>3, <2>6, ChangedTyped DEF TypeOK
  <2> QED
    BY <2>3, <2>4, <2>7, <2>8, <2>9 DEF ProgressInv, Changed
<1> QED
  BY <1>5, <1>8, <1>9 DEF PruneAbandonedStates

-----------------------------------------------------------------------------
(* The owner thread exits *)

LEMMA BeginExitInv ==
  ASSUME ProgressInv, BeginExit
  PROVE  ProgressInv'
<1>1. TypeOK /\ CleanupLists /\ ThreadSound /\ BlockedWhileBlocking
  BY DEF ProgressInv
<1>2. /\ pc = "idle" /\ pc' = "exit" /\ PhaseKept /\ cleanup' = deferred /\ deferred' = <<>>
      /\ UNCHANGED <<dlg, registry, restoreChain, classUsers, retained, win, posted, cur, tries, idx, fpc, faults, toggles>>
  BY DEF BeginExit, Idle, class, PhaseKept, Phases, Leaving
<1>3. DialogsSound' /\ NativeLists' /\ ClassCounted' /\ (HasBlocking(registry)' <=> HasBlocking(registry))
  BY <1>2, DialogsKept
<1>4. CleanupLists' /\ cleanup' \in Seq(Dialogs) /\ deferred' \in Seq(Dialogs)
  BY <1>1, <1>2, ChainTaken
<1>5. ThreadSound' /\ BlockedWhileBlocking'
  BY <1>1, <1>2, <1>3 DEF ThreadSound, Leaving, BlockedWhileBlocking
<1>6. TypeOK'
  BY <1>1, <1>2, <1>4 DEF TypeOK
<1> QED
  BY <1>3, <1>4, <1>5, <1>6 DEF ProgressInv

\* The dialog that exit finalises next is a member of a list.
LEMMA ExitTargets ==
  ASSUME ProgressInv, pc = "exit", cleanup # <<>> \/ registry # <<>>
  PROVE  /\ ExitTarget \in Dialogs
         /\ cleanup # <<>> => /\ ExitTarget = Head(cleanup) /\ dlg[ExitTarget].at = "deferred"
                              /\ AfterExit(ExitTarget) = "freed"
         /\ cleanup = <<>> => dlg[ExitTarget].data = "owned" /\ AfterExit(ExitTarget) = dlg[ExitTarget].at
         /\ dlg[ExitTarget].at \in {"fresh", "held", "deferred", "freed"}
         /\ fpc[ExitTarget] # "none" => cleanup = <<>> /\ dlg[ExitTarget].at = "held"
<1>1. /\ TypeOK /\ NativeLists /\ CleanupLists /\ DialogsSound /\ cleanup \in Seq(Dialogs) /\ registry \in Seq(Dialogs)
      /\ dlg \in [Dialogs -> DialogType]
  BY DEF ProgressInv, TypeOK
<1>2. CASE cleanup # <<>>
  <2>1. Head(cleanup) \in Dialogs /\ Head(cleanup) \in Range(cleanup)
    BY <1>1, <1>2, Split
  <2>2. dlg[Head(cleanup)].at = "deferred"
    BY <1>1, <2>1 DEF CleanupLists
  <2>3. fpc[Head(cleanup)] = "none"
    BY <1>1, <2>1, <2>2 DEF DialogsSound, RecordSound
  <2> QED
    BY <1>2, <2>1, <2>2, <2>3 DEF ExitTarget, AfterExit
<1>3. CASE cleanup = <<>>
  <2>1. Last(registry) \in Dialogs /\ Last(registry) \in Range(registry)
    BY <1>1, <1>3, Split
  <2>2. dlg[Last(registry)].data = "owned" /\ dlg[Last(registry)] \in DialogType
    BY <1>1, <2>1 DEF NativeLists
  <2>3. fpc[Last(registry)] # "none" => dlg[Last(registry)].at = "held"
    BY <1>1, <2>1 DEF DialogsSound, RecordSound
  <2> QED
    BY <1>3, <2>1, <2>2, <2>3 DEF ExitTarget, AfterExit, DialogType
<1> QED
  BY <1>2, <1>3

LEMMA FinalizeForExitInv ==
  ASSUME ProgressInv, FinalizeForExit
  PROVE  ProgressInv'
<1>1. TypeOK /\ BlockedWhileBlocking /\ DialogsSound /\ NativeLists /\ CleanupLists /\ ThreadSound
  BY DEF ProgressInv
<1>2. /\ pc = "exit" /\ (cleanup # <<>> \/ registry # <<>>) /\ deferred = <<>>
      /\ UNCHANGED <<deferred, retained, posted, tries, idx, fpc, toggles>>
  BY <1>1 DEF FinalizeForExit, ThreadSound, Leaving
<1>3. PICK d \in Dialogs : d = ExitTarget
  BY <1>2, ExitTargets
<1>4. /\ cleanup # <<>> => d = Head(cleanup) /\ dlg[d].at = "deferred" /\ AfterExit(d) = "freed"
      /\ cleanup = <<>> => dlg[d].data = "owned" /\ AfterExit(d) = dlg[d].at
      /\ dlg[d].at \in {"fresh", "held", "deferred", "freed"}
      /\ fpc[d] # "none" => cleanup = <<>> /\ dlg[d].at = "held"
  BY <1>2, <1>3, ExitTargets
<1>5. /\ deferred \in Seq(Dialogs) /\ cleanup \in Seq(Dialogs) /\ IsInjective(deferred) /\ IsInjective(cleanup)
      /\ \A e \in Range(deferred) : e \notin Range(cleanup)
      /\ cur \in Dialogs \cup {NoDialog}
  BY <1>1 DEF TypeOK, CleanupLists
<1>6. Range(deferred) = {}
  BY <1>2, Emptied
<1>7. CASE FinalizeCloses(d, FALSE, AfterExit(d)) /\ cleanup' = Without(cleanup, d) /\ UNCHANGED <<pc, cur>>
  <2>1. PICK rec : Changed(d, rec) /\ Closed(d, rec, AfterExit(d))
    BY <1>1, <1>4, <1>7, Closes
  <2>2. PhaseKept
    BY <1>2, <1>7 DEF PhaseKept, Phases, Leaving
  <2>3. DialogsSound' /\ NativeLists' /\ ClassCounted' /\ classUsers' \in Nat
    BY <1>2, <1>4, <2>1, <2>2, AfterClosed
  <2>4. cleanup' \in Seq(Dialogs) /\ IsInjective(cleanup') /\ Range(cleanup') = Range(cleanup) \ {d}
    BY <1>5, <1>7, TakenOut
  <2>5. CleanupLists'
    BY <1>1, <1>2, <1>5, <1>6, <2>1, <2>4, CleanupAfter DEF Changed
  <2>6. ThreadSound'
    BY <1>2, <1>7 DEF ThreadSound, Leaving
  <2>7. TypeOK'
    BY <1>1, <1>2, <1>7, <2>1, <2>3, <2>4, ChangedTyped DEF TypeOK
  <2> QED
    BY <2>1, <2>3, <2>5, <2>6, <2>7 DEF ProgressInv, Changed
<1>8. CASE FinalizeKeeps(d, FALSE, dlg[d].at) /\ pc' = "abandon" /\ cur' = d /\ UNCHANGED cleanup
  <2>1. /\ \E rec : Changed(d, rec) /\ Retained(d, rec, dlg[d].at)
        /\ classUsers' = classUsers /\ dlg[d].data = "owned" /\ d \notin Range(restoreChain')
    BY <1>1, <1>4, <1>8, Keeps
  <2>2. PICK rec : Changed(d, rec) /\ Retained(d, rec, dlg[d].at)
    BY <2>1
  <2>3. PhaseKept /\ dlg[d].at \in {"held", "deferred"}
    BY <1>1, <1>2, <1>8, <2>1 DEF PhaseKept, Phases, Leaving, DialogsSound, RecordSound
  <2>4. DialogsSound' /\ NativeLists' /\ ClassCounted'
    BY <1>2, <1>4, <2>1, <2>2, <2>3, AfterKept
  <2>5. CleanupLists'
    BY <1>1, <1>2, <1>8, <2>2, CleanupSame DEF Changed, Retained
  <2>6. dlg'[d] = rec /\ rec.data = "owned"
    BY <1>1, <2>2 DEF Changed, Retained, TypeOK
  <2>7. ThreadSound'
    BY <1>2, <1>4, <1>8, <2>1, <2>6 DEF ThreadSound, Leaving
  <2>8. TypeOK'
    BY <1>1, <1>2, <1>8, <2>1, <2>2, ChangedTyped DEF TypeOK
  <2> QED
    BY <2>2, <2>4, <2>5, <2>7, <2>8 DEF ProgressInv, Changed
<1> QED
  BY <1>3, <1>7, <1>8 DEF FinalizeForExit

\* What could not be finalised is given up: its data is freed or leaked, and a
\* class reference stays with a window that still exists.
LEMMA AbandonInv ==
  ASSUME ProgressInv, AbandonNativeForThreadExit
  PROVE  ProgressInv'
<1>1. /\ TypeOK /\ BlockedWhileBlocking /\ DialogsSound /\ NativeLists /\ CleanupLists /\ ThreadSound /\ ClassCounted
      /\ dlg \in [Dialogs -> DialogType] /\ retained \in Nat /\ classUsers \in Nat
      /\ registry \in Seq(Dialogs) /\ restoreChain \in Seq(Dialogs) /\ cleanup \in Seq(Dialogs)
      /\ deferred \in Seq(Dialogs)
      /\ IsInjective(registry) /\ IsInjective(restoreChain) /\ IsInjective(cleanup) /\ IsInjective(deferred)
  BY DEF ProgressInv, TypeOK, NativeLists, CleanupLists
<1>2. /\ pc = "abandon" /\ pc' = "exit" /\ cur' = NoDialog /\ PhaseKept
      /\ registry' = Without(registry, cur) /\ cleanup' = Without(cleanup, cur)
      /\ UNCHANGED <<restoreChain, deferred, classUsers, win, posted, tries, idx, fpc, toggles>>
  BY DEF AbandonNativeForThreadExit, PhaseKept, Phases, Leaving
<1>3. PICK d \in Dialogs : d = cur
  BY <1>1, <1>2 DEF ThreadSound
<1>4. /\ dlg[d].data = "owned" /\ d \notin Range(restoreChain) /\ deferred = <<>>
      /\ cleanup # <<>> => d = Head(cleanup)
  BY <1>1, <1>2, <1>3 DEF ThreadSound, Leaving
<1>5. dlg[d] \in DialogType /\ RecordSound(dlg[d], fpc[d], pc, retained)
  BY <1>1 DEF DialogsSound
<1>6. PICK at : /\ at = AfterExit(d) /\ at \in {"held", "deferred", "freed"}
                /\ fpc[d] # "none" => at = "held"
  <2>1. CASE cleanup # <<>>
    <3>1. d \in Range(cleanup)
      BY <1>1, <1>4, <2>1, Split
    <3>2. dlg[d].at = "deferred"
      BY <1>1, <3>1 DEF CleanupLists
    <3>3. fpc[d] = "none"
      BY <1>5, <3>2 DEF RecordSound
    <3> QED
      BY <2>1, <3>3 DEF AfterExit
  <2>2. CASE cleanup = <<>>
    BY <1>4, <1>5, <2>2 DEF AfterExit, RecordSound
  <2> QED
    BY <2>1, <2>2
<1>7. PICK out : out = [dlg[d] EXCEPT !.at = AfterExit(d), !.registered = FALSE, !.blocking = FALSE,
                                      !.cancel = FALSE, !.finalize = TRUE]
  OBVIOUS
<1>8. /\ out \in DialogType /\ out.at = at /\ out.blocking = FALSE /\ out.data = "owned"
       /\ out.hwnd = dlg[d].hwnd /\ out.classHeld = dlg[d].classHeld
  <2>1. PICK old \in DialogType : old = dlg[d]
    BY <1>5
  <2>2. out = [old EXCEPT !.at = at, !.registered = FALSE, !.blocking = FALSE, !.cancel = FALSE, !.finalize = TRUE]
    BY <1>6, <1>7, <2>1
  <2>3. at \in {"fresh", "held", "deferred", "freed"}
    BY <1>6
  <2>4. out \in DialogType
    BY <2>2, <2>3 DEF DialogType
  <2>5. out.at = at /\ out.blocking = FALSE /\ out.data = old.data /\ out.hwnd = old.hwnd /\ out.classHeld = old.classHeld
    BY <2>2, <2>3 DEF DialogType
  <2> QED
    BY <1>4, <2>1, <2>4, <2>5
<1>9. \E rec \in DialogType, k \in Nat :
        /\ dlg' = [dlg EXCEPT ![d] = rec] /\ retained' = retained + k
        /\ rec.at = at /\ rec.blocking = FALSE /\ rec.data \in {"freed", "leaked"}
        /\ rec.hwnd = "live" => rec.data = "leaked" /\ rec.classHeld
        /\ rec.hwnd = "detached" => retained' > 0
        /\ 0 = k + (IF rec.classHeld THEN 1 ELSE 0) - (IF dlg[d].classHeld THEN 1 ELSE 0)
        /\ faults' \in 0..MaxFaults
  <2>1. CASE /\ NoFail
             /\ dlg' = [dlg EXCEPT ![d] = [out EXCEPT !.hwnd = IF @ = "live" THEN "detached" ELSE @,
                                                      !.classHeld = FALSE, !.data = "freed"]]
             /\ retained' = retained + (IF dlg[d].classHeld THEN 1 ELSE 0)
    <3>1. PICK rec : rec = [out EXCEPT !.hwnd = IF out.hwnd = "live" THEN "detached" ELSE out.hwnd,
                                       !.classHeld = FALSE, !.data = "freed"]
      OBVIOUS
    <3>2. dlg' = [dlg EXCEPT ![d] = rec]
      BY <2>1, <3>1
    <3>3. /\ rec \in DialogType /\ rec.at = at /\ rec.blocking = FALSE /\ rec.data = "freed" /\ rec.classHeld = FALSE
          /\ rec.hwnd = IF out.hwnd = "live" THEN "detached" ELSE out.hwnd
      BY <1>8, <3>1 DEF DialogType
    <3>4. PICK k \in Nat : k = IF dlg[d].classHeld THEN 1 ELSE 0
      OBVIOUS
    <3>5. rec.hwnd # "live" /\ (rec.hwnd = "detached" => dlg[d].hwnd \in {"live", "detached"})
      BY <1>8, <3>3
    <3>6. dlg[d].hwnd \in {"live", "detached"} => retained + k > 0
      BY <1>1, <1>5, <3>4 DEF RecordSound
    <3>7. retained' = retained + k
      BY <2>1, <3>4
    <3>8. 0 = k + (IF rec.classHeld THEN 1 ELSE 0) - (IF dlg[d].classHeld THEN 1 ELSE 0)
      BY <3>3, <3>4
    <3>9. faults' \in 0..MaxFaults
      BY <1>1, <2>1, Faults
    <3> QED
      BY <3>2, <3>3, <3>5, <3>6, <3>7, <3>8, <3>9
  <2>2. CASE /\ dlg[d].hwnd = "live" /\ Fail
             /\ dlg' = [dlg EXCEPT ![d] = [out EXCEPT !.data = "leaked"]]
             /\ UNCHANGED retained
    <3>1. PICK rec : rec = [out EXCEPT !.data = "leaked"]
      OBVIOUS
    <3>2. /\ rec \in DialogType /\ rec.at = at /\ rec.blocking = FALSE /\ rec.data = "leaked"
          /\ rec.hwnd = out.hwnd /\ rec.classHeld = out.classHeld
      BY <1>8, <3>1 DEF DialogType
    <3>3. rec.hwnd = "live" /\ rec.classHeld
      BY <1>5, <1>8, <2>2, <3>2 DEF RecordSound
    <3>4. 0 = 0 + (IF rec.classHeld THEN 1 ELSE 0) - (IF dlg[d].classHeld THEN 1 ELSE 0)
      BY <1>8, <3>2, <3>3
    <3>5. faults' \in 0..MaxFaults
      BY <1>1, <2>2, Faults
    <3>6. dlg' = [dlg EXCEPT ![d] = rec] /\ retained' = retained + 0 /\ 0 \in Nat
      BY <1>1, <2>2, <3>1
    <3> QED
      BY <3>2, <3>3, <3>4, <3>5, <3>6
  <2> QED
    BY <1>3, <1>7, <2>1, <2>2 DEF AbandonNativeForThreadExit
<1>10. PICK rec \in DialogType, k \in Nat :
        /\ dlg' = [dlg EXCEPT ![d] = rec] /\ retained' = retained + k
        /\ rec.at = at /\ rec.blocking = FALSE /\ rec.data \in {"freed", "leaked"}
        /\ rec.hwnd = "live" => rec.data = "leaked" /\ rec.classHeld
        /\ rec.hwnd = "detached" => retained' > 0
        /\ 0 = k + (IF rec.classHeld THEN 1 ELSE 0) - (IF dlg[d].classHeld THEN 1 ELSE 0)
        /\ faults' \in 0..MaxFaults
  BY <1>9
<1>11. /\ registry' \in Seq(Dialogs) /\ Range(registry') = Range(registry) \ {d} /\ IsInjective(registry')
       /\ cleanup' \in Seq(Dialogs) /\ Range(cleanup') = Range(cleanup) \ {d} /\ IsInjective(cleanup')
  BY <1>1, <1>2, <1>3, TakenOut
<1>12. BlocksNoMore(d, rec)
  BY <1>10 DEF BlocksNoMore
<1>13. win' \in WinType /\ BlockedWhileBlocking'
  BY <1>1, <1>2, <1>10, <1>11, <1>12, RestoredSafely
<1>14. Changed(d, rec)
  BY <1>1, <1>2, <1>4, <1>10, <1>11, <1>12, <1>13 DEF Changed
<1>15. NativeLists'
  <2>1. d \notin Range(registry') /\ d \notin Range(restoreChain')
    BY <1>2, <1>4, <1>11
  <2> QED
    BY <1>1, <1>14, <2>1, ListsAfter
<1>16. ClassCounted' /\ retained' \in Nat
  <2>1. classUsers' = classUsers + 0 /\ 0 \in Int
    BY <1>1, <1>2
  <2> QED
    BY <1>1, <1>10, <2>1, ClassMoves
<1>17. DialogsSound'
  <2>1. RecordSound(rec, fpc'[d], pc', retained')
    BY <1>2, <1>6, <1>10 DEF RecordSound, Leaving
  <2>2. retained' >= retained /\ \A e \in Dialogs : e # d => fpc'[e] = fpc[e]
    BY <1>1, <1>2, <1>10
  <2> QED
    BY <1>1, <1>2, <1>10, <1>16, <2>1, <2>2, OthersSound
<1>18. CleanupLists'
  <2>1. PICK c : c = <<>> /\ Range(c) = {}
    BY Emptied
  <2>2. deferred' = deferred /\ Range(deferred') = {}
    BY <1>2, <1>4, <2>1
  <2>3. \A e \in Range(deferred') : e \notin Range(cleanup')
    BY <2>2
  <2>4. \A e \in Range(deferred') \cup Range(cleanup') :
          (e # d => e \in Range(deferred) \cup Range(cleanup)) /\ (e = d => rec.at = "deferred")
    BY <1>11, <2>2
  <2> QED
    BY <1>1, <1>10, <1>11, <2>2, <2>3, <2>4, CleanupAfter
<1>19. ThreadSound'
  BY <1>2, <1>4 DEF ThreadSound, Leaving
<1>20. TypeOK'
  BY <1>1, <1>2, <1>11, <1>14, <1>16, ChangedTyped DEF TypeOK
<1> QED
  BY <1>13, <1>15, <1>16, <1>17, <1>18, <1>19, <1>20 DEF ProgressInv

\* With the thread its remaining windows are gone; the counted references stay.
LEMMA EndExitInv ==
  ASSUME ProgressInv, EndExit
  PROVE  ProgressInv'
<1>1. /\ TypeOK /\ DialogsSound /\ NativeLists /\ CleanupLists /\ ThreadSound /\ ClassCounted
      /\ dlg \in [Dialogs -> DialogType] /\ retained \in Nat /\ win \in WinType
  BY DEF ProgressInv, TypeOK, WinType
<1>2. /\ pc = "exit" /\ cleanup = <<>> /\ registry = <<>> /\ pc' = "exited" /\ deferred = <<>>
      /\ dlg' = [e \in Dialogs |-> [dlg[e] EXCEPT !.hwnd = "none"]]
      /\ restoreChain' = <<>> /\ win' = [win EXCEPT !.open = FALSE] /\ posted' = FALSE
      /\ UNCHANGED <<registry, deferred, cleanup, classUsers, retained, cur, tries, idx, fpc, faults, toggles>>
  BY <1>1 DEF EndExit, ThreadSound, Leaving, class
<1>3. ASSUME NEW e \in Dialogs
      PROVE  /\ dlg'[e] \in DialogType /\ dlg'[e].hwnd = "none" /\ dlg'[e].at = dlg[e].at
             /\ dlg'[e].data = dlg[e].data /\ dlg'[e].classHeld = dlg[e].classHeld
             /\ dlg'[e].blocking = dlg[e].blocking /\ dlg'[e].restorePending = dlg[e].restorePending
  BY <1>1, <1>2 DEF DialogType
<1>4. DialogsSound'
  <2>1. SUFFICES ASSUME NEW e \in Dialogs PROVE RecordSound(dlg'[e], fpc'[e], pc', retained')
    BY DEF DialogsSound
  <2>2. RecordSound(dlg[e], fpc[e], pc, retained)
    BY <1>1 DEF DialogsSound
  <2>3. fpc'[e] = fpc[e] /\ pc' = "exited" /\ pc = "exit"
    BY <1>2
  <2> QED
    BY <1>3, <2>2, <2>3 DEF RecordSound, Leaving
<1>5. PICK c : c = <<>> /\ c \in Seq(Dialogs) /\ Range(c) = {} /\ IsInjective(c)
  BY Emptied
<1>6. NativeLists'
  BY <1>2, <1>5 DEF NativeLists
<1>7. CleanupLists'
  BY <1>2, <1>5 DEF CleanupLists
<1>8. ThreadSound'
  BY <1>2 DEF ThreadSound, Leaving
<1>9. ClassCounted'
  <2>1. Holders' = Holders
    BY <1>3 DEF Holders
  <2> QED
    BY <1>1, <1>2, <2>1 DEF ClassCounted
<1>10. win' \in WinType /\ BlockedWhileBlocking'
  BY <1>1, <1>2 DEF WinType, BlockedWhileBlocking
<1>11. dlg' \in [Dialogs -> DialogType]
  BY <1>2, <1>3
<1>12. TypeOK'
  BY <1>1, <1>2, <1>5, <1>10, <1>11 DEF TypeOK, WinType
<1> QED
  BY <1>4, <1>6, <1>7, <1>8, <1>9, <1>10, <1>12 DEF ProgressInv

-----------------------------------------------------------------------------
(* ~ProgressDialog on a foreign thread *)

Through == {"none", "defer", "deref", "lock", "fallback"}

\* A foreign destructor that leaves the native state alone: it moves on, and
\* the portable state is kept, freed or pushed on the deferred chain.
LEMMA ForeignMoves ==
  ASSUME ProgressInv, NEW d \in Dialogs, NEW rec \in DialogType, NEW f \in Through,
         dlg' = [dlg EXCEPT ![d] = rec], fpc' = [fpc EXCEPT ![d] = f],
         rec.data = dlg[d].data, rec.hwnd = dlg[d].hwnd, rec.classHeld = dlg[d].classHeld,
         rec.blocking = dlg[d].blocking, rec.restorePending = dlg[d].restorePending,
         rec.finalize = dlg[d].finalize, rec.desc = dlg[d].desc,
         RecordSound(rec, f, pc, retained), dlg[d].at = "held", ~(pc = "rollback" /\ cur = d),
         \/ deferred' = deferred
         \/ deferred' = <<d>> \o deferred /\ rec.at = "deferred" /\ pc \notin Leaving,
         UNCHANGED <<registry, restoreChain, cleanup, classUsers, retained, win, posted, pc, cur, tries, idx, faults, toggles>>
  PROVE  ProgressInv'
<1>1. /\ TypeOK /\ BlockedWhileBlocking /\ DialogsSound /\ NativeLists /\ CleanupLists /\ ThreadSound /\ ClassCounted
      /\ dlg \in [Dialogs -> DialogType] /\ fpc \in [Dialogs -> Through] /\ retained \in Nat /\ classUsers \in Nat
      /\ registry \in Seq(Dialogs) /\ restoreChain \in Seq(Dialogs) /\ cleanup \in Seq(Dialogs)
      /\ deferred \in Seq(Dialogs) /\ faults \in 0..MaxFaults /\ pc \in Phases
      /\ IsInjective(registry) /\ IsInjective(restoreChain) /\ IsInjective(cleanup) /\ IsInjective(deferred)
  BY DEF ProgressInv, TypeOK, NativeLists, CleanupLists, Through, Phases
<1>2. PhaseKept
  BY <1>1 DEF PhaseKept
<1>3. BlocksNoMore(d, rec)
  BY DEF BlocksNoMore
<1>4. win' \in WinType /\ BlockedWhileBlocking'
  BY <1>1, <1>3, RestoredSafely
<1>5. Changed(d, rec)
  BY <1>1, <1>3, <1>4 DEF Changed, NativeLists
<1>6. NativeLists'
  <2>1. rec.data = "owned" \/ (d \notin Range(registry') /\ d \notin Range(restoreChain'))
    BY <1>1 DEF NativeLists
  <2> QED
    BY <1>1, <1>5, <2>1, ListsAfter
<1>7. DialogsSound'
  <2>1. RecordSound(rec, fpc'[d], pc', retained')
    BY <1>1
  <2>2. retained' \in Nat /\ retained' >= retained /\ \A e \in Dialogs : e # d => fpc'[e] = fpc[e]
    BY <1>1
  <2> QED
    BY <1>1, <1>2, <2>1, <2>2, OthersSound
<1>8. ClassCounted'
  <2>1. 0 = 0 + (IF rec.classHeld THEN 1 ELSE 0) - (IF dlg[d].classHeld THEN 1 ELSE 0)
    OBVIOUS
  <2>2. retained' = retained + 0 /\ classUsers' = classUsers + 0 /\ 0 \in Nat /\ 0 \in Int
    BY <1>1
  <2> QED
    BY <1>1, <2>1, <2>2, ClassMoves
<1>9. CleanupLists' /\ deferred' \in Seq(Dialogs)
  <2>1. d \notin Range(deferred) /\ d \notin Range(cleanup)
    BY <1>1, HeldIsOut
  <2>2. /\ deferred' \in Seq(Dialogs) /\ IsInjective(deferred')
        /\ \/ Range(deferred') = Range(deferred)
           \/ Range(deferred') = Range(deferred) \cup {d} /\ rec.at = "deferred"
    <3>1. CASE deferred' = deferred
      BY <1>1, <3>1
    <3>2. CASE deferred' = <<d>> \o deferred /\ rec.at = "deferred"
      BY <1>1, <2>1, <3>2, Pushed
    <3> QED
      BY <3>1, <3>2
  <2>3. \A e \in Range(deferred') : e \notin Range(cleanup')
    BY <1>1, <2>1, <2>2 DEF CleanupLists
  <2>4. \A e \in Range(deferred') \cup Range(cleanup') :
          (e # d => e \in Range(deferred) \cup Range(cleanup)) /\ (e = d => rec.at = "deferred")
    BY <2>1, <2>2
  <2> QED
    BY <1>1, <2>2, <2>3, <2>4, CleanupAfter
<1>10. ThreadSound'
  <2>1. \A e \in Dialogs : /\ dlg'[e].data = dlg[e].data
                           /\ e # d => dlg'[e] = dlg[e] /\ fpc'[e] = fpc[e]
    BY <1>1
  <2>2. deferred' = deferred \/ pc \notin Leaving
    OBVIOUS
  <2>3. pc = "rollback" => /\ cur \in Dialogs /\ fpc'[cur] = "none"
                           /\ dlg'[cur].at = "held" /\ dlg'[cur].data = "owned"
    BY <1>1, <2>1 DEF ThreadSound
  <2>4. pc = "abandon" => /\ cur \in Dialogs /\ dlg'[cur].data = "owned"
                          /\ cur \notin Range(restoreChain)
                          /\ cleanup # <<>> => cur = Head(cleanup)
    BY <1>1, <2>1 DEF ThreadSound
  <2>5. /\ pc \notin {"prune", "exit", "abandon"} => cleanup = <<>>
        /\ pc \in Leaving => deferred' = <<>>
        /\ pc = "exited" => registry = <<>> /\ restoreChain = <<>>
    BY <1>1, <2>2 DEF ThreadSound
  <2> QED
    BY <2>3, <2>4, <2>5 DEF ThreadSound
<1>11. TypeOK'
  <2>1. fpc' \in [Dialogs -> Through]
    BY <1>1
  <2>2. /\ dlg' \in [Dialogs -> DialogType]
        /\ win' \in [open : BOOLEAN, enabled : BOOLEAN, interaction : BOOLEAN, destroying : BOOLEAN]
    BY <1>1, <1>5, ChangedTyped
  <2> QED
    BY <1>1, <1>9, <2>1, <2>2 DEF TypeOK, Through
<1> QED
  BY <1>4, <1>6, <1>7, <1>8, <1>9, <1>10, <1>11 DEF ProgressInv

\* The destructor's steps up to the fallback leave the native state alone.
LEMMA ForeignInv ==
  ASSUME ProgressInv, NEW d \in Dialogs,
         ForeignDestroy(d) \/ ReadOwnerThread(d) \/ ReadThroughPlatform(d) \/ DeferToOwner(d)
  PROVE  ProgressInv'
<1>1. /\ TypeOK /\ DialogsSound /\ ThreadSound /\ dlg \in [Dialogs -> DialogType] /\ fpc \in [Dialogs -> Through]
  BY DEF ProgressInv, TypeOK, Through
<1>2. dlg[d] \in DialogType /\ fpc[d] \in Through /\ RecordSound(dlg[d], fpc[d], pc, retained)
  BY <1>1 DEF DialogsSound
<1>3. /\ UNCHANGED <<registry, restoreChain, cleanup, classUsers, retained, win, posted, pc, cur, tries, idx, faults, toggles>>
      /\ ~DeferToOwner(d) => deferred' = deferred
  BY DEF ForeignDestroy, ReadOwnerThread, ReadThroughPlatform, DeferToOwner, chains, class, ctl
<1>4. dlg[d].at = "held" /\ ~(pc = "rollback" /\ cur = d)
  BY <1>1, <1>2 DEF ForeignDestroy, ReadOwnerThread, ReadThroughPlatform, DeferToOwner, RecordSound, ThreadSound
<1>5. ASSUME NEW f \in Through, UNCHANGED dlg, fpc' = [fpc EXCEPT ![d] = f],
             f = "fallback" => dlg[d].data # "owned" \/ pc = "exited", deferred' = deferred
      PROVE  ProgressInv'
  <2>1. PICK rec \in DialogType : rec = dlg[d]
    BY <1>2
  <2>2. dlg' = [dlg EXCEPT ![d] = rec]
    BY <1>1, <1>5, <2>1
  <2>3. RecordSound(rec, f, pc, retained)
    BY <1>2, <1>4, <1>5, <2>1 DEF RecordSound
  <2>4. deferred' = deferred \/ (deferred' = <<d>> \o deferred /\ rec.at = "deferred" /\ pc \notin Leaving)
    BY <1>5
  <2>5. /\ rec.data = dlg[d].data /\ rec.hwnd = dlg[d].hwnd /\ rec.classHeld = dlg[d].classHeld
        /\ rec.blocking = dlg[d].blocking /\ rec.restorePending = dlg[d].restorePending
        /\ rec.finalize = dlg[d].finalize /\ rec.desc = dlg[d].desc
    BY <2>1
  <2> QED
    BY <1>3, <1>4, <1>5, <2>2, <2>3, <2>4, <2>5, ForeignMoves
<1>6. ASSUME NEW at \in {"deferred", "freed"}, dlg' = [dlg EXCEPT ![d].at = at], fpc' = [fpc EXCEPT ![d] = "none"],
             dlg[d].data = "owned" => at = "deferred",
             deferred' = deferred \/ (deferred' = <<d>> \o deferred /\ at = "deferred" /\ pc \notin Leaving)
      PROVE  ProgressInv'
  <2>1. PICK rec : rec = [dlg[d] EXCEPT !.at = at]
    OBVIOUS
  <2>2. rec \in DialogType /\ rec.at = at
    BY <1>2, <2>1 DEF DialogType
  <2>3. /\ rec.data = dlg[d].data /\ rec.hwnd = dlg[d].hwnd /\ rec.classHeld = dlg[d].classHeld
        /\ rec.blocking = dlg[d].blocking /\ rec.restorePending = dlg[d].restorePending
        /\ rec.finalize = dlg[d].finalize /\ rec.desc = dlg[d].desc
    BY <1>2, <2>1 DEF DialogType
  <2>4. dlg' = [dlg EXCEPT ![d] = rec]
    BY <1>1, <1>6, <2>1
  <2>5. RecordSound(rec, "none", pc, retained)
    BY <1>2, <1>6, <2>2, <2>3 DEF RecordSound
  <2>6. "none" \in Through
    BY DEF Through
  <2>7. deferred' = deferred \/ (deferred' = <<d>> \o deferred /\ rec.at = "deferred" /\ pc \notin Leaving)
    BY <1>6, <2>2
  <2> QED
    BY <1>3, <1>4, <1>6, <2>2, <2>3, <2>4, <2>5, <2>6, <2>7, ForeignMoves
<1>7. CASE ForeignDestroy(d)
  <2>1. deferred' = deferred /\ fpc[d] = "none"
    BY <1>7 DEF ForeignDestroy, chains
  <2>2. CASE Platform(d)
    <3>1. UNCHANGED dlg /\ fpc' = [fpc EXCEPT ![d] = "defer"] /\ "defer" \in Through
      BY <1>7, <2>2 DEF ForeignDestroy, Through
    <3> QED
      BY <1>5, <2>1, <3>1
  <2>3. CASE ~Platform(d)
    <3>1. dlg' = [dlg EXCEPT ![d].at = "freed"] /\ fpc' = [fpc EXCEPT ![d] = "none"] /\ dlg[d].data # "owned"
      BY <1>1, <1>7, <2>1, <2>3 DEF ForeignDestroy, Platform
    <3> QED
      BY <1>6, <2>1, <3>1
  <2> QED
    BY <2>2, <2>3
<1>8. CASE ReadOwnerThread(d)
  <2>1. PICK f \in Through : /\ fpc' = [fpc EXCEPT ![d] = f] /\ (f = "fallback" => dlg[d].data # "owned")
    BY <1>8 DEF ReadOwnerThread, Platform, Through
  <2>2. UNCHANGED dlg /\ deferred' = deferred
    BY <1>8 DEF ReadOwnerThread, chains
  <2>3. f = "fallback" => dlg[d].data # "owned" \/ pc = "exited"
    BY <2>1
  <2> QED
    BY <1>5, <2>1, <2>2, <2>3
<1>9. CASE ReadThroughPlatform(d)
  <2>1. deferred' = deferred /\ "lock" \in Through
    BY <1>9 DEF ReadThroughPlatform, chains, Through
  <2>2. CASE fpc' = [fpc EXCEPT ![d] = "lock"] /\ UNCHANGED dlg
    BY <1>5, <2>1, <2>2
  <2>3. CASE /\ dlg[d].data = "freed" /\ fpc' = [fpc EXCEPT ![d] = "none"] /\ dlg' = [dlg EXCEPT ![d].at = "freed"]
    BY <1>6, <2>1, <2>3
  <2> QED
    BY <1>9, <2>2, <2>3 DEF ReadThroughPlatform
<1>10. CASE DeferToOwner(d)
  <2>1. CASE pc # "exited" /\ Platform(d)
    <3>1. /\ deferred' = <<d>> \o deferred /\ dlg' = [dlg EXCEPT ![d].at = "deferred"]
          /\ fpc' = [fpc EXCEPT ![d] = "none"] /\ pc \notin Leaving
      BY <1>10, <2>1 DEF DeferToOwner, RegistryUnlocked, Leaving
    <3> QED
      BY <1>6, <3>1
  <2>2. CASE ~(pc # "exited" /\ Platform(d))
    <3>1. /\ fpc' = [fpc EXCEPT ![d] = "fallback"] /\ UNCHANGED <<deferred, dlg>> /\ "fallback" \in Through
          /\ dlg[d].data # "owned" \/ pc = "exited"
      BY <1>10, <2>2 DEF DeferToOwner, Platform, Through
    <3> QED
      BY <1>5, <3>1
  <2> QED
    BY <2>1, <2>2
<1> QED
  BY <1>7, <1>8, <1>9, <1>10

\* No dispatcher took the state: the owner thread and its windows are gone, and
\* the native data is freed with its class reference, or leaked with it.
LEMMA ForeignFallbackInv ==
  ASSUME ProgressInv, NEW d \in Dialogs, ForeignFallback(d)
  PROVE  ProgressInv'
<1>1. /\ TypeOK /\ BlockedWhileBlocking /\ DialogsSound /\ NativeLists /\ CleanupLists /\ ThreadSound /\ ClassCounted
      /\ dlg \in [Dialogs -> DialogType] /\ fpc \in [Dialogs -> Through] /\ retained \in Nat /\ classUsers \in Nat
      /\ registry \in Seq(Dialogs) /\ restoreChain \in Seq(Dialogs) /\ faults \in 0..MaxFaults /\ pc \in Phases
      /\ IsInjective(registry) /\ IsInjective(restoreChain)
  BY DEF ProgressInv, TypeOK, NativeLists, Through, Phases
<1>2. dlg[d] \in DialogType /\ RecordSound(dlg[d], fpc[d], pc, retained)
  BY <1>1 DEF DialogsSound
<1>3. /\ fpc[d] = "fallback" /\ fpc' = [fpc EXCEPT ![d] = "none"] /\ PhaseKept
      /\ UNCHANGED <<registry, restoreChain, deferred, cleanup, retained, win, posted, pc, cur, tries, idx, toggles>>
  BY <1>1 DEF ForeignFallback, chains, ctl, PhaseKept
<1>4. dlg[d].at = "held"
  BY <1>2, <1>3 DEF RecordSound
<1>5. CASE ~Platform(d) /\ dlg' = [dlg EXCEPT ![d].at = "freed"] /\ UNCHANGED <<classUsers, faults>>
  <2>1. PICK rec : rec = [dlg[d] EXCEPT !.at = "freed"]
    OBVIOUS
  <2>2. rec \in DialogType /\ rec.at = "freed"
    BY <1>2, <2>1 DEF DialogType
  <2>3. /\ rec.data = dlg[d].data /\ rec.hwnd = dlg[d].hwnd /\ rec.classHeld = dlg[d].classHeld
        /\ rec.blocking = dlg[d].blocking /\ rec.restorePending = dlg[d].restorePending
        /\ rec.finalize = dlg[d].finalize /\ rec.desc = dlg[d].desc
    BY <1>2, <2>1 DEF DialogType
  <2>4. dlg' = [dlg EXCEPT ![d] = rec]
    BY <1>1, <1>5, <2>1
  <2>5. dlg[d].data # "owned"
    BY <1>5 DEF Platform
  <2>6. RecordSound(rec, "none", pc, retained)
    BY <1>2, <2>2, <2>3, <2>5 DEF RecordSound
  <2>7. "none" \in Through /\ ~(pc = "rollback" /\ cur = d)
    BY <1>1, <1>3 DEF Through, ThreadSound
  <2>8. UNCHANGED <<registry, restoreChain, cleanup, classUsers, retained, win, posted, pc, cur, tries, idx, faults, toggles>>
        /\ deferred' = deferred
    BY <1>3, <1>5
  <2> QED
    BY <1>3, <1>4, <2>2, <2>3, <2>4, <2>6, <2>7, <2>8, ForeignMoves
<1>6. CASE Platform(d)
  <2>1. pc = "exited" /\ dlg[d].hwnd = "none" /\ registry = <<>> /\ restoreChain = <<>> /\ cleanup = <<>> /\ deferred = <<>>
    BY <1>1, <1>2, <1>3, <1>6 DEF RecordSound, Platform, ThreadSound, Leaving
  <2>2. PICK c : c = <<>> /\ c \in Seq(Dialogs) /\ Range(c) = {} /\ IsInjective(c)
    BY Emptied
  <2>3. \E rec \in DialogType, n \in Int :
          /\ dlg' = [dlg EXCEPT ![d] = rec] /\ classUsers' = classUsers + n
          /\ rec.at = "freed" /\ rec.data # "owned" /\ rec.hwnd = "none"
          /\ rec.restorePending = dlg[d].restorePending /\ rec.blocking = dlg[d].blocking
          /\ n = 0 + (IF rec.classHeld THEN 1 ELSE 0) - (IF dlg[d].classHeld THEN 1 ELSE 0)
          /\ faults' \in 0..MaxFaults
    <3>1. CASE /\ dlg' = [dlg EXCEPT ![d].at = "freed", ![d].data = "freed", ![d].classHeld = FALSE]
               /\ classUsers' = classUsers - (IF dlg[d].classHeld THEN 1 ELSE 0)
               /\ UNCHANGED faults
      <4>1. PICK rec : rec = [dlg[d] EXCEPT !.at = "freed", !.data = "freed", !.classHeld = FALSE]
        OBVIOUS
      <4>2. /\ rec \in DialogType /\ rec.at = "freed" /\ rec.data = "freed" /\ rec.classHeld = FALSE
            /\ rec.hwnd = dlg[d].hwnd /\ rec.restorePending = dlg[d].restorePending /\ rec.blocking = dlg[d].blocking
        BY <1>2, <4>1 DEF DialogType
      <4>3. dlg' = [dlg EXCEPT ![d] = rec]
        BY <1>1, <3>1, <4>1
      <4>4. PICK n \in Int : n = 0 + (IF rec.classHeld THEN 1 ELSE 0) - (IF dlg[d].classHeld THEN 1 ELSE 0)
        OBVIOUS
      <4>5. classUsers' = classUsers + n
        BY <1>1, <3>1, <4>2, <4>4
      <4>6. faults' \in 0..MaxFaults
        BY <1>1, <3>1
      <4> QED
        BY <2>1, <4>2, <4>3, <4>4, <4>5, <4>6
    <3>2. CASE /\ dlg' = [dlg EXCEPT ![d].at = "freed", ![d].data = "leaked"]
               /\ UNCHANGED classUsers /\ faults + 2 <= MaxFaults /\ faults' = faults + 2
      <4>1. PICK rec : rec = [dlg[d] EXCEPT !.at = "freed", !.data = "leaked"]
        OBVIOUS
      <4>2. /\ rec \in DialogType /\ rec.at = "freed" /\ rec.data = "leaked" /\ rec.classHeld = dlg[d].classHeld
            /\ rec.hwnd = dlg[d].hwnd /\ rec.restorePending = dlg[d].restorePending /\ rec.blocking = dlg[d].blocking
        BY <1>2, <4>1 DEF DialogType
      <4>3. dlg' = [dlg EXCEPT ![d] = rec]
        BY <1>1, <3>2, <4>1
      <4>4. 0 = 0 + (IF rec.classHeld THEN 1 ELSE 0) - (IF dlg[d].classHeld THEN 1 ELSE 0)
        BY <4>2
      <4>5. classUsers' = classUsers + 0 /\ 0 \in Int
        BY <1>1, <3>2
      <4>6. faults' \in 0..MaxFaults
        BY <1>1, <3>2, ConstantsAssumption
      <4> QED
        BY <2>1, <4>2, <4>3, <4>4, <4>5, <4>6
    <3> QED
      BY <1>6, <2>1, <3>1, <3>2 DEF ForeignFallback
  <2>4. PICK rec \in DialogType, n \in Int :
          /\ dlg' = [dlg EXCEPT ![d] = rec] /\ classUsers' = classUsers + n
          /\ rec.at = "freed" /\ rec.data # "owned" /\ rec.hwnd = "none"
          /\ rec.restorePending = dlg[d].restorePending /\ rec.blocking = dlg[d].blocking
          /\ n = 0 + (IF rec.classHeld THEN 1 ELSE 0) - (IF dlg[d].classHeld THEN 1 ELSE 0)
          /\ faults' \in 0..MaxFaults
    BY <2>3
  <2>5. BlocksNoMore(d, rec)
    BY <2>4 DEF BlocksNoMore
  <2>6. win' \in WinType /\ BlockedWhileBlocking'
    BY <1>1, <1>3, <2>4, <2>5, RestoredSafely
  <2>7. NativeLists' /\ CleanupLists'
    BY <1>3, <2>1, <2>2 DEF NativeLists, CleanupLists
  <2>8. ClassCounted' /\ classUsers' \in Nat
    <3>1. retained' = retained + 0 /\ 0 \in Nat
      BY <1>1, <1>3
    <3> QED
      BY <1>1, <2>4, <3>1, ClassMoves
  <2>9. DialogsSound'
    <3>1. RecordSound(rec, fpc'[d], pc', retained')
      BY <1>1, <1>2, <1>3, <2>1, <2>4 DEF RecordSound, Leaving
    <3>2. retained' \in Nat /\ retained' >= retained /\ \A e \in Dialogs : e # d => fpc'[e] = fpc[e]
      BY <1>1, <1>3
    <3> QED
      BY <1>1, <1>3, <2>4, <3>1, <3>2, OthersSound
  <2>10. ThreadSound'
    BY <1>3, <2>1 DEF ThreadSound, Leaving
  <2>11. TypeOK'
    <3>1. dlg' \in [Dialogs -> DialogType] /\ fpc' \in [Dialogs -> Through]
      BY <1>1, <1>3, <2>4 DEF Through
    <3> QED
      BY <1>1, <1>3, <2>4, <2>6, <2>8, <3>1 DEF TypeOK, WinType, Through
  <2> QED
    BY <2>6, <2>7, <2>8, <2>9, <2>10, <2>11 DEF ProgressInv
<1> QED
  BY <1>5, <1>6 DEF ForeignFallback

-----------------------------------------------------------------------------
(* The specification *)

LEMMA InitInv ==
  ASSUME Init
  PROVE  ProgressInv
<1>1. PICK c : c = <<>> /\ c \in Seq(Dialogs) /\ Range(c) = {} /\ IsInjective(c)
  BY Emptied
<1>2. /\ registry = c /\ restoreChain = c /\ deferred = c /\ cleanup = c /\ pc = "idle"
      /\ \A d \in Dialogs : dlg[d] = Fresh /\ fpc[d] = "none"
  BY <1>1 DEF Init
<1>3. Fresh \in DialogType
  BY DEF Fresh, DialogType
<1>4. TypeOK
  <2>1. dlg \in [Dialogs -> DialogType] /\ fpc \in [Dialogs -> {"none", "defer", "deref", "lock", "fallback"}]
    BY <1>3 DEF Init
  <2>2. win \in [open : BOOLEAN, enabled : BOOLEAN, interaction : BOOLEAN, destroying : BOOLEAN]
    BY DEF Init
  <2>3. faults \in 0..MaxFaults /\ toggles \in 0..MaxToggles
    BY ConstantsAssumption DEF Init
  <2>4. /\ classUsers \in Nat /\ retained \in Nat /\ posted \in BOOLEAN /\ tries \in 0..2 /\ idx \in Nat \ {0}
        /\ cur \in Dialogs \cup {NoDialog}
    <3>1. classUsers = 0 /\ retained = 0 /\ posted = FALSE /\ tries = 0 /\ idx = 1 /\ cur = NoDialog
      BY DEF Init
    <3>2. classUsers \in Nat /\ retained \in Nat /\ tries \in 0..2 /\ idx \in Nat \ {0}
      BY <3>1
    <3>3. posted \in BOOLEAN
      BY <3>1, Zenon
    <3>4. cur \in Dialogs \cup {NoDialog}
      BY <3>1
    <3> QED
      BY <3>2, <3>3, <3>4
  <2> QED
    BY <1>1, <1>2, <2>1, <2>2, <2>3, <2>4 DEF TypeOK
<1>5. ~HasBlocking(registry)
  BY <1>1, <1>2, Blockers
<1>6. DialogsSound
  BY <1>2 DEF DialogsSound, RecordSound, Fresh, Leaving
<1>7. NativeLists /\ CleanupLists
  BY <1>1, <1>2 DEF NativeLists, CleanupLists
<1>8. ThreadSound
  BY <1>1, <1>2 DEF ThreadSound, Leaving
<1>9. ClassCounted
  <2>1. Holders = {}
    BY <1>2 DEF Holders, Fresh
  <2>2. IsFiniteSet({}) /\ Cardinality({}) = 0
    BY FS_EmptySet
  <2> QED
    BY <2>1, <2>2 DEF ClassCounted, Init
<1> QED
  BY <1>4, <1>5, <1>6, <1>7, <1>8, <1>9 DEF ProgressInv, BlockedWhileBlocking

LEMMA StutterInv ==
  ASSUME ProgressInv, UNCHANGED vars
  PROVE  ProgressInv'
<1>1. UNCHANGED <<dlg, registry, restoreChain, deferred, cleanup, classUsers, retained, win, posted, pc, cur, tries, idx,
                  fpc, faults, toggles>>
  BY DEF vars, chains, class, ctl
<1>2. TypeOK /\ pc \in Phases /\ CleanupLists /\ ThreadSound /\ BlockedWhileBlocking
  BY DEF ProgressInv, TypeOK, Phases
<1>3. PhaseKept
  BY <1>1, <1>2 DEF PhaseKept
<1>4. DialogsSound' /\ NativeLists' /\ ClassCounted' /\ (HasBlocking(registry)' <=> HasBlocking(registry))
  BY <1>1, <1>3, DialogsKept
<1>5. CleanupLists' /\ ThreadSound' /\ BlockedWhileBlocking'
  BY <1>1, <1>2, <1>4 DEF CleanupLists, ThreadSound, BlockedWhileBlocking
<1>6. TypeOK'
  BY <1>1, <1>2 DEF TypeOK
<1> QED
  BY <1>4, <1>5, <1>6 DEF ProgressInv

\* Every step keeps the invariant.
LEMMA NextInv ==
  ASSUME ProgressInv, [Next]_vars
  PROVE  ProgressInv'
<1>1. ASSUME NEW d \in Dialogs, DialogStep(d)
      PROVE  ProgressInv'
  <2>1. ASSUME NEW desc \in Descriptions, Open(d, desc) PROVE ProgressInv'
    BY <2>1, OpenInv
  <2>2. ASSUME NEW desc \in Descriptions, NEW point \in OpenPoints, OpenFails(d, desc, point) PROVE ProgressInv'
    BY <2>2, OpenFailsInv
  <2>3. CASE Close(d)
    BY <2>3, CloseInv
  <2>4. CASE Destroy(d)
    BY <2>4, DestroyInv
  <2>5. CASE RequestCancel(d) \/ ClearCancelRequest(d)
    BY <2>5, CancelInv
  <2>6. CASE NativeLoss(d)
    BY <2>6, NativeLossInv
  <2> QED
    BY <1>1, <2>1, <2>2, <2>3, <2>4, <2>5, <2>6 DEF DialogStep
<1>2. ASSUME NEW d \in Dialogs, ForeignStep(d)
      PROVE  ProgressInv'
  <2>1. CASE ForeignDestroy(d) \/ ReadOwnerThread(d) \/ ReadThroughPlatform(d) \/ DeferToOwner(d)
    BY <2>1, ForeignInv
  <2>2. CASE ForeignFallback(d)
    BY <2>2, ForeignFallbackInv
  <2> QED
    BY <1>2, <2>1, <2>2 DEF ForeignStep
<1>3. CASE WindowStep
  <2>1. CASE WindowNativeLoss
    BY <2>1, WindowNativeLossInv
  <2>2. CASE SetUserInteractionEnabled \/ CloseWindow
    BY <2>2, WindowInv
  <2> QED
    BY <1>3, <2>1, <2>2 DEF WindowStep
<1>4. CASE OwnerContinues
  <2>1. CASE RollbackOpen
    BY <2>1, RollbackOpenInv
  <2>2. CASE NotifyProgressOwnerLoss
    BY <2>2, NotifyProgressOwnerLossInv
  <2>3. CASE DestroyOwnerWindow
    BY <2>3, DestroyOwnerWindowInv
  <2>4. CASE CloseRollback
    BY <2>4, WindowInv
  <2>5. CASE PruneAbandonedStates
    BY <2>5, PruneAbandonedStatesInv
  <2>6. CASE FinalizeForExit
    BY <2>6, FinalizeForExitInv
  <2>7. CASE AbandonNativeForThreadExit
    BY <2>7, AbandonInv
  <2>8. CASE EndExit
    BY <2>8, EndExitInv
  <2> QED
    BY <1>4, <2>1, <2>2, <2>3, <2>4, <2>5, <2>6, <2>7, <2>8 DEF OwnerContinues
<1>5. CASE RestoreMessage
  BY <1>5, RestoreMessageInv
<1>6. CASE Pump
  BY <1>6, PumpInv
<1>7. CASE BeginExit
  BY <1>7, BeginExitInv
<1>8. CASE Ended \/ UNCHANGED vars
  BY <1>8, StutterInv DEF Ended
<1> QED
  BY <1>1, <1>2, <1>3, <1>4, <1>5, <1>6, <1>7, <1>8 DEF Next

\* ProgressInv holds in every reachable state, for any dialogs, descriptions and
\* numbers of native failures and changes of the Window: what the owner thread
\* (openProgress, finalizeNative, pruneAbandonedStates, ~Dispatcher) and foreign
\* destructors (deferProgressCleanupToOwner) rely on of each other.
THEOREM ProgressInvariance == Spec => []ProgressInv
<1>1. Init => ProgressInv
  BY InitInv
<1>2. ProgressInv /\ [Next]_vars => ProgressInv'
  BY NextInv
<1> QED
  BY <1>1, <1>2, PTL DEF Spec

\* The owner side of a progress dialog survives every failure of its destruction
\* (finalizeNative, abandonNativeForThreadExit, closeProgressBestEffort): the
\* owner Window stays disabled while a dialog blocks it, no native window or list
\* leads to freed memory, the window class outlives its windows and is counted
\* exactly, and nothing is released uncleaned before the owner thread exits.
THEOREM OwnersAreUsable == Spec => []OwnersStayUsable
<1>1. ProgressInv => OwnersStayUsable
  <2>1. SUFFICES ASSUME ProgressInv PROVE OwnersStayUsable
    OBVIOUS
  <2>2. /\ TypeOK /\ BlockedWhileBlocking /\ DialogsSound /\ NativeLists /\ CleanupLists /\ ClassCounted
        /\ Range(registry) \subseteq Dialogs /\ Range(restoreChain) \subseteq Dialogs
        /\ dlg \in [Dialogs -> DialogType] /\ retained \in Nat
    <3>1. TypeOK /\ BlockedWhileBlocking /\ DialogsSound /\ NativeLists /\ CleanupLists /\ ClassCounted
      BY <2>1 DEF ProgressInv
    <3>2. /\ registry \in Seq(Dialogs) /\ restoreChain \in Seq(Dialogs)
          /\ dlg \in [Dialogs -> DialogType] /\ retained \in Nat
      BY <3>1 DEF TypeOK
    <3> QED
      BY <3>1, <3>2, RangeOfSeq
  <2>3. ASSUME NEW d \in Dialogs PROVE RecordSound(dlg[d], fpc[d], pc, retained) /\ dlg[d] \in DialogType
    BY <2>2 DEF DialogsSound
  <2>4. NothingDangles
    <3>1. \A d \in Dialogs : dlg[d].hwnd = "live" => dlg[d].data \in {"owned", "leaked"}
      BY <2>3 DEF RecordSound
    <3>2. \A d \in Dialogs : dlg[d].data = "owned" => Alive(d)
      BY <2>3 DEF RecordSound, Alive
    <3>3. \A d \in Range(registry) \cup Range(restoreChain) : Alive(d)
      BY <2>2, <3>2 DEF NativeLists
    <3>4. \A d \in Range(deferred) \cup Range(cleanup) : dlg[d].at = "deferred"
      BY <2>2 DEF CleanupLists
    <3> QED
      BY <3>1, <3>2, <3>3, <3>4 DEF NothingDangles
  <2>5. ClassOutlivesWindows
    <3>1. /\ IsFiniteSet(Holders) /\ Cardinality(Holders) \in Nat
          /\ classUsers = retained + Cardinality(Holders)
      BY <2>2, FS_CardinalityType DEF ClassCounted
    <3>2. ASSUME NEW d \in Dialogs, dlg[d].hwnd # "none" PROVE classUsers > 0
      <4>1. CASE dlg[d].hwnd = "live"
        <5>1. d \in Holders
          BY <2>3, <4>1 DEF RecordSound, Holders
        <5>2. Cardinality(Holders) # 0
          BY <3>1, <5>1, FS_EmptySet
        <5> QED
          BY <2>2, <3>1, <5>2
      <4>2. CASE dlg[d].hwnd = "detached"
        <5>1. retained > 0
          BY <2>3, <4>2 DEF RecordSound
        <5> QED
          BY <2>2, <3>1, <5>1
      <4> QED
        BY <2>3, <3>2, <4>1, <4>2 DEF DialogType
    <3> QED
      BY <3>1, <3>2 DEF ClassOutlivesWindows, Holders
  <2>6. NothingLostBeforeExit
    <3>1. SUFFICES ASSUME NEW d \in Dialogs, dlg[d].at = "freed", RegistryUnlocked, pc # "exited"
                   PROVE  /\ dlg[d].hwnd = "none" /\ ~dlg[d].classHeld /\ ~dlg[d].blocking
                          /\ dlg[d].data \in {"none", "freed"}
      BY DEF NothingLostBeforeExit
    <3>2. pc \notin Leaving
      BY <3>1 DEF Leaving, RegistryUnlocked
    <3> QED
      BY <2>3, <3>1, <3>2 DEF RecordSound
  <2> QED
    BY <2>2, <2>4, <2>5, <2>6 DEF OwnersStayUsable
<1> QED
  BY <1>1, ProgressInvariance, PTL

=============================================================================
