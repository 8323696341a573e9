------------------------ MODULE LoggerDeliveryProofs ------------------------
(***************************************************************************)
(* Proofs about what the queue of the logger promises its callers, on top  *)
(* of the invariant of its ring: the worker is woken for every published   *)
(* record, every record is delivered once and in ticket order, and a flush *)
(* or a shutdown that returns covers the records accepted before it.       *)
(***************************************************************************)
EXTENDS LoggerQueueProofs, SequenceTheorems

-----------------------------------------------------------------------------
(* The wake-up of the worker.                                              *)

\* A producer's step other than a publication or a notification keeps every
\* obligation to notify.
LEMMA ObligationsKept ==
  ASSUME QueueInv, NEW p \in Producers,
         \/ Enter(p) \/ CheckRunning(p) \/ FilterEntry(p)
         \/ \E level \in Levels : ReserveQueueDepth(p, level)
         \/ TakeTicket(p) \/ WaitForQueueSlot(p) \/ CopyEntry(p)
         \/ PublishCount(p) \/ PublishHead(p) \/ Leave(p)
  PROVE  /\ UNCHANGED <<wpc, logMutex, ringSize, sequence, dequeueTicket>>
         /\ \A q \in Producers : WillNotify(q) => WillNotify(q)'
<1>1. UNCHANGED <<wpc, logMutex, ringSize, sequence, dequeueTicket>>
  BY DEF Enter, CheckRunning, FilterEntry, ReserveQueueDepth, TakeTicket, WaitForQueueSlot,
         CopyEntry, PublishCount, PublishHead, Leave, ringVars, flagVars, workerVars
<1>2. /\ pc = [q \in Producers |-> pc[q]] /\ ticket = [q \in Producers |-> ticket[q]]
      /\ notifyWorker = [q \in Producers |-> notifyWorker[q]]
  BY DEF QueueInv, TypeOK, ProducerType
<1>3. \A q \in Producers \ {p} : /\ pc'[q] = pc[q] /\ ticket'[q] = ticket[q]
                                 /\ notifyWorker'[q] = notifyWorker[q]
  BY <1>2 DEF Enter, CheckRunning, FilterEntry, ReserveQueueDepth, TakeTicket, WaitForQueueSlot,
     CopyEntry, PublishCount, PublishHead, Leave, Go, localVars
<1>4. WillNotify(p) => WillNotify(p)'
  <2>1. CASE \/ Enter(p) \/ CheckRunning(p) \/ FilterEntry(p)
             \/ \E level \in Levels : ReserveQueueDepth(p, level)
             \/ TakeTicket(p) \/ WaitForQueueSlot(p) \/ CopyEntry(p)
    BY <2>1 DEF Enter, CheckRunning, FilterEntry, ReserveQueueDepth, TakeTicket,
       WaitForQueueSlot, CopyEntry, Go, WillNotify
  <2>2. CASE PublishCount(p)
    BY <1>1, <1>2, <2>2 DEF PublishCount, Go, WillNotify, localVars
  <2>3. CASE PublishHead(p)
    BY <1>1, <1>2, <2>3 DEF PublishHead, Go, WillNotify
  <2>4. CASE Leave(p)
    BY <1>1, <1>2, <2>4 DEF Leave, Go, AfterLeave, WillNotify
  <2> QED BY <2>1, <2>2, <2>3, <2>4
<1> QED BY <1>1, <1>3, <1>4 DEF WillNotify

\* Publishing the head obliges the publisher; publishing another slot leaves
\* the head as it was.
LEMMA PublishKeepsWakeup ==
  ASSUME QueueInv, WakeupInv, NEW p \in Producers, PublishSequence(p) PROVE WakeupInv'
<1>1. /\ pc = [q \in Producers |-> pc[q]] /\ sequence = [i \in Slots |-> sequence[i]]
      /\ ticket[p] \in Nat /\ dequeueTicket \in Nat
      /\ pc[p] = "publish" /\ pc' = [pc EXCEPT ![p] = "count"]
      /\ sequence' = [sequence EXCEPT ![SlotOf(ticket[p])] = ticket[p] + 1]
      /\ UNCHANGED <<wpc, logMutex, ringSize, dequeueTicket, ticket, notifyWorker>>
  BY DEF QueueInv, TypeOK, ProducerType, RingType, PublishSequence, Go, workerVars, localVars, flagVars
<1>2. CASE ticket[p] = dequeueTicket
  <2>1. WillNotify(p)'
    BY <1>1, <1>2 DEF WillNotify
  <2> QED BY <1>1, <2>1 DEF WakeupInv, MutexHeldByWorker, WakeupPending
<1>3. CASE ticket[p] # dequeueTicket /\ wpc \in {"evalStop", "evalDepth", "waiting"}
  <2>1. Filling(p) /\ Moved = dequeueTicket
    BY <1>1, <1>3 DEF Filling, Moved
  <2>2. ticket[p] \in dequeueTicket..(enqueueTicket - 1)
    BY <2>1 DEF QueueInv, TicketsDistinct
  <2>3. SlotOf(ticket[p]) # SlotOf(dequeueTicket)
    BY <1>1, <1>3, <2>1, <2>2, WindowIsInjective, WindowFacts
  <2>4. sequence'[SlotOf(dequeueTicket)] = sequence[SlotOf(dequeueTicket)]
    BY <1>1, <2>3, SlotOfType
  <2>5. QueueHeadIsPublished' <=> QueueHeadIsPublished
    BY <1>1, <2>4 DEF QueueHeadIsPublished
  <2>6. \A q \in Producers : WillNotify(q) => WillNotify(q)'
    BY <1>1 DEF WillNotify
  <2> QED BY <1>1, <2>5, <2>6 DEF WakeupInv, MutexHeldByWorker, WakeupPending
<1>4. CASE wpc \notin {"evalStop", "evalDepth", "waiting"}
  BY <1>1, <1>4 DEF WakeupInv, MutexHeldByWorker, WakeupPending
<1> QED BY <1>2, <1>3, <1>4

\* Every step keeps the wake-up: notify_all needs the mutex that the worker
\* holds until it sleeps.
LEMMA WakeupStep ==
  ASSUME QueueInv, WakeupInv, [Next]_vars PROVE WakeupInv'
<1>1. logMutex \in {"free", "worker"}
  BY DEF QueueInv, TypeOK, FlagType
<1>2. ASSUME NEW p \in Producers,
             \/ Enter(p) \/ CheckRunning(p) \/ FilterEntry(p)
             \/ \E level \in Levels : ReserveQueueDepth(p, level)
             \/ TakeTicket(p) \/ WaitForQueueSlot(p) \/ CopyEntry(p)
             \/ PublishCount(p) \/ PublishHead(p) \/ Leave(p)
      PROVE  WakeupInv'
  <2>1. /\ UNCHANGED <<wpc, logMutex, ringSize, sequence, dequeueTicket>>
        /\ \A q \in Producers : WillNotify(q) => WillNotify(q)'
    BY <1>2, ObligationsKept
  <2>2. QueueHeadIsPublished' <=> QueueHeadIsPublished
    BY <2>1 DEF QueueHeadIsPublished
  <2> QED BY <2>1, <2>2 DEF WakeupInv, MutexHeldByWorker, WakeupPending
<1>3. ASSUME NEW p \in Producers, LeaveNotify(p) \/ WakeWorker(p) PROVE WakeupInv'
  <2>1. logMutex = "free" /\ logMutex' = logMutex /\ wpc' = IF wpc = "waiting" THEN "lock" ELSE wpc
    BY <1>3 DEF LeaveNotify, WakeWorker, NotifyAll, flagVars
  <2>2. wpc' \notin {"evalHead", "evalStop", "evalDepth", "exitCheck", "waiting"}
    BY <2>1 DEF WakeupInv, MutexHeldByWorker
  <2> QED BY <2>1, <2>2 DEF WakeupInv, MutexHeldByWorker, WakeupPending
<1>4. CASE EvalHead
  BY <1>4 DEF EvalHead, WorkerGo, flagVars, ringVars, QueueHeadIsPublished, WakeupInv,
     MutexHeldByWorker, WakeupPending
<1>5. CASE EvalStop \/ EvalDepth
  <2>1. /\ wpc \in {"evalStop", "evalDepth"} /\ UNCHANGED <<ringVars, prodVars>>
        /\ \/ wpc' \in {"evalDepth", "exitCheck"} /\ logMutex' = logMutex
           \/ wpc' = "waiting" /\ logMutex' = "free"
    BY <1>5 DEF EvalStop, EvalDepth, WorkerGo
  <2>2. /\ QueueHeadIsPublished' <=> QueueHeadIsPublished
        /\ \A q \in Producers : WillNotify(q)' <=> WillNotify(q)
    BY <2>1 DEF QueueHeadIsPublished, WillNotify, ringVars, prodVars, localVars
  <2> QED BY <1>1, <2>1, <2>2 DEF WakeupInv, MutexHeldByWorker, WakeupPending
<1>6. CASE \/ WorkerLock \/ ExitCheck \/ DrainNext \/ MoveEntry \/ AdvanceTicket \/ Unpublish
           \/ ReleaseDepth \/ DeliverBatch \/ WorkerIdle \/ WorkerNotify
  <2>1. /\ wpc' \notin {"evalStop", "evalDepth", "waiting"}
        /\ logMutex' = "worker" <=> wpc' \in {"evalHead", "exitCheck"}
    BY <1>1, <1>6 DEF WorkerLock, ExitCheck, DrainNext, MoveEntry, AdvanceTicket, Unpublish, ReleaseDepth,
       DeliverBatch, WorkerIdle, WorkerNotify, WorkerGo, flagVars, WakeupInv, MutexHeldByWorker
  <2> QED BY <2>1 DEF WakeupInv, MutexHeldByWorker, WakeupPending
<1>7. CASE InitPrepare \/ InitDisabled \/ InitNoSink \/ ShutdownClear
  <2>1. wpc \in {"none", "exited"} /\ wpc' \in {"none", "exited"} /\ logMutex' = logMutex
    BY <1>7 DEF InitPrepare, InitDisabled, ResetRuntimeState, InitNoSink, ShutdownClear, ControlGo,
       QueueInv, LifecycleConsistent, workerVars, flagVars
  <2> QED BY <2>1 DEF WakeupInv, MutexHeldByWorker, WakeupPending
<1>8. CASE \/ StartPublish \/ SpawnWorker \/ SpawnFails \/ WaitForActiveProducersToLeave \/ FlushBegin
           \/ FlushCheck \/ FlushTimesOut \/ FlushSinks \/ ShutdownStop \/ ShutdownNotify
           \/ ShutdownJoin \/ ShutdownFlush \/ UNCHANGED vars
  <2>1. /\ UNCHANGED <<ringVars, prodVars, logMutex>>
        /\ wpc' = wpc \/ (wpc \in {"waiting", "none"} /\ wpc' = "lock")
    BY <1>8 DEF StartPublish, SpawnWorker, SpawnFails, WaitForActiveProducersToLeave, FlushBegin,
       FlushCheck, FlushTimesOut, FlushSinks, FlushEnd, ShutdownStop, ShutdownNotify, ShutdownJoin,
       ShutdownFlush, ControlGo, vars, flagVars, workerVars, QueueInv, LifecycleConsistent
  <2>2. /\ QueueHeadIsPublished' <=> QueueHeadIsPublished
        /\ \A q \in Producers : WillNotify(q)' <=> WillNotify(q)
    BY <2>1 DEF QueueHeadIsPublished, WillNotify, ringVars, prodVars, localVars
  <2> QED BY <2>1, <2>2 DEF WakeupInv, MutexHeldByWorker, WakeupPending
<1> QED
  BY <1>2, <1>3, <1>4, <1>5, <1>6, <1>7, <1>8, PublishKeepsWakeup
     DEF Next, ProducerStep, WorkerStep, LifecycleStep, LifecycleCall

\* The worker never sleeps on a published head without somebody on the way to
\* notify it (publishQueueSlot, loggerWorker).
THEOREM WakeupsAreNotLost == Spec => []NoLostWakeup
<1>1. Init => WakeupInv
  BY DEF Init, WakeupInv, MutexHeldByWorker, WakeupPending
<1>2. QueueInv /\ WakeupInv /\ [Next]_vars => WakeupInv'
  BY WakeupStep
<1>3. WakeupInv => NoLostWakeup
  BY DEF WakeupInv, WakeupPending, NoLostWakeup
<1> QED BY <1>1, <1>2, <1>3, QueueInvariance, PTL DEF Spec

-----------------------------------------------------------------------------
(* Records that are due, for any set L of lost tickets and any sequence of *)
(* submitted records.                                                      *)

DueOf(L, n) == {i \in 1..n : i - 1 \notin L}

Begins(s, L, records, n) ==
  /\ Cardinality(DueOf(L, n)) <= Len(s)
  /\ \A i \in DueOf(L, n) : s[Cardinality(DueOf(L, i))] = records[i]

\* The records due among the first n tickets can be counted.
LEMMA DueFinite ==
  ASSUME NEW L, NEW n \in Nat
  PROVE  IsFiniteSet(DueOf(L, n)) /\ Cardinality(DueOf(L, n)) \in Nat
<1>1. DueOf(L, n) \subseteq 1..n /\ IsFiniteSet(1..n)
  BY FS_Interval DEF DueOf
<1> QED BY <1>1, FS_Subset, FS_CardinalityType

\* One more ticket is one more record, unless its copy failed.
LEMMA DueNext ==
  ASSUME NEW L, NEW n \in Nat
  PROVE  /\ n \in L => DueOf(L, n + 1) = DueOf(L, n)
         /\ n \notin L => /\ DueOf(L, n + 1) = DueOf(L, n) \cup {n + 1}
                          /\ Cardinality(DueOf(L, n + 1)) = Cardinality(DueOf(L, n)) + 1
<1>1. n \in L => DueOf(L, n + 1) = DueOf(L, n)
  BY DEF DueOf
<1>2. n \notin L => DueOf(L, n + 1) = DueOf(L, n) \cup {n + 1}
  BY DEF DueOf
<1>3. n + 1 \notin DueOf(L, n)
  BY DEF DueOf
<1> QED BY <1>1, <1>2, <1>3, DueFinite, FS_AddElement

\* The place of a due record is one of the places of the records due.
LEMMA DuePlace ==
  ASSUME NEW L, NEW n \in Nat, NEW i \in DueOf(L, n)
  PROVE  i \in 1..n /\ Cardinality(DueOf(L, i)) \in 1..Cardinality(DueOf(L, n))
<1>1. i \in 1..n /\ i \in Nat /\ i \in DueOf(L, i) /\ DueOf(L, i) \subseteq DueOf(L, n)
  BY DEF DueOf
<1>2. /\ IsFiniteSet(DueOf(L, n)) /\ Cardinality(DueOf(L, n)) \in Nat
      /\ IsFiniteSet(DueOf(L, i)) /\ Cardinality(DueOf(L, i)) \in Nat
  BY <1>1, DueFinite
<1>3. Cardinality(DueOf(L, i)) # 0
  BY <1>1, <1>2, FS_EmptySet
<1>4. Cardinality(DueOf(L, i)) <= Cardinality(DueOf(L, n))
  BY <1>1, <1>2, FS_Subset
<1> QED BY <1>1, <1>2, <1>3, <1>4

\* What becomes of later tickets changes nothing for the first n.
LEMMA DueSame ==
  ASSUME NEW L, NEW K, NEW n \in Nat, \A t \in 0..(n - 1) : t \in L <=> t \in K, NEW i \in 0..n
  PROVE  DueOf(K, i) = DueOf(L, i)
<1>1. \A j \in 1..i : j - 1 \in 0..(n - 1)
  OBVIOUS
<1> QED BY <1>1 DEF DueOf

\* A sequence that begins with the due records still does when it grows, when
\* more records are submitted and when copies of later tickets fail.
LEMMA BeginsKept ==
  ASSUME NEW L, NEW K, NEW n \in Nat, \A t \in 0..(n - 1) : t \in L <=> t \in K,
         NEW s, NEW r, Len(s) \in Nat, Len(r) \in Nat, Len(s) <= Len(r), \A k \in 1..Len(s) : r[k] = s[k],
         NEW records, NEW more, \A i \in 1..n : more[i] = records[i],
         Begins(s, L, records, n)
  PROVE  Begins(r, K, more, n)
<1>1. \A i \in 0..n : DueOf(K, i) = DueOf(L, i)
  BY DueSame
<1>2. DueOf(K, n) = DueOf(L, n) /\ Cardinality(DueOf(L, n)) \in Nat
  BY <1>1, DueFinite
<1>3. ASSUME NEW i \in DueOf(L, n) PROVE r[Cardinality(DueOf(K, i))] = more[i]
  <2>1. i \in 1..n /\ Cardinality(DueOf(L, i)) \in 1..Cardinality(DueOf(L, n))
    BY DuePlace
  <2>2. Cardinality(DueOf(L, i)) \in 1..Len(s)
    BY <1>2, <2>1 DEF Begins
  <2>3. DueOf(K, i) = DueOf(L, i)
    BY <1>1, <2>1
  <2> QED BY <2>1, <2>2, <2>3 DEF Begins
<1> QED BY <1>2, <1>3 DEF Begins

\* ... and it begins with what is due among fewer tickets.
LEMMA BeginsWithFewer ==
  ASSUME NEW L, NEW n \in Nat, NEW m \in Nat, m <= n, NEW s, Len(s) \in Nat, NEW records,
         Begins(s, L, records, n)
  PROVE  Begins(s, L, records, m)
<1>1. DueOf(L, m) \subseteq DueOf(L, n)
  BY DEF DueOf
<1>2. Cardinality(DueOf(L, m)) <= Cardinality(DueOf(L, n))
  BY <1>1, DueFinite, FS_Subset
<1>3. Cardinality(DueOf(L, m)) \in Nat /\ Cardinality(DueOf(L, n)) \in Nat
  BY DueFinite
<1>4. Cardinality(DueOf(L, m)) <= Len(s)
  BY <1>2, <1>3 DEF Begins
<1> QED BY <1>1, <1>4 DEF Begins

\* The entry of the next ticket, if it has one, comes next.
LEMMA BeginsNext ==
  ASSUME NEW L, NEW n \in Nat, NEW s \in Seq(Entries), NEW records, records[n + 1] \in Entries,
         Begins(s, L, records, n), Len(s) = Cardinality(DueOf(L, n))
  PROVE  /\ n \in L => Begins(s, L, records, n + 1) /\ Len(s) = Cardinality(DueOf(L, n + 1))
         /\ n \notin L => /\ Begins(Append(s, records[n + 1]), L, records, n + 1)
                          /\ Len(Append(s, records[n + 1])) = Cardinality(DueOf(L, n + 1))
<1>1. CASE n \in L
  BY <1>1, DueNext DEF Begins
<1>2. CASE n \notin L
  <2> DEFINE r == Append(s, records[n + 1])
  <2>1. Len(r) = Len(s) + 1 /\ r[Len(s) + 1] = records[n + 1] /\ \A k \in 1..Len(s) : r[k] = s[k]
    OBVIOUS
  <2> HIDE DEF r
  <2>2. Cardinality(DueOf(L, n + 1)) = Len(s) + 1 /\ DueOf(L, n + 1) = DueOf(L, n) \cup {n + 1}
    BY <1>2, DueNext
  <2>3. ASSUME NEW i \in DueOf(L, n) PROVE r[Cardinality(DueOf(L, i))] = records[i]
    <3>1. Cardinality(DueOf(L, i)) \in 1..Len(s)
      BY DuePlace
    <3> QED BY <2>1, <3>1 DEF Begins
  <2>4. r[Cardinality(DueOf(L, n + 1))] = records[n + 1]
    BY <2>1, <2>2
  <2>5. Cardinality(DueOf(L, n + 1)) <= Len(r) /\ Len(r) = Cardinality(DueOf(L, n + 1))
    BY <2>1, <2>2
  <2>6. \A i \in DueOf(L, n + 1) : r[Cardinality(DueOf(L, i))] = records[i]
    BY <2>2, <2>3, <2>4
  <2>7. Begins(r, L, records, n + 1) /\ Len(r) = Cardinality(DueOf(L, n + 1))
    BY <2>5, <2>6 DEF Begins
  <2> QED BY <1>2, <2>7 DEF r
<1> QED BY <1>1, <1>2

\* The operators of the model are these for the tickets lost and the records submitted so far.
LEMMA DueIsDueOf ==
  /\ \A n : Due(n) = DueOf(lost, n)
  /\ \A s, n : BeginsWithDue(s, n) <=> Begins(s, lost, submitted, n)
  /\ \A s, n : IsDue(s, n) <=> Begins(s, lost, submitted, n) /\ Len(s) = Cardinality(DueOf(lost, n))
BY DEF Due, DueOf, BeginsWithDue, Begins, IsDue

-----------------------------------------------------------------------------
(* Records and slots.                                                      *)

\* The ring begins to hold records of a run when init prepares it.
LEMMA DrainingBegins ==
  ASSUME QueueInv, [Next]_vars, Draining' PROVE Draining \/ InitPrepare
<1>1. LifecycleConsistent /\ ControlType
  BY DEF QueueInv, TypeOK
<1>2. ASSUME NEW p \in Producers, Enter(p) \/ ProducerStep(p) PROVE Draining
  BY <1>2 DEF ProducerStep, Enter, CheckRunning, FilterEntry, ReserveQueueDepth, TakeTicket,
     WaitForQueueSlot, CopyEntry, PublishSequence, PublishCount, PublishHead, Leave, LeaveNotify,
     WakeWorker, NotifyAll, workerVars, Draining
<1>3. CASE WorkerStep
  BY <1>3 DEF WorkerStep, WorkerLock, EvalHead, EvalStop, EvalDepth, ExitCheck, DrainNext, MoveEntry,
     AdvanceTicket, Unpublish, ReleaseDepth, DeliverBatch, WorkerIdle, WorkerNotify, WorkerGo, Draining
<1>4. CASE LifecycleStep \/ LifecycleCall
  BY <1>1, <1>4 DEF LifecycleStep, LifecycleCall, StartPublish, InitNoSink, SpawnWorker, SpawnFails,
     WaitForActiveProducersToLeave, FlushCheck, FlushSinks, FlushEnd, ShutdownNotify, ShutdownJoin,
     ShutdownFlush, ShutdownClear, InitDisabled, ResetRuntimeState, FlushBegin,
     FlushTimesOut, ShutdownStop, ControlGo, workerVars, Draining, LifecycleConsistent
<1>5. CASE UNCHANGED vars
  BY <1>5 DEF vars, workerVars, Draining
<1> QED BY <1>2, <1>3, <1>4, <1>5 DEF Next

\* Steps that touch neither the records nor the slots of the tickets in flight.
RecordFrame ==
  /\ UNCHANGED <<submitted, lost, slot, sequence, enqueueTicket, Moved>>
  /\ \A q \in Producers : Uncounted(q)' =>
       /\ Uncounted(q) /\ ticket'[q] = ticket[q] /\ record'[q] = record[q]
       /\ pc'[q] \in {"wait", "copy"} => pc[q] \in {"wait", "copy"}
       /\ pc'[q] = "publish" => pc[q] = "publish"

\* Steps that change neither the counters of tickets nor who has still to be counted.
CountFrame ==
  /\ UNCHANGED <<lost, enqueueTicket>>
  /\ stats'["queued"] = stats["queued"] /\ stats'["allocationFailures"] = stats["allocationFailures"]
  /\ \A q \in Producers : /\ Uncounted(q)' <=> Uncounted(q)
                          /\ Uncounted(q) => ticket'[q] = ticket[q]

\* A step that leaves the records and their holders alone keeps what the slots hold.
LEMMA RecordFrameKeeps ==
  ASSUME SlotsHoldRecords, RecordFrame PROVE SlotsHoldRecords'
<1>1. \A t : Content(t)' = Content(t)
  BY DEF RecordFrame, Content
<1>2. Len(submitted') = enqueueTicket' /\ lost' \subseteq 0..(enqueueTicket' - 1)
  BY DEF SlotsHoldRecords, RecordFrame
<1>3. ASSUME NEW p \in Producers, Uncounted(p)'
      PROVE  /\ ticket'[p] \in 0..(enqueueTicket' - 1)
             /\ \A q \in Producers \ {p} : Uncounted(q)' => ticket'[q] # ticket'[p]
             /\ pc'[p] \in {"wait", "copy"} => ticket'[p] \notin lost' /\ record'[p] = submitted'[ticket'[p] + 1]
             /\ pc'[p] = "publish" => slot'[SlotOf(ticket'[p])] = Content(ticket[p])'
  BY <1>1, <1>3 DEF SlotsHoldRecords, RecordFrame
<1>4. ASSUME NEW t \in Moved'..(enqueueTicket' - 1), sequence'[SlotOf(t)] = t + 1
      PROVE  slot'[SlotOf(t)] = Content(t)'
  BY <1>1, <1>4 DEF SlotsHoldRecords, RecordFrame
<1> QED BY <1>1, <1>2, <1>3, <1>4 DEF SlotsHoldRecords, RecordFrame

\* A step that leaves the counted tickets alone keeps the counters true.
LEMMA CountFrameKeeps ==
  ASSUME TicketsCountedOnce, CountFrame PROVE TicketsCountedOnce'
<1>1. /\ {p \in Producers : Uncounted(p)' /\ ticket'[p] \notin lost'}
           = {p \in Producers : Uncounted(p) /\ ticket[p] \notin lost}
      /\ {p \in Producers : Uncounted(p)' /\ ticket'[p] \in lost'}
           = {p \in Producers : Uncounted(p) /\ ticket[p] \in lost}
  BY DEF CountFrame
<1>2. Due(enqueueTicket)' = Due(enqueueTicket)
  BY DEF CountFrame, Due
<1> QED BY <1>1, <1>2 DEF TicketsCountedOnce, CountFrame

\* Facts about the types that the steps below use.
LEMMA HistoryFacts ==
  ASSUME QueueInv
  PROVE  /\ submitted \in Seq(Nat) /\ delivered \in Seq(Nat) /\ batch \in Seq(Nat)
         /\ pc = [q \in Producers |-> pc[q]] /\ ticket = [q \in Producers |-> ticket[q]]
         /\ record = [q \in Producers |-> record[q]] /\ slot = [i \in Slots |-> slot[i]]
         /\ sequence = [i \in Slots |-> sequence[i]] /\ stats = [c \in Counters |-> stats[c]]
         /\ \A q \in Producers : ticket[q] \in Nat /\ record[q] \in Nat
         /\ stats["queued"] \in Nat /\ stats["allocationFailures"] \in Nat
         /\ enqueueTicket \in Nat /\ dequeueTicket \in Nat
<1>1. submitted \in Seq(Nat) /\ delivered \in Seq(Nat) /\ batch \in Seq(Nat)
  BY DEF QueueInv, TypeOK, HistoryType, Entries
<1>2. /\ pc = [q \in Producers |-> pc[q]] /\ ticket = [q \in Producers |-> ticket[q]]
      /\ record = [q \in Producers |-> record[q]]
      /\ \A q \in Producers : ticket[q] \in Nat /\ record[q] \in Nat
  BY DEF QueueInv, TypeOK, ProducerType
<1>3. /\ slot = [i \in Slots |-> slot[i]] /\ sequence = [i \in Slots |-> sequence[i]]
      /\ enqueueTicket \in Nat /\ dequeueTicket \in Nat
  BY DEF QueueInv, TypeOK, RingType
<1>4. stats \in [Counters -> Nat] /\ {"queued", "allocationFailures"} \subseteq Counters
  BY DEF QueueInv, TypeOK, FlagType, Counters
<1>5. stats = [c \in Counters |-> stats[c]] /\ stats["queued"] \in Nat /\ stats["allocationFailures"] \in Nat
  BY <1>4
<1> QED BY <1>1, <1>2, <1>3, <1>5

\* Drawing a ticket submits the record of its producer.
LEMMA TakeTicketKeepsRecords ==
  ASSUME QueueInv, SlotsHoldRecords, NEW p \in Producers, TakeTicket(p)
  PROVE  SlotsHoldRecords'
<1> DEFINE e == enqueueTicket
<1>1. /\ pc[p] = "ticket" /\ pc' = [pc EXCEPT ![p] = "wait"] /\ ticket' = [ticket EXCEPT ![p] = e]
      /\ e' = e + 1 /\ submitted' = Append(submitted, record[p])
      /\ UNCHANGED <<sequence, slot, lost, record, wpc, dequeueTicket>>
  BY DEF TakeTicket, Go, workerVars
<1>2. Moved' = Moved /\ Moved \in Nat /\ e \in Nat
  BY <1>1, HistoryFacts, WindowFacts DEF Moved
<1>3. /\ Len(submitted') = e + 1 /\ submitted'[e + 1] = record[p]
      /\ \A i \in 1..e : submitted'[i] = submitted[i]
  <2>1. submitted \in Seq(Nat) /\ record[p] \in Nat
    BY HistoryFacts
  <2>2. Len(submitted) = e /\ submitted' = Append(submitted, record[p])
    BY <1>1 DEF SlotsHoldRecords
  <2>3. /\ Len(Append(submitted, record[p])) = Len(submitted) + 1
        /\ Append(submitted, record[p])[Len(submitted) + 1] = record[p]
        /\ \A i \in 1..Len(submitted) : Append(submitted, record[p])[i] = submitted[i]
    BY <2>1
  <2> QED BY <2>2, <2>3
<1>4. \A t \in 0..(e - 1) : Content(t)' = Content(t)
  BY <1>1, <1>2, <1>3 DEF Content
<1>5. lost' \subseteq 0..(e' - 1) /\ e \notin lost
  BY <1>1, <1>2 DEF SlotsHoldRecords
<1>6. /\ \A q \in Producers \ {p} : (Uncounted(q)' <=> Uncounted(q)) /\ ticket'[q] = ticket[q] /\ pc'[q] = pc[q]
      /\ ticket'[p] = e /\ pc'[p] = "wait" /\ ~Uncounted(p)
  BY <1>1, HistoryFacts DEF Uncounted
<1>7. ASSUME NEW q \in Producers, Uncounted(q)'
      PROVE  /\ ticket'[q] \in 0..(e' - 1)
             /\ \A x \in Producers \ {q} : Uncounted(x)' => ticket'[x] # ticket'[q]
             /\ pc'[q] \in {"wait", "copy"} => ticket'[q] \notin lost' /\ record'[q] = submitted'[ticket'[q] + 1]
             /\ pc'[q] = "publish" => slot'[SlotOf(ticket'[q])] = (Content(ticket[q]))'
  <2>1. CASE q = p
    <3>1. \A x \in Producers \ {q} : Uncounted(x)' => ticket'[x] # ticket'[q]
      BY <1>2, <1>6, <2>1 DEF SlotsHoldRecords
    <3> QED BY <1>1, <1>2, <1>3, <1>5, <1>6, <2>1, <3>1
  <2>2. CASE q # p
    <3>1. Uncounted(q) /\ ticket'[q] = ticket[q] /\ pc'[q] = pc[q] /\ ticket[q] \in 0..(e - 1)
      BY <1>6, <1>7, <2>2 DEF SlotsHoldRecords
    <3>2. \A x \in Producers \ {q} : Uncounted(x)' => ticket'[x] # ticket'[q]
      BY <1>2, <1>6, <3>1 DEF SlotsHoldRecords
    <3>3. ticket[q] + 1 \in 1..e /\ ticket'[q] \in 0..(e' - 1)
      BY <1>1, <1>2, <3>1
    <3>4. (Content(ticket[q]))' = Content(ticket[q])
      BY <1>4, <3>1 DEF Content
    <3> QED BY <1>1, <1>3, <3>1, <3>2, <3>3, <3>4 DEF SlotsHoldRecords
  <2> QED BY <2>1, <2>2
<1>8. ASSUME NEW t \in Moved'..(e' - 1), sequence'[SlotOf(t)] = t + 1
      PROVE  slot'[SlotOf(t)] = Content(t)'
  <2>1. CASE t = e
    <3>1. e \in e..(Moved + HardLimit - 1)
      BY <1>1, <1>2, WindowFacts DEF Reserving
    <3>2. sequence[SlotOf(e)] = e
      BY <3>1 DEF QueueInv, SequencesOrdered
    <3> QED BY <1>1, <1>2, <1>8, <2>1, <3>2
  <2>2. CASE t # e
    <3>1. t \in Moved..(e - 1) /\ t \in 0..(e - 1)
      BY <1>1, <1>2, <2>2
    <3> QED BY <1>1, <1>4, <1>8, <3>1 DEF SlotsHoldRecords
  <2> QED BY <2>1, <2>2
<1> QED BY <1>1, <1>3, <1>5, <1>7, <1>8 DEF SlotsHoldRecords

\* Tickets that are being filled have slots of their own, and so has every other ticket of the window.
LEMMA FillingSlots ==
  ASSUME QueueInv, NEW p \in Producers, Filling(p), NEW t \in Moved..(enqueueTicket - 1), t # ticket[p]
  PROVE  SlotOf(t) # SlotOf(ticket[p]) /\ SlotOf(t) \in Slots /\ SlotOf(ticket[p]) \in Slots
<1>1. ticket[p] \in Moved..(enqueueTicket - 1)
  BY DEF QueueInv, TicketsDistinct
<1>2. /\ t \in Nat /\ ticket[p] \in Nat
      /\ t < ticket[p] + HardLimit /\ ticket[p] < t + HardLimit
  BY <1>1, WindowFacts
<1> QED BY <1>2, WindowIsInjective, SlotOfType

\* The copy of a record fills its slot with what its ticket stands for.
LEMMA CopyKeepsRecords ==
  ASSUME QueueInv, SlotsHoldRecords, NEW p \in Producers, CopyEntry(p)
  PROVE  SlotsHoldRecords'
<1> DEFINE e == enqueueTicket
           t0 == ticket[p]
<1>1. /\ pc[p] = "copy" /\ pc' = [pc EXCEPT ![p] = "publish"]
      /\ \/ slot' = [slot EXCEPT ![SlotOf(t0)] = Filled(record[p])] /\ lost' = lost
         \/ slot' = [slot EXCEPT ![SlotOf(t0)] = Skipped] /\ lost' = lost \cup {t0}
      /\ UNCHANGED <<sequence, submitted, enqueueTicket, dequeueTicket, ticket, record, wpc>>
  BY DEF CopyEntry, Go, workerVars, localVars
<1>2. Moved' = Moved /\ Moved \in Nat /\ e \in Nat
  BY <1>1, HistoryFacts, WindowFacts DEF Moved
<1>3. /\ Filling(p) /\ Uncounted(p) /\ t0 \in 0..(e - 1) /\ t0 \notin lost /\ record[p] = submitted[t0 + 1]
      /\ \A q \in Producers \ {p} : Uncounted(q) => ticket[q] # t0
  BY <1>1 DEF Filling, Uncounted, SlotsHoldRecords
<1>4. SlotOf(t0) \in Slots /\ sequence[SlotOf(t0)] = t0
  <2>1. t0 \in Moved..(e - 1)
    BY <1>3 DEF QueueInv, TicketsDistinct
  <2> QED BY <1>3, <2>1, SlotOfType, HistoryFacts DEF QueueInv, SequencesOrdered
<1>5. slot'[SlotOf(t0)] = (Content(t0))'
  <2>1. slot'[SlotOf(t0)] = IF t0 \in lost' THEN Skipped ELSE Filled(submitted[t0 + 1])
    BY <1>1, <1>3, <1>4, HistoryFacts
  <2> QED BY <1>1, <2>1 DEF Content
<1>6. \A t : t # t0 => (t \in lost' <=> t \in lost) /\ Content(t)' = Content(t)
  BY <1>1 DEF Content
<1>7. \A t \in Moved..(e - 1) : t # t0 => slot'[SlotOf(t)] = slot[SlotOf(t)]
  BY <1>1, <1>3, FillingSlots, HistoryFacts
<1>8. \A q \in Producers : /\ Uncounted(q)' <=> Uncounted(q)
                           /\ q # p => pc'[q] = pc[q]
                           /\ q = p => pc'[q] = "publish"
  BY <1>1, HistoryFacts DEF Uncounted
<1>9. lost' \subseteq 0..(e' - 1) /\ Len(submitted') = e'
  BY <1>1, <1>3 DEF SlotsHoldRecords
<1>10. ASSUME NEW q \in Producers, Uncounted(q)'
       PROVE  /\ ticket'[q] \in 0..(e' - 1)
              /\ \A x \in Producers \ {q} : Uncounted(x)' => ticket'[x] # ticket'[q]
              /\ pc'[q] \in {"wait", "copy"} => ticket'[q] \notin lost' /\ record'[q] = submitted'[ticket'[q] + 1]
              /\ pc'[q] = "publish" => slot'[SlotOf(ticket'[q])] = (Content(ticket[q]))'
  <2>1. Uncounted(q) /\ ticket'[q] = ticket[q] /\ ticket'[q] \in 0..(e' - 1)
        /\ \A x \in Producers \ {q} : Uncounted(x)' => ticket'[x] # ticket'[q]
    BY <1>1, <1>8, <1>10 DEF SlotsHoldRecords
  <2>2. CASE q = p
    BY <1>1, <1>5, <1>8, <2>1, <2>2
  <2>3. CASE q # p
    <3>1. ticket[q] # t0 /\ pc'[q] = pc[q]
      BY <1>3, <1>8, <2>1, <2>3
    <3>2. (Content(ticket[q]))' = Content(ticket[q]) /\ (ticket[q] \in lost' <=> ticket[q] \in lost)
      BY <1>1, <1>6, <3>1 DEF Content
    <3>3. pc[q] = "publish" => slot'[SlotOf(ticket[q])] = slot[SlotOf(ticket[q])]
      <4>1. pc[q] = "publish" => ticket[q] \in Moved..(e - 1)
        BY DEF QueueInv, TicketsDistinct, Filling
      <4> QED BY <1>7, <3>1, <4>1
    <3> QED BY <1>1, <2>1, <3>1, <3>2, <3>3 DEF SlotsHoldRecords
  <2> QED BY <2>2, <2>3
<1>11. ASSUME NEW t \in Moved'..(e' - 1), sequence'[SlotOf(t)] = t + 1
       PROVE  slot'[SlotOf(t)] = Content(t)'
  <2>1. t \in Moved..(e - 1) /\ sequence[SlotOf(t)] = t + 1
    BY <1>1, <1>2, <1>11
  <2>2. t # t0
    BY <1>2, <1>4, <2>1
  <2> QED BY <1>6, <1>7, <2>1, <2>2 DEF SlotsHoldRecords
<1> QED BY <1>1, <1>9, <1>10, <1>11 DEF SlotsHoldRecords

\* Publishing a slot shows the worker what was copied into it.
LEMMA PublishKeepsRecords ==
  ASSUME QueueInv, SlotsHoldRecords, NEW p \in Producers, PublishSequence(p)
  PROVE  SlotsHoldRecords'
<1> DEFINE e == enqueueTicket
           t0 == ticket[p]
<1>1. /\ pc[p] = "publish" /\ pc' = [pc EXCEPT ![p] = "count"]
      /\ sequence' = [sequence EXCEPT ![SlotOf(t0)] = t0 + 1]
      /\ UNCHANGED <<slot, lost, submitted, enqueueTicket, dequeueTicket, ticket, record, wpc>>
  BY DEF PublishSequence, Go, workerVars, localVars, histVars
<1>2. Moved' = Moved /\ \A t : Content(t)' = Content(t)
  BY <1>1 DEF Moved, Content
<1>3. Filling(p) /\ Uncounted(p) /\ slot[SlotOf(t0)] = Content(t0)
  BY <1>1 DEF Filling, Uncounted, SlotsHoldRecords
<1>4. \A q \in Producers : /\ Uncounted(q)' <=> Uncounted(q)
                           /\ q # p => pc'[q] = pc[q]
                           /\ q = p => pc'[q] = "count"
  BY <1>1, HistoryFacts DEF Uncounted
<1>5. Len(submitted') = e' /\ lost' \subseteq 0..(e' - 1)
  BY <1>1 DEF SlotsHoldRecords
<1>6. ASSUME NEW q \in Producers, Uncounted(q)'
      PROVE  /\ ticket'[q] \in 0..(e' - 1)
             /\ \A x \in Producers \ {q} : Uncounted(x)' => ticket'[x] # ticket'[q]
             /\ pc'[q] \in {"wait", "copy"} => ticket'[q] \notin lost' /\ record'[q] = submitted'[ticket'[q] + 1]
             /\ pc'[q] = "publish" => slot'[SlotOf(ticket'[q])] = (Content(ticket[q]))'
  <2>1. (Content(ticket[q]))' = Content(ticket[q])
    BY <1>1 DEF Content
  <2> QED BY <1>1, <1>4, <1>6, <2>1 DEF SlotsHoldRecords
<1>7. ASSUME NEW t \in Moved'..(e' - 1), sequence'[SlotOf(t)] = t + 1
      PROVE  slot'[SlotOf(t)] = Content(t)'
  <2>1. CASE t = t0
    BY <1>1, <1>2, <1>3, <2>1
  <2>2. CASE t # t0
    <3>1. t \in Moved..(e - 1)
      BY <1>1, <1>2
    <3>2. sequence'[SlotOf(t)] = sequence[SlotOf(t)]
      BY <1>1, <1>3, <2>2, <3>1, FillingSlots, HistoryFacts
    <3> QED BY <1>1, <1>2, <1>7, <3>1, <3>2 DEF SlotsHoldRecords
  <2> QED BY <2>1, <2>2
<1> QED BY <1>1, <1>5, <1>6, <1>7 DEF SlotsHoldRecords

\* Moving the head out of its slot touches the slot of no other ticket.
LEMMA MoveKeepsRecords ==
  ASSUME QueueInv, SlotsHoldRecords, MoveEntry
  PROVE  SlotsHoldRecords'
<1> DEFINE e == enqueueTicket
           d == dequeueTicket
<1>1. /\ wpc = "move" /\ wpc' = "advance"
      /\ sequence' = [sequence EXCEPT ![SlotOf(d)] = d + HardLimit]
      /\ slot' = [slot EXCEPT ![SlotOf(d)] = Cleared]
      /\ UNCHANGED <<lost, submitted, enqueueTicket, dequeueTicket, ticket, record, pc>>
  BY DEF MoveEntry, WorkerGo, prodVars, localVars, histVars
<1>2. Moved = d /\ Moved' = d + 1 /\ d \in Nat /\ e \in Nat /\ d < e /\ e <= d + HardLimit
      /\ \A q \in Producers : Filling(q) => ticket[q] # d
  BY <1>1, WindowFacts DEF Moved
<1>3. \A t : Content(t)' = Content(t)
  BY <1>1 DEF Content
<1>4. ASSUME NEW t \in (d + 1)..(e - 1)
      PROVE  slot'[SlotOf(t)] = slot[SlotOf(t)] /\ sequence'[SlotOf(t)] = sequence[SlotOf(t)]
  <2>1. t \in Nat /\ t # d /\ t < d + HardLimit /\ d < t + HardLimit
    BY <1>2, WindowFacts
  <2>2. SlotOf(t) # SlotOf(d) /\ SlotOf(t) \in Slots /\ SlotOf(d) \in Slots
    BY <1>2, <2>1, WindowIsInjective, SlotOfType
  <2> QED BY <1>1, <2>2, HistoryFacts
<1>5. Len(submitted') = e' /\ lost' \subseteq 0..(e' - 1)
  BY <1>1 DEF SlotsHoldRecords
<1>6. ASSUME NEW q \in Producers, Uncounted(q)'
      PROVE  /\ ticket'[q] \in 0..(e' - 1)
             /\ \A x \in Producers \ {q} : Uncounted(x)' => ticket'[x] # ticket'[q]
             /\ pc'[q] \in {"wait", "copy"} => ticket'[q] \notin lost' /\ record'[q] = submitted'[ticket'[q] + 1]
             /\ pc'[q] = "publish" => slot'[SlotOf(ticket'[q])] = (Content(ticket[q]))'
  <2>1. (Content(ticket[q]))' = Content(ticket[q]) /\ Uncounted(q)
    BY <1>1, <1>6 DEF Content, Uncounted
  <2>2. pc[q] = "publish" => ticket[q] \in (d + 1)..(e - 1)
    <3>1. pc[q] = "publish" => Filling(q)
      BY DEF Filling
    <3>2. Filling(q) => ticket[q] \in d..(e - 1) /\ ticket[q] # d
      BY <1>2 DEF QueueInv, TicketsDistinct
    <3> QED BY <1>2, <3>1, <3>2
  <2>3. pc[q] = "publish" => slot'[SlotOf(ticket[q])] = slot[SlotOf(ticket[q])]
    BY <1>4, <2>2
  <2>4. /\ ticket[q] \in 0..(e - 1)
        /\ \A x \in Producers \ {q} : Uncounted(x) => ticket[x] # ticket[q]
        /\ pc[q] \in {"wait", "copy"} => ticket[q] \notin lost /\ record[q] = submitted[ticket[q] + 1]
        /\ pc[q] = "publish" => slot[SlotOf(ticket[q])] = Content(ticket[q])
    BY <2>1 DEF SlotsHoldRecords
  <2>5. \A x \in Producers : Uncounted(x)' <=> Uncounted(x)
    BY <1>1 DEF Uncounted
  <2> QED BY <1>1, <2>1, <2>3, <2>4, <2>5
<1>7. ASSUME NEW t \in Moved'..(e' - 1), sequence'[SlotOf(t)] = t + 1
      PROVE  slot'[SlotOf(t)] = Content(t)'
  <2>1. t \in (d + 1)..(e - 1) /\ t \in Moved..(e - 1)
    BY <1>1, <1>2
  <2> QED BY <1>3, <1>4, <1>7, <2>1 DEF SlotsHoldRecords
<1> QED BY <1>1, <1>5, <1>6, <1>7 DEF SlotsHoldRecords

-----------------------------------------------------------------------------
(* Statistics.                                                             *)

Waiting0 == {p \in Producers : Uncounted(p) /\ ticket[p] \notin lost}
Waiting1 == {p \in Producers : Uncounted(p) /\ ticket[p] \in lost}

\* The counters by the producers that have not counted their ticket yet.
LEMMA CountsAre ==
  /\ TicketsCountedOnce <=> /\ stats["queued"] + Cardinality(Waiting0) = Cardinality(Due(enqueueTicket))
                            /\ stats["allocationFailures"] + Cardinality(Waiting1) = Cardinality(lost)
  /\ IsFiniteSet(Waiting0) /\ IsFiniteSet(Waiting1)
  /\ Cardinality(Waiting0) \in Nat /\ Cardinality(Waiting1) \in Nat
<1>1. Waiting0 \subseteq Producers /\ Waiting1 \subseteq Producers
  BY DEF Waiting0, Waiting1
<1> QED BY <1>1, FS_Subset, FS_CardinalityType, QueueAssumption DEF TicketsCountedOnce, Waiting0, Waiting1

\* The two sums, with the types that arithmetic on them needs.
LEMMA CountFacts ==
  ASSUME QueueInv, TicketsCountedOnce
  PROVE  /\ stats["queued"] + Cardinality(Waiting0) = Cardinality(Due(enqueueTicket))
         /\ stats["allocationFailures"] + Cardinality(Waiting1) = Cardinality(lost)
         /\ Cardinality(Waiting0) \in Nat /\ Cardinality(Waiting1) \in Nat
         /\ stats["queued"] \in Nat /\ stats["allocationFailures"] \in Nat
<1>1. stats["queued"] \in Nat /\ stats["allocationFailures"] \in Nat
  BY HistoryFacts
<1> QED BY <1>1, CountsAre

\* A drawn ticket is one more record that is due, and one more producer to be counted.
LEMMA TakeTicketKeepsCounts ==
  ASSUME QueueInv, SlotsHoldRecords, TicketsCountedOnce, NEW p \in Producers, TakeTicket(p)
  PROVE  TicketsCountedOnce'
<1> DEFINE e == enqueueTicket
<1>1. /\ pc[p] = "ticket" /\ pc' = [pc EXCEPT ![p] = "wait"] /\ ticket' = [ticket EXCEPT ![p] = e]
      /\ e' = e + 1 /\ UNCHANGED <<lost, stats>>
  BY DEF TakeTicket, Go
<1>2. e \in Nat /\ e \notin lost
  BY HistoryFacts DEF SlotsHoldRecords
<1>3. Waiting0' = Waiting0 \cup {p} /\ p \notin Waiting0 /\ Waiting1' = Waiting1
  BY <1>1, <1>2, HistoryFacts DEF Waiting0, Waiting1, Uncounted
<1>4. Cardinality(Waiting0') = Cardinality(Waiting0) + 1
  BY <1>3, CountsAre, FS_AddElement
<1>5. Cardinality(Due(e)') = Cardinality(Due(e)) + 1 /\ Cardinality(Due(e)) \in Nat
  <2>1. Due(e)' = DueOf(lost, e + 1) /\ Due(e) = DueOf(lost, e)
    BY <1>1 DEF Due, DueOf
  <2> QED BY <1>2, <2>1, DueNext, DueFinite
<1>6. /\ stats'["queued"] + Cardinality(Waiting0') = Cardinality(Due(e)')
      /\ stats'["allocationFailures"] + Cardinality(Waiting1') = Cardinality(lost')
  BY <1>1, <1>3, <1>4, <1>5, CountFacts
<1> QED BY <1>6 DEF TicketsCountedOnce, Waiting0, Waiting1

\* A failed copy moves its producer and its ticket from one count to the other.
LEMMA CopyKeepsCounts ==
  ASSUME QueueInv, SlotsHoldRecords, TicketsCountedOnce, NEW p \in Producers, CopyEntry(p)
  PROVE  TicketsCountedOnce'
<1> DEFINE e == enqueueTicket
           t0 == ticket[p]
<1>1. /\ pc[p] = "copy" /\ pc' = [pc EXCEPT ![p] = "publish"]
      /\ lost' = lost \/ lost' = lost \cup {t0}
      /\ UNCHANGED <<enqueueTicket, ticket, stats>>
  BY DEF CopyEntry, Go, localVars
<1>2. \A q \in Producers : Uncounted(q)' <=> Uncounted(q)
  BY <1>1, HistoryFacts DEF Uncounted
<1>3. CASE lost' = lost
  <2>1. CountFrame
    BY <1>1, <1>2, <1>3 DEF CountFrame
  <2> QED BY <2>1, CountFrameKeeps
<1>4. CASE lost' = lost \cup {t0}
  <2>1. /\ Uncounted(p) /\ t0 \in 0..(e - 1) /\ t0 \notin lost /\ e \in Nat
        /\ \A q \in Producers \ {p} : Uncounted(q) => ticket[q] # t0
        /\ lost \subseteq 0..(e - 1)
    BY <1>1, HistoryFacts DEF Uncounted, SlotsHoldRecords
  <2>2. Waiting0' = Waiting0 \ {p} /\ p \in Waiting0 /\ Waiting1' = Waiting1 \cup {p} /\ p \notin Waiting1
    BY <1>1, <1>2, <1>4, <2>1 DEF Waiting0, Waiting1
  <2>3. Cardinality(Waiting0') = Cardinality(Waiting0) - 1 /\ Cardinality(Waiting1') = Cardinality(Waiting1) + 1
    BY <2>2, CountsAre, FS_AddElement, FS_RemoveElement
  <2>4. IsFiniteSet(lost) /\ Cardinality(lost) \in Nat
    <3>1. IsFiniteSet(0..(e - 1))
      BY <2>1, FS_Interval
    <3>2. IsFiniteSet(lost)
      BY <2>1, <3>1, FS_Subset
    <3> QED BY <3>2, FS_CardinalityType
  <2>5. Cardinality(lost') = Cardinality(lost) + 1
    BY <1>4, <2>1, <2>4, FS_AddElement
  <2>6. Due(e)' = Due(e) \ {t0 + 1} /\ t0 + 1 \in Due(e)
    BY <1>1, <1>4, <2>1 DEF Due
  <2>7. IsFiniteSet(Due(e)) /\ Cardinality(Due(e)) \in Nat
    BY <2>1, DueFinite DEF Due, DueOf
  <2>8. Cardinality(Due(e)') = Cardinality(Due(e)) - 1
    BY <2>6, <2>7, FS_RemoveElement
  <2>9. /\ stats'["queued"] + Cardinality(Waiting0') = Cardinality(Due(e)')
        /\ stats'["allocationFailures"] + Cardinality(Waiting1') = Cardinality(lost')
    BY <1>1, <2>3, <2>4, <2>5, <2>7, <2>8, CountFacts
  <2> QED BY <2>9 DEF TicketsCountedOnce, Waiting0, Waiting1
<1> QED BY <1>1, <1>3, <1>4

\* The counter of a published ticket takes over from its producer.
LEMMA PublishHeadKeepsCounts ==
  ASSUME QueueInv, TicketsCountedOnce, NEW p \in Producers, PublishHead(p)
  PROVE  TicketsCountedOnce'
<1> DEFINE e == enqueueTicket
<1>1. /\ pc[p] = "head" /\ pc' = [pc EXCEPT ![p] = "leave"]
      /\ stats' = [stats EXCEPT ![IF ticket[p] \in lost THEN "allocationFailures" ELSE "queued"] = @ + 1]
      /\ UNCHANGED <<enqueueTicket, ticket, lost>>
  BY DEF PublishHead, Go, Count, ringVars, histVars
<1>2. Due(e)' = Due(e)
  BY <1>1 DEF Due
<1>3. "queued" \in Counters /\ "allocationFailures" \in Counters
  BY DEF Counters
<1>4. CASE ticket[p] \in lost
  <2>1. Waiting1' = Waiting1 \ {p} /\ p \in Waiting1 /\ Waiting0' = Waiting0
    BY <1>1, <1>4, HistoryFacts DEF Waiting0, Waiting1, Uncounted
  <2>2. Cardinality(Waiting1') = Cardinality(Waiting1) - 1
    BY <2>1, CountsAre, FS_RemoveElement
  <2>3. stats'["allocationFailures"] = stats["allocationFailures"] + 1 /\ stats'["queued"] = stats["queued"]
    BY <1>1, <1>3, <1>4, HistoryFacts
  <2>4. /\ stats'["queued"] + Cardinality(Waiting0') = Cardinality(Due(e)')
        /\ stats'["allocationFailures"] + Cardinality(Waiting1') = Cardinality(lost')
    BY <1>1, <1>2, <2>1, <2>2, <2>3, CountFacts
  <2> QED BY <2>4 DEF TicketsCountedOnce, Waiting0, Waiting1
<1>5. CASE ticket[p] \notin lost
  <2>1. Waiting0' = Waiting0 \ {p} /\ p \in Waiting0 /\ Waiting1' = Waiting1
    BY <1>1, <1>5, HistoryFacts DEF Waiting0, Waiting1, Uncounted
  <2>2. Cardinality(Waiting0') = Cardinality(Waiting0) - 1
    BY <2>1, CountsAre, FS_RemoveElement
  <2>3. stats'["queued"] = stats["queued"] + 1 /\ stats'["allocationFailures"] = stats["allocationFailures"]
    BY <1>1, <1>3, <1>5, HistoryFacts
  <2>4. /\ stats'["queued"] + Cardinality(Waiting0') = Cardinality(Due(e)')
        /\ stats'["allocationFailures"] + Cardinality(Waiting1') = Cardinality(lost')
    BY <1>1, <1>2, <2>1, <2>2, <2>3, CountFacts
  <2> QED BY <2>4 DEF TicketsCountedOnce, Waiting0, Waiting1
<1> QED BY <1>4, <1>5

-----------------------------------------------------------------------------
(* The steps that leave records, slots and counts alone.                   *)

\* A producer before its ticket, waiting for its slot, or past its counters.
LEMMA QuietProducers ==
  ASSUME QueueInv, NEW p \in Producers,
         \/ Enter(p) \/ CheckRunning(p) \/ FilterEntry(p)
         \/ \E level \in Levels : ReserveQueueDepth(p, level)
         \/ WaitForQueueSlot(p) \/ PublishCount(p) \/ Leave(p) \/ LeaveNotify(p) \/ WakeWorker(p)
  PROVE  RecordFrame /\ CountFrame
<1>1. /\ UNCHANGED <<submitted, lost, slot, sequence, enqueueTicket, dequeueTicket>>
      /\ wpc' = wpc \/ (wpc = "waiting" /\ wpc' = "lock")
  BY DEF Enter, CheckRunning, FilterEntry, ReserveQueueDepth, WaitForQueueSlot, PublishCount, Leave,
     LeaveNotify, WakeWorker, NotifyAll, ringVars, histVars, workerVars
<1>2. Moved' = Moved
  BY <1>1 DEF Moved
<1>3. stats'["queued"] = stats["queued"] /\ stats'["allocationFailures"] = stats["allocationFailures"]
  <2>1. CASE \E level \in Levels : ReserveQueueDepth(p, level)
    <3>1. stats' = stats \/ \E c \in {"queueDropsHard", "queueDropsSoft"} : stats' = [stats EXCEPT ![c] = @ + 1]
      BY <2>1 DEF ReserveQueueDepth, Count
    <3> QED BY <3>1, HistoryFacts DEF Counters
  <2>2. CASE \/ Enter(p) \/ CheckRunning(p) \/ FilterEntry(p) \/ WaitForQueueSlot(p) \/ PublishCount(p)
             \/ Leave(p) \/ LeaveNotify(p) \/ WakeWorker(p)
    BY <2>2 DEF Enter, CheckRunning, FilterEntry, WaitForQueueSlot, PublishCount, Leave,
       LeaveNotify, WakeWorker
  <2> QED BY <2>1, <2>2
<1>4. \A q \in Producers \ {p} : pc'[q] = pc[q] /\ ticket'[q] = ticket[q] /\ record'[q] = record[q]
  BY HistoryFacts DEF Enter, CheckRunning, FilterEntry, ReserveQueueDepth, WaitForQueueSlot,
     PublishCount, Leave, LeaveNotify, WakeWorker, Go, localVars
<1>5. /\ Uncounted(p)' <=> Uncounted(p)
      /\ Uncounted(p) => ticket'[p] = ticket[p] /\ record'[p] = record[p]
      /\ pc'[p] \in {"wait", "copy"} => pc[p] \in {"wait", "copy"}
      /\ pc'[p] = "publish" => pc[p] = "publish"
  <2>1. CASE \/ Enter(p) \/ CheckRunning(p) \/ FilterEntry(p)
             \/ \E level \in Levels : ReserveQueueDepth(p, level)
             \/ Leave(p) \/ LeaveNotify(p) \/ WakeWorker(p)
    BY <2>1, HistoryFacts DEF Enter, CheckRunning, FilterEntry, ReserveQueueDepth, Leave,
       LeaveNotify, WakeWorker, Go, AfterLeave, Uncounted
  <2>2. CASE WaitForQueueSlot(p) \/ PublishCount(p)
    BY <2>2, HistoryFacts DEF WaitForQueueSlot, PublishCount, Go, localVars, Uncounted
  <2> QED BY <2>1, <2>2
<1>6. \A q \in Producers : q # p => (Uncounted(q)' <=> Uncounted(q))
  BY <1>4 DEF Uncounted
<1>7. RecordFrame
  BY <1>1, <1>2, <1>4, <1>5, <1>6 DEF RecordFrame
<1>8. CountFrame
  BY <1>1, <1>3, <1>4, <1>5, <1>6 DEF CountFrame
<1> QED BY <1>7, <1>8

\* The worker, except when it takes an entry; init, flush and shutdown, except
\* when they empty the ring.
LEMMA QuietThreads ==
  ASSUME QueueInv,
         \/ WorkerLock \/ EvalHead \/ EvalStop \/ EvalDepth \/ ExitCheck \/ DrainNext \/ AdvanceTicket
         \/ Unpublish \/ ReleaseDepth \/ DeliverBatch \/ WorkerIdle \/ WorkerNotify
         \/ StartPublish \/ SpawnWorker \/ SpawnFails \/ WaitForActiveProducersToLeave \/ FlushBegin
         \/ FlushCheck \/ FlushTimesOut \/ FlushSinks \/ ShutdownStop \/ ShutdownNotify
         \/ ShutdownJoin \/ ShutdownFlush \/ UNCHANGED vars
  PROVE  RecordFrame /\ CountFrame
<1>1. UNCHANGED <<submitted, lost, slot, sequence, enqueueTicket, stats, prodVars>>
  BY DEF WorkerLock, EvalHead, EvalStop, EvalDepth, ExitCheck, DrainNext, AdvanceTicket, Unpublish,
     ReleaseDepth, DeliverBatch, WorkerIdle, WorkerNotify, StartPublish, SpawnWorker, SpawnFails,
     WaitForActiveProducersToLeave, FlushBegin, FlushCheck, FlushTimesOut, FlushSinks, FlushEnd,
     ShutdownStop, ShutdownNotify, ShutdownJoin, ShutdownFlush, vars, ringVars, histVars
<1>2. Moved' = Moved
  <2>1. CASE AdvanceTicket
    BY <2>1 DEF AdvanceTicket, WorkerGo, Moved
  <2>2. CASE \/ WorkerLock \/ EvalHead \/ EvalStop \/ EvalDepth \/ ExitCheck \/ DrainNext
             \/ Unpublish \/ ReleaseDepth \/ DeliverBatch \/ WorkerIdle \/ WorkerNotify
    BY <2>2 DEF WorkerLock, EvalHead, EvalStop, EvalDepth, ExitCheck, DrainNext, Unpublish,
       ReleaseDepth, DeliverBatch, WorkerIdle, WorkerNotify, WorkerGo, ringVars, Moved
  <2>3. CASE \/ StartPublish \/ SpawnWorker \/ SpawnFails \/ WaitForActiveProducersToLeave \/ FlushBegin
             \/ FlushCheck \/ FlushTimesOut \/ FlushSinks \/ ShutdownStop \/ ShutdownNotify
             \/ ShutdownJoin \/ ShutdownFlush \/ UNCHANGED vars
    <3>1. dequeueTicket' = dequeueTicket /\ (wpc' = wpc \/ (wpc \in {"waiting", "none"} /\ wpc' = "lock"))
      BY <2>3 DEF StartPublish, SpawnWorker, SpawnFails, WaitForActiveProducersToLeave, FlushBegin,
         FlushCheck, FlushTimesOut, FlushSinks, FlushEnd, ShutdownStop, ShutdownNotify, ShutdownJoin,
         ShutdownFlush, ControlGo, vars, ringVars, workerVars, QueueInv, LifecycleConsistent
    <3> QED BY <3>1 DEF Moved
  <2> QED BY <2>1, <2>2, <2>3
<1>3. \A q \in Producers : Uncounted(q)' <=> Uncounted(q)
  BY <1>1 DEF prodVars, Uncounted
<1>4. UNCHANGED <<pc, ticket, record>>
  BY <1>1 DEF prodVars, localVars
<1> QED BY <1>1, <1>2, <1>3, <1>4 DEF RecordFrame, CountFrame

\* While a run lasts, every step keeps the records in their slots and the counts true.
LEMMA RecordsStep ==
  ASSUME QueueInv, SlotsHoldRecords, TicketsCountedOnce, Draining, [Next]_vars, Draining'
  PROVE  SlotsHoldRecords' /\ TicketsCountedOnce'
<1>1. ASSUME RecordFrame, CountFrame PROVE SlotsHoldRecords' /\ TicketsCountedOnce'
  BY <1>1, RecordFrameKeeps, CountFrameKeeps
<1>2. ASSUME NEW p \in Producers, TakeTicket(p) PROVE SlotsHoldRecords' /\ TicketsCountedOnce'
  BY <1>2, TakeTicketKeepsRecords, TakeTicketKeepsCounts
<1>3. ASSUME NEW p \in Producers, CopyEntry(p) PROVE SlotsHoldRecords' /\ TicketsCountedOnce'
  BY <1>3, CopyKeepsRecords, CopyKeepsCounts
<1>4. ASSUME NEW p \in Producers, PublishSequence(p) PROVE SlotsHoldRecords' /\ TicketsCountedOnce'
  <2>1. CountFrame
    BY <1>4, HistoryFacts DEF PublishSequence, Go, localVars, histVars, CountFrame, Uncounted
  <2> QED BY <1>4, <2>1, PublishKeepsRecords, CountFrameKeeps
<1>5. ASSUME NEW p \in Producers, PublishHead(p) PROVE SlotsHoldRecords' /\ TicketsCountedOnce'
  <2>1. /\ UNCHANGED <<submitted, lost, slot, sequence, enqueueTicket, dequeueTicket, wpc, ticket, record>>
        /\ pc' = [pc EXCEPT ![p] = "leave"]
    BY <1>5 DEF PublishHead, Go, ringVars, histVars, workerVars
  <2>2. \A q \in Producers : Uncounted(q)' => Uncounted(q) /\ pc'[q] = pc[q]
    BY <2>1, HistoryFacts DEF Uncounted
  <2>3. Moved' = Moved
    BY <2>1 DEF Moved
  <2>4. RecordFrame
    BY <2>1, <2>2, <2>3 DEF RecordFrame
  <2> QED BY <1>5, <2>4, RecordFrameKeeps, PublishHeadKeepsCounts
<1>6. CASE MoveEntry
  <2>1. UNCHANGED <<lost, enqueueTicket, stats, pc, ticket>>
    BY <1>6 DEF MoveEntry, histVars, prodVars, localVars
  <2>2. CountFrame
    BY <2>1 DEF CountFrame, Uncounted
  <2> QED BY <1>6, <2>2, MoveKeepsRecords, CountFrameKeeps
<1>7. ~(InitPrepare \/ InitDisabled \/ InitNoSink \/ ShutdownClear)
  BY DEF Draining, InitPrepare, InitDisabled, InitNoSink, ShutdownClear, ResetRuntimeState, ControlGo,
     workerVars, QueueInv, LifecycleConsistent
<1> QED
  BY <1>1, <1>2, <1>3, <1>4, <1>5, <1>6, <1>7, QuietProducers, QuietThreads
     DEF Next, ProducerStep, WorkerStep, LifecycleStep, LifecycleCall

-----------------------------------------------------------------------------
(* Order of delivery.                                                      *)

\* While a run lasts its history grows: tickets and delivered records are
\* added, and what became of the tickets already taken out stays as it was.
LEMMA HistoryGrows ==
  ASSUME QueueInv, SlotsHoldRecords, Draining, [Next]_vars, Draining'
  PROVE  /\ enqueueTicket <= enqueueTicket' /\ Moved <= Moved' /\ Moved \in Nat
         /\ Len(delivered) <= Len(delivered') /\ Len(delivered') \in Nat
         /\ \A k \in 1..Len(delivered) : delivered'[k] = delivered[k]
         /\ \A t \in 0..(Moved - 1) : t \in lost <=> t \in lost'
         /\ \A i \in 1..Moved : submitted'[i] = submitted[i]
         /\ (MoveEntry \/ Moved' = Moved) /\ (DeliverBatch \/ delivered' = delivered)
<1>1. /\ Moved \in Nat /\ Moved <= enqueueTicket /\ enqueueTicket \in Nat
      /\ delivered \in Seq(Nat) /\ Len(delivered) \in Nat
  <2>1. delivered \in Seq(Nat) /\ enqueueTicket \in Nat
    BY HistoryFacts
  <2> QED BY <2>1, WindowFacts
<1>2. ASSUME RecordFrame
      PROVE  /\ enqueueTicket <= enqueueTicket' /\ Moved <= Moved' /\ Moved' = Moved
             /\ \A t \in 0..(Moved - 1) : t \in lost <=> t \in lost'
             /\ \A i \in 1..Moved : submitted'[i] = submitted[i]
  BY <1>1, <1>2 DEF RecordFrame
<1>3. CASE \E p \in Producers : TakeTicket(p)
  <2>1. PICK p \in Producers : TakeTicket(p)
    BY <1>3
  <2>2. /\ enqueueTicket' = enqueueTicket + 1 /\ submitted' = Append(submitted, record[p])
        /\ UNCHANGED <<lost, wpc, dequeueTicket, delivered>>
    BY <2>1 DEF TakeTicket, workerVars
  <2>3. submitted \in Seq(Nat) /\ record[p] \in Nat
    BY HistoryFacts
  <2>4. \A i \in 1..Len(submitted) : Append(submitted, record[p])[i] = submitted[i]
    BY <2>3
  <2>5. Moved' = Moved
    BY <2>2 DEF Moved
  <2>6. \A i \in 1..Moved : submitted'[i] = submitted[i]
    BY <1>1, <2>2, <2>4 DEF SlotsHoldRecords
  <2>7. Len(delivered) <= Len(delivered') /\ Len(delivered') \in Nat
        /\ \A k \in 1..Len(delivered) : delivered'[k] = delivered[k]
    BY <1>1, <2>2
  <2>8. enqueueTicket <= enqueueTicket' /\ Moved <= Moved' /\ Moved \in Nat
    BY <1>1, <2>2, <2>5
  <2>9. \A t \in 0..(Moved - 1) : t \in lost <=> t \in lost'
    BY <2>2
  <2> QED BY <2>2, <2>5, <2>6, <2>7, <2>8, <2>9
<1>4. CASE \E p \in Producers : CopyEntry(p)
  <2>1. PICK p \in Producers : CopyEntry(p)
    BY <1>4
  <2>2. /\ pc[p] = "copy" /\ (lost' = lost \/ lost' = lost \cup {ticket[p]})
        /\ UNCHANGED <<enqueueTicket, submitted, wpc, dequeueTicket, delivered>>
    BY <2>1 DEF CopyEntry, Go, workerVars
  <2>3. Moved' = Moved
    BY <2>2 DEF Moved
  <2>4. ticket[p] \in Moved..(enqueueTicket - 1)
    BY <2>2 DEF QueueInv, TicketsDistinct, Filling
  <2>5. \A t \in 0..(Moved - 1) : t \in lost <=> t \in lost'
    BY <1>1, <2>2, <2>4
  <2> QED BY <1>1, <2>2, <2>3, <2>5
<1>5. CASE \E p \in Producers : PublishSequence(p) \/ PublishHead(p)
  <2>1. UNCHANGED <<enqueueTicket, dequeueTicket, lost, submitted, delivered, wpc>>
    BY <1>5 DEF PublishSequence, PublishHead, ringVars, histVars, workerVars
  <2>2. Moved' = Moved
    BY <2>1 DEF Moved
  <2> QED BY <1>1, <2>1, <2>2
<1>6. CASE MoveEntry
  <2>1. /\ UNCHANGED <<enqueueTicket, dequeueTicket, lost, submitted, delivered>>
        /\ wpc = "move" /\ wpc' = "advance"
    BY <1>6 DEF MoveEntry, WorkerGo, histVars
  <2>2. Moved' = Moved + 1
    BY <2>1 DEF Moved
  <2> QED BY <1>1, <1>6, <2>1, <2>2
<1>7. CASE DeliverBatch
  <2>1. delivered' = delivered \o batch /\ RecordFrame
    BY <1>7, QuietThreads DEF DeliverBatch
  <2>2. batch \in Seq(Nat)
    BY HistoryFacts
  <2>3. /\ Len(delivered \o batch) = Len(delivered) + Len(batch) /\ Len(batch) \in Nat
        /\ \A k \in 1..Len(delivered) : (delivered \o batch)[k] = delivered[k]
    BY <1>1, <2>2
  <2>4. Len(delivered) <= Len(delivered') /\ Len(delivered') \in Nat
    BY <1>1, <2>1, <2>3
  <2> QED BY <1>1, <1>2, <1>7, <2>1, <2>3, <2>4
<1>8. CASE \E p \in Producers :
             \/ Enter(p) \/ CheckRunning(p) \/ FilterEntry(p)
             \/ \E level \in Levels : ReserveQueueDepth(p, level)
             \/ WaitForQueueSlot(p) \/ PublishCount(p) \/ Leave(p) \/ LeaveNotify(p) \/ WakeWorker(p)
  <2>1. RecordFrame
    BY <1>8, QuietProducers
  <2>2. delivered' = delivered
    BY <1>8 DEF Enter, CheckRunning, FilterEntry, ReserveQueueDepth, WaitForQueueSlot, PublishCount,
       Leave, LeaveNotify, WakeWorker, histVars
  <2> QED BY <1>1, <1>2, <2>1, <2>2
<1>9. CASE \/ WorkerLock \/ EvalHead \/ EvalStop \/ EvalDepth \/ ExitCheck \/ DrainNext \/ AdvanceTicket
           \/ Unpublish \/ ReleaseDepth \/ WorkerIdle \/ WorkerNotify
           \/ StartPublish \/ SpawnWorker \/ SpawnFails \/ WaitForActiveProducersToLeave \/ FlushBegin
           \/ FlushCheck \/ FlushTimesOut \/ FlushSinks \/ ShutdownStop \/ ShutdownNotify
           \/ ShutdownJoin \/ ShutdownFlush \/ UNCHANGED vars
  <2>1. RecordFrame
    BY <1>9, QuietThreads
  <2>2. delivered' = delivered
    BY <1>9 DEF WorkerLock, EvalHead, EvalStop, EvalDepth, ExitCheck, DrainNext, AdvanceTicket, Unpublish,
       ReleaseDepth, WorkerIdle, WorkerNotify, StartPublish, SpawnWorker, SpawnFails,
       WaitForActiveProducersToLeave, FlushBegin, FlushCheck, FlushTimesOut, FlushSinks, FlushEnd,
       ShutdownStop, ShutdownNotify, ShutdownJoin, ShutdownFlush, vars, histVars
  <2> QED BY <1>1, <1>2, <2>1, <2>2
<1>10. ~(InitPrepare \/ InitDisabled \/ InitNoSink \/ ShutdownClear)
  BY DEF Draining, InitPrepare, InitDisabled, InitNoSink, ShutdownClear, ResetRuntimeState, ControlGo,
     workerVars, QueueInv, LifecycleConsistent
<1> QED
  BY <1>3, <1>4, <1>5, <1>6, <1>7, <1>8, <1>9, <1>10
     DEF Next, ProducerStep, WorkerStep, LifecycleStep, LifecycleCall

\* Only two steps of the worker touch the batch.
LEMMA BatchSteps ==
  ASSUME [Next]_vars, ~MoveEntry, ~DeliverBatch PROVE batch' = batch
BY DEF Next, ProducerStep, WorkerStep, LifecycleStep, LifecycleCall, Enter, CheckRunning, FilterEntry,
   ReserveQueueDepth, TakeTicket, WaitForQueueSlot, CopyEntry, PublishSequence, PublishCount, PublishHead,
   Leave, LeaveNotify, WakeWorker, WorkerLock, EvalHead, EvalStop, EvalDepth, ExitCheck, DrainNext,
   AdvanceTicket, Unpublish, ReleaseDepth, WorkerIdle, WorkerNotify, StartPublish, SpawnWorker, SpawnFails,
   WaitForActiveProducersToLeave, FlushBegin, FlushCheck, FlushTimesOut, FlushSinks, FlushEnd,
   ShutdownStop, ShutdownNotify, ShutdownJoin, ShutdownFlush, ShutdownClear, InitPrepare, InitDisabled,
   InitNoSink, ResetRuntimeState, vars, workerVars

\* An entry appended to the batch comes last of all.
LEMMA AppendLast ==
  ASSUME NEW a \in Seq(Nat), NEW b \in Seq(Nat), NEW x \in Nat
  PROVE  Append(a \o b, x) = a \o (b \o <<x>>)
<1>1. <<x>> \in Seq(Nat)
  OBVIOUS
<1>2. ASSUME NEW c \in Seq(Nat) PROVE (a \o b) \o c = a \o (b \o c)
  <2>1. /\ a \o b \in Seq(Nat) /\ b \o c \in Seq(Nat)
        /\ (a \o b) \o c \in Seq(Nat) /\ a \o (b \o c) \in Seq(Nat)
    OBVIOUS
  <2>2. Len((a \o b) \o c) = Len(a \o (b \o c))
    OBVIOUS
  <2>3. ASSUME NEW i \in 1..Len((a \o b) \o c)
        PROVE  ((a \o b) \o c)[i] = (a \o (b \o c))[i]
    OBVIOUS
  <2> QED BY <2>1, <2>2, <2>3, SeqEqual
<1>3. a \o b \in Seq(Nat)
  OBVIOUS
<1>4. Append(a \o b, x) = (a \o b) \o <<x>>
  BY <1>3, AppendIsConcat, Zenon
<1>5. (a \o b) \o <<x>> = a \o (b \o <<x>>)
  BY <1>1, <1>2, Zenon
<1> QED BY <1>4, <1>5

\* Moved entries are delivered or in the batch, in ticket order.
LEMMA OrderStep ==
  ASSUME QueueInv, SlotsHoldRecords, IsDue(delivered \o batch, Moved), Draining, [Next]_vars, Draining'
  PROVE  IsDue(delivered \o batch, Moved)'
<1> DEFINE s == delivered \o batch
<1>1. /\ delivered \in Seq(Nat) /\ batch \in Seq(Nat) /\ s \in Seq(Nat) /\ Len(s) \in Nat
      /\ submitted \in Seq(Nat) /\ Moved \in Nat
  <2>1. delivered \in Seq(Nat) /\ batch \in Seq(Nat) /\ submitted \in Seq(Nat)
    BY HistoryFacts
  <2> QED BY <2>1, WindowFacts
<1>2. Begins(s, lost, submitted, Moved) /\ Len(s) = Cardinality(DueOf(lost, Moved))
  BY DueIsDueOf
<1>3. CASE MoveEntry
  <2>1. /\ wpc = "move" /\ wpc' = "advance" /\ UNCHANGED <<delivered, lost, submitted, dequeueTicket>>
        /\ batch' = IF slot[SlotOf(dequeueTicket)].skip THEN batch ELSE batch \o slot[SlotOf(dequeueTicket)].text
    BY <1>3 DEF MoveEntry, WorkerGo, histVars
  <2>2. Moved = dequeueTicket /\ Moved' = dequeueTicket + 1
    BY <2>1 DEF Moved
  <2>3. dequeueTicket \in Moved..(enqueueTicket - 1) /\ enqueueTicket \in Nat
    BY <1>1, <2>1, <2>2, WindowFacts, HistoryFacts
  <2>4. sequence[SlotOf(dequeueTicket)] = dequeueTicket + 1
    BY <2>1 DEF QueueInv, SequencesOrdered
  <2>5. slot[SlotOf(dequeueTicket)] = Content(dequeueTicket)
    BY <2>3, <2>4 DEF SlotsHoldRecords
  <2>6. submitted[Moved + 1] \in Nat
    BY <1>1, <2>2, <2>3 DEF SlotsHoldRecords
  <2>7. batch' = IF Moved \in lost THEN batch ELSE batch \o <<submitted[Moved + 1]>>
    BY <2>1, <2>2, <2>5 DEF Content, Filled, Skipped
  <2>8. Append(s, submitted[Moved + 1]) = delivered \o (batch \o <<submitted[Moved + 1]>>)
    BY <1>1, <2>6, AppendLast
  <2>9. s' = IF Moved \in lost THEN s ELSE Append(s, submitted[Moved + 1])
    BY <2>1, <2>7, <2>8
  <2>10. Begins(s', lost, submitted, Moved + 1) /\ Len(s') = Cardinality(DueOf(lost, Moved + 1))
    <3>1. s \in Seq(Entries) /\ submitted[Moved + 1] \in Entries
      BY <1>1, <2>6 DEF Entries
    <3> HIDE DEF s
    <3>2. /\ Moved \in lost =>
               Begins(s, lost, submitted, Moved + 1) /\ Len(s) = Cardinality(DueOf(lost, Moved + 1))
          /\ Moved \notin lost =>
               /\ Begins(Append(s, submitted[Moved + 1]), lost, submitted, Moved + 1)
               /\ Len(Append(s, submitted[Moved + 1])) = Cardinality(DueOf(lost, Moved + 1))
      BY <1>1, <1>2, <3>1, BeginsNext
    <3> QED BY <2>9, <3>2
  <2> QED BY <2>1, <2>2, <2>10 DEF IsDue, BeginsWithDue, Due, Begins, DueOf
<1>4. CASE ~MoveEntry
  <2>1. s' = s
    <3>1. CASE DeliverBatch
      <4>1. delivered' = s /\ batch' = << >>
        BY <3>1 DEF DeliverBatch
      <4>2. s \o << >> = s
        BY <1>1
      <4> QED BY <4>1, <4>2
    <3>2. CASE ~DeliverBatch
      <4>1. batch' = batch
        BY <1>4, <3>2, BatchSteps
      <4>2. delivered' = delivered
        BY <3>2, HistoryGrows
      <4> QED BY <4>1, <4>2
    <3> QED BY <3>1, <3>2
  <2>2. Moved' = Moved
    BY <1>4, HistoryGrows
  <2>3. \A t \in 0..(Moved - 1) : t \in lost <=> t \in lost'
    BY HistoryGrows
  <2>4. \A i \in 1..Moved : submitted'[i] = submitted[i]
    BY HistoryGrows
  <2>5. Begins(s, lost', submitted', Moved)
    BY <1>1, <1>2, <2>3, <2>4, BeginsKept
  <2>6. DueOf(lost', Moved) = DueOf(lost, Moved)
    <3>1. Moved \in 0..Moved
      BY <1>1
    <3> QED BY <1>1, <2>3, <3>1, DueSame
  <2> QED BY <1>2, <2>1, <2>2, <2>5, <2>6 DEF IsDue, BeginsWithDue, Due, Begins, DueOf
<1> QED BY <1>3, <1>4

-----------------------------------------------------------------------------
(* The batch, flush and shutdown.                                          *)

\* An empty queue has no tickets in flight.
LEMMA EmptyQueue ==
  ASSUME QueueInv, queueDepth = 0 PROVE dequeueTicket = enqueueTicket
<1>1. /\ queueDepth = Cardinality(Reserving) + (enqueueTicket - dequeueTicket) + Releasing
      /\ Moved <= enqueueTicket
  BY DEF QueueInv, DepthCounted
<1>2. Cardinality(Reserving) \in Nat
  BY CountedSetsFinite
<1>3. Releasing \in Nat /\ dequeueTicket \in Nat /\ enqueueTicket \in Nat
  BY HistoryFacts DEF Releasing
<1>4. dequeueTicket <= Moved /\ Moved \in Nat
  BY <1>3 DEF Moved
<1> QED BY <1>1, <1>2, <1>3, <1>4

\* The batch belongs to a turn of the worker, and the worker leaves nothing behind.
LEMMA GuardStep ==
  ASSUME QueueInv, BatchIsGuarded, [Next]_vars PROVE BatchIsGuarded'
<1>1. LifecycleConsistent /\ ControlType
  BY DEF QueueInv, TypeOK
<1>2. ASSUME NEW p \in Producers, Enter(p) \/ ProducerStep(p) PROVE BatchIsGuarded'
  <2>1. /\ UNCHANGED <<batch, workerBusy, dequeueTicket>>
        /\ wpc' = wpc \/ (wpc = "waiting" /\ wpc' = "lock")
    BY <1>2 DEF ProducerStep, Enter, CheckRunning, FilterEntry, ReserveQueueDepth, TakeTicket,
       WaitForQueueSlot, CopyEntry, PublishSequence, PublishCount, PublishHead, Leave, LeaveNotify,
       WakeWorker, NotifyAll, workerVars, flagVars, ringVars
  <2>2. wpc = "exited" => ~TakeTicket(p)
    BY DEF TakeTicket, Go, InRing, QueueInv, AdmissionGuardsStorage, Closed
  <2>3. wpc = "exited" => enqueueTicket' = enqueueTicket
    BY <1>2, <2>2 DEF ProducerStep, Enter, CheckRunning, FilterEntry, ReserveQueueDepth,
       WaitForQueueSlot, CopyEntry, PublishSequence, PublishCount, PublishHead, Leave, LeaveNotify,
       WakeWorker, ringVars
  <2> QED BY <2>1, <2>3 DEF BatchIsGuarded
<1>3. CASE ExitCheck
  <2>1. /\ wpc = "exitCheck" /\ wpc' = (IF WorkerMayExit THEN "exited" ELSE "drain")
        /\ workerBusy' = (workerBusy \/ ~WorkerMayExit)
        /\ UNCHANGED <<batch, dequeueTicket, enqueueTicket>>
    BY <1>3 DEF ExitCheck, WorkerGo, ringVars
  <2>2. WorkerMayExit => dequeueTicket = enqueueTicket
    BY EmptyQueue DEF WorkerMayExit
  <2> QED BY <2>1, <2>2 DEF BatchIsGuarded
<1>4. CASE DrainNext \/ MoveEntry \/ AdvanceTicket \/ Unpublish \/ ReleaseDepth \/ DeliverBatch
  BY <1>4 DEF DrainNext, MoveEntry, AdvanceTicket, Unpublish, ReleaseDepth, DeliverBatch, WorkerGo,
     flagVars, BatchIsGuarded
<1>5. CASE WorkerLock \/ EvalHead \/ EvalStop \/ EvalDepth \/ WorkerIdle \/ WorkerNotify
  BY <1>5 DEF WorkerLock, EvalHead, EvalStop, EvalDepth, WorkerIdle, WorkerNotify, WorkerGo,
     flagVars, BatchIsGuarded
<1>6. CASE \/ InitPrepare \/ InitDisabled \/ InitNoSink \/ ShutdownClear \/ StartPublish \/ SpawnWorker
           \/ SpawnFails
  <2>1. wpc \in {"none", "exited"} /\ wpc' \in {"none", "lock"} /\ batch' = batch
    BY <1>1, <1>6 DEF InitPrepare, InitDisabled, ResetRuntimeState, InitNoSink, ShutdownClear,
       StartPublish, SpawnWorker, SpawnFails, ControlGo, workerVars, LifecycleConsistent
  <2> QED BY <2>1 DEF BatchIsGuarded
<1>7. CASE \/ WaitForActiveProducersToLeave \/ FlushBegin \/ FlushCheck \/ FlushTimesOut \/ FlushSinks
           \/ ShutdownStop \/ ShutdownNotify \/ ShutdownJoin \/ ShutdownFlush \/ UNCHANGED vars
  <2>1. /\ UNCHANGED <<batch, workerBusy, dequeueTicket, enqueueTicket>>
        /\ wpc' = wpc \/ (wpc = "waiting" /\ wpc' = "lock")
    BY <1>7 DEF WaitForActiveProducersToLeave, FlushBegin, FlushCheck, FlushTimesOut, FlushSinks,
       FlushEnd, ShutdownStop, ShutdownNotify, ShutdownJoin, ShutdownFlush, vars, workerVars, flagVars,
       ringVars
  <2> QED BY <2>1 DEF BatchIsGuarded
<1> QED
  BY <1>2, <1>3, <1>4, <1>5, <1>6, <1>7 DEF Next, WorkerStep, LifecycleStep, LifecycleCall

\* A prepared ring holds no records, and nobody has a ticket of an earlier run.
LEMMA FreshRun ==
  ASSUME QueueInv, BatchIsGuarded, InitPrepare
  PROVE  SlotsHoldRecords' /\ TicketsCountedOnce' /\ IsDue(delivered \o batch, Moved)'
<1>1. /\ cpc = "stopped" /\ wpc = "none" /\ wpc' = "none" /\ batch' = batch /\ stats' = NoStats
      /\ enqueueTicket' = 0 /\ dequeueTicket' = 0 /\ submitted' = << >> /\ lost' = {}
      /\ delivered' = << >> /\ pc' = pc
  BY DEF InitPrepare, ResetRuntimeState, EmptyRing, ControlGo, workerVars, prodVars
<1>2. \A p \in Producers : ~Uncounted(p)'
  <2>1. \A p \in Producers : ~InRing(p)
    BY <1>1 DEF QueueInv, AdmissionGuardsStorage, Closed
  <2> QED BY <1>1, <2>1 DEF InRing, Uncounted
<1>3. Moved' = 0 /\ batch' = << >>
  BY <1>1 DEF Moved, BatchIsGuarded
<1>4. Due(enqueueTicket)' = {} /\ (Due(Moved))' = {}
  BY <1>1, <1>3 DEF Due
<1>5. stats'["queued"] = 0 /\ stats'["allocationFailures"] = 0 /\ Cardinality({}) = 0
  BY <1>1, FS_EmptySet DEF NoStats, Counters
<1>6. SlotsHoldRecords'
  BY <1>1, <1>2, <1>3 DEF SlotsHoldRecords
<1>7. TicketsCountedOnce'
  <2> DEFINE W == {p \in Producers : Uncounted(p)' /\ ticket'[p] \notin lost'}
             V == {p \in Producers : Uncounted(p)' /\ ticket'[p] \in lost'}
  <2>1. W = {} /\ V = {}
    BY <1>2
  <2> HIDE DEF W, V
  <2>2. /\ stats'["queued"] + Cardinality(W) = Cardinality(Due(enqueueTicket)')
        /\ stats'["allocationFailures"] + Cardinality(V) = Cardinality(lost')
    <3>1. /\ Cardinality(W) = 0 /\ Cardinality(Due(enqueueTicket)') = 0
          /\ Cardinality(V) = 0 /\ Cardinality(lost') = 0
      BY <1>1, <1>4, <1>5, <2>1, Zenon
    <3> QED BY <1>5, <3>1
  <2> QED BY <2>2 DEF TicketsCountedOnce, W, V
<1>8. (delivered \o batch)' = << >> /\ Len(<< >>) = 0
  BY <1>1, <1>3
<1>9. /\ Cardinality(Due(Moved)') <= Len((delivered \o batch)')
      /\ Len((delivered \o batch)') = Cardinality(Due(Moved)')
  BY <1>4, <1>5, <1>8
<1>10. IsDue(delivered \o batch, Moved)'
  BY <1>4, <1>9 DEF IsDue, BeginsWithDue
<1> QED BY <1>6, <1>7, <1>10

\* A flush that finds the queue empty and the worker idle covers its tickets.
LEMMA FlushCompletes ==
  ASSUME QueueInv, DeliveryInv, FlushCheck, FlushReady, wpc # "none"
  PROVE  flushMark <= Moved /\ BeginsWithDue(delivered, flushMark)
<1>1. cpc = "flushCheck" /\ Draining /\ delivered \in Seq(Nat) /\ flushMark \in Nat
  <2>1. delivered \in Seq(Nat) /\ flushMark \in Nat
    BY DEF QueueInv, TypeOK, HistoryType, Entries
  <2> QED BY <2>1 DEF FlushCheck, ControlGo, Draining
<1>2. queueDepth = 0 /\ ~workerBusy
  BY <1>1 DEF FlushReady, QueueInv, LifecycleConsistent
<1>3. batch = << >> /\ Moved = dequeueTicket
  BY <1>2 DEF DeliveryInv, BatchIsGuarded, Moved
<1>4. flushMark <= Moved
  BY <1>1, <1>2, <1>3, EmptyQueue DEF DeliveryInv, FlushIsMarked
<1>5. delivered \o batch = delivered
  BY <1>1, <1>3
<1>6. Begins(delivered, lost, submitted, Moved)
  BY <1>1, <1>5, DueIsDueOf DEF DeliveryInv
<1>7. Moved \in Nat /\ Len(delivered) \in Nat
  BY <1>1, WindowFacts
<1>8. Begins(delivered, lost, submitted, flushMark)
  BY <1>1, <1>4, <1>6, <1>7, BeginsWithFewer
<1> QED BY <1>4, <1>8, DueIsDueOf

\* A flush is in progress only after FlushBegin, which found the worker there
\* or not, and it stays that way.
LEMMA FlushControl ==
  ASSUME LifecycleConsistent, [Next]_vars, ~FlushBegin, ~FlushCheck,
         cpc' \in {"flushCheck", "flushWait", "flushed"}, wpc' # "none"
  PROVE  /\ cpc \in {"flushCheck", "flushWait", "flushed"} /\ wpc # "none" /\ flushMark' = flushMark
         /\ cpc' = "flushed" <=> cpc = "flushed"
<1>1. ASSUME NEW p \in Producers, Enter(p) \/ ProducerStep(p)
      PROVE  /\ flushMark' = flushMark /\ (wpc' # "none" => wpc # "none")
             /\ cpc' = cpc \/ (cpc = "flushWait" /\ cpc' = "flushCheck")
  BY <1>1 DEF ProducerStep, Enter, CheckRunning, FilterEntry, ReserveQueueDepth, TakeTicket,
     WaitForQueueSlot, CopyEntry, PublishSequence, PublishCount, PublishHead, Leave, LeaveNotify,
     WakeWorker, NotifyAll, workerVars, histVars
<1>2. CASE WorkerStep
  BY <1>2 DEF WorkerStep, WorkerLock, EvalHead, EvalStop, EvalDepth, ExitCheck, DrainNext, MoveEntry,
     AdvanceTicket, Unpublish, ReleaseDepth, DeliverBatch, WorkerIdle, WorkerNotify, WorkerGo, histVars
<1>3. ~LifecycleStep /\ ~LifecycleCall
  BY DEF LifecycleStep, LifecycleCall, StartPublish, InitNoSink, SpawnWorker, SpawnFails,
     WaitForActiveProducersToLeave, FlushSinks, FlushEnd, FlushTimesOut, ShutdownNotify, ShutdownJoin,
     ShutdownFlush, ShutdownClear, InitPrepare, InitDisabled, ShutdownStop, ControlGo
<1>4. CASE UNCHANGED vars
  BY <1>4 DEF vars, workerVars, histVars
<1> QED BY <1>1, <1>2, <1>3, <1>4 DEF Next

\* Nothing taken from the ring later disturbs what a flush has covered.
LEMMA FlushStep ==
  ASSUME QueueInv, DeliveryInv, [Next]_vars PROVE FlushIsMarked' /\ FlushCoversEarlierRecords'
<1>1. LifecycleConsistent /\ ControlType
  BY DEF QueueInv, TypeOK
<1>2. CASE FlushBegin
  BY <1>2, HistoryFacts DEF FlushBegin, ControlGo, ringVars, FlushIsMarked, FlushCoversEarlierRecords
<1>3. CASE FlushCheck
  <2>1. /\ cpc = "flushCheck" /\ cpc' = (IF FlushReady THEN "flushed" ELSE "flushWait")
        /\ UNCHANGED <<wpc, dequeueTicket, enqueueTicket, flushMark, delivered, lost, submitted>>
    BY <1>3 DEF FlushCheck, ControlGo, workerVars, ringVars, histVars
  <2>2. Moved' = Moved
    BY <2>1 DEF Moved
  <2>3. CASE FlushReady /\ wpc # "none"
    <3>1. flushMark <= Moved /\ BeginsWithDue(delivered, flushMark)
      BY <1>3, <2>3, FlushCompletes
    <3>2. BeginsWithDue(delivered, flushMark)'
      BY <2>1, <3>1 DEF BeginsWithDue, Due
    <3> QED BY <2>1, <2>2, <2>3, <3>1, <3>2 DEF FlushIsMarked, FlushCoversEarlierRecords
  <2>4. CASE ~FlushReady
    BY <2>1, <2>4 DEF DeliveryInv, FlushIsMarked, FlushCoversEarlierRecords
  <2>5. CASE wpc = "none"
    BY <2>1, <2>5 DEF FlushIsMarked, FlushCoversEarlierRecords
  <2> QED BY <2>3, <2>4, <2>5
<1>4. CASE ~FlushBegin /\ ~FlushCheck
  <2>1. SUFFICES ASSUME cpc' \in {"flushCheck", "flushWait", "flushed"}, wpc' # "none"
                 PROVE  FlushIsMarked' /\ FlushCoversEarlierRecords'
    BY DEF FlushIsMarked, FlushCoversEarlierRecords
  <2>2. /\ cpc \in {"flushCheck", "flushWait", "flushed"} /\ wpc # "none" /\ flushMark' = flushMark
        /\ cpc' = "flushed" <=> cpc = "flushed"
    BY <1>1, <1>4, <2>1, FlushControl
  <2>3. Draining /\ Draining' /\ SlotsHoldRecords
    BY <2>1, <2>2 DEF Draining, DeliveryInv
  <2>4. /\ enqueueTicket <= enqueueTicket' /\ Moved <= Moved' /\ Moved \in Nat
        /\ Len(delivered) <= Len(delivered') /\ Len(delivered') \in Nat
        /\ \A k \in 1..Len(delivered) : delivered'[k] = delivered[k]
        /\ \A t \in 0..(Moved - 1) : t \in lost <=> t \in lost'
        /\ \A i \in 1..Moved : submitted'[i] = submitted[i]
    BY <2>3, HistoryGrows
  <2>5. /\ flushMark \in Nat /\ enqueueTicket \in Nat /\ enqueueTicket' \in Nat /\ Moved' \in Nat
        /\ Len(delivered) \in Nat
    <3>1. QueueInv'
      BY QueueInvStep
    <3>2. enqueueTicket' \in Nat /\ dequeueTicket' \in Nat
      BY <3>1 DEF QueueInv, TypeOK, RingType
    <3>3. delivered \in Seq(Nat) /\ flushMark \in Nat /\ enqueueTicket \in Nat
      BY DEF QueueInv, TypeOK, HistoryType, RingType, Entries
    <3>4. Moved' \in Nat
      <4>1. Moved' = dequeueTicket' \/ Moved' = dequeueTicket' + 1
        BY DEF Moved
      <4> QED BY <3>2, <4>1
    <3>5. Len(delivered) \in Nat
      BY <3>3, LenProperties
    <3> QED BY <3>2, <3>3, <3>4, <3>5
  <2>6. FlushIsMarked'
    <3>1. cpc # "flushed" => flushMark <= enqueueTicket
      BY <2>2 DEF DeliveryInv, FlushIsMarked
    <3>2. cpc = "flushed" => flushMark <= Moved
      BY <2>2 DEF DeliveryInv, FlushIsMarked
    <3>3. cpc # "flushed" => flushMark <= enqueueTicket'
      BY <2>4, <2>5, <3>1
    <3>4. cpc = "flushed" => flushMark <= Moved'
      BY <2>4, <2>5, <3>2
    <3> QED BY <2>2, <3>3, <3>4 DEF FlushIsMarked
  <2>7. CASE cpc = "flushed"
    <3>1. flushMark <= Moved /\ Begins(delivered, lost, submitted, flushMark)
      BY <2>2, <2>7, DueIsDueOf DEF DeliveryInv, FlushIsMarked, FlushCoversEarlierRecords
    <3>2. /\ \A t \in 0..(flushMark - 1) : t \in lost <=> t \in lost'
          /\ \A i \in 1..flushMark : submitted'[i] = submitted[i]
      BY <2>4, <2>5, <3>1
    <3>3. Begins(delivered', lost', submitted', flushMark)
      BY <2>4, <2>5, <3>1, <3>2, BeginsKept
    <3>4. BeginsWithDue(delivered, flushMark)'
      BY <2>2, <3>3 DEF BeginsWithDue, Begins, Due, DueOf
    <3> QED BY <2>6, <3>4 DEF FlushCoversEarlierRecords
  <2>8. CASE cpc # "flushed"
    BY <2>2, <2>6, <2>8 DEF FlushCoversEarlierRecords
  <2> QED BY <2>7, <2>8
<1> QED BY <1>2, <1>3, <1>4

-----------------------------------------------------------------------------
(* The theorems.                                                           *)

\* Every step keeps the records, the counts, the order and what flushes cover.
LEMMA DeliveryStep == QueueInv /\ DeliveryInv /\ [Next]_vars => DeliveryInv'
<1> SUFFICES ASSUME QueueInv, DeliveryInv, [Next]_vars PROVE DeliveryInv'
  OBVIOUS
<1>1. BatchIsGuarded' /\ FlushIsMarked' /\ FlushCoversEarlierRecords'
  BY GuardStep, FlushStep DEF DeliveryInv
<1>2. ASSUME Draining'
      PROVE  SlotsHoldRecords' /\ TicketsCountedOnce' /\ IsDue(delivered \o batch, Moved)'
  <2>1. CASE Draining
    BY <1>2, <2>1, RecordsStep, OrderStep DEF DeliveryInv
  <2>2. CASE InitPrepare
    BY <2>2, FreshRun DEF DeliveryInv
  <2> QED BY <1>2, <2>1, <2>2, DrainingBegins
<1> QED BY <1>1, <1>2 DEF DeliveryInv

\* The invariant of delivery holds in every state: what the slots hold, what
\* the counters say and what the worker has handed on fit together.
THEOREM DeliveryInvariance == Spec => []DeliveryInv
<1>1. Init => DeliveryInv
  BY DEF Init, DeliveryInv, Draining, BatchIsGuarded, FlushIsMarked, FlushCoversEarlierRecords
<1>2. QueueInv /\ DeliveryInv /\ [Next]_vars => DeliveryInv'
  BY DeliveryStep
<1> QED BY <1>1, <1>2, QueueInvariance, PTL DEF Spec

\* Every record leaves the ring exactly once and in the order of the tickets,
\* whatever the producers, the limits and the interleaving (drainQueueBatch).
THEOREM RecordsAreDelivered == Spec => []DeliveredInTicketOrder
<1>1. DeliveryInv => DeliveredInTicketOrder
  BY DEF DeliveryInv, DeliveredInTicketOrder, Draining
<1> QED BY <1>1, DeliveryInvariance, PTL

\* After the join of shutdown every record of the run has been handed to the
\* sinks, and the two counters of tickets add up to what became of them.
LEMMA ShutdownCovers ==
  ASSUME QueueInv, DeliveryInv PROVE ShutdownDrainsEverything
<1> SUFFICES ASSUME cpc = "shutClear", wpc = "exited"
             PROVE  /\ IsDue(delivered, enqueueTicket)
                    /\ stats["queued"] = Len(delivered)
                    /\ stats["allocationFailures"] = Cardinality(lost)
  BY DEF ShutdownDrainsEverything
<1>1. /\ Draining /\ batch = << >> /\ dequeueTicket = enqueueTicket /\ Moved = dequeueTicket
      /\ TicketsCountedOnce /\ IsDue(delivered \o batch, Moved)
  BY DEF DeliveryInv, BatchIsGuarded, Draining, Moved
<1>2. delivered \o batch = delivered
  <2>1. delivered \in Seq(Nat)
    BY HistoryFacts
  <2> QED BY <1>1, <2>1, ConcatEmptySeq
<1>3. IsDue(delivered, enqueueTicket)
  BY <1>1, <1>2
<1>4. Waiting0 = {} /\ Waiting1 = {}
  <2>1. \A p \in Producers : ~Uncounted(p)
    BY DEF QueueInv, AdmissionGuardsStorage, Closed, InRing, Uncounted
  <2> QED BY <2>1 DEF Waiting0, Waiting1
<1>5. Cardinality(Waiting0) = 0 /\ Cardinality(Waiting1) = 0
  BY <1>4, FS_EmptySet
<1>6. stats["queued"] = Cardinality(Due(enqueueTicket)) /\ stats["allocationFailures"] = Cardinality(lost)
  BY <1>1, <1>5, CountFacts
<1> QED BY <1>3, <1>6 DEF IsDue

\* A flush or shutdown that returns has covered the records accepted before it
\* (flushInternal, shutdownImpl).
THEOREM CallsCover == Spec => []CallsCoverRecords
<1>1. QueueInv /\ DeliveryInv => CallsCoverRecords
  BY ShutdownCovers DEF DeliveryInv, CallsCoverRecords
<1> QED BY <1>1, QueueInvariance, DeliveryInvariance, PTL
=============================================================================
