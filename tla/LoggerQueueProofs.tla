-------------------------- MODULE LoggerQueueProofs --------------------------
(***************************************************************************)
(* Proofs about LoggerQueue, for every number of producers, every queue    *)
(* limit and every bound: the ring protocol of logger_queue.cpp and the    *)
(* hand-shake between producers, worker and lifecycle operations.          *)
(***************************************************************************)
EXTENDS LoggerQueue, FiniteSetTheorems, TLAPS

-----------------------------------------------------------------------------
(* Arithmetic of the ring.                                                 *)

\* Two tickets less than a lap apart use different slots.
LEMMA SlotsOfWindowDiffer ==
  ASSUME NEW a \in Nat, NEW b \in Nat, a < b, b < a + HardLimit
  PROVE  SlotOf(a) # SlotOf(b)
<1> DEFINE C == HardLimit
           qa == a \div C
           qb == b \div C
<1>1. C \in Nat /\ C > 0
  BY QueueAssumption
<1> HIDE DEF C
<1>2. a = C * qa + (a % C) /\ b = C * qb + (b % C) /\ qa \in Nat /\ qb \in Nat
      /\ a % C \in 0..(C-1) /\ b % C \in 0..(C-1)
  BY <1>1
<1>3. SUFFICES ASSUME a % C = b % C PROVE FALSE
  BY DEF SlotOf, C
<1> HIDE DEF qa, qb
<1>4. b - a = C * qb - C * qa
  BY <1>1, <1>2, <1>3
<1>5. b - a = C * (qb - qa)
  BY <1>1, <1>2, <1>4
<1>6. CASE qb - qa >= 1
  <2>1. C * (qb - qa) >= C
    BY <1>1, <1>2, <1>6
  <2> QED BY <2>1, <1>5, <1>1 DEF C
<1>7. CASE qb - qa <= 0
  <2>1. C * (qb - qa) <= 0
    BY <1>1, <1>2, <1>7
  <2> QED BY <2>1, <1>5, <1>1
<1> QED BY <1>6, <1>7, <1>2

\* A ticket and the ticket one lap ahead use the same slot.
LEMMA LapKeepsSlot ==
  ASSUME NEW a \in Nat PROVE SlotOf(a + HardLimit) = SlotOf(a)
<1> DEFINE C == HardLimit
           q == a \div C
           s == (a + C) \div C
           x == a % C
           y == (a + C) % C
<1>1. C \in Nat /\ C > 0
  BY QueueAssumption
<1> HIDE DEF C
<1>2. /\ a = C * q + x /\ q \in Nat /\ x \in 0..(C - 1)
      /\ a + C = C * s + y /\ s \in Nat /\ y \in 0..(C - 1)
  BY <1>1
<1> HIDE DEF q, s, x, y
<1>3. x - y = C * (s - q - 1)
  BY <1>1, <1>2
<1>4. CASE s - q - 1 >= 1
  <2>1. C * (s - q - 1) >= C
    BY <1>1, <1>2, <1>4
  <2> QED BY <2>1, <1>1, <1>2, <1>3
<1>5. CASE s - q - 1 <= -1
  <2>1. C * (s - q - 1) <= -C
    BY <1>1, <1>2, <1>5
  <2> QED BY <2>1, <1>1, <1>2, <1>3
<1>6. CASE s - q - 1 = 0
  BY <1>1, <1>2, <1>3, <1>6 DEF x, y, C, SlotOf
<1> QED BY <1>2, <1>4, <1>5, <1>6

\* A ticket's slot exists.
LEMMA SlotOfType ==
  ASSUME NEW t \in Nat PROVE SlotOf(t) \in Slots
BY QueueAssumption DEF SlotOf, Slots

\* The counter of published slots keeps the width of std::size_t.
LEMMA SizeWraps ==
  ASSUME NEW n \in Nat PROVE n % SizeMod \in 0..(SizeMod - 1)
BY QueueAssumption

-----------------------------------------------------------------------------
(* Counting producers.                                                     *)

ActiveSet == {p \in Producers : Active(p)}

\* The sets the counters count are finite.
LEMMA CountedSetsFinite ==
  /\ IsFiniteSet(ActiveSet) /\ Cardinality(ActiveSet) \in Nat
  /\ IsFiniteSet(Reserving) /\ Cardinality(Reserving) \in Nat
<1>1. ActiveSet \subseteq Producers /\ Reserving \subseteq Producers
  BY DEF ActiveSet, Reserving
<1> QED BY <1>1, FS_Subset, FS_CardinalityType, QueueAssumption

\* Before leave, the leaving producer is counted.
LEMMA LeaverIsCounted ==
  ASSUME QueueInv, NEW p \in Producers, Active(p)
  PROVE  activeProducers >= 1
<1>1. p \in ActiveSet
  BY DEF ActiveSet
<1>2. Cardinality(ActiveSet) # 0
  BY <1>1, CountedSetsFinite, FS_EmptySet
<1> QED BY <1>2, CountedSetsFinite DEF QueueInv, ProducersCounted, ActiveSet

\* Before the worker lowers queueDepth, the released slot is counted.
LEMMA ReleasedIsCounted ==
  ASSUME QueueInv, wpc = "release" PROVE queueDepth >= 1
BY CountedSetsFinite DEF QueueInv, TypeOK, RingType, DepthCounted, Releasing, Moved

-----------------------------------------------------------------------------
(* Type correctness.                                                       *)

\* Resetting the ring gives a ring.
LEMMA EmptyRingType ==
  ASSUME EmptyRing, ringSize' \in {0, HardLimit} PROVE RingType'
<1>1. \A i \in Slots : i \in Nat
  BY QueueAssumption DEF Slots
<1>2. Cleared \in [skip : BOOLEAN, text : Seq(Entries)]
  BY DEF Cleared
<1>3. 0 \in 0..(SizeMod - 1)
  BY QueueAssumption
<1> QED BY <1>1, <1>2, <1>3 DEF EmptyRing, RingType

\* A part of the type invariant is kept by a step that changes none of its
\* variables.
LEMMA TypeFrame ==
  ASSUME TypeOK
  PROVE  /\ UNCHANGED ringVars => RingType'
         /\ UNCHANGED <<flagVars, stats>> => FlagType'
         /\ UNCHANGED prodVars => ProducerType'
         /\ UNCHANGED <<wpc, cpc>> => ControlType'
         /\ UNCHANGED <<batch, histVars>> => HistoryType'
<1>1. UNCHANGED ringVars => RingType'
  BY DEF TypeOK, RingType, ringVars
<1>2. UNCHANGED <<flagVars, stats>> => FlagType'
  BY DEF TypeOK, FlagType, flagVars
<1>3. UNCHANGED prodVars => ProducerType'
  BY DEF TypeOK, ProducerType, prodVars, localVars
<1>4. UNCHANGED <<wpc, cpc>> => ControlType'
  BY DEF TypeOK, ControlType
<1>5. UNCHANGED <<batch, histVars>> => HistoryType'
  BY DEF TypeOK, HistoryType, histVars
<1> QED BY <1>1, <1>2, <1>3, <1>4, <1>5

\* Every step of every thread keeps every variable in its type.
LEMMA TypeStep ==
  ASSUME QueueInv, [Next]_vars PROVE TypeOK'
<1>1. TypeOK
  BY DEF QueueInv
<1>2. ASSUME NEW p \in Producers, Enter(p)
      PROVE  TypeOK'
  BY <1>1, <1>2, TypeFrame DEF TypeOK, FlagType, ProducerType, Enter,
     workerVars, Go, flagVars, prodVars, localVars
<1>3. ASSUME NEW p \in Producers, CheckRunning(p)
      PROVE  TypeOK'
  BY <1>1, <1>3, TypeFrame DEF TypeOK, ProducerType, CheckRunning, workerVars,
     Go, localVars, prodVars
<1>4. ASSUME NEW p \in Producers, FilterEntry(p)
      PROVE  TypeOK'
  BY <1>1, <1>4, TypeFrame DEF TypeOK, ProducerType, FilterEntry, workerVars,
     Go, localVars, prodVars
<1>5. ASSUME NEW p \in Producers, NEW level \in Levels,
             ReserveQueueDepth(p, level)
      PROVE  TypeOK'
  <2>1. RingType'
    BY <1>1, <1>5 DEF TypeOK, RingType, ReserveQueueDepth, ringVars, Entries
  <2>2. FlagType'
    BY <1>1, <1>5 DEF TypeOK, FlagType, ReserveQueueDepth, Count, flagVars
  <2>3. ProducerType'
    BY <1>1, <1>5 DEF TypeOK, ProducerType, ReserveQueueDepth, Go, localVars,
       prodVars
  <2> QED BY <1>1, <1>5, <2>1, <2>2, <2>3, TypeFrame DEF TypeOK,
     ReserveQueueDepth, workerVars
<1>6. ASSUME NEW p \in Producers, TakeTicket(p)
      PROVE  TypeOK'
  <2>1. RingType'
    BY <1>1, <1>6 DEF TypeOK, RingType, TakeTicket, ringVars, Entries
  <2>2. ProducerType'
    BY <1>1, <1>6 DEF TypeOK, ProducerType, TakeTicket, Go, prodVars,
       localVars, RingType
  <2>3. HistoryType'
    BY <1>1, <1>6 DEF TypeOK, HistoryType, TakeTicket, workerVars, histVars,
       Entries, ProducerType
  <2> QED BY <1>1, <1>6, <2>1, <2>2, <2>3, TypeFrame DEF TypeOK, TakeTicket,
     workerVars
<1>7. ASSUME NEW p \in Producers, WaitForQueueSlot(p)
      PROVE  TypeOK'
  BY <1>1, <1>7, TypeFrame DEF TypeOK, ProducerType, WaitForQueueSlot,
     workerVars, Go, localVars, prodVars
<1>8. ASSUME NEW p \in Producers, CopyEntry(p)
      PROVE  TypeOK'
  <2>1. RingType'
    <3>1. SlotOf(ticket[p]) \in Slots
      BY <1>1, SlotOfType DEF TypeOK, ProducerType
    <3>2. {Filled(record[p]), Skipped} \subseteq [skip : BOOLEAN, text : Seq(Entries)]
      BY <1>1 DEF TypeOK, ProducerType, Filled, Skipped, Entries
    <3> QED BY <1>1, <1>8, <3>1, <3>2 DEF TypeOK, RingType, CopyEntry
  <2>2. ProducerType'
    BY <1>1, <1>8 DEF TypeOK, ProducerType, CopyEntry, Go, localVars, prodVars
  <2>3. HistoryType'
    BY <1>1, <1>8 DEF TypeOK, HistoryType, CopyEntry, ProducerType, workerVars
  <2> QED BY <1>1, <1>8, <2>1, <2>2, <2>3, TypeFrame DEF TypeOK, CopyEntry,
     workerVars
<1>9. ASSUME NEW p \in Producers, PublishSequence(p)
      PROVE  TypeOK'
  <2>1. RingType'
    <3>1. SlotOf(ticket[p]) \in Slots /\ ticket[p] + 1 \in Nat
      BY <1>1, SlotOfType DEF TypeOK, ProducerType
    <3> QED BY <1>1, <1>9, <3>1 DEF TypeOK, RingType, PublishSequence
  <2>2. ProducerType'
    BY <1>1, <1>9 DEF TypeOK, ProducerType, PublishSequence, Go, localVars,
       prodVars
  <2> QED BY <1>1, <1>9, <2>1, <2>2, TypeFrame DEF TypeOK, PublishSequence,
     workerVars
<1>10. ASSUME NEW p \in Producers, PublishCount(p)
      PROVE  TypeOK'
  <2>1. RingType'
    <3>1. publishedQueueDepth + 1 \in Nat
      BY <1>1, QueueAssumption DEF TypeOK, RingType
    <3> QED BY <1>1, <1>10, <3>1, SizeWraps DEF TypeOK, RingType, PublishCount
  <2>2. ProducerType'
    BY <1>1, <1>10 DEF TypeOK, ProducerType, PublishCount, Go, prodVars,
       localVars
  <2> QED BY <1>1, <1>10, <2>1, <2>2, TypeFrame DEF TypeOK, PublishCount,
     workerVars
<1>11. ASSUME NEW p \in Producers, PublishHead(p)
      PROVE  TypeOK'
  BY <1>1, <1>11, TypeFrame DEF TypeOK, FlagType, ProducerType, PublishHead,
     workerVars, Count, Counters, Go, flagVars, prodVars, localVars
<1>12. ASSUME NEW p \in Producers, Leave(p)
      PROVE  TypeOK'
  <2>1. activeProducers >= 1
    BY <1>12, LeaverIsCounted DEF Leave, Go, Active
  <2> QED BY <1>1, <1>12, TypeFrame, <2>1 DEF TypeOK, FlagType, ProducerType, Leave,
     workerVars, Go, AfterLeave, flagVars, prodVars, localVars
<1>13. ASSUME NEW p \in Producers, LeaveNotify(p)
      PROVE  TypeOK'
  BY <1>1, <1>13, TypeFrame DEF TypeOK, ProducerType, ControlType,
     LeaveNotify, workerVars, Go, AfterLeave, NotifyAll, localVars, prodVars
<1>14. ASSUME NEW p \in Producers, WakeWorker(p)
      PROVE  TypeOK'
  BY <1>1, <1>14, TypeFrame DEF TypeOK, ProducerType, ControlType, WakeWorker,
     workerVars, Go, NotifyAll, localVars, prodVars
<1>15. CASE WorkerLock
  BY <1>1, <1>15, TypeFrame DEF TypeOK, FlagType, ControlType, WorkerLock,
     workerVars, WorkerGo, flagVars
<1>16. CASE EvalHead
  BY <1>1, <1>16, TypeFrame DEF TypeOK, ControlType, EvalHead, workerVars,
     WorkerGo
<1>17. CASE EvalStop
  BY <1>1, <1>17, TypeFrame DEF TypeOK, FlagType, ControlType, EvalStop,
     workerVars, WorkerGo, flagVars
<1>18. CASE EvalDepth
  BY <1>1, <1>18, TypeFrame DEF TypeOK, FlagType, ControlType, EvalDepth,
     workerVars, WorkerGo, flagVars
<1>19. CASE ExitCheck
  BY <1>1, <1>19, TypeFrame DEF TypeOK, FlagType, ControlType, ExitCheck,
     workerVars, WorkerGo, flagVars
<1>20. CASE DrainNext
  BY <1>1, <1>20, TypeFrame DEF TypeOK, ControlType, DrainNext, workerVars,
     WorkerGo
<1>21. CASE MoveEntry
  <2>1. RingType'
    <3>1. SlotOf(dequeueTicket) \in Slots
      BY <1>1, SlotOfType DEF TypeOK, RingType
    <3>2. Cleared \in [skip : BOOLEAN, text : Seq(Entries)]
      BY DEF Cleared
    <3>3. dequeueTicket + HardLimit \in Nat
      BY <1>1, QueueAssumption DEF TypeOK, RingType
    <3> QED BY <1>1, <1>21, <3>1, <3>2, <3>3 DEF TypeOK, RingType, MoveEntry
  <2>2. ControlType'
    BY <1>1, <1>21 DEF TypeOK, ControlType, MoveEntry, WorkerGo, workerVars
  <2>3. HistoryType'
    <3>1. slot[SlotOf(dequeueTicket)].text \in Seq(Entries)
      BY <1>1, SlotOfType DEF TypeOK, RingType
    <3>2. batch' \in Seq(Entries)
      BY <1>1, <1>21, <3>1 DEF TypeOK, HistoryType, MoveEntry
    <3> QED BY <1>1, <1>21, <3>2 DEF TypeOK, HistoryType, MoveEntry, histVars
  <2> QED BY <1>1, <1>21, <2>1, <2>2, <2>3, TypeFrame DEF TypeOK, MoveEntry,
     workerVars, WorkerGo
<1>22. CASE AdvanceTicket
  BY <1>1, <1>22, TypeFrame DEF TypeOK, RingType, ControlType, AdvanceTicket,
     workerVars, WorkerGo, ringVars, Entries
<1>23. CASE Unpublish
  <2>1. publishedQueueDepth + SizeMod - 1 \in Nat
    BY <1>1, QueueAssumption DEF TypeOK, RingType
  <2> QED BY <1>1, <1>23, TypeFrame, <2>1, SizeWraps DEF TypeOK, RingType,
     ControlType, Unpublish, workerVars, WorkerGo, ringVars, Entries
<1>24. CASE ReleaseDepth
  <2>1. queueDepth >= 1
    BY <1>24, ReleasedIsCounted DEF ReleaseDepth, WorkerGo
  <2> QED BY <1>1, <1>24, TypeFrame, <2>1 DEF TypeOK, RingType, ControlType,
     ReleaseDepth, workerVars, WorkerGo, ringVars, Entries
<1>25. CASE DeliverBatch
  BY <1>1, <1>25, TypeFrame DEF TypeOK, HistoryType, ControlType,
     DeliverBatch, workerVars, WorkerGo, histVars, Entries
<1>26. CASE WorkerIdle
  BY <1>1, <1>26, TypeFrame DEF TypeOK, FlagType, ControlType, WorkerIdle,
     workerVars, WorkerGo, flagVars
<1>27. CASE WorkerNotify
  BY <1>1, <1>27, TypeFrame DEF TypeOK, ControlType, WorkerNotify, workerVars,
     WorkerGo
<1>28. CASE InitPrepare
  <2>1. RingType'
    BY <1>1, <1>28, EmptyRingType DEF TypeOK, RingType, InitPrepare,
       ResetRuntimeState
  <2>2. FlagType'
    BY <1>1, <1>28 DEF TypeOK, FlagType, InitPrepare, ResetRuntimeState,
       NoStats, flagVars
  <2>3. ControlType'
    BY <1>1, <1>28 DEF TypeOK, ControlType, InitPrepare, ControlGo,
       workerVars, ResetRuntimeState
  <2>4. HistoryType'
    BY <1>1, <1>28, QueueAssumption DEF TypeOK, HistoryType, InitPrepare,
       workerVars, ResetRuntimeState, EmptyRing, histVars, Entries
  <2> QED BY <1>1, <1>28, <2>1, <2>2, <2>3, <2>4, TypeFrame DEF TypeOK,
     InitPrepare, workerVars, ControlGo, ResetRuntimeState
<1>29. CASE InitDisabled
  <2>1. RingType'
    BY <1>1, <1>29, EmptyRingType DEF TypeOK, RingType, InitDisabled,
       ResetRuntimeState
  <2>2. FlagType'
    BY <1>1, <1>29 DEF TypeOK, FlagType, InitDisabled, ResetRuntimeState,
       NoStats, flagVars
  <2>3. ControlType'
    BY <1>1, <1>29 DEF TypeOK, ControlType, InitDisabled, ControlGo,
       workerVars, ResetRuntimeState
  <2>4. HistoryType'
    BY <1>1, <1>29, QueueAssumption DEF TypeOK, HistoryType, InitDisabled,
       workerVars, ResetRuntimeState, EmptyRing, histVars, Entries
  <2> QED BY <1>1, <1>29, <2>1, <2>2, <2>3, <2>4, TypeFrame DEF TypeOK,
     InitDisabled, workerVars, ControlGo, ResetRuntimeState
<1>30. CASE InitNoSink
  <2>1. RingType'
    BY <1>1, <1>30, EmptyRingType DEF TypeOK, RingType, InitNoSink
  <2>2. ControlType'
    BY <1>1, <1>30 DEF TypeOK, ControlType, InitNoSink, ControlGo, workerVars
  <2> QED BY <1>1, <1>30, <2>1, <2>2, TypeFrame DEF TypeOK, InitNoSink,
     workerVars, ControlGo
<1>31. CASE StartPublish
  BY <1>1, <1>31, TypeFrame DEF TypeOK, FlagType, ControlType, StartPublish,
     workerVars, ControlGo, flagVars
<1>32. CASE SpawnWorker
  BY <1>1, <1>32, TypeFrame DEF TypeOK, ControlType, SpawnWorker, workerVars,
     ControlGo
<1>33. CASE SpawnFails
  BY <1>1, <1>33, TypeFrame DEF TypeOK, FlagType, ControlType, SpawnFails,
     workerVars, ControlGo, flagVars
<1>34. CASE WaitForActiveProducersToLeave
  BY <1>1, <1>34, TypeFrame DEF TypeOK, ControlType,
     WaitForActiveProducersToLeave, workerVars, ControlGo
<1>35. CASE FlushBegin
  <2>1. ControlType'
    BY <1>1, <1>35 DEF TypeOK, ControlType, FlushBegin, ControlGo, workerVars
  <2>2. HistoryType'
    BY <1>1, <1>35 DEF TypeOK, HistoryType, FlushBegin, workerVars, histVars,
       Entries, RingType
  <2> QED BY <1>1, <1>35, <2>1, <2>2, TypeFrame DEF TypeOK, FlushBegin,
     workerVars, ControlGo
<1>36. CASE FlushCheck
  BY <1>1, <1>36, TypeFrame DEF TypeOK, ControlType, FlushCheck, workerVars,
     ControlGo
<1>37. CASE FlushTimesOut
  BY <1>1, <1>37, TypeFrame DEF TypeOK, HistoryType, ControlType,
     FlushTimesOut, workerVars, ControlGo, FlushEnd, histVars, Entries
<1>38. CASE FlushSinks
  BY <1>1, <1>38, TypeFrame DEF TypeOK, HistoryType, ControlType, FlushSinks,
     workerVars, ControlGo, FlushEnd, histVars, Entries
<1>39. CASE ShutdownStop
  BY <1>1, <1>39, TypeFrame DEF TypeOK, FlagType, ControlType, ShutdownStop,
     workerVars, ControlGo, flagVars
<1>40. CASE ShutdownNotify
  BY <1>1, <1>40, TypeFrame DEF TypeOK, ControlType, ShutdownNotify,
     workerVars, ControlGo
<1>41. CASE ShutdownJoin
  BY <1>1, <1>41, TypeFrame DEF TypeOK, ControlType, ShutdownJoin, workerVars,
     ControlGo
<1>42. CASE ShutdownFlush
  BY <1>1, <1>42, TypeFrame DEF TypeOK, ControlType, ShutdownFlush,
     workerVars, ControlGo
<1>43. CASE ShutdownClear
  <2>1. RingType'
    BY <1>1, <1>43, EmptyRingType DEF TypeOK, RingType, ShutdownClear
  <2>2. FlagType'
    BY <1>1, <1>43 DEF TypeOK, FlagType, ShutdownClear, flagVars
  <2>3. ControlType'
    BY <1>1, <1>43 DEF TypeOK, ControlType, ShutdownClear, ControlGo,
       workerVars
  <2> QED BY <1>1, <1>43, <2>1, <2>2, <2>3, TypeFrame DEF TypeOK,
     ShutdownClear, workerVars, ControlGo
<1>44. CASE UNCHANGED vars
  BY <1>1, <1>44, TypeFrame DEF TypeOK, vars, workerVars
<1> QED
  BY <1>2, <1>3, <1>4, <1>5, <1>6, <1>7, <1>8, <1>9, <1>10, <1>11, <1>12,
     <1>13, <1>14, <1>15, <1>16, <1>17, <1>18, <1>19, <1>20, <1>21, <1>22,
     <1>23, <1>24, <1>25, <1>26, <1>27, <1>28, <1>29, <1>30, <1>31, <1>32,
     <1>33, <1>34, <1>35, <1>36, <1>37, <1>38, <1>39, <1>40, <1>41, <1>42,
     <1>43, <1>44 DEF Next, ProducerStep, WorkerStep, LifecycleStep,
     LifecycleCall

-----------------------------------------------------------------------------
(* The counters.                                                           *)

\* activeProducers counts the producers between enter and leave, whatever
\* step is taken.
LEMMA ProducersCountedStep ==
  ASSUME QueueInv, [Next]_vars PROVE ProducersCounted'
<1> USE DEF ActiveSet, Active, Go
<1>1. ProducersCounted /\ pc = [q \in Producers |-> pc[q]]
  BY DEF QueueInv, TypeOK, ProducerType
<1>2. ASSUME ActiveSet' = ActiveSet, activeProducers' = activeProducers
      PROVE  ProducersCounted'
  BY <1>1, <1>2 DEF ProducersCounted
<1>3. ASSUME NEW p \in Producers, Enter(p) PROVE ProducersCounted'
  <2>1. ActiveSet' = ActiveSet \cup {p} /\ p \notin ActiveSet
    BY <1>1, <1>3 DEF Enter
  <2>2. Cardinality(ActiveSet') = Cardinality(ActiveSet) + 1
    BY <2>1, CountedSetsFinite, FS_AddElement
  <2> QED BY <1>1, <1>3, <2>2 DEF ProducersCounted, Enter
<1>4. ASSUME NEW p \in Producers, Leave(p) PROVE ProducersCounted'
  <2>1. ActiveSet' = ActiveSet \ {p} /\ p \in ActiveSet
    BY <1>1, <1>4 DEF Leave, AfterLeave
  <2>2. Cardinality(ActiveSet') = Cardinality(ActiveSet) - 1
    BY <2>1, CountedSetsFinite, FS_RemoveElement
  <2> QED BY <1>1, <1>4, <2>2 DEF ProducersCounted, Leave
<1>5. ASSUME NEW p \in Producers,
             \/ CheckRunning(p) \/ FilterEntry(p)
             \/ \E level \in Levels : ReserveQueueDepth(p, level)
             \/ TakeTicket(p) \/ WaitForQueueSlot(p) \/ CopyEntry(p)
             \/ PublishSequence(p) \/ PublishCount(p) \/ PublishHead(p)
             \/ LeaveNotify(p) \/ WakeWorker(p)
      PROVE  ActiveSet' = ActiveSet /\ activeProducers' = activeProducers
  BY <1>1, <1>5
     DEF CheckRunning, FilterEntry, ReserveQueueDepth, TakeTicket,
         WaitForQueueSlot, CopyEntry, PublishSequence, PublishCount,
         PublishHead, LeaveNotify, WakeWorker, AfterLeave, flagVars
<1>6. CASE WorkerStep
  <2>1. UNCHANGED <<pc, activeProducers>>
    BY <1>6 DEF WorkerStep, WorkerLock, EvalHead, EvalStop, EvalDepth,
       ExitCheck, DrainNext, MoveEntry, AdvanceTicket, Unpublish,
       ReleaseDepth, DeliverBatch, WorkerIdle, WorkerNotify, flagVars,
       prodVars
  <2> QED BY <2>1, <1>2
<1>7. CASE LifecycleStep \/ LifecycleCall \/ UNCHANGED vars
  <2>1. UNCHANGED <<pc, activeProducers>>
    BY <1>7 DEF LifecycleStep, LifecycleCall, StartPublish, InitNoSink,
       SpawnWorker, SpawnFails, WaitForActiveProducersToLeave, FlushCheck,
       FlushSinks, FlushEnd, ShutdownNotify, ShutdownJoin, ShutdownFlush,
       ShutdownClear, InitPrepare, InitDisabled, ResetRuntimeState,
       FlushBegin, FlushTimesOut, ShutdownStop, vars, flagVars, prodVars
  <2> QED BY <2>1, <1>2
<1> QED BY <1>2, <1>3, <1>4, <1>5, <1>6, <1>7 DEF Next, ProducerStep

-----------------------------------------------------------------------------
(* The window of tickets in flight.                                        *)

\* Different tickets of one window use different slots.
LEMMA WindowIsInjective ==
  ASSUME NEW a \in Nat, NEW b \in Nat, a # b,
         a < b + HardLimit, b < a + HardLimit
  PROVE  SlotOf(a) # SlotOf(b)
<1>1. a < b \/ b < a
  OBVIOUS
<1> QED BY <1>1, SlotsOfWindowDiffer

\* What the counters say about the window: it fits in the ring, a producer
\* with a reservation finds room in it, and a worker about to move an entry
\* finds a ticket in it that nobody is filling.
LEMMA WindowFacts ==
  ASSUME QueueInv
  PROVE  /\ enqueueTicket \in Nat /\ dequeueTicket \in Nat /\ Moved \in Nat
         /\ HardLimit \in Nat /\ HardLimit > 0
         /\ Moved <= enqueueTicket /\ dequeueTicket <= Moved
         /\ enqueueTicket <= Moved + HardLimit
         /\ Reserving # {} => enqueueTicket < Moved + HardLimit
         /\ wpc = "move" => /\ Moved = dequeueTicket
                            /\ dequeueTicket < enqueueTicket
                            /\ \A p \in Producers :
                                 Filling(p) => ticket[p] # dequeueTicket
<1>1. /\ enqueueTicket \in Nat /\ dequeueTicket \in Nat /\ Moved \in Nat
      /\ HardLimit \in Nat /\ HardLimit > 0 /\ dequeueTicket <= Moved
  BY QueueAssumption DEF QueueInv, TypeOK, RingType, Moved
<1>2. /\ Moved <= enqueueTicket
      /\ queueDepth = Cardinality(Reserving) + (enqueueTicket - dequeueTicket)
                        + Releasing
      /\ queueDepth <= HardLimit
      /\ Releasing \in Nat
  BY DEF QueueInv, DepthCounted, Releasing
<1>3. enqueueTicket <= Moved + HardLimit
  BY <1>1, <1>2, CountedSetsFinite
<1>4. Reserving # {} => enqueueTicket < Moved + HardLimit
  <2>1. Reserving # {} => Cardinality(Reserving) # 0
    BY CountedSetsFinite, FS_EmptySet
  <2> QED BY <1>1, <1>2, <2>1, CountedSetsFinite
<1>5. ASSUME wpc = "move"
      PROVE  /\ Moved = dequeueTicket
             /\ dequeueTicket < enqueueTicket
             /\ \A p \in Producers : Filling(p) => ticket[p] # dequeueTicket
  <2>1. Moved = dequeueTicket
    BY <1>5 DEF Moved
  <2>2. sequence[SlotOf(dequeueTicket)] = dequeueTicket + 1
    BY <1>5 DEF QueueInv, SequencesOrdered
  <2>3. dequeueTicket # enqueueTicket
    <3>1. SUFFICES ASSUME dequeueTicket = enqueueTicket PROVE FALSE
      OBVIOUS
    <3>2. enqueueTicket \in enqueueTicket..(Moved + HardLimit - 1)
      BY <1>1, <2>1, <3>1
    <3> QED BY <1>1, <2>2, <3>1, <3>2 DEF QueueInv, SequencesOrdered
  <2>4. dequeueTicket \in Moved..(enqueueTicket - 1)
    BY <1>1, <1>2, <2>1, <2>3
  <2> QED BY <1>1, <2>1, <2>2, <2>4 DEF QueueInv, SequencesOrdered
<1> QED BY <1>1, <1>2, <1>3, <1>4, <1>5

\* Steps that touch neither the tickets nor the sequences, and move no
\* producer into or out of the ring's bookkeeping.
RingFrame ==
  /\ UNCHANGED <<sequence, enqueueTicket, dequeueTicket, queueDepth>>
  /\ \A q \in Producers :
       /\ (pc[q] = "ticket")' <=> pc[q] = "ticket"
       /\ Filling(q)' <=> Filling(q)
       /\ Filling(q) => ticket'[q] = ticket[q]
  /\ UNCHANGED <<Moved, Releasing>>
  /\ wpc' = "move" => wpc = "move"

\* The bookkeeping survives such a step.
LEMMA RingFrameKeeps ==
  ASSUME QueueInv, RingFrame
  PROVE  DepthCounted' /\ TicketsDistinct' /\ SequencesOrdered'
<1>1. Reserving' = Reserving
  BY DEF RingFrame, Reserving
<1>2. DepthCounted'
  BY <1>1 DEF QueueInv, DepthCounted, RingFrame
<1>3. TicketsDistinct'
  BY DEF QueueInv, TicketsDistinct, RingFrame
<1>4. SequencesOrdered'
  BY DEF QueueInv, SequencesOrdered, RingFrame
<1> QED BY <1>2, <1>3, <1>4

\* An empty ring with nobody in it satisfies the bookkeeping.
LEMMA EmptyRingKeeps ==
  ASSUME EmptyRing, wpc' \in {"none", "exited"},
         \A p \in Producers : pc'[p] # "ticket" /\ ~Filling(p)'
  PROVE  DepthCounted' /\ TicketsDistinct' /\ SequencesOrdered'
<1>1. Reserving' = {} /\ Releasing' = 0 /\ Moved' = 0
  BY DEF Reserving, Releasing, Moved, EmptyRing
<1>2. DepthCounted'
  BY <1>1, FS_EmptySet, QueueAssumption DEF DepthCounted, EmptyRing
<1>3. TicketsDistinct'
  BY DEF TicketsDistinct
<1>4. ASSUME NEW t \in 0..(HardLimit - 1) PROVE SlotOf(t) = t
  BY QueueAssumption DEF SlotOf
<1>5. SequencesOrdered'
  BY <1>1, <1>4, QueueAssumption DEF SequencesOrdered, EmptyRing, Slots
<1> QED BY <1>2, <1>3, <1>5

RingInv == DepthCounted /\ TicketsDistinct /\ SequencesOrdered

\* reserveQueueDepth keeps the bookkeeping: a reservation is counted before
\* a ticket is drawn, and never beyond the ring.
LEMMA ReserveKeepsRing ==
  ASSUME QueueInv, NEW p \in Producers, NEW level \in Levels,
         ReserveQueueDepth(p, level)
  PROVE  RingInv'
<1> USE DEF Go
<1>1. /\ pc = [q \in Producers |-> pc[q]]
      /\ pc[p] = "reserve"
      /\ UNCHANGED <<sequence, enqueueTicket, dequeueTicket, ticket, wpc>>
  BY DEF QueueInv, TypeOK, ProducerType, ReserveQueueDepth, localVars, workerVars
<1>2. CASE queueDepth' = queueDepth /\ pc' = [pc EXCEPT ![p] = "leave"]
  <2>1. RingFrame
    BY <1>1, <1>2 DEF RingFrame, Filling, Moved, Releasing
  <2> QED BY <2>1, RingFrameKeeps DEF RingInv
<1>3. CASE /\ queueDepth < ringSize /\ queueDepth' = queueDepth + 1
           /\ pc' = [pc EXCEPT ![p] = "ticket"]
  <2>1. Moved' = Moved /\ Releasing' = Releasing
    BY <1>1 DEF Moved, Releasing
  <2>2. \A q \in Producers : Filling(q)' <=> Filling(q)
    BY <1>1, <1>3 DEF Filling
  <2>3. Reserving' = Reserving \cup {p} /\ p \notin Reserving
    BY <1>1, <1>3 DEF Reserving
  <2>4. Cardinality(Reserving') = Cardinality(Reserving) + 1
    BY <2>3, CountedSetsFinite, FS_AddElement
  <2>5. queueDepth' <= HardLimit
    BY <1>3, QueueAssumption DEF QueueInv, TypeOK, RingType
  <2>6. DepthCounted'
    BY <1>1, <1>3, <2>1, <2>4, <2>5, CountedSetsFinite, WindowFacts
       DEF QueueInv, DepthCounted, Releasing
  <2>7. TicketsDistinct'
    BY <1>1, <2>1, <2>2 DEF QueueInv, TicketsDistinct
  <2>8. SequencesOrdered'
    BY <1>1, <2>1, <2>2 DEF QueueInv, SequencesOrdered
  <2> QED BY <2>6, <2>7, <2>8 DEF RingInv
<1> QED BY <1>2, <1>3 DEF ReserveQueueDepth

\* Drawing a ticket keeps the bookkeeping: the reservation becomes a ticket,
\* and the ticket's slot is free.
LEMMA TakeTicketKeepsRing ==
  ASSUME QueueInv, NEW p \in Producers, TakeTicket(p)
  PROVE  RingInv'
<1>1. /\ pc = [q \in Producers |-> pc[q]]
      /\ ticket = [q \in Producers |-> ticket[q]]
      /\ pc[p] = "ticket" /\ pc' = [pc EXCEPT ![p] = "wait"]
      /\ ticket' = [ticket EXCEPT ![p] = enqueueTicket]
      /\ enqueueTicket' = enqueueTicket + 1
      /\ UNCHANGED <<sequence, dequeueTicket, queueDepth, wpc>>
  BY DEF QueueInv, TypeOK, ProducerType, TakeTicket, Go, workerVars
<1>2. Moved' = Moved /\ Releasing' = Releasing
  BY <1>1 DEF Moved, Releasing
<1>3. Reserving' = Reserving \ {p} /\ p \in Reserving
  BY <1>1 DEF Reserving
<1>4. Cardinality(Reserving') = Cardinality(Reserving) - 1
  BY <1>3, CountedSetsFinite, FS_RemoveElement
<1>5. enqueueTicket < Moved + HardLimit
  BY <1>3, WindowFacts
<1>6. /\ Filling(p)' /\ ~Filling(p) /\ ticket'[p] = enqueueTicket
      /\ \A q \in Producers \ {p} :
           (Filling(q)' <=> Filling(q)) /\ ticket'[q] = ticket[q]
  BY <1>1 DEF Filling
<1>7. DepthCounted'
  BY <1>1, <1>2, <1>4, CountedSetsFinite, WindowFacts
     DEF QueueInv, DepthCounted, Releasing
<1>8. TicketsDistinct'
  BY <1>1, <1>2, <1>6, WindowFacts DEF QueueInv, TicketsDistinct
<1>9. SequencesOrdered'
  <2>1. sequence[SlotOf(enqueueTicket)] = enqueueTicket
    BY <1>5, WindowFacts DEF QueueInv, SequencesOrdered
  <2>2. ASSUME NEW t \in Moved..(enqueueTicket' - 1)
        PROVE  \/ /\ sequence[SlotOf(t)] = t
                  /\ \E q \in Producers : Filling(q)' /\ ticket'[q] = t
               \/ /\ sequence[SlotOf(t)] = t + 1
                  /\ \A q \in Producers : Filling(q)' => ticket'[q] # t
    <3>1. CASE t = enqueueTicket
      BY <1>6, <2>1, <3>1
    <3>2. CASE t \in Moved..(enqueueTicket - 1)
      BY <1>6, <3>2, WindowFacts DEF QueueInv, SequencesOrdered
    <3> QED BY <1>1, <3>1, <3>2, WindowFacts
  <2>3. \A t \in enqueueTicket'..(Moved + HardLimit - 1) : sequence[SlotOf(t)] = t
    BY <1>1, WindowFacts DEF QueueInv, SequencesOrdered
  <2> QED BY <1>1, <1>2, <2>2, <2>3 DEF QueueInv, SequencesOrdered
<1> QED BY <1>7, <1>8, <1>9 DEF RingInv

\* Publishing a slot keeps the bookkeeping: only the publisher's slot changes.
LEMMA PublishKeepsRing ==
  ASSUME QueueInv, NEW p \in Producers, PublishSequence(p)
  PROVE  RingInv'
<1> DEFINE t0 == ticket[p]
<1>1. /\ pc = [q \in Producers |-> pc[q]]
      /\ sequence = [i \in Slots |-> sequence[i]]
      /\ pc[p] = "publish" /\ pc' = [pc EXCEPT ![p] = "count"]
      /\ sequence' = [sequence EXCEPT ![SlotOf(t0)] = t0 + 1]
      /\ UNCHANGED <<enqueueTicket, dequeueTicket, queueDepth, wpc, ticket>>
  BY DEF QueueInv, TypeOK, ProducerType, RingType, PublishSequence, Go, workerVars, localVars
<1>2. Moved' = Moved /\ Releasing' = Releasing
  BY <1>1 DEF Moved, Releasing
<1>3. Reserving' = Reserving
  BY <1>1 DEF Reserving
<1>4. /\ ~Filling(p)' /\ Filling(p)
      /\ \A q \in Producers \ {p} : Filling(q)' <=> Filling(q)
  BY <1>1 DEF Filling
<1>5. /\ t0 \in Moved..(enqueueTicket - 1)
      /\ \A q \in Producers \ {p} : Filling(q) => ticket[q] # t0
  BY <1>4 DEF QueueInv, TicketsDistinct
<1>6. DepthCounted'
  BY <1>1, <1>2, <1>3 DEF QueueInv, DepthCounted
<1>7. TicketsDistinct'
  BY <1>1, <1>2, <1>4 DEF QueueInv, TicketsDistinct
<1>8. SequencesOrdered'
  <2>1. sequence'[SlotOf(t0)] = t0 + 1
    BY <1>1, <1>5, SlotOfType, WindowFacts
  <2>2. ASSUME NEW t \in Moved..(Moved + HardLimit - 1), t # t0
        PROVE  sequence'[SlotOf(t)] = sequence[SlotOf(t)]
    <3>1. SlotOf(t) # SlotOf(t0)
      BY <1>5, <2>2, WindowIsInjective, WindowFacts
    <3>2. SlotOf(t) \in Slots
      BY SlotOfType, WindowFacts
    <3> QED BY <1>1, <3>1, <3>2
  <2>3. ASSUME NEW t \in Moved..(enqueueTicket - 1)
        PROVE  \/ /\ sequence'[SlotOf(t)] = t
                  /\ \E q \in Producers : Filling(q)' /\ ticket'[q] = t
               \/ /\ sequence'[SlotOf(t)] = t + 1
                  /\ \A q \in Producers : Filling(q)' => ticket'[q] # t
    <3>1. CASE t = t0
      BY <1>1, <1>4, <1>5, <2>1, <3>1
    <3>2. CASE t # t0
      <4>1. sequence'[SlotOf(t)] = sequence[SlotOf(t)]
        BY <2>2, <3>2, WindowFacts
      <4> QED BY <1>1, <1>4, <3>2, <4>1 DEF QueueInv, SequencesOrdered
    <3> QED BY <3>1, <3>2
  <2>4. ASSUME NEW t \in enqueueTicket..(Moved + HardLimit - 1)
        PROVE  sequence'[SlotOf(t)] = t
    <3>1. t \in Moved..(Moved + HardLimit - 1) /\ t # t0
      BY <1>5, WindowFacts
    <3> QED BY <2>2, <3>1 DEF QueueInv, SequencesOrdered
  <2>5. wpc = "move" => sequence'[SlotOf(dequeueTicket)] = dequeueTicket + 1
    <3>1. SUFFICES ASSUME wpc = "move"
                   PROVE  sequence'[SlotOf(dequeueTicket)] = dequeueTicket + 1
      OBVIOUS
    <3>2. dequeueTicket \in Moved..(Moved + HardLimit - 1) /\ dequeueTicket # t0
      BY <1>4, <3>1, WindowFacts
    <3> QED BY <2>2, <3>1, <3>2 DEF QueueInv, SequencesOrdered
  <2> QED BY <1>1, <1>2, <2>3, <2>4, <2>5 DEF SequencesOrdered
<1> QED BY <1>6, <1>7, <1>8 DEF RingInv

\* Moving an entry out keeps the bookkeeping: the drained slot is given to
\* the ticket one lap ahead.
LEMMA MoveKeepsRing ==
  ASSUME QueueInv, MoveEntry PROVE RingInv'
<1> DEFINE d == dequeueTicket
<1>1. /\ sequence = [i \in Slots |-> sequence[i]]
      /\ wpc = "move" /\ wpc' = "advance"
      /\ sequence' = [sequence EXCEPT ![SlotOf(d)] = d + HardLimit]
      /\ UNCHANGED <<enqueueTicket, dequeueTicket, queueDepth, pc, ticket>>
  BY DEF QueueInv, TypeOK, RingType, MoveEntry, WorkerGo, prodVars, localVars
<1>2. Moved = d /\ Moved' = d + 1 /\ Releasing' = Releasing
  BY <1>1 DEF Moved, Releasing
<1>3. Reserving' = Reserving /\ \A q \in Producers : Filling(q)' <=> Filling(q)
  BY <1>1 DEF Reserving, Filling
<1>4. DepthCounted'
  BY <1>1, <1>2, <1>3, WindowFacts DEF QueueInv, DepthCounted
<1>5. TicketsDistinct'
  BY <1>1, <1>2, <1>3, WindowFacts DEF QueueInv, TicketsDistinct
<1>6. SequencesOrdered'
  <2>1. sequence'[SlotOf(d)] = d + HardLimit
    BY <1>1, SlotOfType, WindowFacts
  <2>2. ASSUME NEW t \in (d + 1)..(d + HardLimit - 1)
        PROVE  sequence'[SlotOf(t)] = sequence[SlotOf(t)]
    <3>1. SlotOf(d) # SlotOf(t)
      BY <2>2, WindowIsInjective, WindowFacts
    <3>2. SlotOf(t) \in Slots
      BY SlotOfType, WindowFacts
    <3> QED BY <1>1, <3>1, <3>2
  <2>3. ASSUME NEW t \in (d + 1)..(enqueueTicket - 1)
        PROVE  \/ /\ sequence'[SlotOf(t)] = t
                  /\ \E q \in Producers : Filling(q)' /\ ticket'[q] = t
               \/ /\ sequence'[SlotOf(t)] = t + 1
                  /\ \A q \in Producers : Filling(q)' => ticket'[q] # t
    <3>1. sequence'[SlotOf(t)] = sequence[SlotOf(t)]
      BY <1>2, <2>2, WindowFacts
    <3>2. t \in Moved..(enqueueTicket - 1)
      BY <1>2, WindowFacts
    <3> QED BY <1>1, <1>3, <3>1, <3>2 DEF QueueInv, SequencesOrdered
  <2>4. ASSUME NEW t \in enqueueTicket..(d + HardLimit)
        PROVE  sequence'[SlotOf(t)] = t
    <3>1. CASE t = d + HardLimit
      <4>1. SlotOf(d + HardLimit) = SlotOf(d)
        BY LapKeepsSlot, WindowFacts
      <4> QED BY <2>1, <3>1, <4>1
    <3>2. CASE t # d + HardLimit
      <4>1. t \in (d + 1)..(d + HardLimit - 1) /\ t \in enqueueTicket..(Moved + HardLimit - 1)
        BY <1>1, <1>2, <3>2, WindowFacts
      <4> QED BY <2>2, <4>1 DEF QueueInv, SequencesOrdered
    <3> QED BY <3>1, <3>2
  <2>5. Moved' + HardLimit - 1 = d + HardLimit
    BY <1>2, WindowFacts
  <2> QED BY <1>1, <1>2, <2>3, <2>4, <2>5 DEF SequencesOrdered
<1> QED BY <1>4, <1>5, <1>6 DEF RingInv

\* Advancing dequeueTicket and lowering queueDepth keep the bookkeeping.
LEMMA AdvanceKeepsRing ==
  ASSUME QueueInv, AdvanceTicket \/ Unpublish \/ ReleaseDepth PROVE RingInv'
<1>1. /\ UNCHANGED <<sequence, enqueueTicket, pc, ticket>>
      /\ wpc' # "move" /\ Moved' = Moved
      /\ (queueDepth - (enqueueTicket - dequeueTicket) - Releasing)'
           = queueDepth - (enqueueTicket - dequeueTicket) - Releasing
      /\ queueDepth' \in Int /\ queueDepth' <= queueDepth /\ Releasing' \in Nat
      /\ dequeueTicket' \in Nat
  BY WindowFacts DEF QueueInv, TypeOK, RingType, AdvanceTicket, Unpublish,
     ReleaseDepth, WorkerGo, Moved, Releasing, prodVars, localVars
<1>2. Reserving' = Reserving /\ \A q \in Producers : Filling(q)' <=> Filling(q)
  BY <1>1 DEF Reserving, Filling
<1>3. DepthCounted'
  <2>1. queueDepth \in Nat
    BY DEF QueueInv, TypeOK, RingType
  <2> QED BY <1>1, <1>2, <2>1, CountedSetsFinite, WindowFacts
             DEF QueueInv, DepthCounted, Releasing
<1>4. TicketsDistinct'
  BY <1>1, <1>2 DEF QueueInv, TicketsDistinct
<1>5. SequencesOrdered'
  BY <1>1, <1>2 DEF QueueInv, SequencesOrdered
<1> QED BY <1>3, <1>4, <1>5 DEF RingInv

\* Every step keeps the bookkeeping of the ring.
LEMMA RingStep ==
  ASSUME QueueInv, [Next]_vars PROVE RingInv'
<1>1. ASSUME RingFrame PROVE RingInv'
  BY <1>1, RingFrameKeeps DEF RingInv
<1>2. /\ pc = [q \in Producers |-> pc[q]]
      /\ ticket = [q \in Producers |-> ticket[q]]
  BY DEF QueueInv, TypeOK, ProducerType
<1>3. ASSUME NEW p \in Producers,
             \/ Enter(p) \/ CheckRunning(p) \/ FilterEntry(p)
             \/ WaitForQueueSlot(p) \/ CopyEntry(p) \/ PublishCount(p)
             \/ PublishHead(p) \/ Leave(p) \/ LeaveNotify(p) \/ WakeWorker(p)
      PROVE  RingFrame
  <2>1. /\ \A q \in Producers \ {p} : pc'[q] = pc[q] /\ ticket'[q] = ticket[q]
        /\ (pc'[p] = "ticket") <=> (pc[p] = "ticket")
        /\ Filling(p)' <=> Filling(p)
        /\ Filling(p) => ticket'[p] = ticket[p]
    BY <1>2, <1>3 DEF Filling, Enter, CheckRunning, FilterEntry,
       WaitForQueueSlot, CopyEntry, PublishCount, PublishHead, Leave,
       LeaveNotify, WakeWorker, AfterLeave, Go, localVars
  <2>2. UNCHANGED <<sequence, enqueueTicket, dequeueTicket, queueDepth>>
    BY <1>3 DEF Enter, CheckRunning, FilterEntry, WaitForQueueSlot, CopyEntry,
       PublishCount, PublishHead, Leave, LeaveNotify, WakeWorker, ringVars
  <2>3. wpc' = wpc \/ (wpc = "waiting" /\ wpc' = "lock")
    BY <1>3 DEF Enter, CheckRunning, FilterEntry, WaitForQueueSlot, CopyEntry,
       PublishCount, PublishHead, Leave, LeaveNotify, WakeWorker, NotifyAll,
       workerVars
  <2>4. UNCHANGED <<Moved, Releasing>> /\ (wpc' = "move" => wpc = "move")
    BY <2>2, <2>3 DEF Moved, Releasing
  <2> QED BY <2>1, <2>2, <2>4 DEF RingFrame, Filling
<1>4. ASSUME \/ WorkerLock \/ EvalHead \/ EvalStop \/ EvalDepth \/ ExitCheck
             \/ DeliverBatch \/ WorkerIdle \/ WorkerNotify
      PROVE  RingFrame
  <2>1. /\ UNCHANGED <<sequence, enqueueTicket, dequeueTicket, queueDepth, pc, ticket>>
        /\ {wpc, wpc'} \subseteq {"lock", "evalHead", "evalStop", "evalDepth",
             "waiting", "exitCheck", "exited", "drain", "deliver", "idle", "notify"}
    BY <1>4 DEF WorkerLock, EvalHead, EvalStop, EvalDepth, ExitCheck,
       DeliverBatch, WorkerIdle, WorkerNotify, WorkerGo, ringVars, prodVars,
       localVars
  <2> QED BY <2>1 DEF RingFrame, Filling, Moved, Releasing
<1>5. CASE DrainNext
  <2>1. /\ UNCHANGED <<sequence, enqueueTicket, dequeueTicket, queueDepth, pc, ticket>>
        /\ wpc = "drain" /\ wpc' \in {"move", "idle", "deliver"}
        /\ wpc' = "move" => sequence[SlotOf(dequeueTicket)] = dequeueTicket + 1
    BY <1>5 DEF DrainNext, WorkerGo, QueueHeadIsPublished, ringVars, prodVars,
       localVars
  <2>2. /\ UNCHANGED <<Moved, Releasing, Reserving>>
        /\ \A q \in Producers : Filling(q)' <=> Filling(q)
    BY <2>1 DEF Moved, Releasing, Reserving, Filling
  <2>3. DepthCounted'
    BY <2>1, <2>2 DEF QueueInv, DepthCounted
  <2>4. TicketsDistinct'
    BY <2>1, <2>2 DEF QueueInv, TicketsDistinct
  <2>5. SequencesOrdered'
    BY <2>1, <2>2 DEF QueueInv, SequencesOrdered
  <2> QED BY <2>3, <2>4, <2>5 DEF RingInv
<1>6. CASE InitPrepare \/ InitDisabled \/ InitNoSink \/ ShutdownClear
  <2>1. EmptyRing /\ Closed /\ UNCHANGED pc /\ wpc' \in {"none", "exited"}
    BY <1>6 DEF InitPrepare, InitDisabled, ResetRuntimeState, InitNoSink,
       ShutdownClear, ControlGo, Closed, QueueInv, LifecycleConsistent,
       prodVars, workerVars
  <2>2. \A p \in Producers : pc'[p] # "ticket" /\ ~Filling(p)'
    BY <2>1 DEF QueueInv, AdmissionGuardsStorage, InRing, Filling
  <2> QED BY <2>1, <2>2, EmptyRingKeeps DEF RingInv
<1>7. ASSUME \/ StartPublish \/ SpawnWorker \/ SpawnFails
             \/ WaitForActiveProducersToLeave \/ FlushBegin \/ FlushCheck
             \/ FlushTimesOut \/ FlushSinks \/ ShutdownStop \/ ShutdownNotify
             \/ ShutdownJoin \/ ShutdownFlush \/ UNCHANGED vars
      PROVE  RingFrame
  <2>1. /\ UNCHANGED <<sequence, enqueueTicket, dequeueTicket, queueDepth, pc, ticket>>
        /\ \/ wpc' = wpc
           \/ wpc \in {"waiting", "none"} /\ wpc' = "lock"
    BY <1>7 DEF StartPublish, SpawnWorker, SpawnFails,
       WaitForActiveProducersToLeave, FlushBegin, FlushCheck, FlushTimesOut,
       FlushSinks, FlushEnd, ShutdownStop, ShutdownNotify, ShutdownJoin,
       ShutdownFlush, ControlGo, vars, ringVars, prodVars, localVars,
       workerVars, QueueInv, LifecycleConsistent
  <2> QED BY <2>1 DEF RingFrame, Filling, Moved, Releasing
<1> QED
  BY <1>1, <1>3, <1>4, <1>5, <1>6, <1>7, ReserveKeepsRing, TakeTicketKeepsRing,
     PublishKeepsRing, MoveKeepsRing, AdvanceKeepsRing
     DEF Next, ProducerStep, WorkerStep, LifecycleStep, LifecycleCall

-----------------------------------------------------------------------------
(* Admission and storage.                                                  *)

\* The lifecycle holder's position stays consistent with the worker's and
\* with workerRunning.
LEMMA LifecycleStepKeeps ==
  ASSUME QueueInv, [Next]_vars PROVE LifecycleConsistent'
<1>1. LifecycleConsistent /\ ControlType /\ workerRunning \in BOOLEAN
  BY DEF QueueInv, TypeOK, FlagType
<1>2. ASSUME NEW p \in Producers, Enter(p) \/ ProducerStep(p)
      PROVE  LifecycleConsistent'
  <2>1. /\ workerRunning' = workerRunning
        /\ wpc' = wpc \/ (wpc = "waiting" /\ wpc' = "lock")
        /\ cpc' = cpc \/ (cpc = "flushWait" /\ cpc' = "flushCheck")
    BY <1>2 DEF ProducerStep, Enter, CheckRunning, FilterEntry,
       ReserveQueueDepth, TakeTicket, WaitForQueueSlot, CopyEntry,
       PublishSequence, PublishCount, PublishHead, Leave, LeaveNotify,
       WakeWorker, NotifyAll, flagVars, workerVars
  <2> QED BY <1>1, <2>1 DEF LifecycleConsistent
<1>3. CASE WorkerStep
  <2>1. /\ workerRunning' = workerRunning
        /\ wpc \notin {"none", "exited"} /\ wpc' # "none"
        /\ wpc' = "exited" => ~workerRunning
        /\ cpc' = cpc \/ (cpc = "flushWait" /\ cpc' = "flushCheck")
    BY <1>3 DEF WorkerStep, WorkerLock, EvalHead, EvalStop, EvalDepth,
       ExitCheck, WorkerMayExit, DrainNext, MoveEntry, AdvanceTicket,
       Unpublish, ReleaseDepth, DeliverBatch, WorkerIdle, WorkerNotify,
       WorkerGo, flagVars
  <2> QED BY <1>1, <2>1 DEF LifecycleConsistent, ControlType
<1>4. CASE LifecycleStep
  BY <1>1, <1>4 DEF LifecycleConsistent, LifecycleStep, StartPublish,
     InitNoSink, SpawnWorker, SpawnFails, WaitForActiveProducersToLeave,
     FlushCheck, FlushSinks, FlushEnd, ShutdownNotify, ShutdownJoin,
     ShutdownFlush, ShutdownClear, ControlGo, ControlType, flagVars, workerVars
<1>5. CASE LifecycleCall
  BY <1>1, <1>5 DEF LifecycleConsistent, LifecycleCall, InitPrepare,
     InitDisabled, ResetRuntimeState, FlushBegin, FlushTimesOut, FlushEnd,
     ShutdownStop, ControlGo, ControlType, flagVars, workerVars
<1>6. CASE UNCHANGED vars
  BY <1>1, <1>6 DEF LifecycleConsistent, vars, flagVars, workerVars
<1> QED BY <1>2, <1>3, <1>4, <1>5, <1>6 DEF Next

\* With no active producer, none is past admission.
LEMMA NoneActive ==
  ASSUME QueueInv, activeProducers = 0
  PROVE  \A p \in Producers : ~Active(p)
<1>1. ActiveSet = {}
  BY CountedSetsFinite, FS_EmptySet DEF QueueInv, ProducersCounted, ActiveSet
<1> QED BY <1>1 DEF ActiveSet

\* Producers are past admission only while storage is held for them.
LEMMA AdmissionStep ==
  ASSUME QueueInv, [Next]_vars PROVE AdmissionGuardsStorage'
<1> DEFINE Past(p) == pc[p] = "filter" \/ InRing(p)
<1>1. /\ Closed => \A p \in Producers : ~Past(p)
      /\ (~Closed \/ cpc = "prepared") => ringSize = HardLimit
      /\ LifecycleConsistent /\ ControlType
      /\ pc = [q \in Producers |-> pc[q]]
  BY DEF QueueInv, AdmissionGuardsStorage, TypeOK, ProducerType
<1>2. Closed => ~workerRunning
  BY <1>1 DEF LifecycleConsistent, Closed, ControlType
<1>3. ASSUME NEW p \in Producers, Enter(p) \/ ProducerStep(p)
      PROVE  AdmissionGuardsStorage'
  <2>1. /\ ringSize' = ringSize
        /\ wpc' = wpc \/ (wpc = "waiting" /\ wpc' = "lock")
        /\ cpc' = cpc \/ (cpc = "flushWait" /\ cpc' = "flushCheck")
    BY <1>3 DEF ProducerStep, Enter, CheckRunning, FilterEntry,
       ReserveQueueDepth, TakeTicket, WaitForQueueSlot, CopyEntry,
       PublishSequence, PublishCount, PublishHead, Leave, LeaveNotify,
       WakeWorker, NotifyAll, ringVars, workerVars
  <2>2. Closed' <=> Closed
    BY <2>1 DEF Closed
  <2>3. /\ \A q \in Producers \ {p} : pc'[q] = pc[q]
        /\ Past(p)' => Past(p) \/ workerRunning
    BY <1>1, <1>3 DEF ProducerStep, Enter, CheckRunning, FilterEntry,
       ReserveQueueDepth, TakeTicket, WaitForQueueSlot, CopyEntry,
       PublishSequence, PublishCount, PublishHead, Leave, LeaveNotify,
       WakeWorker, AfterLeave, Go, InRing
  <2>4. Closed' => \A q \in Producers : ~Past(q)'
    BY <1>1, <1>2, <2>2, <2>3 DEF InRing
  <2> QED BY <1>1, <2>1, <2>2, <2>4 DEF AdmissionGuardsStorage
<1>4. CASE WorkerStep
  <2>1. /\ UNCHANGED <<ringSize, pc>>
        /\ wpc \notin {"none", "exited"} /\ wpc' # "none"
        /\ wpc' = "exited" => activeProducers = 0
        /\ cpc' = cpc \/ (cpc = "flushWait" /\ cpc' = "flushCheck")
    BY <1>4 DEF WorkerStep, WorkerLock, EvalHead, EvalStop, EvalDepth,
       ExitCheck, WorkerMayExit, DrainNext, MoveEntry, AdvanceTicket,
       Unpublish, ReleaseDepth, DeliverBatch, WorkerIdle, WorkerNotify,
       WorkerGo, ringVars, prodVars
  <2>2. Closed' => \A q \in Producers : ~Past(q)'
    BY <2>1, NoneActive DEF Closed, Active, InRing
  <2>3. ~Closed
    BY <2>1 DEF Closed
  <2> QED BY <1>1, <2>1, <2>2, <2>3 DEF AdmissionGuardsStorage
<1>5. CASE InitPrepare \/ InitDisabled \/ InitNoSink \/ ShutdownClear
  <2>1. /\ Closed /\ Closed' /\ UNCHANGED pc
        /\ cpc' = "prepared" => ringSize' = HardLimit
    BY <1>1, <1>5 DEF InitPrepare, InitDisabled, ResetRuntimeState,
       InitNoSink, ShutdownClear, ControlGo, Closed, LifecycleConsistent,
       prodVars, workerVars
  <2> QED BY <1>1, <2>1 DEF AdmissionGuardsStorage, InRing
<1>6. CASE WaitForActiveProducersToLeave
  <2>1. /\ \A p \in Producers : ~Active(p)
        /\ UNCHANGED <<pc, wpc, ringSize>> /\ wpc = "none" /\ cpc' = "stopped"
    BY <1>1, <1>6, NoneActive DEF WaitForActiveProducersToLeave, ControlGo,
       LifecycleConsistent, ringVars, prodVars, workerVars
  <2> QED BY <2>1 DEF AdmissionGuardsStorage, Closed, Active, InRing
<1>7. CASE \/ StartPublish \/ SpawnWorker \/ SpawnFails \/ FlushBegin
           \/ FlushCheck \/ FlushTimesOut \/ FlushSinks \/ ShutdownStop
           \/ ShutdownNotify \/ ShutdownJoin \/ ShutdownFlush
           \/ UNCHANGED vars
  <2>1. /\ UNCHANGED <<pc, ringSize>>
        /\ Closed' => Closed
        /\ (~Closed' \/ cpc' = "prepared") => (~Closed \/ cpc = "prepared")
    BY <1>1, <1>7 DEF StartPublish, SpawnWorker, SpawnFails, FlushBegin,
       FlushCheck, FlushTimesOut, FlushSinks, FlushEnd, ShutdownStop,
       ShutdownNotify, ShutdownJoin, ShutdownFlush, ControlGo, Closed,
       LifecycleConsistent, vars, ringVars, prodVars, workerVars
  <2> QED BY <1>1, <2>1 DEF AdmissionGuardsStorage, InRing
<1> QED BY <1>3, <1>4, <1>5, <1>6, <1>7
           DEF Next, WorkerStep, LifecycleStep, LifecycleCall

-----------------------------------------------------------------------------
(* The theorems.                                                           *)

\* The invariant holds initially.
LEMMA QueueInvInit == Init => QueueInv
<1> SUFFICES ASSUME Init PROVE QueueInv
  OBVIOUS
<1>1. TypeOK
  <2>1. RingType
    <3>1. \A i \in Slots : i \in Nat
      BY QueueAssumption DEF Slots
    <3>2. Cleared \in [skip : BOOLEAN, text : Seq(Entries)]
      BY DEF Cleared
    <3> QED BY <3>1, <3>2, QueueAssumption DEF Init, RingType
  <2>2. FlagType /\ ProducerType /\ ControlType
    BY DEF Init, FlagType, ProducerType, ControlType, NoStats
  <2>3. HistoryType
    BY DEF Init, HistoryType
  <2> QED BY <2>1, <2>2, <2>3 DEF TypeOK
<1>2. ActiveSet = {} /\ Reserving = {} /\ Releasing = 0 /\ Moved = 0
  BY DEF Init, ActiveSet, Active, Reserving, Releasing, Moved
<1>3. ProducersCounted /\ DepthCounted
  <2>1. Cardinality(ActiveSet) = 0 /\ Cardinality(Reserving) = 0
    BY <1>2, FS_EmptySet
  <2>2. ProducersCounted
    BY <2>1 DEF Init, ProducersCounted, ActiveSet
  <2>3. DepthCounted
    BY <1>2, <2>1, QueueAssumption DEF Init, DepthCounted
  <2> QED BY <2>2, <2>3
<1>4. TicketsDistinct
  BY DEF Init, TicketsDistinct, Filling
<1>5. SequencesOrdered
  <2>1. ASSUME NEW t \in 0..(HardLimit - 1) PROVE SlotOf(t) = t
    BY QueueAssumption DEF SlotOf
  <2> QED BY <1>2, <2>1, QueueAssumption DEF Init, SequencesOrdered, Slots
<1>6. LifecycleConsistent /\ AdmissionGuardsStorage
  BY DEF Init, LifecycleConsistent, AdmissionGuardsStorage, Closed, InRing
<1> QED BY <1>1, <1>3, <1>4, <1>5, <1>6 DEF QueueInv

\* The invariant is inductive: no step of a producer, of the worker or of a
\* lifecycle operation breaks it.
LEMMA QueueInvStep == QueueInv /\ [Next]_vars => QueueInv'
BY TypeStep, ProducersCountedStep, RingStep, LifecycleStepKeeps, AdmissionStep
   DEF QueueInv, RingInv

\* QueueInv holds in every reachable state, for any number of producers and
\* any queue configuration.
THEOREM QueueInvariance == Spec => []QueueInv
<1>1. Init => QueueInv
  BY QueueInvInit
<1>2. QueueInv /\ [Next]_vars => QueueInv'
  BY QueueInvStep
<1> QED BY <1>1, <1>2, PTL DEF Spec

\* Every variable keeps its type; in particular the unsigned counters
\* queueDepth and activeProducers are never taken below zero.
THEOREM TypeCorrect == Spec => []TypeOK
<1>1. QueueInv => TypeOK
  BY DEF QueueInv
<1> QED BY <1>1, QueueInvariance, PTL

\* No data race on a slot (publishReservedQueueEntry, drainQueueBatch).
THEOREM SlotsAreExclusive == Spec => []SlotExclusive
<1>1. ASSUME QueueInv PROVE SlotExclusive
  <2>1. SUFFICES ASSUME NEW p \in Producers, WritesSlot(p)
                 PROVE  /\ \A q \in Producers \ {p} :
                             WritesSlot(q) => SlotOf(ticket[p]) # SlotOf(ticket[q])
                        /\ wpc = "move" => SlotOf(ticket[p]) # SlotOf(dequeueTicket)
    BY DEF SlotExclusive
  <2>2. /\ ticket[p] \in Moved..(enqueueTicket - 1)
        /\ \A q \in Producers \ {p} : WritesSlot(q) =>
             ticket[q] \in Moved..(enqueueTicket - 1) /\ ticket[q] # ticket[p]
    BY <1>1, <2>1 DEF QueueInv, TicketsDistinct, WritesSlot, Filling
  <2>3. ASSUME NEW q \in Producers \ {p}, WritesSlot(q)
        PROVE  SlotOf(ticket[p]) # SlotOf(ticket[q])
    <3>1. /\ ticket[p] \in Nat /\ ticket[q] \in Nat /\ ticket[p] # ticket[q]
          /\ ticket[p] < ticket[q] + HardLimit
          /\ ticket[q] < ticket[p] + HardLimit
      BY <1>1, <2>2, <2>3, WindowFacts
    <3> QED BY <3>1, WindowIsInjective
  <2>4. ASSUME wpc = "move" PROVE SlotOf(ticket[p]) # SlotOf(dequeueTicket)
    <3>1. /\ dequeueTicket \in Nat /\ ticket[p] \in Nat
          /\ ticket[p] # dequeueTicket
          /\ ticket[p] < dequeueTicket + HardLimit
          /\ dequeueTicket < ticket[p] + HardLimit
      BY <1>1, <2>1, <2>2, <2>4, WindowFacts DEF WritesSlot, Filling
    <3> QED BY <3>1, WindowIsInjective
  <2> QED BY <2>3, <2>4
<1> QED BY <1>1, QueueInvariance, PTL

\* waitForQueueSlot never has to spin.
THEOREM TicketsFindFreeSlots == Spec => []SlotIsFreeWhenDrawn
<1>1. ASSUME QueueInv PROVE SlotIsFreeWhenDrawn
  <2>1. SUFFICES ASSUME NEW p \in Producers, pc[p] = "wait"
                 PROVE  sequence[SlotOf(ticket[p])] = ticket[p]
    BY DEF SlotIsFreeWhenDrawn
  <2>2. ticket[p] \in Moved..(enqueueTicket - 1) /\ Filling(p)
    BY <1>1, <2>1 DEF QueueInv, TicketsDistinct, Filling
  <2> QED BY <1>1, <2>2 DEF QueueInv, SequencesOrdered
<1> QED BY <1>1, QueueInvariance, PTL

\* Storage is never reset or released under a producer or the worker.
THEOREM StorageIsHeld == Spec => []StorageOutlivesUse
<1>1. ASSUME QueueInv PROVE StorageOutlivesUse
  BY <1>1 DEF QueueInv, StorageOutlivesUse, AdmissionGuardsStorage, Closed,
     LifecycleConsistent
<1> QED BY <1>1, QueueInvariance, PTL

\* The ring is safe to share, for any number of producers and any queue configuration.
THEOREM RingIsAlwaysSafe == Spec => []RingIsSafe
<1>1. TypeOK /\ SlotExclusive /\ SlotIsFreeWhenDrawn => RingIsSafe
  BY DEF RingIsSafe
<1> QED BY <1>1, TypeCorrect, SlotsAreExclusive, TicketsFindFreeSlots, PTL
=============================================================================
