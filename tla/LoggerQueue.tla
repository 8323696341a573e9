----------------------------- MODULE LoggerQueue -----------------------------
(***************************************************************************)
(* The bounded multi-producer / single-consumer ring behind                *)
(* GameWIP::Logger, with the producers that log, the worker thread that    *)
(* drains, and the thread that holds lifecycleMutex (init, flush,          *)
(* shutdown).  Every atomic load, store and read-modify-write of           *)
(* LoggerState that another thread can observe is a step of its own; a     *)
(* critical section of logMutex without such a step inside is one action.  *)
(*                                                                         *)
(* Sources: tools/logger/core/logger_queue.cpp, logger_state.cpp,          *)
(* logger_runtime.cpp, logger_reports.cpp and internal/logger_core.h.      *)
(***************************************************************************)
EXTENDS Integers, Sequences, FiniteSets

CONSTANTS
  Producers,    \* threads that call the asynchronous logging API
  SoftLimit,    \* softQueueSize: low-priority records are refused from here
  HardLimit,    \* hardQueueSize, which is also the number of ring slots
  BatchLimit,   \* workerBatchSize
  SizeMod,      \* 2^w, the range of std::size_t
  Operations,   \* lifecycle operations the program calls besides init
  MaxLogs,      \* bound: logging calls of all producers together
  MaxEpochs     \* bound: successful storage preparations by init

ASSUME QueueAssumption ==
  /\ IsFiniteSet(Producers)
  /\ SoftLimit \in Nat \ {0}
  /\ HardLimit \in Nat /\ HardLimit >= SoftLimit
  /\ BatchLimit \in 1..HardLimit
  /\ SizeMod \in Nat /\ SizeMod > HardLimit
  /\ Operations \subseteq {"flush", "shutdown"}
  /\ MaxLogs \in Nat
  /\ MaxEpochs \in Nat

Levels == {"low", "high"}        \* isLowPriority(level), or not
Entries == Nat                   \* a record is known by the number of its call

\* QueueSlot::skip and QueueSlot::entry, the entry as the sequence of records
\* (none or one) it retains.
Filled(e) == [skip |-> FALSE, text |-> <<e>>]
Skipped   == [skip |-> TRUE,  text |-> << >>]
Cleared   == [skip |-> FALSE, text |-> << >>]

VARIABLES
  \* LoggerState: the ring
  ringSize,             \* logRingSize; 0 when the storage is released
  sequence,             \* QueueSlot::sequence
  slot,                 \* QueueSlot::entry and QueueSlot::skip
  enqueueTicket,
  dequeueTicket,
  queueDepth,
  publishedQueueDepth,
  \* LoggerState: coordination
  activeProducers,
  workerRunning,        \* with the running bit of runtimeStateBits
  workerBusy,
  logMutex,             \* "free" or "worker"; others hold it for one action
  stats,                \* StatsCounters
  \* a producer's position and locals
  pc, record, ticket, notifyWorker,
  \* the worker's position and batch
  wpc, batch,
  \* the position of the lifecycleMutex holder
  cpc,
  \* history
  epoch,        \* storage preparations so far
  calls,        \* logging calls so far
  submitted,    \* records of this epoch, in ticket order
  lost,         \* tickets of this epoch whose copy failed
  delivered,    \* records handed to the sinks, in order
  flushMark     \* enqueueTicket when the current flush began

ringVars   == <<ringSize, sequence, slot, enqueueTicket, dequeueTicket,
                queueDepth, publishedQueueDepth>>
flagVars   == <<activeProducers, workerRunning, workerBusy, logMutex>>
localVars  == <<record, ticket, notifyWorker, calls>>
prodVars   == <<pc, localVars>>
workerVars == <<wpc, batch>>
histVars   == <<epoch, submitted, lost, delivered, flushMark>>
vars == <<ringVars, flagVars, stats, prodVars, workerVars, cpc, histVars>>

Slots == 0..(HardLimit - 1)
SlotOf(t) == t % HardLimit

Counters == {"queued", "queueDropsSoft", "queueDropsHard",
             "allocationFailures"}
NoStats == [c \in Counters |-> 0]

\* The exact next ordered slot is ready for the worker.
QueueHeadIsPublished ==
  /\ ringSize # 0
  /\ sequence[SlotOf(dequeueTicket)] = dequeueTicket + 1

Count(counter) == stats' = [stats EXCEPT ![counter] = @ + 1]

\* logCondition.notify_all(): every waiter re-evaluates its predicate.
NotifyAll ==
  /\ wpc' = IF wpc = "waiting" THEN "lock" ELSE wpc
  /\ cpc' = IF cpc = "flushWait" THEN "flushCheck" ELSE cpc

-----------------------------------------------------------------------------
(* Producers: enqueueAndWakeWorker and everything it calls.                *)

Go(p, from, to) == pc[p] = from /\ pc' = [pc EXCEPT ![p] = to]

\* What the caller does once its ProducerActivity has left.
AfterLeave(p) == IF notifyWorker[p] THEN "wake" ELSE "idle"

\* ProducerActivity::enter announces the producer before reading the state.
\* The gate of log() was read earlier still, so it restricts nothing here.
Enter(p) ==
  /\ calls < MaxLogs
  /\ Go(p, "idle", "check")
  /\ activeProducers' = activeProducers + 1
  /\ calls' = calls + 1
  /\ record' = [record EXCEPT ![p] = calls + 1]
  /\ UNCHANGED <<ringVars, workerRunning, workerBusy, logMutex, stats,
                 ticket, notifyWorker, workerVars, cpc, histVars>>

\* ... and leaves at once when the logger is not running.
CheckRunning(p) ==
  /\ Go(p, "check", IF workerRunning THEN "filter" ELSE "leave")
  /\ UNCHANGED <<ringVars, flagVars, stats, localVars, workerVars, cpc,
                 histVars>>

\* checkPendingEntryAcceptedUnlocked: the running bit is read again; output
\* mode, level and source filters accept or refuse.
FilterEntry(p) ==
  /\ \/ workerRunning /\ Go(p, "filter", "reserve")
     \/ Go(p, "filter", "leave")
  /\ UNCHANGED <<ringVars, flagVars, stats, localVars, workerVars, cpc,
                 histVars>>

\* Mutant: the hard limit is tested with > instead of >=.
ReserveQueueDepth_OffByOne(p, level) ==
  /\ \/ /\ queueDepth > ringSize \/ (queueDepth >= SoftLimit /\ level = "low")
        /\ Go(p, "reserve", "leave")
        /\ Count(IF queueDepth > ringSize THEN "queueDropsHard" ELSE "queueDropsSoft")
        /\ UNCHANGED queueDepth
     \/ /\ queueDepth <= ringSize
        /\ queueDepth < SoftLimit \/ level = "high"
        /\ Go(p, "reserve", "ticket")
        /\ queueDepth' = queueDepth + 1
        /\ UNCHANGED stats
  /\ UNCHANGED <<ringSize, sequence, slot, enqueueTicket, dequeueTicket,
                 publishedQueueDepth, flagVars, localVars, workerVars, cpc,
                 histVars>>

\* The compare-exchange loop decides on the depth of its last load, so it
\* is one step.  Nothing else reads the level of the record.
ReserveQueueDepth(p, level) ==
  /\ \/ /\ queueDepth >= ringSize
        /\ Go(p, "reserve", "leave")
        /\ Count("queueDropsHard")
        /\ UNCHANGED queueDepth
     \/ /\ queueDepth < ringSize
        /\ queueDepth >= SoftLimit /\ level = "low"
        /\ Go(p, "reserve", "leave")
        /\ Count("queueDropsSoft")
        /\ UNCHANGED queueDepth
     \/ /\ queueDepth < ringSize
        /\ queueDepth < SoftLimit \/ level = "high"
        /\ Go(p, "reserve", "ticket")
        /\ queueDepth' = queueDepth + 1
        /\ UNCHANGED stats
  /\ UNCHANGED <<ringSize, sequence, slot, enqueueTicket, dequeueTicket,
                 publishedQueueDepth, flagVars, localVars, workerVars, cpc,
                 histVars>>

TakeTicket(p) ==
  /\ Go(p, "ticket", "wait")
  /\ ticket' = [ticket EXCEPT ![p] = enqueueTicket]
  /\ enqueueTicket' = enqueueTicket + 1
  /\ submitted' = Append(submitted, record[p])
  /\ UNCHANGED <<ringSize, sequence, slot, dequeueTicket, queueDepth,
                 publishedQueueDepth, flagVars, stats, record, notifyWorker,
                 calls, workerVars, cpc, epoch, lost, delivered, flushMark>>

\* The exit of the spin loop of waitForQueueSlot.
WaitForQueueSlot(p) ==
  /\ sequence[SlotOf(ticket[p])] = ticket[p]
  /\ Go(p, "wait", "copy")
  /\ UNCHANGED <<ringVars, flagVars, stats, localVars, workerVars, cpc,
                 histVars>>

\* The record is materialised in the slot; a throwing copy marks it skipped.
CopyEntry(p) ==
  /\ Go(p, "copy", "publish")
  /\ \/ /\ slot' = [slot EXCEPT ![SlotOf(ticket[p])] = Filled(record[p])]
        /\ UNCHANGED lost
     \/ /\ slot' = [slot EXCEPT ![SlotOf(ticket[p])] = Skipped]
        /\ lost' = lost \cup {ticket[p]}
  /\ UNCHANGED <<ringSize, sequence, enqueueTicket, dequeueTicket,
                 queueDepth, publishedQueueDepth, flagVars, stats, localVars,
                 workerVars, cpc, epoch, submitted, delivered, flushMark>>

\* Mutant: a failed copy returns without publishing its skip marker.
PublishSequence_OnlyFilled(p) ==
  /\ Go(p, "publish", "count")
  /\ sequence' = IF ticket[p] \in lost THEN sequence
                 ELSE [sequence EXCEPT ![SlotOf(ticket[p])] = ticket[p] + 1]
  /\ UNCHANGED <<ringSize, slot, enqueueTicket, dequeueTicket, queueDepth,
                 publishedQueueDepth, flagVars, stats, localVars, workerVars,
                 cpc, histVars>>

\* publishQueueSlot, first statement.
PublishSequence(p) ==
  /\ Go(p, "publish", "count")
  /\ sequence' = [sequence EXCEPT ![SlotOf(ticket[p])] = ticket[p] + 1]
  /\ UNCHANGED <<ringSize, slot, enqueueTicket, dequeueTicket, queueDepth,
                 publishedQueueDepth, flagVars, stats, localVars, workerVars,
                 cpc, histVars>>

\* publishQueueSlot, second statement.  The worker may already have drained
\* the slot, and then the counter wraps below zero and back.
PublishCount(p) ==
  /\ Go(p, "count", "head")
  /\ notifyWorker' = [notifyWorker EXCEPT ![p] = publishedQueueDepth = 0]
  /\ publishedQueueDepth' = (publishedQueueDepth + 1) % SizeMod
  /\ UNCHANGED <<ringSize, sequence, slot, enqueueTicket, dequeueTicket,
                 queueDepth, flagVars, stats, record, ticket, calls,
                 workerVars, cpc, histVars>>

\* Mutant: only the first published slot notifies.
PublishHead_FirstOnly(p) ==
  /\ Go(p, "head", "leave")
  /\ Count(IF ticket[p] \in lost THEN "allocationFailures" ELSE "queued")
  /\ UNCHANGED <<ringVars, flagVars, localVars, workerVars, cpc, histVars>>

\* publishQueueSlot, last statement, and the counters of the caller.
PublishHead(p) ==
  /\ Go(p, "head", "leave")
  /\ notifyWorker' = [notifyWorker EXCEPT ![p] = @ \/ ticket[p] = dequeueTicket]
  /\ Count(IF ticket[p] \in lost THEN "allocationFailures" ELSE "queued")
  /\ UNCHANGED <<ringVars, flagVars, record, ticket, calls, workerVars, cpc,
                 histVars>>

\* Mutant: the last producer out does not notify.
Leave_Silent(p) ==
  /\ Go(p, "leave", AfterLeave(p))
  /\ activeProducers' = activeProducers - 1
  /\ record' = [record EXCEPT ![p] = 0]
  /\ ticket' = [ticket EXCEPT ![p] = 0]
  /\ UNCHANGED <<ringVars, workerRunning, workerBusy, logMutex, stats,
                 notifyWorker, calls, workerVars, cpc, histVars>>

\* ProducerActivity::leave; the last producer out has to notify.
Leave(p) ==
  /\ Go(p, "leave", IF activeProducers = 1 THEN "leaveNotify" ELSE AfterLeave(p))
  /\ activeProducers' = activeProducers - 1
  /\ record' = [record EXCEPT ![p] = 0]     \* locals end with the call
  /\ ticket' = [ticket EXCEPT ![p] = 0]
  /\ UNCHANGED <<ringVars, workerRunning, workerBusy, logMutex, stats,
                 notifyWorker, calls, workerVars, cpc, histVars>>

LeaveNotify(p) ==
  /\ logMutex = "free"
  /\ Go(p, "leaveNotify", AfterLeave(p))
  /\ NotifyAll
  /\ UNCHANGED <<ringVars, flagVars, stats, localVars, batch, histVars>>

\* enqueueAndWakeWorker, after the entry is published.
WakeWorker(p) ==
  /\ logMutex = "free"
  /\ Go(p, "wake", "idle")
  /\ notifyWorker' = [notifyWorker EXCEPT ![p] = FALSE]
  /\ NotifyAll
  /\ UNCHANGED <<ringVars, flagVars, stats, record, ticket, calls, batch,
                 histVars>>

ProducerStep(p) ==
  \/ CheckRunning(p) \/ FilterEntry(p)
  \/ \E level \in Levels : ReserveQueueDepth(p, level)
  \/ TakeTicket(p) \/ WaitForQueueSlot(p) \/ CopyEntry(p)
  \/ PublishSequence(p) \/ PublishCount(p) \/ PublishHead(p)
  \/ Leave(p) \/ LeaveNotify(p) \/ WakeWorker(p)

-----------------------------------------------------------------------------
(* The worker: loggerWorker and drainQueueBatch.                           *)

WorkerGo(from, to) == wpc = from /\ wpc' = to

WorkerLock ==
  /\ logMutex = "free"
  /\ WorkerGo("lock", "evalHead")
  /\ logMutex' = "worker"
  /\ UNCHANGED <<ringVars, activeProducers, workerRunning, workerBusy, stats,
                 prodVars, batch, cpc, histVars>>

\* The wait predicate, term by term: producers change the atomics it reads
\* without holding the mutex.  A false predicate releases the mutex.
EvalHead ==
  /\ WorkerGo("evalHead", IF QueueHeadIsPublished THEN "exitCheck" ELSE "evalStop")
  /\ UNCHANGED <<ringVars, flagVars, stats, prodVars, batch, cpc, histVars>>

EvalStop ==
  /\ \/ /\ ~workerRunning /\ activeProducers = 0
        /\ WorkerGo("evalStop", "evalDepth")
        /\ UNCHANGED logMutex
     \/ /\ workerRunning \/ activeProducers # 0
        /\ WorkerGo("evalStop", "waiting")
        /\ logMutex' = "free"
  /\ UNCHANGED <<ringVars, activeProducers, workerRunning, workerBusy, stats,
                 prodVars, batch, cpc, histVars>>

EvalDepth ==
  /\ \/ /\ queueDepth = 0
        /\ WorkerGo("evalDepth", "exitCheck")
        /\ UNCHANGED logMutex
     \/ /\ queueDepth # 0
        /\ WorkerGo("evalDepth", "waiting")
        /\ logMutex' = "free"
  /\ UNCHANGED <<ringVars, activeProducers, workerRunning, workerBusy, stats,
                 prodVars, batch, cpc, histVars>>

\* Mutant: the worker leaves as soon as it is told to stop.
WorkerMayExit_WhenStopped == ~workerRunning

\* Past the wait: leave the loop, or take a turn.
WorkerMayExit ==
  /\ publishedQueueDepth = 0
  /\ queueDepth = 0
  /\ activeProducers = 0
  /\ ~workerRunning

ExitCheck ==
  /\ WorkerGo("exitCheck", IF WorkerMayExit THEN "exited" ELSE "drain")
  /\ workerBusy' = (workerBusy \/ ~WorkerMayExit)
  /\ logMutex' = "free"
  /\ UNCHANGED <<ringVars, activeProducers, workerRunning, stats, prodVars,
                 batch, cpc, histVars>>

\* The loop head of drainQueueBatch and, when it ends, the empty-batch test.
DrainNext ==
  /\ \/ /\ Len(batch) < BatchLimit /\ QueueHeadIsPublished
        /\ WorkerGo("drain", "move")
     \/ /\ Len(batch) >= BatchLimit \/ ~QueueHeadIsPublished
        /\ WorkerGo("drain", IF batch = << >> THEN "idle" ELSE "deliver")
  /\ UNCHANGED <<ringVars, flagVars, stats, prodVars, batch, cpc, histVars>>

\* moveQueuedEntry and clearLogEntry on a slot only the worker may touch,
\* then the store that gives the slot to the ticket one lap ahead.
MoveEntry ==
  /\ WorkerGo("move", "advance")
  /\ LET s == SlotOf(dequeueTicket)
     IN  /\ batch' = IF slot[s].skip THEN batch ELSE batch \o slot[s].text
         /\ slot' = [slot EXCEPT ![s] = Cleared]
         /\ sequence' = [sequence EXCEPT ![s] = dequeueTicket + HardLimit]
  /\ UNCHANGED <<ringSize, enqueueTicket, dequeueTicket, queueDepth,
                 publishedQueueDepth, flagVars, stats, prodVars, cpc,
                 histVars>>

AdvanceTicket ==
  /\ WorkerGo("advance", "unpublish")
  /\ dequeueTicket' = dequeueTicket + 1
  /\ UNCHANGED <<ringSize, sequence, slot, enqueueTicket, queueDepth,
                 publishedQueueDepth, flagVars, stats, prodVars, batch, cpc,
                 histVars>>

Unpublish ==
  /\ WorkerGo("unpublish", "release")
  /\ publishedQueueDepth' = (publishedQueueDepth + SizeMod - 1) % SizeMod
  /\ UNCHANGED <<ringSize, sequence, slot, enqueueTicket, dequeueTicket,
                 queueDepth, flagVars, stats, prodVars, batch, cpc,
                 histVars>>

ReleaseDepth ==
  /\ WorkerGo("release", "drain")
  /\ queueDepth' = queueDepth - 1
  /\ UNCHANGED <<ringSize, sequence, slot, enqueueTicket, dequeueTicket,
                 publishedQueueDepth, flagVars, stats, prodVars, batch, cpc,
                 histVars>>

\* Mutant: the batch keeps its records for the next round.
DeliverBatch_Keeps ==
  /\ WorkerGo("deliver", "idle")
  /\ delivered' = delivered \o batch
  /\ UNCHANGED <<ringVars, flagVars, stats, prodVars, batch, cpc, epoch,
                 submitted, lost, flushMark>>

\* writeLogEntry for each record of the batch, and flushFileBatch.
DeliverBatch ==
  /\ WorkerGo("deliver", "idle")
  /\ delivered' = delivered \o batch
  /\ batch' = << >>
  /\ UNCHANGED <<ringVars, flagVars, stats, prodVars, cpc, epoch, submitted,
                 lost, flushMark>>

WorkerIdle ==
  /\ logMutex = "free"
  /\ WorkerGo("idle", "notify")
  /\ workerBusy' = FALSE
  /\ UNCHANGED <<ringVars, activeProducers, workerRunning, logMutex, stats,
                 prodVars, batch, cpc, histVars>>

\* Mutant: the worker clears workerBusy without notifying.
WorkerNotify_Silent ==
  /\ WorkerGo("notify", "lock")
  /\ UNCHANGED <<ringVars, flagVars, stats, prodVars, batch, cpc, histVars>>

WorkerNotify ==
  /\ WorkerGo("notify", "lock")
  /\ cpc' = IF cpc = "flushWait" THEN "flushCheck" ELSE cpc
  /\ UNCHANGED <<ringVars, flagVars, stats, prodVars, batch, histVars>>

WorkerStep ==
  \/ WorkerLock \/ EvalHead \/ EvalStop \/ EvalDepth \/ ExitCheck
  \/ DrainNext \/ MoveEntry \/ AdvanceTicket \/ Unpublish \/ ReleaseDepth
  \/ DeliverBatch \/ WorkerIdle \/ WorkerNotify

-----------------------------------------------------------------------------
(* Lifecycle: whoever holds lifecycleMutex.                                *)

ControlGo(from, to) == cpc \in from /\ cpc' = to

\* prepareQueueStorage gives slot i the sequence i; clearQueueUnlocked and
\* resetRuntimeStateUnlocked restore the same ring.
EmptyRing ==
  /\ sequence' = [i \in Slots |-> i]
  /\ slot' = [i \in Slots |-> Cleared]
  /\ enqueueTicket' = 0
  /\ dequeueTicket' = 0
  /\ queueDepth' = 0
  /\ publishedQueueDepth' = 0

\* resetRuntimeStateUnlocked, called by initImpl when no worker runs, with
\* the prepared storage or (output mode None) with none.
ResetRuntimeState(size) ==
  /\ epoch < MaxEpochs
  /\ logMutex = "free"
  /\ ~workerRunning /\ wpc = "none"
  /\ EmptyRing
  /\ ringSize' = size
  /\ workerBusy' = FALSE
  /\ stats' = NoStats
  /\ epoch' = epoch + 1
  /\ submitted' = << >>
  /\ lost' = {}
  /\ delivered' = << >>
  /\ UNCHANGED <<activeProducers, workerRunning, logMutex, prodVars,
                 workerVars, flushMark>>

\* publishPreparedRuntimeUnlocked and publishDisabledRuntimeUnlocked; an init
\* that fails before either changes nothing modelled here.
InitPrepare  == ControlGo({"stopped"}, "prepared") /\ ResetRuntimeState(HardLimit)
InitDisabled == ControlGo({"stopped"}, "stopped") /\ ResetRuntimeState(0)

\* initImpl when file setup failed and no sink is left.
InitNoSink ==
  /\ logMutex = "free"
  /\ ControlGo({"prepared"}, "stopped")
  /\ EmptyRing
  /\ ringSize' \in {ringSize, 0}
  /\ UNCHANGED <<flagVars, stats, prodVars, workerVars, histVars>>

\* startWorkerThread publishes the running state before the thread exists.
StartPublish ==
  /\ logMutex = "free"
  /\ ControlGo({"prepared"}, "spawn")
  /\ workerRunning' = TRUE
  /\ workerBusy' = FALSE
  /\ UNCHANGED <<ringVars, activeProducers, logMutex, stats, prodVars,
                 workerVars, histVars>>

SpawnWorker ==
  /\ ControlGo({"spawn"}, "free")
  /\ wpc' = "lock"
  /\ UNCHANGED <<ringVars, flagVars, stats, prodVars, batch, histVars>>

\* std::thread threw: stop accepting, then wait for those already inside.
SpawnFails ==
  /\ logMutex = "free"
  /\ ControlGo({"spawn"}, "spawnFailed")
  /\ workerRunning' = FALSE
  /\ workerBusy' = FALSE
  /\ UNCHANGED <<ringVars, activeProducers, logMutex, stats, prodVars,
                 workerVars, histVars>>

\* Mutant: nobody waits for the producers.
WaitForActiveProducersToLeave_Skipped ==
  /\ ControlGo({"spawnFailed"}, "stopped")
  /\ UNCHANGED <<ringVars, flagVars, stats, prodVars, workerVars, histVars>>

WaitForActiveProducersToLeave ==
  /\ activeProducers = 0
  /\ ControlGo({"spawnFailed"}, "stopped")
  /\ UNCHANGED <<ringVars, flagVars, stats, prodVars, workerVars, histVars>>

\* Mutant: an empty queue is enough, even while a batch is being written.
FlushReady_WhileBusy == queueDepth = 0 \/ (~workerRunning /\ ~workerBusy)

\* The predicate flushInternal waits for.
FlushReady ==
  \/ ~workerRunning /\ ~workerBusy
  \/ queueDepth = 0 /\ ~workerBusy

\* flush() may also be called while the logger is stopped.
FlushBegin ==
  /\ "flush" \in Operations
  /\ ControlGo({"free", "stopped"}, "flushCheck")
  /\ flushMark' = enqueueTicket
  /\ UNCHANGED <<ringVars, flagVars, stats, prodVars, workerVars, epoch,
                 submitted, lost, delivered>>

FlushCheck ==
  /\ logMutex = "free"
  /\ ControlGo({"flushCheck"}, IF FlushReady THEN "flushed" ELSE "flushWait")
  /\ UNCHANGED <<ringVars, flagVars, stats, prodVars, workerVars, histVars>>

FlushEnd(from) ==
  /\ ControlGo(from, IF wpc = "none" THEN "stopped" ELSE "free")
  /\ flushMark' = 0
  /\ UNCHANGED <<ringVars, flagVars, stats, prodVars, workerVars, epoch,
                 submitted, lost, delivered>>

\* A timed flush whose deadline passes: lockBefore never got logMutex, or
\* wait_until finds the predicate still false.
FlushTimesOut ==
  /\ logMutex # "free" \/ ~FlushReady
  /\ FlushEnd({"flushCheck", "flushWait"})

\* flushSinksInternal, and flush() returns.
FlushSinks == FlushEnd({"flushed"})

\* shutdownImpl, statement by statement.
ShutdownStop ==
  /\ "shutdown" \in Operations
  /\ logMutex = "free"
  /\ ControlGo({"free", "stopped"}, "shutNotify")
  /\ workerRunning' = FALSE
  /\ UNCHANGED <<ringVars, activeProducers, workerBusy, logMutex, stats,
                 prodVars, workerVars, histVars>>

ShutdownNotify ==
  /\ ControlGo({"shutNotify"}, "join")
  /\ wpc' = IF wpc = "waiting" THEN "lock" ELSE wpc
  /\ UNCHANGED <<ringVars, flagVars, stats, prodVars, batch, histVars>>

ShutdownJoin ==
  /\ wpc \in {"exited", "none"}
  /\ ControlGo({"join"}, "shutFlush")
  /\ UNCHANGED <<ringVars, flagVars, stats, prodVars, workerVars, histVars>>

ShutdownFlush ==
  /\ logMutex = "free"
  /\ FlushReady
  /\ ControlGo({"shutFlush"}, "shutClear")
  /\ UNCHANGED <<ringVars, flagVars, stats, prodVars, workerVars, histVars>>

\* Clears the queue; releaseStorageOnShutdown also frees it.
ShutdownClear ==
  /\ logMutex = "free"
  /\ ControlGo({"shutClear"}, "stopped")
  /\ EmptyRing
  /\ ringSize' \in {ringSize, 0}
  /\ workerRunning' = FALSE
  /\ workerBusy' = FALSE
  /\ wpc' = "none"
  /\ UNCHANGED <<activeProducers, logMutex, stats, prodVars, batch,
                 histVars>>

LifecycleStep ==
  \/ StartPublish \/ InitNoSink \/ SpawnWorker \/ SpawnFails
  \/ WaitForActiveProducersToLeave \/ FlushCheck \/ FlushSinks
  \/ ShutdownNotify \/ ShutdownJoin \/ ShutdownFlush \/ ShutdownClear

LifecycleCall ==
  InitPrepare \/ InitDisabled \/ FlushBegin \/ FlushTimesOut \/ ShutdownStop

-----------------------------------------------------------------------------
Init ==
  /\ ringSize = 0
  /\ sequence = [i \in Slots |-> i]
  /\ slot = [i \in Slots |-> Cleared]
  /\ enqueueTicket = 0
  /\ dequeueTicket = 0
  /\ queueDepth = 0
  /\ publishedQueueDepth = 0
  /\ activeProducers = 0
  /\ workerRunning = FALSE
  /\ workerBusy = FALSE
  /\ logMutex = "free"
  /\ stats = NoStats
  /\ pc = [p \in Producers |-> "idle"]
  /\ record = [p \in Producers |-> 0]
  /\ ticket = [p \in Producers |-> 0]
  /\ notifyWorker = [p \in Producers |-> FALSE]
  /\ wpc = "none"
  /\ batch = << >>
  /\ cpc = "stopped"
  /\ epoch = 0
  /\ calls = 0
  /\ submitted = << >>
  /\ lost = {}
  /\ delivered = << >>
  /\ flushMark = 0

Next ==
  \/ \E p \in Producers : Enter(p) \/ ProducerStep(p)
  \/ WorkerStep
  \/ LifecycleStep
  \/ LifecycleCall

Spec == Init /\ [][Next]_vars

\* The operating system runs every thread that can run.  Nobody has to log,
\* flush, initialise or shut down, a deadline need not pass, and the thread
\* constructor need not fail.
Fairness ==
  /\ \A p \in Producers : WF_vars(ProducerStep(p))
  /\ WF_vars(WorkerStep)
  /\ WF_vars(LifecycleStep)

FairSpec == Spec /\ Fairness

-----------------------------------------------------------------------------
(* Properties.                                                             *)

RingType ==
  /\ ringSize \in {0, HardLimit}
  /\ sequence \in [Slots -> Nat]
  /\ slot \in [Slots -> [skip : BOOLEAN, text : Seq(Entries)]]
  /\ enqueueTicket \in Nat
  /\ dequeueTicket \in Nat
  /\ queueDepth \in Nat
  /\ publishedQueueDepth \in 0..(SizeMod - 1)

FlagType ==
  /\ activeProducers \in Nat
  /\ workerRunning \in BOOLEAN
  /\ workerBusy \in BOOLEAN
  /\ logMutex \in {"free", "worker"}
  /\ stats \in [Counters -> Nat]

ProducerType ==
  /\ pc \in [Producers -> {"idle", "check", "filter", "reserve", "ticket",
                           "wait", "copy", "publish", "count", "head",
                           "leave", "leaveNotify", "wake"}]
  /\ record \in [Producers -> Nat]
  /\ ticket \in [Producers -> Nat]
  /\ notifyWorker \in [Producers -> BOOLEAN]
  /\ calls \in Nat

ControlType ==
  /\ wpc \in {"none", "lock", "evalHead", "evalStop", "evalDepth",
              "waiting", "exitCheck", "drain", "move", "advance",
              "unpublish", "release", "deliver", "idle", "notify", "exited"}
  /\ cpc \in {"stopped", "prepared", "spawn", "spawnFailed", "free",
              "flushCheck", "flushWait", "flushed", "shutNotify", "join",
              "shutFlush", "shutClear"}

HistoryType ==
  /\ batch \in Seq(Entries)
  /\ delivered \in Seq(Entries)
  /\ submitted \in Seq(Entries)
  /\ lost \subseteq Nat
  /\ epoch \in Nat
  /\ flushMark \in Nat

\* Every variable has its type: the positions of the three kinds of threads
\* and the values of the LoggerState fields they share.  queueDepth and
\* activeProducers are unsigned in the code: that they are natural numbers
\* says that no fetch_sub takes them below zero.
TypeOK == RingType /\ FlagType /\ ProducerType /\ ControlType /\ HistoryType

\* The producer p is past admission and uses the ring.
InRing(p) == pc[p] \in {"reserve", "ticket", "wait", "copy", "publish",
                        "count", "head"}

\* The producer p writes the non-atomic part of its slot.
WritesSlot(p) == pc[p] \in {"copy", "publish"}

\* No data race on QueueSlot::entry and QueueSlot::skip: two producers never
\* write the same slot at once, and the worker never moves an entry out of a
\* slot a producer is writing (publishReservedQueueEntry, drainQueueBatch).
SlotExclusive ==
  \A p \in Producers : WritesSlot(p) =>
    /\ \A q \in Producers \ {p} :
         WritesSlot(q) => SlotOf(ticket[p]) # SlotOf(ticket[q])
    /\ wpc = "move" => SlotOf(ticket[p]) # SlotOf(dequeueTicket)

\* A ticket is only drawn once its slot is free, so the spin of
\* waitForQueueSlot never iterates: the worker gives a slot back before it
\* lowers queueDepth, and reserveQueueDepth bounds the tickets in flight.
SlotIsFreeWhenDrawn ==
  \A p \in Producers :
    pc[p] = "wait" => sequence[SlotOf(ticket[p])] = ticket[p]

\* Storage is never prepared, cleared or released under a producer that
\* passed admission, nor under the worker (the hand-shake of
\* ProducerActivity::enter, the worker's exit condition and shutdownImpl).
StorageOutlivesUse ==
  /\ \A p \in Producers : InRing(p) =>
       /\ ringSize = HardLimit
       /\ cpc \notin {"stopped", "prepared", "shutFlush", "shutClear"}
  /\ wpc \notin {"none", "exited"} => ringSize = HardLimit

\* The first n submitted records, as places in submitted, without the ones a
\* failed copy lost: the record at place i has the ticket i - 1.
Due(n) == {i \in 1..n : i - 1 \notin lost}

\* The sequence s begins with the records due among the first n tickets, each
\* one at the place its ticket gives it.
BeginsWithDue(s, n) ==
  /\ Cardinality(Due(n)) <= Len(s)
  /\ \A i \in Due(n) : s[Cardinality(Due(i))] = submitted[i]

\* ... and has nothing else.
IsDue(s, n) == BeginsWithDue(s, n) /\ Len(s) = Cardinality(Due(n))

\* Tickets whose entries the worker has moved out of the ring.
Moved == IF wpc = "advance" THEN dequeueTicket + 1 ELSE dequeueTicket

\* Every record leaves the ring exactly once and in ticket order, unharmed by
\* later laps; only records whose copy failed are missing.
DeliveredInTicketOrder ==
  wpc # "none" => IsDue(delivered \o batch, Moved)

\* The owner of the head slot is still on its way to notify_all.
WillNotify(p) ==
  \/ pc[p] \in {"count", "head"} /\ ticket[p] = dequeueTicket
  \/ pc[p] \in {"leave", "wake"} /\ notifyWorker[p]
  \/ pc[p] = "leaveNotify"

\* No lost wake-up: the worker never sleeps on a published head with nobody
\* left to notify it (outNotifyWorker of publishQueueSlot).
NoLostWakeup ==
  wpc = "waiting" /\ QueueHeadIsPublished => \E p \in Producers : WillNotify(p)

\* A flush that completes has handed every record whose ticket was drawn
\* before the flush began to the sinks (flushInternal's predicate).
FlushCoversEarlierRecords ==
  cpc = "flushed" /\ wpc # "none" => BeginsWithDue(delivered, flushMark)

\* Once shutdown has joined the worker, every record of the run was handed to
\* the sinks and the counters tell the same story.
ShutdownDrainsEverything ==
  cpc = "shutClear" /\ wpc = "exited" =>
    /\ IsDue(delivered, enqueueTicket)
    /\ stats["queued"] = Len(delivered)
    /\ stats["allocationFailures"] = Cardinality(lost)

\* shutdown() returns: the worker leaves its loop once the last producer has left.
ShutdownReturns == (cpc = "shutNotify") ~> (cpc = "stopped")

\* flush() returns once no more records arrive: no waiter of logCondition is forgotten.
FlushReturns == (cpc = "flushCheck") ~> (cpc \in {"free", "stopped"})

\* Every ticket is drained while a worker exists, so no record is stuck
\* behind a slot that is never filled (the skip marker of a failed copy).
TicketsAreDrained ==
  (wpc # "none" /\ dequeueTicket # enqueueTicket)
    ~> (dequeueTicket = enqueueTicket \/ wpc = "none")

-----------------------------------------------------------------------------
(* The inductive invariant behind the safety properties.                   *)

\* The producer p is counted in activeProducers.
Active(p) == pc[p] \notin {"idle", "leaveNotify", "wake"}

\* The producer p holds a ticket whose slot it has not published.
Filling(p) == pc[p] \in {"wait", "copy", "publish"}

\* Depth taken for slots without a ticket: before the ticket is drawn, and
\* after the worker has passed it.
Reserving == {p \in Producers : pc[p] = "ticket"}
Releasing == IF wpc \in {"unpublish", "release"} THEN 1 ELSE 0

\* activeProducers counts the producers between enter and leave.
ProducersCounted ==
  activeProducers = Cardinality({p \in Producers : Active(p)})

\* queueDepth counts reservations, tickets in flight and the slot being
\* released, and never exceeds the ring.
DepthCounted ==
  /\ Moved <= enqueueTicket
  /\ queueDepth = Cardinality(Reserving) + (enqueueTicket - dequeueTicket)
                    + Releasing
  /\ queueDepth <= HardLimit

\* Tickets being filled lie in the window and belong to one producer each.
TicketsDistinct ==
  \A p \in Producers : Filling(p) =>
    /\ ticket[p] \in Moved..(enqueueTicket - 1)
    /\ \A q \in Producers \ {p} : Filling(q) => ticket[q] # ticket[p]

\* A slot's sequence tells what its ticket is waiting for: to be published,
\* to be drained, or to be drawn.
SequencesOrdered ==
  /\ \A t \in Moved..(enqueueTicket - 1) :
       \/ sequence[SlotOf(t)] = t /\ \E p \in Producers : Filling(p) /\ ticket[p] = t
       \/ sequence[SlotOf(t)] = t + 1
            /\ \A p \in Producers : Filling(p) => ticket[p] # t
  /\ \A t \in enqueueTicket..(Moved + HardLimit - 1) : sequence[SlotOf(t)] = t
  /\ wpc = "move" => sequence[SlotOf(dequeueTicket)] = dequeueTicket + 1

\* No worker drains and no producer may be past admission.
Closed ==
  \/ wpc = "exited"
  \/ wpc = "none" /\ cpc \notin {"spawn", "spawnFailed"}

\* Where the lifecycle holder can be, given the worker and workerRunning.
LifecycleConsistent ==
  /\ cpc \in {"stopped", "prepared", "spawn", "spawnFailed"} => wpc = "none"
  /\ cpc \in {"shutFlush", "shutClear"} => wpc \in {"none", "exited"}
  /\ cpc = "free" => wpc # "none"
  /\ wpc = "exited" => cpc \in {"join", "shutFlush", "shutClear", "shutNotify"}
  /\ workerRunning <=>
       \/ cpc \in {"spawn", "free"}
       \/ cpc \in {"flushCheck", "flushWait", "flushed"} /\ wpc # "none"

\* While closed, nobody is past admission; while open, the ring exists.
AdmissionGuardsStorage ==
  /\ Closed => \A p \in Producers : pc[p] # "filter" /\ ~InRing(p)
  /\ (~Closed \/ cpc = "prepared") => ringSize = HardLimit

QueueInv ==
  /\ TypeOK
  /\ ProducersCounted
  /\ DepthCounted
  /\ TicketsDistinct
  /\ SequencesOrdered
  /\ LifecycleConsistent
  /\ AdmissionGuardsStorage

\* The worker evaluates its predicate under logMutex, which notify_all needs.
MutexHeldByWorker ==
  logMutex = "worker" <=> wpc \in {"evalHead", "evalStop", "evalDepth", "exitCheck"}

\* From the moment the worker has found the head unpublished, whoever
\* publishes it still has to notify.
WakeupPending ==
  wpc \in {"evalStop", "evalDepth", "waiting"} /\ QueueHeadIsPublished
    => \E p \in Producers : WillNotify(p)

WakeupInv == MutexHeldByWorker /\ WakeupPending

\* The ring holds the records of this run.
Draining == wpc # "none" \/ cpc \in {"prepared", "spawn"}

\* The producer p has a ticket that the statistics do not count yet.
Uncounted(p) == pc[p] \in {"wait", "copy", "publish", "count", "head"}

\* What the slot of a ticket holds between its publication and its delivery.
Content(t) == IF t \in lost THEN Skipped ELSE Filled(submitted[t + 1])

\* Each ticket stands for one submitted record, and the slot it was given
\* holds that record, or the marker of its failed copy.
SlotsHoldRecords ==
  /\ Len(submitted) = enqueueTicket
  /\ lost \subseteq 0..(enqueueTicket - 1)
  /\ \A p \in Producers : Uncounted(p) =>
       /\ ticket[p] \in 0..(enqueueTicket - 1)
       /\ \A q \in Producers \ {p} : Uncounted(q) => ticket[q] # ticket[p]
       /\ pc[p] \in {"wait", "copy"} => ticket[p] \notin lost /\ record[p] = submitted[ticket[p] + 1]
       /\ pc[p] = "publish" => slot[SlotOf(ticket[p])] = Content(ticket[p])
  /\ \A t \in Moved..(enqueueTicket - 1) :
       sequence[SlotOf(t)] = t + 1 => slot[SlotOf(t)] = Content(t)

\* The statistics count each ticket once, by what became of its copy.
TicketsCountedOnce ==
  /\ stats["queued"] + Cardinality({p \in Producers : Uncounted(p) /\ ticket[p] \notin lost})
       = Cardinality(Due(enqueueTicket))
  /\ stats["allocationFailures"] + Cardinality({p \in Producers : Uncounted(p) /\ ticket[p] \in lost})
       = Cardinality(lost)

\* The batch is the worker's only between two turns of its loop, and
\* workerBusy tells so.
BatchIsGuarded ==
  /\ wpc \notin {"drain", "move", "advance", "unpublish", "release", "deliver"} => batch = << >>
  /\ wpc \in {"drain", "move", "advance", "unpublish", "release", "deliver", "idle"} => workerBusy
  /\ wpc = "exited" => dequeueTicket = enqueueTicket

\* A flush waits for tickets of this run.
FlushIsMarked ==
  /\ cpc \in {"flushCheck", "flushWait"} /\ wpc # "none" => flushMark <= enqueueTicket
  /\ cpc = "flushed" /\ wpc # "none" => flushMark <= Moved

DeliveryInv ==
  /\ Draining => SlotsHoldRecords /\ TicketsCountedOnce /\ IsDue(delivered \o batch, Moved)
  /\ BatchIsGuarded
  /\ FlushIsMarked
  /\ FlushCoversEarlierRecords

\* What a caller may rely on when flush or shutdown returns: the records that were
\* accepted before it are written.
CallsCoverRecords == FlushCoversEarlierRecords /\ ShutdownDrainsEverything

\* The ring of the queue is safe to share: counters and tickets keep their types, no
\* two threads touch the entry of one slot at once, and a drawn ticket finds its slot
\* free (reserveQueueDepth, waitForQueueSlot, publishReservedQueueEntry, drainQueueBatch).
RingIsSafe == TypeOK /\ SlotExclusive /\ SlotIsFreeWhenDrawn

\* flush() and shutdown() return: neither waits for a notification that was sent before
\* it waited, or for a producer that has left.
CallsReturn == FlushReturns /\ ShutdownReturns
=============================================================================
