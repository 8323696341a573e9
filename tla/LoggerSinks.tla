----------------------------- MODULE LoggerSinks -----------------------------
(***************************************************************************)
(* What the Logger does with records once they left the queue: the worker's*)
(* delivery to console and file, filters, synchronous reports, flushes,    *)
(* initialization with its fallbacks, shutdown, and the health that sink   *)
(* failures leave behind.  The ring itself is module LoggerQueue; here it  *)
(* is a sequence.  Sink writes happen under outputMutex, one action each;  *)
(* failures are recorded later under logMutex, a step of their own.  The   *)
(* lifecycle mutex lets one report, flush, init or shutdown run at a time. *)
(***************************************************************************)
EXTENDS Integers, Sequences, FiniteSets, SequencesExt

CONSTANTS
    LogLevels,      \* levels of records
    LogSources,     \* registered sources
    MaxRecords,     \* records of one initialization (bound)
    MaxReports,     \* reports and flushes of one initialization (bound)
    MaxInits,       \* initializations (bound)
    MaxFaults,      \* failing native operations (bound)
    SinkBatchLimit      \* workerBatchSize

ASSUME LoggerSinksAssumption ==
    /\ {MaxRecords, MaxReports, MaxInits, MaxFaults} \subseteq Nat
    /\ SinkBatchLimit \in Nat \ {0}

VARIABLES
    sinks,          \* running, mode (effective normal sinks), fileOpen, fileAvailable, debug, popup, flushEveryBatch
    health,         \* state, and the sources of failures noted since the last init
    filters,        \* enabled levels and sources, and whether a source registry is published
    backlog,        \* records between the queue and the worker
    sinkWorker,     \* the worker's pc, batch, snapshot of the mode, file text and outcome
    caller,         \* the report, flush, init or shutdown that holds lifecycleMutex
    prober,         \* a direct writeDebugOutput call that failed and has not noted it
    logs,           \* what the console and the file show
    written,        \* stats.written
    counts,         \* records, reports, inits and faults so far (the bounds)
    ghost           \* what the sinks owe, what an exception cut, what a failed flush left open

sinkVars == <<sinks, health, filters, backlog, sinkWorker, caller, prober, logs, written, counts, ghost>>

Normal == {"console", "file"}
IdleWorker == [pc |-> "idle", batch |-> <<>>, view |-> {}, text |-> <<>>, immediate |-> 0, queued |-> 0]
IdleCaller == [pc |-> "idle", kind |-> "none", timed |-> FALSE, late |-> FALSE, todo |-> {}, eligible |-> {},
               tried |-> {}, accepted |-> {}, delivered |-> 0, failed |-> {}]
NoGhost == [owed |-> {}, aborted |-> {}, unsure |-> {}, reports |-> 0]

(* Outcomes a native operation may have while faults are left.              *)
Outcomes == IF counts.faults < MaxFaults THEN BOOLEAN ELSE {TRUE}
CountFault(ok) == counts' = [counts EXCEPT !.faults = @ + IF ok THEN 0 ELSE 1]

-----------------------------------------------------------------------------
(* Health *)

RecordHealthFailure_OnlyBoth(source) ==
    LET mode == IF sinks.mode = Normal THEN sinks.mode \ {source} ELSE sinks.mode
    IN /\ sinks' = [sinks EXCEPT !.mode = mode, !.fileAvailable = @ /\ source # "file",
                                 !.debug = @ /\ source # "debug", !.popup = @ /\ source # "popup"]
       /\ health' = [state |-> IF mode = {} THEN "disabled" ELSE "degraded", noted |-> health.noted \cup {source}]

(* recordHealthFailure with disableChannel: the channel goes, the mode      *)
(* shrinks, and the rest is Degraded or Disabled.                           *)
RecordHealthFailure(source) ==
    LET mode == sinks.mode \ {source}
    IN /\ sinks' = [sinks EXCEPT !.mode = mode, !.fileAvailable = @ /\ source # "file",
                                 !.debug = @ /\ source # "debug", !.popup = @ /\ source # "popup"]
       /\ health' = [state |-> IF mode = {} THEN "disabled" ELSE "degraded", noted |-> health.noted \cup {source}]

OutputModeAfterFileSetupFailure(requested, fallback) ==
    IF "console" \in requested \/ fallback THEN {"console"} ELSE {}

-----------------------------------------------------------------------------
(* Filters *)

(* A source outside the registry, or without one, is enabled.               *)
SourceEnabledRuntime(source) == filters.registry => source \in filters.sources

ShouldLogRuntime(r) ==
    /\ sinks.running /\ sinks.mode # {}
    /\ r.level \in filters.levels /\ SourceEnabledRuntime(r.source)

SetSourceFilter ==
    \E s \in LogSources :
        /\ filters.registry
        /\ filters' = [filters EXCEPT !.sources = IF s \in @ THEN @ \ {s} ELSE @ \cup {s}]
        /\ UNCHANGED <<sinks, health, backlog, sinkWorker, caller, prober, logs, written, counts, ghost>>

ResetSourceFilters ==
    /\ filters.registry /\ filters' = [filters EXCEPT !.sources = LogSources]
    /\ UNCHANGED <<sinks, health, backlog, sinkWorker, caller, prober, logs, written, counts, ghost>>

SetLevelFilter ==
    \E l \in LogLevels :
        /\ filters' = [filters EXCEPT !.levels = IF l \in @ THEN @ \ {l} ELSE @ \cup {l}]
        /\ UNCHANGED <<sinks, health, backlog, sinkWorker, caller, prober, logs, written, counts, ghost>>

ResetLevelFilters ==
    /\ filters' = [filters EXCEPT !.levels = LogLevels]
    /\ UNCHANGED <<sinks, health, backlog, sinkWorker, caller, prober, logs, written, counts, ghost>>

Log ==
    \E l \in LogLevels, s \in LogSources :
        LET r == [id |-> counts.records + 1, level |-> l, source |-> s]
        IN /\ counts.records < MaxRecords /\ ShouldLogRuntime(r)
           /\ backlog' = Append(backlog, r)
           /\ counts' = [counts EXCEPT !.records = @ + 1]
           /\ UNCHANGED <<sinks, health, filters, sinkWorker, caller, prober, logs, written, ghost>>

-----------------------------------------------------------------------------
(* The worker *)

WorkerTake ==
    LET n == IF Len(backlog) < SinkBatchLimit THEN Len(backlog) ELSE SinkBatchLimit
    IN /\ sinkWorker.pc = "idle" /\ backlog # <<>>
       /\ sinkWorker' = [sinkWorker EXCEPT !.pc = "entry", !.batch = SubSeq(backlog, 1, n)]
       /\ backlog' = SubSeq(backlog, n + 1, Len(backlog))
       /\ UNCHANGED <<sinks, health, filters, caller, prober, logs, written, counts, ghost>>

NextEntry(w) == [w EXCEPT !.batch = Tail(@), !.pc = IF Len(w.batch) > 1 THEN "entry" ELSE "flush"]

(* The filters are asked again; what passes is owed to every sink of the    *)
(* mode as it is now.  Building the line may throw.  The running bit is not *)
(* asked: a stopping Logger drains.                                         *)
WriteLogEntry ==
    LET r == Head(sinkWorker.batch)
        passes == sinks.mode # {} /\ r.level \in filters.levels /\ SourceEnabledRuntime(r.source)
    IN /\ sinkWorker.pc = "entry"
       /\ \E ok \in Outcomes :
            /\ ok \/ passes
            /\ sinkWorker' = IF passes /\ ok
                             THEN [sinkWorker EXCEPT !.view = sinks.mode,
                                                     !.pc = IF "console" \in sinks.mode THEN "console" ELSE "file"]
                             ELSE NextEntry(sinkWorker)
            /\ ghost' = [ghost EXCEPT !.owed = @ \cup IF passes THEN {r.id} \X sinks.mode ELSE {},
                                      !.aborted = @ \cup IF ok THEN {} ELSE {r.id}]
            /\ CountFault(ok)
       /\ UNCHANGED <<sinks, health, filters, backlog, caller, prober, logs, written>>

WorkerConsole ==
    \E ok \in Outcomes :
        /\ sinkWorker.pc = "console"
        /\ sinkWorker' = [sinkWorker EXCEPT !.pc = IF ok THEN "file" ELSE "noteConsole", !.immediate = @ + IF ok THEN 1 ELSE 0]
        /\ logs' = IF ok THEN [logs EXCEPT !.console = Append(@, Head(sinkWorker.batch).id)] ELSE logs
        /\ CountFault(ok)
        /\ UNCHANGED <<sinks, health, filters, backlog, caller, prober, written, ghost>>

(* The file gets its line at the end of the batch, if it is available now;  *)
(* a record counts for the file only when the console did not take it.      *)
WorkerFileText ==
    LET r == Head(sinkWorker.batch)
        shown == r.id \in Range(logs.console)
        queued == "file" \in sinkWorker.view /\ sinks.fileAvailable
    IN /\ sinkWorker.pc = "file"
       /\ \E ok \in Outcomes :
            /\ ok \/ queued
            /\ sinkWorker' = [NextEntry(sinkWorker) EXCEPT
                   !.text = IF queued /\ ok THEN Append(@, r.id) ELSE @,
                   !.queued = @ + IF queued /\ ok /\ ~shown THEN 1 ELSE 0,
                   !.immediate = @ - IF ~ok /\ shown THEN 1 ELSE 0]
            /\ ghost' = [ghost EXCEPT !.aborted = @ \cup IF ok THEN {} ELSE {r.id}]
            /\ CountFault(ok)
       /\ UNCHANGED <<sinks, health, filters, backlog, caller, prober, logs, written>>

FlushFileBatch_Keeps ==
    \E wrote \in Outcomes, flushed \in Outcomes :
        LET ok == wrote /\ flushed
        IN /\ sinkWorker.pc = "flush" /\ sinkWorker.text # <<>>
           /\ (wrote /\ sinks.flushEveryBatch) \/ flushed
           /\ logs' = IF wrote THEN [logs EXCEPT !.file = @ \o sinkWorker.text] ELSE logs
           /\ sinkWorker' = IF ok THEN [sinkWorker EXCEPT !.pc = "finish", !.text = <<>>]
                            ELSE [sinkWorker EXCEPT !.pc = "noteFile", !.queued = 0]
           /\ ghost' = [ghost EXCEPT !.unsure = @ \cup IF ok THEN {} ELSE Range(sinkWorker.text)]
           /\ CountFault(ok)
           /\ UNCHANGED <<sinks, health, filters, backlog, caller, prober, written>>

(* flushFileBatch: one write, a flush when every batch asks for one; the    *)
(* text is dropped either way.                                              *)
FlushFileBatch ==
    \E wrote \in Outcomes, flushed \in Outcomes :
        LET ok == wrote /\ flushed
        IN /\ sinkWorker.pc = "flush" /\ sinkWorker.text # <<>>
           /\ (wrote /\ sinks.flushEveryBatch) \/ flushed
           /\ logs' = IF wrote THEN [logs EXCEPT !.file = @ \o sinkWorker.text] ELSE logs
           /\ sinkWorker' = [sinkWorker EXCEPT !.text = <<>>, !.pc = IF ok THEN "finish" ELSE "noteFile",
                                               !.queued = IF ok THEN @ ELSE 0]
           /\ ghost' = [ghost EXCEPT !.unsure = @ \cup IF ok THEN {} ELSE Range(sinkWorker.text)]
           /\ CountFault(ok)
           /\ UNCHANGED <<sinks, health, filters, backlog, caller, prober, written>>

WorkerNotes ==
    \E step \in {<<"noteConsole", "console", "file">>, <<"noteFile", "file", "finish">>} :
        /\ sinkWorker.pc = step[1] /\ RecordHealthFailure(step[2])
        /\ sinkWorker' = [sinkWorker EXCEPT !.pc = step[3]]
        /\ UNCHANGED <<filters, backlog, caller, prober, logs, written, counts, ghost>>

WorkerFinish ==
    /\ sinkWorker.pc = "finish" \/ (sinkWorker.pc = "flush" /\ sinkWorker.text = <<>>)
    /\ written' = written + sinkWorker.immediate + sinkWorker.queued
    /\ sinkWorker' = [IdleWorker EXCEPT !.text = sinkWorker.text]
    /\ UNCHANGED <<sinks, health, filters, backlog, caller, prober, logs, counts, ghost>>

-----------------------------------------------------------------------------
(* Reports *)

(* Delivery is told by counting.                                            *)
DeliveryFrom(eligible, delivered) ==
    IF delivered = 0 THEN "none" ELSE IF delivered >= eligible THEN "complete" ELSE "partial"

Report ==
    \E kind \in {"report", "fatal"}, timed \in BOOLEAN :
        /\ caller.pc = "idle" /\ counts.reports < MaxReports
        /\ caller' = [IdleCaller EXCEPT !.pc = "write", !.kind = kind, !.timed = timed, !.eligible = sinks.mode]
        /\ counts' = [counts EXCEPT !.reports = @ + 1]
        /\ UNCHANGED <<sinks, health, filters, backlog, sinkWorker, prober, logs, written, ghost>>

Attempted_StopAtFailure(reached, failing) ==
    LET met == IF "console" \in failing THEN reached \ {"file"} ELSE reached
    IN [tried |-> met \ IF sinks.fileAvailable THEN {} ELSE {"file"},
        failed |-> (met \cap failing) \cup IF sinks.fileAvailable THEN {} ELSE met \cap {"file"}]

(* What a report or a flush does with its sinks under outputMutex: each of  *)
(* those it reaches in time is tried, the file only while it is available,  *)
(* and an unavailable file is a failure too.                                *)
Attempted(reached, failing) ==
    [tried |-> reached \ IF sinks.fileAvailable THEN {} ELSE {"file"},
     failed |-> (reached \cap failing) \cup IF sinks.fileAvailable THEN {} ELSE reached \cap {"file"}]

(* The sinks reached before the deadline: all, the console alone, or none.  *)
ReachedBefore(targets) == {targets} \cup IF caller.timed THEN {targets \cap {"console"}, {}} ELSE {}
FailingSets(targets) == IF counts.faults < MaxFaults THEN SUBSET targets ELSE {{}}

WriteReportSynchronously ==
    \E reached \in ReachedBefore(caller.eligible) : \E failing \in FailingSets(reached) :
        LET a == Attempted(reached, failing)
            good == a.tried \ a.failed
        IN /\ caller.pc = "write"
           /\ caller' = [caller EXCEPT !.pc = "note", !.late = reached # caller.eligible, !.todo = a.failed,
                             !.tried = a.tried, !.failed = a.failed, !.accepted = good, !.delivered = Cardinality(good)]
           /\ logs' = [x \in Normal |-> IF x \in good THEN Append(logs[x], 0) ELSE logs[x]]
           /\ written' = written + IF good # {} THEN 1 ELSE 0
           /\ ghost' = [ghost EXCEPT !.reports = @ + IF good # {} THEN 1 ELSE 0]
           /\ CountFault(failing = {})
           /\ UNCHANGED <<sinks, health, filters, backlog, sinkWorker, prober>>

(* The failures of a step are noted one by one, the console's first; then   *)
(* the next step.                                                           *)
StepAfter ==
    CASE caller.pc = "note" -> "askDebug" [] caller.pc = "noteDebug" -> "flush"
      [] caller.pc = "noteFlush" -> IF caller.kind = "shutdown" THEN "close" ELSE "popup"
      [] caller.pc = "notePopup" -> "done"

CallerNotes ==
    /\ caller.pc \in {"note", "noteDebug", "noteFlush", "notePopup"}
    /\ IF caller.todo = {}
       THEN /\ caller' = [caller EXCEPT !.pc = StepAfter]
            /\ UNCHANGED <<sinks, health>>
       ELSE LET source == IF "console" \in caller.todo THEN "console" ELSE CHOOSE x \in caller.todo : TRUE
            IN RecordHealthFailure(source) /\ caller' = [caller EXCEPT !.todo = @ \ {source}]
    /\ UNCHANGED <<filters, backlog, sinkWorker, prober, logs, written, counts, ghost>>

AskDebug ==
    /\ caller.pc = "askDebug"
    /\ caller' = IF sinks.debug THEN [caller EXCEPT !.pc = "debug", !.eligible = @ \cup {"debug"}]
                 ELSE [caller EXCEPT !.pc = "flush"]
    /\ UNCHANGED <<sinks, health, filters, backlog, sinkWorker, prober, logs, written, counts, ghost>>

(* writeDebugOutput asks again and reports success when it was disabled.    *)
ReportDebug ==
    \E late \in {caller.late, caller.timed} : \E ok \in Outcomes :
        /\ caller.pc = "debug" /\ (caller.late => late)
        /\ ok \/ (~late /\ sinks.debug)
        /\ caller' = [caller EXCEPT !.pc = "noteDebug", !.late = late, !.todo = IF ok THEN {} ELSE {"debug"},
                          !.failed = @ \cup IF ok THEN {} ELSE {"debug"},
                          !.tried = @ \cup IF late \/ ~sinks.debug THEN {} ELSE {"debug"},
                          !.accepted = @ \cup IF ok /\ ~late /\ sinks.debug THEN {"debug"} ELSE {},
                          !.delivered = @ + IF ok /\ ~late THEN 1 ELSE 0]
        /\ CountFault(ok)
        /\ UNCHANGED <<sinks, health, filters, backlog, sinkWorker, prober, logs, written, ghost>>

(* flushSinksInternal, skipped when the deadline passed.                    *)
FlushSinksInternal ==
    \E reached \in IF caller.late THEN {{}} ELSE ReachedBefore(sinks.mode) :
      \E failing \in FailingSets(reached) :
        LET a == Attempted(reached, failing)
        IN /\ caller.pc = "flush"
           /\ caller' = [caller EXCEPT !.pc = "noteFlush", !.todo = a.failed, !.failed = @ \cup a.failed,
                             !.late = @ \/ reached # sinks.mode]
           /\ CountFault(failing = {})
           /\ UNCHANGED <<sinks, health, filters, backlog, sinkWorker, prober, logs, written, ghost>>

ShowFatalPopup ==
    /\ caller.pc = "popup"
    /\ IF caller.kind = "fatal" /\ sinks.popup
       THEN \E late \in {caller.late, caller.timed} : \E ok \in Outcomes :
            /\ caller.late => late
            /\ ok \/ ~late
            /\ caller' = [caller EXCEPT !.pc = "notePopup", !.late = late, !.todo = IF ok THEN {} ELSE {"popup"},
                              !.eligible = @ \cup {"popup"}, !.failed = @ \cup IF ok THEN {} ELSE {"popup"},
                              !.tried = @ \cup IF late THEN {} ELSE {"popup"},
                              !.accepted = @ \cup IF ok /\ ~late THEN {"popup"} ELSE {},
                              !.delivered = @ + IF ok /\ ~late THEN 1 ELSE 0]
            /\ CountFault(ok)
       ELSE caller' = [caller EXCEPT !.pc = "done"] /\ UNCHANGED counts
    /\ UNCHANGED <<sinks, health, filters, backlog, sinkWorker, prober, logs, written, ghost>>

ReportReturns ==
    /\ caller.pc = "done" /\ caller' = IdleCaller
    /\ UNCHANGED <<sinks, health, filters, backlog, sinkWorker, prober, logs, written, counts, ghost>>

(* A direct writeDebugOutput call holds no lifecycle lock: it writes, and   *)
(* notes its failure whenever it gets there.                                *)
WriteDebugOutput ==
    /\ counts.faults < MaxFaults /\ sinks.debug /\ ~prober
    /\ prober' = TRUE /\ CountFault(FALSE)
    /\ UNCHANGED <<sinks, health, filters, backlog, sinkWorker, caller, logs, written, ghost>>

ProberNotes ==
    /\ prober /\ prober' = FALSE /\ RecordHealthFailure("debug")
    /\ UNCHANGED <<filters, backlog, sinkWorker, caller, logs, written, counts, ghost>>

-----------------------------------------------------------------------------
(* Flush, shutdown, initialization *)

DrainedWorker == backlog = <<>> /\ sinkWorker.pc = "idle"

Flush ==
    \E timed \in BOOLEAN :
        /\ caller.pc = "idle" /\ DrainedWorker /\ counts.reports < MaxReports
        /\ caller' = [IdleCaller EXCEPT !.pc = "flush", !.kind = "flush", !.timed = timed]
        /\ counts' = [counts EXCEPT !.reports = @ + 1]
        /\ UNCHANGED <<sinks, health, filters, backlog, sinkWorker, prober, logs, written, ghost>>

ShutdownBegins ==
    /\ caller.pc = "idle" /\ sinks.running
    /\ sinks' = [sinks EXCEPT !.running = FALSE]
    /\ caller' = [IdleCaller EXCEPT !.pc = "join", !.kind = "shutdown"]
    /\ UNCHANGED <<health, filters, backlog, sinkWorker, prober, logs, written, counts, ghost>>

ShutdownJoins ==
    /\ caller.pc = "join" /\ DrainedWorker
    /\ caller' = [caller EXCEPT !.pc = "flush"]
    /\ UNCHANGED <<sinks, health, filters, backlog, sinkWorker, prober, logs, written, counts, ghost>>

(* Disabled, but the noted failures stay for inspection.                    *)
ShutdownCloses ==
    /\ caller.pc = "close" /\ caller' = IdleCaller
    /\ sinks' = [sinks EXCEPT !.mode = {}, !.fileOpen = FALSE, !.fileAvailable = FALSE]
    /\ health' = [health EXCEPT !.state = "disabled"]
    /\ filters' = [filters EXCEPT !.registry = FALSE]
    /\ UNCHANGED <<backlog, sinkWorker, prober, logs, written, counts, ghost>>

(* Definitions make every source enabled, filters then mute some; no        *)
(* registry without definitions.                                            *)
PreparedFilters(mutedLevels, mutedSources, registered) ==
    [levels |-> LogLevels \ mutedLevels, sources |-> LogSources \ mutedSources, registry |-> registered]

(* The log file of this init: a failed timestamp only degrades its name, a  *)
(* failed open leaves the fallback.  Neither disables a channel.            *)
FileSetup(requested, fileOk, timeOk, fallback) ==
    IF "file" \notin requested THEN [mode |-> requested, opened |-> FALSE, noted |-> {}]
    ELSE [mode |-> IF fileOk THEN requested ELSE OutputModeAfterFileSetupFailure(requested, fallback),
          opened |-> fileOk,
          noted |-> (IF fileOk THEN {} ELSE {"file"}) \cup IF timeOk THEN {} ELSE {"time"}]

InitImpl ==
    \E requested \in SUBSET Normal, fileOk \in Outcomes, timeOk \in Outcomes, spawned \in Outcomes,
       fallback \in BOOLEAN, every \in BOOLEAN, levels \in SUBSET LogLevels, sources \in SUBSET LogSources :
        LET setup == FileSetup(requested, fileOk, timeOk, fallback)
            starts == setup.mode # {} /\ spawned
        IN /\ caller.pc = "idle" /\ ~sinks.running /\ counts.inits < MaxInits
           /\ "file" \in requested \/ (fileOk /\ timeOk)
           /\ setup.mode # {} \/ spawned
           /\ sinks' = [running |-> starts, mode |-> IF starts THEN setup.mode ELSE {},
                        fileOpen |-> starts /\ setup.opened, fileAvailable |-> starts /\ setup.opened,
                        debug |-> TRUE, popup |-> TRUE, flushEveryBatch |-> every]
           /\ health' = [noted |-> setup.noted,
                         state |-> IF ~starts THEN "disabled" ELSE IF setup.noted # {} THEN "degraded" ELSE "healthy"]
           /\ filters' = PreparedFilters(levels, sources, spawned)
           /\ logs' = [x \in Normal |-> <<>>]
           /\ written' = 0 /\ ghost' = NoGhost
           /\ counts' = [counts EXCEPT !.records = 0, !.reports = 0, !.inits = @ + 1,
                                       !.faults = @ + IF fileOk /\ timeOk /\ spawned THEN 0 ELSE 1]
           /\ UNCHANGED <<backlog, sinkWorker, caller, prober>>

(* An invalid configuration: health forgets the failures it kept, what the  *)
(* last one left of debug output and popup stays.                           *)
InitFails ==
    /\ caller.pc = "idle" /\ ~sinks.running /\ counts.inits < MaxInits
    /\ sinks' = [sinks EXCEPT !.mode = {}, !.fileAvailable = FALSE]
    /\ health' = [state |-> "disabled", noted |-> {}]
    /\ filters' = [filters EXCEPT !.registry = FALSE]
    /\ counts' = [counts EXCEPT !.inits = @ + 1]
    /\ ghost' = [ghost EXCEPT !.owed = {}]
    /\ UNCHANGED <<backlog, sinkWorker, caller, prober, logs, written>>

-----------------------------------------------------------------------------
SinksInit ==
    /\ sinks = [running |-> FALSE, mode |-> {}, fileOpen |-> FALSE, fileAvailable |-> FALSE,
                debug |-> FALSE, popup |-> FALSE, flushEveryBatch |-> FALSE]
    /\ health = [state |-> "disabled", noted |-> {}]
    /\ filters = [levels |-> LogLevels, sources |-> LogSources, registry |-> FALSE]
    /\ backlog = <<>> /\ sinkWorker = IdleWorker /\ caller = IdleCaller /\ prober = FALSE
    /\ logs = [x \in Normal |-> <<>>] /\ written = 0
    /\ counts = [records |-> 0, reports |-> 0, inits |-> 0, faults |-> 0] /\ ghost = NoGhost

SinkWorkerStep ==
    \/ WorkerTake \/ WriteLogEntry \/ WorkerConsole \/ WorkerFileText \/ FlushFileBatch \/ WorkerNotes \/ WorkerFinish
CallerStep ==
    \/ Report \/ WriteReportSynchronously \/ CallerNotes \/ AskDebug \/ ReportDebug \/ FlushSinksInternal
    \/ ShowFatalPopup \/ ReportReturns \/ Flush \/ ShutdownBegins \/ ShutdownJoins \/ ShutdownCloses
    \/ InitImpl \/ InitFails
FilterStep == SetSourceFilter \/ ResetSourceFilters \/ SetLevelFilter \/ ResetLevelFilters

SinksNext == Log \/ SinkWorkerStep \/ CallerStep \/ FilterStep \/ WriteDebugOutput \/ ProberNotes

SinksSpec == SinksInit /\ [][SinksNext]_sinkVars

-----------------------------------------------------------------------------
(* No record is lost in silence: whatever passed the filters is in every    *)
(* sink that was effective when the worker looked, or that sink's failure   *)
(* is in health, or an allocation failure was counted.  A sink shows each   *)
(* record once and in order, and stats.written counts every record one sink *)
(* took, once (writeLogEntry, flushFileBatch, the worker's delivery).       *)
SinksAreHonest ==
    LET records(x) == SelectSeq(logs[x], LAMBDA id : id # 0)
        shown == Range(records("console")) \cup (Range(records("file")) \ ghost.unsure)
    IN /\ \A x \in Normal : \A i, j \in 1..Len(records(x)) : i < j => records(x)[i] < records(x)[j]
       /\ DrainedWorker =>
            /\ \A o \in ghost.owed : o[1] \in Range(logs[o[2]]) \cup ghost.aborted \/ o[2] \in health.noted
            /\ written = ghost.reports + Cardinality(shown \ ghost.aborted)

(* A report that ran out of no time tried every target it found eligible,   *)
(* whatever failed before it; its delivery counts exactly the targets that  *)
(* accepted it.  Only a target another thread disabled during the report is *)
(* exempt (reportPreformattedMessageImpl).                                  *)
ReportIsTrue ==
    caller.pc = "done" /\ caller.kind \in {"report", "fatal"} =>
        LET excused == (caller.eligible \cap health.noted) \ caller.failed
            delivery == DeliveryFrom(Cardinality(caller.eligible), caller.delivered)
        IN /\ ~caller.late => caller.eligible \ caller.tried \subseteq health.noted
           /\ excused = {} =>
                /\ (delivery = "complete") = (caller.accepted # {} /\ caller.accepted = caller.eligible)
                /\ (delivery = "none") = (caller.accepted = {})

(* A sink that failed is off until the next initialization, health says     *)
(* Disabled exactly when no normal sink is left and Healthy only when       *)
(* nothing failed, and an effective file is open (recordHealthFailure).     *)
HealthIsTrue ==
    /\ health.noted \cap sinks.mode = {}
    /\ (health.state = "disabled") = (sinks.mode = {})
    /\ health.state = "healthy" => health.noted = {}
    /\ "file" \in sinks.mode => sinks.fileOpen /\ sinks.fileAvailable
    /\ "debug" \in health.noted => ~sinks.debug
    /\ sinks.fileAvailable => sinks.fileOpen

\* The sinks and what is said of them: each accepted record reaches every sink
\* that was on or is accounted for, a report tells how many took it, and a sink
\* is off once its failure is noted.
SinksAreTrue == SinksAreHonest /\ ReportIsTrue /\ HealthIsTrue
=============================================================================
