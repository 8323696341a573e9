------------------------------ MODULE MCLogger ------------------------------
(***************************************************************************)
(* The logger's two models side by side: the ring of LoggerQueue, and the  *)
(* sinks of LoggerSinks, from initial states that each leave one of them   *)
(* at rest.  The sinks are explored in three parts, because faults, filter *)
(* changes and reinitialisations together are too many:                    *)
(*   faults   every outcome of every sink, in one initialisation           *)
(*   filters  filter changes, with sinks that work                         *)
(*   epochs   direct debug output over two initialisations                 *)
(***************************************************************************)
EXTENDS LoggerQueue, LoggerSinks, TLC

VARIABLE part

ProducerSymmetry == Permutations(Producers)

MCInit == Init /\ SinksInit /\ part \in {"queue", "faults", "filters", "epochs"}

MCNext ==
    /\ UNCHANGED part
    /\ \/ part = "queue" /\ Next /\ UNCHANGED sinkVars
       \/ part # "queue" /\ (SinkWorkerStep \/ Log \/ CallerStep) /\ UNCHANGED vars
       \/ part = "filters" /\ FilterStep /\ UNCHANGED vars
       \/ part = "epochs" /\ (WriteDebugOutput \/ ProberNotes) /\ UNCHANGED vars
       \/ part # "queue" /\ UNCHANGED <<vars, sinkVars>>    \* no bounded call is left

\* what each part leaves out; the queue part leaves the sinks as SinksInit has them, and a ring
\* that was prepared again meets one call less
Bounds ==
    /\ part = "filters" \/ (filters.levels = LogLevels /\ filters.sources = LogSources)
    /\ part = "queue" /\ epoch = MaxEpochs => calls < MaxLogs
    /\ part = "faults" => /\ counts.inits <= 1 /\ counts.records + counts.reports <= 2
                          /\ counts.records + counts.reports = 2 => counts.faults <= 1
    /\ part = "filters" => counts.faults = 0 /\ counts.inits <= 1 /\ counts.records + counts.reports <= 2
    /\ part = "epochs" => counts.faults <= 1 /\ counts.records = 0
=============================================================================
