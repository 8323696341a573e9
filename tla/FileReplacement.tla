-------------------------- MODULE FileReplacement ---------------------------
(***************************************************************************)
(* Whole-file calls of several threads and processes on one directory:     *)
(* atomic writes through a temporary file, writes and appends in place,    *)
(* copies, moves and removals. A power failure keeps some earlier state of *)
(* the directory and, of a file that was not flushed, some of its bytes.   *)
(***************************************************************************)
EXTENDS Integers, Sequences, SequencesExt, FiniteSets

CONSTANTS Tasks,          \* threads and processes that make calls
          Plans,          \* sets of calls that are made together: [kind, data, replace, flush, flushParent]
          TempNames,      \* names a temporary file may be given
          MaxNodes,       \* bound: files ever created
          MaxLength,      \* bound: bytes of a file that is appended to
          MaxAttempts     \* bound: names tried for a temporary file (64 in the code)

ASSUME FileReplacementAssumption ==
  /\ MaxNodes \in Nat /\ MaxAttempts \in Nat /\ MaxLength \in Nat
  /\ 0 \notin Tasks
  /\ TempNames \cap {"dest", "source", "none"} = {}
  /\ \A plan \in Plans :
       plan \subseteq [kind : {"atomic", "write", "append", "copy", "move", "remove", "shrink"}, data : Seq(Int),
                      replace : BOOLEAN, flush : BOOLEAN, flushParent : BOOLEAN]

VARIABLES nodes,    \* files: the bytes, whether they are on the disk and all of one write, and who has the file open alone
          entries,  \* states of the directory since it was last on the disk; the last one is the present
          tasks,    \* the call each task is in
          history   \* history: the calls that are made, crashes, temporary files left behind, copies that succeeded

replaceVars == <<nodes, entries, tasks, history>>

Requests == history.plan

Dest == "dest"
Source == "source"
Names == {Dest, Source} \cup TempNames
None == 0

Dir == Last(entries)
NewNode(t, whole) == [data |-> <<>>, synced |-> FALSE, holder |-> t, whole |-> whole]
Rewritten(file, data, whole) == [file EXCEPT !.data = data, !.synced = FALSE, !.whole = whole]

Changed(name, n) == Append(entries, [Dir EXCEPT ![name] = n])

IdleTask == [kind |-> "idle", pc |-> "idle", data |-> <<>>, replace |-> FALSE, flush |-> FALSE, flushParent |-> FALSE,
             temp |-> "none", node |-> None, from |-> None, done |-> 0, size |-> 0, attempt |-> 0]

NewCall(request, pc, from, size) ==
  [kind |-> request.kind, pc |-> pc, data |-> request.data, replace |-> request.replace, flush |-> request.flush,
   flushParent |-> request.flushParent, temp |-> "none", node |-> None, from |-> from, done |-> 0, size |-> size,
   attempt |-> 0]

\* Nobody has the file open without sharing it.
Unheld(n) == nodes[n].holder = None
\* Nobody has it open at all.
Unused(n) == Unheld(n) /\ \A t \in Tasks : tasks[t].pc \in {"putting", "ending"} => n \notin {tasks[t].node, tasks[t].from}
\* The file is flushed if the call asks for that, and closed.
Closed(file, t) == [file EXCEPT !.synced = file.synced \/ tasks[t].flush, !.holder = IF file.holder = t THEN None ELSE file.holder]
Drop(n) == IF n = None THEN nodes ELSE [nodes EXCEPT ![n].holder = None]
\* The file a call works on, and the one it copies from.
WithFile(task, pc, name, n, from) == [task EXCEPT !.pc = pc, !.temp = name, !.node = n, !.from = from]
\* One more byte is done.
OneMore(task, pc) == [task EXCEPT !.done = task.done + 1, !.pc = pc]
End(t) == tasks' = [tasks EXCEPT ![t] = IdleTask]

\* An open that has created its file may still fail, when the new handle cannot be queried: the empty file stays.
LeftBehind(t, name) ==
  /\ Dir[name] = None /\ Len(nodes) < MaxNodes
  /\ nodes' = Append(nodes, NewNode(None, FALSE)) /\ entries' = Changed(name, Len(nodes) + 1)
  /\ End(t)

-----------------------------------------------------------------------------
(* Atomic writes *)

\* writeAllBytesAtomic up to the search for a name: create-only calls ask for the destination early.
BeginAtomic(t, request) ==
  /\ tasks[t].kind = "idle" /\ request.kind = "atomic"
  /\ ~request.replace => Dir[Dest] = None
  /\ tasks' = [tasks EXCEPT ![t] = NewCall(request, "naming", None, 0)]
  /\ UNCHANGED <<nodes, entries, history>>

\* A name that is taken is tried again with another; other failures end the call. No bytes need no write.
CreateTemporary(t, name) ==
  /\ tasks[t].pc = "naming"
  /\ \/ /\ Dir[name] = None /\ Len(nodes) < MaxNodes
        /\ nodes' = Append(nodes, NewNode(t, tasks[t].data = <<>>))
        /\ entries' = Changed(name, Len(nodes) + 1)
        /\ LET next == IF tasks[t].data = <<>> THEN "flushing" ELSE "writing" IN
           tasks' = [tasks EXCEPT ![t] = WithFile(@, next, name, Len(nodes) + 1, None)]
        /\ UNCHANGED history
     \/ /\ LeftBehind(t, name)
        /\ history' = [history EXCEPT !.uncleaned = @ \cup {Len(nodes) + 1}]
     \/ /\ Dir[name] # None
        /\ IF tasks[t].attempt + 1 < MaxAttempts THEN tasks' = [tasks EXCEPT ![t].attempt = @ + 1] ELSE End(t)
        /\ UNCHANGED <<nodes, entries, history>>
     \/ /\ End(t) /\ UNCHANGED <<nodes, entries, history>>

\* Mutation: a failed flush returns without the cleanup.
AfterFlushFailure_Returns(t) == End(t) /\ nodes' = Drop(tasks[t].node)
\* The writer is closed and the temporary file removed.
AfterFlushFailure(t) == tasks' = [tasks EXCEPT ![t].pc = "cleaning"] /\ nodes' = Drop(tasks[t].node)

\* One of the writes that IO::writeAllBytes makes.
WriteTemporary(t) ==
  /\ tasks[t].kind = "atomic" /\ tasks[t].pc = "writing"
  /\ LET n == tasks[t].node
         last == tasks[t].done + 1 = Len(tasks[t].data) IN
     \/ /\ nodes' = [nodes EXCEPT ![n] = Rewritten(@, Append(@.data, tasks[t].data[tasks[t].done + 1]), last)]
        /\ tasks' = [tasks EXCEPT ![t] = OneMore(@, IF last THEN "flushing" ELSE "writing")]
     \/ /\ nodes' = Drop(n)
        /\ tasks' = [tasks EXCEPT ![t].pc = "cleaning"]
  /\ UNCHANGED <<entries, history>>

\* Mutation: the flush mode is not passed on.
Synced_Not(n) == nodes
Synced(n) == [nodes EXCEPT ![n].synced = TRUE]

FlushTemporary(t) ==
  /\ tasks[t].kind = "atomic" /\ tasks[t].pc = "flushing"
  /\ \/ /\ nodes' = IF tasks[t].flush THEN Synced(tasks[t].node) ELSE nodes
        /\ tasks' = [tasks EXCEPT ![t].pc = "closing"]
     \/ tasks[t].flush /\ AfterFlushFailure(t)
  /\ UNCHANGED <<entries, history>>

\* A close that fails leaves the file open, so that its removal fails too.
CloseTemporary(t) ==
  /\ tasks[t].kind = "atomic" /\ tasks[t].pc = "closing"
  /\ \/ /\ nodes' = Drop(tasks[t].node)
        /\ tasks' = [tasks EXCEPT ![t].pc = "moving"]
     \/ /\ tasks' = [tasks EXCEPT ![t].pc = "cleaning"]
        /\ UNCHANGED nodes
  /\ UNCHANGED <<entries, history>>

\* The system's rename: it fails when the target is open, or is there and must not be replaced.
\* Mutation: the early look at the destination is relied on.
RenameAllowed_Unchecked(replace, to) == Dir[to] # None => Unused(Dir[to])
RenameAllowed(replace, to) == Dir[to] # None => replace /\ Unused(Dir[to])

Renamed(from, to) == Append(entries, [Dir EXCEPT ![to] = Dir[from], ![from] = None])

MoveIntoPlace(t) ==
  /\ tasks[t].kind = "atomic" /\ tasks[t].pc = "moving"
  /\ \/ /\ RenameAllowed(tasks[t].replace, Dest)
        /\ entries' = Renamed(tasks[t].temp, Dest)
        /\ IF tasks[t].flushParent THEN tasks' = [tasks EXCEPT ![t].pc = "parent"] ELSE End(t)
     \/ /\ tasks' = [tasks EXCEPT ![t].pc = "cleaning"]
        /\ UNCHANGED entries
  /\ UNCHANGED <<nodes, history>>

\* flushDirectory; a failure is reported though the file is in place.
FlushParent(t) ==
  /\ tasks[t].kind = "atomic" /\ tasks[t].pc = "parent"
  /\ entries' \in {<<Dir>>, entries}
  /\ End(t)
  /\ UNCHANGED <<nodes, history>>

\* The best-effort removal, and the end of the writer that closes what is still open.
CleanTemporary(t) ==
  /\ tasks[t].kind = "atomic" /\ tasks[t].pc = "cleaning"
  /\ \/ /\ Unheld(tasks[t].node)
        /\ entries' = Changed(tasks[t].temp, None)
        /\ UNCHANGED history
     \/ /\ history' = [history EXCEPT !.uncleaned = @ \cup {tasks[t].node}]
        /\ UNCHANGED entries
  /\ nodes' = Drop(tasks[t].node)
  /\ End(t)

-----------------------------------------------------------------------------
(* Writes, appends and copies in place *)

\* writeAllBytes and appendBytes open with sharing; a copy opens its destination alone. The copy notes the size of the
\* source first, and its source may change from then on.
BeginInPlace(t, request) ==
  /\ tasks[t].kind = "idle" /\ request.kind \in {"write", "append", "copy"}
  /\ request.kind = "copy" => Dir[Source] # None
  /\ request.kind = "append" /\ Dir[Dest] # None => Len(nodes[Dir[Dest]].data) < MaxLength
  /\ ~request.replace => Dir[Dest] = None
  /\ tasks' = [tasks EXCEPT ![t] = IF request.kind = "copy"
                                   THEN NewCall(request, "opening", Dir[Source], Len(nodes[Dir[Source]].data))
                                   ELSE NewCall(request, "opening", None, 0)]
  /\ UNCHANGED <<nodes, entries, history>>

\* A copy opens its source by name, which may by now be another file.
OpenInPlace(t) ==
  /\ tasks[t].pc = "opening"
  /\ LET copy == tasks[t].kind = "copy"
         holder == IF copy THEN t ELSE None
         from == IF copy THEN Dir[Source] ELSE None
         next == IF ~copy /\ tasks[t].data = <<>> THEN "ending" ELSE "putting"
     IN \/ /\ Dir[Dest] = None /\ Len(nodes) < MaxNodes
           /\ copy => Dir[Source] # None
           /\ nodes' = Append(nodes, NewNode(holder, FALSE))
           /\ entries' = Changed(Dest, Len(nodes) + 1)
           /\ tasks' = [tasks EXCEPT ![t] = WithFile(@, next, "none", Len(nodes) + 1, from)]
        \/ /\ Dir[Dest] # None /\ Unheld(Dir[Dest]) /\ tasks[t].replace
           /\ copy => Dir[Source] # None /\ Unused(Dir[Dest])
           /\ nodes' = IF tasks[t].kind = "append" THEN nodes
                       ELSE [nodes EXCEPT ![Dir[Dest]] = NewNode(holder, FALSE)]
           /\ tasks' = [tasks EXCEPT ![t] = WithFile(@, next, "none", Dir[Dest], from)]
           /\ UNCHANGED entries
        \/ LeftBehind(t, Dest) /\ (copy => Dir[Source] # None)
        \/ /\ End(t) /\ UNCHANGED <<nodes, entries>>
  /\ UNCHANGED history

\* A write goes to its own position, an append to the end.
Put(data, at, byte) == IF at < Len(data) THEN [data EXCEPT ![at + 1] = byte]
                       ELSE data \o [i \in 1 .. at - Len(data) |-> 0] \o <<byte>>

PutByte(t) ==
  /\ tasks[t].pc = "putting" /\ tasks[t].kind \in {"write", "append"}
  /\ LET n == tasks[t].node
         at == IF tasks[t].kind = "append" THEN Len(nodes[n].data) ELSE tasks[t].done
         last == tasks[t].done + 1 = Len(tasks[t].data)
     IN \/ /\ nodes' = [nodes EXCEPT ![n] = Rewritten(@, Put(@.data, at, tasks[t].data[tasks[t].done + 1]), FALSE)]
           /\ tasks' = [tasks EXCEPT ![t] = OneMore(@, IF last THEN "ending" ELSE "putting")]
        \/ /\ End(t) /\ UNCHANGED nodes
  /\ UNCHANGED <<entries, history>>

\* Mutation: the number of bytes copied is not compared.
CopyComplete_Unchecked(task) == TRUE
CopyComplete(task) == task.done = task.size

\* copyFile: bytes are read and written until the end of the source as it is then; a different number than its size
\* at the start fails.
CopyByte(t) ==
  /\ tasks[t].pc = "putting" /\ tasks[t].kind = "copy"
  /\ LET n == tasks[t].node
         from == nodes[tasks[t].from].data
     IN \/ /\ tasks[t].done < Len(from)
           /\ nodes' = [nodes EXCEPT ![n] = Rewritten(@, Append(@.data, from[tasks[t].done + 1]), @.whole)]
           /\ tasks' = [tasks EXCEPT ![t] = OneMore(@, "putting")]
        \/ /\ tasks[t].done >= Len(from) /\ CopyComplete(tasks[t])
           /\ tasks' = [tasks EXCEPT ![t].pc = "ending"]
           /\ UNCHANGED nodes
        \/ /\ nodes' = Drop(n)
           /\ End(t)
  /\ UNCHANGED <<entries, history>>

\* The flush, the close and the end of the call; a copy reports success here.
EndInPlace(t) ==
  /\ tasks[t].pc = "ending"
  /\ LET n == tasks[t].node IN
     nodes' = [nodes EXCEPT ![n] = Closed(@, t)]
  /\ history' = IF tasks[t].kind = "copy"
                THEN [history EXCEPT !.copied = @ \cup {<<tasks[t].size, Len(nodes[tasks[t].node].data)>>}] ELSE history
  /\ End(t)
  /\ UNCHANGED entries

-----------------------------------------------------------------------------
(* Moves, removals and crashes *)

\* movePath of the source to the destination
MovePath(request) ==
  /\ request.kind = "move" /\ Dir[Source] # None /\ Unheld(Dir[Source])
  /\ RenameAllowed(request.replace, Dest)
  /\ entries' = Renamed(Source, Dest)
  /\ UNCHANGED <<nodes, tasks, history>>

\* removeFile of the destination, while nobody has it open
RemovePath(request) ==
  /\ request.kind = "remove" /\ Dir[Dest] # None /\ Unused(Dir[Dest])
  /\ entries' = Changed(Dest, None)
  /\ UNCHANGED <<nodes, tasks, history>>

\* Truncation of the source by another program
ShrinkSource(request) ==
  /\ request.kind = "shrink" /\ Dir[Source] # None /\ Unheld(Dir[Source]) /\ nodes[Dir[Source]].data # <<>>
  /\ nodes' = [nodes EXCEPT ![Dir[Source]] = Rewritten(@, Front(@.data), @.whole)]
  /\ UNCHANGED <<entries, tasks, history>>

\* Power failure: the directory is as it was at some time since it was flushed; a file that was not flushed may have
\* lost what was written to it. Every call is gone.
Crash ==
  /\ ~history.crashed
  /\ \E i \in DOMAIN entries, torn \in SUBSET {n \in DOMAIN nodes : ~nodes[n].synced} :
       /\ entries' = <<entries[i]>>
       /\ nodes' = [n \in DOMAIN nodes |->
                      IF n \in torn THEN [nodes[n] EXCEPT !.data = <<>>, !.whole = FALSE, !.holder = None, !.synced = TRUE]
                      ELSE [nodes[n] EXCEPT !.holder = None, !.synced = TRUE]]
  /\ tasks' = [t \in Tasks |-> IdleTask]
  /\ history' = [history EXCEPT !.crashed = TRUE]

\* The old file is on the disk; another process has left a temporary file behind.
ReplaceInit ==
  /\ nodes = << [data |-> <<7, 7>>, synced |-> TRUE, holder |-> None, whole |-> TRUE],
                [data |-> <<8, 8>>, synced |-> TRUE, holder |-> None, whole |-> TRUE],
                [data |-> <<9>>, synced |-> TRUE, holder |-> None, whole |-> FALSE] >>
  /\ \E old \in {None, 1}, stale \in TempNames :
       entries = <<[name \in Names |-> CASE name = Dest -> old [] name = Source -> 2 [] name = stale -> 3 [] OTHER -> None]>>
  /\ tasks = [t \in Tasks |-> IdleTask]
  /\ \E plan \in Plans : history = [plan |-> plan, crashed |-> FALSE, uncleaned |-> {3}, copied |-> {}]

AtomicStep(t) ==
  \/ \E request \in Requests : BeginAtomic(t, request)
  \/ \E name \in TempNames : CreateTemporary(t, name)
  \/ WriteTemporary(t) \/ FlushTemporary(t) \/ CloseTemporary(t) \/ MoveIntoPlace(t) \/ FlushParent(t) \/ CleanTemporary(t)

InPlaceStep(t) ==
  \/ \E request \in Requests : BeginInPlace(t, request)
  \/ OpenInPlace(t) \/ PutByte(t) \/ CopyByte(t) \/ EndInPlace(t)

ReplaceNext ==
  \/ \E t \in Tasks : AtomicStep(t) \/ InPlaceStep(t)
  \/ \E request \in Requests : MovePath(request) \/ RemovePath(request) \/ ShrinkSource(request)
  \/ Crash

ReplaceSpec == ReplaceInit /\ [][ReplaceNext]_replaceVars

-----------------------------------------------------------------------------
(* Properties *)

InPlaceCalls == \E request \in Requests : request.kind \in {"write", "append", "copy", "shrink"}
UnflushedCalls == \E request \in Requests : request.kind = "atomic" /\ ~request.flush

\* While only atomic writes and moves change the destination, whoever opens it finds a complete file, at every moment
\* and after a power failure at any moment, provided that the writes flush the file before they move it.
DestinationIsWhole ==
  ~InPlaceCalls /\ Dir[Dest] # None /\ (history.crashed => ~UnflushedCalls) => nodes[Dir[Dest]].whole

\* A temporary file in the directory is that of a call under way, or one that a failed open or a failed removal left, or a crash;
\* and the cleanup of a call never takes the temporary file of another process.
TemporariesAreCleaned ==
  /\ ~history.crashed => \A name \in TempNames : Dir[name] # None =>
       \/ Dir[name] \in history.uncleaned
       \/ \E t \in Tasks : tasks[t].kind = "atomic" /\ tasks[t].temp = name
  /\ \E name \in TempNames : Dir[name] = 3

\* A copy that succeeds has written as many bytes as the source had when the copy looked at it, whatever happened to
\* the source in between.
CopiesHaveTheSize == \A c \in history.copied : c[1] = c[2]

\* A call that must not replace never does: the file at the destination changes for another only by a step of a call
\* that may replace it.
CreateOnlyNeverReplaces ==
  [][ /\ Dir[Dest] # None /\ Last(entries')[Dest] \notin {None, Dir[Dest]} /\ history' = history
      => \/ \E t \in Tasks : tasks[t].pc = "moving" /\ tasks[t].replace /\ tasks'[t] # tasks[t]
         \/ \E request \in Requests : request.kind = "move" /\ request.replace ]_replaceVars

\* Whole-file operations racing over one destination: it is never seen half
\* written by an atomic one, temporaries are removed or reported, and a reported
\* copy is complete.
ReplacementIsAtomic == DestinationIsWhole /\ TemporariesAreCleaned /\ CopiesHaveTheSize
=============================================================================
