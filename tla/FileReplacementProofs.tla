----------------------- MODULE FileReplacementProofs ------------------------
(***************************************************************************)
(* For any number of tasks and plans: a destination that only atomic       *)
(* writes and moves change is whole at every moment and after a crash, a   *)
(* temporary file is always accounted for, a copy that succeeds is         *)
(* complete, and a call that must not replace never does.                  *)
(***************************************************************************)
EXTENDS FileReplacement, TLAPS

MakingStages == {"writing", "flushing", "closing", "moving", "cleaning"}
PuttingStages == {"putting", "ending"}
InPlaceStages == {"opening", "putting", "ending"}
AtomicStages == MakingStages \cup {"naming", "parent"}

\* The types.
File == [data : Seq(Int), synced : BOOLEAN, holder : Tasks \cup {None}, whole : BOOLEAN]
Directory == [Names -> Nat]
Task == [kind : {"idle", "atomic", "write", "append", "copy"}, pc : {"idle"} \cup AtomicStages \cup InPlaceStages,
         data : Seq(Int), replace : BOOLEAN, flush : BOOLEAN, flushParent : BOOLEAN, temp : TempNames \cup {"none"},
         node : Nat, from : Nat, done : Nat, size : Nat, attempt : Nat]
History == [plan : Plans, crashed : BOOLEAN, uncleaned : SUBSET Nat, copied : SUBSET (Nat \X Nat)]

ReplaceTypeOK ==
  /\ nodes \in Seq(File)
  /\ entries \in Seq(Directory) /\ entries # <<>>
  /\ tasks \in [Tasks -> Task]
  /\ history \in History

\* Which calls have which steps.
StageOfKind(task) ==
  /\ task.pc \in AtomicStages <=> task.kind = "atomic"
  /\ task.pc \in InPlaceStages <=> task.kind \in {"write", "append", "copy"}

\* A call has a temporary file; it has its destination open; it copies.
Maker(t) == tasks[t].pc \in MakingStages
Placer(t) == tasks[t].pc \in PuttingStages
Copier(t) == Placer(t) /\ tasks[t].kind = "copy"

\* The temporary file of a call is in the directory under its name, and never was the destination or the source.
TemporaryIsOwn(t) ==
  Maker(t) => /\ tasks[t].temp \in TempNames /\ tasks[t].node \in 4 .. Len(nodes) /\ Dir[tasks[t].temp] = tasks[t].node
              /\ \A i \in DOMAIN entries : entries[i][Dest] # tasks[t].node /\ entries[i][Source] # tasks[t].node

\* It has all bytes before it is flushed, and is on the disk before it is closed, if the call asks for that.
TemporaryIsWhole(t) ==
  /\ tasks[t].pc = "writing" => tasks[t].done < Len(tasks[t].data)
  /\ tasks[t].pc \in {"flushing", "closing", "moving"} => nodes[tasks[t].node].whole
  /\ tasks[t].pc \in {"closing", "moving"} => UnflushedCalls \/ nodes[tasks[t].node].synced
  /\ tasks[t].kind = "atomic" => UnflushedCalls \/ tasks[t].flush

\* A copy has its destination for itself, which has as many bytes as it has copied.
CopyIsExact(t) ==
  Copier(t) => /\ nodes[tasks[t].node].holder = t
               /\ tasks[t].done = Len(nodes[tasks[t].node].data)
               /\ tasks[t].pc = "ending" => tasks[t].done = tasks[t].size

InPlaceIsOpen(t) ==
  /\ Placer(t) => tasks[t].node \in 1 .. Len(nodes)
  /\ Copier(t) => tasks[t].from \in 1 .. Len(nodes)
  /\ tasks[t].pc = "putting" /\ tasks[t].kind # "copy" => tasks[t].done < Len(tasks[t].data)
  /\ tasks[t].pc \in InPlaceStages => InPlaceCalls

\* Before it has a file, a call has written nothing.
NothingDone(t) == tasks[t].pc \in {"naming", "opening"} => tasks[t].done = 0

TaskIsSound(t) ==
  StageOfKind(tasks[t]) /\ NothingDone(t) /\ TemporaryIsOwn(t) /\ TemporaryIsWhole(t) /\ CopyIsExact(t) /\ InPlaceIsOpen(t)

\* Two calls do not meet in a temporary file, nor in the destination of a copy.
Apart(t, u) ==
  t # u => /\ Maker(t) /\ (Maker(u) \/ Placer(u)) => tasks[t].node # tasks[u].node
           /\ Copier(t) /\ Placer(u) => tasks[t].node # tasks[u].node

\* The directory at every moment names files there are, and the temporary file of the other process.
DirectoryIsSound ==
  \A i \in DOMAIN entries : /\ \A name \in Names : entries[i][name] <= Len(nodes)
                            /\ \E name \in TempNames : entries[i][name] = 3

Good(n) == nodes[n].whole /\ (UnflushedCalls \/ nodes[n].synced)

\* At every moment that a crash may bring back, what atomic calls have put in place is whole and on the disk.
EveryMomentIsWhole ==
  ~InPlaceCalls /\ (history.crashed => ~UnflushedCalls) =>
    \A i \in DOMAIN entries : \A name \in {Dest, Source} : entries[i][name] # None => Good(entries[i][name])

\* A temporary file belongs to a call that still knows it, or is reported.
TemporariesAreKnown ==
  ~history.crashed => \A name \in TempNames : Dir[name] # None =>
    \/ Dir[name] \in history.uncleaned
    \/ \E t \in Tasks : Maker(t) /\ tasks[t].temp = name

\* The inductive invariant.
ReplaceInv ==
  /\ ReplaceTypeOK
  /\ Len(nodes) >= 3
  /\ \A t \in Tasks : TaskIsSound(t)
  /\ \A t, u \in Tasks : Apart(t, u)
  /\ DirectoryIsSound
  /\ EveryMomentIsWhole
  /\ TemporariesAreKnown
  /\ CopiesHaveTheSize

-----------------------------------------------------------------------------
(* What the parts of the invariant give *)

\* The fields of a call have their types.
LEMMA TaskFields ==
  ASSUME ReplaceInv, NEW t \in Tasks
  PROVE  /\ tasks[t] \in Task /\ tasks[t].pc \in {"idle"} \cup AtomicStages \cup InPlaceStages
         /\ tasks[t].kind \in {"idle", "atomic", "write", "append", "copy"} /\ tasks[t].data \in Seq(Int)
         /\ tasks[t].replace \in BOOLEAN /\ tasks[t].flush \in BOOLEAN /\ tasks[t].flushParent \in BOOLEAN
         /\ tasks[t].temp \in TempNames \cup {"none"} /\ tasks[t].node \in Nat /\ tasks[t].from \in Nat
         /\ tasks[t].done \in Nat /\ tasks[t].size \in Nat /\ tasks[t].attempt \in Nat /\ TaskIsSound(t)
  <1>1. tasks[t] \in Task
    BY DEF ReplaceInv, ReplaceTypeOK
  <1>2. TaskIsSound(t)
    BY DEF ReplaceInv
  <1> QED BY <1>1, <1>2 DEF Task

\* The fields of a file have their types.
LEMMA FileFields ==
  ASSUME ReplaceTypeOK, NEW n \in 1 .. Len(nodes)
  PROVE  /\ nodes[n] \in File /\ nodes[n].data \in Seq(Int) /\ nodes[n].synced \in BOOLEAN
         /\ nodes[n].holder \in Tasks \cup {None} /\ nodes[n].whole \in BOOLEAN
  <1>1. nodes[n] \in File
    BY DEF ReplaceTypeOK
  <1> QED BY <1>1 DEF File

\* The present directory is one of the moments.
LEMMA PresentIsAMoment ==
  ASSUME ReplaceTypeOK
  PROVE  Len(entries) \in DOMAIN entries /\ entries[Len(entries)] = Dir /\ Dir \in Directory /\ Len(nodes) \in Nat
  BY DEF ReplaceTypeOK, Dir, Last

\* The names of temporary files are not those of the destination and the source.
LEMMA NamesDiffer ==
  /\ Dest \in Names /\ Source \in Names /\ Dest # Source /\ TempNames \subseteq Names
  /\ \A name \in TempNames : name # Dest /\ name # Source /\ name # "none"
  BY FileReplacementAssumption DEF Dest, Source, Names

\* Nobody else has the temporary file of a call, or a copy in the file a call has open.
LEMMA OwnFile ==
  ASSUME ReplaceInv, NEW t \in Tasks, NEW u \in Tasks, t # u, Maker(t) \/ Placer(t), Maker(u) \/ Copier(u)
  PROVE  tasks[u].node # tasks[t].node
  BY DEF ReplaceInv, Apart, Copier

-----------------------------------------------------------------------------
(* Steps that leave other calls alone *)

\* A step that changes no call outside C, and no file but m, which is not the temporary file or the copy of a call
\* outside C; the temporary files of these stay in the directory and where they are.
LeavesOthers(C, m) ==
  /\ \A u \in Tasks \ C : tasks'[u] = tasks[u]
  /\ Len(nodes') >= Len(nodes)
  /\ \A n \in 1 .. Len(nodes) : n # m => nodes'[n] = nodes[n]
  /\ history'.plan = history.plan
  /\ \A u \in Tasks \ C : Maker(u) \/ Copier(u) => tasks[u].node # m
  /\ \A u \in Tasks \ C : Maker(u) =>
       /\ Dir'[tasks[u].temp] = tasks[u].node
       /\ \A i \in DOMAIN entries' : entries'[i][Dest] # tasks[u].node /\ entries'[i][Source] # tasks[u].node

\* What the plan allows stays the same.
LEMMA PlanIsKept ==
  ASSUME history'.plan = history.plan
  PROVE  (InPlaceCalls' <=> InPlaceCalls) /\ (UnflushedCalls' <=> UnflushedCalls)
  BY DEF InPlaceCalls, UnflushedCalls, Requests

\* Such a step keeps the other calls sound.
LEMMA OthersStaySound ==
  ASSUME ReplaceInv, ReplaceTypeOK', NEW C \in SUBSET Tasks, NEW m, LeavesOthers(C, m), NEW u \in Tasks \ C
  PROVE  TaskIsSound(u)'
  <1>1. /\ tasks'[u] = tasks[u] /\ Len(nodes') >= Len(nodes) /\ history'.plan = history.plan
        /\ \A n \in 1 .. Len(nodes) : n # m => nodes'[n] = nodes[n]
        /\ Maker(u) \/ Copier(u) => tasks[u].node # m
        /\ Maker(u) => /\ Dir'[tasks[u].temp] = tasks[u].node
                       /\ \A i \in DOMAIN entries' : entries'[i][Dest] # tasks[u].node /\ entries'[i][Source] # tasks[u].node
    BY DEF LeavesOthers
  <1>2. TaskIsSound(u) /\ u \in Tasks
    BY DEF ReplaceInv
  <1>3. (InPlaceCalls' <=> InPlaceCalls) /\ (UnflushedCalls' <=> UnflushedCalls)
    BY <1>1, PlanIsKept
  <1>4. Len(nodes) \in Nat /\ Len(nodes') \in Nat
    BY DEF ReplaceInv, ReplaceTypeOK
  <1>5. /\ Maker(u)' <=> Maker(u)
        /\ Placer(u)' <=> Placer(u)
        /\ Copier(u)' <=> Copier(u)
    BY <1>1 DEF Maker, Placer, Copier
  <1>6. TemporaryIsOwn(u)'
    BY <1>1, <1>2, <1>4, <1>5 DEF TaskIsSound, TemporaryIsOwn
  <1>7. Maker(u) \/ Copier(u) => nodes'[tasks[u].node] = nodes[tasks[u].node]
    BY <1>1, <1>2, <1>4 DEF TaskIsSound, TemporaryIsOwn, InPlaceIsOpen, Copier
  <1>8. TemporaryIsWhole(u)'
    BY <1>1, <1>2, <1>3, <1>7 DEF TaskIsSound, TemporaryIsWhole, Maker, MakingStages
  <1>9. CopyIsExact(u)' /\ InPlaceIsOpen(u)'
    BY <1>1, <1>2, <1>3, <1>4, <1>5, <1>7 DEF TaskIsSound, CopyIsExact, InPlaceIsOpen, Copier
  <1>10. StageOfKind(tasks[u])' /\ NothingDone(u)'
    BY <1>1, <1>2 DEF TaskIsSound, StageOfKind, NothingDone
  <1> QED BY <1>6, <1>8, <1>9, <1>10 DEF TaskIsSound

\* A step keeps the invariant when it keeps what it changes itself in order.
LEMMA StepKeeps ==
  ASSUME ReplaceInv, ReplaceTypeOK', NEW C \in SUBSET Tasks, NEW m, LeavesOthers(C, m),
         \A u \in C : TaskIsSound(u)',
         \A u \in C, v \in Tasks : Apart(u, v)' /\ Apart(v, u)',
         DirectoryIsSound', EveryMomentIsWhole', TemporariesAreKnown', CopiesHaveTheSize'
  PROVE  ReplaceInv'
  <1>1. \A u \in Tasks : TaskIsSound(u)'
    BY OthersStaySound
  <1>2. ASSUME NEW u \in Tasks, NEW v \in Tasks PROVE Apart(u, v)'
    <2>1. CASE u \in C \/ v \in C
      BY <2>1
    <2>2. CASE u \notin C /\ v \notin C
      <3>1. tasks'[u] = tasks[u] /\ tasks'[v] = tasks[v] /\ Apart(u, v)
        BY <2>2 DEF LeavesOthers, ReplaceInv
      <3> QED BY <3>1 DEF Apart, Maker, Placer, Copier
    <2> QED BY <2>1, <2>2
  <1>3. Len(nodes') >= 3
    <2>1. Len(nodes') >= Len(nodes) /\ Len(nodes) >= 3
      BY DEF LeavesOthers, ReplaceInv
    <2>2. Len(nodes) \in Nat /\ Len(nodes') \in Nat
      BY DEF ReplaceInv, ReplaceTypeOK
    <2> QED BY <2>1, <2>2
  <1>4. (\A u \in Tasks : TaskIsSound(u))'
    BY <1>1
  <1>5. (\A u, v \in Tasks : Apart(u, v))'
    BY <1>2
  <1> QED BY <1>3, <1>4, <1>5 DEF ReplaceInv

-----------------------------------------------------------------------------
(* Steps that add nothing to the directory *)

\* The directory stays as it is, and at most forgets moments.
Remembers == Dir' = Dir /\ \A i \in DOMAIN entries' : \E j \in DOMAIN entries : entries'[i] = entries[j]

\* Such a step keeps the invariants of the directory, when files that are in place change only by calls in place.
LEMMA DirectoryIsKept ==
  ASSUME ReplaceInv, ReplaceTypeOK', Remembers, NEW C \in SUBSET Tasks, NEW m, LeavesOthers(C, m),
         history'.crashed = history.crashed, history.uncleaned \subseteq history'.uncleaned,
         \A u \in C : Maker(u) => \/ Maker(u)' /\ tasks'[u].temp = tasks[u].temp
                                 \/ tasks[u].node \in history'.uncleaned,
         InPlaceCalls \/ \A i \in DOMAIN entries : entries[i][Dest] # m /\ entries[i][Source] # m
  PROVE  DirectoryIsSound' /\ EveryMomentIsWhole' /\ TemporariesAreKnown'
  <1>1. /\ Len(nodes') >= Len(nodes) /\ Len(nodes) \in Nat /\ Len(nodes') \in Nat /\ history'.plan = history.plan
        /\ \A n \in 1 .. Len(nodes) : n # m => nodes'[n] = nodes[n]
    BY DEF LeavesOthers, ReplaceInv, ReplaceTypeOK
  <1>2. (InPlaceCalls' <=> InPlaceCalls) /\ (UnflushedCalls' <=> UnflushedCalls)
    BY <1>1, PlanIsKept
  <1>3. /\ entries \in Seq(Directory)
        /\ \A i \in DOMAIN entries : \A name \in Names : entries[i][name] \in Nat
    BY DEF ReplaceInv, ReplaceTypeOK, Directory
  <1>4. DirectoryIsSound'
    <2> SUFFICES ASSUME NEW i \in DOMAIN entries'
                 PROVE  /\ \A name \in Names : entries'[i][name] <= Len(nodes')
                        /\ \E name \in TempNames : entries'[i][name] = 3
      BY DEF DirectoryIsSound
    <2>1. PICK j \in DOMAIN entries : entries'[i] = entries[j]
      BY DEF Remembers
    <2>2. /\ \A name \in Names : entries[j][name] <= Len(nodes)
          /\ \E name \in TempNames : entries[j][name] = 3
      BY DEF ReplaceInv, DirectoryIsSound
    <2> QED BY <1>1, <1>3, <2>1, <2>2
  <1>5. EveryMomentIsWhole'
    <2> SUFFICES ASSUME ~InPlaceCalls, history.crashed => ~UnflushedCalls, NEW i \in DOMAIN entries',
                        NEW name \in {Dest, Source}, entries'[i][name] # None
                 PROVE  nodes'[entries'[i][name]].whole /\ (UnflushedCalls \/ nodes'[entries'[i][name]].synced)
      BY <1>2 DEF EveryMomentIsWhole, Good
    <2>1. PICK j \in DOMAIN entries : entries'[i] = entries[j]
      BY DEF Remembers
    <2>2. Good(entries[j][name]) /\ entries[j][name] # m
      BY <2>1 DEF ReplaceInv, EveryMomentIsWhole
    <2>3. entries[j][name] \in 1 .. Len(nodes)
      <3>1. name \in Names
        BY NamesDiffer
      <3>2. entries[j][name] \in Nat
        BY <1>3, <3>1
      <3>3. entries[j][name] <= Len(nodes)
        BY <3>1 DEF ReplaceInv, DirectoryIsSound
      <3> QED BY <1>1, <2>1, <3>2, <3>3 DEF None
    <2>4. nodes'[entries[j][name]] = nodes[entries[j][name]]
      BY <1>1, <2>2, <2>3
    <2> QED BY <1>2, <2>1, <2>2, <2>4 DEF Good
  <1>6. TemporariesAreKnown'
    <2> SUFFICES ASSUME ~history.crashed, NEW name \in TempNames, Dir'[name] # None
                 PROVE  Dir'[name] \in history'.uncleaned \/ \E t \in Tasks : Maker(t)' /\ tasks'[t].temp = name
      BY DEF TemporariesAreKnown
    <2>1. Dir[name] # None /\ Dir'[name] = Dir[name]
      BY DEF Remembers
    <2>2. Dir[name] \in history.uncleaned \/ \E t \in Tasks : Maker(t) /\ tasks[t].temp = name
      BY <2>1 DEF ReplaceInv, TemporariesAreKnown
    <2>3. ASSUME NEW t \in Tasks, Maker(t), tasks[t].temp = name
          PROVE  Dir'[name] \in history'.uncleaned \/ (Maker(t)' /\ tasks'[t].temp = name)
      <3>1. CASE t \in C
        <4>1. Dir[name] = tasks[t].node
          BY <2>3 DEF ReplaceInv, TaskIsSound, TemporaryIsOwn
        <4> QED BY <2>1, <2>3, <3>1, <4>1
      <3>2. CASE t \notin C
        BY <2>3, <3>2 DEF LeavesOthers, Maker
      <3> QED BY <3>1, <3>2
    <2> QED BY <2>1, <2>2, <2>3
  <1> QED BY <1>4, <1>5, <1>6

-----------------------------------------------------------------------------
(* Steps of one call *)

\* A step of call t that adds nothing to the directory, and changes no file but the one the call had open before.
OwnStep(t) ==
  /\ Remembers
  /\ \A u \in Tasks \ {t} : tasks'[u] = tasks[u]
  /\ Len(nodes') = Len(nodes)
  /\ nodes' = nodes \/ Maker(t) \/ Placer(t)
  /\ \A n \in 1 .. Len(nodes) : n # tasks[t].node => nodes'[n] = nodes[n]
  /\ history'.plan = history.plan /\ history'.crashed = history.crashed /\ history'.uncleaned = history.uncleaned
  /\ Maker(t) <=> Maker(t)'
  /\ Placer(t)' => Placer(t)
  /\ Copier(t)' => Copier(t)
  /\ (Maker(t) => tasks'[t].temp = tasks[t].temp)
  /\ (Maker(t)' \/ Placer(t)' => tasks'[t].node = tasks[t].node)

\* Such a step keeps the invariant, when the call stays sound.
LEMMA OwnStepKeeps ==
  ASSUME ReplaceInv, ReplaceTypeOK', NEW t \in Tasks, OwnStep(t), TaskIsSound(t)', CopiesHaveTheSize'
  PROVE  ReplaceInv'
  <1>1. /\ Remembers /\ Len(nodes') = Len(nodes) /\ Len(nodes) \in Nat
        /\ \A u \in Tasks \ {t} : tasks'[u] = tasks[u]
        /\ \A n \in 1 .. Len(nodes) : n # tasks[t].node => nodes'[n] = nodes[n]
        /\ nodes' = nodes \/ Maker(t) \/ Placer(t)
        /\ history'.plan = history.plan /\ history'.crashed = history.crashed /\ history'.uncleaned = history.uncleaned
    BY DEF OwnStep, ReplaceInv, ReplaceTypeOK
  <1> DEFINE m == IF Maker(t) \/ Placer(t) THEN tasks[t].node ELSE -1
  <1>2. /\ \A n \in 1 .. Len(nodes) : n # m => nodes'[n] = nodes[n]
        /\ Maker(t) \/ Placer(t) => m = tasks[t].node
        /\ ~(Maker(t) \/ Placer(t)) => m = -1
    BY <1>1
  <1>3. PICK k : k = m
    OBVIOUS
  <1>4. /\ \A n \in 1 .. Len(nodes) : n # k => nodes'[n] = nodes[n]
        /\ Maker(t) \/ Placer(t) => k = tasks[t].node
        /\ ~(Maker(t) \/ Placer(t)) => k = -1
    BY <1>2, <1>3
  <1> HIDE DEF m
  <1>5. ASSUME NEW u \in Tasks \ {t}, Maker(u) \/ Copier(u) PROVE tasks[u].node # k
    <2>1. tasks[u].node # -1
      <3>1. tasks[u].node \in Nat
        BY TaskFields
      <3> QED BY <3>1
    <2>2. CASE Maker(t) \/ Placer(t)
      BY <1>4, <1>5, <2>2, OwnFile
    <2>3. CASE ~(Maker(t) \/ Placer(t))
      BY <1>4, <2>1, <2>3
    <2> QED BY <2>2, <2>3
  <1>6. ASSUME NEW u \in Tasks \ {t}, Maker(u)
        PROVE  /\ Dir'[tasks[u].temp] = tasks[u].node
               /\ \A i \in DOMAIN entries' : entries'[i][Dest] # tasks[u].node /\ entries'[i][Source] # tasks[u].node
    <2>1. TemporaryIsOwn(u)
      BY DEF ReplaceInv, TaskIsSound
    <2> QED BY <1>1, <1>6, <2>1 DEF TemporaryIsOwn, Remembers
  <1>7. LeavesOthers({t}, k)
    BY <1>1, <1>4, <1>5, <1>6 DEF LeavesOthers
  <1>8. \A u \in {t} : Maker(u) => \/ Maker(u)' /\ tasks'[u].temp = tasks[u].temp
                               \/ tasks[u].node \in history'.uncleaned
    BY DEF OwnStep
  <1>9. InPlaceCalls \/ \A i \in DOMAIN entries : entries[i][Dest] # k /\ entries[i][Source] # k
    <2>1. TaskIsSound(t)
      BY DEF ReplaceInv
    <2>2. CASE Maker(t)
      BY <1>4, <2>1, <2>2 DEF TaskIsSound, TemporaryIsOwn
    <2>3. CASE Placer(t)
      BY <2>1, <2>3 DEF TaskIsSound, InPlaceIsOpen, Placer, PuttingStages, InPlaceStages
    <2>4. CASE ~Maker(t) /\ ~Placer(t)
      <3>1. \A i \in DOMAIN entries : entries[i][Dest] \in Nat /\ entries[i][Source] \in Nat
        BY NamesDiffer DEF ReplaceInv, ReplaceTypeOK, Directory
      <3>2. k = -1
        BY <1>4, <2>4
      <3> QED BY <3>1, <3>2
    <2> QED BY <2>2, <2>3, <2>4
  <1>10. DirectoryIsSound' /\ EveryMomentIsWhole' /\ TemporariesAreKnown'
    BY <1>1, <1>7, <1>8, <1>9, DirectoryIsKept
  <1>11. ASSUME NEW v \in Tasks PROVE Apart(t, v)' /\ Apart(v, t)'
    <2>1. CASE v = t
      BY <2>1 DEF Apart
    <2>2. CASE v # t
      <3>1. tasks'[v] = tasks[v] /\ Apart(t, v) /\ Apart(v, t)
        BY <1>1, <2>2 DEF ReplaceInv
      <3>2. /\ Maker(v)' <=> Maker(v)
            /\ Placer(v)' <=> Placer(v)
            /\ Copier(v)' <=> Copier(v)
        BY <3>1 DEF Maker, Placer, Copier
      <3> QED BY <2>2, <3>1, <3>2 DEF Apart, OwnStep, Copier
    <2> QED BY <2>1, <2>2
  <1>12. \A u \in {t} : TaskIsSound(u)'
    OBVIOUS
  <1>13. \A u \in {t}, v \in Tasks : Apart(u, v)' /\ Apart(v, u)'
    BY <1>11
  <1> QED BY <1>7, <1>10, <1>12, <1>13, StepKeeps

-----------------------------------------------------------------------------
(* What the steps are made of *)

\* A call's record is replaced by another.
LEMMA TaskReplaced ==
  ASSUME ReplaceTypeOK, NEW t \in Tasks, NEW r \in Task, tasks' = [tasks EXCEPT ![t] = r]
  PROVE  /\ tasks' \in [Tasks -> Task] /\ tasks'[t] = r
         /\ \A u \in Tasks \ {t} : tasks'[u] = tasks[u]
  BY DEF ReplaceTypeOK

\* A call goes on to another stage.
LEMMA StageReached ==
  ASSUME ReplaceTypeOK, NEW t \in Tasks, NEW p \in {"idle"} \cup AtomicStages \cup InPlaceStages,
         tasks' = [tasks EXCEPT ![t].pc = p]
  PROVE  /\ tasks' \in [Tasks -> Task] /\ tasks'[t].pc = p
         /\ tasks'[t].kind = tasks[t].kind /\ tasks'[t].data = tasks[t].data /\ tasks'[t].replace = tasks[t].replace
         /\ tasks'[t].flush = tasks[t].flush /\ tasks'[t].temp = tasks[t].temp /\ tasks'[t].node = tasks[t].node
         /\ tasks'[t].from = tasks[t].from /\ tasks'[t].done = tasks[t].done /\ tasks'[t].size = tasks[t].size
         /\ \A u \in Tasks \ {t} : tasks'[u] = tasks[u]
  <1>1. tasks[t] \in Task /\ tasks \in [Tasks -> Task]
    BY DEF ReplaceTypeOK
  <1>2. PICK r : r = [tasks[t] EXCEPT !.pc = p]
    OBVIOUS
  <1>3. r \in Task
    BY <1>1, <1>2 DEF Task
  <1>4. tasks' = [tasks EXCEPT ![t] = r]
    BY <1>1, <1>2
  <1>5. /\ tasks' \in [Tasks -> Task] /\ tasks'[t] = r
        /\ \A u \in Tasks \ {t} : tasks'[u] = tasks[u]
    BY <1>3, <1>4, TaskReplaced
  <1>6. /\ r.pc = p /\ r.kind = tasks[t].kind /\ r.data = tasks[t].data /\ r.replace = tasks[t].replace
        /\ r.flush = tasks[t].flush /\ r.temp = tasks[t].temp /\ r.node = tasks[t].node
        /\ r.from = tasks[t].from /\ r.done = tasks[t].done /\ r.size = tasks[t].size
    BY <1>1, <1>2 DEF Task
  <1> QED BY <1>5, <1>6

\* The idle call has the type of a call.
LEMMA IdleTyped == /\ IdleTask \in Task /\ IdleTask.kind = "idle" /\ IdleTask.pc = "idle"
  BY DEF IdleTask, Task, None

\* An idle call is sound.
LEMMA IdleIsSound ==
  ASSUME NEW t, tasks[t] = IdleTask
  PROVE  TaskIsSound(t) /\ ~Maker(t) /\ ~Placer(t) /\ ~Copier(t)
  <1>1. tasks[t].kind = "idle" /\ tasks[t].pc = "idle"
    BY IdleTyped
  <1> QED BY <1>1 DEF TaskIsSound, StageOfKind, NothingDone, TemporaryIsOwn, TemporaryIsWhole, CopyIsExact, InPlaceIsOpen, Maker,
                      Placer, Copier, MakingStages, PuttingStages, InPlaceStages, AtomicStages

\* A call ends.
LEMMA Ended ==
  ASSUME ReplaceTypeOK, NEW t \in Tasks, End(t)
  PROVE  /\ tasks' \in [Tasks -> Task] /\ tasks'[t] = IdleTask
         /\ \A u \in Tasks \ {t} : tasks'[u] = tasks[u]
         /\ TaskIsSound(t)' /\ ~Maker(t)' /\ ~Placer(t)' /\ ~Copier(t)'
  <1>1. /\ tasks' \in [Tasks -> Task] /\ tasks'[t] = IdleTask
        /\ \A u \in Tasks \ {t} : tasks'[u] = tasks[u]
    BY IdleTyped, TaskReplaced DEF End
  <1>2. (tasks[t] = IdleTask)'
    BY <1>1 DEF IdleTask, None
  <1>3. (TaskIsSound(t) /\ ~Maker(t) /\ ~Placer(t) /\ ~Copier(t))'
    BY <1>2, IdleIsSound, PTL
  <1> QED BY <1>1, <1>3

\* A step changes no file but one.
OnlyFileChanges(n) ==
  /\ nodes' \in Seq(File) /\ Len(nodes') = Len(nodes)
  /\ \A k \in 1 .. Len(nodes) : k # n => nodes'[k] = nodes[k]

\* A file is changed.
LEMMA FileReplaced ==
  ASSUME ReplaceTypeOK, NEW n \in 1 .. Len(nodes), NEW f \in File, nodes' = [nodes EXCEPT ![n] = f]
  PROVE  OnlyFileChanges(n) /\ nodes'[n] = f
  BY DEF ReplaceTypeOK, OnlyFileChanges

\* A file is no longer held.
LEMMA Dropped ==
  ASSUME ReplaceTypeOK, NEW n \in 1 .. Len(nodes), nodes' = Drop(n)
  PROVE  /\ OnlyFileChanges(n)
         /\ nodes'[n].data = nodes[n].data /\ nodes'[n].synced = nodes[n].synced /\ nodes'[n].whole = nodes[n].whole
  <1>1. nodes[n] \in File /\ nodes \in Seq(File)
    BY FileFields DEF ReplaceTypeOK
  <1>2. PICK f : f = [nodes[n] EXCEPT !.holder = None]
    OBVIOUS
  <1>3. f \in File /\ f.data = nodes[n].data /\ f.synced = nodes[n].synced /\ f.whole = nodes[n].whole
    BY <1>1, <1>2 DEF File, None
  <1>4. nodes' = [nodes EXCEPT ![n] = f]
    BY <1>1, <1>2 DEF Drop, None
  <1> QED BY <1>3, <1>4, FileReplaced

\* Requests are typed.
LEMMA RequestTyped ==
  ASSUME ReplaceTypeOK, NEW request \in Requests
  PROVE  /\ request.kind \in {"atomic", "write", "append", "copy", "move", "remove", "shrink"}
         /\ request.data \in Seq(Int) /\ request.replace \in BOOLEAN /\ request.flush \in BOOLEAN
         /\ request.flushParent \in BOOLEAN
  <1>1. history.plan \in Plans
    BY DEF ReplaceTypeOK, History
  <1>2. request \in [kind : {"atomic", "write", "append", "copy", "move", "remove", "shrink"}, data : Seq(Int),
                     replace : BOOLEAN, flush : BOOLEAN, flushParent : BOOLEAN]
    BY <1>1, FileReplacementAssumption DEF Requests
  <1> QED BY <1>2

\* A directory that is not touched forgets nothing.
LEMMA UntouchedRemembers ==
  ASSUME entries' = entries
  PROVE  Remembers
  BY DEF Remembers, Dir

\* The stage of a call tells its kind.
LEMMA KindOfStage ==
  ASSUME ReplaceInv, NEW t \in Tasks
  PROVE  /\ tasks[t].kind = "idle" <=> tasks[t].pc = "idle"
         /\ tasks[t].kind = "atomic" <=> tasks[t].pc \in AtomicStages
         /\ tasks[t].kind \in {"write", "append", "copy"} <=> tasks[t].pc \in InPlaceStages
         /\ tasks[t].pc = "idle" => ~Maker(t) /\ ~Placer(t) /\ ~Copier(t)
  <1>1. StageOfKind(tasks[t]) /\ tasks[t].pc \in {"idle"} \cup AtomicStages \cup InPlaceStages
        /\ tasks[t].kind \in {"idle", "atomic", "write", "append", "copy"}
    BY TaskFields DEF TaskIsSound
  <1> QED BY <1>1 DEF StageOfKind, AtomicStages, InPlaceStages, MakingStages, PuttingStages, Maker, Placer, Copier

-----------------------------------------------------------------------------
(* The steps of atomic writes before the move *)

\* The call ends, and had no temporary file.
LEMMA EndingKeeps ==
  ASSUME ReplaceInv, NEW t \in Tasks, ~Maker(t), End(t), Remembers, nodes' = nodes, UNCHANGED history,
         entries' \in Seq(Directory), entries' # <<>>
  PROVE  ReplaceInv'
  <1>1. /\ tasks' \in [Tasks -> Task] /\ tasks'[t] = IdleTask
        /\ \A u \in Tasks \ {t} : tasks'[u] = tasks[u]
        /\ TaskIsSound(t)' /\ ~Maker(t)' /\ ~Placer(t)' /\ ~Copier(t)'
    BY Ended DEF ReplaceInv
  <1>2. ReplaceTypeOK' /\ CopiesHaveTheSize'
    BY <1>1 DEF ReplaceInv, ReplaceTypeOK, CopiesHaveTheSize
  <1>3. OwnStep(t)
    BY <1>1 DEF OwnStep
  <1> QED BY <1>1, <1>2, <1>3, OwnStepKeeps

\* The record of a new call.
LEMMA NewCallTyped ==
  ASSUME ReplaceTypeOK, NEW request \in Requests, request.kind \in {"atomic", "write", "append", "copy"},
         NEW pc \in AtomicStages \cup InPlaceStages, NEW from \in Nat, NEW size \in Nat
  PROVE  /\ NewCall(request, pc, from, size) \in Task
         /\ NewCall(request, pc, from, size).kind = request.kind
         /\ NewCall(request, pc, from, size).pc = pc
         /\ NewCall(request, pc, from, size).flush = request.flush
         /\ NewCall(request, pc, from, size).done = 0
  <1>1. /\ request.data \in Seq(Int) /\ request.replace \in BOOLEAN /\ request.flush \in BOOLEAN
        /\ request.flushParent \in BOOLEAN
    BY RequestTyped
  <1> QED BY <1>1 DEF NewCall, Task, None

\* BeginAtomic keeps the invariant.
LEMMA BeginAtomicKeeps ==
  ASSUME ReplaceInv, NEW t \in Tasks, NEW request \in Requests, BeginAtomic(t, request)
  PROVE  ReplaceInv'
  <1>1. /\ tasks[t].pc = "idle" /\ ~Maker(t) /\ ~Placer(t) /\ request.kind = "atomic"
        /\ UNCHANGED <<nodes, entries, history>>
    BY KindOfStage DEF BeginAtomic
  <1>2. PICK r : r = NewCall(request, "naming", None, 0)
    OBVIOUS
  <1>3. tasks' = [tasks EXCEPT ![t] = r]
    BY <1>2 DEF BeginAtomic
  <1>4. r \in Task /\ r.kind = "atomic" /\ r.pc = "naming" /\ r.flush = request.flush /\ r.done = 0
    <2>1. "naming" \in AtomicStages /\ None \in Nat /\ 0 \in Nat
      BY DEF AtomicStages, None
    <2> QED BY <1>1, <1>2, <2>1, NewCallTyped DEF ReplaceInv
  <1>5. /\ tasks' \in [Tasks -> Task] /\ tasks'[t] = r
        /\ \A u \in Tasks \ {t} : tasks'[u] = tasks[u]
    BY <1>3, <1>4, TaskReplaced DEF ReplaceInv
  <1>6. ReplaceTypeOK' /\ CopiesHaveTheSize'
    BY <1>1, <1>5 DEF ReplaceInv, ReplaceTypeOK, CopiesHaveTheSize
  <1>7. ~Maker(t)' /\ ~Placer(t)' /\ ~Copier(t)'
    BY <1>4, <1>5 DEF Maker, Placer, Copier, MakingStages, PuttingStages
  <1>8. TaskIsSound(t)'
    <2>1. UnflushedCalls' \/ r.flush
      BY <1>1, <1>4, RequestTyped DEF UnflushedCalls, Requests, ReplaceInv
    <2>2. StageOfKind(r) /\ NothingDone(t)'
      BY <1>4, <1>5 DEF StageOfKind, AtomicStages, InPlaceStages, NothingDone
    <2>3. TemporaryIsWhole(t)'
      BY <1>4, <1>5, <2>1 DEF TemporaryIsWhole
    <2>4. TemporaryIsOwn(t)' /\ CopyIsExact(t)' /\ InPlaceIsOpen(t)'
      BY <1>4, <1>5, <1>7 DEF TemporaryIsOwn, CopyIsExact, InPlaceIsOpen, InPlaceStages
    <2> QED BY <1>5, <2>2, <2>3, <2>4 DEF TaskIsSound
  <1>9. OwnStep(t)
    BY <1>1, <1>5, <1>7, UntouchedRemembers DEF OwnStep
  <1> QED BY <1>6, <1>8, <1>9, OwnStepKeeps

\* A step of a call that has a temporary file, and goes on with it.
Making(t) ==
  /\ UNCHANGED <<entries, history>>
  /\ \A u \in Tasks \ {t} : tasks'[u] = tasks[u]
  /\ OnlyFileChanges(tasks[t].node)
  /\ Maker(t) /\ Maker(t)'
  /\ tasks'[t].temp = tasks[t].temp /\ tasks'[t].node = tasks[t].node /\ tasks'[t].kind = "atomic"
  /\ tasks'[t].flush = tasks[t].flush

\* Such a step keeps the invariant, when the temporary file stays as whole as it is to be.
LEMMA MakingKeeps ==
  ASSUME ReplaceInv, NEW t \in Tasks, Making(t), tasks' \in [Tasks -> Task],
         tasks'[t].pc = "writing" => tasks'[t].done < Len(tasks'[t].data),
         tasks'[t].pc \in {"flushing", "closing", "moving"} => nodes'[tasks[t].node].whole,
         tasks'[t].pc \in {"closing", "moving"} => UnflushedCalls \/ nodes'[tasks[t].node].synced
  PROVE  ReplaceInv'
  <1>1. ReplaceTypeOK' /\ CopiesHaveTheSize'
    BY DEF Making, OnlyFileChanges, ReplaceInv, ReplaceTypeOK, CopiesHaveTheSize
  <1>2. /\ ~Placer(t)' /\ ~Copier(t)' /\ tasks[t].kind = "atomic"
    BY KindOfStage DEF Making, Maker, Placer, Copier, MakingStages, PuttingStages, AtomicStages
  <1>3. OwnStep(t)
    BY <1>2, UntouchedRemembers DEF OwnStep, Making, OnlyFileChanges
  <1>4. TaskIsSound(t)'
    <2>1. TaskIsSound(t)
      BY DEF ReplaceInv
    <2>2. (UnflushedCalls' <=> UnflushedCalls) /\ Dir' = Dir
      BY DEF Making, UnflushedCalls, Requests, Dir
    <2>3. StageOfKind(tasks[t])' /\ NothingDone(t)'
      BY DEF Making, Maker, MakingStages, StageOfKind, AtomicStages, InPlaceStages, NothingDone
    <2>4. TemporaryIsOwn(t)'
      BY <2>1, <2>2 DEF TaskIsSound, TemporaryIsOwn, Making, OnlyFileChanges
    <2>5. TemporaryIsWhole(t)'
      BY <1>2, <2>1, <2>2 DEF TaskIsSound, TemporaryIsWhole, Making
    <2>6. CopyIsExact(t)' /\ InPlaceIsOpen(t)'
      BY <1>2 DEF CopyIsExact, InPlaceIsOpen, Making, Maker, MakingStages, InPlaceStages
    <2> QED BY <2>3, <2>4, <2>5, <2>6 DEF TaskIsSound
  <1> QED BY <1>1, <1>3, <1>4, OwnStepKeeps

\* The temporary file of a call.
LEMMA TemporaryOf ==
  ASSUME ReplaceInv, NEW t \in Tasks, Maker(t)
  PROVE  /\ tasks[t].node \in 1 .. Len(nodes) /\ tasks[t].node >= 4 /\ tasks[t].kind = "atomic"
         /\ tasks[t].temp \in TempNames
  <1>1. TaskIsSound(t) /\ Len(nodes) \in Nat
    BY DEF ReplaceInv, ReplaceTypeOK
  <1>2. tasks[t].kind = "atomic"
    BY KindOfStage DEF Maker, MakingStages, AtomicStages
  <1> QED BY <1>1, <1>2 DEF TaskIsSound, TemporaryIsOwn

\* A call with a temporary file reaches another stage with it.
LEMMA MakerAt ==
  ASSUME ReplaceInv, NEW t \in Tasks, Maker(t), NEW p \in MakingStages, tasks' = [tasks EXCEPT ![t].pc = p],
         UNCHANGED <<entries, history>>, OnlyFileChanges(tasks[t].node)
  PROVE  Making(t) /\ tasks'[t].pc = p /\ tasks' \in [Tasks -> Task]
  <1>1. p \in {"idle"} \cup AtomicStages \cup InPlaceStages
    BY DEF AtomicStages
  <1>2. /\ tasks' \in [Tasks -> Task] /\ tasks'[t].pc = p /\ tasks'[t].kind = tasks[t].kind
        /\ tasks'[t].temp = tasks[t].temp /\ tasks'[t].node = tasks[t].node /\ tasks'[t].flush = tasks[t].flush
        /\ \A u \in Tasks \ {t} : tasks'[u] = tasks[u]
    BY <1>1, StageReached DEF ReplaceInv
  <1>3. Maker(t)'
    BY <1>2 DEF Maker
  <1> QED BY <1>2, <1>3, TemporaryOf DEF Making

\* Giving up keeps the invariant: the file is closed and the call goes on to remove it.
LEMMA GivingUpKeeps ==
  ASSUME ReplaceInv, NEW t \in Tasks, Maker(t), tasks' = [tasks EXCEPT ![t].pc = "cleaning"],
         nodes' = Drop(tasks[t].node) \/ nodes' = nodes, UNCHANGED <<entries, history>>
  PROVE  ReplaceInv'
  <1>1. OnlyFileChanges(tasks[t].node)
    <2>1. CASE nodes' = nodes
      BY <2>1 DEF ReplaceInv, ReplaceTypeOK, OnlyFileChanges
    <2>2. CASE nodes' = Drop(tasks[t].node)
      BY <2>2, Dropped, TemporaryOf DEF ReplaceInv
    <2> QED BY <2>1, <2>2
  <1>2. "cleaning" \in MakingStages
    BY DEF MakingStages
  <1>3. Making(t) /\ tasks'[t].pc = "cleaning" /\ tasks' \in [Tasks -> Task]
    BY <1>1, <1>2, MakerAt
  <1> QED BY <1>3, MakingKeeps

\* Going on to the next stage keeps the invariant, when the file is as whole as that stage needs.
LEMMA GoingOnKeeps ==
  ASSUME ReplaceInv, NEW t \in Tasks, Maker(t), NEW p \in {"closing", "moving"},
         tasks' = [tasks EXCEPT ![t].pc = p], UNCHANGED <<entries, history>>, OnlyFileChanges(tasks[t].node),
         nodes'[tasks[t].node].whole, UnflushedCalls \/ nodes'[tasks[t].node].synced
  PROVE  ReplaceInv'
  <1>1. p \in MakingStages
    BY DEF MakingStages
  <1>2. Making(t) /\ tasks'[t].pc = p /\ tasks' \in [Tasks -> Task]
    BY <1>1, MakerAt
  <1> QED BY <1>2, MakingKeeps

\* What a call that writes its temporary file knows.
LEMMA WriterKnows ==
  ASSUME ReplaceInv, NEW t \in Tasks, tasks[t].pc \in {"writing", "flushing", "closing", "moving"}
  PROVE  /\ Maker(t) /\ tasks[t].node \in 1 .. Len(nodes) /\ nodes[tasks[t].node] \in File
         /\ tasks[t].pc = "writing" => tasks[t].done + 1 \in 1 .. Len(tasks[t].data)
         /\ tasks[t].pc # "writing" => nodes[tasks[t].node].whole
         /\ tasks[t].pc \in {"closing", "moving"} => UnflushedCalls \/ nodes[tasks[t].node].synced
         /\ UnflushedCalls \/ tasks[t].flush
  <1>1. Maker(t)
    BY DEF Maker, MakingStages
  <1>2. tasks[t].node \in 1 .. Len(nodes) /\ tasks[t].kind = "atomic"
    BY <1>1, TemporaryOf
  <1>3. nodes[tasks[t].node] \in File
    BY <1>2, FileFields DEF ReplaceInv
  <1>4. TemporaryIsWhole(t) /\ tasks[t].done \in Nat /\ Len(tasks[t].data) \in Nat
    BY TaskFields DEF TaskIsSound
  <1>5. tasks[t].pc = "writing" => tasks[t].done + 1 \in 1 .. Len(tasks[t].data)
    BY <1>4 DEF TemporaryIsWhole
  <1>6. /\ tasks[t].pc # "writing" => nodes[tasks[t].node].whole
        /\ tasks[t].pc \in {"closing", "moving"} => UnflushedCalls \/ nodes[tasks[t].node].synced
        /\ UnflushedCalls \/ tasks[t].flush
    BY <1>2, <1>4 DEF TemporaryIsWhole
  <1> QED BY <1>1, <1>2, <1>3, <1>5, <1>6

\* A file is written.
LEMMA WrittenTyped ==
  ASSUME NEW f \in File, NEW data \in Seq(Int), NEW whole \in BOOLEAN
  PROVE  /\ Rewritten(f, data, whole) \in File /\ Rewritten(f, data, whole).data = data
         /\ Rewritten(f, data, whole).whole = whole /\ Rewritten(f, data, whole).holder = f.holder
  BY DEF Rewritten, File

\* A call that writes is one byte further.
LEMMA WriteCounted ==
  ASSUME ReplaceTypeOK, NEW t \in Tasks, NEW p \in {"idle"} \cup AtomicStages \cup InPlaceStages,
         tasks' = [tasks EXCEPT ![t] = OneMore(@, p)]
  PROVE  /\ tasks' \in [Tasks -> Task] /\ tasks'[t].pc = p /\ tasks'[t].done = tasks[t].done + 1
         /\ tasks'[t].kind = tasks[t].kind /\ tasks'[t].data = tasks[t].data /\ tasks'[t].temp = tasks[t].temp
         /\ tasks'[t].node = tasks[t].node /\ tasks'[t].flush = tasks[t].flush /\ tasks'[t].from = tasks[t].from
         /\ tasks'[t].size = tasks[t].size
         /\ \A u \in Tasks \ {t} : tasks'[u] = tasks[u]
  <1>1. tasks[t] \in Task /\ tasks \in [Tasks -> Task] /\ tasks[t].done \in Nat
    BY DEF ReplaceTypeOK, Task
  <1>2. PICK r : r = OneMore(tasks[t], p)
    OBVIOUS
  <1>3. r \in Task
    <2>1. tasks[t].done + 1 \in Nat
      BY <1>1
    <2> QED BY <1>1, <1>2, <2>1 DEF Task, OneMore
  <1>4. tasks' = [tasks EXCEPT ![t] = r]
    BY <1>1, <1>2
  <1>5. /\ tasks' \in [Tasks -> Task] /\ tasks'[t] = r
        /\ \A u \in Tasks \ {t} : tasks'[u] = tasks[u]
    BY <1>3, <1>4, TaskReplaced
  <1>6. /\ r.pc = p /\ r.kind = tasks[t].kind /\ r.data = tasks[t].data /\ r.temp = tasks[t].temp
        /\ r.flush = tasks[t].flush /\ r.node = tasks[t].node /\ r.from = tasks[t].from
        /\ r.done = tasks[t].done + 1 /\ r.size = tasks[t].size
    BY <1>1, <1>2 DEF Task, OneMore
  <1> QED BY <1>5, <1>6

\* WriteTemporary keeps the invariant.
LEMMA WriteTemporaryKeeps ==
  ASSUME ReplaceInv, NEW t \in Tasks, WriteTemporary(t)
  PROVE  ReplaceInv'
  <1> DEFINE last == tasks[t].done + 1 = Len(tasks[t].data)
  <1>1. PICK n, byte : n = tasks[t].node /\ byte = tasks[t].data[tasks[t].done + 1]
    OBVIOUS
  <1>2. /\ tasks[t].pc = "writing" /\ UNCHANGED <<entries, history>>
        /\ \/ /\ nodes' = [nodes EXCEPT ![n] = Rewritten(@, Append(@.data, byte), last)]
              /\ tasks' = [tasks EXCEPT ![t] = OneMore(@, IF last THEN "flushing" ELSE "writing")]
           \/ nodes' = Drop(n) /\ tasks' = [tasks EXCEPT ![t].pc = "cleaning"]
    BY <1>1 DEF WriteTemporary
  <1> HIDE DEF last
  <1>3. /\ Maker(t) /\ n \in 1 .. Len(nodes) /\ nodes[n] \in File /\ tasks[t].done + 1 \in 1 .. Len(tasks[t].data)
    BY <1>1, <1>2, WriterKnows
  <1>4. tasks[t].data \in Seq(Int) /\ Len(tasks[t].data) \in Nat /\ tasks[t].done \in Nat /\ nodes[n].data \in Seq(Int)
        /\ nodes \in Seq(File)
    BY <1>3, TaskFields, FileFields DEF ReplaceInv, ReplaceTypeOK
  <1>5. CASE /\ nodes' = [nodes EXCEPT ![n] = Rewritten(@, Append(@.data, byte), last)]
             /\ tasks' = [tasks EXCEPT ![t] = OneMore(@, IF last THEN "flushing" ELSE "writing")]
    <2>1. PICK f, p : f = Rewritten(nodes[n], Append(nodes[n].data, byte), last) /\ p = IF last THEN "flushing" ELSE "writing"
      OBVIOUS
    <2>2. byte \in Int
      <3>1. PICK d, i : d = tasks[t].data /\ i = tasks[t].done + 1
        OBVIOUS
      <3>2. d \in Seq(Int) /\ i \in 1 .. Len(d) /\ byte = d[i]
        BY <1>1, <1>3, <1>4, <3>1
      <3> QED BY <3>2
    <2>3. f \in File /\ f.whole = last
      <3>1. Append(nodes[n].data, byte) \in Seq(Int) /\ last \in BOOLEAN
        BY <1>4, <2>2 DEF last
      <3> QED BY <1>3, <2>1, <3>1, WrittenTyped
    <2>4. OnlyFileChanges(n) /\ nodes'[n] = f
      <3>1. nodes' = [nodes EXCEPT ![n] = f]
        BY <1>3, <1>4, <1>5, <2>1
      <3> QED BY <1>3, <2>3, <3>1, FileReplaced DEF ReplaceInv
    <2>5. /\ tasks' \in [Tasks -> Task] /\ tasks'[t].pc = p /\ tasks'[t].done = tasks[t].done + 1
          /\ tasks'[t].kind = tasks[t].kind /\ tasks'[t].data = tasks[t].data /\ tasks'[t].temp = tasks[t].temp
          /\ tasks'[t].node = tasks[t].node /\ tasks'[t].flush = tasks[t].flush
          /\ \A u \in Tasks \ {t} : tasks'[u] = tasks[u]
      <3>1. p \in {"idle"} \cup AtomicStages \cup InPlaceStages
        BY <2>1 DEF AtomicStages, MakingStages
      <3>2. tasks' = [tasks EXCEPT ![t] = OneMore(@, p)]
        BY <1>5, <2>1
      <3> QED BY <3>1, <3>2, WriteCounted DEF ReplaceInv
    <2>6. Maker(t)'
      BY <2>1, <2>5 DEF Maker, MakingStages
    <2>7. Making(t)
      BY <1>1, <1>2, <1>3, <2>4, <2>5, <2>6, TemporaryOf DEF Making
    <2>8. tasks'[t].pc = "writing" => tasks'[t].done < Len(tasks'[t].data)
      BY <1>3, <1>4, <2>1, <2>5 DEF last
    <2>9. ~ tasks'[t].pc \in {"closing", "moving"} /\ (tasks'[t].pc = "flushing" => nodes'[n].whole)
      BY <2>1, <2>3, <2>4, <2>5
    <2> QED BY <1>1, <2>5, <2>7, <2>8, <2>9, MakingKeeps
  <1>6. CASE nodes' = Drop(n) /\ tasks' = [tasks EXCEPT ![t].pc = "cleaning"]
    BY <1>1, <1>2, <1>3, <1>6, GivingUpKeeps
  <1> QED BY <1>2, <1>5, <1>6

\* FlushTemporary keeps the invariant.
LEMMA FlushTemporaryKeeps ==
  ASSUME ReplaceInv, NEW t \in Tasks, FlushTemporary(t)
  PROVE  ReplaceInv'
  <1>1. PICK n : n = tasks[t].node
    OBVIOUS
  <1>2. /\ tasks[t].pc = "flushing" /\ UNCHANGED <<entries, history>>
        /\ \/ /\ nodes' = IF tasks[t].flush THEN Synced(n) ELSE nodes
              /\ tasks' = [tasks EXCEPT ![t].pc = "closing"]
           \/ tasks' = [tasks EXCEPT ![t].pc = "cleaning"] /\ nodes' = Drop(n)
    BY <1>1 DEF FlushTemporary, AfterFlushFailure
  <1>3. /\ Maker(t) /\ n \in 1 .. Len(nodes) /\ nodes[n] \in File /\ nodes[n].whole /\ (UnflushedCalls \/ tasks[t].flush)
        /\ nodes \in Seq(File)
    BY <1>1, <1>2, WriterKnows DEF ReplaceInv, ReplaceTypeOK
  <1>4. CASE /\ nodes' = IF tasks[t].flush THEN Synced(n) ELSE nodes
             /\ tasks' = [tasks EXCEPT ![t].pc = "closing"]
    <2>1. OnlyFileChanges(n) /\ nodes'[n].whole /\ (UnflushedCalls \/ nodes'[n].synced)
      <3>1. CASE tasks[t].flush
        <4>1. PICK f : f = [nodes[n] EXCEPT !.synced = TRUE]
          OBVIOUS
        <4>2. f \in File /\ f.synced /\ f.whole
          BY <1>3, <4>1 DEF File
        <4>3. nodes' = [nodes EXCEPT ![n] = f]
          BY <1>3, <1>4, <3>1, <4>1 DEF Synced
        <4> QED BY <1>3, <4>2, <4>3, FileReplaced DEF ReplaceInv
      <3>2. CASE ~tasks[t].flush
        BY <1>3, <1>4, <3>2 DEF OnlyFileChanges
      <3> QED BY <3>1, <3>2
    <2> QED BY <1>1, <1>2, <1>3, <1>4, <2>1, GoingOnKeeps
  <1>5. CASE tasks' = [tasks EXCEPT ![t].pc = "cleaning"] /\ nodes' = Drop(n)
    BY <1>1, <1>2, <1>3, <1>5, GivingUpKeeps
  <1> QED BY <1>2, <1>4, <1>5

\* CloseTemporary keeps the invariant.
LEMMA CloseTemporaryKeeps ==
  ASSUME ReplaceInv, NEW t \in Tasks, CloseTemporary(t)
  PROVE  ReplaceInv'
  <1>1. PICK n : n = tasks[t].node
    OBVIOUS
  <1>2. /\ tasks[t].pc = "closing" /\ UNCHANGED <<entries, history>>
        /\ \/ nodes' = Drop(n) /\ tasks' = [tasks EXCEPT ![t].pc = "moving"]
           \/ tasks' = [tasks EXCEPT ![t].pc = "cleaning"] /\ nodes' = nodes
    BY <1>1 DEF CloseTemporary
  <1>3. /\ Maker(t) /\ n \in 1 .. Len(nodes) /\ nodes[n] \in File /\ nodes[n].whole
        /\ (UnflushedCalls \/ nodes[n].synced)
    BY <1>1, <1>2, WriterKnows
  <1>4. CASE nodes' = Drop(n) /\ tasks' = [tasks EXCEPT ![t].pc = "moving"]
    <2>1. OnlyFileChanges(n) /\ nodes'[n].whole /\ (UnflushedCalls \/ nodes'[n].synced)
      <3>1. OnlyFileChanges(n) /\ nodes'[n].whole = nodes[n].whole /\ nodes'[n].synced = nodes[n].synced
        BY <1>3, <1>4, Dropped DEF ReplaceInv
      <3> QED BY <1>3, <3>1
    <2> QED BY <1>1, <1>2, <1>3, <1>4, <2>1, GoingOnKeeps
  <1>5. CASE tasks' = [tasks EXCEPT ![t].pc = "cleaning"] /\ nodes' = nodes
    BY <1>1, <1>2, <1>3, <1>5, GivingUpKeeps
  <1> QED BY <1>2, <1>4, <1>5

\* FlushParent keeps the invariant.
LEMMA FlushParentKeeps ==
  ASSUME ReplaceInv, NEW t \in Tasks, FlushParent(t)
  PROVE  ReplaceInv'
  <1>1. /\ tasks[t].pc = "parent" /\ ~Maker(t) /\ End(t) /\ UNCHANGED <<nodes, history>>
        /\ entries' = <<Dir>> \/ entries' = entries
    BY DEF FlushParent, Maker, MakingStages
  <1>2. /\ entries' \in Seq(Directory) /\ entries' # <<>> /\ Remembers
    <2>1. CASE entries' = entries
      BY <2>1, UntouchedRemembers DEF ReplaceInv, ReplaceTypeOK
    <2>2. CASE entries' = <<Dir>>
      <3>1. Len(entries) \in DOMAIN entries /\ entries[Len(entries)] = Dir /\ Dir \in Directory
        BY PresentIsAMoment DEF ReplaceInv
      <3>2. PICK d : d = Dir
        OBVIOUS
      <3>3. entries' = <<d>> /\ d \in Directory
        BY <2>2, <3>1, <3>2
      <3>4. entries' \in Seq(Directory) /\ entries' # <<>> /\ DOMAIN entries' = {1} /\ entries'[1] = d /\ Len(entries') = 1
        BY <3>3
      <3>5. Dir' = d
        BY <3>4 DEF Dir, Last
      <3> QED BY <3>1, <3>2, <3>4, <3>5 DEF Remembers
    <2> QED BY <1>1, <2>1, <2>2
  <1> QED BY <1>1, <1>2, EndingKeeps

-----------------------------------------------------------------------------
(* The steps of calls in place *)

\* What a call that has its destination open knows.
LEMMA PlacerKnows ==
  ASSUME ReplaceInv, NEW t \in Tasks, Placer(t)
  PROVE  /\ ~Maker(t) /\ tasks[t].kind \in {"write", "append", "copy"} /\ InPlaceCalls
         /\ tasks[t].node \in 1 .. Len(nodes) /\ nodes[tasks[t].node] \in File
         /\ nodes[tasks[t].node].data \in Seq(Int) /\ CopyIsExact(t)
         /\ tasks[t].pc = "putting" /\ tasks[t].kind # "copy" => tasks[t].done + 1 \in 1 .. Len(tasks[t].data)
         /\ tasks[t].kind = "copy" => tasks[t].from \in 1 .. Len(nodes)
  <1>1. TaskIsSound(t) /\ tasks[t].done \in Nat /\ Len(tasks[t].data) \in Nat
    BY TaskFields
  <1>2. tasks[t].pc \in InPlaceStages /\ ~Maker(t)
    BY DEF Placer, PuttingStages, InPlaceStages, Maker, MakingStages
  <1>3. tasks[t].kind \in {"write", "append", "copy"}
    BY <1>2, KindOfStage
  <1>4. tasks[t].node \in 1 .. Len(nodes) /\ InPlaceCalls
    BY <1>1, <1>2 DEF TaskIsSound, InPlaceIsOpen
  <1>5. nodes[tasks[t].node] \in File /\ nodes[tasks[t].node].data \in Seq(Int)
    BY <1>4, FileFields DEF ReplaceInv
  <1>6. tasks[t].pc = "putting" /\ tasks[t].kind # "copy" => tasks[t].done < Len(tasks[t].data)
    BY <1>1 DEF TaskIsSound, InPlaceIsOpen
  <1>7. tasks[t].kind = "copy" => tasks[t].from \in 1 .. Len(nodes)
    BY <1>1 DEF TaskIsSound, InPlaceIsOpen, Copier
  <1>8. ASSUME tasks[t].pc = "putting", tasks[t].kind # "copy" PROVE tasks[t].done + 1 \in 1 .. Len(tasks[t].data)
    <2>1. PICK done, length : done = tasks[t].done /\ length = Len(tasks[t].data)
      OBVIOUS
    <2>2. done \in Nat /\ length \in Nat /\ done < length
      BY <1>1, <1>6, <1>8, <2>1
    <2>3. done + 1 \in 1 .. length
      BY <2>2
    <2> QED BY <2>1, <2>3
  <1> QED BY <1>1, <1>2, <1>3, <1>4, <1>5, <1>7, <1>8 DEF TaskIsSound

\* The call ends, and has changed no file but its own.
LEMMA StoppingKeeps ==
  ASSUME ReplaceInv, NEW t \in Tasks, Placer(t), End(t), OnlyFileChanges(tasks[t].node), UNCHANGED entries,
         history' \in History, history'.plan = history.plan, history'.crashed = history.crashed,
         history'.uncleaned = history.uncleaned, CopiesHaveTheSize'
  PROVE  ReplaceInv'
  <1>1. /\ tasks' \in [Tasks -> Task] /\ tasks'[t] = IdleTask
        /\ \A u \in Tasks \ {t} : tasks'[u] = tasks[u]
        /\ TaskIsSound(t)' /\ ~Maker(t)' /\ ~Placer(t)' /\ ~Copier(t)'
    BY Ended DEF ReplaceInv
  <1>2. ReplaceTypeOK'
    BY <1>1 DEF ReplaceInv, ReplaceTypeOK, OnlyFileChanges
  <1>3. OwnStep(t)
    BY <1>1, PlacerKnows, UntouchedRemembers DEF OwnStep, OnlyFileChanges
  <1> QED BY <1>1, <1>2, <1>3, OwnStepKeeps

\* A step of a call that has its destination open, and goes on with it.
Placing(t) ==
  /\ UNCHANGED <<entries, history>>
  /\ \A u \in Tasks \ {t} : tasks'[u] = tasks[u]
  /\ OnlyFileChanges(tasks[t].node)
  /\ Placer(t) /\ Placer(t)'
  /\ tasks'[t].node = tasks[t].node /\ tasks'[t].kind = tasks[t].kind /\ tasks'[t].from = tasks[t].from

\* Such a step keeps the invariant, when a copy stays as long as it is to be.
LEMMA PlacingKeeps ==
  ASSUME ReplaceInv, NEW t \in Tasks, Placing(t), tasks' \in [Tasks -> Task], CopyIsExact(t)',
         tasks'[t].pc = "putting" /\ tasks'[t].kind # "copy" => tasks'[t].done < Len(tasks'[t].data)
  PROVE  ReplaceInv'
  <1>1. ReplaceTypeOK' /\ CopiesHaveTheSize'
    BY DEF Placing, OnlyFileChanges, ReplaceInv, ReplaceTypeOK, CopiesHaveTheSize
  <1>2. /\ ~Maker(t) /\ ~Maker(t)' /\ tasks[t].kind \in {"write", "append", "copy"} /\ InPlaceCalls
        /\ tasks[t].node \in 1 .. Len(nodes) /\ (tasks[t].kind = "copy" => tasks[t].from \in 1 .. Len(nodes))
    BY PlacerKnows DEF Placing, Maker, Placer, MakingStages, PuttingStages
  <1>3. Copier(t)' => Copier(t)
    BY DEF Copier, Placing
  <1>4. OwnStep(t)
    BY <1>2, <1>3, UntouchedRemembers DEF OwnStep, Placing, OnlyFileChanges
  <1>5. TaskIsSound(t)'
    <2>1. InPlaceCalls' /\ tasks'[t].pc \in PuttingStages /\ Len(nodes') = Len(nodes)
      BY <1>2 DEF Placing, InPlaceCalls, Requests, Placer, OnlyFileChanges
    <2>2. StageOfKind(tasks[t])' /\ NothingDone(t)'
      BY <1>2, <2>1 DEF Placing, PuttingStages, StageOfKind, AtomicStages, MakingStages, InPlaceStages, NothingDone
    <2>3. TemporaryIsOwn(t)' /\ TemporaryIsWhole(t)'
      BY <1>2, <2>1 DEF TemporaryIsOwn, TemporaryIsWhole, Placing, PuttingStages
    <2>4. InPlaceIsOpen(t)'
      BY <1>2, <2>1 DEF InPlaceIsOpen, Placing, Copier
    <2> QED BY <2>2, <2>3, <2>4 DEF TaskIsSound
  <1> QED BY <1>1, <1>4, <1>5, OwnStepKeeps

\* BeginInPlace keeps the invariant.
LEMMA BeginInPlaceKeeps ==
  ASSUME ReplaceInv, NEW t \in Tasks, NEW request \in Requests, BeginInPlace(t, request)
  PROVE  ReplaceInv'
  <1>1. PICK from, size : /\ tasks' = [tasks EXCEPT ![t] = NewCall(request, "opening", from, size)]
                          /\ from \in Nat /\ size \in Nat
    <2>1. CASE request.kind = "copy"
      <3>1. PICK n : n = Dir[Source]
        OBVIOUS
      <3>2. n \in Nat /\ n <= Len(nodes) /\ n # None /\ Len(nodes) \in Nat
        BY <2>1, <3>1, PresentIsAMoment, NamesDiffer DEF ReplaceInv, DirectoryIsSound, Directory, BeginInPlace
      <3>3. nodes[n].data \in Seq(Int)
        BY <3>2, FileFields DEF ReplaceInv, None
      <3>4. Len(nodes[n].data) \in Nat
        BY <3>3
      <3>5. tasks' = [tasks EXCEPT ![t] = NewCall(request, "opening", n, Len(nodes[n].data))]
        BY <2>1, <3>1 DEF BeginInPlace
      <3> QED BY <3>2, <3>4, <3>5
    <2>2. CASE request.kind # "copy"
      <3>1. tasks' = [tasks EXCEPT ![t] = NewCall(request, "opening", None, 0)] /\ None \in Nat /\ 0 \in Nat
        BY <2>2 DEF BeginInPlace, None
      <3> QED BY <3>1
    <2> QED BY <2>1, <2>2
  <1>2. PICK r : r = NewCall(request, "opening", from, size)
    OBVIOUS
  <1>3. /\ tasks[t].kind = "idle" /\ request.kind \in {"write", "append", "copy"}
        /\ tasks' = [tasks EXCEPT ![t] = r] /\ UNCHANGED <<nodes, entries, history>>
    BY <1>1, <1>2 DEF BeginInPlace
  <1>4. tasks[t].pc = "idle" /\ ~Maker(t) /\ ~Placer(t)
    BY <1>3, KindOfStage
  <1>6. r \in Task /\ r.kind = request.kind /\ r.pc = "opening" /\ r.done = 0
    <2>1. "opening" \in AtomicStages \cup InPlaceStages /\ request.kind \in {"atomic", "write", "append", "copy"}
          /\ ReplaceTypeOK
      BY <1>3 DEF InPlaceStages, ReplaceInv
    <2> QED BY <1>1, <1>2, <2>1, NewCallTyped
  <1>7. /\ tasks' \in [Tasks -> Task] /\ tasks'[t] = r
        /\ \A u \in Tasks \ {t} : tasks'[u] = tasks[u]
    BY <1>3, <1>6, TaskReplaced DEF ReplaceInv
  <1>8. ReplaceTypeOK' /\ CopiesHaveTheSize'
    BY <1>3, <1>7 DEF ReplaceInv, ReplaceTypeOK, CopiesHaveTheSize
  <1>9. ~Maker(t)' /\ ~Placer(t)' /\ ~Copier(t)'
    BY <1>6, <1>7 DEF Maker, Placer, Copier, MakingStages, PuttingStages
  <1>10. TaskIsSound(t)'
    <2>1. InPlaceCalls'
      BY <1>3 DEF InPlaceCalls, Requests
    <2>2. StageOfKind(r) /\ NothingDone(t)'
      BY <1>3, <1>6, <1>7 DEF StageOfKind, AtomicStages, MakingStages, InPlaceStages, NothingDone
    <2>3. TemporaryIsWhole(t)' /\ TemporaryIsOwn(t)' /\ CopyIsExact(t)' /\ InPlaceIsOpen(t)'
      BY <1>3, <1>6, <1>7, <1>9, <2>1 DEF TemporaryIsWhole, TemporaryIsOwn, CopyIsExact, InPlaceIsOpen
    <2> QED BY <1>7, <2>2, <2>3 DEF TaskIsSound
  <1>11. OwnStep(t)
    BY <1>3, <1>4, <1>7, <1>9, UntouchedRemembers DEF OwnStep
  <1> QED BY <1>8, <1>10, <1>11, OwnStepKeeps

\* What is written into a file is a file's contents.
LEMMA PutTyped ==
  ASSUME NEW data \in Seq(Int), NEW at \in Nat, NEW byte \in Int
  PROVE  Put(data, at, byte) \in Seq(Int)
  <1>1. CASE at < Len(data)
    BY <1>1 DEF Put
  <1>2. CASE ~(at < Len(data))
    <2>1. PICK zeros : zeros = [i \in 1 .. at - Len(data) |-> 0]
      OBVIOUS
    <2>2. at - Len(data) \in Nat
      BY <1>2
    <2>3. zeros \in Seq(Int)
      BY <2>1, <2>2
    <2>4. <<byte>> \in Seq(Int)
      OBVIOUS
    <2> QED BY <1>2, <2>1, <2>3, <2>4 DEF Put
  <1> QED BY <1>1, <1>2

\* PutByte keeps the invariant.
LEMMA PutByteKeeps ==
  ASSUME ReplaceInv, NEW t \in Tasks, PutByte(t)
  PROVE  ReplaceInv'
  <1> DEFINE last == tasks[t].done + 1 = Len(tasks[t].data)
  <1>1. PICK n, byte, at : /\ n = tasks[t].node /\ byte = tasks[t].data[tasks[t].done + 1]
                           /\ at = IF tasks[t].kind = "append" THEN Len(nodes[n].data) ELSE tasks[t].done
    OBVIOUS
  <1>2. /\ tasks[t].pc = "putting" /\ tasks[t].kind \in {"write", "append"} /\ UNCHANGED <<entries, history>>
        /\ \/ /\ nodes' = [nodes EXCEPT ![n] = Rewritten(@, Put(@.data, at, byte), FALSE)]
              /\ tasks' = [tasks EXCEPT ![t] = OneMore(@, IF last THEN "ending" ELSE "putting")]
           \/ End(t) /\ nodes' = nodes
    BY <1>1 DEF PutByte
  <1> HIDE DEF last
  <1>3. Placer(t)
    BY <1>2 DEF Placer, PuttingStages
  <1>4. /\ n \in 1 .. Len(nodes) /\ nodes[n] \in File /\ tasks[t].done + 1 \in 1 .. Len(tasks[t].data)
        /\ nodes[n].data \in Seq(Int)
    BY <1>1, <1>2, <1>3, PlacerKnows
  <1>5. tasks[t].data \in Seq(Int) /\ Len(tasks[t].data) \in Nat /\ tasks[t].done \in Nat /\ nodes \in Seq(File)
    BY TaskFields DEF ReplaceInv, ReplaceTypeOK
  <1>6. CASE /\ nodes' = [nodes EXCEPT ![n] = Rewritten(@, Put(@.data, at, byte), FALSE)]
             /\ tasks' = [tasks EXCEPT ![t] = OneMore(@, IF last THEN "ending" ELSE "putting")]
    <2>1. PICK f, p : f = Rewritten(nodes[n], Put(nodes[n].data, at, byte), FALSE) /\ p = IF last THEN "ending" ELSE "putting"
      OBVIOUS
    <2>2. byte \in Int
      <3>1. PICK d, i : d = tasks[t].data /\ i = tasks[t].done + 1
        OBVIOUS
      <3>2. d \in Seq(Int) /\ i \in 1 .. Len(d) /\ byte = d[i]
        BY <1>1, <1>4, <1>5, <3>1
      <3> QED BY <3>2
    <2>3. f \in File
      <3>1. at \in Nat
        <4>1. CASE tasks[t].kind = "append"
          <5>1. PICK d : d = nodes[n].data
            OBVIOUS
          <5>2. Len(d) \in Nat
            BY <1>4, <5>1
          <5> QED BY <1>1, <4>1, <5>1, <5>2
        <4>2. CASE tasks[t].kind # "append"
          BY <1>1, <1>5, <4>2
        <4> QED BY <4>1, <4>2
      <3>2. Put(nodes[n].data, at, byte) \in Seq(Int)
        BY <1>4, <2>2, <3>1, PutTyped
      <3> QED BY <1>4, <2>1, <3>2, WrittenTyped
    <2>4. OnlyFileChanges(n)
      <3>1. nodes' = [nodes EXCEPT ![n] = f]
        BY <1>4, <1>5, <1>6, <2>1
      <3> QED BY <1>4, <2>3, <3>1, FileReplaced DEF ReplaceInv
    <2>5. /\ tasks' \in [Tasks -> Task] /\ tasks'[t].pc = p /\ tasks'[t].done = tasks[t].done + 1
          /\ tasks'[t].kind = tasks[t].kind /\ tasks'[t].data = tasks[t].data /\ tasks'[t].from = tasks[t].from
          /\ tasks'[t].node = tasks[t].node
          /\ \A u \in Tasks \ {t} : tasks'[u] = tasks[u]
      <3>1. p \in {"idle"} \cup AtomicStages \cup InPlaceStages
        BY <2>1 DEF InPlaceStages
      <3>2. tasks' = [tasks EXCEPT ![t] = OneMore(@, p)]
        BY <1>6, <2>1
      <3> QED BY <3>1, <3>2, WriteCounted DEF ReplaceInv
    <2>6. Placer(t)'
      BY <2>1, <2>5 DEF Placer, PuttingStages
    <2>7. Placing(t)
      BY <1>1, <1>2, <1>3, <2>4, <2>5, <2>6 DEF Placing
    <2>8. tasks'[t].pc = "putting" => tasks'[t].done < Len(tasks'[t].data)
      BY <1>4, <1>5, <2>1, <2>5 DEF last
    <2>9. CopyIsExact(t)'
      BY <1>2, <2>5 DEF CopyIsExact, Copier
    <2> QED BY <2>5, <2>7, <2>8, <2>9, PlacingKeeps
  <1>7. CASE End(t) /\ nodes' = nodes
    <2>1. entries \in Seq(Directory) /\ entries # <<>> /\ Remembers /\ ~Maker(t)
      BY <1>2, <1>3, UntouchedRemembers, PlacerKnows DEF ReplaceInv, ReplaceTypeOK
    <2> QED BY <1>2, <1>7, <2>1, EndingKeeps
  <1> QED BY <1>2, <1>6, <1>7

\* CopyByte keeps the invariant.
LEMMA CopyByteKeeps ==
  ASSUME ReplaceInv, NEW t \in Tasks, CopyByte(t)
  PROVE  ReplaceInv'
  <1>1. PICK n, from : n = tasks[t].node /\ from = nodes[tasks[t].from].data
    OBVIOUS
  <1>2. /\ tasks[t].pc = "putting" /\ tasks[t].kind = "copy" /\ UNCHANGED <<entries, history>>
        /\ \/ /\ tasks[t].done < Len(from)
              /\ nodes' = [nodes EXCEPT ![n] = Rewritten(@, Append(@.data, from[tasks[t].done + 1]), @.whole)]
              /\ tasks' = [tasks EXCEPT ![t] = OneMore(@, "putting")]
           \/ /\ CopyComplete(tasks[t])
              /\ tasks' = [tasks EXCEPT ![t].pc = "ending"]
              /\ nodes' = nodes
           \/ nodes' = Drop(n) /\ End(t)
    BY <1>1 DEF CopyByte
  <1>3. Placer(t) /\ Copier(t)
    BY <1>2 DEF Placer, Copier, PuttingStages
  <1>4. /\ n \in 1 .. Len(nodes) /\ nodes[n] \in File /\ nodes[n].data \in Seq(Int) /\ nodes[n].whole \in BOOLEAN
        /\ nodes[n].holder = t /\ tasks[t].done = Len(nodes[n].data) /\ from \in Seq(Int)
    <2>1. /\ n \in 1 .. Len(nodes) /\ nodes[n] \in File /\ nodes[n].data \in Seq(Int)
          /\ CopyIsExact(t) /\ tasks[t].from \in 1 .. Len(nodes)
      BY <1>1, <1>2, <1>3, PlacerKnows
    <2>2. from \in Seq(Int) /\ nodes[n].whole \in BOOLEAN
      BY <1>1, <2>1, FileFields DEF ReplaceInv
    <2> QED BY <1>1, <1>3, <2>1, <2>2 DEF CopyIsExact
  <1>5. nodes \in Seq(File) /\ tasks[t].done \in Nat
    BY TaskFields DEF ReplaceInv, ReplaceTypeOK
  <1>6. CASE /\ tasks[t].done < Len(from)
             /\ nodes' = [nodes EXCEPT ![n] = Rewritten(@, Append(@.data, from[tasks[t].done + 1]), @.whole)]
             /\ tasks' = [tasks EXCEPT ![t] = OneMore(@, "putting")]
    <2>1. PICK data, byte : data = nodes[n].data /\ byte = from[tasks[t].done + 1]
      OBVIOUS
    <2>2. PICK f : f = Rewritten(nodes[n], Append(data, byte), nodes[n].whole)
      OBVIOUS
    <2>3. byte \in Int /\ data \in Seq(Int)
      <3>1. PICK i : i = tasks[t].done + 1
        OBVIOUS
      <3>2. i \in 1 .. Len(from)
        BY <1>4, <1>5, <1>6, <3>1
      <3> QED BY <1>4, <2>1, <3>1, <3>2
    <2>4. Append(data, byte) \in Seq(Int) /\ Len(Append(data, byte)) = Len(data) + 1
      BY <2>3
    <2>5. f \in File /\ f.holder = t /\ f.data = Append(data, byte)
      <3>1. PICK g, more : g = nodes[n] /\ more = Append(data, byte)
        OBVIOUS
      <3>2. PICK whole \in BOOLEAN : whole = g.whole
        BY <1>4, <3>1
      <3>3. f = Rewritten(g, more, whole) /\ g \in File /\ more \in Seq(Int) /\ g.holder = t
        BY <1>4, <2>2, <2>4, <3>1, <3>2
      <3>4. f \in File /\ f.data = more /\ f.holder = g.holder
        BY <3>3, WrittenTyped
      <3> QED BY <3>1, <3>3, <3>4
    <2>6. OnlyFileChanges(n) /\ nodes'[n] = f
      <3>1. nodes' = [nodes EXCEPT ![n] = f]
        BY <1>4, <1>5, <1>6, <2>1, <2>2
      <3> QED BY <1>4, <2>5, <3>1, FileReplaced DEF ReplaceInv
    <2>7. /\ tasks' \in [Tasks -> Task] /\ tasks'[t].pc = "putting" /\ tasks'[t].done = tasks[t].done + 1
          /\ tasks'[t].kind = tasks[t].kind /\ tasks'[t].from = tasks[t].from /\ tasks'[t].node = tasks[t].node
          /\ \A u \in Tasks \ {t} : tasks'[u] = tasks[u]
      <3>1. "putting" \in {"idle"} \cup AtomicStages \cup InPlaceStages
        BY DEF InPlaceStages
      <3> QED BY <1>6, <3>1, WriteCounted DEF ReplaceInv
    <2>8. Placer(t)'
      BY <2>7 DEF Placer, PuttingStages
    <2>9. Placing(t)
      BY <1>1, <1>2, <1>3, <2>6, <2>7, <2>8 DEF Placing
    <2>10. CopyIsExact(t)'
      <3>1. tasks'[t].done = Len(nodes'[n].data)
        BY <1>4, <2>1, <2>4, <2>5, <2>6, <2>7
      <3> QED BY <1>1, <2>5, <2>6, <2>7, <3>1 DEF CopyIsExact
    <2> QED BY <1>2, <2>7, <2>9, <2>10, PlacingKeeps
  <1>7. CASE /\ CopyComplete(tasks[t])
             /\ tasks' = [tasks EXCEPT ![t].pc = "ending"]
             /\ nodes' = nodes
    <2>1. /\ tasks' \in [Tasks -> Task] /\ tasks'[t].pc = "ending" /\ tasks'[t].kind = tasks[t].kind
          /\ tasks'[t].node = tasks[t].node /\ tasks'[t].from = tasks[t].from /\ tasks'[t].done = tasks[t].done
          /\ tasks'[t].size = tasks[t].size
          /\ \A u \in Tasks \ {t} : tasks'[u] = tasks[u]
      <3>1. "ending" \in {"idle"} \cup AtomicStages \cup InPlaceStages
        BY DEF InPlaceStages
      <3> QED BY <1>7, <3>1, StageReached DEF ReplaceInv
    <2>2. Placer(t)'
      BY <2>1 DEF Placer, PuttingStages
    <2>3. OnlyFileChanges(tasks[t].node)
      BY <1>5, <1>7 DEF OnlyFileChanges
    <2>4. Placing(t)
      BY <1>2, <1>3, <2>1, <2>2, <2>3 DEF Placing
    <2>5. CopyIsExact(t)'
      BY <1>1, <1>4, <1>7, <2>1 DEF CopyIsExact, CopyComplete
    <2> QED BY <2>1, <2>4, <2>5, PlacingKeeps
  <1>8. CASE nodes' = Drop(n) /\ End(t)
    <2>1. OnlyFileChanges(tasks[t].node)
      BY <1>1, <1>4, <1>8, Dropped DEF ReplaceInv
    <2>2. history' \in History /\ CopiesHaveTheSize'
      BY <1>2 DEF ReplaceInv, ReplaceTypeOK, CopiesHaveTheSize
    <2> QED BY <1>2, <1>3, <1>8, <2>1, <2>2, StoppingKeeps
  <1> QED BY <1>2, <1>6, <1>7, <1>8

\* EndInPlace keeps the invariant.
LEMMA EndInPlaceKeeps ==
  ASSUME ReplaceInv, NEW t \in Tasks, EndInPlace(t)
  PROVE  ReplaceInv'
  <1>1. PICK n, c : n = tasks[t].node /\ c = <<tasks[t].size, Len(nodes[n].data)>>
    OBVIOUS
  <1>2. /\ tasks[t].pc = "ending" /\ End(t) /\ UNCHANGED entries
        /\ nodes' = [nodes EXCEPT ![n] = Closed(@, t)]
        /\ history' = IF tasks[t].kind = "copy" THEN [history EXCEPT !.copied = @ \cup {c}] ELSE history
    BY <1>1 DEF EndInPlace
  <1>3. Placer(t)
    BY <1>2 DEF Placer, PuttingStages
  <1>4. /\ n \in 1 .. Len(nodes) /\ nodes[n] \in File /\ nodes[n].data \in Seq(Int) /\ CopyIsExact(t)
        /\ nodes \in Seq(File) /\ tasks[t].flush \in BOOLEAN /\ tasks[t].size \in Nat
    BY <1>1, <1>3, PlacerKnows, TaskFields DEF ReplaceInv, ReplaceTypeOK
  <1>5. OnlyFileChanges(tasks[t].node)
    <2>1. PICK f : f = Closed(nodes[n], t)
      OBVIOUS
    <2>2. f \in File
      BY <1>4, <2>1 DEF Closed, File, None
    <2>3. nodes' = [nodes EXCEPT ![n] = f]
      BY <1>2, <1>4, <2>1
    <2> QED BY <1>1, <1>4, <2>2, <2>3, FileReplaced DEF ReplaceInv
  <1>6. /\ history' \in History /\ CopiesHaveTheSize' /\ history'.plan = history.plan
        /\ history'.crashed = history.crashed /\ history'.uncleaned = history.uncleaned
    <2>1. history \in History /\ CopiesHaveTheSize
      BY DEF ReplaceInv, ReplaceTypeOK
    <2>2. CASE tasks[t].kind = "copy"
      <3>1. Len(nodes[n].data) \in Nat /\ tasks[t].size = Len(nodes[n].data)
        <4>1. PICK d : d = nodes[n].data
          OBVIOUS
        <4>2. Len(d) \in Nat
          BY <1>4, <4>1
        <4> QED BY <1>1, <1>2, <1>3, <1>4, <2>2, <4>1, <4>2 DEF CopyIsExact, Copier
      <3>2. c \in Nat \X Nat /\ c[1] = c[2]
        BY <1>1, <1>4, <3>1
      <3>3. history' = [history EXCEPT !.copied = @ \cup {c}]
        BY <1>2, <2>2
      <3> QED BY <2>1, <3>2, <3>3 DEF History, CopiesHaveTheSize
    <2>3. CASE tasks[t].kind # "copy"
      BY <1>2, <2>1, <2>3 DEF CopiesHaveTheSize
    <2> QED BY <2>2, <2>3
  <1> QED BY <1>2, <1>3, <1>5, <1>6, StoppingKeeps

-----------------------------------------------------------------------------
(* Steps of the directory *)

\* The directory gets another state.
Adds(d) == entries' = Append(entries, d)

\* The moments there are then.
LEMMA Added ==
  ASSUME ReplaceTypeOK, NEW d \in Directory, Adds(d)
  PROVE  /\ entries' \in Seq(Directory) /\ entries' # <<>> /\ Dir' = d
         /\ DOMAIN entries' = DOMAIN entries \cup {Len(entries) + 1}
         /\ entries'[Len(entries) + 1] = d
         /\ \A i \in DOMAIN entries : entries'[i] = entries[i]
  <1>1. entries \in Seq(Directory)
    BY DEF ReplaceTypeOK
  <1>2. /\ entries' \in Seq(Directory) /\ entries' # <<>> /\ Len(entries') = Len(entries) + 1
        /\ entries'[Len(entries) + 1] = d
        /\ \A i \in DOMAIN entries : entries'[i] = entries[i]
    BY <1>1 DEF Adds
  <1>3. DOMAIN entries' = DOMAIN entries \cup {Len(entries) + 1}
    BY <1>1, <1>2
  <1>4. Dir' = d
    BY <1>2 DEF Dir, Last
  <1> QED BY <1>2, <1>3, <1>4

\* A directory in which the files there are, the temporary file of the other process, and whole files in place.
DirectoryFits(d) ==
  /\ \A name \in Names : d[name] <= Len(nodes)
  /\ \E name \in TempNames : d[name] = 3

\* The directories there were and the one that is added stay sound.
LEMMA DirectoryStaysSound ==
  ASSUME ReplaceInv, ReplaceTypeOK', NEW d \in Directory, Adds(d), Len(nodes') >= Len(nodes), DirectoryFits(d)'
  PROVE  DirectoryIsSound'
  <1>1. Len(nodes) \in Nat /\ Len(nodes') \in Nat /\ entries \in Seq(Directory)
    BY DEF ReplaceInv, ReplaceTypeOK
  <1>2. /\ DOMAIN entries' = DOMAIN entries \cup {Len(entries) + 1} /\ entries'[Len(entries) + 1] = d
        /\ \A i \in DOMAIN entries : entries'[i] = entries[i]
    BY Added DEF ReplaceInv
  <1> SUFFICES ASSUME NEW i \in DOMAIN entries'
               PROVE  /\ \A name \in Names : entries'[i][name] <= Len(nodes')
                      /\ \E name \in TempNames : entries'[i][name] = 3
    BY DEF DirectoryIsSound
  <1>3. CASE i \in DOMAIN entries
    <2>1. entries'[i] = entries[i] /\ entries[i] \in Directory
      BY <1>1, <1>2, <1>3
    <2>2. /\ \A name \in Names : entries[i][name] <= Len(nodes) /\ entries[i][name] \in Nat
          /\ \E name \in TempNames : entries[i][name] = 3
      BY <1>3, <2>1 DEF ReplaceInv, DirectoryIsSound, Directory
    <2> QED BY <1>1, <2>1, <2>2
  <1>4. CASE i = Len(entries) + 1
    BY <1>2, <1>4 DEF DirectoryFits
  <1> QED BY <1>2, <1>3, <1>4

\* The files that were in place at some moment stay whole, when those that are whole do.
LEMMA MomentsKeptWhole ==
  ASSUME ReplaceInv, ReplaceTypeOK', NEW d \in Directory, Adds(d), Len(nodes') >= Len(nodes),
         \A n \in 1 .. Len(nodes) : Good(n) => nodes'[n].whole /\ (UnflushedCalls \/ nodes'[n].synced),
         history'.plan = history.plan, history'.crashed = history.crashed,
         ~InPlaceCalls /\ (history.crashed => ~UnflushedCalls) =>
           \A name \in {Dest, Source} : d[name] # None => d[name] \in 1 .. Len(nodes) /\ Good(d[name])
  PROVE  EveryMomentIsWhole'
  <1>1. Len(nodes) \in Nat /\ Len(nodes') \in Nat /\ entries \in Seq(Directory)
    BY DEF ReplaceInv, ReplaceTypeOK
  <1>2. /\ DOMAIN entries' = DOMAIN entries \cup {Len(entries) + 1} /\ entries'[Len(entries) + 1] = d
        /\ \A i \in DOMAIN entries : entries'[i] = entries[i]
    BY Added DEF ReplaceInv
  <1>3. (InPlaceCalls' <=> InPlaceCalls) /\ (UnflushedCalls' <=> UnflushedCalls)
    BY PlanIsKept
  <1> SUFFICES ASSUME ~InPlaceCalls, history.crashed => ~UnflushedCalls, NEW i \in DOMAIN entries',
                      NEW name \in {Dest, Source}, entries'[i][name] # None
               PROVE  nodes'[entries'[i][name]].whole /\ (UnflushedCalls \/ nodes'[entries'[i][name]].synced)
    BY <1>3 DEF EveryMomentIsWhole, Good
  <1>4. entries'[i][name] \in 1 .. Len(nodes) /\ Good(entries'[i][name])
    <2>1. CASE i \in DOMAIN entries
      <3>1. PICK n : n = entries[i][name]
        OBVIOUS
      <3>2. entries'[i][name] = n /\ n # None /\ Good(n)
        BY <1>2, <2>1, <3>1 DEF ReplaceInv, EveryMomentIsWhole
      <3>3. name \in Names /\ entries[i] \in Directory
        BY <1>1, <2>1, NamesDiffer
      <3>4. n \in Nat /\ n <= Len(nodes)
        BY <2>1, <3>1, <3>3 DEF ReplaceInv, DirectoryIsSound, Directory
      <3>5. n \in 1 .. Len(nodes)
        BY <1>1, <3>2, <3>4 DEF None
      <3> QED BY <3>2, <3>5
    <2>2. CASE i = Len(entries) + 1
      BY <1>2, <2>2
    <2> QED BY <1>2, <2>1, <2>2
  <1> QED BY <1>4

\* They stay whole when no file changes.
LEMMA MomentsStayWhole ==
  ASSUME ReplaceInv, ReplaceTypeOK', NEW d \in Directory, Adds(d), Len(nodes') >= Len(nodes),
         \A n \in 1 .. Len(nodes) : nodes'[n] = nodes[n],
         history'.plan = history.plan, history'.crashed = history.crashed,
         ~InPlaceCalls /\ (history.crashed => ~UnflushedCalls) =>
           \A name \in {Dest, Source} : d[name] # None => d[name] \in 1 .. Len(nodes) /\ Good(d[name])
  PROVE  EveryMomentIsWhole'
  <1>1. \A n \in 1 .. Len(nodes) : Good(n) => nodes'[n].whole /\ (UnflushedCalls \/ nodes'[n].synced)
    BY DEF Good
  <1> QED BY <1>1, MomentsKeptWhole

\* A step that adds a directory leaves the other calls alone, when it leaves their temporary files where they are.
LEMMA AddedLeaves ==
  ASSUME ReplaceInv, NEW C \in SUBSET Tasks, NEW m, NEW d \in Directory, Adds(d),
         \A u \in Tasks \ C : tasks'[u] = tasks[u],
         Len(nodes') >= Len(nodes), \A n \in 1 .. Len(nodes) : n # m => nodes'[n] = nodes[n],
         history'.plan = history.plan,
         \A u \in Tasks \ C : Maker(u) \/ Copier(u) => tasks[u].node # m,
         \A u \in Tasks \ C : Maker(u) => /\ d[tasks[u].temp] = tasks[u].node
                                          /\ d[Dest] # tasks[u].node /\ d[Source] # tasks[u].node
  PROVE  LeavesOthers(C, m)
  <1>1. /\ Dir' = d /\ DOMAIN entries' = DOMAIN entries \cup {Len(entries) + 1} /\ entries'[Len(entries) + 1] = d
        /\ \A i \in DOMAIN entries : entries'[i] = entries[i]
    BY Added DEF ReplaceInv
  <1>2. ASSUME NEW u \in Tasks \ C, Maker(u)
        PROVE  /\ Dir'[tasks[u].temp] = tasks[u].node
               /\ \A i \in DOMAIN entries' : entries'[i][Dest] # tasks[u].node /\ entries'[i][Source] # tasks[u].node
    <2>1. TemporaryIsOwn(u)
      BY DEF ReplaceInv, TaskIsSound
    <2> QED BY <1>1, <1>2, <2>1 DEF TemporaryIsOwn
  <1> QED BY <1>2 DEF LeavesOthers

\* The other temporary files stay known, when those of the call that takes a step do.
LEMMA AddedKnown ==
  ASSUME ReplaceInv, NEW C \in SUBSET Tasks, NEW d \in Directory, Adds(d),
         \A u \in Tasks \ C : tasks'[u] = tasks[u],
         history'.crashed = history.crashed, history.uncleaned \subseteq history'.uncleaned,
         \A name \in TempNames : d[name] # None =>
           \/ d[name] = Dir[name] /\ \A u \in C : ~(Maker(u) /\ tasks[u].temp = name)
           \/ d[name] \in history'.uncleaned
           \/ \E u \in C : Maker(u)' /\ tasks'[u].temp = name
  PROVE  TemporariesAreKnown'
  <1>1. Dir' = d
    BY Added DEF ReplaceInv
  <1> SUFFICES ASSUME ~history.crashed, NEW name \in TempNames, d[name] # None
               PROVE  d[name] \in history'.uncleaned \/ \E t \in Tasks : Maker(t)' /\ tasks'[t].temp = name
    BY <1>1 DEF TemporariesAreKnown
  <1>2. CASE d[name] = Dir[name] /\ \A u \in C : ~(Maker(u) /\ tasks[u].temp = name)
    <2>1. CASE Dir[name] \in history.uncleaned
      BY <1>2, <2>1
    <2>2. CASE \E t \in Tasks : Maker(t) /\ tasks[t].temp = name
      <3>1. PICK t \in Tasks : Maker(t) /\ tasks[t].temp = name
        BY <2>2
      <3>2. t \in Tasks \ C
        BY <1>2, <3>1
      <3>3. Maker(t)' /\ tasks'[t].temp = name
        BY <3>1, <3>2 DEF Maker
      <3> QED BY <3>3
    <2> QED BY <1>2, <2>1, <2>2 DEF ReplaceInv, TemporariesAreKnown
  <1>3. CASE \E u \in C : Maker(u)' /\ tasks'[u].temp = name
    BY <1>3
  <1> QED BY <1>2, <1>3

\* A new file under a name that was free, of a temporary file or of the destination of a call in place.
Creates(t, name, f) ==
  /\ Dir[name] = None /\ ~Maker(t)
  /\ nodes' = Append(nodes, f) /\ entries' = Changed(name, Len(nodes) + 1)
  /\ history'.plan = history.plan /\ history'.crashed = history.crashed
  /\ history.uncleaned \subseteq history'.uncleaned
  /\ \A u \in Tasks \ {t} : tasks'[u] = tasks[u]
  /\ name = Dest => InPlaceCalls
  /\ name # Dest => \/ Maker(t)' /\ tasks'[t].temp = name
                    \/ Len(nodes) + 1 \in history'.uncleaned

\* Such a file leaves the other calls alone, and the directory sound.
LEMMA FileCreated ==
  ASSUME ReplaceInv, ReplaceTypeOK', NEW t \in Tasks, NEW name \in TempNames \cup {Dest}, NEW f \in File,
         Creates(t, name, f)
  PROVE  /\ LeavesOthers({t}, -1) /\ DirectoryIsSound' /\ EveryMomentIsWhole' /\ TemporariesAreKnown'
         /\ Len(nodes') = Len(nodes) + 1 /\ nodes'[Len(nodes) + 1] = f
         /\ Dir'[name] = Len(nodes) + 1
         /\ \A i \in DOMAIN entries' : entries'[i][Source] # Len(nodes) + 1
                                       /\ (name # Dest => entries'[i][Dest] # Len(nodes) + 1)
  <1>0. /\ Dir[name] = None /\ ~Maker(t)
        /\ nodes' = Append(nodes, f) /\ entries' = Changed(name, Len(nodes) + 1)
        /\ history'.plan = history.plan /\ history'.crashed = history.crashed
        /\ history.uncleaned \subseteq history'.uncleaned
        /\ \A u \in Tasks \ {t} : tasks'[u] = tasks[u]
        /\ name = Dest => InPlaceCalls
        /\ name # Dest => \/ Maker(t)' /\ tasks'[t].temp = name
                          \/ Len(nodes) + 1 \in history'.uncleaned
    BY DEF Creates
  <1>1. Len(nodes) \in Nat /\ nodes \in Seq(File) /\ Dir \in Directory /\ Len(nodes) >= 3
    BY PresentIsAMoment DEF ReplaceInv, ReplaceTypeOK
  <1>2. PICK k : k = Len(nodes) + 1
    OBVIOUS
  <1>3. k \in Nat /\ k > Len(nodes) /\ k >= 4
    BY <1>1, <1>2
  <1>4. PICK d : d = [Dir EXCEPT ![name] = k]
    OBVIOUS
  <1>5. name \in Names /\ (name # Dest => name \in TempNames) /\ name # Source
    BY NamesDiffer
  <1>6. /\ d \in Directory /\ Adds(d) /\ d[name] = k
        /\ \A x \in Names : x # name => d[x] = Dir[x]
    BY <1>1, <1>2, <1>3, <1>4, <1>5, <1>0 DEF Directory, Adds, Changed
  <1>7. /\ Len(nodes') = k /\ nodes'[k] = f
        /\ \A n \in 1 .. Len(nodes) : nodes'[n] = nodes[n]
    BY <1>0, <1>1, <1>2
  <1>8. \A i \in DOMAIN entries : \A x \in Names : entries[i][x] \in Nat /\ entries[i][x] <= Len(nodes)
    BY DEF ReplaceInv, ReplaceTypeOK, Directory, DirectoryIsSound
  <1>9. \A x \in Names : Dir[x] \in Nat /\ Dir[x] <= Len(nodes)
    <2>1. Len(entries) \in DOMAIN entries /\ entries[Len(entries)] = Dir
      BY PresentIsAMoment DEF ReplaceInv
    <2> QED BY <1>8, <2>1
  <1>10. LeavesOthers({t}, -1)
    <2>1. ASSUME NEW u \in Tasks \ {t} PROVE tasks[u].node \in Nat /\ tasks[u].node # -1
      <3>1. tasks[u].node \in Nat
        BY TaskFields
      <3> QED BY <3>1
    <2>2. ASSUME NEW u \in Tasks \ {t}, Maker(u)
          PROVE  d[tasks[u].temp] = tasks[u].node /\ d[Dest] # tasks[u].node /\ d[Source] # tasks[u].node
      <3>1. TemporaryIsOwn(u) /\ tasks[u].temp \in TempNames
        BY <2>2 DEF ReplaceInv, TaskIsSound, TemporaryIsOwn
      <3>2. PICK n, x : n = tasks[u].node /\ x = tasks[u].temp
        OBVIOUS
      <3>3. /\ x \in TempNames /\ n \in 4 .. Len(nodes) /\ Dir[x] = n /\ Dir[Dest] # n /\ Dir[Source] # n
        BY <2>2, <3>1, <3>2, PresentIsAMoment DEF TemporaryIsOwn, ReplaceInv
      <3>4. x # name /\ n # k /\ x \in Names
        BY <1>0, <1>1, <1>3, <3>3, NamesDiffer DEF None
      <3>5. d[x] = n /\ d[Dest] # n /\ d[Source] # n
        BY <1>5, <1>6, <3>3, <3>4, NamesDiffer
      <3> QED BY <3>2, <3>5
    <2>3. Len(nodes') >= Len(nodes)
      BY <1>1, <1>3, <1>7
    <2> QED BY <1>0, <1>6, <1>7, <2>1, <2>2, <2>3, AddedLeaves
  <1>11. DirectoryIsSound'
    <2>1. DirectoryFits(d)'
      <3>1. \A x \in Names : d[x] <= Len(nodes')
        BY <1>1, <1>3, <1>6, <1>7, <1>9
      <3>2. PICK x \in TempNames : Dir[x] = 3
        BY PresentIsAMoment DEF ReplaceInv, DirectoryIsSound
      <3>3. x # name /\ d[x] = 3
        BY <1>0, <1>6, <3>2, NamesDiffer DEF None
      <3> QED BY <3>1, <3>3 DEF DirectoryFits
    <2>2. Len(nodes') >= Len(nodes)
      BY <1>1, <1>3, <1>7
    <2> QED BY <1>6, <2>1, <2>2, DirectoryStaysSound
  <1>12. EveryMomentIsWhole'
    <2>1. CASE name = Dest
      <3>1. InPlaceCalls'
        BY <1>0, <2>1 DEF InPlaceCalls, Requests
      <3> QED BY <3>1 DEF EveryMomentIsWhole
    <2>2. CASE name # Dest
      <3>1. ASSUME ~InPlaceCalls, history.crashed => ~UnflushedCalls, NEW x \in {Dest, Source}, d[x] # None
            PROVE  d[x] \in 1 .. Len(nodes) /\ Good(d[x])
        <4>1. d[x] = Dir[x] /\ x \in Names
          BY <1>5, <1>6, <2>2, NamesDiffer
        <4>2. Good(Dir[x])
          BY <3>1, <4>1, PresentIsAMoment DEF ReplaceInv, EveryMomentIsWhole
        <4>3. Dir[x] \in 1 .. Len(nodes)
          BY <1>1, <1>9, <3>1, <4>1 DEF None
        <4> QED BY <4>1, <4>2, <4>3
      <3>2. Len(nodes') >= Len(nodes)
        BY <1>1, <1>3, <1>7
      <3> QED BY <1>0, <1>6, <1>7, <3>1, <3>2, MomentsStayWhole
    <2> QED BY <2>1, <2>2
  <1>13. TemporariesAreKnown'
    <2>1. ASSUME NEW x \in TempNames, d[x] # None
          PROVE  \/ d[x] = Dir[x] /\ \A u \in {t} : ~(Maker(u) /\ tasks[u].temp = x)
                 \/ d[x] \in history'.uncleaned
                 \/ \E u \in {t} : Maker(u)' /\ tasks'[u].temp = x
      <3>1. CASE x = name
        BY <1>0, <1>2, <1>6, <3>1, NamesDiffer
      <3>2. CASE x # name
        BY <1>0, <1>6, <3>2, NamesDiffer
      <3> QED BY <3>1, <3>2
    <2>2. \A x \in TempNames : d[x] # None =>
            \/ d[x] = Dir[x] /\ \A u \in {t} : ~(Maker(u) /\ tasks[u].temp = x)
            \/ d[x] \in history'.uncleaned
            \/ \E u \in {t} : Maker(u)' /\ tasks'[u].temp = x
      BY <2>1
    <2>3. {t} \in SUBSET Tasks /\ history'.crashed = history.crashed /\ history.uncleaned \subseteq history'.uncleaned
      BY <1>0
    <2> QED BY <1>0, <1>6, <2>2, <2>3, AddedKnown
  <1>14. ASSUME NEW i \in DOMAIN entries'
         PROVE  entries'[i][Source] # k /\ (name # Dest => entries'[i][Dest] # k)
    <2>1. /\ DOMAIN entries' = DOMAIN entries \cup {Len(entries) + 1} /\ entries'[Len(entries) + 1] = d
          /\ \A j \in DOMAIN entries : entries'[j] = entries[j]
      BY <1>6, Added DEF ReplaceInv
    <2>2. \A x \in Names : Dir[x] # k /\ \A j \in DOMAIN entries : entries[j][x] # k
      BY <1>1, <1>3, <1>8, <1>9
    <2>3. CASE i \in DOMAIN entries
      BY <2>1, <2>2, <2>3, NamesDiffer
    <2>4. CASE i = Len(entries) + 1
      BY <1>5, <1>6, <2>1, <2>2, <2>4, NamesDiffer
    <2> QED BY <2>1, <2>3, <2>4
  <1>15. Dir'[name] = k
    BY <1>6, Added DEF ReplaceInv
  <1> QED BY <1>2, <1>7, <1>10, <1>11, <1>12, <1>13, <1>14, <1>15

\* A file is added.
LEMMA FileAppended ==
  ASSUME ReplaceTypeOK, NEW f \in File, nodes' = Append(nodes, f)
  PROVE  /\ nodes' \in Seq(File) /\ Len(nodes') = Len(nodes) + 1 /\ nodes'[Len(nodes) + 1] = f
         /\ \A n \in 1 .. Len(nodes) : nodes'[n] = nodes[n]
  BY DEF ReplaceTypeOK

\* A call that fails after its file was created leaves the invariant as it was.
LEMMA LeavingBehindKeeps ==
  ASSUME ReplaceInv, NEW t \in Tasks, ~Maker(t), NEW name \in TempNames \cup {Dest}, LeftBehind(t, name),
         history' \in History, history'.plan = history.plan, history'.crashed = history.crashed,
         history'.copied = history.copied, history.uncleaned \subseteq history'.uncleaned,
         name = Dest => InPlaceCalls,
         name # Dest => Len(nodes) + 1 \in history'.uncleaned
  PROVE  ReplaceInv'
  <1>1. PICK f : f = NewNode(None, FALSE)
    OBVIOUS
  <1>2. Dir[name] = None /\ nodes' = Append(nodes, f) /\ entries' = Changed(name, Len(nodes) + 1) /\ End(t)
    BY <1>1 DEF LeftBehind
  <1>3. /\ ReplaceTypeOK /\ Len(nodes) \in Nat /\ Dir \in Directory /\ entries \in Seq(Directory) /\ entries # <<>>
    BY PresentIsAMoment DEF ReplaceInv, ReplaceTypeOK
  <1>4. f \in File
    BY <1>1 DEF NewNode, File, None
  <1>5. nodes' \in Seq(File)
    BY <1>2, <1>3, <1>4, FileAppended
  <1>6. /\ tasks' \in [Tasks -> Task] /\ TaskIsSound(t)' /\ ~Maker(t)' /\ ~Placer(t)' /\ ~Copier(t)'
        /\ \A u \in Tasks \ {t} : tasks'[u] = tasks[u]
    BY <1>2, <1>3, Ended
  <1>7. entries' \in Seq(Directory) /\ entries' # <<>>
    <2>1. PICK d : d = [Dir EXCEPT ![name] = Len(nodes) + 1]
      OBVIOUS
    <2>2. d \in Directory /\ Adds(d)
      BY <1>2, <1>3, <2>1, NamesDiffer DEF Directory, Adds, Changed
    <2> QED BY <1>3, <2>2, Added
  <1>8. ReplaceTypeOK'
    BY <1>5, <1>6, <1>7 DEF ReplaceTypeOK
  <1>9. LeavesOthers({t}, -1) /\ DirectoryIsSound' /\ EveryMomentIsWhole' /\ TemporariesAreKnown'
    <2>1. Creates(t, name, f)
      BY <1>2, <1>6 DEF Creates
    <2> QED BY <1>4, <1>8, <2>1, FileCreated
  <1>10. /\ \A u \in {t} : TaskIsSound(u)'
         /\ \A u \in {t}, v \in Tasks : Apart(u, v)' /\ Apart(v, u)'
         /\ CopiesHaveTheSize'
    BY <1>6 DEF ReplaceInv, CopiesHaveTheSize, Apart
  <1> QED BY <1>8, <1>9, <1>10, StepKeeps

\* The file of a call is one there is.
LEMMA KnownFile ==
  ASSUME ReplaceInv, NEW u \in Tasks, Maker(u) \/ Placer(u)
  PROVE  tasks[u].node \in 1 .. Len(nodes)
  BY TemporaryOf, PlacerKnows

\* A call that has no file yet gets one.
TakesFile(t, p, name, n, from) == tasks' = [tasks EXCEPT ![t] = WithFile(@, p, name, n, from)]

\* What the call has then.
LEMMA FileTaken ==
  ASSUME ReplaceTypeOK, NEW t \in Tasks, NEW p \in AtomicStages \cup InPlaceStages, NEW name \in TempNames \cup {"none"},
         NEW n \in Nat, NEW from \in Nat, TakesFile(t, p, name, n, from)
  PROVE  /\ tasks' \in [Tasks -> Task] /\ tasks'[t].pc = p /\ tasks'[t].temp = name /\ tasks'[t].node = n
         /\ tasks'[t].from = from /\ tasks'[t].kind = tasks[t].kind /\ tasks'[t].data = tasks[t].data
         /\ tasks'[t].done = tasks[t].done /\ tasks'[t].flush = tasks[t].flush
         /\ \A u \in Tasks \ {t} : tasks'[u] = tasks[u]
  <1>1. tasks[t] \in Task /\ tasks \in [Tasks -> Task]
    BY DEF ReplaceTypeOK
  <1>2. PICK r : r = WithFile(tasks[t], p, name, n, from)
    OBVIOUS
  <1>3. r \in Task
    BY <1>1, <1>2 DEF Task, WithFile
  <1>4. tasks' = [tasks EXCEPT ![t] = r]
    BY <1>2 DEF TakesFile
  <1>5. /\ tasks' \in [Tasks -> Task] /\ tasks'[t] = r
        /\ \A u \in Tasks \ {t} : tasks'[u] = tasks[u]
    BY <1>3, <1>4, TaskReplaced
  <1>6. /\ r.pc = p /\ r.temp = name /\ r.node = n /\ r.from = from /\ r.kind = tasks[t].kind
        /\ r.data = tasks[t].data /\ r.done = tasks[t].done /\ r.flush = tasks[t].flush
    BY <1>1, <1>2 DEF Task, WithFile
  <1> QED BY <1>5, <1>6

\* CreateTemporary keeps the invariant, unless it leaves a file behind.
LEMMA CreatingKeeps ==
  ASSUME ReplaceInv, NEW t \in Tasks, NEW name \in TempNames, CreateTemporary(t, name),
         ~(LeftBehind(t, name) /\ history' = [history EXCEPT !.uncleaned = @ \cup {Len(nodes) + 1}])
  PROVE  ReplaceInv'
  <1> DEFINE empty == tasks[t].data = <<>>
  <1>1. PICK f, p, k : f = NewNode(t, empty) /\ p = (IF empty THEN "flushing" ELSE "writing") /\ k = Len(nodes) + 1
    OBVIOUS
  <1>2. /\ tasks[t].pc = "naming" /\ UNCHANGED history
        /\ \/ /\ Dir[name] = None
              /\ nodes' = Append(nodes, f) /\ entries' = Changed(name, Len(nodes) + 1)
              /\ tasks' = [tasks EXCEPT ![t] = WithFile(@, p, name, k, None)]
           \/ tasks' = [tasks EXCEPT ![t].attempt = @ + 1] /\ UNCHANGED <<nodes, entries>>
           \/ End(t) /\ UNCHANGED <<nodes, entries>>
    BY <1>1 DEF CreateTemporary
  <1> HIDE DEF empty
  <1>3. /\ ~Maker(t) /\ ~Placer(t) /\ tasks[t].kind = "atomic" /\ TaskIsSound(t) /\ tasks[t].done = 0
        /\ (UnflushedCalls \/ tasks[t].flush) /\ tasks[t].data \in Seq(Int) /\ tasks[t] \in Task
    <2>1. TaskIsSound(t) /\ tasks[t].data \in Seq(Int) /\ tasks[t] \in Task
      BY TaskFields
    <2>2. tasks[t].kind = "atomic" /\ ~Maker(t) /\ ~Placer(t)
      BY <1>2, KindOfStage DEF AtomicStages, Maker, Placer, MakingStages, PuttingStages
    <2> QED BY <1>2, <2>1, <2>2 DEF TaskIsSound, NothingDone, TemporaryIsWhole
  <1>4. Len(nodes) \in Nat /\ Len(nodes) >= 3 /\ nodes \in Seq(File) /\ tasks \in [Tasks -> Task]
        /\ entries \in Seq(Directory) /\ entries # <<>> /\ history \in History /\ ReplaceTypeOK
    BY DEF ReplaceInv, ReplaceTypeOK
  <1>5. CASE /\ Dir[name] = None
             /\ nodes' = Append(nodes, f) /\ entries' = Changed(name, Len(nodes) + 1)
             /\ tasks' = [tasks EXCEPT ![t] = WithFile(@, p, name, k, None)]
    <2>1. f \in File /\ (f.whole <=> empty)
      <3>1. empty \in BOOLEAN
        BY DEF empty
      <3> QED BY <1>1, <3>1 DEF NewNode, File
    <2>2. /\ nodes' \in Seq(File) /\ Len(nodes') = k /\ nodes'[k] = f
          /\ \A n \in 1 .. Len(nodes) : nodes'[n] = nodes[n]
      BY <1>1, <1>4, <1>5, <2>1, FileAppended
    <2>3. /\ tasks' \in [Tasks -> Task] /\ tasks'[t].pc = p /\ tasks'[t].temp = name /\ tasks'[t].node = k
          /\ tasks'[t].kind = tasks[t].kind /\ tasks'[t].data = tasks[t].data
          /\ tasks'[t].done = tasks[t].done /\ tasks'[t].flush = tasks[t].flush
          /\ \A u \in Tasks \ {t} : tasks'[u] = tasks[u]
      <3>1. p \in AtomicStages \cup InPlaceStages /\ k \in Nat /\ None \in Nat /\ name \in TempNames \cup {"none"}
        BY <1>1, <1>4 DEF AtomicStages, MakingStages, None
      <3>2. TakesFile(t, p, name, k, None)
        BY <1>5 DEF TakesFile
      <3> QED BY <1>4, <3>1, <3>2, FileTaken
    <2>4. entries' \in Seq(Directory) /\ entries' # <<>>
      <3>1. PICK d : d = [Dir EXCEPT ![name] = k]
        OBVIOUS
      <3>2. d \in Directory /\ Adds(d)
        BY <1>1, <1>4, <1>5, <3>1, PresentIsAMoment, NamesDiffer DEF Directory, Adds, Changed
      <3> QED BY <1>4, <3>2, Added
    <2>5. ReplaceTypeOK'
      BY <1>2, <1>4, <2>2, <2>3, <2>4 DEF ReplaceTypeOK
    <2>6. Maker(t)' /\ ~Placer(t)' /\ ~Copier(t)'
      BY <1>1, <2>3 DEF Maker, Placer, Copier, MakingStages, PuttingStages
    <2>7. /\ LeavesOthers({t}, -1) /\ DirectoryIsSound' /\ EveryMomentIsWhole' /\ TemporariesAreKnown'
          /\ Dir'[name] = k /\ \A i \in DOMAIN entries' : entries'[i][Source] # k /\ entries'[i][Dest] # k
      <3>1. name \in TempNames \cup {Dest} /\ name # Dest
        BY NamesDiffer
      <3>2. Creates(t, name, f)
        BY <1>2, <1>3, <1>5, <2>3, <2>6, <3>1 DEF Creates
      <3> QED BY <1>1, <2>1, <2>5, <3>1, <3>2, FileCreated
    <2>8. TaskIsSound(t)'
      <3>1. StageOfKind(tasks[t])' /\ NothingDone(t)'
        BY <1>1, <1>3, <2>3 DEF StageOfKind, NothingDone, AtomicStages, InPlaceStages, MakingStages
      <3>2. TemporaryIsOwn(t)'
        <4>1. k \in 4 .. Len(nodes')
          BY <1>1, <1>4, <2>2
        <4> QED BY <2>3, <2>7, <4>1 DEF TemporaryIsOwn
      <3>3. TemporaryIsWhole(t)'
        <4>1. UnflushedCalls' \/ tasks'[t].flush
          BY <1>2, <1>3, <2>3 DEF UnflushedCalls, Requests
        <4>2. CASE empty
          BY <1>1, <2>1, <2>2, <2>3, <4>1, <4>2 DEF TemporaryIsWhole
        <4>3. CASE ~empty
          <5>1. 0 < Len(tasks[t].data)
            BY <1>3, <4>3 DEF empty
          <5> QED BY <1>1, <1>3, <2>3, <4>1, <4>3, <5>1 DEF TemporaryIsWhole
        <4> QED BY <4>2, <4>3
      <3>4. CopyIsExact(t)' /\ InPlaceIsOpen(t)'
        BY <1>1, <2>3, <2>6 DEF CopyIsExact, InPlaceIsOpen, InPlaceStages
      <3> QED BY <3>1, <3>2, <3>3, <3>4 DEF TaskIsSound
    <2>9. ASSUME NEW v \in Tasks PROVE Apart(t, v)' /\ Apart(v, t)'
      <3>1. CASE v = t
        BY <3>1 DEF Apart
      <3>2. CASE v # t
        <4>1. tasks'[v] = tasks[v]
          BY <2>3, <3>2
        <4>2. Maker(v)' \/ Placer(v)' => tasks[v].node \in 1 .. Len(nodes)
          BY <4>1, KnownFile DEF Maker, Placer
        <4>3. Maker(v)' \/ Placer(v)' => tasks'[v].node # tasks'[t].node
          BY <1>1, <1>4, <2>3, <4>1, <4>2
        <4> QED BY <2>6, <3>2, <4>3 DEF Apart, Copier
      <3> QED BY <3>1, <3>2
    <2>10. /\ \A u \in {t} : TaskIsSound(u)'
           /\ \A u \in {t}, v \in Tasks : Apart(u, v)' /\ Apart(v, u)'
           /\ CopiesHaveTheSize'
      BY <1>2, <2>8, <2>9 DEF ReplaceInv, CopiesHaveTheSize
    <2> QED BY <2>5, <2>7, <2>10, StepKeeps
  <1>6. CASE tasks' = [tasks EXCEPT ![t].attempt = @ + 1] /\ UNCHANGED <<nodes, entries>>
    <2>1. PICK r : r = [tasks[t] EXCEPT !.attempt = @ + 1]
      OBVIOUS
    <2>2. /\ r \in Task /\ r.pc = tasks[t].pc /\ r.kind = tasks[t].kind /\ r.done = tasks[t].done
          /\ r.flush = tasks[t].flush
      <3>1. tasks[t].attempt + 1 \in Nat
        BY TaskFields
      <3> QED BY <1>3, <2>1, <3>1 DEF Task
    <2>3. tasks' = [tasks EXCEPT ![t] = r]
      BY <1>4, <1>6, <2>1
    <2>4. /\ tasks' \in [Tasks -> Task] /\ tasks'[t] = r
          /\ \A u \in Tasks \ {t} : tasks'[u] = tasks[u]
      BY <2>2, <2>3, TaskReplaced DEF ReplaceInv
    <2>5. ReplaceTypeOK' /\ CopiesHaveTheSize'
      BY <1>2, <1>6, <2>4 DEF ReplaceInv, ReplaceTypeOK, CopiesHaveTheSize
    <2>6. ~Maker(t)' /\ ~Placer(t)' /\ ~Copier(t)'
      BY <1>2, <2>2, <2>4 DEF Maker, Placer, Copier, MakingStages, PuttingStages
    <2>7. TaskIsSound(t)'
      <3>1. UnflushedCalls' \/ tasks'[t].flush
        BY <1>2, <1>3, <2>2, <2>4 DEF UnflushedCalls, Requests
      <3>2. StageOfKind(tasks[t])' /\ NothingDone(t)' /\ TemporaryIsWhole(t)'
        BY <1>2, <1>3, <2>2, <2>4, <3>1 DEF StageOfKind, NothingDone, TemporaryIsWhole, AtomicStages, InPlaceStages
      <3>3. TemporaryIsOwn(t)' /\ CopyIsExact(t)' /\ InPlaceIsOpen(t)'
        BY <1>2, <2>2, <2>4, <2>6 DEF TemporaryIsOwn, CopyIsExact, InPlaceIsOpen, InPlaceStages
      <3> QED BY <3>2, <3>3 DEF TaskIsSound
    <2>8. OwnStep(t)
      BY <1>2, <1>3, <1>6, <2>4, <2>6, UntouchedRemembers DEF OwnStep
    <2> QED BY <2>5, <2>7, <2>8, OwnStepKeeps
  <1>7. CASE End(t) /\ UNCHANGED <<nodes, entries>>
    BY <1>2, <1>3, <1>4, <1>7, UntouchedRemembers, EndingKeeps
  <1> QED BY <1>2, <1>5, <1>6, <1>7

\* CreateTemporary keeps the invariant.
LEMMA CreateTemporaryKeeps ==
  ASSUME ReplaceInv, NEW t \in Tasks, NEW name \in TempNames, CreateTemporary(t, name)
  PROVE  ReplaceInv'
  <1>1. CASE LeftBehind(t, name) /\ history' = [history EXCEPT !.uncleaned = @ \cup {Len(nodes) + 1}]
    <2>1. Len(nodes) + 1 \in Nat /\ history \in History
      BY DEF ReplaceInv, ReplaceTypeOK
    <2>2. /\ history' \in History /\ history'.plan = history.plan /\ history'.crashed = history.crashed
          /\ history'.copied = history.copied /\ history.uncleaned \subseteq history'.uncleaned
          /\ Len(nodes) + 1 \in history'.uncleaned
      BY <1>1, <2>1 DEF History
    <2>3. ~Maker(t) /\ name # Dest
      BY NamesDiffer DEF CreateTemporary, Maker, MakingStages
    <2> QED BY <1>1, <2>2, <2>3, LeavingBehindKeeps
  <1>2. CASE ~(LeftBehind(t, name) /\ history' = [history EXCEPT !.uncleaned = @ \cup {Len(nodes) + 1}])
    BY <1>2, CreatingKeeps
  <1> QED BY <1>1, <1>2

\* The present directory names files there are.
LEMMA PresentNames ==
  ASSUME ReplaceInv, NEW name \in Names
  PROVE  /\ Dir[name] \in Nat /\ Dir[name] <= Len(nodes)
         /\ Dir[name] # None => Dir[name] \in 1 .. Len(nodes)
  <1>1. Len(entries) \in DOMAIN entries /\ entries[Len(entries)] = Dir /\ Dir \in Directory /\ Len(nodes) \in Nat
    BY PresentIsAMoment DEF ReplaceInv
  <1>2. Dir[name] \in Nat /\ Dir[name] <= Len(nodes)
    BY <1>1 DEF ReplaceInv, DirectoryIsSound, Directory
  <1> QED BY <1>1, <1>2 DEF None

\* A call gets the file at its destination.
LEMMA DestinationTaken ==
  ASSUME ReplaceTypeOK, NEW t \in Tasks, NEW p \in PuttingStages, NEW n \in Nat, NEW from \in Nat,
         TakesFile(t, p, "none", n, from)
  PROVE  /\ tasks' \in [Tasks -> Task] /\ tasks'[t].pc = p /\ tasks'[t].node = n
         /\ tasks'[t].from = from /\ tasks'[t].kind = tasks[t].kind /\ tasks'[t].data = tasks[t].data
         /\ tasks'[t].done = tasks[t].done
         /\ \A u \in Tasks \ {t} : tasks'[u] = tasks[u]
  <1>1. PICK name \in TempNames \cup {"none"} : name = "none"
    OBVIOUS
  <1>2. PICK q \in AtomicStages \cup InPlaceStages : q = p
    BY DEF PuttingStages, InPlaceStages
  <1>3. TakesFile(t, q, name, n, from)
    BY <1>1, <1>2
  <1>4. /\ tasks' \in [Tasks -> Task] /\ tasks'[t].pc = q /\ tasks'[t].node = n
        /\ tasks'[t].from = from /\ tasks'[t].kind = tasks[t].kind /\ tasks'[t].data = tasks[t].data
        /\ tasks'[t].done = tasks[t].done
        /\ \A u \in Tasks \ {t} : tasks'[u] = tasks[u]
    BY <1>3, FileTaken
  <1> QED BY <1>2, <1>4

\* A call that opens its destination is sound then.
LEMMA OpenedIsSound ==
  ASSUME ReplaceInv, NEW t \in Tasks, tasks[t].pc = "opening", UNCHANGED history,
         NEW p \in PuttingStages, NEW n \in 1 .. Len(nodes'), NEW from \in Nat, TakesFile(t, p, "none", n, from),
         p = "putting" \/ tasks[t].kind # "copy",
         p = "putting" /\ tasks[t].kind # "copy" => tasks[t].data # <<>>,
         tasks[t].kind = "copy" => /\ nodes'[n].holder = t /\ nodes'[n].data = <<>> /\ from \in 1 .. Len(nodes')
  PROVE  /\ TaskIsSound(t)' /\ tasks' \in [Tasks -> Task]
         /\ ~Maker(t)' /\ Placer(t)' /\ tasks'[t].kind = tasks[t].kind /\ tasks'[t].node = n
         /\ \A u \in Tasks \ {t} : tasks'[u] = tasks[u]
  <1>1. /\ tasks' \in [Tasks -> Task] /\ tasks'[t].pc = p /\ tasks'[t].node = n
        /\ tasks'[t].from = from /\ tasks'[t].kind = tasks[t].kind /\ tasks'[t].data = tasks[t].data
        /\ tasks'[t].done = tasks[t].done
        /\ \A u \in Tasks \ {t} : tasks'[u] = tasks[u]
    <2>1. ReplaceTypeOK /\ n \in Nat
      BY DEF ReplaceInv
    <2> QED BY <2>1, DestinationTaken
  <1>2. ~Maker(t)' /\ Placer(t)'
    BY <1>1 DEF Maker, Placer, PuttingStages, MakingStages
  <1>3. /\ TaskIsSound(t) /\ tasks[t].kind \in {"write", "append", "copy"} /\ InPlaceCalls /\ tasks[t].done = 0
        /\ tasks[t].data \in Seq(Int)
    <2>1. TaskIsSound(t) /\ tasks[t].data \in Seq(Int)
      BY TaskFields
    <2>2. tasks[t].kind \in {"write", "append", "copy"}
      BY KindOfStage DEF InPlaceStages
    <2> QED BY <2>1, <2>2 DEF TaskIsSound, NothingDone, InPlaceIsOpen, InPlaceStages
  <1>4. InPlaceCalls'
    BY <1>3 DEF InPlaceCalls, Requests
  <1>5. StageOfKind(tasks[t])' /\ NothingDone(t)'
    BY <1>1, <1>3 DEF StageOfKind, NothingDone, PuttingStages, AtomicStages, MakingStages, InPlaceStages
  <1>6. TemporaryIsOwn(t)' /\ TemporaryIsWhole(t)'
    BY <1>1, <1>2, <1>3 DEF TemporaryIsOwn, TemporaryIsWhole, PuttingStages
  <1>7. CopyIsExact(t)'
    BY <1>1, <1>3 DEF CopyIsExact, Copier
  <1>8. InPlaceIsOpen(t)'
    <2>1. p = "putting" /\ tasks[t].kind # "copy" => 0 < Len(tasks[t].data)
      BY <1>3
    <2> QED BY <1>1, <1>3, <1>4, <2>1 DEF InPlaceIsOpen, Copier
  <1> QED BY <1>1, <1>2, <1>5, <1>6, <1>7, <1>8 DEF TaskIsSound

\* A file that is in place and not held is no temporary file, and no call copies into it.
LEMMA FreeInPlace ==
  ASSUME ReplaceInv, NEW u \in Tasks, Maker(u) \/ Copier(u), NEW name \in {Dest, Source}, Dir[name] # None,
         Unheld(Dir[name])
  PROVE  tasks[u].node # Dir[name]
  <1>1. TaskIsSound(u) /\ u # None
    BY FileReplacementAssumption DEF ReplaceInv, None
  <1>2. CASE Maker(u)
    BY <1>1, <1>2, PresentIsAMoment DEF ReplaceInv, TaskIsSound, TemporaryIsOwn
  <1>3. CASE Copier(u)
    BY <1>1, <1>3 DEF TaskIsSound, CopyIsExact, Unheld
  <1> QED BY <1>2, <1>3

\* OpenInPlace keeps the invariant, unless it leaves a file behind.
LEMMA OpeningKeeps ==
  ASSUME ReplaceInv, NEW t \in Tasks, OpenInPlace(t), ~LeftBehind(t, Dest)
  PROVE  ReplaceInv'
  <1> DEFINE copy == tasks[t].kind = "copy"
  <1>1. PICK holder, from, p, k, at :
          /\ holder = (IF copy THEN t ELSE None) /\ from = (IF copy THEN Dir[Source] ELSE None)
          /\ p = (IF ~copy /\ tasks[t].data = <<>> THEN "ending" ELSE "putting")
          /\ k = Len(nodes) + 1 /\ at = Dir[Dest]
    OBVIOUS
  <1>2. PICK f : f = NewNode(holder, FALSE)
    OBVIOUS
  <1>3. /\ tasks[t].pc = "opening" /\ UNCHANGED history
        /\ \/ /\ Dir[Dest] = None
              /\ copy => Dir[Source] # None
              /\ nodes' = Append(nodes, f) /\ entries' = Changed(Dest, Len(nodes) + 1)
              /\ TakesFile(t, p, "none", k, from)
           \/ /\ Dir[Dest] # None /\ Unheld(Dir[Dest])
              /\ copy => Dir[Source] # None /\ Unused(Dir[Dest])
              /\ nodes' = IF tasks[t].kind = "append" THEN nodes ELSE [nodes EXCEPT ![at] = f]
              /\ TakesFile(t, p, "none", at, from)
              /\ UNCHANGED entries
           \/ End(t) /\ UNCHANGED <<nodes, entries>>
    BY <1>1, <1>2 DEF OpenInPlace, TakesFile
  <1>4. /\ ReplaceTypeOK /\ Len(nodes) \in Nat /\ Len(nodes) >= 3 /\ nodes \in Seq(File)
        /\ entries \in Seq(Directory) /\ entries # <<>> /\ history \in History
    BY DEF ReplaceInv, ReplaceTypeOK
  <1>5. /\ ~Maker(t) /\ ~Placer(t) /\ ~Copier(t) /\ InPlaceCalls /\ tasks[t].kind \in {"write", "append", "copy"}
    <2>1. TaskIsSound(t) /\ tasks[t].kind \in {"write", "append", "copy"}
      BY <1>3, TaskFields, KindOfStage DEF InPlaceStages
    <2> QED BY <1>3, <2>1 DEF TaskIsSound, InPlaceIsOpen, InPlaceStages, Maker, Placer, Copier, MakingStages, PuttingStages
  <1>6. /\ f \in File /\ (copy => f.holder = t) /\ f.data = <<>>
    BY <1>1, <1>2 DEF NewNode, File, None
  <1>7. /\ p \in PuttingStages /\ from \in Nat
        /\ (copy /\ Dir[Source] # None => from \in 1 .. Len(nodes))
        /\ (p = "putting" \/ ~copy) /\ (p = "putting" /\ ~copy => tasks[t].data # <<>>)
    <2>1. Dir[Source] \in Nat /\ (Dir[Source] # None => Dir[Source] \in 1 .. Len(nodes))
      BY PresentNames, NamesDiffer
    <2> QED BY <1>1, <2>1 DEF PuttingStages, None
  <1>11. tasks[t].pc = "opening" /\ UNCHANGED history /\ history \in History
    BY <1>3, <1>4
  <1> HIDE DEF copy
  <1>8. CASE /\ Dir[Dest] = None
             /\ copy => Dir[Source] # None
             /\ nodes' = Append(nodes, f) /\ entries' = Changed(Dest, Len(nodes) + 1)
             /\ TakesFile(t, p, "none", k, from)
    <2>1. /\ nodes' \in Seq(File) /\ Len(nodes') = k /\ nodes'[k] = f
          /\ \A n \in 1 .. Len(nodes) : nodes'[n] = nodes[n]
      BY <1>1, <1>4, <1>6, <1>8, FileAppended
    <2>2. k \in 1 .. Len(nodes') /\ (copy => from \in 1 .. Len(nodes'))
      BY <1>1, <1>4, <1>7, <1>8, <2>1
    <2>3. /\ TaskIsSound(t)' /\ tasks' \in [Tasks -> Task]
          /\ ~Maker(t)' /\ Placer(t)' /\ tasks'[t].kind = tasks[t].kind /\ tasks'[t].node = k
          /\ \A u \in Tasks \ {t} : tasks'[u] = tasks[u]
      BY <1>3, <1>6, <1>7, <1>8, <2>1, <2>2, OpenedIsSound DEF copy
    <2>4. entries' \in Seq(Directory) /\ entries' # <<>>
      <3>1. PICK d : d = [Dir EXCEPT ![Dest] = k]
        OBVIOUS
      <3>2. d \in Directory /\ Adds(d)
        BY <1>1, <1>4, <1>8, <3>1, PresentIsAMoment, NamesDiffer DEF Directory, Adds, Changed
      <3> QED BY <1>4, <3>2, Added
    <2>5. ReplaceTypeOK'
      BY <1>3, <1>4, <2>1, <2>3, <2>4 DEF ReplaceTypeOK
    <2>6. LeavesOthers({t}, -1) /\ DirectoryIsSound' /\ EveryMomentIsWhole' /\ TemporariesAreKnown'
      <3>1. Creates(t, Dest, f)
        BY <1>3, <1>5, <1>8, <2>3 DEF Creates
      <3> QED BY <1>6, <2>5, <3>1, FileCreated
    <2>7. ASSUME NEW v \in Tasks PROVE Apart(t, v)' /\ Apart(v, t)'
      <3>1. CASE v = t
        BY <3>1 DEF Apart
      <3>2. CASE v # t
        <4>1. tasks'[v] = tasks[v]
          BY <2>3, <3>2
        <4>2. Maker(v)' \/ Placer(v)' => tasks[v].node \in 1 .. Len(nodes)
          BY <4>1, KnownFile DEF Maker, Placer
        <4>3. Maker(v)' \/ Placer(v)' => tasks'[v].node # tasks'[t].node
          BY <1>1, <1>4, <2>3, <4>1, <4>2
        <4> QED BY <2>3, <3>2, <4>3 DEF Apart, Copier
      <3> QED BY <3>1, <3>2
    <2>8. /\ \A u \in {t} : TaskIsSound(u)'
          /\ \A u \in {t}, v \in Tasks : Apart(u, v)' /\ Apart(v, u)'
          /\ CopiesHaveTheSize'
      BY <1>3, <2>3, <2>7 DEF ReplaceInv, CopiesHaveTheSize
    <2> QED BY <2>5, <2>6, <2>8, StepKeeps
  <1>9. CASE /\ Dir[Dest] # None /\ Unheld(Dir[Dest])
             /\ copy => Dir[Source] # None /\ Unused(Dir[Dest])
             /\ nodes' = IF tasks[t].kind = "append" THEN nodes ELSE [nodes EXCEPT ![at] = f]
             /\ TakesFile(t, p, "none", at, from)
             /\ UNCHANGED entries
    <2>1. at \in 1 .. Len(nodes)
      BY <1>1, <1>9, PresentNames, NamesDiffer
    <2>2. OnlyFileChanges(at) /\ (copy => nodes'[at] = f)
      <3>1. CASE tasks[t].kind = "append"
        BY <1>4, <1>9, <3>1 DEF OnlyFileChanges, copy
      <3>2. CASE tasks[t].kind # "append"
        <4>1. nodes' = [nodes EXCEPT ![at] = f]
          BY <1>9, <3>2
        <4> QED BY <1>4, <1>6, <2>1, <4>1, FileReplaced
      <3> QED BY <3>1, <3>2
    <2>3. /\ at \in 1 .. Len(nodes') /\ (copy => from \in 1 .. Len(nodes'))
          /\ nodes' \in Seq(File) /\ Len(nodes') = Len(nodes)
          /\ \A n \in 1 .. Len(nodes) : n # at => nodes'[n] = nodes[n]
      BY <1>7, <1>9, <2>1, <2>2 DEF OnlyFileChanges
    <2>4. /\ TaskIsSound(t)' /\ tasks' \in [Tasks -> Task]
          /\ ~Maker(t)' /\ Placer(t)' /\ tasks'[t].kind = tasks[t].kind /\ tasks'[t].node = at
          /\ \A u \in Tasks \ {t} : tasks'[u] = tasks[u]
      <3>1. TakesFile(t, p, "none", at, from)
        BY <1>9
      <3>2. tasks[t].kind = "copy" => /\ nodes'[at].holder = t /\ nodes'[at].data = <<>> /\ from \in 1 .. Len(nodes')
        BY <1>6, <2>2, <2>3 DEF copy
      <3>3. /\ p \in PuttingStages /\ from \in Nat /\ at \in 1 .. Len(nodes')
            /\ (p = "putting" \/ tasks[t].kind # "copy")
            /\ (p = "putting" /\ tasks[t].kind # "copy" => tasks[t].data # <<>>)
        BY <1>7, <2>3 DEF copy
      <3> QED BY <1>11, <3>1, <3>2, <3>3, OpenedIsSound
    <2>5. ReplaceTypeOK'
      <3>1. entries' \in Seq(Directory) /\ entries' # <<>>
        BY <1>4, <1>9
      <3> QED BY <1>11, <2>3, <2>4, <3>1 DEF ReplaceTypeOK
    <2>6. ASSUME NEW u \in Tasks, Maker(u) \/ Copier(u) PROVE tasks[u].node # at
      BY <1>1, <1>9, <2>6, FreeInPlace
    <2>7. LeavesOthers({t}, at)
      <3>1. ASSUME NEW u \in Tasks \ {t}, Maker(u)
            PROVE  /\ Dir'[tasks[u].temp] = tasks[u].node
                   /\ \A i \in DOMAIN entries' : entries'[i][Dest] # tasks[u].node /\ entries'[i][Source] # tasks[u].node
        <4>1. TemporaryIsOwn(u) /\ Dir' = Dir
          BY <1>9 DEF ReplaceInv, TaskIsSound, Dir
        <4> QED BY <1>9, <3>1, <4>1 DEF TemporaryIsOwn
      <3>2. Len(nodes') >= Len(nodes) /\ history'.plan = history.plan
        BY <1>3, <1>4, <2>3
      <3> QED BY <2>3, <2>4, <2>6, <3>1, <3>2 DEF LeavesOthers
    <2>8. DirectoryIsSound' /\ EveryMomentIsWhole' /\ TemporariesAreKnown'
      <3>1. \A u \in {t} : Maker(u) => \/ Maker(u)' /\ tasks'[u].temp = tasks[u].temp
                                   \/ tasks[u].node \in history'.uncleaned
        BY <1>5
      <3>2. Remembers /\ history'.crashed = history.crashed /\ history.uncleaned \subseteq history'.uncleaned
        BY <1>3, <1>9, UntouchedRemembers
      <3> QED BY <1>5, <2>5, <2>7, <3>1, <3>2, DirectoryIsKept
    <2>9. ASSUME NEW v \in Tasks PROVE Apart(t, v)' /\ Apart(v, t)'
      <3>1. CASE v = t
        BY <3>1 DEF Apart
      <3>2. CASE v # t
        <4>1. tasks'[v] = tasks[v]
          BY <2>4, <3>2
        <4>2. /\ Maker(v)' <=> Maker(v)
              /\ Placer(v)' <=> Placer(v)
              /\ Copier(v)' <=> Copier(v)
          BY <4>1 DEF Maker, Placer, Copier
        <4>3. Copier(t)' => copy
          BY <2>4 DEF Copier, copy
        <4>4. copy /\ Placer(v) => tasks[v].node # at
          BY <1>1, <1>9 DEF Unused, Placer, PuttingStages
        <4>5. Maker(v) \/ Copier(v) => tasks[v].node # at
          BY <2>6
        <4> QED BY <2>4, <3>2, <4>1, <4>2, <4>3, <4>4, <4>5 DEF Apart
      <3> QED BY <3>1, <3>2
    <2>10. /\ \A u \in {t} : TaskIsSound(u)'
           /\ \A u \in {t}, v \in Tasks : Apart(u, v)' /\ Apart(v, u)'
           /\ CopiesHaveTheSize'
      BY <1>3, <2>4, <2>9 DEF ReplaceInv, CopiesHaveTheSize
    <2> QED BY <2>5, <2>7, <2>8, <2>10, StepKeeps
  <1>10. CASE End(t) /\ UNCHANGED <<nodes, entries>>
    BY <1>3, <1>4, <1>5, <1>10, UntouchedRemembers, EndingKeeps
  <1> QED BY <1>3, <1>8, <1>9, <1>10

\* OpenInPlace keeps the invariant.
LEMMA OpenInPlaceKeeps ==
  ASSUME ReplaceInv, NEW t \in Tasks, OpenInPlace(t)
  PROVE  ReplaceInv'
  <1>1. tasks[t].pc = "opening" /\ UNCHANGED history /\ history \in History
    BY DEF OpenInPlace, ReplaceInv, ReplaceTypeOK
  <1>2. InPlaceCalls /\ ~Maker(t)
    <2>1. TaskIsSound(t)
      BY TaskFields
    <2> QED BY <1>1, <2>1 DEF TaskIsSound, InPlaceIsOpen, InPlaceStages, Maker, MakingStages
  <1>3. CASE LeftBehind(t, Dest)
    BY <1>1, <1>2, <1>3, LeavingBehindKeeps
  <1>4. CASE ~LeftBehind(t, Dest)
    BY <1>4, OpeningKeeps
  <1> QED BY <1>3, <1>4

-----------------------------------------------------------------------------
(* Moves, removals and crashes *)

\* A directory without the temporary file of call t, with that file or what was there at the destination.
LEMMA TemporaryGone ==
  ASSUME ReplaceInv, ReplaceTypeOK', NEW t \in Tasks, Maker(t), NEW d \in Directory, Adds(d),
         OnlyFileChanges(tasks[t].node),
         \A u \in Tasks \ {t} : tasks'[u] = tasks[u],
         history'.plan = history.plan, history'.crashed = history.crashed, history'.uncleaned = history.uncleaned,
         d[tasks[t].temp] = None,
         \A name \in Names \ {Dest, tasks[t].temp} : d[name] = Dir[name],
         d[Dest] \in {Dir[Dest], tasks[t].node}
  PROVE  LeavesOthers({t}, tasks[t].node) /\ DirectoryIsSound' /\ TemporariesAreKnown'
  <1>1. PICK m, temp : m = tasks[t].node /\ temp = tasks[t].temp
    OBVIOUS
  <1>2. /\ m \in 1 .. Len(nodes) /\ m >= 4 /\ temp \in TempNames /\ Dir[temp] = m /\ Len(nodes) \in Nat
        /\ temp # Dest /\ temp # Source
    <2>1. m \in 1 .. Len(nodes) /\ m >= 4 /\ temp \in TempNames
      BY <1>1, TemporaryOf
    <2>2. Dir[temp] = m
      BY <1>1 DEF ReplaceInv, TaskIsSound, TemporaryIsOwn
    <2> QED BY <2>1, <2>2, PresentIsAMoment, NamesDiffer DEF ReplaceInv
  <1>3. /\ Len(nodes') = Len(nodes) /\ \A n \in 1 .. Len(nodes) : n # m => nodes'[n] = nodes[n]
    BY <1>1 DEF OnlyFileChanges
  <1>4. /\ d[temp] = None /\ \A name \in Names \ {Dest, temp} : d[name] = Dir[name]
        /\ d[Dest] \in {Dir[Dest], m}
    BY <1>1
  <1>5. \A u \in Tasks \ {t} : Maker(u) \/ Copier(u) => tasks[u].node # m
    BY <1>1, OwnFile
  <1>6. ASSUME NEW u \in Tasks \ {t}, Maker(u)
        PROVE  d[tasks[u].temp] = tasks[u].node /\ d[Dest] # tasks[u].node /\ d[Source] # tasks[u].node
    <2>1. PICK n, x : n = tasks[u].node /\ x = tasks[u].temp
      OBVIOUS
    <2>2. x \in TempNames /\ Dir[x] = n /\ Dir[Dest] # n /\ Dir[Source] # n /\ n # m
      BY <1>5, <1>6, <2>1, PresentIsAMoment DEF ReplaceInv, TaskIsSound, TemporaryIsOwn
    <2>3. x # temp /\ x # Dest /\ x \in Names
      BY <1>2, <2>2, NamesDiffer
    <2> QED BY <1>2, <1>4, <2>1, <2>2, <2>3, NamesDiffer
  <1>7. LeavesOthers({t}, m)
    <2>1. Len(nodes') >= Len(nodes)
      BY <1>2, <1>3
    <2> QED BY <1>3, <1>5, <1>6, <2>1, AddedLeaves
  <1>8. DirectoryIsSound'
    <2>1. DirectoryFits(d)'
      <3>1. ASSUME NEW x \in Names PROVE d[x] <= Len(nodes')
        <4>1. Dir[x] \in Nat /\ Dir[x] <= Len(nodes)
          BY PresentNames
        <4>2. d[x] \in {Dir[x], m, None}
          BY <1>4
        <4> QED BY <1>2, <1>3, <4>1, <4>2 DEF None
      <3>2. PICK x \in TempNames : Dir[x] = 3
        BY PresentIsAMoment DEF ReplaceInv, DirectoryIsSound
      <3>3. x # temp /\ x # Dest /\ x \in Names
        BY <1>2, <3>2, NamesDiffer
      <3>4. d[x] = 3
        BY <1>4, <3>2, <3>3
      <3> QED BY <3>1, <3>4 DEF DirectoryFits
    <2>2. Len(nodes') >= Len(nodes)
      BY <1>2, <1>3
    <2> QED BY <2>1, <2>2, DirectoryStaysSound
  <1>9. TemporariesAreKnown'
    <2>1. ASSUME NEW x \in TempNames, d[x] # None
          PROVE  d[x] = Dir[x] /\ \A u \in {t} : ~(Maker(u) /\ tasks[u].temp = x)
      <3>1. x # temp /\ x \in Names /\ x # Dest
        BY <1>4, <2>1, NamesDiffer
      <3> QED BY <1>1, <1>4, <3>1
    <2>2. \A x \in TempNames : d[x] # None =>
            \/ d[x] = Dir[x] /\ \A u \in {t} : ~(Maker(u) /\ tasks[u].temp = x)
            \/ d[x] \in history'.uncleaned
            \/ \E u \in {t} : Maker(u)' /\ tasks'[u].temp = x
      BY <2>1
    <2>3. {t} \in SUBSET Tasks /\ history.uncleaned \subseteq history'.uncleaned
      OBVIOUS
    <2> QED BY <2>2, <2>3, AddedKnown
  <1> QED BY <1>1, <1>7, <1>8, <1>9

\* MoveIntoPlace keeps the invariant.
LEMMA MoveIntoPlaceKeeps ==
  ASSUME ReplaceInv, NEW t \in Tasks, MoveIntoPlace(t)
  PROVE  ReplaceInv'
  <1>1. PICK m, temp : m = tasks[t].node /\ temp = tasks[t].temp
    OBVIOUS
  <1>2. /\ tasks[t].kind = "atomic" /\ tasks[t].pc = "moving" /\ UNCHANGED <<nodes, history>>
        /\ \/ /\ entries' = Renamed(temp, Dest)
              /\ tasks' = [tasks EXCEPT ![t].pc = "parent"] \/ End(t)
           \/ /\ tasks' = [tasks EXCEPT ![t].pc = "cleaning"]
              /\ UNCHANGED entries
    BY <1>1 DEF MoveIntoPlace
  <1>3. /\ Maker(t) /\ m \in 1 .. Len(nodes) /\ nodes[m].whole /\ (UnflushedCalls \/ nodes[m].synced)
        /\ (UnflushedCalls \/ tasks[t].flush)
    BY <1>1, <1>2, WriterKnows
  <1>4. temp \in TempNames /\ Dir[temp] = m /\ temp # Dest /\ temp # Source /\ temp \in Names
    BY <1>1, <1>3, TemporaryOf, NamesDiffer DEF ReplaceInv, TaskIsSound, TemporaryIsOwn
  <1>5. ReplaceTypeOK /\ nodes \in Seq(File) /\ history \in History /\ Dir \in Directory /\ Len(nodes) \in Nat
    BY PresentIsAMoment DEF ReplaceInv, ReplaceTypeOK
  <1>6. CASE /\ entries' = Renamed(temp, Dest)
             /\ tasks' = [tasks EXCEPT ![t].pc = "parent"] \/ End(t)
    <2>1. PICK d : d = [Dir EXCEPT ![Dest] = Dir[temp], ![temp] = None]
      OBVIOUS
    <2>2. /\ d \in Directory /\ Adds(d) /\ d[temp] = None /\ d[Dest] = m
          /\ \A name \in Names \ {Dest, temp} : d[name] = Dir[name]
      <3>1. d \in Directory
        BY <1>4, <1>5, <2>1 DEF Directory, None
      <3>2. Adds(d)
        BY <1>6, <2>1 DEF Renamed, Adds
      <3>3. d[temp] = None /\ d[Dest] = m /\ \A name \in Names \ {Dest, temp} : d[name] = Dir[name]
        BY <1>4, <1>5, <2>1, NamesDiffer DEF Directory
      <3> QED BY <3>1, <3>2, <3>3
    <2>3. /\ tasks' \in [Tasks -> Task] /\ TaskIsSound(t)' /\ ~Maker(t)' /\ ~Placer(t)' /\ ~Copier(t)'
          /\ \A u \in Tasks \ {t} : tasks'[u] = tasks[u]
      <3>1. CASE End(t)
        BY <1>5, <3>1, Ended
      <3>2. CASE tasks' = [tasks EXCEPT ![t].pc = "parent"]
        <4>1. /\ tasks' \in [Tasks -> Task] /\ tasks'[t].pc = "parent" /\ tasks'[t].kind = tasks[t].kind
              /\ tasks'[t].flush = tasks[t].flush
              /\ \A u \in Tasks \ {t} : tasks'[u] = tasks[u]
          <5>1. "parent" \in {"idle"} \cup AtomicStages \cup InPlaceStages
            BY DEF AtomicStages
          <5> QED BY <1>5, <3>2, <5>1, StageReached
        <4>2. ~Maker(t)' /\ ~Placer(t)' /\ ~Copier(t)'
          BY <4>1 DEF Maker, Placer, Copier, MakingStages, PuttingStages
        <4>3. UnflushedCalls' \/ tasks'[t].flush
          BY <1>2, <1>3, <4>1 DEF UnflushedCalls, Requests
        <4>4. StageOfKind(tasks[t])' /\ NothingDone(t)' /\ TemporaryIsWhole(t)'
          BY <1>2, <4>1, <4>3 DEF StageOfKind, NothingDone, TemporaryIsWhole, AtomicStages, InPlaceStages
        <4>5. TemporaryIsOwn(t)' /\ CopyIsExact(t)' /\ InPlaceIsOpen(t)'
          BY <4>1, <4>2 DEF TemporaryIsOwn, CopyIsExact, InPlaceIsOpen, InPlaceStages
        <4> QED BY <4>1, <4>2, <4>4, <4>5 DEF TaskIsSound
      <3> QED BY <1>6, <3>1, <3>2
    <2>4. ReplaceTypeOK'
      <3>1. entries' \in Seq(Directory) /\ entries' # <<>>
        BY <1>5, <2>2, Added
      <3> QED BY <1>2, <1>5, <2>3, <3>1 DEF ReplaceTypeOK
    <2>5. OnlyFileChanges(m)
      BY <1>2, <1>5 DEF OnlyFileChanges
    <2>6. LeavesOthers({t}, m) /\ DirectoryIsSound' /\ TemporariesAreKnown'
      <3>1. /\ OnlyFileChanges(tasks[t].node) /\ d[tasks[t].temp] = None
            /\ \A name \in Names \ {Dest, tasks[t].temp} : d[name] = Dir[name]
            /\ d[Dest] \in {Dir[Dest], tasks[t].node}
        BY <1>1, <2>2, <2>5
      <3>2. history'.plan = history.plan /\ history'.crashed = history.crashed /\ history'.uncleaned = history.uncleaned
        BY <1>2
      <3> QED BY <1>1, <1>3, <2>2, <2>3, <2>4, <3>1, <3>2, TemporaryGone
    <2>7. EveryMomentIsWhole'
      <3>1. ASSUME ~InPlaceCalls, history.crashed => ~UnflushedCalls, NEW x \in {Dest, Source}, d[x] # None
            PROVE  d[x] \in 1 .. Len(nodes) /\ Good(d[x])
        <4>1. CASE x = Dest
          BY <1>3, <2>2, <4>1 DEF Good
        <4>2. CASE x = Source
          <5>1. d[x] = Dir[x] /\ Dir[x] \in 1 .. Len(nodes)
            BY <1>4, <2>2, <3>1, <4>2, NamesDiffer, PresentNames
          <5>2. Good(Dir[x])
            BY <3>1, <5>1, PresentIsAMoment DEF ReplaceInv, EveryMomentIsWhole
          <5> QED BY <5>1, <5>2
        <4> QED BY <4>1, <4>2
      <3>2. Len(nodes') >= Len(nodes) /\ \A n \in 1 .. Len(nodes) : nodes'[n] = nodes[n]
        BY <1>2, <1>5
      <3> QED BY <1>2, <2>2, <2>4, <3>1, <3>2, MomentsStayWhole
    <2>8. /\ \A u \in {t} : TaskIsSound(u)'
          /\ \A u \in {t}, v \in Tasks : Apart(u, v)' /\ Apart(v, u)'
          /\ CopiesHaveTheSize'
      BY <1>2, <2>3 DEF ReplaceInv, CopiesHaveTheSize, Apart
    <2> QED BY <2>4, <2>6, <2>7, <2>8, StepKeeps
  <1>7. CASE tasks' = [tasks EXCEPT ![t].pc = "cleaning"] /\ UNCHANGED entries
    BY <1>2, <1>3, <1>7, GivingUpKeeps
  <1> QED BY <1>2, <1>6, <1>7

\* CleanTemporary keeps the invariant.
LEMMA CleanTemporaryKeeps ==
  ASSUME ReplaceInv, NEW t \in Tasks, CleanTemporary(t)
  PROVE  ReplaceInv'
  <1>1. PICK m, temp : m = tasks[t].node /\ temp = tasks[t].temp
    OBVIOUS
  <1>2. /\ tasks[t].pc = "cleaning" /\ nodes' = Drop(m) /\ End(t)
        /\ \/ entries' = Changed(temp, None) /\ history' = history
           \/ history' = [history EXCEPT !.uncleaned = @ \cup {m}] /\ entries' = entries
    BY <1>1 DEF CleanTemporary
  <1>3. Maker(t) /\ m \in 1 .. Len(nodes) /\ temp \in TempNames /\ m >= 4
    BY <1>1, <1>2, TemporaryOf DEF Maker, MakingStages
  <1>4. Dir[temp] = m /\ temp # Dest /\ temp # Source /\ temp \in Names
    BY <1>1, <1>3, NamesDiffer DEF ReplaceInv, TaskIsSound, TemporaryIsOwn
  <1>5. /\ ReplaceTypeOK /\ nodes \in Seq(File) /\ history \in History /\ Dir \in Directory /\ Len(nodes) \in Nat
        /\ entries \in Seq(Directory) /\ entries # <<>>
    BY PresentIsAMoment DEF ReplaceInv, ReplaceTypeOK
  <1>6. /\ OnlyFileChanges(m) /\ nodes'[m].whole = nodes[m].whole /\ nodes'[m].synced = nodes[m].synced
    BY <1>2, <1>3, <1>5, Dropped
  <1>7. /\ tasks' \in [Tasks -> Task] /\ TaskIsSound(t)' /\ ~Maker(t)' /\ ~Placer(t)' /\ ~Copier(t)'
        /\ \A u \in Tasks \ {t} : tasks'[u] = tasks[u]
    BY <1>2, <1>5, Ended
  <1>8. /\ \A u \in {t} : TaskIsSound(u)'
        /\ \A u \in {t}, v \in Tasks : Apart(u, v)' /\ Apart(v, u)'
    BY <1>7 DEF Apart
  <1>9. CASE entries' = Changed(temp, None) /\ history' = history
    <2>1. PICK d : d = [Dir EXCEPT ![temp] = None]
      OBVIOUS
    <2>2. /\ d \in Directory /\ Adds(d) /\ d[temp] = None /\ d[Dest] = Dir[Dest]
          /\ \A name \in Names \ {Dest, temp} : d[name] = Dir[name]
      <3>1. d \in Directory
        BY <1>4, <1>5, <2>1 DEF Directory, None
      <3>2. Adds(d)
        BY <1>9, <2>1 DEF Changed, Adds
      <3>3. d[temp] = None /\ d[Dest] = Dir[Dest] /\ \A name \in Names \ {Dest, temp} : d[name] = Dir[name]
        BY <1>4, <1>5, <2>1, NamesDiffer DEF Directory
      <3> QED BY <3>1, <3>2, <3>3
    <2>3. ReplaceTypeOK'
      <3>1. entries' \in Seq(Directory) /\ entries' # <<>>
        BY <1>5, <2>2, Added
      <3> QED BY <1>5, <1>6, <1>7, <1>9, <3>1 DEF ReplaceTypeOK, OnlyFileChanges
    <2>4. LeavesOthers({t}, m) /\ DirectoryIsSound' /\ TemporariesAreKnown'
      <3>1. /\ OnlyFileChanges(tasks[t].node) /\ d[tasks[t].temp] = None
            /\ \A name \in Names \ {Dest, tasks[t].temp} : d[name] = Dir[name]
            /\ d[Dest] \in {Dir[Dest], tasks[t].node}
        BY <1>1, <1>6, <2>2
      <3>2. history'.plan = history.plan /\ history'.crashed = history.crashed /\ history'.uncleaned = history.uncleaned
        BY <1>9
      <3> QED BY <1>1, <1>3, <1>7, <2>2, <2>3, <3>1, <3>2, TemporaryGone
    <2>5. EveryMomentIsWhole'
      <3>1. ASSUME ~InPlaceCalls, history.crashed => ~UnflushedCalls, NEW x \in {Dest, Source}, d[x] # None
            PROVE  d[x] \in 1 .. Len(nodes) /\ Good(d[x])
        <4>1. d[x] = Dir[x] /\ Dir[x] \in 1 .. Len(nodes)
          <5>1. x \in Names /\ x # temp
            BY <1>4, NamesDiffer
          <5>2. d[x] = Dir[x]
            BY <2>2, <5>1
          <5> QED BY <3>1, <5>1, <5>2, PresentNames
        <4>2. Good(Dir[x])
          BY <3>1, <4>1, PresentIsAMoment DEF ReplaceInv, EveryMomentIsWhole
        <4> QED BY <4>1, <4>2
      <3>2. Len(nodes') >= Len(nodes)
        BY <1>5, <1>6 DEF OnlyFileChanges
      <3>3. ASSUME NEW n \in 1 .. Len(nodes), Good(n) PROVE nodes'[n].whole /\ (UnflushedCalls \/ nodes'[n].synced)
        <4>1. CASE n = m
          BY <1>6, <3>3, <4>1 DEF Good
        <4>2. CASE n # m
          BY <1>6, <3>3, <4>2 DEF Good, OnlyFileChanges
        <4> QED BY <4>1, <4>2
      <3> QED BY <1>9, <2>2, <2>3, <3>1, <3>2, <3>3, MomentsKeptWhole
    <2>6. CopiesHaveTheSize'
      BY <1>9 DEF ReplaceInv, CopiesHaveTheSize
    <2> QED BY <1>8, <2>3, <2>4, <2>5, <2>6, StepKeeps
  <1>10. CASE history' = [history EXCEPT !.uncleaned = @ \cup {m}] /\ entries' = entries
    <2>1. /\ history' \in History /\ history'.plan = history.plan /\ history'.crashed = history.crashed
          /\ history'.copied = history.copied /\ m \in history'.uncleaned /\ history.uncleaned \subseteq history'.uncleaned
      BY <1>3, <1>5, <1>10 DEF History
    <2>2. ReplaceTypeOK'
      BY <1>5, <1>6, <1>7, <1>10, <2>1 DEF ReplaceTypeOK, OnlyFileChanges
    <2>3. LeavesOthers({t}, m)
      <3>1. ASSUME NEW u \in Tasks \ {t}, Maker(u)
            PROVE  /\ Dir'[tasks[u].temp] = tasks[u].node
                   /\ \A i \in DOMAIN entries' : entries'[i][Dest] # tasks[u].node /\ entries'[i][Source] # tasks[u].node
        <4>1. TemporaryIsOwn(u) /\ Dir' = Dir
          BY <1>10 DEF ReplaceInv, TaskIsSound, Dir
        <4> QED BY <1>10, <3>1, <4>1 DEF TemporaryIsOwn
      <3>2. /\ Len(nodes') >= Len(nodes) /\ \A n \in 1 .. Len(nodes) : n # m => nodes'[n] = nodes[n]
        BY <1>5, <1>6 DEF OnlyFileChanges
      <3>3. \A u \in Tasks \ {t} : Maker(u) \/ Copier(u) => tasks[u].node # m
        BY <1>1, <1>3, OwnFile
      <3> QED BY <1>7, <2>1, <3>1, <3>2, <3>3 DEF LeavesOthers
    <2>4. DirectoryIsSound' /\ EveryMomentIsWhole' /\ TemporariesAreKnown'
      <3>1. \A u \in {t} : Maker(u) => \/ Maker(u)' /\ tasks'[u].temp = tasks[u].temp
                                   \/ tasks[u].node \in history'.uncleaned
        BY <1>1, <2>1
      <3>2. \A i \in DOMAIN entries : entries[i][Dest] # m /\ entries[i][Source] # m
        BY <1>1, <1>3 DEF ReplaceInv, TaskIsSound, TemporaryIsOwn
      <3>3. Remembers
        BY <1>10, UntouchedRemembers
      <3> QED BY <2>1, <2>2, <2>3, <3>1, <3>2, <3>3, DirectoryIsKept
    <2>5. CopiesHaveTheSize'
      BY <2>1 DEF ReplaceInv, CopiesHaveTheSize
    <2> QED BY <1>8, <2>2, <2>3, <2>4, <2>5, StepKeeps
  <1> QED BY <1>2, <1>9, <1>10

\* A move of the source to the destination, or the removal of the destination.
LEMMA PathChanged ==
  ASSUME ReplaceInv, NEW d \in Directory, Adds(d), UNCHANGED <<nodes, tasks, history>>,
         \A x \in TempNames : d[x] = Dir[x], d[Dest] \in {Dir[Source], None}, d[Source] \in {Dir[Source], None}
  PROVE  ReplaceInv'
  <1>1. /\ ReplaceTypeOK /\ Len(nodes) \in Nat /\ Len(nodes') >= Len(nodes) /\ {} \in SUBSET Tasks
        /\ history'.plan = history.plan /\ history'.crashed = history.crashed
        /\ history.uncleaned \subseteq history'.uncleaned
        /\ \A n \in 1 .. Len(nodes) : nodes'[n] = nodes[n]
    BY DEF ReplaceInv, ReplaceTypeOK
  <1>2. ReplaceTypeOK'
    <2>1. entries' \in Seq(Directory) /\ entries' # <<>>
      BY <1>1, Added
    <2> QED BY <1>1, <2>1 DEF ReplaceTypeOK
  <1>3. ASSUME NEW u \in Tasks \ {}, Maker(u)
        PROVE  d[tasks[u].temp] = tasks[u].node /\ d[Dest] # tasks[u].node /\ d[Source] # tasks[u].node
    <2>1. TemporaryIsOwn(u)
      BY DEF ReplaceInv, TaskIsSound
    <2>2. /\ tasks[u].temp \in TempNames /\ Dir[tasks[u].temp] = tasks[u].node /\ Dir[Source] # tasks[u].node
          /\ tasks[u].node # None
      BY <1>1, <1>3, <2>1, PresentIsAMoment DEF TemporaryIsOwn, None
    <2> QED BY <2>2
  <1>4. \A u \in Tasks \ {} : Maker(u) \/ Copier(u) => tasks[u].node # -1
    <2>1. ASSUME NEW u \in Tasks PROVE tasks[u].node # -1
      <3>1. tasks[u].node \in Nat
        BY TaskFields
      <3> QED BY <3>1
    <2> QED BY <2>1
  <1>5. LeavesOthers({}, -1)
    BY <1>1, <1>3, <1>4, AddedLeaves
  <1>6. DirectoryIsSound'
    <2>1. DirectoryFits(d)'
      <3>1. ASSUME NEW x \in Names PROVE d[x] <= Len(nodes')
        <4>1. d[x] \in {Dir[x], Dir[Source], None}
          BY DEF Names
        <4>2. Dir[x] \in Nat /\ Dir[x] <= Len(nodes) /\ Dir[Source] \in Nat /\ Dir[Source] <= Len(nodes)
          BY PresentNames, NamesDiffer
        <4> QED BY <1>1, <4>1, <4>2 DEF None
      <3>2. PICK x \in TempNames : Dir[x] = 3
        BY <1>1, PresentIsAMoment DEF ReplaceInv, DirectoryIsSound
      <3> QED BY <3>1, <3>2 DEF DirectoryFits
    <2> QED BY <1>1, <1>2, <2>1, DirectoryStaysSound
  <1>7. EveryMomentIsWhole'
    <2>1. ASSUME ~InPlaceCalls, history.crashed => ~UnflushedCalls, NEW x \in {Dest, Source}, d[x] # None
          PROVE  d[x] \in 1 .. Len(nodes) /\ Good(d[x])
      <3>1. d[x] = Dir[Source]
        BY <2>1
      <3>2. Good(Dir[Source])
        BY <1>1, <2>1, <3>1, PresentIsAMoment DEF ReplaceInv, EveryMomentIsWhole
      <3> QED BY <2>1, <3>1, <3>2, PresentNames, NamesDiffer
    <2> QED BY <1>1, <1>2, <2>1, MomentsStayWhole
  <1>8. TemporariesAreKnown'
    <2>1. \A x \in TempNames : d[x] # None =>
            \/ d[x] = Dir[x] /\ \A u \in {} : ~(Maker(u) /\ tasks[u].temp = x)
            \/ d[x] \in history'.uncleaned
            \/ \E u \in {} : Maker(u)' /\ tasks'[u].temp = x
      OBVIOUS
    <2>2. \A u \in Tasks \ {} : tasks'[u] = tasks[u]
      OBVIOUS
    <2> QED BY <1>1, <2>1, <2>2, AddedKnown
  <1>9. CopiesHaveTheSize'
    BY DEF ReplaceInv, CopiesHaveTheSize
  <1>10. /\ \A u \in {} : TaskIsSound(u)'
         /\ \A u \in {}, v \in Tasks : Apart(u, v)' /\ Apart(v, u)'
    OBVIOUS
  <1> QED BY <1>1, <1>2, <1>5, <1>6, <1>7, <1>8, <1>9, <1>10, StepKeeps

\* MovePath keeps the invariant.
LEMMA MovePathKeeps ==
  ASSUME ReplaceInv, NEW request \in Requests, MovePath(request)
  PROVE  ReplaceInv'
  <1>1. PICK d : d = [Dir EXCEPT ![Dest] = Dir[Source], ![Source] = None]
    OBVIOUS
  <1>2. Dir \in Directory
    BY PresentIsAMoment DEF ReplaceInv
  <1>3. d \in Directory
    BY <1>1, <1>2, NamesDiffer DEF Directory, None
  <1>4. d[Dest] = Dir[Source] /\ d[Source] = None /\ \A x \in TempNames : d[x] = Dir[x]
    BY <1>1, <1>2, NamesDiffer DEF Directory
  <1>5. Adds(d) /\ UNCHANGED <<nodes, tasks, history>>
    BY <1>1 DEF MovePath, Renamed, Adds
  <1> QED BY <1>3, <1>4, <1>5, PathChanged

\* RemovePath keeps the invariant.
LEMMA RemovePathKeeps ==
  ASSUME ReplaceInv, NEW request \in Requests, RemovePath(request)
  PROVE  ReplaceInv'
  <1>1. PICK d : d = [Dir EXCEPT ![Dest] = None]
    OBVIOUS
  <1>2. Dir \in Directory
    BY PresentIsAMoment DEF ReplaceInv
  <1>3. d \in Directory
    BY <1>1, <1>2, NamesDiffer DEF Directory, None
  <1>4. d[Dest] = None /\ d[Source] = Dir[Source] /\ \A x \in TempNames : d[x] = Dir[x]
    BY <1>1, <1>2, NamesDiffer DEF Directory
  <1>5. Adds(d) /\ UNCHANGED <<nodes, tasks, history>>
    BY <1>1 DEF RemovePath, Changed, Adds
  <1> QED BY <1>3, <1>4, <1>5, PathChanged

\* The sequence without its last element.
LEMMA FrontTyped ==
  ASSUME NEW S, NEW s \in Seq(S), s # <<>>
  PROVE  Front(s) \in Seq(S)
  <1>1. Len(s) \in Nat /\ Len(s) >= 1
    OBVIOUS
  <1>2. Front(s) = SubSeq(s, 1, Len(s) - 1)
    BY DEF Front
  <1> QED BY <1>1, <1>2

\* There is an empty sequence of bytes.
LEMMA EmptyTyped == \E empty \in Seq(Int) : empty = <<>>
  <1>1. <<>> \in Seq(Int)
    OBVIOUS
  <1> QED BY <1>1

\* A file that was not flushed may be found torn.
LEMMA TornTyped ==
  ASSUME NEW f \in File
  PROVE  /\ [f EXCEPT !.data = <<>>, !.whole = FALSE, !.holder = None, !.synced = TRUE] \in File
         /\ [f EXCEPT !.holder = None, !.synced = TRUE] \in File
         /\ [f EXCEPT !.holder = None, !.synced = TRUE].whole = f.whole
         /\ [f EXCEPT !.holder = None, !.synced = TRUE].synced
  <1>1. [f EXCEPT !.data = <<>>, !.whole = FALSE, !.holder = None, !.synced = TRUE] \in File
    <2>1. PICK empty \in Seq(Int) : empty = <<>>
      BY EmptyTyped
    <2>2. [f EXCEPT !.data = empty, !.whole = FALSE, !.holder = None, !.synced = TRUE] \in File
      BY DEF File
    <2> QED BY <2>1, <2>2
  <1>2. [f EXCEPT !.holder = None, !.synced = TRUE] \in File
    BY DEF File
  <1>3. [f EXCEPT !.holder = None, !.synced = TRUE].whole = f.whole
    BY DEF File
  <1>4. [f EXCEPT !.holder = None, !.synced = TRUE].synced
    BY DEF File
  <1> QED BY <1>1, <1>2, <1>3, <1>4

\* ShrinkSource keeps the invariant.
LEMMA ShrinkSourceKeeps ==
  ASSUME ReplaceInv, NEW request \in Requests, ShrinkSource(request)
  PROVE  ReplaceInv'
  <1>1. /\ ReplaceTypeOK /\ request.kind = "shrink" /\ Dir[Source] # None /\ Unheld(Dir[Source])
        /\ nodes[Dir[Source]].data # <<>> /\ UNCHANGED <<entries, tasks, history>>
    BY DEF ReplaceInv, ShrinkSource
  <1>2. InPlaceCalls
    BY <1>1 DEF InPlaceCalls
  <1>3. PICK m : m = Dir[Source]
    OBVIOUS
  <1>4. m \in 1 .. Len(nodes)
    BY <1>1, <1>3, PresentNames, NamesDiffer
  <1>5. PICK whole \in BOOLEAN : whole = nodes[m].whole
    BY <1>1, <1>4, FileFields
  <1>6. PICK data \in Seq(Int) : data = Front(nodes[m].data)
    BY <1>1, <1>3, <1>4, FileFields, FrontTyped
  <1>7. PICK f \in File : f = Rewritten(nodes[m], data, whole)
    BY <1>1, <1>4, FileFields, WrittenTyped
  <1>8. nodes' = [nodes EXCEPT ![m] = f]
    BY <1>3, <1>5, <1>6, <1>7 DEF ShrinkSource
  <1>9. OnlyFileChanges(m)
    BY <1>1, <1>4, <1>8, FileReplaced
  <1>10. ReplaceTypeOK'
    <2>1. nodes' \in Seq(File)
      BY <1>1, <1>4, <1>8 DEF ReplaceTypeOK
    <2> QED BY <1>1, <2>1 DEF ReplaceTypeOK
  <1>11. /\ {} \in SUBSET Tasks /\ Len(nodes') = Len(nodes) /\ Len(nodes) \in Nat
         /\ \A n \in 1 .. Len(nodes) : n # m => nodes'[n] = nodes[n]
    BY <1>1, <1>8 DEF ReplaceTypeOK
  <1>12. ASSUME NEW u \in Tasks, Maker(u) \/ Copier(u) PROVE tasks[u].node # m
    BY <1>1, <1>3, <1>12, FreeInPlace
  <1>13. ASSUME NEW u \in Tasks, Maker(u)
         PROVE  /\ Dir'[tasks[u].temp] = tasks[u].node
                /\ \A i \in DOMAIN entries' : entries'[i][Dest] # tasks[u].node /\ entries'[i][Source] # tasks[u].node
    <2>1. TemporaryIsOwn(u)
      BY DEF ReplaceInv, TaskIsSound
    <2> QED BY <1>1, <1>13, <2>1 DEF TemporaryIsOwn, Dir
  <1>14. LeavesOthers({}, m)
    BY <1>1, <1>11, <1>12, <1>13 DEF LeavesOthers
  <1>15. Remembers
    BY <1>1 DEF Remembers, Dir
  <1>16. DirectoryIsSound' /\ EveryMomentIsWhole' /\ TemporariesAreKnown'
    BY <1>1, <1>2, <1>10, <1>11, <1>14, <1>15, DirectoryIsKept
  <1>17. CopiesHaveTheSize'
    BY <1>1 DEF ReplaceInv, CopiesHaveTheSize
  <1>18. /\ \A u \in {} : TaskIsSound(u)'
         /\ \A u \in {}, v \in Tasks : Apart(u, v)' /\ Apart(v, u)'
    OBVIOUS
  <1> QED BY <1>10, <1>11, <1>14, <1>16, <1>17, <1>18, StepKeeps

\* A power failure ends every call, loses what was not flushed, and keeps the invariant.
LEMMA CrashKeeps ==
  ASSUME ReplaceInv, Crash
  PROVE  ReplaceInv'
  <1>1. /\ ReplaceTypeOK /\ Len(nodes) \in Nat /\ Len(nodes) >= 3
        /\ ~history.crashed /\ tasks' = [t \in Tasks |-> IdleTask]
        /\ history' = [history EXCEPT !.crashed = TRUE] /\ history \in History
    <2>1. ReplaceTypeOK /\ Len(nodes) >= 3
      BY DEF ReplaceInv
    <2>2. Len(nodes) \in Nat /\ history \in History
      BY <2>1 DEF ReplaceTypeOK
    <2>3. /\ ~history.crashed /\ tasks' = [t \in Tasks |-> IdleTask]
          /\ history' = [history EXCEPT !.crashed = TRUE]
      BY DEF Crash
    <2> QED BY <2>1, <2>2, <2>3
  <1>2. PICK i \in DOMAIN entries, torn \in SUBSET {n \in DOMAIN nodes : ~nodes[n].synced} :
          /\ entries' = <<entries[i]>>
          /\ nodes' = [n \in DOMAIN nodes |->
                         IF n \in torn THEN [nodes[n] EXCEPT !.data = <<>>, !.whole = FALSE, !.holder = None, !.synced = TRUE]
                         ELSE [nodes[n] EXCEPT !.holder = None, !.synced = TRUE]]
    BY DEF Crash
  <1>3. /\ history' \in History /\ history'.crashed = TRUE /\ history'.plan = history.plan
        /\ history'.copied = history.copied
    BY <1>1 DEF History
  <1>4. DOMAIN nodes = 1 .. Len(nodes)
    BY <1>1 DEF ReplaceTypeOK
  <1>5. \A n \in 1 .. Len(nodes) : nodes'[n] \in File /\ (n \notin torn => nodes'[n].whole = nodes[n].whole /\ nodes'[n].synced)
    <2> SUFFICES ASSUME NEW n \in 1 .. Len(nodes)
                 PROVE  nodes'[n] \in File /\ (n \notin torn => nodes'[n].whole = nodes[n].whole /\ nodes'[n].synced)
      OBVIOUS
    <2>1. PICK f \in File : f = nodes[n]
      BY <1>1, FileFields
    <2>2. CASE n \in torn
      <3>1. nodes'[n] = [f EXCEPT !.data = <<>>, !.whole = FALSE, !.holder = None, !.synced = TRUE]
        BY <1>2, <1>4, <2>1, <2>2
      <3> QED BY <2>2, <3>1, TornTyped
    <2>3. CASE n \notin torn
      <3>1. nodes'[n] = [f EXCEPT !.holder = None, !.synced = TRUE]
        BY <1>2, <1>4, <2>1, <2>3
      <3> QED BY <2>1, <3>1, TornTyped
    <2> QED BY <2>2, <2>3
  <1>6. nodes' \in Seq(File) /\ Len(nodes') = Len(nodes)
    <2>1. DOMAIN nodes' = 1 .. Len(nodes)
      BY <1>2, <1>4
    <2>2. nodes' = [n \in 1 .. Len(nodes) |-> nodes'[n]]
      BY <1>2, <1>4
    <2>3. nodes' \in [1 .. Len(nodes) -> File]
      BY <1>5, <2>1, <2>2
    <2> QED BY <1>1, <2>3
  <1>7. PICK d \in Directory : d = entries[i]
    BY <1>1 DEF ReplaceTypeOK
  <1>8. entries' = <<d>> /\ entries' \in Seq(Directory) /\ entries' # <<>> /\ DOMAIN entries' = {1} /\ entries'[1] = d
    <2>1. entries' = <<d>>
      BY <1>2, <1>7
    <2> QED BY <2>1
  <1>9. \A t \in Tasks : tasks'[t] = IdleTask
    BY <1>1
  <1>10. ReplaceTypeOK'
    <2>1. tasks' \in [Tasks -> Task]
      BY <1>1, IdleTyped
    <2> QED BY <1>3, <1>6, <1>8, <2>1 DEF ReplaceTypeOK
  <1>11. ASSUME NEW t \in Tasks PROVE (TaskIsSound(t) /\ ~Maker(t) /\ ~Placer(t) /\ ~Copier(t))'
    <2>1. (tasks[t] = IdleTask)'
      BY <1>9 DEF IdleTask, None
    <2> QED BY <2>1, IdleIsSound, PTL
  <1>12. \A t, u \in Tasks : Apart(t, u)'
    BY <1>11 DEF Apart
  <1>13. DirectoryIsSound'
    <2>1. /\ \A name \in Names : d[name] <= Len(nodes)
          /\ \E name \in TempNames : d[name] = 3
      BY <1>7 DEF ReplaceInv, DirectoryIsSound
    <2> QED BY <1>6, <1>8, <2>1 DEF DirectoryIsSound
  <1>14. EveryMomentIsWhole'
    <2> SUFFICES ASSUME ~InPlaceCalls, ~UnflushedCalls, NEW name \in {Dest, Source}, d[name] # None
                 PROVE  nodes'[d[name]].whole /\ nodes'[d[name]].synced
      <3>1. (InPlaceCalls' <=> InPlaceCalls) /\ (UnflushedCalls' <=> UnflushedCalls)
        BY <1>3, PlanIsKept
      <3> QED BY <1>3, <1>8, <3>1 DEF EveryMomentIsWhole, Good
    <2>1. nodes[d[name]].whole /\ nodes[d[name]].synced
      BY <1>1, <1>7 DEF ReplaceInv, EveryMomentIsWhole, Good
    <2>2. d[name] \in 1 .. Len(nodes)
      <3>1. name \in Names
        BY NamesDiffer
      <3>2. d[name] \in Nat
        BY <3>1 DEF Directory
      <3>3. d[name] <= Len(nodes)
        BY <1>7, <3>1 DEF ReplaceInv, DirectoryIsSound
      <3> QED BY <1>1, <3>2, <3>3 DEF None
    <2>3. d[name] \notin torn
      BY <1>2, <2>1
    <2> QED BY <1>5, <2>1, <2>2, <2>3
  <1>15. TemporariesAreKnown' /\ CopiesHaveTheSize'
    <2>1. TemporariesAreKnown'
      BY <1>3 DEF TemporariesAreKnown
    <2>2. CopiesHaveTheSize'
      BY <1>3 DEF ReplaceInv, CopiesHaveTheSize
    <2> QED BY <2>1, <2>2
  <1>16. (\A t \in Tasks : TaskIsSound(t))' /\ (\A t, u \in Tasks : Apart(t, u))' /\ Len(nodes') >= 3
    BY <1>1, <1>6, <1>11, <1>12
  <1> QED BY <1>10, <1>13, <1>14, <1>15, <1>16 DEF ReplaceInv

\* The initial states satisfy the invariant.
LEMMA InitKeeps ==
  ASSUME ReplaceInit
  PROVE  ReplaceInv
  <1>1. PICK a, b, c : /\ a = [data |-> <<7, 7>>, synced |-> TRUE, holder |-> None, whole |-> TRUE]
                       /\ b = [data |-> <<8, 8>>, synced |-> TRUE, holder |-> None, whole |-> TRUE]
                       /\ c = [data |-> <<9>>, synced |-> TRUE, holder |-> None, whole |-> FALSE]
    OBVIOUS
  <1>2. a \in File /\ b \in File /\ c \in File
    BY <1>1 DEF File
  <1>3. nodes = <<a, b, c>>
    BY <1>1 DEF ReplaceInit
  <1>4. /\ nodes \in Seq(File) /\ Len(nodes) = 3 /\ nodes[1] = a /\ nodes[2] = b
    BY <1>2, <1>3
  <1>5. PICK old \in {None, 1}, stale \in TempNames :
          entries = <<[name \in Names |-> CASE name = Dest -> old [] name = Source -> 2 [] name = stale -> 3 [] OTHER -> None]>>
    BY DEF ReplaceInit
  <1>6. PICK d : d = [name \in Names |-> CASE name = Dest -> old [] name = Source -> 2 [] name = stale -> 3 [] OTHER -> None]
    OBVIOUS
  <1>7. /\ d[Dest] = old /\ d[Source] = 2 /\ d[stale] = 3
        /\ \A name \in Names : d[name] \in {old, 2, 3, None}
        /\ \A name \in TempNames : d[name] \in {3, None}
    BY <1>6, NamesDiffer
  <1>8. d \in Directory
    <2>1. d = [name \in Names |-> d[name]]
      BY <1>6
    <2>2. \A name \in Names : d[name] \in Nat
      BY <1>7 DEF None
    <2> QED BY <2>1, <2>2 DEF Directory
  <1>9. entries = <<d>> /\ entries \in Seq(Directory) /\ entries # <<>> /\ DOMAIN entries = {1} /\ entries[1] = d /\ Dir = d
    BY <1>5, <1>6, <1>8 DEF Dir, Last
  <1>10. PICK plan \in Plans : history = [plan |-> plan, crashed |-> FALSE, uncleaned |-> {3}, copied |-> {}]
    BY DEF ReplaceInit
  <1>11. history \in History /\ history.uncleaned = {3} /\ history.copied = {}
    BY <1>10 DEF History
  <1>12. ReplaceTypeOK
    <2>1. tasks \in [Tasks -> Task]
      BY IdleTyped DEF ReplaceInit
    <2> QED BY <1>4, <1>9, <1>11, <2>1 DEF ReplaceTypeOK
  <1>13. ASSUME NEW t \in Tasks PROVE TaskIsSound(t) /\ ~Maker(t) /\ ~Placer(t) /\ ~Copier(t)
    <2>1. tasks[t] = IdleTask
      BY DEF ReplaceInit
    <2> QED BY <2>1, IdleIsSound
  <1>14. \A t, u \in Tasks : Apart(t, u)
    BY <1>13 DEF Apart
  <1>15. DirectoryIsSound
    BY <1>4, <1>7, <1>9 DEF DirectoryIsSound, None
  <1>16. EveryMomentIsWhole
    <2>1. a.whole /\ a.synced /\ b.whole /\ b.synced
      BY <1>1
    <2>2. \A name \in {Dest, Source} : d[name] # None => d[name] \in {1, 2}
      BY <1>7
    <2> QED BY <1>4, <1>9, <2>1, <2>2 DEF EveryMomentIsWhole, Good
  <1>17. TemporariesAreKnown /\ CopiesHaveTheSize
    BY <1>7, <1>9, <1>11 DEF TemporariesAreKnown, CopiesHaveTheSize
  <1> QED BY <1>4, <1>12, <1>13, <1>14, <1>15, <1>16, <1>17 DEF ReplaceInv

-----------------------------------------------------------------------------
(* Every step *)

\* A step of an atomic call keeps the invariant.
LEMMA AtomicStepKeeps ==
  ASSUME ReplaceInv, NEW t \in Tasks, AtomicStep(t)
  PROVE  ReplaceInv'
  <1>1. CASE \E request \in Requests : BeginAtomic(t, request)
    BY <1>1, BeginAtomicKeeps
  <1>2. CASE \E name \in TempNames : CreateTemporary(t, name)
    BY <1>2, CreateTemporaryKeeps
  <1>3. CASE WriteTemporary(t) \/ FlushTemporary(t) \/ CloseTemporary(t)
    BY <1>3, WriteTemporaryKeeps, FlushTemporaryKeeps, CloseTemporaryKeeps
  <1>4. CASE MoveIntoPlace(t) \/ FlushParent(t) \/ CleanTemporary(t)
    BY <1>4, MoveIntoPlaceKeeps, FlushParentKeeps, CleanTemporaryKeeps
  <1> QED BY <1>1, <1>2, <1>3, <1>4 DEF AtomicStep

\* A step of a call in place keeps the invariant.
LEMMA InPlaceStepKeeps ==
  ASSUME ReplaceInv, NEW t \in Tasks, InPlaceStep(t)
  PROVE  ReplaceInv'
  <1>1. CASE \E request \in Requests : BeginInPlace(t, request)
    BY <1>1, BeginInPlaceKeeps
  <1>2. CASE OpenInPlace(t) \/ PutByte(t)
    BY <1>2, OpenInPlaceKeeps, PutByteKeeps
  <1>3. CASE CopyByte(t) \/ EndInPlace(t)
    BY <1>3, CopyByteKeeps, EndInPlaceKeeps
  <1> QED BY <1>1, <1>2, <1>3 DEF InPlaceStep

\* When nothing changes the invariant holds on.
LEMMA StutterKeeps ==
  ASSUME ReplaceInv, UNCHANGED replaceVars
  PROVE  ReplaceInv'
  BY DEF replaceVars, ReplaceInv, ReplaceTypeOK, TaskIsSound, StageOfKind, NothingDone, TemporaryIsOwn, TemporaryIsWhole,
         CopyIsExact, InPlaceIsOpen, Maker, Placer, Copier, Apart, DirectoryIsSound, EveryMomentIsWhole, Good,
         TemporariesAreKnown, CopiesHaveTheSize, InPlaceCalls, UnflushedCalls, Requests, Dir

\* Every step keeps the invariant.
LEMMA NextKeeps ==
  ASSUME ReplaceInv, [ReplaceNext]_replaceVars
  PROVE  ReplaceInv'
  <1>1. CASE \E t \in Tasks : AtomicStep(t) \/ InPlaceStep(t)
    BY <1>1, AtomicStepKeeps, InPlaceStepKeeps
  <1>2. CASE \E request \in Requests : MovePath(request) \/ RemovePath(request) \/ ShrinkSource(request)
    BY <1>2, MovePathKeeps, RemovePathKeeps, ShrinkSourceKeeps
  <1>3. CASE Crash
    BY <1>3, CrashKeeps
  <1>4. CASE UNCHANGED replaceVars
    BY <1>4, StutterKeeps
  <1> QED BY <1>1, <1>2, <1>3, <1>4 DEF ReplaceNext

-----------------------------------------------------------------------------
(* The theorems *)

\* In every state, whatever the tasks, plans, failures and the crash: the calls, the files they have open, and every
\* directory that a power failure may bring back are as the invariant says.
THEOREM ReplaceInvariance == ReplaceSpec => []ReplaceInv
  <1>1. ReplaceInit => ReplaceInv
    BY InitKeeps
  <1>2. ReplaceInv /\ [ReplaceNext]_replaceVars => ReplaceInv'
    BY NextKeeps
  <1> QED BY <1>1, <1>2, PTL DEF ReplaceSpec

\* The invariant gives what the calls promise: at the present moment the destination is whole, since the invariant
\* says it of every moment; the temporary files are known; copies are complete.
LEMMA InvariantIsEnough ==
  ASSUME ReplaceInv
  PROVE  ReplacementIsAtomic
  <1>1. ReplaceTypeOK
    BY DEF ReplaceInv
  <1>2. DestinationIsWhole
    <2> SUFFICES ASSUME ~InPlaceCalls, Dir[Dest] # None, history.crashed => ~UnflushedCalls
                 PROVE  nodes[Dir[Dest]].whole
      BY DEF DestinationIsWhole
    <2>1. Good(Dir[Dest])
      BY <1>1, PresentIsAMoment DEF ReplaceInv, EveryMomentIsWhole
    <2> QED BY <2>1 DEF Good
  <1>3. TemporariesAreCleaned
    <2>1. \E name \in TempNames : Dir[name] = 3
      BY <1>1, PresentIsAMoment DEF ReplaceInv, DirectoryIsSound
    <2>2. ASSUME NEW t \in Tasks, Maker(t) PROVE tasks[t].kind = "atomic"
      <3>1. StageOfKind(tasks[t])
        BY DEF ReplaceInv, TaskIsSound
      <3> QED BY <2>2, <3>1 DEF StageOfKind, Maker, AtomicStages
    <2>3. ~history.crashed => \A name \in TempNames : Dir[name] # None =>
            \/ Dir[name] \in history.uncleaned
            \/ \E t \in Tasks : tasks[t].kind = "atomic" /\ tasks[t].temp = name
      BY <2>2 DEF ReplaceInv, TemporariesAreKnown
    <2> QED BY <2>1, <2>3 DEF TemporariesAreCleaned
  <1>4. CopiesHaveTheSize
    BY DEF ReplaceInv
  <1> QED BY <1>2, <1>3, <1>4 DEF ReplacementIsAtomic

\* Atomic replacement: while only atomic writes and moves change the destination it is never found half written, not
\* even after a power failure; the temporary file of a call is removed, reported or still known; and a copy that
\* succeeded has all bytes.
THEOREM AtomicReplacement == ReplaceSpec => []ReplacementIsAtomic
  <1>1. ReplaceInv => ReplacementIsAtomic
    BY InvariantIsEnough
  <1> QED BY <1>1, ReplaceInvariance, PTL

-----------------------------------------------------------------------------
(* Calls that must not replace *)

\* A step puts another file in the place of the destination.
Replaces ==
  Dir[Dest] # None /\ Last(entries')[Dest] \notin {None, Dir[Dest]} /\ history' = history

\* A call that may replace makes the step.
MayReplace ==
  \/ \E t \in Tasks : tasks[t].pc = "moving" /\ tasks[t].replace /\ tasks'[t] # tasks[t]
  \/ \E request \in Requests : request.kind = "move" /\ request.replace

\* A directory that is not touched has the same destination.
LEMMA UntouchedReplacesNothing ==
  ASSUME entries' = entries
  PROVE  ~Replaces
  BY DEF Replaces, Dir

\* What one changed name does to the destination.
LEMMA ChangedDestination ==
  ASSUME ReplaceTypeOK, NEW name \in Names, NEW n \in Nat, entries' = Changed(name, n)
  PROVE  /\ name # Dest => Last(entries')[Dest] = Dir[Dest]
         /\ name = Dest => Last(entries')[Dest] = n
  <1>1. Dir \in Directory
    BY PresentIsAMoment
  <1>2. PICK d : d = [Dir EXCEPT ![name] = n]
    OBVIOUS
  <1>3. d \in Directory
    BY <1>1, <1>2 DEF Directory
  <1>4. /\ name # Dest => d[Dest] = Dir[Dest]
        /\ name = Dest => d[Dest] = n
    BY <1>1, <1>2, NamesDiffer DEF Directory
  <1>5. Adds(d)
    BY <1>2 DEF Adds, Changed
  <1>6. entries' \in Seq(Directory) /\ entries' # <<>> /\ Dir' = d
    BY <1>3, <1>5, Added
  <1>7. Last(entries') = d
    BY <1>6 DEF Dir
  <1> QED BY <1>4, <1>7

\* The steps of atomic calls: only the move may put another file in place, and it asks the system.
LEMMA AtomicStepReplaces ==
  ASSUME ReplaceInv, NEW t \in Tasks, AtomicStep(t), Replaces
  PROVE  MayReplace
  <1>1. ReplaceTypeOK
    BY DEF ReplaceInv
  <1>2. CASE \E request \in Requests : BeginAtomic(t, request)
    BY <1>2, UntouchedReplacesNothing DEF BeginAtomic
  <1>3. ASSUME NEW name \in TempNames, CreateTemporary(t, name) PROVE FALSE
    <2>1. entries' = entries \/ entries' = Changed(name, Len(nodes) + 1)
      BY <1>3 DEF CreateTemporary, LeftBehind
    <2>2. CASE entries' = Changed(name, Len(nodes) + 1)
      <3>1. PICK n \in Nat : n = Len(nodes) + 1
        BY <1>1, PresentIsAMoment
      <3>2. Last(entries')[Dest] = Dir[Dest]
        BY <1>1, <2>2, <3>1, ChangedDestination, NamesDiffer
      <3> QED BY <3>2 DEF Replaces
    <2> QED BY <2>1, <2>2, UntouchedReplacesNothing
  <1>4. CASE WriteTemporary(t) \/ FlushTemporary(t) \/ CloseTemporary(t)
    <2>1. entries' = entries
      BY <1>4 DEF WriteTemporary, FlushTemporary, CloseTemporary
    <2> QED BY <2>1, UntouchedReplacesNothing
  <1>5. CASE MoveIntoPlace(t)
    <2>1. CASE entries' = entries
      BY <2>1, UntouchedReplacesNothing
    <2>2. CASE entries' # entries
      <3>1. /\ tasks[t].pc = "moving" /\ RenameAllowed(tasks[t].replace, Dest)
            /\ tasks' = [tasks EXCEPT ![t].pc = "parent"] \/ End(t)
        BY <1>5, <2>2 DEF MoveIntoPlace
      <3>2. tasks[t].replace
        BY <3>1 DEF RenameAllowed, Replaces
      <3>3. tasks \in [Tasks -> Task]
        BY <1>1 DEF ReplaceTypeOK
      <3>4. tasks'[t].pc # "moving"
        <4>1. CASE tasks' = [tasks EXCEPT ![t].pc = "parent"]
          BY <3>3, <4>1 DEF Task
        <4>2. CASE End(t)
          <5>1. tasks'[t] = IdleTask
            BY <1>1, <4>2, Ended
          <5> QED BY <5>1, IdleTyped
        <4> QED BY <3>1, <4>1, <4>2
      <3> QED BY <3>1, <3>2, <3>4 DEF MayReplace
    <2> QED BY <2>1, <2>2
  <1>6. CASE FlushParent(t)
    <2>1. entries' = <<Dir>> \/ entries' = entries
      BY <1>6 DEF FlushParent
    <2>2. Last(entries') = Dir
      BY <2>1 DEF Dir, Last
    <2> QED BY <2>2 DEF Replaces
  <1>7. CASE CleanTemporary(t)
    <2>1. PICK temp : temp = tasks[t].temp
      OBVIOUS
    <2>2. tasks[t].pc = "cleaning" /\ (entries' = entries \/ entries' = Changed(temp, None))
      BY <1>7, <2>1 DEF CleanTemporary
    <2>3. temp \in TempNames
      BY <2>1, <2>2, TemporaryOf DEF Maker, MakingStages
    <2>4. CASE entries' = Changed(temp, None)
      <3>1. PICK n \in Nat : n = None
        BY DEF None
      <3>2. Last(entries')[Dest] = Dir[Dest]
        BY <1>1, <2>3, <2>4, <3>1, ChangedDestination, NamesDiffer
      <3> QED BY <3>2 DEF Replaces
    <2> QED BY <2>2, <2>4, UntouchedReplacesNothing
  <1> QED BY <1>2, <1>3, <1>4, <1>5, <1>6, <1>7 DEF AtomicStep

\* The steps in place leave the name to the file it has.
LEMMA InPlaceStepReplaces ==
  ASSUME ReplaceInv, NEW t \in Tasks, InPlaceStep(t), Replaces
  PROVE  MayReplace
  <1>1. CASE \E request \in Requests : BeginInPlace(t, request)
    BY <1>1, UntouchedReplacesNothing DEF BeginInPlace
  <1>2. CASE OpenInPlace(t)
    <2>1. entries' = entries \/ Dir[Dest] = None
      BY <1>2 DEF OpenInPlace, LeftBehind
    <2> QED BY <2>1, UntouchedReplacesNothing DEF Replaces
  <1>3. CASE PutByte(t) \/ CopyByte(t) \/ EndInPlace(t)
    <2>1. entries' = entries
      BY <1>3 DEF PutByte, CopyByte, EndInPlace
    <2> QED BY <2>1, UntouchedReplacesNothing
  <1> QED BY <1>1, <1>2, <1>3 DEF InPlaceStep

\* The calls of one step: a move asks the system, a removal leaves no file.
LEMMA PathStepReplaces ==
  ASSUME ReplaceInv, NEW request \in Requests, MovePath(request) \/ RemovePath(request) \/ ShrinkSource(request), Replaces
  PROVE  MayReplace
  <1>1. CASE MovePath(request)
    BY <1>1 DEF MovePath, RenameAllowed, Replaces, MayReplace
  <1>2. CASE RemovePath(request)
    <2>1. PICK n \in Nat : n = None
      BY DEF None
    <2>2. entries' = Changed(Dest, n)
      BY <1>2, <2>1 DEF RemovePath
    <2>3. Last(entries')[Dest] = n
      BY <2>2, ChangedDestination, NamesDiffer DEF ReplaceInv
    <2> QED BY <2>1, <2>3 DEF Replaces
  <1>3. CASE ShrinkSource(request)
    BY <1>3, UntouchedReplacesNothing DEF ShrinkSource
  <1> QED BY <1>1, <1>2, <1>3

\* No step of the system replaces the destination for a call that must not.
LEMMA NextReplaces ==
  ASSUME ReplaceInv, [ReplaceNext]_replaceVars, Replaces
  PROVE  MayReplace
  <1>1. CASE \E t \in Tasks : AtomicStep(t) \/ InPlaceStep(t)
    BY <1>1, AtomicStepReplaces, InPlaceStepReplaces
  <1>2. CASE \E request \in Requests : MovePath(request) \/ RemovePath(request) \/ ShrinkSource(request)
    BY <1>2, PathStepReplaces
  <1>3. CASE Crash
    <2>1. ~history.crashed /\ history' = [history EXCEPT !.crashed = TRUE] /\ history \in History
      BY <1>3 DEF Crash, ReplaceInv, ReplaceTypeOK
    <2>2. history'.crashed
      BY <2>1 DEF History
    <2> QED BY <2>1, <2>2 DEF Replaces
  <1>4. CASE UNCHANGED replaceVars
    BY <1>4, UntouchedReplacesNothing DEF replaceVars
  <1> QED BY <1>1, <1>2, <1>3, <1>4 DEF ReplaceNext

\* Create-only: a step that puts another file in the place of an existing destination is the move of a call that may
\* replace it, however calls race and whatever the early look at the destination said.
THEOREM CreateOnlyIsKept == ReplaceSpec => CreateOnlyNeverReplaces
  <1>1. ReplaceInv /\ [ReplaceNext]_replaceVars =>
          [ /\ Dir[Dest] # None /\ Last(entries')[Dest] \notin {None, Dir[Dest]} /\ history' = history
            => \/ \E t \in Tasks : tasks[t].pc = "moving" /\ tasks[t].replace /\ tasks'[t] # tasks[t]
               \/ \E request \in Requests : request.kind = "move" /\ request.replace ]_replaceVars
    BY NextReplaces DEF Replaces, MayReplace
  <1> QED BY <1>1, ReplaceInvariance, PTL DEF ReplaceSpec, CreateOnlyNeverReplaces
=============================================================================
