---------------------------- MODULE FileHandles -----------------------------
(***************************************************************************)
(* FileReader, FileWriter, File and FileLock objects on one file. A handle *)
(* names a native file object, which has the position, the access and the *)
(* sharing; a lock has a duplicate of the handle, so that the file object  *)
(* and its native lock survive the object the lock was taken from.         *)
(***************************************************************************)
EXTENDS Integers, Sequences, FiniteSets

CONSTANTS Handles,        \* FileReader, FileWriter and File objects
          Locks,          \* FileLock objects
          OpenRequests,   \* [object, access, disposition, share, append, strict, atEnd, flushOnClose]
          MaxOpens,       \* bound: native file objects at a time
          MaxBytes        \* bound: length of the file

ASSUME FileHandlesAssumption ==
  /\ MaxOpens \in Nat /\ MaxBytes \in Nat
  /\ IsFiniteSet(Locks)
  /\ OpenRequests \subseteq [object : {"FileReader", "FileWriter", "File"}, access : {"Read", "Write", "ReadWrite"},
                            disposition : {"OpenExisting", "CreateNew", "OpenAlways", "CreateAlways", "TruncateExisting"},
                            share : SUBSET {"Read", "Write"}, append : BOOLEAN, strict : BOOLEAN, atEnd : BOOLEAN,
                            flushOnClose : BOOLEAN]

VARIABLES content,   \* the bytes of the file; Absent when there is none
          opens,     \* native file objects
          handle,    \* file object of each handle, 0 when it is not open
          lock       \* file object, mode and activity of each lock

fileVars == <<content, opens, handle, lock>>

Absent == <<-1>>
Exists == content # Absent
Bytes == {1}
Zero == 0

NoLock == [of |-> 0, mode |-> "none", active |-> FALSE]

NoObject == [own |-> FALSE, object |-> "none", access |-> "none", share |-> {}, append |-> FALSE, pos |-> 0, state |-> "closed",
             flush |-> FALSE, counter |-> 0, shared |-> 0, exclusive |-> FALSE, mixed |-> FALSE, leaked |-> FALSE]

Writes(o) == opens[o].access \in {"Write", "ReadWrite"}
Reads(o) == opens[o].access \in {"Read", "ReadWrite"}

\* The file object lives while the handle or a lock's duplicate is open.
LocksOn(o) == {l \in Locks : lock[l].of = o}
Lives(o) == opens[o].own \/ LocksOn(o) # {}
Live == {o \in DOMAIN opens : Lives(o)}

ActiveLocks(o) == {l \in LocksOn(o) : lock[l].active}

-----------------------------------------------------------------------------
(* Opening *)

Needs(access) == (IF access \in {"Read", "ReadWrite"} THEN {"Read"} ELSE {})
                   \cup (IF access \in {"Write", "ReadWrite"} THEN {"Write"} ELSE {})

\* The system admits an open when its access is shared by the opens there are, and theirs by it.
Compatible(request) == \A o \in Live : Needs(request.access) \subseteq opens[o].share
                                       /\ Needs(opens[o].access) \subseteq request.share

\* FileReader, FileWriter and File: which modes and which accesses go together.
RequestIsValid(request) ==
  /\ request.object = "FileReader" => request.access = "Read" /\ request.disposition = "OpenExisting" /\ ~request.append
  /\ request.object = "FileWriter" => request.access = "Write" /\ ~request.atEnd
  /\ request.object = "File" => ~request.append
  /\ request.disposition # "OpenExisting" => request.access # "Read"
  /\ request.append => request.disposition \in {"OpenAlways", "OpenExisting"}
  /\ request.flushOnClose => request.access # "Read"

DispositionHolds(disposition) ==
  CASE disposition = "CreateNew" -> ~Exists
    [] disposition \in {"OpenExisting", "TruncateExisting"} -> Exists
    [] disposition \in {"OpenAlways", "CreateAlways"} -> TRUE

\* assignFileState; a file object that is opened for truncation by a strict path is truncated in a step of its own.
Opened(request, pos, state) ==
  [own |-> TRUE, object |-> request.object, access |-> request.access, share |-> request.share, append |-> request.append,
   pos |-> pos, state |-> state, flush |-> request.flushOnClose, counter |-> 0, shared |-> 0, exclusive |-> FALSE,
   mixed |-> FALSE, leaked |-> FALSE]

Truncates(request) == Exists /\ request.disposition \in {"TruncateExisting", "CreateAlways"}

\* openReader, openWriter, openFile down to the native open
Open(h, o, request) ==
  /\ handle[h] = 0 /\ ~Lives(o)
  /\ RequestIsValid(request) /\ DispositionHolds(request.disposition) /\ Compatible(request)
  /\ LET later == Truncates(request) /\ request.strict
         left == IF Exists /\ (later \/ ~Truncates(request)) THEN content ELSE <<>>
     IN /\ content' = left
        /\ opens' = [opens EXCEPT ![o] = Opened(request, IF request.atEnd /\ ~later THEN Len(left) ELSE 0,
                                                IF later THEN "truncating" ELSE "open")]
        /\ handle' = [handle EXCEPT ![h] = o]
  /\ UNCHANGED lock

\* The strict path truncates what it opened, then seeks if asked to; a failure closes it and the handle is not open.
FinishOpen(h) ==
  /\ handle[h] # 0 /\ opens[handle[h]].state = "truncating"
  /\ \/ /\ content' = <<>>
        /\ opens' = [opens EXCEPT ![handle[h]].state = "open"]
        /\ UNCHANGED <<handle, lock>>
     \/ /\ opens' = [opens EXCEPT ![handle[h]] = NoObject]
        /\ handle' = [handle EXCEPT ![h] = 0]
        /\ UNCHANGED <<content, lock>>

Usable(h) == handle[h] # 0 /\ opens[handle[h]].state = "open"

-----------------------------------------------------------------------------
(* Reading, writing and positions *)

\* Native locks are mandatory on the locked range: nobody else reads under an exclusive lock, and nobody writes under
\* a shared one or under another's exclusive one.
MayRead(o) == \A p \in Live \ {o} : ~opens[p].exclusive
MayWrite(o) == MayRead(o) /\ \A p \in Live : opens[p].shared = 0

\* A write past the end fills the gap with zeros.
Written(bytes, pos, b) ==
  [i \in 1 .. (IF pos + 1 > Len(bytes) THEN pos + 1 ELSE Len(bytes)) |->
     IF i = pos + 1 THEN b ELSE IF i <= Len(bytes) THEN bytes[i] ELSE Zero]

\* readFile
Read(h) ==
  /\ Usable(h)
  /\ LET o == handle[h] IN
     /\ Reads(o) /\ MayRead(o) /\ opens[o].pos < Len(content)
     /\ opens' = [opens EXCEPT ![o].pos = @ + 1]
  /\ UNCHANGED <<content, handle, lock>>

\* writeFile: at the position, or at the end as it is at that moment.
Write(h, b) ==
  /\ Usable(h)
  /\ LET o == handle[h]
         at == IF opens[o].append THEN Len(content) ELSE opens[o].pos
     IN /\ Writes(o) /\ MayWrite(o) /\ at < MaxBytes
        /\ content' = Written(content, at, b)
        /\ opens' = [opens EXCEPT ![o].pos = at + 1]
  /\ UNCHANGED <<handle, lock>>

\* seekFile: an append handle has no position.
Seek(h, pos) ==
  /\ Usable(h) /\ ~opens[handle[h]].append
  /\ opens' = [opens EXCEPT ![handle[h]].pos = pos]
  /\ UNCHANGED <<content, handle, lock>>

Resized(bytes, size) == [i \in 1 .. size |-> IF i <= Len(bytes) THEN bytes[i] ELSE Zero]

\* resizeFile: the position goes to the new end, the end is set there, and the position goes back if it still fits.
\* Either of the last two may fail.
Resize(h, size, restore) ==
  /\ Usable(h) /\ Writes(handle[h]) /\ ~opens[handle[h]].append
  /\ LET o == handle[h]
         before == opens[o].pos
     IN \/ /\ opens' = [opens EXCEPT ![o].pos = size]
           /\ UNCHANGED content
        \/ /\ content' = Resized(content, size)
           /\ opens' = [opens EXCEPT ![o].pos = IF restore /\ before <= size THEN before ELSE size]
        \/ /\ restore /\ before <= size
           /\ content' = Resized(content, size)
           /\ opens' = [opens EXCEPT ![o].pos = size]
  /\ UNCHANGED <<handle, lock>>

-----------------------------------------------------------------------------
(* Locks *)

\* LockFileEx over the whole file, failing at once. A shared lock of the same file object is admitted under its own
\* exclusive lock; no other overlap with an exclusive one is.
Admitted(o, mode) ==
  IF mode = "Exclusive" THEN \A p \in Live : ~opens[p].exclusive /\ opens[p].shared = 0
  ELSE \A p \in Live \ {o} : ~opens[p].exclusive

\* Mutation: the flag of an exclusive lock is not passed on.
Taken_Shared(file, mode) == [file EXCEPT !.shared = @ + 1, !.mixed = @ \/ file.exclusive]
Taken(file, mode) == IF mode = "Exclusive" THEN [file EXCEPT !.exclusive = TRUE]
                     ELSE [file EXCEPT !.shared = @ + 1, !.mixed = @ \/ file.exclusive]

\* Mutation: the count of active locks is kept by the lock only.
Counted_NotByHandle(file) == file
Counted(file) == [file EXCEPT !.counter = @ + 1]

\* Readers lock shared, writers exclusively, and a File either way.
Offers(object, mode) == object = "File" \/ object = (IF mode = "Shared" THEN "FileReader" ELSE "FileWriter")

\* tryLockFile; WouldBlock and failures change nothing.
TryLock(h, l, mode) ==
  /\ Usable(h) /\ lock[l] = NoLock
  /\ Offers(opens[handle[h]].object, mode)
  /\ LET o == handle[h] IN
     /\ Admitted(o, mode)
     /\ lock' = [lock EXCEPT ![l] = [of |-> o, mode |-> mode, active |-> TRUE]]
     /\ opens' = [opens EXCEPT ![o] = Counted(Taken(opens[o], mode))]
  /\ UNCHANGED <<content, handle>>

\* UnlockFileEx gives up the exclusive lock of the range before the shared ones.
NativeUnlocked(file) == IF file.exclusive THEN [file EXCEPT !.exclusive = FALSE]
                        ELSE [file EXCEPT !.shared = IF @ > 0 THEN @ - 1 ELSE 0]

\* unlockNativeFile
Discounted(file) == [file EXCEPT !.counter = IF @ > 0 THEN @ - 1 ELSE 0]

\* The last handle of a file object takes its locks with it.
After(file, left) == IF file.own \/ left # {} THEN file ELSE NoObject

\* unlock, and the end of a lock object whose unlock succeeds: the duplicate is closed.
Unlock(l) ==
  /\ lock[l].active
  /\ lock' = [lock EXCEPT ![l] = NoLock]
  /\ opens' = [opens EXCEPT ![lock[l].of] = After(Discounted(NativeUnlocked(@)), LocksOn(lock[l].of) \ {l})]
  /\ UNCHANGED <<content, handle>>

\* ~FileLockState after a failed unlock: the duplicate is closed and the lock no longer counts; the native lock goes
\* with the last handle of the file object. Bound: once for a file object.
AbandonLock(l) ==
  /\ lock[l].active /\ ~opens[lock[l].of].leaked
  /\ lock' = [lock EXCEPT ![l] = NoLock]
  /\ opens' = [opens EXCEPT ![lock[l].of] =
                 After(Discounted([@ EXCEPT !.leaked = TRUE]), LocksOn(lock[l].of) \ {l})]
  /\ UNCHANGED <<content, handle>>

-----------------------------------------------------------------------------
(* Closing *)

MayClose(file) == file.counter = 0

Released(o) == [opens EXCEPT ![o] = After([@ EXCEPT !.own = FALSE, !.state = "closed"], LocksOn(o))]

\* closeFile: refused while a lock is active; a flush or a close that fails leaves it open.
Close(h) ==
  /\ Usable(h) /\ MayClose(opens[handle[h]])
  /\ opens' = Released(handle[h])
  /\ handle' = [handle EXCEPT ![h] = 0]
  /\ UNCHANGED <<content, lock>>

\* The destructor: what a close refuses is closed by ~FileState.
Destroy(h) ==
  /\ Usable(h)
  /\ opens' = Released(handle[h])
  /\ handle' = [handle EXCEPT ![h] = 0]
  /\ UNCHANGED <<content, lock>>

FileInit ==
  /\ content \in {Absent, <<1>>}
  /\ opens = [o \in 1 .. MaxOpens |-> NoObject]
  /\ handle = [h \in Handles |-> 0]
  /\ lock = [l \in Locks |-> NoLock]

FileNext ==
  \/ \E h \in Handles : \/ \E o \in DOMAIN opens, request \in OpenRequests : Open(h, o, request)
                        \/ FinishOpen(h) \/ Read(h) \/ Close(h) \/ Destroy(h)
                        \/ \E b \in Bytes : Write(h, b)
                        \/ \E pos \in 0 .. MaxBytes : Seek(h, pos)
                        \/ \E size \in 0 .. MaxBytes, restore \in BOOLEAN : Resize(h, size, restore)
                        \/ \E l \in Locks, mode \in {"Shared", "Exclusive"} : TryLock(h, l, mode)
  \/ \E l \in Locks : Unlock(l) \/ AbandonLock(l)

FileSpec == FileInit /\ [][FileNext]_fileVars

-----------------------------------------------------------------------------
(* Properties *)

\* The count that makes close() refuse is the number of active locks of the handle, the native locks are theirs (one
\* more only where an unlock failed and the handle is still open). A file
\* object that is gone holds none.
LocksAreBacked ==
  \A o \in DOMAIN opens :
    LET native == opens[o].shared + (IF opens[o].exclusive THEN 1 ELSE 0) IN
    /\ opens[o].counter = Cardinality(ActiveLocks(o))
    /\ native >= Cardinality(ActiveLocks(o))
    /\ native > Cardinality(ActiveLocks(o)) => opens[o].leaked
    /\ ~Lives(o) => native = 0

\* An exclusive lock and a lock of another file object are never active together; a file object that took a shared lock
\* under its own exclusive one is exempt, for the system gives up the exclusive one first (tryLockFile, unlockFile).
LocksExclude ==
  \A k, l \in Locks :
    /\ lock[k].active /\ lock[l].active /\ lock[k].of # lock[l].of /\ lock[k].mode = "Exclusive"
    => opens[lock[k].of].mixed

\* Lock objects stand for native locks, also after moves, closes and failed
\* unlocks, and two of them exclude each other as their kinds say.
LocksAreSound == LocksAreBacked /\ LocksExclude
=============================================================================
