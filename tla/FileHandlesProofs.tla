------------------------- MODULE FileHandlesProofs --------------------------
(***************************************************************************)
(* For any number of handles, locks and native file objects, a lock object *)
(* stands for a native lock of its file object through closes, destroyed   *)
(* handles and failed unlocks, and an exclusive lock is alone among file   *)
(* objects.                                                                *)
(***************************************************************************)
EXTENDS FileHandles, FiniteSetTheorems, TLAPS

\* The types.
FileObject ==
  [own : BOOLEAN, object : {"none", "FileReader", "FileWriter", "File"}, access : {"none", "Read", "Write", "ReadWrite"},
   share : SUBSET {"Read", "Write"}, append : BOOLEAN, pos : Nat, state : {"closed", "truncating", "open"}, flush : BOOLEAN,
   counter : Nat, shared : Nat, exclusive : BOOLEAN, mixed : BOOLEAN, leaked : BOOLEAN]

HeldLock == [of : 1 .. MaxOpens, mode : {"Shared", "Exclusive"}, active : {TRUE}]

FileTypeOK ==
  /\ content \in Seq(Int)
  /\ opens \in [1 .. MaxOpens -> FileObject]
  /\ handle \in [Handles -> 0 .. MaxOpens]
  /\ lock \in [Locks -> {NoLock} \cup HeldLock]

Native(file) == file.shared + (IF file.exclusive THEN 1 ELSE 0)
Surplus(file) == IF file.leaked THEN 1 ELSE 0

\* The native locks of a file object are those of its lock objects, and one more after a failed unlock.
CountsAgree(o) == opens[o].counter = Cardinality(LocksOn(o)) /\ Native(opens[o]) = opens[o].counter + Surplus(opens[o])

\* A file object that is gone left nothing.
GoneIsEmpty(o) == Lives(o) \/ opens[o] = NoObject

\* Nothing is locked before the truncation of a strict open.
TruncatingIsUnlocked(o) == opens[o].state = "truncating" => LocksOn(o) = {}

\* An exclusive native lock is the only one of its file object unless the object mixed its locks.
ExclusiveIsAlone(o) == opens[o].exclusive /\ ~opens[o].mixed => opens[o].shared = 0

\* An exclusive lock object has the exclusive native lock unless the object mixed its locks.
ExclusiveIsHeld(l) == lock[l].mode = "Exclusive" /\ ~opens[lock[l].of].mixed => opens[lock[l].of].exclusive

\* An exclusive native lock keeps the locks of every other file object out.
ExclusiveKeepsOut(p, q) == p # q /\ opens[p].exclusive => ~opens[q].exclusive /\ opens[q].shared = 0

\* The inductive invariant.
FileInv ==
  /\ FileTypeOK
  /\ \A o \in 1 .. MaxOpens : CountsAgree(o)
  /\ \A o \in 1 .. MaxOpens : GoneIsEmpty(o)
  /\ \A o \in 1 .. MaxOpens : TruncatingIsUnlocked(o)
  /\ \A o \in 1 .. MaxOpens : ExclusiveIsAlone(o)
  /\ \A p, q \in 1 .. MaxOpens : ExclusiveKeepsOut(p, q)
  /\ \A l \in Locks : ExclusiveIsHeld(l)

-----------------------------------------------------------------------------
(* The locks of a file object *)

\* A lock object of a file object is active.
LEMMA LocksAreActive ==
  ASSUME FileTypeOK, NEW o \in 1 .. MaxOpens
  PROVE  ActiveLocks(o) = LocksOn(o)
<1>1. ASSUME NEW l \in Locks, lock[l].of = o PROVE lock[l].active
  <2>1. lock[l] \in {NoLock} \cup HeldLock
    BY DEF FileTypeOK
  <2>2. lock[l] # NoLock
    BY <1>1, FileHandlesAssumption DEF NoLock
  <2> QED
    BY <2>1, <2>2 DEF HeldLock
<1> QED
  BY <1>1 DEF ActiveLocks, LocksOn

\* There are finitely many, and their number is zero only when there are none.
LEMMA LocksAreFinite ==
  ASSUME NEW o
  PROVE  /\ IsFiniteSet(LocksOn(o)) /\ Cardinality(LocksOn(o)) \in Nat
         /\ Cardinality(LocksOn(o)) = 0 <=> LocksOn(o) = {}
<1>1. LocksOn(o) \subseteq Locks
  BY DEF LocksOn
<1>2. IsFiniteSet(LocksOn(o))
  BY <1>1, FS_Subset, FileHandlesAssumption
<1> QED
  BY <1>2, FS_CardinalityType, FS_EmptySet

\* The fields that tell of locks are those of the file object before.
SameLocks(f, g) ==
  /\ f.counter = g.counter /\ f.shared = g.shared /\ f.exclusive = g.exclusive
  /\ f.mixed = g.mixed /\ f.leaked = g.leaked

\* What a step that takes and gives up no lock may do to a file object: nothing, end it when nothing is locked, or
\* change what does not tell of its locks.
QuietStep(o) ==
  \/ opens'[o] = opens[o]
  \/ opens'[o] = NoObject /\ LocksOn(o) = {}
  \/ /\ SameLocks(opens'[o], opens[o])
     /\ opens'[o].own \/ LocksOn(o) # {}
     /\ opens'[o].state = "truncating" => LocksOn(o) = {}

\* Such a step keeps the invariant.
LEMMA QuietStepsKeepFileInv ==
  ASSUME FileInv, FileTypeOK', UNCHANGED lock, \A o \in 1 .. MaxOpens : QuietStep(o)
  PROVE  FileInv'
<1>0. \A o : LocksOn(o)' = LocksOn(o)
  BY DEF LocksOn
<1>t. FileTypeOK
  BY DEF FileInv
<1>n. NoObject.counter = 0 /\ NoObject.shared = 0 /\ NoObject.exclusive = FALSE /\ NoObject.leaked = FALSE
      /\ NoObject.state = "closed" /\ NoObject.own = FALSE
  BY DEF NoObject
<1>1. ASSUME NEW o \in 1 .. MaxOpens PROVE CountsAgree(o)'
  <2>1. CountsAgree(o) /\ QuietStep(o)
    BY <1>1 DEF FileInv
  <2>2. CASE SameLocks(opens'[o], opens[o])
    BY <2>1, <2>2, <1>0 DEF CountsAgree, Native, Surplus, SameLocks
  <2>3. CASE opens'[o] = NoObject /\ LocksOn(o) = {}
    BY <2>3, <1>0, <1>n, LocksAreFinite DEF CountsAgree, Native, Surplus
  <2> QED
    BY <2>1, <2>2, <2>3 DEF QuietStep, SameLocks
<1>2. ASSUME NEW o \in 1 .. MaxOpens PROVE GoneIsEmpty(o)'
  <2>1. GoneIsEmpty(o) /\ QuietStep(o)
    BY <1>2 DEF FileInv
  <2> QED
    BY <2>1, <1>0 DEF GoneIsEmpty, QuietStep, Lives
<1>3. ASSUME NEW o \in 1 .. MaxOpens PROVE TruncatingIsUnlocked(o)'
  <2>1. TruncatingIsUnlocked(o) /\ QuietStep(o)
    BY <1>3 DEF FileInv
  <2> QED
    BY <2>1, <1>0, <1>n DEF TruncatingIsUnlocked, QuietStep
<1>4. ASSUME NEW o \in 1 .. MaxOpens PROVE ExclusiveIsAlone(o)'
  <2>1. ExclusiveIsAlone(o) /\ QuietStep(o)
    BY <1>4 DEF FileInv
  <2> QED
    BY <2>1, <1>n DEF ExclusiveIsAlone, QuietStep, SameLocks
<1>5. ASSUME NEW p \in 1 .. MaxOpens, NEW q \in 1 .. MaxOpens PROVE ExclusiveKeepsOut(p, q)'
  <2>1. ExclusiveKeepsOut(p, q) /\ QuietStep(p) /\ QuietStep(q)
    BY <1>5 DEF FileInv
  <2> QED
    BY <2>1, <1>n DEF ExclusiveKeepsOut, QuietStep, SameLocks
<1>6. ASSUME NEW l \in Locks PROVE ExclusiveIsHeld(l)'
  <2>1. ExclusiveIsHeld(l)
    BY <1>6 DEF FileInv
  <2>2. CASE lock[l] = NoLock
    BY <2>2 DEF ExclusiveIsHeld, NoLock
  <2>3. CASE lock[l] # NoLock
    <3>1. lock[l].of \in 1 .. MaxOpens /\ l \in LocksOn(lock[l].of)
      BY <2>3, <1>t, <1>6 DEF FileTypeOK, HeldLock, LocksOn
    <3>2. QuietStep(lock[l].of)
      BY <3>1
    <3> QED
      BY <3>1, <3>2, <2>1 DEF ExclusiveIsHeld, QuietStep, SameLocks
  <2> QED
    BY <2>2, <2>3
<1> QED
  BY <1>1, <1>2, <1>3, <1>4, <1>5, <1>6 DEF FileInv

-----------------------------------------------------------------------------
(* Opening, reading, writing and closing *)

\* What an open file object is: usable, it is not gone.
LEMMA OpenIsLive ==
  ASSUME FileInv, NEW o \in 1 .. MaxOpens, opens[o].state # "closed"
  PROVE  Lives(o) /\ opens[o] \in FileObject
<1>1. opens[o] # NoObject
  BY DEF NoObject
<1> QED
  BY <1>1 DEF FileInv, FileTypeOK, GoneIsEmpty

\* A step that changes one file object is quiet when it is quiet for that one.
LEMMA QuietOne ==
  ASSUME FileInv, NEW o \in 1 .. MaxOpens, NEW file \in FileObject, opens' = [opens EXCEPT ![o] = file],
         \/ file = NoObject /\ LocksOn(o) = {}
         \/ /\ SameLocks(file, opens[o])
            /\ file.own \/ LocksOn(o) # {}
            /\ file.state = "truncating" => LocksOn(o) = {}
  PROVE  /\ \A p \in 1 .. MaxOpens : QuietStep(p)
         /\ opens' \in [1 .. MaxOpens -> FileObject]
<1>1. opens \in [1 .. MaxOpens -> FileObject]
  BY DEF FileInv, FileTypeOK
<1>2. opens'[o] = file /\ \A p \in 1 .. MaxOpens : p # o => opens'[p] = opens[p]
  BY <1>1
<1>3. ASSUME NEW p \in 1 .. MaxOpens PROVE QuietStep(p)
  BY <1>2 DEF QuietStep
<1> QED
  BY <1>1, <1>3

\* A position, or the end of a truncation, is quiet.
LEMMA QuietMove ==
  ASSUME FileInv, NEW o \in 1 .. MaxOpens, opens[o].state # "closed", NEW pos \in Nat, NEW state \in {"truncating", "open"},
         state = "truncating" => opens[o].state = "truncating",
         opens' = [opens EXCEPT ![o] = [[opens[o] EXCEPT !.pos = pos] EXCEPT !.state = state]]
  PROVE  /\ \A p \in 1 .. MaxOpens : QuietStep(p)
         /\ opens' \in [1 .. MaxOpens -> FileObject]
<1> DEFINE file == [[opens[o] EXCEPT !.pos = pos] EXCEPT !.state = state]
<1>1. Lives(o) /\ opens[o] \in FileObject /\ TruncatingIsUnlocked(o)
  BY OpenIsLive DEF FileInv
<1>2. file \in FileObject
  BY <1>1 DEF FileObject
<1>3. SameLocks(file, opens[o]) /\ file.own = opens[o].own /\ file.state = state
  BY <1>1 DEF FileObject, SameLocks
<1>4. file.own \/ LocksOn(o) # {}
  BY <1>1, <1>3 DEF Lives
<1>5. file.state = "truncating" => LocksOn(o) = {}
  BY <1>1, <1>3 DEF TruncatingIsUnlocked
<1>6. opens' = [opens EXCEPT ![o] = file]
  OBVIOUS
<1> HIDE DEF file
<1> QED
  BY <1>2, <1>3, <1>4, <1>5, <1>6, QuietOne

\* The type of a file object that is none.
LEMMA NoObjectIsFileObject == NoObject \in FileObject
BY DEF NoObject, FileObject

\* A length is a natural number, also that of an absent file.
LEMMA LengthIsNat == ASSUME FileTypeOK PROVE Len(content) \in Nat
BY DEF FileTypeOK

\* A byte written at a position, and a new size, leave a sequence.
LEMMA ContentsAreSequences ==
  ASSUME NEW bytes \in Seq(Int), NEW pos \in Nat, NEW b \in Bytes, NEW size \in Nat
  PROVE  Written(bytes, pos, b) \in Seq(Int) /\ Resized(bytes, size) \in Seq(Int)
<1>1. Len(bytes) \in Nat /\ \A i \in 1 .. Len(bytes) : bytes[i] \in Int
  OBVIOUS
<1>2. b \in Int /\ Zero \in Int
  BY DEF Bytes, Zero
<1>3. Written(bytes, pos, b) \in Seq(Int)
  <2> DEFINE last == IF pos + 1 > Len(bytes) THEN pos + 1 ELSE Len(bytes)
             byte(i) == IF i = pos + 1 THEN b ELSE IF i <= Len(bytes) THEN bytes[i] ELSE Zero
  <2>1. last \in Nat
    BY <1>1
  <2>2. \A i \in 1 .. last : byte(i) \in Int
    BY <1>1, <1>2
  <2>3. Written(bytes, pos, b) = [i \in 1 .. last |-> byte(i)]
    BY DEF Written
  <2> HIDE DEF last, byte
  <2> QED
    BY <2>1, <2>2, <2>3
<1>4. Resized(bytes, size) \in Seq(Int)
  <2> DEFINE byte(i) == IF i <= Len(bytes) THEN bytes[i] ELSE Zero
  <2>2. \A i \in 1 .. size : byte(i) \in Int
    BY <1>1, <1>2
  <2>3. Resized(bytes, size) = [i \in 1 .. size |-> byte(i)]
    BY DEF Resized
  <2> HIDE DEF byte
  <2> QED
    BY <2>2, <2>3
<1> QED
  BY <1>3, <1>4

\* A usable handle names a file object that is open.
LEMMA UsableIsOpen ==
  ASSUME FileInv, NEW h \in Handles, handle[h] # 0, opens[handle[h]].state # "closed"
  PROVE  /\ handle[h] \in 1 .. MaxOpens
         /\ Lives(handle[h])
         /\ opens[handle[h]] \in FileObject
<1>1. handle[h] \in 1 .. MaxOpens
  BY FileHandlesAssumption DEF FileInv, FileTypeOK
<1> QED
  BY <1>1, OpenIsLive

\* openReader, openWriter and openFile take a file object that is gone.
LEMMA OpenKeepsFileInv ==
  ASSUME FileInv, NEW h \in Handles, NEW o \in 1 .. MaxOpens, NEW request \in OpenRequests, Open(h, o, request)
  PROVE  FileInv'
<1> DEFINE later == Truncates(request) /\ request.strict
           left == IF Exists /\ (later \/ ~Truncates(request)) THEN content ELSE <<>>
           pos == IF request.atEnd /\ ~later THEN Len(left) ELSE 0
           state == IF later THEN "truncating" ELSE "open"
           file == Opened(request, pos, state)
<1>1. /\ content' = left
      /\ opens' = [opens EXCEPT ![o] = file]
      /\ handle' = [handle EXCEPT ![h] = o]
      /\ UNCHANGED lock
      /\ ~Lives(o)
  BY DEF Open
<1>2. left \in Seq(Int) /\ pos \in Nat /\ state \in {"truncating", "open"}
  <2>1. content \in Seq(Int) /\ <<>> \in Seq(Int)
    BY DEF FileInv, FileTypeOK
  <2>2. left \in Seq(Int)
    BY <2>1
  <2> HIDE DEF left
  <2> QED
    BY <2>2
<1>3. opens[o] = NoObject /\ LocksOn(o) = {}
  BY <1>1 DEF FileInv, GoneIsEmpty, Lives
<1> HIDE DEF later, left, pos, state
<1>4. file \in FileObject /\ file.own /\ SameLocks(file, NoObject)
  <2>1. request.object \in {"FileReader", "FileWriter", "File"} /\ request.access \in {"Read", "Write", "ReadWrite"}
        /\ request.share \in SUBSET {"Read", "Write"} /\ request.append \in BOOLEAN /\ request.flushOnClose \in BOOLEAN
    BY FileHandlesAssumption
  <2>2. file = [own |-> TRUE, object |-> request.object, access |-> request.access, share |-> request.share,
                append |-> request.append, pos |-> pos, state |-> state, flush |-> request.flushOnClose,
                counter |-> 0, shared |-> 0, exclusive |-> FALSE, mixed |-> FALSE, leaked |-> FALSE]
    BY DEF Opened, NoObject
  <2> HIDE DEF file
  <2> QED
    BY <2>1, <2>2, <1>2 DEF FileObject, SameLocks, NoObject
<1> HIDE DEF file
<1>5. (\A p \in 1 .. MaxOpens : QuietStep(p)) /\ opens' \in [1 .. MaxOpens -> FileObject]
  BY <1>1, <1>3, <1>4, QuietOne
<1>6. FileTypeOK'
  BY <1>1, <1>2, <1>5, FileHandlesAssumption DEF FileInv, FileTypeOK
<1> QED
  BY <1>1, <1>5, <1>6, QuietStepsKeepFileInv

\* The truncation of a strict open, or its failure.
LEMMA FinishOpenKeepsFileInv ==
  ASSUME FileInv, NEW h \in Handles, FinishOpen(h)
  PROVE  FileInv'
<1> DEFINE o == handle[h]
<1>1. o \in 1 .. MaxOpens /\ Lives(o) /\ opens[o] \in FileObject /\ opens[o].state = "truncating"
  BY UsableIsOpen DEF FinishOpen
<1>2. CASE content' = <<>> /\ opens' = [opens EXCEPT ![o].state = "open"] /\ UNCHANGED <<handle, lock>>
  <2>1. opens[o].pos \in Nat
    BY <1>1 DEF FileObject
  <2>2. [[opens[o] EXCEPT !.pos = opens[o].pos] EXCEPT !.state = "open"] = [opens[o] EXCEPT !.state = "open"]
    BY <1>1 DEF FileObject
  <2>3. opens' = [opens EXCEPT ![o] = [[opens[o] EXCEPT !.pos = opens[o].pos] EXCEPT !.state = "open"]]
    BY <1>2, <2>2
  <2>4. (\A p \in 1 .. MaxOpens : QuietStep(p)) /\ opens' \in [1 .. MaxOpens -> FileObject]
    <3> DEFINE at == opens[o].pos
    <3>1. at \in Nat /\ opens' = [opens EXCEPT ![o] = [[opens[o] EXCEPT !.pos = at] EXCEPT !.state = "open"]]
      BY <2>1, <2>3
    <3> HIDE DEF at
    <3> QED
      BY <1>1, <3>1, QuietMove
  <2>5. FileTypeOK'
    BY <1>2, <2>4 DEF FileInv, FileTypeOK
  <2> QED
    BY <1>2, <2>4, <2>5, QuietStepsKeepFileInv
<1>3. CASE opens' = [opens EXCEPT ![o] = NoObject] /\ handle' = [handle EXCEPT ![h] = 0] /\ UNCHANGED <<content, lock>>
  <2>1. LocksOn(o) = {}
    BY <1>1 DEF FileInv, TruncatingIsUnlocked
  <2>2. (\A p \in 1 .. MaxOpens : QuietStep(p)) /\ opens' \in [1 .. MaxOpens -> FileObject]
    BY <1>1, <1>3, <2>1, NoObjectIsFileObject, QuietOne
  <2>3. FileTypeOK'
    BY <1>3, <2>2, FileHandlesAssumption DEF FileInv, FileTypeOK
  <2> QED
    BY <1>3, <2>2, <2>3, QuietStepsKeepFileInv
<1> QED
  BY <1>2, <1>3 DEF FinishOpen

\* A step of an open handle that moves its position and may change the bytes.
LEMMA MovesKeepFileInv ==
  ASSUME FileInv, NEW h \in Handles, Usable(h), NEW pos \in Nat,
         opens' = [opens EXCEPT ![handle[h]].pos = pos], content' \in Seq(Int), UNCHANGED <<handle, lock>>
  PROVE  FileInv'
<1> DEFINE o == handle[h]
<1>1. o \in 1 .. MaxOpens /\ opens[o] \in FileObject /\ opens[o].state = "open"
  BY UsableIsOpen DEF Usable
<1>2. [[opens[o] EXCEPT !.pos = pos] EXCEPT !.state = "open"] = [opens[o] EXCEPT !.pos = pos]
  BY <1>1 DEF FileObject
<1>3. opens' = [opens EXCEPT ![o] = [[opens[o] EXCEPT !.pos = pos] EXCEPT !.state = "open"]]
  BY <1>2
<1>4. (\A p \in 1 .. MaxOpens : QuietStep(p)) /\ opens' \in [1 .. MaxOpens -> FileObject]
  BY <1>1, <1>3, QuietMove
<1>5. FileTypeOK'
  BY <1>4 DEF FileInv, FileTypeOK
<1> QED
  BY <1>4, <1>5, QuietStepsKeepFileInv

\* readFile, writeFile, seekFile and resizeFile.
LEMMA TransfersKeepFileInv ==
  ASSUME FileInv, NEW h \in Handles,
         \/ Read(h)
         \/ \E b \in Bytes : Write(h, b)
         \/ \E pos \in 0 .. MaxBytes : Seek(h, pos)
         \/ \E size \in 0 .. MaxBytes, restore \in BOOLEAN : Resize(h, size, restore)
  PROVE  FileInv'
<1> DEFINE o == handle[h]
<1>u. Usable(h)
  BY DEF Read, Write, Seek, Resize
<1>1. o \in 1 .. MaxOpens /\ opens[o] \in FileObject /\ opens[o].pos \in Nat /\ opens \in [1 .. MaxOpens -> FileObject]
  BY <1>u, UsableIsOpen DEF Usable, FileObject, FileInv, FileTypeOK
<1>2. content \in Seq(Int) /\ Len(content) \in Nat /\ MaxBytes \in Nat
  BY LengthIsNat, FileHandlesAssumption DEF FileInv, FileTypeOK
<1>3. CASE Read(h)
  <2>1. PICK pos \in Nat : pos = opens[o].pos + 1
    BY <1>1
  <2>2. opens' = [opens EXCEPT ![handle[h]].pos = pos] /\ UNCHANGED <<content, handle, lock>>
    BY <1>3, <2>1, <1>1 DEF Read
  <2> QED
    BY <1>u, <1>2, <2>2, MovesKeepFileInv
<1>4. ASSUME NEW b \in Bytes, Write(h, b) PROVE FileInv'
  <2>1. PICK at \in Nat : at = IF opens[o].append THEN Len(content) ELSE opens[o].pos
    BY <1>1, <1>2
  <2>2. PICK pos \in Nat : pos = at + 1
    OBVIOUS
  <2>3. content' = Written(content, at, b) /\ opens' = [opens EXCEPT ![handle[h]].pos = pos] /\ UNCHANGED <<handle, lock>>
    BY <1>4, <2>1, <2>2 DEF Write
  <2>4. content' \in Seq(Int)
    BY <1>2, <2>3, <1>4, ContentsAreSequences
  <2> QED
    BY <1>u, <2>3, <2>4, MovesKeepFileInv
<1>5. ASSUME NEW pos \in 0 .. MaxBytes, Seek(h, pos) PROVE FileInv'
  <2>1. pos \in Nat
    BY <1>2
  <2>2. opens' = [opens EXCEPT ![handle[h]].pos = pos] /\ UNCHANGED <<content, handle, lock>>
    BY <1>5 DEF Seek
  <2> QED
    BY <1>u, <1>2, <2>1, <2>2, MovesKeepFileInv
<1>6. ASSUME NEW size \in 0 .. MaxBytes, NEW restore \in BOOLEAN, Resize(h, size, restore) PROVE FileInv'
  <2>1. size \in Nat /\ Resized(content, size) \in Seq(Int)
    <3>1. size \in Nat /\ 1 \in Bytes
      BY <1>2 DEF Bytes
    <3> QED
      BY <3>1, <1>2, ContentsAreSequences
  <2>2. PICK pos \in Nat : opens' = [opens EXCEPT ![handle[h]].pos = pos]
    <3>1. \/ opens' = [opens EXCEPT ![o].pos = size]
          \/ opens' = [opens EXCEPT ![o].pos = IF restore /\ opens[o].pos <= size THEN opens[o].pos ELSE size]
      BY <1>6 DEF Resize
    <3> DEFINE before == opens[o].pos
               next == IF restore /\ before <= size THEN before ELSE size
    <3>2. next \in Nat
      BY <2>1, <1>1
    <3>3. opens' = [opens EXCEPT ![o].pos = size] \/ opens' = [opens EXCEPT ![o].pos = next]
      BY <3>1
    <3> HIDE DEF next
    <3> QED
      BY <2>1, <3>2, <3>3
  <2>3. content' \in {content, Resized(content, size)} /\ UNCHANGED <<handle, lock>>
    BY <1>6 DEF Resize
  <2>4. content' \in Seq(Int)
    BY <1>2, <2>1, <2>3
  <2> QED
    BY <1>u, <2>2, <2>3, <2>4, MovesKeepFileInv
<1> QED
  BY <1>3, <1>4, <1>5, <1>6

\* closeFile and the destructor of a handle: the file object stays while a lock has it.
LEMMA ReleaseKeepsFileInv ==
  ASSUME FileInv, NEW h \in Handles, Usable(h), opens' = Released(handle[h]), handle' = [handle EXCEPT ![h] = 0],
         UNCHANGED <<content, lock>>
  PROVE  FileInv'
<1> DEFINE o == handle[h]
           closed == [opens[o] EXCEPT !.own = FALSE, !.state = "closed"]
           file == After(closed, LocksOn(o))
<1>1. o \in 1 .. MaxOpens /\ opens[o] \in FileObject
  BY UsableIsOpen DEF Usable
<1>2. closed \in FileObject /\ SameLocks(closed, opens[o]) /\ closed.own = FALSE /\ closed.state = "closed"
  BY <1>1 DEF FileObject, SameLocks
<1>3. opens' = [opens EXCEPT ![o] = file]
  BY DEF Released
<1> HIDE DEF closed
<1>4. file = IF LocksOn(o) # {} THEN closed ELSE NoObject
  BY <1>2 DEF After
<1> HIDE DEF file
<1>5. file \in FileObject
  BY <1>2, <1>4, NoObjectIsFileObject
<1>6. (\A p \in 1 .. MaxOpens : QuietStep(p)) /\ opens' \in [1 .. MaxOpens -> FileObject]
  BY <1>1, <1>2, <1>3, <1>4, <1>5, QuietOne
<1>7. FileTypeOK'
  BY <1>6, FileHandlesAssumption DEF FileInv, FileTypeOK
<1> QED
  BY <1>6, <1>7, QuietStepsKeepFileInv

-----------------------------------------------------------------------------
(* Locking and unlocking *)

\* A lock object that is taken joins the locks of its file object.
LEMMA LockJoins ==
  ASSUME FileTypeOK, NEW l \in Locks, NEW o \in 1 .. MaxOpens, NEW new, new.of = o, lock[l] = NoLock,
         lock' = [lock EXCEPT ![l] = new]
  PROVE  /\ LocksOn(o)' = LocksOn(o) \cup {l} /\ l \notin LocksOn(o)
         /\ \A p \in 1 .. MaxOpens : p # o => LocksOn(p)' = LocksOn(p)
<1>1. lock'[l] = new /\ \A k \in Locks : k # l => lock'[k] = lock[k]
  BY DEF FileTypeOK
<1>2. \A p : \A k : /\ k \in LocksOn(p) <=> k \in Locks /\ lock[k].of = p
                    /\ k \in LocksOn(p)' <=> k \in Locks /\ lock'[k].of = p
  BY DEF LocksOn
<1>3. lock[l].of = 0 /\ \A p \in 1 .. MaxOpens : p # 0
  BY FileHandlesAssumption DEF NoLock
<1>4. ASSUME NEW p \in 1 .. MaxOpens, p # o PROVE LocksOn(p)' = LocksOn(p)
  <2>1. \A k : k \in LocksOn(p)' <=> k \in LocksOn(p)
    BY <1>1, <1>2, <1>3, <1>4
  <2> QED
    BY <2>1
<1>5. \A k : k \in LocksOn(o)' <=> k \in LocksOn(o) \/ k = l
  BY <1>1, <1>2
<1>6. l \notin LocksOn(o)
  BY <1>2, <1>3
<1> QED
  BY <1>4, <1>5, <1>6

\* A lock object that is given up leaves them.
LEMMA LockLeaves ==
  ASSUME FileTypeOK, NEW l \in Locks, NEW o \in 1 .. MaxOpens, lock[l].of = o, lock' = [lock EXCEPT ![l] = NoLock]
  PROVE  /\ LocksOn(o)' = LocksOn(o) \ {l} /\ l \in LocksOn(o)
         /\ \A p \in 1 .. MaxOpens : p # o => LocksOn(p)' = LocksOn(p)
<1>1. lock'[l] = NoLock /\ \A k \in Locks : k # l => lock'[k] = lock[k]
  BY DEF FileTypeOK
<1>2. \A p : \A k : /\ k \in LocksOn(p) <=> k \in Locks /\ lock[k].of = p
                    /\ k \in LocksOn(p)' <=> k \in Locks /\ lock'[k].of = p
  BY DEF LocksOn
<1>3. NoLock.of = 0 /\ \A p \in 1 .. MaxOpens : p # 0
  BY FileHandlesAssumption DEF NoLock
<1>4. ASSUME NEW p \in 1 .. MaxOpens, p # o PROVE LocksOn(p)' = LocksOn(p)
  <2>1. \A k : k \in LocksOn(p)' <=> k \in LocksOn(p)
    BY <1>1, <1>2, <1>3, <1>4
  <2> QED
    BY <2>1
<1>5. \A k : k \in LocksOn(o)' <=> k \in LocksOn(o) /\ k # l
  BY <1>1, <1>2, <1>3
<1>6. l \in LocksOn(o)
  BY <1>2
<1> QED
  BY <1>4, <1>5, <1>6

\* The parts that tell of locks need only be shown for the file object that changes, when it takes no lock that
\* another one's exclusive lock keeps out.
LEMMA LockStepKeepsFileInv ==
  ASSUME FileInv, FileTypeOK', NEW o \in 1 .. MaxOpens, NEW file \in FileObject, opens' = [opens EXCEPT ![o] = file],
         NEW l \in Locks, \A p \in 1 .. MaxOpens : p # o => LocksOn(p)' = LocksOn(p),
         \A k \in Locks : k # l => lock'[k] = lock[k],
         CountsAgree(o)', GoneIsEmpty(o)', TruncatingIsUnlocked(o)', ExclusiveIsAlone(o)',
         \A q \in 1 .. MaxOpens : q # o => /\ opens[q].exclusive => ~file.exclusive /\ file.shared = 0
                                           /\ file.exclusive => ~opens[q].exclusive /\ opens[q].shared = 0,
         ExclusiveIsHeld(l)',
         \A k \in Locks : k # l /\ lock[k].of = o => ExclusiveIsHeld(k)'
  PROVE  FileInv'
<1>1. opens'[o] = file /\ \A p \in 1 .. MaxOpens : p # o => opens'[p] = opens[p]
  BY DEF FileInv, FileTypeOK
<1>2. ASSUME NEW p \in 1 .. MaxOpens
      PROVE  CountsAgree(p)' /\ GoneIsEmpty(p)' /\ TruncatingIsUnlocked(p)' /\ ExclusiveIsAlone(p)'
  <2>1. CASE p # o
    <3>1. opens'[p] = opens[p] /\ LocksOn(p)' = LocksOn(p)
      BY <1>1, <2>1
    <3>2. CountsAgree(p) /\ GoneIsEmpty(p) /\ TruncatingIsUnlocked(p) /\ ExclusiveIsAlone(p)
      BY DEF FileInv
    <3> QED
      BY <3>1, <3>2 DEF CountsAgree, GoneIsEmpty, Lives, TruncatingIsUnlocked, ExclusiveIsAlone
  <2> QED
    BY <2>1
<1>3. ASSUME NEW p \in 1 .. MaxOpens, NEW q \in 1 .. MaxOpens PROVE ExclusiveKeepsOut(p, q)'
  <2>1. ExclusiveKeepsOut(p, q)
    BY DEF FileInv
  <2> QED
    BY <1>1, <2>1 DEF ExclusiveKeepsOut
<1>4. ASSUME NEW k \in Locks PROVE ExclusiveIsHeld(k)'
  <2>1. CASE k # l /\ lock[k].of # o
    <3>1. lock'[k] = lock[k] /\ ExclusiveIsHeld(k)
      BY <2>1 DEF FileInv
    <3>2. CASE lock[k] = NoLock
      BY <3>1, <3>2 DEF ExclusiveIsHeld, NoLock
    <3>3. CASE lock[k] # NoLock
      <4>1. lock[k].of \in 1 .. MaxOpens
        BY <3>3 DEF FileInv, FileTypeOK, HeldLock
      <4> QED
        BY <1>1, <2>1, <3>1, <4>1 DEF ExclusiveIsHeld
    <3> QED
      BY <3>2, <3>3
  <2> QED
    BY <2>1
<1> QED
  BY <1>2, <1>3, <1>4 DEF FileInv

\* tryLockFile
LEMMA TryLockKeepsFileInv ==
  ASSUME FileInv, NEW h \in Handles, NEW l \in Locks, NEW mode \in {"Shared", "Exclusive"}, TryLock(h, l, mode)
  PROVE  FileInv'
<1>t. FileTypeOK
  BY DEF FileInv
<1>0. PICK o \in 1 .. MaxOpens : o = handle[h]
  BY UsableIsOpen DEF TryLock, Usable
<1>b. PICK before \in FileObject : before = opens[o]
  BY <1>0, UsableIsOpen DEF TryLock, Usable
<1> DEFINE file == Counted(Taken(before, mode))
           new == [of |-> o, mode |-> mode, active |-> TRUE]
<1>1. Lives(o) /\ before.state = "open"
  BY <1>0, <1>b, UsableIsOpen DEF TryLock, Usable
<1>2. /\ lock[l] = NoLock /\ Admitted(o, mode)
      /\ lock' = [lock EXCEPT ![l] = new]
      /\ opens' = [opens EXCEPT ![o] = file]
      /\ UNCHANGED <<content, handle>>
  BY <1>0, <1>b DEF TryLock
<1>3. new.of = o
  OBVIOUS
<1>4. /\ LocksOn(o)' = LocksOn(o) \cup {l} /\ l \notin LocksOn(o)
      /\ \A p \in 1 .. MaxOpens : p # o => LocksOn(p)' = LocksOn(p)
  <2> HIDE DEF new
  <2> QED
    BY <1>t, <1>2, <1>3, LockJoins
<1>5. Cardinality(LocksOn(o)') = Cardinality(LocksOn(o)) + 1 /\ Cardinality(LocksOn(o)) \in Nat
  BY <1>4, LocksAreFinite, FS_AddElement
<1>6. CountsAgree(o) /\ ExclusiveIsAlone(o)
  BY DEF FileInv
<1>7. /\ before.shared \in Nat /\ before.counter \in Nat
      /\ before.exclusive \in BOOLEAN /\ before.mixed \in BOOLEAN /\ before.leaked \in BOOLEAN
  BY DEF FileObject
<1>8. /\ file.counter = before.counter + 1
      /\ file.leaked = before.leaked /\ file.state = "open" /\ file.own = before.own
      /\ mode = "Exclusive" => file.exclusive = TRUE /\ file.shared = before.shared /\ file.mixed = before.mixed
      /\ mode = "Shared" => /\ file.exclusive = before.exclusive /\ file.shared = before.shared + 1
                            /\ file.mixed = (before.mixed \/ before.exclusive)
      /\ file \in FileObject
  <2>1. CASE mode = "Exclusive"
    <3>1. Taken(before, mode) = [before EXCEPT !.exclusive = TRUE]
      BY <2>1 DEF Taken
    <3>2. PICK taken \in FileObject : taken = [before EXCEPT !.exclusive = TRUE]
      BY DEF FileObject
    <3>3. file = [taken EXCEPT !.counter = taken.counter + 1] /\ taken.counter = before.counter
      BY <3>1, <3>2 DEF Counted, FileObject
    <3> HIDE DEF file
    <3>4. file \in FileObject
      BY <1>7, <3>3 DEF FileObject
    <3>5. /\ file.counter = before.counter + 1 /\ file.leaked = taken.leaked /\ file.state = taken.state
          /\ file.own = taken.own /\ file.exclusive = taken.exclusive /\ file.shared = taken.shared
          /\ file.mixed = taken.mixed
      BY <3>3 DEF FileObject
    <3>6. /\ taken.leaked = before.leaked /\ taken.state = "open" /\ taken.own = before.own
          /\ taken.exclusive = TRUE /\ taken.shared = before.shared /\ taken.mixed = before.mixed
      BY <1>1, <3>2 DEF FileObject
    <3> QED
      BY <2>1, <3>4, <3>5, <3>6
  <2>2. CASE mode = "Shared"
    <3>0. PICK mixed \in BOOLEAN : mixed = (before.mixed \/ before.exclusive)
      OBVIOUS
    <3>1. Taken(before, mode) = [before EXCEPT !.shared = before.shared + 1, !.mixed = mixed]
      BY <2>2, <3>0 DEF Taken
    <3>2. PICK taken \in FileObject : taken = [before EXCEPT !.shared = before.shared + 1, !.mixed = mixed]
      <4>1. PICK shared \in Nat : shared = before.shared + 1
        BY <1>7
      <4>2. [before EXCEPT !.shared = shared, !.mixed = mixed] \in FileObject
        BY DEF FileObject
      <4> QED
        BY <4>1, <4>2
    <3>3. file = [taken EXCEPT !.counter = taken.counter + 1] /\ taken.counter = before.counter
      BY <3>1, <3>2 DEF Counted, FileObject
    <3> HIDE DEF file
    <3>4. file \in FileObject
      BY <1>7, <3>3 DEF FileObject
    <3>5. /\ file.counter = before.counter + 1 /\ file.leaked = taken.leaked /\ file.state = taken.state
          /\ file.own = taken.own /\ file.exclusive = taken.exclusive /\ file.shared = taken.shared
          /\ file.mixed = taken.mixed
      BY <3>3 DEF FileObject
    <3>6. /\ taken.leaked = before.leaked /\ taken.state = "open" /\ taken.own = before.own
          /\ taken.exclusive = before.exclusive /\ taken.shared = before.shared + 1 /\ taken.mixed = mixed
      BY <1>1, <3>2 DEF FileObject
    <3> QED
      BY <2>2, <3>0, <3>4, <3>5, <3>6
  <2> QED
    BY <2>1, <2>2
<1>9. /\ \A q \in 1 .. MaxOpens : q # o => ~opens[q].exclusive
      /\ mode = "Exclusive" => ~before.exclusive /\ \A q \in 1 .. MaxOpens : ~opens[q].exclusive /\ opens[q].shared = 0
  <2>1. ASSUME NEW q \in 1 .. MaxOpens, q \notin Live PROVE ~opens[q].exclusive /\ opens[q].shared = 0
    <3>1. opens[q] = NoObject
      BY <2>1 DEF FileInv, FileTypeOK, GoneIsEmpty, Live
    <3> QED
      BY <3>1 DEF NoObject
  <2> QED
    BY <2>1, <1>b, <1>2 DEF Admitted
<1>10. opens'[o] = file /\ lock'[l] = new
  BY <1>2, <1>t DEF FileTypeOK
<1> HIDE DEF file
<1>11. FileTypeOK'
  <2>1. new \in HeldLock
    BY DEF HeldLock
  <2> HIDE DEF new
  <2> QED
    BY <1>t, <1>1, <1>2, <1>8, <2>1 DEF FileTypeOK
<1>12. CountsAgree(o)'
  <2>1. CASE mode = "Exclusive"
    <3>1. before.exclusive = FALSE /\ file.exclusive = TRUE /\ file.shared = before.shared
      BY <1>7, <1>8, <1>9, <2>1
    <3>2. Native(file) = Native(before) + 1 /\ Surplus(file) = Surplus(before)
      BY <1>7, <1>8, <3>1 DEF Native, Surplus
    <3> QED
      BY <1>b, <1>5, <1>6, <1>7, <1>8, <1>10, <3>2 DEF CountsAgree, Surplus
  <2>2. CASE mode = "Shared"
    <3>1. file.exclusive = before.exclusive /\ file.shared = before.shared + 1
      BY <1>8, <2>2
    <3>2. Native(file) = Native(before) + 1 /\ Surplus(file) = Surplus(before)
      BY <1>7, <1>8, <3>1 DEF Native, Surplus
    <3> QED
      BY <1>b, <1>5, <1>6, <1>7, <1>8, <1>10, <3>2 DEF CountsAgree, Surplus
  <2> QED
    BY <2>1, <2>2
<1>13. GoneIsEmpty(o)' /\ TruncatingIsUnlocked(o)'
  BY <1>4, <1>8, <1>10 DEF GoneIsEmpty, Lives, TruncatingIsUnlocked
<1>14. ExclusiveIsAlone(o)'
  BY <1>b, <1>6, <1>7, <1>8, <1>9, <1>10 DEF ExclusiveIsAlone
<1>15. ASSUME NEW q \in 1 .. MaxOpens, q # o
       PROVE  /\ opens[q].exclusive => ~file.exclusive /\ file.shared = 0
              /\ file.exclusive => ~opens[q].exclusive /\ opens[q].shared = 0
  <2>1. ExclusiveKeepsOut(o, q)
    BY DEF FileInv
  <2> QED
    BY <2>1, <1>b, <1>8, <1>9, <1>15 DEF ExclusiveKeepsOut
<1>16. ExclusiveIsHeld(l)'
  BY <1>8, <1>10 DEF ExclusiveIsHeld
<1>17. ASSUME NEW k \in Locks, k # l, lock[k].of = o PROVE ExclusiveIsHeld(k)'
  <2>1. ExclusiveIsHeld(k) /\ lock'[k] = lock[k]
    BY <1>2, <1>17 DEF FileInv, FileTypeOK
  <2> QED
    BY <2>1, <1>b, <1>7, <1>8, <1>10, <1>17 DEF ExclusiveIsHeld
<1>18. \A k \in Locks : k # l => lock'[k] = lock[k]
  BY <1>2, <1>t DEF FileTypeOK
<1> QED
  BY <1>1, <1>2, <1>4, <1>8, <1>11, <1>12, <1>13, <1>14, <1>15, <1>16, <1>17, <1>18, LockStepKeepsFileInv

\* What giving up lock l makes of file object o while somebody has it: one lock object less, and the native locks that
\* agree with the count.
GivesUp(l, o, given) ==
  /\ lock[l].active /\ lock[l].of = o
  /\ given.counter = opens[o].counter - 1
  /\ Native(given) = given.counter + Surplus(given)
  /\ given.own = opens[o].own /\ given.state = opens[o].state /\ given.mixed = opens[o].mixed
  /\ given.exclusive => opens[o].exclusive
  /\ given.shared <= opens[o].shared
  /\ given.exclusive /\ ~given.mixed => given.shared = 0
  /\ \A k \in Locks : k # l /\ lock[k].of = o /\ lock[k].mode = "Exclusive" /\ ~given.mixed => given.exclusive
  /\ lock' = [lock EXCEPT ![l] = NoLock]
  /\ opens' = [opens EXCEPT ![o] = After(given, LocksOn(o) \ {l})]
  /\ UNCHANGED <<content, handle>>

\* A lock object that goes takes at most one native lock with it; a file object nobody has goes with the last one.
LEMMA GivingUpKeepsFileInv ==
  ASSUME FileInv, NEW l \in Locks, NEW o \in 1 .. MaxOpens, NEW given \in FileObject, GivesUp(l, o, given)
  PROVE  FileInv'
<1> USE DEF GivesUp
<1>t. FileTypeOK
  BY DEF FileInv
<1> DEFINE left == LocksOn(o) \ {l}
<1>f. PICK file \in FileObject : file = After(given, left)
  BY NoObjectIsFileObject DEF After
<1>1. l \in LocksOn(o)
  BY DEF LocksOn
<1>2. LocksOn(o)' = left /\ \A p \in 1 .. MaxOpens : p # o => LocksOn(p)' = LocksOn(p)
  BY <1>t, <1>1, LockLeaves
<1>3. Cardinality(left) = Cardinality(LocksOn(o)) - 1 /\ Cardinality(left) \in Nat /\ (Cardinality(left) = 0 <=> left = {})
  <2>1. IsFiniteSet(LocksOn(o)) /\ IsFiniteSet(left)
    BY LocksAreFinite, FS_RemoveElement
  <2> QED
    BY <1>1, <2>1, FS_RemoveElement, FS_CardinalityType, FS_EmptySet
<1>4. file = IF given.own \/ left # {} THEN given ELSE NoObject
  BY <1>f DEF After
<1>5. opens' = [opens EXCEPT ![o] = file]
  BY <1>f
<1>6. opens'[o] = file /\ lock'[l] = NoLock /\ \A k \in Locks : k # l => lock'[k] = lock[k]
  BY <1>1, <1>5, <1>t DEF FileTypeOK
<1>n. /\ NoObject.counter = 0 /\ NoObject.shared = 0 /\ NoObject.exclusive = FALSE /\ NoObject.leaked = FALSE
      /\ NoObject.state = "closed" /\ NoObject.own = FALSE /\ NoObject.mixed = FALSE
  BY DEF NoObject
<1> HIDE DEF left
<1>8. FileTypeOK'
  BY <1>t, <1>5, <1>1 DEF FileTypeOK
<1>9. CountsAgree(o) /\ TruncatingIsUnlocked(o) /\ opens[o] \in FileObject
  BY <1>1, <1>t DEF FileInv, FileTypeOK
<1>10. CountsAgree(o)'
  <2>1. CASE file = given
    BY <2>1, <1>2, <1>3, <1>6, <1>9 DEF CountsAgree
  <2>2. CASE file = NoObject /\ left = {}
    <3>1. Native(NoObject) = 0 /\ Surplus(NoObject) = 0
      BY <1>n DEF Native, Surplus
    <3> QED
      BY <2>2, <3>1, <1>2, <1>3, <1>6, <1>n DEF CountsAgree
  <2> QED
    BY <2>1, <2>2, <1>4
<1>11. GoneIsEmpty(o)'
  BY <1>2, <1>4, <1>6 DEF GoneIsEmpty, Lives
<1>12. TruncatingIsUnlocked(o)'
  BY <1>1, <1>4, <1>6, <1>9, <1>n DEF TruncatingIsUnlocked
<1>13. ExclusiveIsAlone(o)'
  BY <1>4, <1>6, <1>n DEF ExclusiveIsAlone
<1>14. ASSUME NEW q \in 1 .. MaxOpens, q # o
       PROVE  /\ opens[q].exclusive => ~file.exclusive /\ file.shared = 0
              /\ file.exclusive => ~opens[q].exclusive /\ opens[q].shared = 0
  <2>1. ExclusiveKeepsOut(o, q) /\ ExclusiveKeepsOut(q, o)
    BY <1>1 DEF FileInv
  <2>2. given.shared \in Nat /\ opens[o].shared \in Nat
    BY <1>9 DEF FileObject
  <2>3. CASE file = given
    BY <1>14, <2>1, <2>2, <2>3 DEF ExclusiveKeepsOut
  <2>4. CASE file = NoObject
    BY <2>4, <1>n
  <2> QED
    BY <2>3, <2>4, <1>4
<1>15. ExclusiveIsHeld(l)'
  BY <1>6 DEF ExclusiveIsHeld, NoLock
<1>16. ASSUME NEW k \in Locks, k # l, lock[k].of = o PROVE ExclusiveIsHeld(k)'
  <2>1. lock'[k] = lock[k] /\ k \in left
    BY <1>6, <1>16 DEF left, LocksOn
  <2>2. file = given
    BY <2>1, <1>4
  <2> QED
    BY <2>1, <2>2, <1>6, <1>16 DEF ExclusiveIsHeld
<1>17. o \in 1 .. MaxOpens /\ (\A p \in 1 .. MaxOpens : p # o => LocksOn(p)' = LocksOn(p))
       /\ \A k \in Locks : k # l => lock'[k] = lock[k]
  BY <1>1, <1>2, <1>6
<1>18. \A k \in Locks : k # l /\ lock[k].of = o => ExclusiveIsHeld(k)'
  BY <1>16
<1>19. \A q \in 1 .. MaxOpens : q # o => /\ opens[q].exclusive => ~file.exclusive /\ file.shared = 0
                                         /\ file.exclusive => ~opens[q].exclusive /\ opens[q].shared = 0
  BY <1>14
<1> QED
  BY <1>5, <1>8, <1>10, <1>11, <1>12, <1>13, <1>15, <1>17, <1>18, <1>19, LockStepKeepsFileInv

\* What a file object with an exclusive lock object and no mixed locks has: this one native lock.
LEMMA ExclusiveIsTheOnlyLock ==
  ASSUME FileInv, NEW k \in Locks, NEW l \in Locks, NEW o, lock[k].of = o, lock[l].of = o, lock[l].active,
         lock[k].mode = "Exclusive", ~opens[o].mixed
  PROVE  k = l
<1>1. lock[l] # NoLock
  BY DEF NoLock
<1>2. o \in 1 .. MaxOpens
  BY <1>1 DEF FileInv, FileTypeOK, HeldLock
<1>3. opens[o].exclusive /\ opens[o].shared = 0
  BY <1>2 DEF FileInv, ExclusiveIsHeld, ExclusiveIsAlone
<1>4. Cardinality(LocksOn(o)) + Surplus(opens[o]) = 1
  BY <1>2, <1>3 DEF FileInv, CountsAgree, Native
<1>5. Cardinality(LocksOn(o)) <= 1
  BY <1>4, LocksAreFinite DEF Surplus
<1>6. k \in LocksOn(o) /\ l \in LocksOn(o)
  BY DEF LocksOn
<1>7. Cardinality(LocksOn(o)) = 1
  BY <1>5, <1>6, LocksAreFinite
<1>8. \E x : LocksOn(o) = {x}
  BY <1>7, LocksAreFinite, FS_Singleton
<1> QED
  BY <1>6, <1>8

\* unlock, and the end of a lock object
LEMMA UnlockKeepsFileInv ==
  ASSUME FileInv, NEW l \in Locks, Unlock(l)
  PROVE  FileInv'
<1>t. FileTypeOK
  BY DEF FileInv
<1>0. PICK o \in 1 .. MaxOpens : o = lock[l].of
  <2>1. lock[l] # NoLock
    BY DEF Unlock, NoLock
  <2> QED
    BY <1>t, <2>1 DEF FileTypeOK, HeldLock
<1>b. PICK before \in FileObject : before = opens[o]
  BY <1>t DEF FileTypeOK
<1>1. /\ before.shared \in Nat /\ before.counter \in Nat
      /\ before.exclusive \in BOOLEAN /\ before.mixed \in BOOLEAN /\ before.leaked \in BOOLEAN
  BY DEF FileObject
<1>2. before.counter # 0
  <2>1. l \in LocksOn(o)
    BY <1>0 DEF LocksOn
  <2>2. before.counter = Cardinality(LocksOn(o))
    BY <1>b DEF FileInv, CountsAgree
  <2> QED
    BY <2>1, <2>2, LocksAreFinite
<1>3. Native(before) = before.counter + Surplus(before)
  BY <1>b DEF FileInv, CountsAgree
<1>4. before.exclusive \/ before.shared # 0
  BY <1>1, <1>2, <1>3 DEF Native, Surplus
<1>5. PICK freed \in FileObject :
        /\ freed = NativeUnlocked(before)
        /\ freed.counter = before.counter /\ freed.own = before.own /\ freed.state = before.state
        /\ freed.mixed = before.mixed /\ freed.leaked = before.leaked
        /\ before.exclusive => freed.exclusive = FALSE /\ freed.shared = before.shared
        /\ ~before.exclusive => freed.exclusive = FALSE /\ freed.shared = before.shared - 1
  <2>1. CASE before.exclusive
    <3> DEFINE freed == [before EXCEPT !.exclusive = FALSE]
    <3>1. freed = NativeUnlocked(before) /\ freed \in FileObject
      BY <2>1 DEF NativeUnlocked, FileObject
    <3>2. /\ freed.counter = before.counter /\ freed.own = before.own /\ freed.state = before.state
          /\ freed.mixed = before.mixed /\ freed.leaked = before.leaked
          /\ freed.exclusive = FALSE /\ freed.shared = before.shared
      BY DEF FileObject
    <3> HIDE DEF freed
    <3> QED
      BY <2>1, <3>1, <3>2
  <2>2. CASE ~before.exclusive
    <3>0. PICK fewer \in Nat : fewer = before.shared - 1
      BY <1>1, <1>4, <2>2
    <3> DEFINE freed == [before EXCEPT !.shared = fewer]
    <3>1. freed = NativeUnlocked(before) /\ freed \in FileObject
      BY <1>1, <1>4, <2>2, <3>0 DEF NativeUnlocked, FileObject
    <3>2. /\ freed.counter = before.counter /\ freed.own = before.own /\ freed.state = before.state
          /\ freed.mixed = before.mixed /\ freed.leaked = before.leaked
          /\ freed.exclusive = before.exclusive /\ freed.shared = fewer
      BY DEF FileObject
    <3> HIDE DEF freed
    <3> QED
      BY <1>1, <2>2, <3>0, <3>1, <3>2
  <2> QED
    BY <2>1, <2>2
<1>6. PICK less \in Nat : less = before.counter - 1
  BY <1>1, <1>2
<1>7. PICK given \in FileObject :
        /\ given = Discounted(freed)
        /\ given.counter = less /\ given.own = freed.own /\ given.state = freed.state /\ given.mixed = freed.mixed
        /\ given.leaked = freed.leaked /\ given.exclusive = freed.exclusive /\ given.shared = freed.shared
  <2> DEFINE given == [freed EXCEPT !.counter = less]
  <2>1. given \in FileObject
    BY DEF FileObject
  <2>2. given = Discounted(freed)
    BY <1>1, <1>2, <1>5, <1>6 DEF Discounted
  <2>3. /\ given.counter = less /\ given.own = freed.own /\ given.state = freed.state /\ given.mixed = freed.mixed
        /\ given.leaked = freed.leaked /\ given.exclusive = freed.exclusive /\ given.shared = freed.shared
    BY DEF FileObject
  <2> HIDE DEF given
  <2> QED
    BY <2>1, <2>2, <2>3
<1>8. Native(given) = given.counter + Surplus(given)
  <2>1. Native(given) = Native(before) - 1
    BY <1>1, <1>5, <1>7 DEF Native
  <2>2. Surplus(given) = Surplus(before) /\ Surplus(before) \in Nat
    BY <1>5, <1>7 DEF Surplus
  <2> QED
    BY <1>1, <1>3, <1>6, <1>7, <2>1, <2>2
<1>9. /\ lock' = [lock EXCEPT ![l] = NoLock]
      /\ opens' = [opens EXCEPT ![o] = After(given, LocksOn(o) \ {l})]
      /\ lock[l].active /\ UNCHANGED <<content, handle>>
  BY <1>0, <1>b, <1>5, <1>7 DEF Unlock
<1>10. ASSUME NEW k \in Locks, k # l, lock[k].of = o, lock[k].mode = "Exclusive", ~given.mixed PROVE given.exclusive
  <2>1. ~opens[o].mixed
    BY <1>b, <1>5, <1>7, <1>10
  <2>2. k = l
    BY <1>0, <1>9, <1>10, <2>1, ExclusiveIsTheOnlyLock
  <2> QED
    BY <1>10, <2>2
<1>11. /\ given.counter = opens[o].counter - 1 /\ given.own = opens[o].own /\ given.state = opens[o].state
       /\ given.mixed = opens[o].mixed /\ (given.exclusive => opens[o].exclusive) /\ given.shared <= opens[o].shared
       /\ (given.exclusive /\ ~given.mixed => given.shared = 0)
  BY <1>b, <1>1, <1>5, <1>6, <1>7
<1>13. \A k \in Locks : k # l /\ lock[k].of = o /\ lock[k].mode = "Exclusive" /\ ~given.mixed => given.exclusive
  BY <1>10
<1>14. GivesUp(l, o, given)
  BY <1>0, <1>8, <1>9, <1>13, <1>11, Zenon DEF GivesUp
<1> QED
  BY <1>14, GivingUpKeepsFileInv

\* ~FileLockState after a failed unlock: the native lock stays, and the file object remembers that it has one more.
LEMMA AbandonLockKeepsFileInv ==
  ASSUME FileInv, NEW l \in Locks, AbandonLock(l)
  PROVE  FileInv'
<1>t. FileTypeOK
  BY DEF FileInv
<1>0. PICK o \in 1 .. MaxOpens : o = lock[l].of
  <2>1. lock[l] # NoLock
    BY DEF AbandonLock, NoLock
  <2> QED
    BY <1>t, <2>1 DEF FileTypeOK, HeldLock
<1>b. PICK before \in FileObject : before = opens[o]
  BY <1>t DEF FileTypeOK
<1>1. /\ before.shared \in Nat /\ before.counter \in Nat
      /\ before.exclusive \in BOOLEAN /\ before.mixed \in BOOLEAN /\ before.leaked = FALSE
  BY <1>0, <1>b DEF FileObject, AbandonLock
<1>2. before.counter # 0
  <2>1. l \in LocksOn(o)
    BY <1>0 DEF LocksOn
  <2>2. before.counter = Cardinality(LocksOn(o))
    BY <1>b DEF FileInv, CountsAgree
  <2> QED
    BY <2>1, <2>2, LocksAreFinite
<1>3. Native(before) = before.counter
  BY <1>b, <1>1 DEF FileInv, CountsAgree, Surplus
<1>6. PICK less \in Nat : less = before.counter - 1
  BY <1>1, <1>2
<1>7. PICK given \in FileObject :
        /\ given = Discounted([before EXCEPT !.leaked = TRUE])
        /\ given.counter = less /\ given.own = before.own /\ given.state = before.state /\ given.mixed = before.mixed
        /\ given.leaked = TRUE /\ given.exclusive = before.exclusive /\ given.shared = before.shared
  <2>0. PICK lost \in FileObject : lost = [before EXCEPT !.leaked = TRUE]
    BY DEF FileObject
  <2> DEFINE given == [lost EXCEPT !.counter = less]
  <2>1. given \in FileObject
    BY DEF FileObject
  <2>2. lost.counter = before.counter
    BY <2>0 DEF FileObject
  <2>3. given = Discounted(lost)
    BY <1>1, <1>2, <1>6, <2>2 DEF Discounted
  <2>4. /\ given.counter = less /\ given.own = lost.own /\ given.state = lost.state /\ given.mixed = lost.mixed
        /\ given.leaked = lost.leaked /\ given.exclusive = lost.exclusive /\ given.shared = lost.shared
    BY DEF FileObject
  <2>5. /\ lost.own = before.own /\ lost.state = before.state /\ lost.mixed = before.mixed
        /\ lost.leaked = TRUE /\ lost.exclusive = before.exclusive /\ lost.shared = before.shared
    BY <2>0 DEF FileObject
  <2> HIDE DEF given
  <2> QED
    BY <2>0, <2>1, <2>3, <2>4, <2>5
<1>8. Native(given) = given.counter + Surplus(given)
  <2>1. Native(given) = Native(before) /\ Surplus(given) = 1
    BY <1>7 DEF Native, Surplus
  <2> QED
    BY <1>1, <1>3, <1>6, <1>7, <2>1
<1>9. /\ lock' = [lock EXCEPT ![l] = NoLock]
      /\ opens' = [opens EXCEPT ![o] = After(given, LocksOn(o) \ {l})]
      /\ lock[l].active /\ UNCHANGED <<content, handle>>
  BY <1>0, <1>b, <1>7 DEF AbandonLock
<1>10. ASSUME NEW k \in Locks, k # l, lock[k].of = o, lock[k].mode = "Exclusive", ~given.mixed PROVE given.exclusive
  <2>1. ~opens[o].mixed
    BY <1>b, <1>7, <1>10
  <2>2. k = l
    BY <1>0, <1>9, <1>10, <2>1, ExclusiveIsTheOnlyLock
  <2> QED
    BY <1>10, <2>2
<1>12. given.exclusive /\ ~given.mixed => given.shared = 0
  BY <1>b, <1>7 DEF FileInv, ExclusiveIsAlone
<1>11. /\ given.counter = opens[o].counter - 1 /\ given.own = opens[o].own /\ given.state = opens[o].state
       /\ given.mixed = opens[o].mixed /\ (given.exclusive => opens[o].exclusive) /\ given.shared <= opens[o].shared
  BY <1>b, <1>1, <1>6, <1>7
<1>13. \A k \in Locks : k # l /\ lock[k].of = o /\ lock[k].mode = "Exclusive" /\ ~given.mixed => given.exclusive
  BY <1>10
<1>14. GivesUp(l, o, given)
  BY <1>0, <1>8, <1>9, <1>13, <1>11, <1>12, Zenon DEF GivesUp
<1> QED
  BY <1>14, GivingUpKeepsFileInv

-----------------------------------------------------------------------------
(* The theorems *)

\* Nothing is open or locked at first.
LEMMA FileInitIsSound == FileInit => FileInv
<1> SUFFICES ASSUME FileInit PROVE FileInv
  OBVIOUS
<1>1. /\ opens = [o \in 1 .. MaxOpens |-> NoObject] /\ handle = [h \in Handles |-> 0] /\ lock = [l \in Locks |-> NoLock]
      /\ content \in {Absent, <<1>>}
  BY DEF FileInit
<1>2. FileTypeOK
  <2>1. content \in Seq(Int)
    <3>1. -1 \in Int /\ 1 \in Int
      OBVIOUS
    <3>2. \A n \in Int : <<n>> \in Seq(Int)
      OBVIOUS
    <3> QED
      BY <1>1, <3>1, <3>2 DEF Absent
  <2>2. 0 \in 0 .. MaxOpens
    BY FileHandlesAssumption
  <2> QED
    BY <1>1, <2>1, <2>2, NoObjectIsFileObject DEF FileTypeOK
<1>3. \A o \in 1 .. MaxOpens : LocksOn(o) = {} /\ opens[o] = NoObject
  BY <1>1, FileHandlesAssumption DEF LocksOn, NoLock
<1>4. NoObject.counter = 0 /\ Native(NoObject) = 0 /\ Surplus(NoObject) = 0 /\ NoObject.exclusive = FALSE
      /\ NoObject.state = "closed"
  BY DEF NoObject, Native, Surplus
<1>5. \A o \in 1 .. MaxOpens : CountsAgree(o)
  BY <1>3, <1>4, LocksAreFinite DEF CountsAgree
<1>6. \A o \in 1 .. MaxOpens : GoneIsEmpty(o) /\ TruncatingIsUnlocked(o) /\ ExclusiveIsAlone(o)
  BY <1>3, <1>4 DEF GoneIsEmpty, TruncatingIsUnlocked, ExclusiveIsAlone
<1>7. \A p, q \in 1 .. MaxOpens : ExclusiveKeepsOut(p, q)
  BY <1>3, <1>4 DEF ExclusiveKeepsOut
<1>8. \A l \in Locks : ExclusiveIsHeld(l)
  BY <1>1 DEF ExclusiveIsHeld, NoLock
<1> QED
  BY <1>2, <1>5, <1>6, <1>7, <1>8 DEF FileInv

\* The invariant says that lock objects stand for native locks and exclude each other.
LEMMA FileInvIsSound == FileInv => LocksAreSound
<1> SUFFICES ASSUME FileInv PROVE LocksAreSound
  OBVIOUS
<1>t. FileTypeOK
  BY DEF FileInv
<1>1. LocksAreBacked
  <2>1. ASSUME NEW o \in 1 .. MaxOpens
        PROVE  LET native == opens[o].shared + (IF opens[o].exclusive THEN 1 ELSE 0) IN
               /\ opens[o].counter = Cardinality(ActiveLocks(o))
               /\ native >= Cardinality(ActiveLocks(o))
               /\ native > Cardinality(ActiveLocks(o)) => opens[o].leaked
               /\ ~Lives(o) => native = 0
    <3>1. /\ opens[o].counter = Cardinality(ActiveLocks(o)) /\ opens[o].counter \in Nat
          /\ Native(opens[o]) = opens[o].counter + Surplus(opens[o])
      BY <1>t, LocksAreActive, LocksAreFinite DEF FileInv, CountsAgree
    <3>2. Surplus(opens[o]) \in {0, 1} /\ (Surplus(opens[o]) = 1 => opens[o].leaked)
      BY DEF Surplus
    <3>3. ~Lives(o) => Native(opens[o]) = 0
      <4>1. ~Lives(o) => opens[o] = NoObject
        BY DEF FileInv, GoneIsEmpty
      <4>2. Native(NoObject) = 0
        BY DEF Native, NoObject
      <4> QED
        BY <4>1, <4>2
    <3> DEFINE native == Native(opens[o])
    <3>4. /\ native >= opens[o].counter
          /\ native > opens[o].counter => opens[o].leaked
      BY <3>1, <3>2
    <3> QED
      BY <3>1, <3>3, <3>4 DEF Native
  <2>2. DOMAIN opens = 1 .. MaxOpens
    BY <1>t DEF FileTypeOK
  <2> QED
    BY <2>1, <2>2 DEF LocksAreBacked
<1>2. LocksExclude
  <2>1. SUFFICES ASSUME NEW k \in Locks, NEW l \in Locks, lock[k].active, lock[l].active, lock[k].of # lock[l].of,
                        lock[k].mode = "Exclusive", ~opens[lock[k].of].mixed
                 PROVE  FALSE
    BY DEF LocksExclude
  <2>2. lock[k] # NoLock /\ lock[l] # NoLock
    BY <2>1 DEF NoLock
  <2>3. PICK p \in 1 .. MaxOpens : p = lock[k].of
    BY <1>t, <2>2 DEF FileTypeOK, HeldLock
  <2>4. PICK q \in 1 .. MaxOpens : q = lock[l].of
    BY <1>t, <2>2 DEF FileTypeOK, HeldLock
  <2>5. opens[p].exclusive
    BY <2>1, <2>3 DEF FileInv, ExclusiveIsHeld
  <2>6. ~opens[q].exclusive /\ opens[q].shared = 0
    BY <2>1, <2>3, <2>4, <2>5 DEF FileInv, ExclusiveKeepsOut
  <2>7. Native(opens[q]) = 0
    BY <2>6 DEF Native
  <2>8. Cardinality(LocksOn(q)) + Surplus(opens[q]) = 0
    BY <2>7 DEF FileInv, CountsAgree
  <2>9. Cardinality(LocksOn(q)) = 0
    BY <2>8, LocksAreFinite DEF Surplus
  <2>10. l \in LocksOn(q)
    BY <2>4 DEF LocksOn
  <2> QED
    BY <2>9, <2>10, LocksAreFinite
<1> QED
  BY <1>1, <1>2 DEF LocksAreSound

\* Every operation on handles and locks keeps the invariant.
LEMMA FileStepsKeepFileInv == FileInv /\ [FileNext]_fileVars => FileInv'
<1> SUFFICES ASSUME FileInv, [FileNext]_fileVars PROVE FileInv'
  OBVIOUS
<1>0. DOMAIN opens = 1 .. MaxOpens
  BY DEF FileInv, FileTypeOK
<1>1. ASSUME NEW h \in Handles, NEW o \in 1 .. MaxOpens, NEW request \in OpenRequests, Open(h, o, request) PROVE FileInv'
  BY <1>1, OpenKeepsFileInv
<1>2. ASSUME NEW h \in Handles, FinishOpen(h) PROVE FileInv'
  BY <1>2, FinishOpenKeepsFileInv
<1>3. ASSUME NEW h \in Handles,
             \/ Read(h)
             \/ \E b \in Bytes : Write(h, b)
             \/ \E pos \in 0 .. MaxBytes : Seek(h, pos)
             \/ \E size \in 0 .. MaxBytes, restore \in BOOLEAN : Resize(h, size, restore)
      PROVE  FileInv'
  BY <1>3, TransfersKeepFileInv
<1>4. ASSUME NEW h \in Handles, Close(h) \/ Destroy(h) PROVE FileInv'
  BY <1>4, ReleaseKeepsFileInv DEF Close, Destroy
<1>5. ASSUME NEW h \in Handles, NEW l \in Locks, NEW mode \in {"Shared", "Exclusive"}, TryLock(h, l, mode) PROVE FileInv'
  BY <1>5, TryLockKeepsFileInv
<1>6. ASSUME NEW l \in Locks, Unlock(l) \/ AbandonLock(l) PROVE FileInv'
  BY <1>6, UnlockKeepsFileInv, AbandonLockKeepsFileInv
<1>7. CASE UNCHANGED fileVars
  <2>1. \A o : LocksOn(o)' = LocksOn(o)
    BY <1>7 DEF fileVars, LocksOn
  <2>2. FileTypeOK' /\ \A o \in 1 .. MaxOpens : QuietStep(o)
    BY <1>7 DEF fileVars, FileInv, FileTypeOK, QuietStep
  <2> QED
    BY <1>7, <2>2, QuietStepsKeepFileInv DEF fileVars
<1>8. CASE FileNext
  BY <1>0, <1>1, <1>2, <1>3, <1>4, <1>5, <1>6, <1>8 DEF FileNext
<1> QED
  BY <1>7, <1>8

\* The strengthened invariant of file objects, handles and locks (filesystem_handles.inl, win32_filesystem.cpp) holds in
\* every reachable state.
THEOREM FileInvariance == FileSpec => []FileInv
BY FileInitIsSound, FileStepsKeepFileInv, PTL DEF FileSpec

\* The count that makes close() refuse is the number of active lock objects, each stands for a native lock of its file
\* object, and an exclusive one is never active with a lock of another file object (tryLockFile, unlockFile,
\* ~FileLockState).
THEOREM LockObjectsAreSound == FileSpec => []LocksAreSound
BY FileInvariance, FileInvIsSound, PTL
=============================================================================
