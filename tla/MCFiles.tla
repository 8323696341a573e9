------------------------------ MODULE MCFiles ------------------------------
(***************************************************************************)
(* The filesystem and io libraries: file objects with their handles and    *)
(* locks, whole-file writes, copies and moves by two tasks and a crash,    *)
(* operations on directory trees, and transfers between streams.  Each     *)
(* behaviour exercises one of them while the others rest.                  *)
(***************************************************************************)
EXTENDS FileHandles, FileReplacement, DirectoryTree, Transfers, TLC

CONSTANT SpareLock      \* one of the two locks

VARIABLE part

MCOpening(object, access, disposition, share, append, strict, atEnd, flushOnClose) ==
    [object |-> object, access |-> access, disposition |-> disposition, share |-> share,
     append |-> append, strict |-> strict, atEnd |-> atEnd, flushOnClose |-> flushOnClose]

Both == {"Read", "Write"}

\* a reader, an appending and a replacing writer, and two Files, one of which shares no writing
MCRequests ==
    {MCOpening("FileReader", "Read", "OpenExisting", Both, FALSE, TRUE, FALSE, FALSE),
     MCOpening("FileWriter", "Write", "OpenAlways", Both, TRUE, TRUE, FALSE, FALSE),
     MCOpening("FileWriter", "Write", "CreateAlways", Both, FALSE, TRUE, FALSE, TRUE),
     MCOpening("File", "ReadWrite", "OpenAlways", Both, FALSE, FALSE, TRUE, FALSE),
     MCOpening("File", "ReadWrite", "TruncateExisting", {"Read"}, FALSE, FALSE, FALSE, FALSE)}

MCPlanned(kind, data, replace, flush, flushParent) ==
    [kind |-> kind, data |-> data, replace |-> replace, flush |-> flush, flushParent |-> flushParent]

CreateOnly == MCPlanned("atomic", <<1, 2>>, FALSE, TRUE, FALSE)

\* what the two tasks of a behaviour may ask for
MCPlans ==
    {{MCPlanned("atomic", <<1, 2>>, TRUE, TRUE, TRUE), CreateOnly, MCPlanned("move", <<>>, FALSE, FALSE, FALSE)},
     {MCPlanned("copy", <<>>, TRUE, FALSE, TRUE), MCPlanned("append", <<1>>, TRUE, FALSE, FALSE),
      MCPlanned("write", <<3>>, TRUE, FALSE, FALSE), MCPlanned("shrink", <<>>, FALSE, FALSE, FALSE)},
     {CreateOnly, MCPlanned("remove", <<>>, FALSE, FALSE, FALSE)},
     {MCPlanned("atomic", <<>>, TRUE, TRUE, FALSE), MCPlanned("write", <<>>, FALSE, FALSE, FALSE)}}

MCDirectory(children) == [kind |-> "Directory", children |-> children, target |-> 0, hidden |-> FALSE]
MCFile(hidden) == [kind |-> "File", children |-> <<>>, target |-> 0, hidden |-> hidden]

\* p/t is the tree removed and listed; o, with its file, is what no removal may touch
MCNodes ==
    <<MCDirectory("p" :> 2 @@ "o" :> 6), MCDirectory("t" :> 3), MCDirectory("x" :> 4 @@ "f" :> 5),
      MCDirectory("g" :> 8), MCFile(TRUE), MCDirectory("g" :> 7), MCFile(FALSE), MCFile(FALSE)>>
MCTreePath == <<"p", "t">>
MCMakePath == <<"p", "t", "n", "m">>
MCOutside == {6, 7}

\* a lead byte with its trail between characters, a cut one at the end, and nothing
MCContents == {<<"a", "l", "c">>, <<"l", "c", "l">>, <<>>}

\* three file objects are opened only with one lock
FewOpens == lock[SpareLock] # NoLock => opens[MaxOpens] = NoObject

\* two of the three operations overlap, and nothing is swapped when all three are used
FewOperations ==
    /\ removal.pc # "running" \/ making.pc \in {"idle", "done"} \/ listing.pc # "open"
    /\ removal = NoRemoval \/ making = NoMaking \/ listing = NoListing \/ swaps.count = 0

MCInit ==
    /\ part \in {"handles", "replacement", "tree", "transfers"}
    /\ FileInit /\ ReplaceInit /\ TreeOpInit /\ TransferInit
    /\ part # "handles" => content = Absent
    /\ entries[1][CHOOSE name \in TempNames : TRUE] = 3      \* the names differ in nothing
    /\ part # "replacement" => entries[1][Dest] = 1 /\ history.plan = CHOOSE plan \in Plans : TRUE
    /\ part # "transfers" => stream.data = <<>> /\ stream.memory /\ collected.memory

Handling == FileNext /\ UNCHANGED <<replaceVars, treeOpVars, transferVars>> /\ FewOpens'
Replacing == ReplaceNext /\ UNCHANGED <<fileVars, treeOpVars, transferVars>>
Walking == TreeOpNext /\ UNCHANGED <<fileVars, replaceVars, transferVars>> /\ FewOperations'
Transferring == TransferNext /\ UNCHANGED <<fileVars, replaceVars, treeOpVars>>

\* a part whose bounded calls are used up
Rests == UNCHANGED <<fileVars, replaceVars, treeOpVars, transferVars>>

MCNext ==
    /\ UNCHANGED part
    /\ \/ part = "handles" /\ Handling
       \/ part = "replacement" /\ Replacing
       \/ part = "tree" /\ Walking
       \/ part = "transfers" /\ Transferring
       \/ Rests

MCSpec == MCInit /\ [][MCNext]_<<fileVars, replaceVars, treeOpVars, transferVars, part>>
=============================================================================
