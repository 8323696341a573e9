--------------------------- MODULE DirectoryTree ----------------------------
(***************************************************************************)
(* Directory operations that must not follow links: the removal of a tree, *)
(* the creation of a path of directories and the listing of a directory.   *)
(* They open one component after the other, each relative to the handle of *)
(* the one before, while another program exchanges directories for links.  *)
(***************************************************************************)
EXTENDS Integers, Sequences, SequencesExt, FiniteSets

CONSTANTS InitialNodes,   \* files, directories and links: [kind, children, target, hidden]; the first is the volume's root
          Outside,        \* nodes that are no part of the tree
          TreePath,       \* path of the tree that is removed
          ListPath,       \* path of the directory that is listed
          MakePath,       \* path of directories that are created
          Limits,         \* limits on the number of entries
          MaxSwaps        \* bound: directories exchanged for links

ASSUME DirectoryTreeAssumption == MaxSwaps \in Nat /\ Outside \subseteq DOMAIN InitialNodes

VARIABLES tree,     \* the nodes of the volume
          removal,  \* removeDirectoryTree
          making,   \* createDirectories
          listing,  \* a DirectoryCursor
          swaps     \* what the other program did, and what the calls removed and created

treeOpVars == <<tree, removal, making, listing, swaps>>

Root == 1
NoTreeNode == 0
Nothing == <<>>

Child(n, name) == IF tree[n].kind = "Directory" /\ name \in DOMAIN tree[n].children THEN tree[n].children[name] ELSE NoTreeNode
Unlinked(n, name) == [tree EXCEPT ![n].children = [x \in DOMAIN @ \ {name} |-> @[x]]]
Linked(nodes, n, name, c) ==
  [nodes EXCEPT ![n].children = [x \in DOMAIN @ \cup {name} |-> IF x = name THEN c ELSE @[x]]]
NewDirectory == [kind |-> "Directory", children |-> Nothing, target |-> NoTreeNode, hidden |-> FALSE]

\* Mutation: a link on the way is followed.
Step_Follows(n, name) ==
  LET c == Child(n, name) IN IF c # NoTreeNode /\ tree[c].kind = "Link" THEN tree[c].target ELSE c
\* openParentStrict: every component is opened without following it, and must be a directory.
Step(n, name) ==
  LET c == Child(n, name) IN IF c # NoTreeNode /\ tree[c].kind = "Directory" THEN c ELSE NoTreeNode

\* The nodes on the way from the root along the directories of a path; it ends early where one of them is none.
Chain(path) == FoldLeft(LAMBDA seq, name : IF Last(seq) = NoTreeNode THEN seq ELSE Append(seq, Step(Last(seq), name)),
                        <<Root>>, path)

ParentOf(path) == Last(Chain(Front(path)))
FinalOf(path) == IF ParentOf(path) = NoTreeNode THEN NoTreeNode ELSE Child(ParentOf(path), Last(path))

\* FindFirstFile takes the path, and the system follows links on it.
Followed(path) ==
  FoldLeft(LAMBDA n, name : LET c == IF n = NoTreeNode THEN NoTreeNode ELSE Child(n, name)
                            IN IF c # NoTreeNode /\ tree[c].kind = "Link" THEN tree[c].target ELSE c, Root, path)
NamesAt(path) == IF Followed(path) = NoTreeNode THEN {} ELSE DOMAIN tree[Followed(path)].children

\* Directories somebody holds without sharing deletion, so that they are neither renamed nor removed.
FrameHandles(frame) == IF frame.open THEN {frame.handles[i] : i \in DOMAIN frame.handles} ELSE {}
Held == UNION {FrameHandles(removal.frames[i]) : i \in DOMAIN removal.frames} \cup FrameHandles(listing)

\* directoryCursorEntry: relative to the handle that is held, whatever the path names by now.
EntryOf(cursor, name) == Child(Last(cursor.handles), name)

-----------------------------------------------------------------------------
(* removeDirectoryTree *)

NoRemoval == [pc |-> "idle", frames |-> <<>>, removed |-> 0, limit |-> 0, status |-> "none"]
Frame(path, kind) == [path |-> path, kind |-> kind, open |-> FALSE, handles |-> <<>>, names |-> {}]

RemovalEnds(status) == removal' = [removal EXCEPT !.pc = "done", !.frames = <<>>, !.status = status]

\* The tree must be a directory that is no link, and the limit must not be zero.
BeginRemoval(limit) ==
  /\ removal.pc = "idle"
  /\ FinalOf(TreePath) # NoTreeNode /\ tree[FinalOf(TreePath)].kind = "Directory" /\ limit > 0
  /\ removal' = [removal EXCEPT !.pc = "running", !.frames = <<Frame(TreePath, "Directory")>>, !.limit = limit]
  /\ UNCHANGED <<tree, making, listing, swaps>>

Top == Last(removal.frames)

\* Mutation: the limit is compared after the removal.
LimitReached_Late == removal.removed > removal.limit
LimitReached == removal.removed >= removal.limit

StopAtLimit ==
  /\ removal.pc = "running" /\ removal.frames # <<>> /\ LimitReached
  /\ RemovalEnds("SizeLimitExceeded")
  /\ UNCHANGED <<tree, making, listing, swaps>>

Running == removal.pc = "running" /\ removal.frames # <<>> /\ ~LimitReached

\* The first cursor holds every directory on its path; the others hold one more each, opened relative to the parent's
\* handle without following it, though it may be a link by then. The names come from the path.
OpenFrame ==
  /\ Running /\ Top.kind = "Directory" /\ ~Top.open
  /\ LET first == Len(removal.frames) = 1
         chain == Chain(TreePath)
         child == Child(Last(removal.frames[Len(removal.frames) - 1].handles), Last(Top.path))
         handles == IF first THEN chain ELSE <<child>>
         opens == IF first THEN Last(chain) # NoTreeNode ELSE child # NoTreeNode /\ tree[child].kind \in {"Directory", "Link"}
     IN IF opens
        THEN removal' = [removal EXCEPT !.frames = Append(Front(@), [Top EXCEPT !.open = TRUE, !.handles = handles,
                                                                               !.names = NamesAt(Top.path)])]
        ELSE RemovalEnds("NotFound")
  /\ UNCHANGED <<tree, making, listing, swaps>>

\* readDirectoryCursor: an entry is opened relative to the directory's handle, and what it is is asked of that handle.
ReadFrame(name) ==
  /\ Running /\ Top.kind = "Directory" /\ Top.open /\ name \in Top.names
  /\ LET child == EntryOf(Top, name) IN
     IF child # NoTreeNode
     THEN removal' = [removal EXCEPT !.frames = Front(@) \o << [Top EXCEPT !.names = @ \ {name}],
                                                               Frame(Append(Top.path, name), tree[child].kind) >>]
     ELSE RemovalEnds("NotFound")
  /\ UNCHANGED <<tree, making, listing, swaps>>

\* The cursor of an empty directory is given up before the directory is removed.
CloseFrame ==
  /\ Running /\ Top.kind = "Directory" /\ Top.open /\ Top.names = {}
  /\ removal' = [removal EXCEPT !.frames = Append(Front(@), [Top EXCEPT !.open = FALSE, !.kind = "Emptied"])]
  /\ UNCHANGED <<tree, making, listing, swaps>>

\* removeEmptyDirectory and removeFile find the entry by its path without following links. What is a directory now is
\* no file, a directory that has entries is not removed, and neither is one that is held.
RemoveFrame ==
  /\ Running /\ Top.kind # "Directory"
  /\ LET n == FinalOf(Top.path)
         isDirectory == n # NoTreeNode /\ tree[n].kind = "Directory"
         may == /\ n # NoTreeNode /\ n \notin Held
                /\ isDirectory = (Top.kind = "Emptied")
                /\ isDirectory => DOMAIN tree[n].children = {}
     IN IF may
        THEN /\ tree' = Unlinked(ParentOf(Top.path), Last(Top.path))
             /\ removal' = [removal EXCEPT !.frames = Front(@), !.removed = @ + 1]
             /\ swaps' = [swaps EXCEPT !.removed = @ \cup {n}]
        ELSE RemovalEnds("RemoveFailed") /\ UNCHANGED <<tree, swaps>>
  /\ UNCHANGED <<making, listing>>

FinishRemoval ==
  /\ removal.pc = "running" /\ removal.frames = <<>>
  /\ RemovalEnds("ok")
  /\ UNCHANGED <<tree, making, listing, swaps>>

-----------------------------------------------------------------------------
(* createDirectories *)

NoMaking == [pc |-> "idle", at |-> Root, index |-> 1, status |-> "none"]
MakingEnds(status) == making' = [making EXCEPT !.pc = "done", !.status = status]

BeginMaking ==
  /\ making.pc = "idle"
  /\ making' = [making EXCEPT !.pc = "opening"]
  /\ UNCHANGED <<tree, removal, listing, swaps>>

\* A component that is there must be a directory; one that is missing is created in the next step.
OpenComponent ==
  /\ making.pc = "opening" /\ making.index <= Len(MakePath)
  /\ LET name == MakePath[making.index]
         c == Child(making.at, name)
     IN CASE c = NoTreeNode -> making' = [making EXCEPT !.pc = "creating"]
          [] c # NoTreeNode /\ Step(making.at, name) # NoTreeNode ->
               making' = [making EXCEPT !.at = Step(making.at, name), !.index = @ + 1]
          [] OTHER -> MakingEnds("Rejected")
  /\ UNCHANGED <<tree, removal, listing, swaps>>

\* FILE_CREATE relative to the handle: it fails when the name has been taken, or the directory removed.
CreateComponent ==
  /\ making.pc = "creating"
  /\ LET name == MakePath[making.index] IN
     IF Child(making.at, name) = NoTreeNode /\ making.at \notin swaps.removed
     THEN /\ tree' = Append(Linked(tree, making.at, name, Len(tree) + 1), NewDirectory)
          /\ making' = [making EXCEPT !.pc = "opening", !.at = Len(tree) + 1, !.index = @ + 1]
          /\ swaps' = [swaps EXCEPT !.created = @ \cup {<<making.at, Len(tree) + 1>>}]
     ELSE MakingEnds("AlreadyExists") /\ UNCHANGED <<tree, swaps>>
  /\ UNCHANGED <<removal, listing>>

FinishMaking ==
  /\ making.pc = "opening" /\ making.index > Len(MakePath)
  /\ MakingEnds("ok")
  /\ UNCHANGED <<tree, removal, listing, swaps>>

-----------------------------------------------------------------------------
(* DirectoryCursor *)

NoListing == [pc |-> "idle", path |-> <<>>, open |-> FALSE, handles |-> <<>>, names |-> {}, limit |-> 0, hidden |-> FALSE,
              emitted |-> <<>>, reached |-> FALSE]

OpenCursor(limit, hidden) ==
  /\ listing.pc = "idle" /\ Last(Chain(ListPath)) # NoTreeNode
  /\ listing' = [listing EXCEPT !.pc = "open", !.open = TRUE, !.handles = Chain(ListPath), !.names = NamesAt(ListPath),
                                !.limit = limit, !.hidden = hidden]
  /\ UNCHANGED <<tree, removal, making, swaps>>

\* Mutation: one entry too many.
AtLimit_Late(cursor) == Len(cursor.emitted) > cursor.limit
AtLimit(cursor) == Len(cursor.emitted) >= cursor.limit

\* Hidden entries are passed over unless they are asked for; an entry beyond the limit reaches it for good.
NextEntry(name) ==
  /\ listing.pc = "open" /\ ~listing.reached /\ name \in listing.names
  /\ LET child == EntryOf(listing, name)
         next == [listing EXCEPT !.names = @ \ {name}]
     IN CASE child = NoTreeNode -> listing' = [next EXCEPT !.pc = "failed"]
          [] child # NoTreeNode /\ tree[child].hidden /\ ~listing.hidden -> listing' = next
          [] OTHER -> listing' = IF AtLimit(listing) THEN [next EXCEPT !.reached = TRUE]
                                 ELSE [next EXCEPT !.emitted = Append(@, child)]
  /\ UNCHANGED <<tree, removal, making, swaps>>

CloseCursor ==
  /\ listing.pc \in {"open", "failed"}
  /\ listing' = [listing EXCEPT !.pc = "closed", !.open = FALSE]
  /\ UNCHANGED <<tree, removal, making, swaps>>

-----------------------------------------------------------------------------
(* The other program *)

Below(n) == {m \in DOMAIN tree : \E name \in DOMAIN tree[n].children : tree[n].children[name] = m}

\* It moves a directory that nobody holds away, and puts a link to a directory outside in its place.
Swap(n, name) ==
  /\ swaps.count < MaxSwaps
  /\ n \in DOMAIN tree \ Outside /\ name \in DOMAIN tree[n].children
  /\ LET c == tree[n].children[name]
         outside == CHOOSE o \in Outside : tree[o].kind = "Directory"
     IN /\ c \notin Outside /\ tree[c].kind = "Directory" /\ c \notin Held /\ Below(c) \cap Held = {}
        /\ tree' = Append(Linked(tree, n, name, Len(tree) + 1),
                          [kind |-> "Link", children |-> Nothing, target |-> outside, hidden |-> FALSE])
  /\ swaps' = [swaps EXCEPT !.count = @ + 1]
  /\ UNCHANGED <<removal, making, listing>>

TreeOpInit ==
  /\ tree = InitialNodes
  /\ removal = NoRemoval /\ making = NoMaking /\ listing = NoListing
  /\ swaps = [count |-> 0, removed |-> {}, created |-> {}]

TreeOpNext ==
  \/ \E limit \in Limits : BeginRemoval(limit)
  \/ StopAtLimit \/ OpenFrame \/ CloseFrame \/ RemoveFrame \/ FinishRemoval
  \/ \E name \in UNION {DOMAIN tree[n].children : n \in DOMAIN tree} : ReadFrame(name) \/ NextEntry(name)
  \/ BeginMaking \/ OpenComponent \/ CreateComponent \/ FinishMaking
  \/ \E limit \in Limits, hidden \in BOOLEAN : OpenCursor(limit, hidden)
  \/ CloseCursor
  \/ \E n \in DOMAIN tree : \E name \in DOMAIN tree[n].children : Swap(n, name)

TreeOpSpec == TreeOpInit /\ [][TreeOpNext]_treeOpVars

-----------------------------------------------------------------------------
(* Properties *)

\* Whatever is exchanged for a link, and whenever, the removal removes nothing outside the tree, the creation
\* creates nothing there and the listing returns nothing from there.
StaysInTheTree ==
  /\ swaps.removed \cap Outside = {}
  /\ \A c \in swaps.created : c[1] \notin Outside
  /\ \A i \in DOMAIN listing.emitted : listing.emitted[i] \notin Outside

\* The number a removal reports is what it removed, at most its limit; when it succeeds the directory it was asked to
\* remove is gone, or another has been put in its place.
RemovalIsAccounted ==
  /\ removal.removed = Cardinality(swaps.removed)
  /\ removal.removed <= removal.limit
  /\ removal.status = "ok" /\ swaps.count = 0 /\ making.pc = "idle" => FinalOf(TreePath) = NoTreeNode

\* A listing returns each entry at most once, never more than its limit, and reports the limit only after that many.
ListingIsTrue ==
  /\ \A i, j \in DOMAIN listing.emitted : listing.emitted[i] = listing.emitted[j] => i = j
  /\ Len(listing.emitted) <= listing.limit
  /\ listing.reached => Len(listing.emitted) = listing.limit

\* Recursive operations while somebody swaps a directory for a link: nothing
\* outside the tree is removed, what was removed is counted, and a listing names
\* what was there.
TreeOperationsAreTrue == StaysInTheTree /\ RemovalIsAccounted /\ ListingIsTrue
=============================================================================
