---------------------------- MODULE SnapshotTree ----------------------------
(***************************************************************************)
(* Accessibility snapshots as trees: the builder that collects nodes, the  *)
(* validation that every published snapshot passes, and the traversal that *)
(* lays the tree out for the native providers.  Later code relies on both: *)
(* it follows parents without a bound and tells a descendant from another  *)
(* node by comparing two numbers of the traversal.                         *)
(*                                                                         *)
(* A node keeps its identity, its parent, its children, whether its state  *)
(* says focusable and focused, and the bytes of its texts.                 *)
(***************************************************************************)
EXTENDS Integers, Sequences, FiniteSets, SequencesExt

CONSTANTS TreeIds,          \* identifiers an application uses; 0 is none
          TreeRoot,         \* the identifier given to setRoot
          NodeShapes,       \* [focusable, focused, bytes] of a node
          MaxTreeNodes,     \* limits.maximumNodes
          MaxChildren,      \* limits.maximumChildrenPerNode
          MaxNodeBytes,     \* limits.maximumTextBytesPerNode
          MaxTotalBytes     \* limits.maximumTotalTextBytes

ASSUME TreeAssumption == TreeIds \subseteq Nat \ {0} /\ TreeRoot \in TreeIds

VARIABLES built,      \* SnapshotBuilderState: nodes, in the order they were added
          builtBytes  \* textBytes

treeVars == <<built, builtBytes>>

Ids(nodes) == {nodes[i].id : i \in DOMAIN nodes}
Find(nodes, id) == CHOOSE i \in DOMAIN nodes : nodes[i].id = id

-----------------------------------------------------------------------------
(* Building *)

\* boundedNode: the node's own limits and the total.
BoundedNode(node, bytes) ==
  node.bytes <= MaxNodeBytes /\ Len(node.children) <= MaxChildren /\ bytes + node.bytes <= MaxTotalBytes

\* SnapshotBuilder::addNode: nodes come in any order, an identifier once.
AddNode ==
  /\ Len(built) < MaxTreeNodes
  /\ \E id \in TreeIds, parent \in TreeIds \cup {0}, shape \in NodeShapes,
        children \in SeqOf(TreeIds, MaxChildren) :
       LET node == [id |-> id, parent |-> parent, children |-> children,
                    focusable |-> shape.focusable, focused |-> shape.focused, bytes |-> shape.bytes]
       IN  /\ id \notin Ids(built)
           /\ BoundedNode(node, builtBytes)
           /\ built' = Append(built, node)
           /\ builtBytes' = builtBytes + node.bytes

\* SnapshotBuilder::clear
ClearBuilder ==
  /\ built # << >>
  /\ built' = << >> /\ builtBytes' = 0

-----------------------------------------------------------------------------
(* Validation *)

\* validate, first: every node has an identifier of its own.
IdsValid(nodes) ==
  /\ 0 \notin Ids(nodes)
  /\ \A i, j \in DOMAIN nodes : nodes[i].id = nodes[j].id => i = j

\* validate, per node: states that contradict each other, and a second focused node.
StatesValid(nodes) ==
  /\ \A i \in DOMAIN nodes : nodes[i].focused => nodes[i].focusable
  /\ Cardinality({i \in DOMAIN nodes : nodes[i].focused}) <= 1

\* validate, per node: the text budget of the node and of the snapshot.
TextsValid(nodes) ==
  /\ \A i \in DOMAIN nodes : nodes[i].bytes <= MaxNodeBytes
  /\ FoldSeq(LAMBDA node, sum : sum + node.bytes, 0, nodes) <= MaxTotalBytes

\* How often a node is named as a child: incoming[].
Incoming(nodes, id) == Cardinality({i \in DOMAIN nodes : Contains(nodes[i].children, id)})

\* Mutation: a child may name another parent.
LinksValid_OneWay(nodes) ==
  \A i \in DOMAIN nodes :
    /\ IsInjective(nodes[i].children) /\ ToSet(nodes[i].children) \subseteq Ids(nodes)
    /\ nodes[i].id # TreeRoot => nodes[i].parent # 0 /\ nodes[i].parent \in Ids(nodes)

\* validate, per node: children exist, are named once and name their parent; the others have a parent.
LinksValid(nodes) ==
  \A i \in DOMAIN nodes :
    /\ IsInjective(nodes[i].children) /\ ToSet(nodes[i].children) \subseteq Ids(nodes)
    /\ \A child \in ToSet(nodes[i].children) :
         nodes[Find(nodes, child)].parent = nodes[i].id /\ Incoming(nodes, child) = 1
    /\ nodes[i].id # TreeRoot => nodes[i].parent # 0 /\ nodes[i].parent \in Ids(nodes)

\* The queue of nodes that the walk from the root has met, `work', after so many rounds.
Walked(nodes) ==
  LET met[k \in 0 .. Len(nodes)] ==
        IF k = 0 THEN {TreeRoot}
        ELSE met[k - 1] \cup UNION {ToSet(nodes[Find(nodes, id)].children) : id \in met[k - 1]}
  IN  met[Len(nodes)]

\* validate, after the nodes: nobody is the root's parent, everybody else has one, all are reached.
ReachValid(nodes) ==
  /\ Incoming(nodes, TreeRoot) = 0
  /\ \A id \in Ids(nodes) \ {TreeRoot} : Incoming(nodes, id) = 1
  /\ Walked(nodes) = Ids(nodes)

\* validate
Validate(nodes) ==
  /\ nodes # << >> /\ Len(nodes) <= MaxTreeNodes /\ IdsValid(nodes)
  /\ TreeRoot \in Ids(nodes) /\ nodes[Find(nodes, TreeRoot)].parent = 0
  /\ StatesValid(nodes) /\ TextsValid(nodes) /\ LinksValid(nodes) /\ ReachValid(nodes)

-----------------------------------------------------------------------------
(* Layout *)

\* The depth-first traversal with an explicit stack, children pushed last to first.
Traversal(nodes) ==
  LET step[k \in 0 .. Len(nodes)] ==
        IF k = 0 THEN [pending |-> <<TreeRoot>>, done |-> << >>]
        ELSE LET stack == step[k - 1].pending
                 id == Last(stack)
             IN  [pending |-> Front(stack) \o Reverse(nodes[Find(nodes, id)].children),
                  done |-> Append(step[k - 1].done, id)]
  IN  step[Len(nodes)].done

Ordinal(order, id) == CHOOSE i \in DOMAIN order : order[i] = id

\* Mutation: a subtree ends at its last child.
SubtreeEnd_LastChild(nodes, order, id) ==
  LET children == nodes[Find(nodes, id)].children
  IN  IF children = << >> THEN Ordinal(order, id) + 1 ELSE Ordinal(order, Last(children)) + 1

\* prepareAccessibilitySnapshot, backwards over the traversal: a subtree ends where its last one does.
SubtreeEnd(nodes, order, id) ==
  LET end[k \in 0 .. Len(order)] ==
        IF k = 0 THEN [n \in Ids(nodes) |-> Ordinal(order, n) + 1]
        ELSE LET n == order[Len(order) + 1 - k]
                 parent == nodes[Find(nodes, n)].parent
             IN  IF parent = 0 \/ end[k - 1][parent] >= end[k - 1][n] THEN end[k - 1]
                 ELSE [end[k - 1] EXCEPT ![parent] = end[k - 1][n]]
  IN  end[Len(order)][id]

\* descendant(), and the test of validate that a selection only names descendants.
Descendant(nodes, order, id, ancestor) ==
  /\ Ordinal(order, id) > Ordinal(order, ancestor)
  /\ Ordinal(order, id) < SubtreeEnd(nodes, order, ancestor)

\* layout.containingGrid and layout.selectionContainer: handed down from parent to child.
Container(nodes, order, marked) ==
  LET known[k \in 0 .. Len(order)] ==
        IF k = 0 THEN [n \in Ids(nodes) |-> 0]
        ELSE LET parent == nodes[Find(nodes, order[k])].parent
             IN  IF parent = 0 THEN known[k - 1]
                 ELSE [known[k - 1] EXCEPT ![order[k]] = IF parent \in marked THEN parent ELSE known[k - 1][parent]]
  IN  known[Len(order)]

-----------------------------------------------------------------------------
(* What a native client asks of the tree *)

\* NodeProvider::Navigate, to a sibling: by the position among the parent's children.
SiblingOf(nodes, id, offset) ==
  LET parent == nodes[Find(nodes, id)].parent
      children == IF parent = 0 THEN << >> ELSE nodes[Find(nodes, parent)].children
      places == {i \in DOMAIN children : children[i] = id /\ i + offset \in DOMAIN children}
  IN  IF places = {} THEN 0 ELSE children[(CHOOSE i \in places : TRUE) + offset]

\* NodeProvider::Navigate; 0 is no element.
Navigate(nodes, id, direction) ==
  LET node == nodes[Find(nodes, id)]
  IN  CASE direction = "parent" -> node.parent
        [] direction = "firstChild" -> IF node.children = << >> THEN 0 ELSE Head(node.children)
        [] direction = "lastChild" -> IF node.children = << >> THEN 0 ELSE Last(node.children)
        [] direction = "nextSibling" -> SiblingOf(nodes, id, 1)
        [] direction = "previousSibling" -> SiblingOf(nodes, id, -1)

\* Mutation: the search starts again at the element it was given.
After_From(order, start, id) == start = 0 \/ Ordinal(order, id) >= Ordinal(order, start)

After(order, start, id) == start = 0 \/ Ordinal(order, id) > Ordinal(order, start)

\* NodeProvider::FindItemByProperty: the first match below an item after another one, in traversal order.
FindItem(nodes, order, container, start, matching) ==
  LET found == {id \in matching : Descendant(nodes, order, id, container) /\ After(order, start, id)}
  IN  IF found = {} THEN 0 ELSE CHOOSE id \in found : \A other \in found : Ordinal(order, id) <= Ordinal(order, other)

\* NodeProvider::ElementProviderFromPoint: of the elements under a point the highest, then the latest.
ElementAt(order, under, height) ==
  LET better(a, b) == height[a] > height[b] \/ (height[a] = height[b] /\ Ordinal(order, a) >= Ordinal(order, b))
  IN  IF under = {} THEN TreeRoot ELSE CHOOSE id \in under : \A other \in under : better(id, other)

TreeInit == built = << >> /\ builtBytes = 0
TreeNext == AddNode \/ ClearBuilder

TreeSpec == TreeInit /\ [][TreeNext]_treeVars

-----------------------------------------------------------------------------
(* Properties *)

\* The ancestors of a node, followed at most as often as there are nodes.
TreeAncestors(nodes, id) ==
  LET up[k \in 0 .. Len(nodes)] ==
        IF k = 0 THEN {nodes[Find(nodes, id)].parent}
        ELSE up[k - 1] \cup {nodes[Find(nodes, p)].parent : p \in up[k - 1] \cap Ids(nodes)}
  IN  up[Len(nodes)] \ {0}

\* A tree: parents and children are the same relation, and every node but the root descends from it alone.
IsTree(nodes) ==
  /\ Cardinality(Ids(nodes)) = Len(nodes) /\ 0 \notin Ids(nodes)
  /\ TreeRoot \in Ids(nodes) /\ nodes[Find(nodes, TreeRoot)].parent = 0
  /\ \A i \in DOMAIN nodes :
       /\ IsInjective(nodes[i].children)
       /\ ToSet(nodes[i].children) = {nodes[j].id : j \in {j \in DOMAIN nodes : nodes[j].parent = nodes[i].id}}
       /\ nodes[i].id = TreeRoot \/ TreeRoot \in TreeAncestors(nodes, nodes[i].id)
       /\ nodes[i].id \notin TreeAncestors(nodes, nodes[i].id)

\* What reaches validate: what a builder collected, and views an application wrote itself, in which a node
\* may have no identifier or that of another.
Views == {built} \cup {[built EXCEPT ![i].id = id] : i \in DOMAIN built, id \in TreeIds \cup {0}}

\* validate accepts exactly the trees (whose states and texts are valid), in whatever order their nodes
\* come, so the walks over parents and children that every query does end.
ValidationIsExact ==
  \A view \in Views : Validate(view) = (IsTree(view) /\ StatesValid(view) /\ TextsValid(view))

\* The two numbers of the traversal tell the descendants of a node from everything else, and what is
\* handed down the traversal is the nearest marked ancestor (FindItemByProperty, GetItem, selections).
LayoutIsExact ==
  Validate(built) =>
    LET order == Traversal(built)
    IN  /\ \A n, a \in Ids(built) : Descendant(built, order, n, a) = (a \in TreeAncestors(built, n))
        /\ \A marked \in SUBSET Ids(built) : \A n \in Ids(built) :
             LET above == TreeAncestors(built, n) \cap marked
                 container == Container(built, order, marked)[n]
             IN  IF above = {} THEN container = 0
                 ELSE container \in above /\ above \ {container} \subseteq TreeAncestors(built, container)

\* A client that walks down, across and back, or asks for one match after the other, meets every node
\* once and in the order of the traversal, and the element on top of its ancestors is the one hit.
WalksMeetEverything ==
  Validate(built) =>
    LET order == Traversal(built)
        back == [firstChild |-> "parent", lastChild |-> "parent",
                 nextSibling |-> "previousSibling", previousSibling |-> "nextSibling"]
    IN  /\ \A id \in Ids(built), direction \in DOMAIN back :
             LET there == Navigate(built, id, direction)
             IN  there # 0 => Navigate(built, there, back[direction]) = id
        /\ \A container \in Ids(built), matching \in SUBSET Ids(built) :
             LET hits[k \in 0 .. Len(order)] ==
                   IF k = 0 THEN << >>
                   ELSE LET previous == hits[k - 1]
                            next == FindItem(built, order, container, IF previous = << >> THEN 0 ELSE Last(previous), matching)
                        IN  IF next = 0 THEN previous ELSE Append(previous, next)
             IN  /\ ToSet(hits[Len(order)]) = {n \in matching : container \in TreeAncestors(built, n)}
                 /\ IsInjective(hits[Len(order)])
        /\ \A id \in Ids(built) : ElementAt(order, {id} \cup TreeAncestors(built, id), [n \in Ids(built) |-> 0]) = id

\* Snapshot::build accepts exactly the trees, and its preorder layout answers
\* descent, siblings and hits as the tree itself does.
TreesAreExact == ValidationIsExact /\ LayoutIsExact /\ WalksMeetEverything
=============================================================================
