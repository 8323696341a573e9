--------------------------- MODULE Accessibility ---------------------------
(***************************************************************************)
(* The accessibility tree of a Window.                                     *)
(*                                                                         *)
(* Publisher threads hand over whole snapshots, the owner thread delivers  *)
(* notifications and enables and disables the feature, and the threads of  *)
(* assistive clients submit actions.  A snapshot is one immutable object   *)
(* swapped through an atomic pointer; what a change means to the clients   *)
(* travels through a bounded ring that collapses into one invalidation.    *)
(*                                                                         *)
(* Every enable makes a new runtime.  Threads that loaded an older one keep *)
(* it alive and act on it, so the state below is per runtime.              *)
(***************************************************************************)
EXTENDS Integers, Sequences, FiniteSets, SequencesExt

CONSTANTS Publishers, Clients,  \* threads
          Root,                 \* the root node of every snapshot
          Contents,             \* what a snapshot may hold: node -> [name, value, exposure, focused]
          RingSize,             \* limits.maximumNotificationQueue
          ActionSlots,          \* limits.maximumActionQueue
          MaxProviders,         \* limits.maximumNativeProviders
          MaxPublications,        \* bound: generations an application publishes
          MaxRuntime,           \* bound: how often the feature is enabled
          MaxRequest            \* bound: requests submitted to one runtime

ASSUME AccessibilityAssumption ==
  /\ \A content \in Contents : Root \in DOMAIN content
  /\ {RingSize, ActionSlots, MaxProviders, MaxPublications, MaxRuntime} \subseteq Nat \ {0}
  /\ MaxRequest \in Nat
  /\ \A content \in Contents : Cardinality(DOMAIN content) <= MaxProviders

Runtimes == 1 .. MaxRuntime
NoSnapshot == [generation |-> 0, nodes |-> << >>]
Redacted == "redacted"

VARIABLES runtime,         \* AccessibilityState::runtime; 0 before the first enable
          live,            \* AccessibilityRuntime::live
          snapshot,        \*   snapshot: [generation, nodes]
          ring,            \*   notifications, oldest first
          invalidation,    \*   invalidationPending
          requests,        \*   actions, oldest first
          nextRequest,     \*   nextRequest
          providers,       \*   UiaState::providers, the nodes that own a native provider
          lastGeneration,  \* AccessibilityState::lastGeneration
          publication,     \* holder of publicationMutex, or "nobody"
          publisher,       \* what each publisher thread is in the middle of
          client,          \* what each client thread is in the middle of
          owner,           \* what the owner thread is in the middle of
          view,            \* history: the tree of the current runtime as the clients know it
          raised           \* history: the last native event: what it discloses of a node, and how the tree exposes that node

a11yVars == <<runtime, live, snapshot, ring, invalidation, requests, nextRequest, providers,
              lastGeneration, publication, publisher, client, owner, view, raised>>
queueVars == <<requests, nextRequest>>
ringVars == <<ring, invalidation>>
a11yHistory == <<view, raised>>

IdleThread == [pc |-> "idle"]
NothingRaised == [property |-> "name", exposure |-> "full", values |-> {}]
IsLive(rt) == rt # 0 /\ live[rt]
Published(rt) == snapshot[rt] # NoSnapshot

-----------------------------------------------------------------------------
(* What a node discloses *)

\* valueHidden: the value is protected when the value or the whole content is.
ValueHidden(node) == node.exposure \in {"redactValue", "redactContent"}

\* property(): what a provider answers for the name and for the value of a node.
PropertyValue(node, property) ==
  CASE property = "name" -> IF node.exposure = "redactContent" THEN Redacted ELSE node.name
    [] property = "value" -> IF ValueHidden(node) THEN Redacted ELSE node.value

\* The tree a client reads from a snapshot.
Disclosed(nodes) ==
  [n \in DOMAIN nodes |-> [name |-> PropertyValue(nodes[n], "name"), value |-> PropertyValue(nodes[n], "value")]]

\* propertyEvent: both sides of the event are protected as the current tree protects the node.
Stricter(a, b) ==
  IF "redactContent" \in {a, b} THEN "redactContent" ELSE IF "redactValue" \in {a, b} THEN "redactValue" ELSE "full"
Protected(node, other) == [node EXCEPT !.exposure = Stricter(@, other.exposure)]
ProtectedBefore(before, after, current) == Protected(Protected(before, after), current)

-----------------------------------------------------------------------------
(* The notification ring *)

Note(kind, node, before, after) == [kind |-> kind, node |-> node, before |-> before, after |-> after]
TreeInvalidated(before, after) == Note("treeInvalidated", Root, before, after)

\* The queued invalidation takes over the newest snapshot.
Refreshed(notes, after) ==
  [i \in DOMAIN notes |-> IF notes[i].kind = "treeInvalidated" THEN TreeInvalidated(NoSnapshot, after) ELSE notes[i]]

\* queueDiff, the comparison: what changed from one snapshot to the next, node by node, then the structure.
NodeChanges(n, before, after) ==
  LET old == before.nodes[n]
      new == after.nodes[n]
      one(kind, changed) == IF changed THEN <<Note(kind, n, before, after)>> ELSE << >>
  IN  one("name", new.name # old.name) \o one("value", new.value # old.value)
        \o one("focusChanged", new.focused /\ ~old.focused) \o one("exposure", new.exposure # old.exposure)

\* The nodes both snapshots hold, one after the other, and the structure last.
Changes(before, after) ==
  LET kept == SetToSeq(DOMAIN after.nodes \cap DOMAIN before.nodes)
  IN  FlattenSeq([k \in DOMAIN kept |-> NodeChanges(kept[k], before, after)])
        \o (IF DOMAIN after.nodes = DOMAIN before.nodes THEN << >>
            ELSE <<Note("structureChanged", Root, before, after)>>)

\* Mutation: what does not fit is dropped.
Collapsed_Drops(queued, changes, before, after) ==
  queued \o SubSeq(changes, 1, IF Len(queued) + Len(changes) <= RingSize THEN Len(changes) ELSE RingSize - Len(queued))

\* push: the first change that does not fit turns everything queued into one invalidation.
Collapsed(queued, changes, before, after) ==
  IF Len(queued) + Len(changes) <= RingSize THEN queued \o changes ELSE <<TreeInvalidated(before, after)>>

HoldsInvalidation(notes) == \E i \in DOMAIN notes : notes[i].kind = "treeInvalidated"

\* Mutation: a queued invalidation is left alone.
QueueDiff_KeepsOld(rt, before, after) ==
  LET notes == IF before = NoSnapshot THEN Collapsed(ring[rt], <<TreeInvalidated(before, after)>>, before, after)
               ELSE Collapsed(ring[rt], Changes(before, after), before, after)
  IN  /\ ring' = [ring EXCEPT ![rt] = notes]
      /\ invalidation' = [invalidation EXCEPT ![rt] = before = NoSnapshot \/ HoldsInvalidation(notes)]

\* queueDiff: a pending invalidation covers the change, a first snapshot is an invalidation itself.
QueueDiff(rt, before, after) ==
  LET notes == IF invalidation[rt] THEN Refreshed(ring[rt], after)
               ELSE Collapsed(ring[rt], IF before = NoSnapshot THEN <<TreeInvalidated(before, after)>>
                                                               ELSE Changes(before, after), before, after)
  IN  /\ ring' = [ring EXCEPT ![rt] = notes]
      /\ invalidation' = [invalidation EXCEPT
           ![rt] = invalidation[rt] \/ before = NoSnapshot \/ HoldsInvalidation(notes)]

-----------------------------------------------------------------------------
(* Publisher threads: Facade::publish and Facade::announce *)

\* publish, up to the lock: the view is validated and copied.  An application repeats a generation or goes on.
PublishTree(p) ==
  /\ publisher[p].pc = "idle" /\ IsLive(runtime)
  /\ \E content \in Contents, generation \in {lastGeneration, lastGeneration + 1} \cap 1 .. MaxPublications :
       publisher' = [publisher EXCEPT ![p] =
         [pc |-> "built", rt |-> runtime, candidate |-> [generation |-> generation, nodes |-> content]]]
  /\ UNCHANGED <<runtime, live, snapshot, ringVars, queueVars, providers, lastGeneration, publication, client, owner, a11yHistory>>

\* prepareAccessibilitySnapshot: new nodes get a provider; those of removed nodes are kept.
Prepared(rt, nodes) == providers[rt] \cup DOMAIN nodes

AcceptableTree(rt, candidate) == candidate.generation > lastGeneration

\* publish, under publicationMutex: liveness, the order of generations, native preparation.
LockPublication(p) ==
  /\ publisher[p].pc = "built" /\ publication = "nobody"
  /\ LET rt == publisher[p].rt
         candidate == publisher[p].candidate
         wanted == Prepared(rt, candidate.nodes)
     IN  IF live[rt] /\ AcceptableTree(rt, candidate) /\ Cardinality(wanted) <= MaxProviders
         THEN /\ publication' = p
              /\ providers' = [providers EXCEPT ![rt] = wanted]
              /\ publisher' = [publisher EXCEPT ![p].pc = "prepared"]
         ELSE /\ publisher' = [publisher EXCEPT ![p] = IdleThread]
              /\ UNCHANGED <<providers, publication>>
  /\ UNCHANGED <<runtime, live, snapshot, ringVars, queueVars, lastGeneration, client, owner, a11yHistory>>

\* publish: liveness again, then the snapshot is the tree that clients read.
StoreSnapshot(p) ==
  /\ publisher[p].pc = "prepared"
  /\ LET rt == publisher[p].rt
     IN  IF live[rt]
         THEN /\ snapshot' = [snapshot EXCEPT ![rt] = publisher[p].candidate]
              /\ lastGeneration' = publisher[p].candidate.generation
              /\ publisher' = [publisher EXCEPT ![p] =
                   [pc |-> "stored", rt |-> rt, candidate |-> publisher[p].candidate, before |-> snapshot[rt]]]
              /\ UNCHANGED publication
         ELSE /\ publisher' = [publisher EXCEPT ![p] = IdleThread]
              /\ publication' = "nobody"
              /\ UNCHANGED <<snapshot, lastGeneration>>
  /\ UNCHANGED <<runtime, live, ringVars, queueVars, providers, client, owner, a11yHistory>>

\* publish: the difference is queued and publicationMutex released.
QueueDifference(p) ==
  /\ publisher[p].pc = "stored"
  /\ QueueDiff(publisher[p].rt, publisher[p].before, publisher[p].candidate)
  /\ publisher' = [publisher EXCEPT ![p] = IdleThread]
  /\ publication' = "nobody"
  /\ UNCHANGED <<runtime, live, snapshot, queueVars, providers, lastGeneration, client, owner, a11yHistory>>

\* announce, up to notificationMutex: the node is looked up in the snapshot of the moment.
AnnounceChange(p) ==
  /\ publisher[p].pc = "idle" /\ IsLive(runtime) /\ Published(runtime)
  /\ \E n \in DOMAIN snapshot[runtime].nodes :
       publisher' = [publisher EXCEPT ![p] =
         [pc |-> "announcing", rt |-> runtime, note |-> Note("liveRegion", n, NoSnapshot, snapshot[runtime])]]
  /\ UNCHANGED <<runtime, live, snapshot, ringVars, queueVars, providers, lastGeneration, publication, client, owner, a11yHistory>>

\* announce: an announcement that finds the ring full is refused, never collapsed.
QueueAnnouncement(p) ==
  /\ publisher[p].pc = "announcing"
  /\ LET rt == publisher[p].rt
     IN  ring' = IF live[rt] /\ Len(ring[rt]) < RingSize
                 THEN [ring EXCEPT ![rt] = Append(@, publisher[p].note)] ELSE ring
  /\ publisher' = [publisher EXCEPT ![p] = IdleThread]
  /\ UNCHANGED <<runtime, live, snapshot, invalidation, queueVars, providers, lastGeneration, publication, client, owner, a11yHistory>>

-----------------------------------------------------------------------------
(* Client threads: submitAccessibilityAction *)

Coalescible == {"setValue"}
ActionKinds == Coalescible \cup {"invoke"}

\* submitAccessibilityAction, up to actionMutex: the checks against the snapshot of the moment.
Submit(c) ==
  /\ client[c].pc = "idle" /\ IsLive(runtime) /\ Published(runtime)
  /\ \E n \in DOMAIN snapshot[runtime].nodes, kind \in ActionKinds :
       client' = [client EXCEPT ![c] =
         [pc |-> "checked", rt |-> runtime,
          request |-> [id |-> 0, node |-> n, kind |-> kind, observed |-> snapshot[runtime].generation]]]
  /\ UNCHANGED <<runtime, live, snapshot, ringVars, queueVars, providers, lastGeneration, publication, publisher, owner, a11yHistory>>

\* The queue after a request: it replaces an equal request at the tail, or joins when there is room.
Enqueued(queue, request) ==
  LET n == Len(queue)
  IN  IF request.kind \in Coalescible /\ n # 0 /\ queue[n].node = request.node /\ queue[n].kind = request.kind
      THEN [queue EXCEPT ![n] = request]
      ELSE IF n < ActionSlots THEN Append(queue, request) ELSE queue

\* Mutation: liveness is only checked before the lock.
MayEnqueue_Unchecked(rt) == TRUE

\* The second check of live, under actionMutex.
MayEnqueue(rt) == live[rt]

\* submitAccessibilityAction, under actionMutex: a number is drawn even when the queue is full.
EnqueueAction(c) ==
  /\ client[c].pc = "checked"
  /\ LET rt == client[c].rt
         request == [client[c].request EXCEPT !.id = nextRequest[rt]]
     IN  IF MayEnqueue(rt)
         THEN /\ nextRequest[rt] <= MaxRequest
              /\ nextRequest' = [nextRequest EXCEPT ![rt] = @ + 1]
              /\ requests' = [requests EXCEPT ![rt] = Enqueued(@, request)]
         ELSE UNCHANGED queueVars
  /\ client' = [client EXCEPT ![c] = IdleThread]
  /\ UNCHANGED <<runtime, live, snapshot, ringVars, providers, lastGeneration, publication, publisher, owner, a11yHistory>>

-----------------------------------------------------------------------------
(* The owner thread *)

\* Facade::enable: a new runtime with empty queues; the generations go on.
Enable ==
  /\ owner.pc = "idle" /\ ~IsLive(runtime) /\ runtime < MaxRuntime
  /\ runtime' = runtime + 1
  /\ live' = [live EXCEPT ![runtime + 1] = TRUE]
  /\ view' = << >>
  /\ UNCHANGED <<snapshot, ringVars, queueVars, providers, lastGeneration, publication, publisher, client, owner, raised>>

\* Facade::popAction.
PopAction ==
  /\ owner.pc = "idle" /\ IsLive(runtime) /\ requests[runtime] # << >>
  /\ requests' = [requests EXCEPT ![runtime] = Tail(@)]
  /\ UNCHANGED <<runtime, live, snapshot, ringVars, nextRequest, providers, lastGeneration, publication, publisher, client, owner, a11yHistory>>

\* publishAccessibilityGeometry and invalidateAccessibilityHost: a changed host invalidates the tree.
HostChanged ==
  /\ owner.pc = "idle" /\ IsLive(runtime) /\ Published(runtime)
  /\ LET now == snapshot[runtime]
         focused == {n \in DOMAIN now.nodes : now.nodes[n].focused}
         queued == IF invalidation[runtime] THEN Refreshed(ring[runtime], now)
                   ELSE Append(IF Len(ring[runtime]) = RingSize THEN << >> ELSE ring[runtime], TreeInvalidated(now, now))
     IN  \E gained \in BOOLEAN :
           ring' = [ring EXCEPT ![runtime] =
             IF gained /\ focused # {} /\ Len(queued) < RingSize
             THEN Append(queued, Note("focusChanged", CHOOSE n \in focused : TRUE, now, now)) ELSE queued]
  /\ invalidation' = [invalidation EXCEPT ![runtime] = TRUE]
  /\ UNCHANGED <<runtime, live, snapshot, queueVars, providers, lastGeneration, publication, publisher, client, owner, a11yHistory>>

\* drainAccessibilityNotifications: one notification leaves the ring under notificationMutex.
PopNotification ==
  /\ owner.pc = "idle" /\ IsLive(runtime) /\ ring[runtime] # << >>
  /\ owner' = [pc |-> "delivering", note |-> Head(ring[runtime])]
  /\ raised' = NothingRaised
  /\ ring' = [ring EXCEPT ![runtime] = Tail(@)]
  /\ invalidation' = [invalidation EXCEPT ![runtime] = @ /\ Head(ring[runtime]).kind # "treeInvalidated"]
  /\ UNCHANGED <<runtime, live, snapshot, queueVars, providers, lastGeneration, publication, publisher, client, view>>

\* Mutation: both sides are protected as their snapshots say, not as the tree of the moment does.
Disclosing_OwnSnapshots(note, current, property) ==
  LET before == note.before.nodes[note.node]
      after == note.after.nodes[note.node]
  IN  {PropertyValue(Protected(before, after), property), PropertyValue(after, property)}

\* propertyEvent: the old and the new value of the event.
Disclosing(note, current, property) ==
  LET before == note.before.nodes[note.node]
      after == note.after.nodes[note.node]
  IN  {PropertyValue(ProtectedBefore(before, after, current), property), PropertyValue(Protected(after, current), property)}

\* deliverAccessibilityNotification: what reaches the clients, and what they know afterwards.
Deliver ==
  /\ owner.pc = "delivering"
  /\ owner' = IdleThread
  /\ LET note == owner.note
         current == snapshot[runtime].nodes
         n == note.node
     IN  IF n \notin DOMAIN note.after.nodes \cap DOMAIN current
         THEN UNCHANGED a11yHistory
         ELSE CASE note.kind \in {"treeInvalidated", "structureChanged", "exposure"} ->
                     view' = Disclosed(current) /\ UNCHANGED raised
                [] note.kind \in {"name", "value"} ->
                     /\ raised' = [property |-> note.kind, exposure |-> current[n].exposure,
                                   values |-> Disclosing(note, current[n], note.kind)]
                     /\ view' = IF n \in DOMAIN view
                                THEN [view EXCEPT ![n][note.kind] =
                                        PropertyValue(Protected(note.after.nodes[n], current[n]), note.kind)]
                                ELSE view
                [] note.kind \in {"focusChanged", "liveRegion"} -> UNCHANGED a11yHistory
  /\ UNCHANGED <<runtime, live, snapshot, ringVars, queueVars, providers, lastGeneration, publication, publisher, client>>

\* closeAccessibility, first: no operation that looks from here on finds the runtime live.
Disable ==
  /\ owner.pc = "idle" /\ IsLive(runtime)
  /\ live' = [live EXCEPT ![runtime] = FALSE]
  /\ owner' = [pc |-> "closing"]
  /\ UNCHANGED <<runtime, snapshot, ringVars, queueVars, providers, lastGeneration, publication, publisher, client, a11yHistory>>

\* closeAccessibility: publicationMutex is held to the end; the tree goes first.
CloseTree ==
  /\ owner.pc = "closing" /\ publication = "nobody"
  /\ publication' = "owner"
  /\ snapshot' = [snapshot EXCEPT ![runtime] = NoSnapshot]
  /\ owner' = [pc |-> "emptying"]
  /\ UNCHANGED <<runtime, live, ringVars, queueVars, providers, lastGeneration, publisher, client, a11yHistory>>

\* closeAccessibility: the actions, under actionMutex.
CloseActions ==
  /\ owner.pc = "emptying"
  /\ requests' = [requests EXCEPT ![runtime] = << >>]
  /\ owner' = [pc |-> "detaching"]
  /\ UNCHANGED <<runtime, live, snapshot, ringVars, nextRequest, providers, lastGeneration, publication, publisher, client, a11yHistory>>

\* closeAccessibility: the notifications, under notificationMutex; then detachAccessibility.
CloseNotifications ==
  /\ owner.pc = "detaching"
  /\ ring' = [ring EXCEPT ![runtime] = << >>]
  /\ invalidation' = [invalidation EXCEPT ![runtime] = FALSE]
  /\ providers' = [providers EXCEPT ![runtime] = {}]
  /\ publication' = "nobody"
  /\ owner' = IdleThread
  /\ UNCHANGED <<runtime, live, snapshot, queueVars, lastGeneration, publisher, client, a11yHistory>>

-----------------------------------------------------------------------------
(* Specification *)

A11yInit ==
  /\ runtime = 0
  /\ live = [rt \in Runtimes |-> FALSE]
  /\ snapshot = [rt \in Runtimes |-> NoSnapshot]
  /\ ring = [rt \in Runtimes |-> << >>]
  /\ invalidation = [rt \in Runtimes |-> FALSE]
  /\ requests = [rt \in Runtimes |-> << >>]
  /\ nextRequest = [rt \in Runtimes |-> 1]
  /\ providers = [rt \in Runtimes |-> {}]
  /\ lastGeneration = 0
  /\ publication = "nobody"
  /\ publisher = [p \in Publishers |-> IdleThread]
  /\ client = [c \in Clients |-> IdleThread]
  /\ owner = IdleThread
  /\ view = << >>
  /\ raised = NothingRaised

PublisherStep(p) ==
  PublishTree(p) \/ LockPublication(p) \/ StoreSnapshot(p) \/ QueueDifference(p) \/ AnnounceChange(p) \/ QueueAnnouncement(p)

ClientStep(c) == Submit(c) \/ EnqueueAction(c)

PumpStep ==
  \/ Enable \/ PopAction \/ HostChanged \/ PopNotification \/ Deliver
  \/ Disable \/ CloseTree \/ CloseActions \/ CloseNotifications

A11yNext == (\E p \in Publishers : PublisherStep(p)) \/ (\E c \in Clients : ClientStep(c)) \/ PumpStep

A11ySpec == A11yInit /\ [][A11yNext]_a11yVars

-----------------------------------------------------------------------------
(* Properties *)

\* The queues stay within their limits and threads only hold runtimes that were enabled.
A11yTypeOK ==
  /\ runtime \in 0 .. MaxRuntime /\ lastGeneration \in 0 .. MaxPublications
  /\ \A rt \in Runtimes :
       /\ Len(ring[rt]) <= RingSize /\ Len(requests[rt]) <= ActionSlots
       /\ Cardinality(providers[rt]) <= MaxProviders
       /\ live[rt] => rt = runtime

\* No publication in flight, nothing queued, nothing being delivered.
TreeQuiescent ==
  /\ IsLive(runtime) /\ Published(runtime) /\ ring[runtime] = << >> /\ owner.pc = "idle"
  /\ \A p \in Publishers : publisher[p].pc # "stored"

\* However the ring overflowed, collapsed and was refreshed, clients that took every notification know
\* exactly what the published tree discloses: no change is lost without an invalidation (queueDiff).
ClientsConverge == TreeQuiescent => view = Disclosed(snapshot[runtime].nodes)

\* The ring holds one invalidation exactly while invalidationPending says so: were the flag to stay set
\* without one, queueDiff would drop every later change.
InvalidationAccounted ==
  \A rt \in Runtimes :
    Cardinality({i \in DOMAIN ring[rt] : ring[rt][i].kind = "treeInvalidated"}) = IF invalidation[rt] THEN 1 ELSE 0

\* A runtime that is closed keeps nothing, whatever threads still act on it: no action is accepted into a
\* queue nobody drains, no tree and no native provider comes back (closeAccessibility, lines 161-198).
ClosedIsEmpty ==
  \A rt \in 1 .. runtime :
    ~live[rt] /\ ~(rt = runtime /\ owner.pc \in {"closing", "emptying", "detaching"})
      => /\ snapshot[rt] = NoSnapshot /\ requests[rt] = << >> /\ ring[rt] = << >>
         /\ providers[rt] = {} /\ ~invalidation[rt]

\* An event that was queued before a node was hidden does not disclose what the tree now hides
\* (propertyEvent, lines 326-344).
NothingHiddenIsRaised ==
  raised.exposure = "redactContent" \/ (raised.exposure = "redactValue" /\ raised.property = "value")
    => raised.values \subseteq {Redacted}

\* What accessibility clients are told, whatever the ring collapsed: a client that
\* followed the notifications has the published tree, nothing that the tree hides
\* was raised, and a closed runtime holds nothing.
TreesAreTrue ==
    /\ A11yTypeOK
    /\ ClientsConverge
    /\ InvalidationAccounted
    /\ ClosedIsEmpty
    /\ NothingHiddenIsRaised
=============================================================================
