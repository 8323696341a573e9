---------------------------- MODULE ChildSurfaces ----------------------------
(***************************************************************************)
(* Native child hosts (ChildSurface) below one parent Window: the cached   *)
(* geometry, visibility and enablement beside the native ones, the bounded *)
(* event queue with its coalescing and eviction, loss of the native host   *)
(* with its parent, explicit close, and destruction of the object on a     *)
(* foreign thread, which hands the state to the owner's dispatcher.        *)
(* Sibling order is native only and is left out.                           *)
(***************************************************************************)
EXTENDS Integers, Sequences, FiniteSets, SequencesExt

CONSTANTS
    Surfaces,       \* ChildSurface objects
    SurfacePositions,      \* logical positions
    Extents,        \* logical sizes
    ScaleSteps,     \* DPIs as multiples of the baseline
    EventSlots,     \* capacity of an event queue
    MaxStrays       \* bound: hosts that outlive their state at once

ASSUME ChildSurfacesAssumption ==
    /\ EventSlots \in Nat \ {0} /\ MaxStrays \in Nat
    /\ SurfacePositions # {} /\ Extents \subseteq Nat \ {0} /\ Extents # {}
    /\ ScaleSteps \subseteq Nat \ {0} /\ ScaleSteps # {}

VARIABLES
    parentScale,    \* 0 when the parent window is closed, or its DPI
    hosts,          \* per surface: where its state is, and what the state caches
    native,         \* per surface: the native host, or its absence
    events,         \* per surface: retained events and the count of drops
    client,         \* per surface: what a consumer of its events believes
    childClass,     \* users, surfaces that leaked a use, and registered
    strays          \* hosts that could not be destroyed and have no state any more

surfaceVars == <<parentScale, hosts, native, events, client, childClass, strays>>

NoHost == [live |-> FALSE, position |-> 0, pixels |-> 0, visible |-> FALSE, enabled |-> FALSE]

(* "closed": no state; "held": the ChildSurface owns it; "emptied": it owns *)
(* one without a native side; "deferred": the owner's dispatcher has it.  lost: nativeDestroyedPendingFinalize.*)
NoState == [where |-> "closed", lost |-> FALSE, registered |-> FALSE, stale |-> FALSE, values |->
    [position |-> 0, size |-> 0, pixels |-> 0, scale |-> 0, visible |-> FALSE], enabled |-> FALSE]

NoEvents == [queue |-> <<>>, lossless |-> TRUE]

Held(s) == hosts[s].where = "held"
IsOpen(s) == Held(s) /\ native[s].live

-----------------------------------------------------------------------------
(* Events *)

IsChildSurfaceEventCoalescible(e) == e.kind \in {"position", "size", "pixels", "scale"}

(* The entry a coalescible event may merge into: the last one of its kind   *)
(* behind the last durable event.                                           *)
MergeIndex(queue, e) ==
    LET open == {i \in 1..Len(queue) :
            /\ queue[i].kind = e.kind
            /\ \A j \in i..Len(queue) : IsChildSurfaceEventCoalescible(queue[j])}
    IN IF IsChildSurfaceEventCoalescible(e) /\ open # {} THEN CHOOSE i \in open : \A j \in open : j <= i ELSE 0

(* A merged scale keeps the earliest previous value, and disappears when    *)
(* nothing changed in the end.                                              *)
Merged(queue, i, e) ==
    IF e.kind # "scale" THEN [queue EXCEPT ![i] = e]
    ELSE IF queue[i].previous = e.value THEN RemoveAt(queue, i)
    ELSE [queue EXCEPT ![i] = [e EXCEPT !.previous = queue[i].previous]]

ReplaceIndex_Drops(queue, e) ==
    LET older == {i \in 1..Len(queue) : IsChildSurfaceEventCoalescible(queue[i])}
    IN IF older # {} THEN CHOOSE i \in older : \A j \in older : i <= j ELSE 0

(* The entry a full queue gives up: the oldest coalescible one, and for the *)
(* terminal event any.                                                      *)
ReplaceIndex(queue, e) ==
    LET older == {i \in 1..Len(queue) : IsChildSurfaceEventCoalescible(queue[i])}
    IN IF older # {} THEN CHOOSE i \in older : \A j \in older : i <= j
       ELSE IF e.kind = "destroyed" THEN 1 ELSE 0

EnqueueChildSurfaceEvent(q, e) ==
    LET i == MergeIndex(q.queue, e)
        r == ReplaceIndex(q.queue, e)
    IN IF i # 0 THEN [q EXCEPT !.queue = Merged(@, i, e)]
       ELSE IF Len(q.queue) < EventSlots THEN [q EXCEPT !.queue = Append(@, e)]
       ELSE IF r = 0 THEN [q EXCEPT !.lossless = FALSE]
       ELSE [queue |-> Append(RemoveAt(q.queue, r), e), lossless |-> FALSE]

Enqueue(q, es) == FoldLeft(EnqueueChildSurfaceEvent, q, es)

Event(kind, value) == [kind |-> kind, value |-> value, previous |-> 0]

(* The events that tell a consumer of the change from old to new.           *)
SurfaceGeometryChanges(old, new) ==
    SelectSeq(<<Event("position", new.position), Event("size", new.size), Event("pixels", new.pixels)>>,
              LAMBDA e : old[e.kind] # new[e.kind])

Applied(view, e) == IF e.kind = "destroyed" THEN view ELSE [view EXCEPT ![e.kind] = e.value]

-----------------------------------------------------------------------------
(* Class of the hosts *)

AcquireChildSurfaceClass(c) == [c EXCEPT !.users = @ + 1, !.registered = TRUE]

(* n releases: the last one unregisters, unless that fails, as it does while*)
(* a window of the class exists, and its use stays.                         *)
Released(c, n, ok) ==
    IF c.users > n THEN [c EXCEPT !.users = @ - n]
    ELSE [users |-> IF ok THEN 0 ELSE 1, registered |-> ~ok]

-----------------------------------------------------------------------------
(* Opening *)

OpenChildSurface ==
    \E s \in Surfaces, p \in SurfacePositions, x \in Extents, visible \in BOOLEAN :
        LET values == [position |-> p, size |-> x, pixels |-> x * parentScale, scale |-> parentScale, visible |-> visible]
        IN /\ hosts[s].where = "closed" /\ parentScale # 0
           /\ hosts' = [hosts EXCEPT ![s] = [where |-> "held", lost |-> FALSE, registered |-> TRUE, stale |-> FALSE,
                                            values |-> values, enabled |-> TRUE]]
           /\ native' = [native EXCEPT ![s] = [live |-> TRUE, position |-> p * parentScale, pixels |-> x * parentScale,
                                              visible |-> visible, enabled |-> TRUE]]
           /\ events' = [events EXCEPT ![s] = NoEvents]
           /\ client' = [client EXCEPT ![s] = values]
           /\ childClass' = AcquireChildSurfaceClass(childClass)
           /\ UNCHANGED <<parentScale, strays>>

(* A failure after the class was acquired: closeChildSurfaceBestEffort      *)
(* destroys what exists, and only the class can remember it.                *)
SurfaceOpenFails ==
    /\ \E s \in Surfaces : hosts[s].where = "closed"
    /\ parentScale # 0
    /\ \E ok \in BOOLEAN, left \in 0..1 :
        /\ strays' = strays + left /\ strays' <= MaxStrays /\ (ok => strays' = 0)
        /\ childClass' = Released(AcquireChildSurfaceClass(childClass), 1, ok)
    /\ UNCHANGED <<parentScale, hosts, native, events, client>>

-----------------------------------------------------------------------------
(* Setters: the native call, then the cache and its events *)

SetRect ==
    \E s \in Surfaces, p \in SurfacePositions, x \in Extents :
        LET old == hosts[s].values
            new == [old EXCEPT !.position = p, !.size = x, !.pixels = x * old.scale]
        IN /\ IsOpen(s) /\ parentScale # 0
           /\ native' = [native EXCEPT ![s].position = p * parentScale, ![s].pixels = x * parentScale]
           /\ hosts' = [hosts EXCEPT ![s].values = new]
           /\ events' = [events EXCEPT ![s] = Enqueue(@, SurfaceGeometryChanges(old, new))]
           /\ UNCHANGED <<parentScale, client, childClass, strays>>

(* show and hide: the native style is asked what came of it, and a refusal  *)
(* is taken back.                                                           *)
SetVisible ==
    \E s \in Surfaces, fault \in {"none", "query", "refused"} :
        LET visible == ~hosts[s].values.visible
        IN /\ IsOpen(s)
           /\ IF fault = "none"
              THEN /\ native' = [native EXCEPT ![s].visible = visible]
                   /\ hosts' = [hosts EXCEPT ![s].values.visible = visible]
                   /\ events' = [events EXCEPT ![s] = EnqueueChildSurfaceEvent(@, Event("visible", visible))]
              ELSE /\ native' = [native EXCEPT ![s].visible = hosts[s].values.visible]
                   /\ UNCHANGED <<hosts, events>>
           /\ UNCHANGED <<parentScale, client, childClass, strays>>

SetSurfaceInteractionEnabled ==
    \E s \in Surfaces :
        /\ IsOpen(s)
        /\ native' = [native EXCEPT ![s].enabled = ~hosts[s].enabled]
        /\ hosts' = [hosts EXCEPT ![s].enabled = ~@]
        /\ UNCHANGED <<parentScale, events, client, childClass, strays>>

(* WM_DPICHANGED_AFTERPARENT to every host: the logical rectangle is kept,  *)
(* the physical one follows; a native failure leaves the cache behind.      *)
Rescaled(s, scale) ==
    LET old == hosts[s].values
        new == [old EXCEPT !.scale = scale, !.pixels = old.size * scale]
        change == [kind |-> "scale", value |-> scale, previous |-> old.scale]
    IN [host |-> [hosts[s] EXCEPT !.values = new, !.stale = FALSE],
        native |-> [native[s] EXCEPT !.position = old.position * scale, !.pixels = new.pixels],
        events |-> Enqueue(events[s], <<change>> \o SurfaceGeometryChanges(old, new))]

DpiChangedAfterParent ==
    \E scale \in ScaleSteps \ {parentScale}, failing \in SUBSET {s \in Surfaces : native[s].live} :
        LET following == {s \in Surfaces : native[s].live /\ scale # hosts[s].values.scale} \ failing
        IN /\ parentScale # 0 /\ parentScale' = scale
           /\ hosts' = [s \in Surfaces |->
                  IF s \in following THEN Rescaled(s, scale).host
                  ELSE IF s \in failing THEN [hosts[s] EXCEPT !.stale = TRUE] ELSE hosts[s]]
           /\ native' = [s \in Surfaces |-> IF s \in following THEN Rescaled(s, scale).native ELSE native[s]]
           /\ events' = [s \in Surfaces |-> IF s \in following THEN Rescaled(s, scale).events ELSE events[s]]
           /\ UNCHANGED <<client, childClass, strays>>

-----------------------------------------------------------------------------
(* Consuming *)

PopSurfaceEvent ==
    \E s \in Surfaces :
        /\ Held(s) /\ events[s].queue # <<>>
        /\ client' = [client EXCEPT ![s] = Applied(@, Head(events[s].queue))]
        /\ events' = [events EXCEPT ![s].queue = Tail(@)]
        /\ UNCHANGED <<parentScale, hosts, native, childClass, strays>>

(* Clearing is the consumer's choice: it reads the getters afterwards.      *)
ClearSurfaceEvents ==
    \E s \in Surfaces :
        /\ Held(s)
        /\ events' = [events EXCEPT ![s] = NoEvents]
        /\ client' = [client EXCEPT ![s] = hosts[s].values]
        /\ UNCHANGED <<parentScale, hosts, native, childClass, strays>>

-----------------------------------------------------------------------------
(* Losing, closing, destroying *)

(* WM_NCDESTROY nobody asked for: the state unregisters and waits for the   *)
(* owner to finalize it.                                                    *)
LoseHosts(gone) ==
    /\ native' = [s \in Surfaces |-> IF s \in gone THEN NoHost ELSE native[s]]
    /\ hosts' = [s \in Surfaces |-> IF s \in gone THEN [hosts[s] EXCEPT !.lost = TRUE, !.registered = FALSE] ELSE hosts[s]]
    /\ events' = [s \in Surfaces |->
           IF s \in gone THEN EnqueueChildSurfaceEvent(events[s], Event("destroyed", 0)) ELSE events[s]]
    /\ UNCHANGED <<client, childClass>>

SurfaceLoss == \E s \in Surfaces : native[s].live /\ LoseHosts({s}) /\ UNCHANGED <<parentScale, strays>>

ParentCloses ==
    /\ parentScale # 0 /\ parentScale' = 0 /\ strays' = 0
    /\ LoseHosts({s \in Surfaces : native[s].live})

ParentOpens ==
    /\ parentScale = 0 /\ parentScale' \in ScaleSteps
    /\ UNCHANGED <<hosts, native, events, client, childClass, strays>>

Finalized_NotLost(gone, kept, left) ==
    /\ native' = [s \in Surfaces |-> IF s \in gone THEN NoHost ELSE native[s]]
    /\ hosts' = [s \in Surfaces |-> IF s \in gone THEN [NoState EXCEPT !.where = IF s \in kept THEN "emptied" ELSE "closed"] ELSE hosts[s]]
    /\ events' = [s \in Surfaces |-> IF s \in gone THEN NoEvents ELSE events[s]]
    /\ client' = [s \in Surfaces |-> IF s \in gone THEN NoState.values ELSE client[s]]
    /\ \E ok \in BOOLEAN :
        (ok => strays + left = 0) /\ childClass' = Released(childClass, Cardinality({s \in gone : ~hosts[s].lost}), ok)

(* The whole of a successful close, and of a best-effort one: the host, the *)
(* registration, the class, and the state unless its object keeps it.  So   *)
(* many hosts as are left could not be destroyed; their states go all the   *)
(* same, and what such a host's messages do then is not modelled.           *)
Finalized(gone, kept, left) ==
    /\ native' = [s \in Surfaces |-> IF s \in gone THEN NoHost ELSE native[s]]
    /\ hosts' = [s \in Surfaces |-> IF s \in gone THEN [NoState EXCEPT !.where = IF s \in kept THEN "emptied" ELSE "closed"] ELSE hosts[s]]
    /\ events' = [s \in Surfaces |-> IF s \in gone THEN NoEvents ELSE events[s]]
    /\ client' = [s \in Surfaces |-> IF s \in gone THEN NoState.values ELSE client[s]]
    /\ \E ok \in BOOLEAN :
        (ok => strays + left = 0) /\ childClass' = Released(childClass, Cardinality(gone), ok)

(* The numbers of hosts a best-effort close of these surfaces may leave.    *)
Left(gone) == 0..Min({Cardinality({s \in gone : native[s].live}), MaxStrays - strays})

(* close() on the owner thread.  A native host that cannot be destroyed     *)
(* stays open.                                                              *)
CloseChildSurface == \E s \in Surfaces : Held(s) /\ Finalized({s}, {}, 0) /\ UNCHANGED <<parentScale, strays>>

(* The destructor on the owner thread ignores the failure.                  *)
DestroyChildSurface ==
    \E s \in Surfaces : \E left \in Left({s}) :
        Held(s) /\ Finalized({s}, {}, left) /\ strays' = strays + left /\ UNCHANGED parentScale

(* close() of an object whose dispatcher ended before it.                   *)
CloseEmptied ==
    \E s \in Surfaces :
        /\ hosts[s].where = "emptied"
        /\ hosts' = [hosts EXCEPT ![s] = NoState]
        /\ UNCHANGED <<parentScale, native, events, client, childClass, strays>>

(* The destructor on another thread: the owner's dispatcher takes the state.*)
DeferChildSurfaceCleanupToOwner ==
    \E s \in Surfaces :
        /\ Held(s)
        /\ hosts' = [hosts EXCEPT ![s].where = "deferred"]
        /\ UNCHANGED <<parentScale, native, events, client, childClass, strays>>

(* pruneAbandonedStates, by the owner's pump.                               *)
PruneAbandonedChildren ==
    LET gone == {s \in Surfaces : hosts[s].where = "deferred"}
    IN /\ gone # {}
       /\ \E left \in Left(gone) : Finalized(gone, {}, left) /\ strays' = strays + left
       /\ UNCHANGED parentScale

(* The owner thread ends: its dispatcher closes the deferred surfaces and   *)
(* the registered ones, then the windows, and with them what was left.      *)
DispatcherExit ==
    LET gone == {s \in Surfaces : hosts[s].where = "deferred" \/ hosts[s].registered}
    IN /\ gone # {}
       /\ \E left \in Left(gone) : Finalized(gone, {s \in gone : Held(s)}, left)
       /\ parentScale' = 0 /\ strays' = 0

-----------------------------------------------------------------------------
SurfaceInit ==
    /\ parentScale \in ScaleSteps
    /\ hosts = [s \in Surfaces |-> NoState]
    /\ native = [s \in Surfaces |-> NoHost]
    /\ events = [s \in Surfaces |-> NoEvents]
    /\ client = [s \in Surfaces |-> NoState.values]
    /\ childClass = [users |-> 0, registered |-> FALSE] /\ strays = 0

SurfaceNext ==
    \/ OpenChildSurface \/ SurfaceOpenFails \/ SetRect \/ SetVisible \/ SetSurfaceInteractionEnabled
    \/ DpiChangedAfterParent \/ PopSurfaceEvent \/ ClearSurfaceEvents
    \/ SurfaceLoss \/ ParentCloses \/ ParentOpens
    \/ CloseChildSurface \/ DestroyChildSurface \/ CloseEmptied \/ DeferChildSurfaceCleanupToOwner \/ PruneAbandonedChildren \/ DispatcherExit

SurfaceSpec == SurfaceInit /\ [][SurfaceNext]_surfaceVars

-----------------------------------------------------------------------------
(* A consumer that applies the retained events in order ends at what the    *)
(* getters return, unless the queue counted a loss; and a lost host is      *)
(* always announced, last, even by a full queue (enqueueChildSurfaceEvent). *)
SurfaceEventsConverge ==
    \A s \in Surfaces : Held(s) =>
        /\ events[s].lossless => FoldLeft(Applied, client[s], events[s].queue) = hosts[s].values
        /\ \A i \in 1..Len(events[s].queue) : events[s].queue[i].kind = "destroyed" => i = Len(events[s].queue)
        /\ hosts[s].lost /\ events[s].queue # <<>> => Last(events[s].queue).kind = "destroyed"

(* The cache of an open surface is its native host: a refused show, a DPI   *)
(* change or a rectangle never leaves them apart, unless the DPI message    *)
(* itself failed.  A host lives only below an open parent, and only while   *)
(* its state is registered with the dispatcher, which will close it; every  *)
(* state, lost or deferred ones too, has its use of the class, and a host   *)
(* that could not be destroyed keeps it registered.                         *)
SurfacesAreNative ==
    /\ \A s \in Surfaces :
        /\ native[s].live = hosts[s].registered
        /\ native[s].live => parentScale # 0 /\ hosts[s].where \in {"held", "deferred"} /\ ~hosts[s].lost
        /\ native[s].live /\ ~hosts[s].stale =>
            /\ native[s].visible = hosts[s].values.visible
            /\ native[s].enabled = hosts[s].enabled
            /\ native[s].pixels = hosts[s].values.pixels
            /\ native[s].position = hosts[s].values.position * hosts[s].values.scale
    /\ childClass.users - Cardinality({s \in Surfaces : hosts[s].where \in {"held", "deferred"}}) \in {0, 1}
    /\ childClass.registered = (childClass.users > 0)
    /\ strays > 0 => childClass.registered

\* A child surface as its application sees it: replaying the events gives the
\* surface as it is, and a surface that is open has its native window.
SurfacesAreTrue == SurfaceEventsConverge /\ SurfacesAreNative
=============================================================================
