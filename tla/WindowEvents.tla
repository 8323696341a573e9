---------------------------- MODULE WindowEvents ----------------------------
(***************************************************************************)
(* The fixed-capacity event queue of a desktop Window: a ring of event     *)
(* slots filled by the window procedure on the owner thread and emptied by *)
(* popEvent.  Geometry and scale events are merged into the trailing run   *)
(* of coalescible entries; a full ring evicts the oldest coalescible entry *)
(* and drops the incoming event when there is none, unless it reports the  *)
(* loss of the native window.  A ChildSurface keeps the same ring.         *)
(*                                                                         *)
(* The cached values are those the getters of Window return.  `view' is    *)
(* what a consumer knows that only applies the events it pops; it starts   *)
(* from the getters when the window opens and after clearEvents().         *)
(***************************************************************************)
EXTENDS Integers, Sequences, SequencesExt, FiniteSets

CONSTANTS Capacity,     \* slots of the ring, as given to open()
          Geometry,     \* geometry kinds in the order emitGeometryChanges emits them
          Values,       \* values of one geometry kind
          Flags,        \* durable kinds with a cached Boolean: "focus", "moveResize"
          Scales,       \* content scales (each stands for a scale and its DPI)
          MaxSequence,  \* bound: sequence numbers issued in one lifetime
          MaxDropped    \* bound: value of the drop counter

ASSUME RingAssumption == Capacity \in Nat \ {0}

GeometryKinds == Range(Geometry)

Coalescible == GeometryKinds \cup {"scale"}

\* Durable kinds: the flags are cached, the others only announce.  "notice" stands for
\* RedrawRequested, PresentationStateChanged, MonitorChanged and OwnerChanged, which the
\* queue treats alike.
DurableKinds == Flags \cup {"close", "notice", "nativeDestroyed"}

NoValue == "none"

Payload(kind, value, previous) == [kind |-> kind, value |-> value, previous |-> previous]

Announce(kind) == Payload(kind, NoValue, NoValue)

EmptySlot == [sequence |-> 0, data |-> Announce(NoValue)]

VARIABLES ring,            \* [slots, head, count, next, dropped]: eventStorage ... droppedEvents
          lifetime,        \* "closed" | "open" | "pendingFinalize"
          closeRequested,
          cached,          \* cached value of every geometry kind, the scale and the flags
          view,            \* consumer: the same values as its popped events tell them
          lost,            \* history: an event was dropped since the view was last fetched
          told,            \* history: the consumer has been handed NativeDestroyed or cleared it
          stamp            \* history: cached geometry and flags, and announced scale, when each
                           \* queued durable event was inserted

vars == <<ring, lifetime, closeRequested, cached, view, lost, told, stamp>>

-----------------------------------------------------------------------------
(* The ring *)

EmptyRing == [slots |-> [i \in 0..Capacity - 1 |-> EmptySlot], head |-> 0, count |-> 0,
              next |-> 1, dropped |-> 0]

PhysicalIndex(q, index) == (q.head + index) % Capacity

Entry(q, index) == q.slots[PhysicalIndex(q, index)]

\* The queued entries, oldest first.
Pending(q) == [i \in 1..q.count |-> Entry(q, i - 1)]

IsCoalescible(data) == data.kind \in Coalescible

\* Mutation: the shift forgets that the queue starts at head.
RemoveEvent_IgnoresHead(q, index) ==
  [q EXCEPT !.count = @ - 1,
            !.slots = [i \in 0..Capacity - 1 |->
                         IF i = q.count - 1 THEN EmptySlot
                         ELSE IF i >= index /\ i < q.count - 1 THEN q.slots[i + 1]
                         ELSE q.slots[i]]]

RemoveEvent(q, index) ==
  LET logical(i) == (i - q.head + Capacity) % Capacity
  IN  [q EXCEPT !.count = @ - 1,
                !.slots = [i \in 0..Capacity - 1 |->
                             IF logical(i) = q.count - 1 THEN EmptySlot
                             ELSE IF logical(i) \in index..(q.count - 2)
                               THEN Entry(q, logical(i) + 1)
                             ELSE q.slots[i]]]

\* Mutation: an eviction is not counted.
DiscardEvent_Uncounted(q, index) == RemoveEvent(q, index)

DiscardEvent(q, index) == [RemoveEvent(q, index) EXCEPT !.dropped = @ + 1]

\* Mutation: the latest transition overwrites the queued one as other kinds do.
MergeContentScaleChanged_Replaces(queued, latest) ==
  [data |-> latest, noNetScaleChange |-> latest.previous = latest.value]

\* The queued transition keeps its start and takes the latest end.
MergeContentScaleChanged(queued, latest) ==
  [data |-> [queued EXCEPT !.value = latest.value],
   noNetScaleChange |-> queued.previous = latest.value]

\* Mutation: the scan passes over durable entries.
SupersededBy_CrossesDurable(q, data) ==
  {i \in 0..q.count - 1 : Entry(q, i).data.kind = data.kind}

\* Entries of the trailing coalescible run that a coalescible payload supersedes.
SupersededBy(q, data) ==
  {i \in 0..q.count - 1 : /\ Entry(q, i).data.kind = data.kind
                          /\ \A j \in i..q.count - 1 : IsCoalescible(Entry(q, j).data)}

Supersede(q, index, data) ==
  LET merged == MergeContentScaleChanged(Entry(q, index).data, data)
      at     == PhysicalIndex(q, index)
  IN  CASE data.kind # "scale"         -> [q EXCEPT !.slots[at].data = data]
        [] ~merged.noNetScaleChange    -> [q EXCEPT !.slots[at].data = merged.data]
        [] OTHER                       -> RemoveEvent(q, index)

Insert(q, data) ==
  [q EXCEPT !.slots[PhysicalIndex(q, q.count)] = [sequence |-> q.next, data |-> data],
            !.next = @ + 1, !.count = @ + 1]

\* Mutation: a full queue makes room for every durable event.
Evicted_ForAnyDurable(q, data) ==
  LET merged == {i \in 0..q.count - 1 : IsCoalescible(Entry(q, i).data)}
  IN  IF merged # {} THEN {CHOOSE i \in merged : \A j \in merged : i <= j}
      ELSE IF ~IsCoalescible(data) THEN {0} ELSE {}

\* Mutation: nothing is evicted for the loss of the native window.
Evicted_NotForLoss(q, data) ==
  LET merged == {i \in 0..q.count - 1 : IsCoalescible(Entry(q, i).data)}
  IN  IF merged # {} THEN {CHOOSE i \in merged : \A j \in merged : i <= j} ELSE {}

\* The entry a full queue gives up for data: at most one.
Evicted(q, data) ==
  LET merged == {i \in 0..q.count - 1 : IsCoalescible(Entry(q, i).data)}
  IN  IF merged # {} THEN {CHOOSE i \in merged : \A j \in merged : i <= j}
      ELSE IF data.kind = "nativeDestroyed" THEN {0} ELSE {}

EnqueueEvent(q, data) ==
  LET superseded == IF IsCoalescible(data) THEN SupersededBy(q, data) ELSE {}
      evicted    == Evicted(q, data)
  IN  CASE superseded # {}      -> Supersede(q, CHOOSE i \in superseded : \A j \in superseded : j <= i, data)
        [] /\ superseded = {}
           /\ q.count < Capacity -> Insert(q, data)
        [] /\ superseded = {}
           /\ q.count = Capacity
           /\ evicted = {}      -> [q EXCEPT !.dropped = @ + 1]
        [] OTHER                -> Insert(DiscardEvent(q, CHOOSE i \in evicted : TRUE), data)

EnqueueAll(q, payloads) == FoldLeft(EnqueueEvent, q, payloads)

Popped(q) ==
  [q EXCEPT !.slots[q.head] = EmptySlot, !.count = @ - 1,
            !.head = IF q.count = 1 THEN 0 ELSE (@ + 1) % Capacity]

ClearRetained(q) ==
  [q EXCEPT !.slots = [i \in 0..Capacity - 1 |->
                         IF (i - q.head + Capacity) % Capacity < q.count THEN EmptySlot ELSE @[i]],
            !.head = 0, !.count = 0]

-----------------------------------------------------------------------------
(* What the consumer makes of an event *)

\* A lost native window has neither focus nor a move or resize in progress.
Dropped(known) == [k \in DOMAIN known |-> IF k \in Flags THEN FALSE ELSE known[k]]

Apply(known, event) ==
  LET data == event.data
  IN  CASE data.kind \in Coalescible \cup Flags -> [known EXCEPT ![data.kind] = data.value]
        [] data.kind = "nativeDestroyed" -> Dropped(known)
        [] OTHER -> known

Replay(known, events) == FoldLeft(Apply, known, events)

InitialValues == [k \in Coalescible \cup Flags |->
                    IF k \in Flags THEN FALSE
                    ELSE CHOOSE v \in (IF k = "scale" THEN Scales ELSE Values) : TRUE]

-----------------------------------------------------------------------------
(* Window messages: every handler updates the cache and routes its events  *)

\* Route the payloads of a handler, after those of messages nested in it.  The stamp of a
\* durable entry is taken when its handler has finished; entries of nested messages take
\* `inner', those of the handler itself `known', which the cache holds from now on.
RouteNested(nested, inner, payloads, known) ==
  LET between == EnqueueAll(ring, nested)
      q       == EnqueueAll(between, payloads)
      durable == {e.sequence : e \in {d \in Range(Pending(q)) : ~IsCoalescible(d.data)}}
  IN  /\ q.next <= MaxSequence + 1
      /\ q.dropped <= MaxDropped
      /\ ring' = q
      /\ cached' = known
      /\ lost' = (lost \/ q.dropped > ring.dropped)
      /\ stamp' = [s \in durable |-> CASE s \in DOMAIN stamp -> stamp[s]
                                       [] s \notin DOMAIN stamp /\ s < between.next -> inner
                                       [] OTHER -> known]

Route(payloads, known) == RouteNested(<<>>, known, payloads, known)

\* emitGeometryChanges: the kinds whose cached value differs from `before'.
GeometryChanges(before, after) ==
  LET changed == SelectSeq(Geometry, LAMBDA k : before[k] # after[k])
  IN  [i \in DOMAIN changed |-> Payload(changed[i], after[changed[i]], NoValue)]

Refreshed(geometry, scale) ==
  [k \in DOMAIN cached |-> IF k \in GeometryKinds THEN geometry[k]
                           ELSE IF k = "scale" THEN scale ELSE cached[k]]

\* WM_SIZE ends with a change of presentation, WM_MOVE and WM_DPICHANGED with one of monitor.
TrailingNotices == {<<>>, <<Announce("notice")>>}

\* What the WM_MOVE and the WM_SIZE nested in WM_DPICHANGED announce between them.
NestedNotices == TrailingNotices \cup {<<Announce("notice"), Announce("notice")>>}

\* WM_SIZE, WM_MOVE: refresh the cached geometry, emit what changed.
GeometryMessage(geometry, notices) ==
  LET after == Refreshed(geometry, cached["scale"])
  IN  /\ lifetime = "open"
      /\ Route(GeometryChanges(cached, after) \o notices, after)
      /\ UNCHANGED <<lifetime, closeRequested, view, told>>

\* WM_DPICHANGED: placing the window delivers nested WM_MOVE and WM_SIZE messages, which
\* refresh the cache, the new scale included, emit, and announce a change of monitor and of
\* presentation.  The handler then emits against the values it saved, the scale last.
\* Until that scale event only the cache knows the new scale.
DpiMessage(geometry, scale, nested, announced, notices) ==
  LET after   == Refreshed(geometry, scale)
      changes == GeometryChanges(cached, after)
  IN  /\ lifetime = "open"
      /\ ~nested => announced = <<>>
      /\ RouteNested(IF nested THEN changes \o announced ELSE <<>>,
                     [after EXCEPT !["scale"] = cached["scale"]],
                     changes
                       \o (IF cached["scale"] # scale
                             THEN <<Payload("scale", scale, cached["scale"])>> ELSE <<>>)
                       \o notices,
                     after)
      /\ UNCHANGED <<lifetime, closeRequested, view, told>>

\* WM_SETFOCUS, WM_KILLFOCUS, WM_ENTERSIZEMOVE, WM_EXITSIZEMOVE: only a change is an event.
FlagMessage(flag, value) ==
  /\ lifetime = "open"
  /\ cached[flag] # value
  /\ Route(<<Payload(flag, value, NoValue)>>, [cached EXCEPT ![flag] = value])
  /\ UNCHANGED <<lifetime, closeRequested, view, told>>

\* WM_PAINT
RedrawMessage ==
  /\ lifetime = "open"
  /\ Route(<<Announce("notice")>>, cached)
  /\ UNCHANGED <<lifetime, closeRequested, view, told>>

\* Another window of the dispatcher that owned this one is gone.
OwnerRemoved ==
  /\ lifetime # "closed"
  /\ Route(<<Announce("notice")>>, cached)
  /\ UNCHANGED <<lifetime, closeRequested, view, told>>

\* WM_CLOSE needs a live window; requestClose() only needs the retained state.
RequestClose(source) ==
  /\ lifetime \in (IF source = "user" THEN {"open"} ELSE {"open", "pendingFinalize"})
  /\ ~closeRequested
  /\ closeRequested' = TRUE
  /\ Route(<<Announce("close")>>, cached)
  /\ UNCHANGED <<lifetime, view, told>>

\* WM_NCDESTROY that close() did not ask for.
NativeDestroyed ==
  /\ lifetime = "open"
  /\ lifetime' = "pendingFinalize"
  /\ Route(<<Announce("nativeDestroyed")>>, Dropped(cached))
  /\ UNCHANGED <<closeRequested, view, told>>

-----------------------------------------------------------------------------
(* The consumer's calls *)

Open ==
  /\ lifetime = "closed"
  /\ lifetime' = "open"
  /\ ring' = EmptyRing
  /\ closeRequested' = FALSE
  /\ cached' = InitialValues /\ view' = InitialValues
  /\ lost' = FALSE /\ told' = FALSE /\ stamp' = <<>>

PopEvent ==
  LET event == ring.slots[ring.head]
  IN  /\ lifetime # "closed"
      /\ ring.count > 0
      /\ ring' = Popped(ring)
      /\ view' = Apply(view, event)
      /\ told' = (told \/ event.data.kind = "nativeDestroyed")
      /\ stamp' = [s \in DOMAIN stamp \ {event.sequence} |-> stamp[s]]
      /\ UNCHANGED <<lifetime, closeRequested, cached, lost>>

\* The consumer discards the queue and reads the getters instead.
ClearEvents ==
  /\ lifetime # "closed"
  /\ ring' = ClearRetained(ring)
  /\ view' = cached /\ lost' = FALSE /\ stamp' = <<>>
  /\ told' = (lifetime = "pendingFinalize")
  /\ UNCHANGED <<lifetime, closeRequested, cached>>

ClearDroppedEventCount ==
  /\ lifetime # "closed"
  /\ ring.dropped > 0
  /\ ring' = [ring EXCEPT !.dropped = 0]
  /\ UNCHANGED <<lifetime, closeRequested, cached, view, lost, told, stamp>>

ClearCloseRequest ==
  /\ lifetime # "closed"
  /\ closeRequested
  /\ closeRequested' = FALSE
  /\ UNCHANGED <<ring, lifetime, cached, view, lost, told, stamp>>

\* close() that released the native window, or finalized its loss: the state is gone.
Close ==
  /\ lifetime # "closed"
  /\ lifetime' = "closed"
  /\ ring' = EmptyRing
  /\ closeRequested' = FALSE
  /\ cached' = InitialValues /\ view' = InitialValues
  /\ lost' = FALSE /\ told' = FALSE /\ stamp' = <<>>

-----------------------------------------------------------------------------

Init ==
  /\ ring = EmptyRing
  /\ lifetime = "closed"
  /\ closeRequested = FALSE
  /\ cached = InitialValues /\ view = InitialValues
  /\ lost = FALSE /\ told = FALSE /\ stamp = <<>>

Next ==
  \/ Open \/ Close \/ PopEvent \/ ClearEvents \/ ClearDroppedEventCount \/ ClearCloseRequest
  \/ \E geometry \in [GeometryKinds -> Values], notices \in TrailingNotices :
       \/ GeometryMessage(geometry, notices)
       \/ \E scale \in Scales, nested \in BOOLEAN, announced \in NestedNotices :
            DpiMessage(geometry, scale, nested, announced, notices)
  \/ \E flag \in Flags, value \in BOOLEAN : FlagMessage(flag, value)
  \/ \E source \in {"user", "program"} : RequestClose(source)
  \/ RedrawMessage \/ OwnerRemoved \/ NativeDestroyed

Spec == Init /\ [][Next]_vars

-----------------------------------------------------------------------------
(* Properties *)

KindValues(kind) ==
  CASE kind \in GeometryKinds -> Values
    [] kind = "scale" -> Scales
    [] kind \in Flags -> BOOLEAN
    [] OTHER -> {NoValue}

\* Every queued event is well formed, in slots the ring owns; a scale event always
\* describes a change, since a transition that returns to its start is removed.
TypeOK ==
  /\ ring.head \in 0..Capacity - 1
  /\ ring.count \in 0..Capacity
  /\ ring.dropped \in 0..MaxDropped
  /\ lifetime \in {"closed", "open", "pendingFinalize"}
  /\ closeRequested \in BOOLEAN
  /\ \A k \in Coalescible \cup Flags : cached[k] \in KindValues(k) /\ view[k] \in KindValues(k)
  /\ \A i \in 0..Capacity - 1 :
       LET event == ring.slots[i]
           used  == (i - ring.head + Capacity) % Capacity < ring.count
       IN  IF used THEN /\ event.sequence \in 1..ring.next - 1
                        /\ event.data.kind \in Coalescible \cup DurableKinds
                        /\ event.data.value \in KindValues(event.data.kind)
                        /\ event.data.kind = "scale" => event.data.previous \in Scales \ {event.data.value}
           ELSE event = EmptySlot

\* A consumer that applies the events in order ends at what the getters return, however
\* messages were merged: enqueueEvent loses no final value unless it counts a drop.
ReplayConverges == ~lost => Replay(view, Pending(ring)) = cached

\* A durable event is a barrier for merging (the break in the scan of enqueueEvent): the
\* events before it, and it, tell the consumer exactly the geometry and the flags at its
\* insertion and the scale announced by then, never a later value that was merged into an
\* earlier slot.  The getters may be one step ahead of it: a notice of a message nested in
\* WM_DPICHANGED comes before the ContentScaleChanged whose scale they already return.
BarrierConsistent ==
  ~lost => \A i \in 1..ring.count :
             LET event == Pending(ring)[i]
             IN  event.sequence \in DOMAIN stamp =>
                   Replay(view, SubSeq(Pending(ring), 1, i)) = stamp[event.sequence]

ScaleEvents == SelectSeq(Pending(ring), LAMBDA e : e.data.kind = "scale")

\* Queued scale transitions form one chain from the scale the consumer knows to the cached
\* one, through every merge and net-zero removal of mergeContentScaleChanged.
ScaleChain ==
  ~lost => LET start(i) == IF i = 1 THEN view["scale"] ELSE ScaleEvents[i - 1].data.value
           IN  \A i \in DOMAIN ScaleEvents : ScaleEvents[i].data.previous = start(i)

\* Native loss stays observable on a full queue and under everything that is queued after
\* it: until the consumer has seen or cleared it, NativeDestroyed is pending.
NativeLossObservable ==
  lifetime = "pendingFinalize" =>
    told \/ \E e \in Range(Pending(ring)) : e.data.kind = "nativeDestroyed"

Queue == INSTANCE EventQueueSpec WITH
  pending <- [i \in 1..ring.count |->
                [sequence |-> Pending(ring)[i].sequence,
                 durable  |-> ~IsCoalescible(Pending(ring)[i].data),
                 loss     |-> Pending(ring)[i].data.kind = "nativeDestroyed"]],
  issued <- ring.next

\* The ring implements the queue its consumers are promised: FIFO by sequence number, and
\* durable events leave only through the consumer or for NativeDestroyed.
ImplementsQueue == Queue!QueueSpec

\* What an application reconstructs from popEvent alone, whatever was merged,
\* evicted or dropped in the ring: the window as it is, its losses and its scale.
EventsAreFaithful ==
    /\ TypeOK
    /\ ReplayConverges
    /\ BarrierConsistent
    /\ NativeLossObservable
    /\ ScaleChain
=============================================================================
