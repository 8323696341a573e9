------------------------------ MODULE DragDrop ------------------------------
(***************************************************************************)
(* A DragDropTarget: its event queue with three intrusive lists over one   *)
(* array of slots, the drag session OLE runs against it, and the life of   *)
(* its native registration between the Window, the dispatcher of the owner *)
(* thread and the target object. Everything runs on the owner thread; a    *)
(* foreign destructor hands the state to it. Positions, formats and        *)
(* payloads are reduced to the region (and its effects) they select.       *)
(***************************************************************************)
EXTENDS Integers, FiniteSets, Sequences

CONSTANTS Regions,        \* region identities
          DropSlots,      \* slots of the event queue
          MaxDropSequence,    \* bound: event numbers of one opening
          MaxSessions     \* bound: drag sessions of one opening

ASSUME DragDropAssumption == {DropSlots, MaxDropSequence, MaxSessions} \subseteq Nat \ {0} /\ "nowhere" \notin Regions

VARIABLES drops,     \* event storage and the links of DragDropState
          dropTarget,    \* the rest of DragDropState: who holds it, its regions, what is native
          nativeSession,    \* OLE: what is registered for the window and how often OLE is initialised
          session,   \* the drag session of the DropTarget
          dragSource,\* sourceDragActive: a drag this thread started
          readEnd    \* history: where the last event the caller took left the drag

dragVars == <<drops, dropTarget, nativeSession, session, dragSource, readEnd>>

DropSlot == 0 .. DropSlots - 1
noSlot == DropSlots
NoWhere == "nowhere"

-----------------------------------------------------------------------------
(* The queue *)

NoDrop == [seq |-> 0, kind |-> "none", id |-> 0, from |-> NoWhere, to |-> NoWhere]

EmptyDrops ==
  [storage |-> [s \in DropSlot |-> NoDrop],
   queueNext |-> [s \in DropSlot |-> noSlot], queuePrevious |-> [s \in DropSlot |-> noSlot],
   movementNext |-> [s \in DropSlot |-> noSlot], movementPrevious |-> [s \in DropSlot |-> noSlot],
   freeNext |-> [s \in DropSlot |-> s + 1], freeHead |-> 0,
   head |-> noSlot, tail |-> noSlot, mHead |-> noSlot, mTail |-> noSlot,
   count |-> 0, dropped |-> 0, nextSequence |-> 1, nextSession |-> 1]

Put(f, s, v) == IF s = noSlot THEN f ELSE [f EXCEPT ![s] = v]
Movement(q, s) == q.storage[s].kind = "Moved"

UnlinkMovement(q, s) ==
  LET previous == q.movementPrevious[s]
      next == q.movementNext[s]
  IN [q EXCEPT !.mHead = IF previous = noSlot THEN next ELSE @,
               !.mTail = IF next = noSlot THEN previous ELSE @,
               !.movementNext = [Put(@, previous, next) EXCEPT ![s] = noSlot],
               !.movementPrevious = [Put(@, next, previous) EXCEPT ![s] = noSlot]]

\* Mutation: the movement list keeps a slot that is freed.
RemoveSlot_KeepsMovement(q, s) ==
  LET previous == q.queuePrevious[s]
      next == q.queueNext[s]
  IN [q EXCEPT !.head = IF previous = noSlot THEN next ELSE @,
               !.tail = IF next = noSlot THEN previous ELSE @,
               !.queueNext = [Put(@, previous, next) EXCEPT ![s] = noSlot],
               !.queuePrevious = [Put(@, next, previous) EXCEPT ![s] = noSlot],
               !.storage[s] = NoDrop, !.freeNext[s] = q.freeHead, !.freeHead = s, !.count = @ - 1]

RemoveSlot(q, s) ==
  LET u == IF Movement(q, s) THEN UnlinkMovement(q, s) ELSE q
      previous == q.queuePrevious[s]
      next == q.queueNext[s]
  IN [u EXCEPT !.head = IF previous = noSlot THEN next ELSE @,
               !.tail = IF next = noSlot THEN previous ELSE @,
               !.queueNext = [Put(@, previous, next) EXCEPT ![s] = noSlot],
               !.queuePrevious = [Put(@, next, previous) EXCEPT ![s] = noSlot],
               !.storage[s] = NoDrop, !.freeNext[s] = q.freeHead, !.freeHead = s, !.count = @ - 1]

LinkMovement(q, s) ==
  [q EXCEPT !.movementPrevious[s] = q.mTail, !.movementNext = [Put(@, q.mTail, s) EXCEPT ![s] = noSlot],
            !.mHead = IF q.mTail = noSlot THEN s ELSE @, !.mTail = s]

AppendSlot(q, s, e) ==
  LET r == [q EXCEPT !.storage[s] = e, !.queuePrevious[s] = q.tail, !.queueNext = [Put(@, q.tail, s) EXCEPT ![s] = noSlot],
                     !.head = IF q.tail = noSlot THEN s ELSE @, !.tail = s, !.count = @ + 1]
  IN IF e.kind = "Moved" THEN LinkMovement(r, s) ELSE r

TakeFree(q, e) ==
  AppendSlot([q EXCEPT !.freeHead = q.freeNext[q.freeHead], !.freeNext[q.freeHead] = noSlot], q.freeHead, e)

Coalesces(q, e) == e.kind = "Moved" /\ q.tail # noSlot /\ Movement(q, q.tail) /\ q.storage[q.tail].id = e.id

\* Mutation: a coalesced movement forgets where the first one started.
Enqueue_Overwrites(q, data) ==
  LET e == [data EXCEPT !.seq = q.nextSequence]
      p == [q EXCEPT !.nextSequence = @ + 1]
  IN IF Coalesces(p, e) THEN [p EXCEPT !.storage[p.tail] = e]
     ELSE IF p.count < DropSlots THEN TakeFree(p, e)
     ELSE IF e.kind # "Dropped" THEN [p EXCEPT !.dropped = @ + 1]
     ELSE TakeFree([RemoveSlot(p, IF p.mHead # noSlot THEN p.mHead ELSE p.head) EXCEPT !.dropped = @ + 1], e)

\* enqueueDragDropEvent: only a drop makes room, at the cost of the oldest movement or else the oldest event.
EnqueueDrop(q, data) ==
  LET e == [data EXCEPT !.seq = q.nextSequence]
      p == [q EXCEPT !.nextSequence = @ + 1]
  IN IF Coalesces(p, e) THEN [p EXCEPT !.storage[p.tail] = [e EXCEPT !.from = p.storage[p.tail].from]]
     ELSE IF p.count < DropSlots THEN TakeFree(p, e)
     ELSE IF e.kind # "Dropped" THEN [p EXCEPT !.dropped = @ + 1]
     ELSE TakeFree([RemoveSlot(p, IF p.mHead # noSlot THEN p.mHead ELSE p.head) EXCEPT !.dropped = @ + 1], e)

\* clearRetainedEvents: the storage, which may be the caller's, is given back.
Retired(q) == [EmptyDrops EXCEPT !.freeHead = noSlot, !.freeNext = [s \in DropSlot |-> noSlot]]

Taken(e) == IF e.kind \in {"Left", "Dropped"} THEN [id |-> 0, at |-> NoWhere] ELSE [id |-> e.id, at |-> e.to]

PopDrop ==
  /\ dropTarget.held = "object" /\ drops.count # 0
  /\ drops' = RemoveSlot(drops, drops.head)
  /\ readEnd' = Taken(drops.storage[drops.head])
  /\ UNCHANGED <<dropTarget, nativeSession, session, dragSource>>

\* clearEvents; what was cleared is not read, so the reader starts again where the newest event ends.
ClearDrops ==
  /\ dropTarget.held = "object" /\ drops.count # 0
  /\ drops' = LET clear[n \in 0 .. DropSlots] ==
                    IF n = 0 THEN drops ELSE LET q == clear[n - 1] IN IF q.head = noSlot THEN q ELSE RemoveSlot(q, q.head)
              IN clear[DropSlots]
  /\ readEnd' = Taken(drops.storage[drops.tail])
  /\ UNCHANGED <<dropTarget, nativeSession, session, dragSource>>

ClearDroppedCount ==
  /\ dropTarget.held = "object" /\ drops.dropped # 0 /\ drops.count = 0 /\ session.id = 0
  /\ drops' = [drops EXCEPT !.dropped = 0]
  /\ UNCHANGED <<dropTarget, nativeSession, session, dragSource, readEnd>>

-----------------------------------------------------------------------------
(* The drag session *)

NoSession == [id |-> 0, region |-> NoWhere, source |-> {}]

\* negotiateDragDropEffect: a single common effect, else the preferred one, else Copy before Move before Link.
Negotiated(sourceEffects, policy) ==
  LET common == sourceEffects \cap policy.allowed
  IN IF common = {} THEN "None"
     ELSE IF Cardinality(common) > 1 /\ policy.preferred \in common THEN policy.preferred
     ELSE IF "Copy" \in common THEN "Copy"
     ELSE IF "Move" \in common THEN "Move" ELSE "Link"

\* regionAt: the last region in the list that contains the point and knows an offered format.
RegionAt(hit) == IF \E i \in DOMAIN dropTarget.regions : dropTarget.regions[i] \in hit
                 THEN dropTarget.regions[CHOOSE i \in DOMAIN dropTarget.regions :
                        dropTarget.regions[i] \in hit /\ \A j \in DOMAIN dropTarget.regions : dropTarget.regions[j] \in hit => j <= i]
                 ELSE NoWhere

DropEvent(kind, id, from, to) == [seq |-> 0, kind |-> kind, id |-> id, from |-> from, to |-> to]

\* The OLE callbacks reach the state through the DropTarget while that is attached.
Reached == nativeSession.registered = "target" /\ dropTarget.attached /\ drops.nextSequence <= MaxDropSequence

\* DragEnter: formats that cannot be listed leave no session.
DragEnter(hit, effects) ==
  /\ Reached /\ session.id = 0 /\ drops.nextSession <= MaxSessions
  /\ \/ session' = NoSession /\ UNCHANGED drops
     \/ /\ session' = [id |-> drops.nextSession, region |-> RegionAt(hit), source |-> effects]
        /\ drops' = EnqueueDrop([drops EXCEPT !.nextSession = @ + 1], DropEvent("Entered", drops.nextSession, NoWhere, RegionAt(hit)))
  /\ UNCHANGED <<dropTarget, nativeSession, dragSource, readEnd>>

DragOver(hit) ==
  /\ Reached /\ session.id # 0
  /\ drops' = EnqueueDrop(drops, DropEvent("Moved", session.id, session.region, RegionAt(hit)))
  /\ session' = [session EXCEPT !.region = RegionAt(hit)]
  /\ UNCHANGED <<dropTarget, nativeSession, dragSource, readEnd>>

DragLeave ==
  /\ Reached /\ session.id # 0
  /\ drops' = EnqueueDrop(drops, DropEvent("Left", session.id, session.region, NoWhere))
  /\ session' = NoSession
  /\ UNCHANGED <<dropTarget, nativeSession, dragSource, readEnd>>

\* Drop: a refused effect or a payload that cannot be read ends the session without an event.
Drop(hit, policy) ==
  /\ Reached /\ session.id # 0
  /\ \/ /\ RegionAt(hit) # NoWhere /\ Negotiated(session.source, policy) # "None"
        /\ drops' = EnqueueDrop(drops, DropEvent("Dropped", session.id, session.region, RegionAt(hit)))
     \/ UNCHANGED drops
  /\ session' = NoSession
  /\ UNCHANGED <<dropTarget, nativeSession, dragSource, readEnd>>

-----------------------------------------------------------------------------
(* The life of the target *)

NoDropTarget == [held |-> "nobody", regions |-> <<>>, platform |-> FALSE, attached |-> FALSE, listed |-> FALSE, ended |-> FALSE]

\* copyRegions: the identities are distinct (formats, effects and rectangles are checked likewise).
RegionsAccepted(list) == list # <<>> /\ \A i, j \in DOMAIN list : list[i] = list[j] => i = j

Registers(list) ==
  /\ dropTarget' = [NoDropTarget EXCEPT !.held = "object", !.regions = list, !.platform = TRUE, !.attached = TRUE, !.listed = TRUE]
  /\ nativeSession' = [nativeSession EXCEPT !.registered = "target", !.ole = @ + 1]
  /\ drops' = EmptyDrops
  /\ readEnd' = [id |-> 0, at |-> NoWhere]

\* open: the list entry, OLE and the registration are undone one by one when a later one fails; a window that takes
\* file drops is busy.
OpenTarget(list) ==
  /\ dropTarget.held = "nobody" /\ nativeSession.window = "alive" /\ ~nativeSession.fileDrop /\ RegionsAccepted(list)
  /\ \/ nativeSession.registered = "none" /\ Registers(list)
     \/ UNCHANGED <<dropTarget, nativeSession, drops, readEnd>>
  /\ session' = NoSession
  /\ UNCHANGED dragSource

SetRegions(list) ==
  /\ dropTarget.held = "object" /\ dropTarget.platform /\ nativeSession.registered = "target" /\ nativeSession.window # "gone"
  /\ RegionsAccepted(list)
  /\ dropTarget' = [dropTarget EXCEPT !.regions = list]
  /\ UNCHANGED <<drops, nativeSession, session, dragSource, readEnd>>

\* closeDragDropTarget, once RevokeDragDrop succeeded or had nothing to revoke.
Unregistered(t) == [t EXCEPT !.platform = FALSE, !.attached = FALSE, !.listed = FALSE]

\* Mutation: OLE stays initialised.
Released_KeepsOle(n) == [n EXCEPT !.registered = "none"]
DropReleased(n) == [n EXCEPT !.registered = "none", !.ole = @ - 1]

\* deferDragDropCleanupToOwner.
Deferred(t) == [t EXCEPT !.held = "deferred"]

\* close and the owner's destructor: without native resources there is nothing left to do; a failed
\* revocation keeps everything, and the destructor then defers to the dispatcher.
CloseTarget(destroy) ==
  /\ dropTarget.held = "object"
  /\ \/ /\ ~dropTarget.platform
        /\ dropTarget' = NoDropTarget /\ drops' = Retired(drops)
        /\ UNCHANGED <<nativeSession, session>>
     \/ /\ dropTarget.platform
        /\ dropTarget' = NoDropTarget /\ drops' = Retired(drops)
        /\ nativeSession' = DropReleased(nativeSession) /\ session' = NoSession
     \/ /\ dropTarget.platform
        /\ dropTarget' = IF destroy THEN Deferred(dropTarget) ELSE dropTarget
        /\ UNCHANGED <<drops, nativeSession, session>>
  /\ UNCHANGED <<dragSource, readEnd>>

\* A foreign thread's destructor: the state goes to the owner's deferred list.
DeferFromForeignThread ==
  /\ dropTarget.held = "object" /\ nativeSession.window # "exited"
  /\ dropTarget' = Deferred(dropTarget)
  /\ UNCHANGED <<drops, nativeSession, session, dragSource, readEnd>>

\* drainDeferredCleanup: a revocation that fails again puts the state back.
DrainDeferred ==
  /\ dropTarget.held = "deferred"
  /\ \/ /\ dropTarget.platform
        /\ nativeSession' = DropReleased(nativeSession) /\ session' = NoSession
     \/ ~dropTarget.platform /\ UNCHANGED <<nativeSession, session>>
  /\ dropTarget' = NoDropTarget /\ drops' = Retired(drops)
  /\ UNCHANGED <<dragSource, readEnd>>

\* targetForWindow: a target that outlived its Window carries the number of that one, not of its successor.
TargetOfWindow == dropTarget.listed /\ ~dropTarget.ended

\* windowClosingDragDrop before DestroyWindow: a refusal keeps the Window.
CloseWindow ==
  /\ nativeSession.window = "alive"
  /\ \/ /\ TargetOfWindow
        /\ dropTarget' = [Unregistered(dropTarget) EXCEPT !.ended = TRUE]
        /\ nativeSession' = [DropReleased(nativeSession) EXCEPT !.window = "closing"]
        /\ session' = NoSession
     \/ /\ ~TargetOfWindow
        /\ nativeSession' = [nativeSession EXCEPT !.window = "closing"]
        /\ UNCHANGED <<dropTarget, session>>
  /\ UNCHANGED <<drops, dragSource, readEnd>>

\* WM_NCDESTROY, announced or not: windowClosingDragDrop with nativeDestroyed. A revocation that fails keeps the
\* native record, its OLE reference and the list entry, although the Window that could call the target is gone.
WindowDestroyed ==
  /\ nativeSession.window \in {"alive", "closing"}
  /\ \/ /\ TargetOfWindow
        /\ dropTarget' = [Unregistered(dropTarget) EXCEPT !.ended = TRUE]
        /\ nativeSession' = [DropReleased(nativeSession) EXCEPT !.window = "gone"]
        /\ session' = NoSession
     \/ /\ TargetOfWindow
        /\ dropTarget' = [dropTarget EXCEPT !.ended = TRUE]
        /\ nativeSession' = [nativeSession EXCEPT !.registered = "none", !.window = "gone"]
        /\ UNCHANGED session
     \/ /\ ~TargetOfWindow
        /\ nativeSession' = [nativeSession EXCEPT !.window = "gone"]
        /\ UNCHANGED <<dropTarget, session>>
  /\ UNCHANGED <<drops, dragSource, readEnd>>

\* ~Dispatcher: deferred and listed targets are closed, or cut off when the revocation keeps failing; the object that
\* outlives the thread only has its portable state left.
ThreadExits ==
  /\ nativeSession.window # "exited" /\ ~dragSource
  /\ dropTarget' = IF dropTarget.held = "deferred" THEN NoDropTarget ELSE [Unregistered(dropTarget) EXCEPT !.ended = @ \/ dropTarget.listed]
  /\ drops' = IF dropTarget.held = "deferred" THEN Retired(drops) ELSE drops
  /\ nativeSession' = [nativeSession EXCEPT !.registered = "none", !.ole = 0, !.window = "exited"]
  /\ session' = NoSession
  /\ UNCHANGED <<dragSource, readEnd>>

ReopenWindow ==
  /\ nativeSession.window = "gone"
  /\ \E files \in BOOLEAN : nativeSession' = [nativeSession EXCEPT !.window = "alive", !.fileDrop = files]
  /\ UNCHANGED <<drops, dropTarget, session, dragSource, readEnd>>

\* beginDrag: OLE is leased for the drag, and a second drag of the thread is refused.
BeginDrag ==
  /\ nativeSession.window = "alive" /\ ~dragSource
  /\ dragSource' = TRUE
  /\ nativeSession' = [nativeSession EXCEPT !.ole = @ + 1]
  /\ UNCHANGED <<drops, dropTarget, session, readEnd>>

EndDrag ==
  /\ dragSource
  /\ dragSource' = FALSE
  /\ nativeSession' = [nativeSession EXCEPT !.ole = @ - 1]
  /\ UNCHANGED <<drops, dropTarget, session, readEnd>>

DragInit ==
  /\ drops = Retired(EmptyDrops) /\ dropTarget = NoDropTarget /\ session = NoSession /\ dragSource = FALSE
  /\ nativeSession = [window |-> "alive", registered |-> "none", ole |-> 0, fileDrop |-> FALSE]
  /\ readEnd = [id |-> 0, at |-> NoWhere]

Orders == {<<r>> : r \in Regions} \cup {<<r, s>> : r, s \in Regions}

DragNext ==
  \/ PopDrop \/ ClearDrops \/ ClearDroppedCount \/ DragLeave
  \/ DeferFromForeignThread \/ DrainDeferred \/ CloseWindow \/ WindowDestroyed \/ ThreadExits \/ ReopenWindow \/ BeginDrag \/ EndDrag
  \/ \E destroy \in BOOLEAN : CloseTarget(destroy)
  \/ \E list \in Orders : OpenTarget(list) \/ SetRegions(list)
  \/ \E hit \in SUBSET Regions :
       \/ DragOver(hit)
       \/ \E effects \in {{"Copy"}, {"Move", "Link"}} : DragEnter(hit, effects)
       \/ \E preferred \in {"Copy", "Link"} : Drop(hit, [allowed |-> {"Copy", "Link"}, preferred |-> preferred])

DragSpec == DragInit /\ [][DragNext]_dragVars

-----------------------------------------------------------------------------
(* Properties *)

\* The slots met when a list is followed from its head.
Walk(links, first) ==
  LET at[n \in 0 .. DropSlots] == IF n = 0 THEN first ELSE IF at[n - 1] = noSlot THEN noSlot ELSE links[at[n - 1]]
      length == CHOOSE n \in 0 .. DropSlots : at[n] = noSlot /\ \A m \in 0 .. n - 1 : at[m] # noSlot
  IN [i \in 1 .. length |-> at[i - 1]]

Ends(links, first) ==
  \E n \in 0 .. DropSlots : LET at[m \in 0 .. n] == IF m = 0 THEN first ELSE IF at[m - 1] = noSlot THEN noSlot ELSE links[at[m - 1]]
                            IN at[n] = noSlot

\* The three lists that share the slots agree through coalescing, eviction from the middle and reuse: the queue is in
\* order of the event numbers, its links are mirrored, the movement list is the queue's movements in the same order,
\* and every other slot is free exactly once (drag_drop.cpp, lines 42-136 and 210-250).
ListsAgree ==
  dropTarget.held # "nobody" =>
    /\ Ends(drops.queueNext, drops.head) /\ Ends(drops.movementNext, drops.mHead) /\ Ends(drops.freeNext, drops.freeHead)
    /\ LET order == Walk(drops.queueNext, drops.head)
           moves == Walk(drops.movementNext, drops.mHead)
           free == Walk(drops.freeNext, drops.freeHead)
           used == {order[i] : i \in DOMAIN order}
       IN /\ Len(order) = drops.count /\ drops.tail = (IF order = <<>> THEN noSlot ELSE order[Len(order)])
          /\ \A i \in 1 .. Len(order) - 1 :
               /\ drops.storage[order[i]].seq < drops.storage[order[i + 1]].seq
               /\ drops.queuePrevious[order[i + 1]] = order[i]
          /\ moves = SelectSeq(order, LAMBDA s : drops.storage[s].kind = "Moved")
          /\ {free[i] : i \in DOMAIN free} = DropSlot \ used /\ Len(free) = DropSlots - drops.count

\* While nothing was dropped, what the caller reads of a drag is one unbroken way: every movement starts in the region
\* the event before it ended in, however many movements were folded into it and whatever regions were set meanwhile
\* (drag_drop.cpp, lines 218-232; win32_drag_drop.cpp, lines 362-377).
DragIsContinuous ==
  (dropTarget.held # "nobody" /\ drops.dropped = 0) =>
    LET order == Walk(drops.queueNext, drops.head)
        Before(i) == IF i = 1 THEN readEnd ELSE Taken(drops.storage[order[i - 1]])
    IN \A i \in DOMAIN order :
         drops.storage[order[i]].kind = "Moved" =>
           /\ Before(i).id = drops.storage[order[i]].id
           /\ Before(i).at = drops.storage[order[i]].from

\* OLE is initialised once for every native record and every drag of the thread, through revocations that fail and
\* are tried again; what is registered for the living Window leads to a state that still exists; and what a failed
\* revocation keeps beyond its Window belongs to a target that knows of the loss and stays listed, so that the
\* thread leaves nothing behind when it exits (win32_drag_drop.cpp, lines 996-1147 and 1186-1203).
NativeBalanced ==
  /\ nativeSession.ole = (IF dropTarget.platform THEN 1 ELSE 0) + (IF dragSource THEN 1 ELSE 0)
  /\ nativeSession.registered = "target" <=> dropTarget.platform /\ dropTarget.attached /\ ~dropTarget.ended
  /\ dropTarget.platform => /\ dropTarget.held # "nobody" /\ dropTarget.listed
                           /\ (nativeSession.window = "alive" \/ dropTarget.ended)
  /\ nativeSession.window = "exited" => ~dropTarget.platform /\ nativeSession.ole = 0
  /\ session.id # 0 => dropTarget.attached

\* A drop target's queue and its native side: the slot lists agree, one pointer's
\* session is a continuous walk over the regions, and OLE is initialised as often
\* as it is left.
DragIsSound == ListsAgree /\ DragIsContinuous /\ NativeBalanced
=============================================================================
