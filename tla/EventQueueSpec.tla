--------------------------- MODULE EventQueueSpec ---------------------------
(***************************************************************************)
(* What the event queue of a Window promises its consumer, without the     *)
(* ring, the payloads or the eviction order.  Entries are named by the     *)
(* sequence number they were inserted under.                               *)
(*                                                                         *)
(* Routing native messages may merge or evict coalescible entries and may  *)
(* append new ones, but it never reorders entries, never gives an old      *)
(* number to a new entry and never removes a durable entry.  Only the loss *)
(* of the native window may sacrifice a durable entry, and then only the   *)
(* oldest one, to keep room for the event that reports the loss.           *)
(***************************************************************************)
EXTENDS Integers, Sequences, FiniteSets, SequencesExt

CONSTANT Capacity   \* slots of the queue

VARIABLES pending,  \* entries [sequence, durable, loss], oldest first
          issued    \* the next sequence number

queueVars == <<pending, issued>>

Empty == pending = <<>> /\ issued = 1

\* The entries of s at the positions in kept, in order.
Keeping(s, kept) ==
  [i \in 1..Cardinality(kept) |->
     s[CHOOSE p \in kept : Cardinality({q \in kept : q < p}) = i - 1]]

\* pending' is what remains of pending followed by newly numbered entries.
Retains(kept) ==
  LET old == Keeping(pending, kept)
      new == SubSeq(pending', Len(old) + 1, Len(pending'))
  IN  /\ IsPrefix(old, pending')
      /\ Len(pending') <= Capacity
      /\ issued' >= issued + Len(new)
      /\ \A i \in 1..Len(new) : new[i].sequence \in issued..(issued' - 1)
      /\ \A i, j \in 1..Len(new) : i < j => new[i].sequence < new[j].sequence

Durable == {i \in DOMAIN pending : pending[i].durable}

Route == \E kept \in SUBSET (DOMAIN pending) : Durable \subseteq kept /\ Retains(kept)

NativeLoss ==
  /\ \E kept \in SUBSET (DOMAIN pending) : Durable \ {1} \subseteq kept /\ Retains(kept)
  /\ pending' # <<>> /\ Last(pending').loss

Consume == pending # <<>> /\ pending' = Tail(pending) /\ issued' = issued

Discard == pending' = <<>> /\ issued' = issued

Reset == pending' = <<>> /\ issued' = 1

QueueNext == Route \/ NativeLoss \/ Consume \/ Discard \/ Reset

QueueSpec == Empty /\ [][QueueNext]_queueVars
=============================================================================
