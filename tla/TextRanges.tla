----------------------------- MODULE TextRanges -----------------------------
(***************************************************************************)
(* The text ranges of an accessible Window: a fixed pool of range objects  *)
(* that client threads lease, share, move over the text by units and give  *)
(* back, while newer snapshots make the ranges of older ones unavailable.  *)
(*                                                                         *)
(* The bounds of a range are one 64-bit atomic that every mover replaces   *)
(* by compare-and-exchange.                                                *)
(***************************************************************************)
EXTENDS Integers, Sequences, FiniteSets, SequencesExt

CONSTANTS TextClients,     \* client threads
          Slots,           \* UiaState::ranges: limits.maximumNativeTextRanges objects
          Units,           \* TextUnit: character, word, line, format or document
          Texts,           \* text of each generation: unit -> its offsets, ascending from 0
          Counts,          \* how far a client moves
          MaxExchanges     \* attempts of one compare-and-exchange loop (eight in the code)

\* indexText and unitIndex: the document is its two ends; every unit begins at a character.
ASSUME TextAssumption ==
  /\ IsFiniteSet(TextClients) /\ {"character", "document"} \subseteq Units
  /\ MaxExchanges \in Nat \ {0} /\ Counts \subseteq Int \ {0}
  /\ Texts \in Seq([Units -> Seq(Nat)]) /\ Len(Texts) > 0
  /\ \A g \in DOMAIN Texts, u \in Units :
       /\ Len(Texts[g][u]) > 0 /\ Texts[g][u][1] = 0
       /\ ToSet(Texts[g][u]) \subseteq ToSet(Texts[g]["character"])
       /\ Last(Texts[g][u]) = Last(Texts[g]["character"])
       /\ \A i, j \in DOMAIN Texts[g][u] : i <= j => Texts[g][u][i] <= Texts[g][u][j]

VARIABLES textGeneration,   \* of the published snapshot; 0 once the runtime is closed
          slot,         \* TextRangeProvider: [available, references, generation, bounds]
          holds,        \* references of each client: slot -> how many
          task,         \* what each client is in the middle of
          given         \* history: the bounds the holders of a range were promised

textVars == <<textGeneration, slot, holds, task, given>>

NoTask == [pc |-> "idle"]
Nowhere == [begin |-> 0, end |-> 0]
FreeSlot == [available |-> TRUE, references |-> 0, generation |-> 0, bounds |-> Nowhere]

Larger(a, b) == IF a > b THEN a ELSE b
Smaller(a, b) == IF a < b THEN a ELSE b
Clamp(v, low, high) == Larger(low, Smaller(v, high))

-----------------------------------------------------------------------------
(* Moving over the text *)

\* unitAt: the unit that holds an offset, the last one for the end.
UnitAt(units, offset) == CHOOSE i \in DOMAIN units :
  units[i] <= offset /\ \A j \in DOMAIN units : units[j] <= offset => j <= i

\* std::ranges::lower_bound
LowerBound(units, offset) == Cardinality({i \in DOMAIN units : units[i] < offset}) + 1

\* ExpandToEnclosingUnit
Expanded(units, range) ==
  LET start == Smaller(UnitAt(units, range.begin), Larger(Len(units) - 1, 1))
  IN  [begin |-> units[start], end |-> units[IF Len(units) > 1 THEN start + 1 ELSE start]]

\* Move: a degenerate range may stand at the end of the text, any other starts a unit.
Moved(units, range, count) ==
  LET degenerate == range.begin = range.end
      last == IF Len(units) > 1 THEN Len(units) - (IF degenerate THEN 0 ELSE 1) ELSE 1
      index == Clamp(Smaller(UnitAt(units, range.begin), last) + count, 1, last)
  IN  [begin |-> units[index], end |-> IF degenerate THEN units[index] ELSE units[Smaller(index + 1, Len(units))]]

\* Mutation: the other endpoint stays behind.
WithEndpoint_Crossing(range, endpoint, offset) == [range EXCEPT ![endpoint] = offset]

\* One endpoint is set and takes the other along when it passes it.
WithEndpoint(range, endpoint, offset) ==
  IF endpoint = "begin" THEN [begin |-> offset, end |-> Larger(offset, range.end)]
                        ELSE [begin |-> Smaller(range.begin, offset), end |-> offset]

\* MoveEndpointByUnit
EndpointMoved(units, range, endpoint, count) ==
  LET offset == range[endpoint]
      found == LowerBound(units, offset)
      initial == IF count > 0 /\ found <= Len(units) /\ units[found] # offset THEN found - 1 ELSE found
  IN  WithEndpoint(range, endpoint, units[Clamp(initial + count, 1, Len(units))])

\* What an operation makes of the bounds it loaded.
NextBounds(edit, range) ==
  CASE edit.op = "expand" -> Expanded(edit.units, range)
    [] edit.op = "move" -> Moved(edit.units, range, edit.count)
    [] edit.op = "endpoint" -> EndpointMoved(edit.units, range, edit.endpoint, edit.count)
    [] edit.op = "byRange" -> WithEndpoint(range, edit.endpoint, edit.offset)

-----------------------------------------------------------------------------
(* The pool *)

\* textQuery and TextRangeProvider::query: the tree is live and still the one of the range.
Current(s) == slot[s].generation = textGeneration
Held(c, s) == holds[c][s] > 0

\* UiaState::range, for a document range, a selection, a search hit, a point or a clone: a free object
\* is claimed by its flag and then filled.  Which one is free first depends on the other threads.
Lease(c) ==
  /\ task[c].pc = "idle" /\ textGeneration # 0
  /\ \E s \in Slots, b, e \in ToSet(Texts[textGeneration]["character"]) :
       /\ slot[s].available /\ b <= e
       /\ slot' = [slot EXCEPT ![s] = [available |-> FALSE, references |-> 1, generation |-> textGeneration,
                                       bounds |-> [begin |-> b, end |-> e]]]
       /\ given' = [given EXCEPT ![s] = [begin |-> b, end |-> e]]
       /\ holds' = [holds EXCEPT ![c][s] = 1]
  /\ UNCHANGED <<textGeneration, task>>

\* AddRef: a range is handed to another thread.
Share(c) ==
  /\ task[c].pc = "idle"
  /\ \E s \in Slots, d \in TextClients \ {c} :
       /\ Held(c, s) /\ ~Held(d, s)
       /\ slot' = [slot EXCEPT ![s].references = @ + 1]
       /\ holds' = [holds EXCEPT ![d][s] = 1]
  /\ UNCHANGED <<textGeneration, task, given>>

\* Release: the last reference starts the return of the object.
Release(c) ==
  /\ task[c].pc = "idle"
  /\ \E s \in Slots :
       /\ Held(c, s)
       /\ holds' = [holds EXCEPT ![c][s] = 0]
       /\ slot' = [slot EXCEPT ![s].references = @ - 1]
       /\ task' = [task EXCEPT ![c] = IF slot[s].references = 1 THEN [pc |-> "resetting", s |-> s] ELSE NoTask]
  /\ UNCHANGED <<textGeneration, given>>

\* Release: what the object refers to is dropped and its bounds are cleared ...
Reset(c) ==
  /\ task[c].pc = "resetting"
  /\ slot' = [slot EXCEPT ![task[c].s] = [@ EXCEPT !.generation = 0, !.bounds = Nowhere]]
  /\ task' = [task EXCEPT ![c] = [pc |-> "freeing", s |-> task[c].s]]
  /\ UNCHANGED <<textGeneration, holds, given>>

\* ... and only then is it available.
Free(c) ==
  /\ task[c].pc = "freeing"
  /\ slot' = [slot EXCEPT ![task[c].s].available = TRUE]
  /\ task' = [task EXCEPT ![c] = NoTask]
  /\ UNCHANGED <<textGeneration, holds, given>>

-----------------------------------------------------------------------------
(* Operations on a range *)

\* The query, and the load of the bounds.
BeginEdit(c) ==
  /\ task[c].pc = "idle"
  /\ \E s \in Slots :
       /\ Held(c, s) /\ Current(s)
       /\ \E edit \in
            LET text == Texts[textGeneration]
                units == {text[u] : u \in Units}
                peers == {t \in Slots : Held(c, t) /\ Current(t)}
                ends == {"begin", "end"}
            IN  [op : {"expand"}, units : units, count : {0}, endpoint : {"begin"}, offset : {0}]
                  \cup [op : {"move"}, units : units, count : Counts, endpoint : {"begin"}, offset : {0}]
                  \cup [op : {"endpoint"}, units : units, count : Counts, endpoint : ends, offset : {0}]
                  \cup [op : {"byRange"}, units : {text["document"]}, count : {0}, endpoint : ends,
                        offset : UNION {{slot[t].bounds.begin, slot[t].bounds.end} : t \in peers}] :
            task' = [task EXCEPT ![c] =
              [pc |-> "exchanging", s |-> s, edit |-> edit, old |-> slot[s].bounds, attempt |-> 1]]
  /\ UNCHANGED <<textGeneration, slot, holds, given>>

\* Mutation: the new bounds are stored without comparing.
MayExchange_Always(t) == TRUE

MayExchange(t) == slot[t.s].bounds = t.old

\* compare_exchange_weak: it fails when the bounds changed and may fail for no reason.
Exchange(c) ==
  /\ task[c].pc = "exchanging"
  /\ LET t == task[c]
         next == NextBounds(t.edit, t.old)
     IN  \/ /\ MayExchange(t)
            /\ slot' = [slot EXCEPT ![t.s].bounds = next]
            /\ given' = [given EXCEPT ![t.s] = NextBounds(t.edit, @)]
            /\ task' = [task EXCEPT ![c] = NoTask]
         \/ /\ task' = [task EXCEPT ![c] = IF t.attempt = MaxExchanges THEN NoTask
                                           ELSE [pc |-> "exchanging", s |-> t.s, edit |-> t.edit,
                                                 old |-> slot[t.s].bounds, attempt |-> t.attempt + 1]]
            /\ UNCHANGED <<slot, given>>
  /\ UNCHANGED <<textGeneration, holds>>

\* A newer snapshot, or the end of the runtime.
Republish ==
  /\ textGeneration \in DOMAIN Texts
  /\ textGeneration' = IF textGeneration < Len(Texts) THEN textGeneration + 1 ELSE 0
  /\ UNCHANGED <<slot, holds, task, given>>

TextInit ==
  /\ textGeneration = 1
  /\ slot = [s \in Slots |-> FreeSlot]
  /\ holds = [c \in TextClients |-> [s \in Slots |-> 0]]
  /\ task = [c \in TextClients |-> NoTask]
  /\ given = [s \in Slots |-> Nowhere]

TextNext ==
  \/ Republish
  \/ \E c \in TextClients :
       Lease(c) \/ Share(c) \/ Release(c) \/ Reset(c) \/ Free(c) \/ BeginEdit(c) \/ Exchange(c)

TextSpec == TextInit /\ [][TextNext]_textVars

-----------------------------------------------------------------------------
(* Properties *)

Leased(s) == \E c \in TextClients : Held(c, s)

\* A leased range keeps the bounds its holders gave it: every move of every thread is applied once, in
\* some order, and the return of the object's former lease never clears them (Release, lines 735-749).
MovesAreNotLost == \A s \in Slots : Leased(s) => slot[s].bounds = given[s]

\* Whatever units, directions and peers are mixed, a range starts no later than it ends, and both ends are
\* character boundaries of its own text, so that a selection made of it is valid.
RangesWellFormed ==
  \A s \in Slots : Leased(s) =>
    /\ slot[s].bounds.begin <= slot[s].bounds.end
    /\ {slot[s].bounds.begin, slot[s].bounds.end} \subseteq ToSet(Texts[slot[s].generation]["character"])

\* Text ranges under several UI Automation threads: a move that reported success
\* is not overwritten by another thread's, and every range stays inside its text.
RangesAreShared == MovesAreNotLost /\ RangesWellFormed
=============================================================================
