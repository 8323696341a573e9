---------------------------- MODULE Transfers ----------------------------
(***************************************************************************)
(* The IO library's whole-stream transfers: readAllBytes, readAllText,     *)
(* writeAllBytes and writeAllText over any Reader and Writer, and the      *)
(* memory streams.  A transfer is one call of the library; between two of  *)
(* its calls of the stream anything may happen to the stream: the file     *)
(* under it grows or is cut, a read is short, fails with bytes in hand,    *)
(* reports the end with its last bytes or only afterwards, makes no        *)
(* progress, or (a broken reader) counts more than it was asked for.       *)
(*                                                                         *)
(* Text is a sequence of bytes "a" (ASCII), "l" and "c" (a two-byte scalar *)
(* in halves); anything else than whole scalars is not UTF-8.              *)
(***************************************************************************)
EXTENDS Integers, Sequences, FiniteSets

CONSTANTS Contents,     \* what the stream may hold, sequences of bytes
          ByteLimits,   \* maxBytes
          ScratchSizes, \* bufferSize, or the size of the scratch span
          MaxTransfers, \* bound: transfers in a behaviour
          MaxGrowth     \* bound: changes of the stream under a transfer

TransferBytes == {"a", "l", "c"}

ASSUME TransfersAssumption ==
    /\ Contents \subseteq Seq(TransferBytes)
    /\ ByteLimits \subseteq Nat /\ ScratchSizes \subseteq Nat
    /\ MaxTransfers \in Nat /\ MaxGrowth \in Nat

VARIABLES stream,    \* the reader's bytes, its position, its capabilities
          transfer,  \* the call in progress, or the result of the last one
          collected, \* the writer: what it accepted, and whether it is open
          spent      \* transfers begun and changes of the stream

transferVars == <<stream, transfer, collected, spent>>

NoTransfer == [at |-> "none"]
(***************************************************************************)
(* Unicode::Utf8::validate                                                 *)
(***************************************************************************)
WholeScalars(s) ==
    \A i \in 1 .. Len(s) :
        /\ s[i] = "l" => i < Len(s) /\ s[i + 1] = "c"
        /\ s[i] = "c" => i > 1 /\ s[i - 1] = "l"

\* validPrefixBytes
ValidPrefix(s) ==
    LET n == CHOOSE n \in 0 .. Len(s) :
                 /\ WholeScalars(SubSeq(s, 1, n))
                 /\ \A m \in n + 1 .. Len(s) : ~WholeScalars(SubSeq(s, 1, m))
    IN  SubSeq(s, 1, n)

\* the outcome: only the first half of a scalar is left, or something else
Validation(s) ==
    LET rest == SubSeq(s, Len(ValidPrefix(s)) + 1, Len(s))
    IN  IF rest = <<>> THEN "valid"
        ELSE IF rest = <<"l">> THEN "incomplete" ELSE "invalid"

(***************************************************************************)
(* What one read does.  A MemoryReader gives all it can and always says    *)
(* when the end is reached; another reader may do less.                    *)
(***************************************************************************)
Rest == SubSeq(stream.data, stream.position + 1, Len(stream.data))
AtMost(a, b) == IF a < b THEN a ELSE b

MemoryRead(n) ==
    LET count == AtMost(n, Len(Rest))
    IN  {[bytes |-> SubSeq(Rest, 1, count), end |-> count = Len(Rest), status |-> "ok", impossible |-> FALSE]}

CustomRead(n) ==
    { r \in [bytes : {SubSeq(Rest, 1, k) : k \in 0 .. AtMost(n, Len(Rest))},
             end : BOOLEAN, status : {"ok", "device"}, impossible : BOOLEAN] :
        /\ r.end => r.status = "ok" /\ r.bytes = Rest
        /\ r.impossible => ~r.end /\ r.status = "ok" /\ r.bytes = <<>> }

ReadOutcomes(n) == IF stream.memory THEN MemoryRead(n) ELSE CustomRead(n)

Consume(r) == stream' = [stream EXCEPT !.position = @ + Len(r.bytes)]

\* seek: anywhere inside, never past the end
MemorySeek ==
    /\ transfer.at \in {"none", "done"} /\ stream.memory
    /\ \E p \in 0 .. Len(stream.data) : stream' = [stream EXCEPT !.position = p]
    /\ transfer' = NoTransfer
    /\ UNCHANGED <<collected, spent>>

\* a file changes under its reader: a byte is appended, or the tail is cut
StreamChanges ==
    /\ transfer.at \notin {"none", "done"} /\ ~stream.memory /\ spent.changes < MaxGrowth
    /\ \/ \E b \in TransferBytes : stream' = [stream EXCEPT !.data = Append(@, b)]
       \/ \E n \in 0 .. Len(stream.data) : stream' = [stream EXCEPT !.data = SubSeq(@, 1, n)]
    /\ spent' = [spent EXCEPT !.changes = @ + 1]
    /\ UNCHANGED <<transfer, collected>>
(***************************************************************************)
(* finalizeReadAllText: only whole scalars are returned.  A bad byte, or a *)
(* half scalar where the input definitely ended, is an encoding failure; a *)
(* failed or limited read keeps its own status and loses the half scalar.  *)
(***************************************************************************)
Finalized(out, status) ==
    LET broken == Validation(out) = "invalid" \/ (Validation(out) = "incomplete" /\ status \in {"ok", "partial"})
    IN  [out |-> ValidPrefix(out), status |-> IF broken THEN "encoding" ELSE status]

Returned(out, status) ==
    LET r == IF transfer.text THEN Finalized(out, status) ELSE [out |-> out, status |-> status]
    IN  [transfer EXCEPT !.at = "done", !.out = r.out, !.status = r.status]

\* `seen` counts what the reader gave this call, `ended` that it said it was the end
Return(out, status, r) ==
    transfer' = [Returned(out, status) EXCEPT !.seen = @ \o r.bytes, !.ended = r.end]

NoRead == [bytes |-> <<>>, end |-> FALSE]

\* readAllBytes, readAllText: no buffer is an invalid argument
BeginReadAll ==
    /\ transfer.at \in {"none", "done"} /\ spent.transfers < MaxTransfers
    /\ \E text \in BOOLEAN, max \in ByteLimits, scratch \in ScratchSizes :
           transfer' = [kind |-> "read", text |-> text, max |-> max, scratch |-> scratch,
                        at |-> IF scratch = 0 THEN "done" ELSE "query", out |-> <<>>, promised |-> 0,
                        status |-> IF scratch = 0 THEN "invalid argument" ELSE "ok",
                        seen |-> <<>>, ended |-> FALSE, from |-> stream.position]
    /\ spent' = [transfers |-> spent.transfers + 1, changes |-> 0]
    /\ UNCHANGED <<stream, collected>>

\* readAllBytesKnownSize, readAllTextKnownSize: the result is allocated whole, or not at all
StartKnown(remaining) ==
    \/ remaining > transfer.max /\ Return(<<>>, "size limit", NoRead)
    \/ remaining = 0 /\ Return(<<>>, "ok", NoRead)
    \/ /\ remaining \in 1 .. transfer.max
       /\ \/ transfer' = [transfer EXCEPT !.at = "known", !.promised = remaining]
          \/ Return(<<>>, "memory", NoRead)

\* the unknown size: a zero limit probes at once, and the internal buffer may not be had
StartUnknown ==
    \/ transfer' = [transfer EXCEPT !.at = IF transfer.max = 0 THEN "probe" ELSE "stream"]
    \/ transfer.max > 0 /\ Return(<<>>, "memory", NoRead)

\* knownReadableByteCount: size and position decide the path
KnownReadableByteCount ==
    /\ transfer.at = "query"
    /\ \/ stream.capability = "fails" /\ Return(<<>>, "device", NoRead)
       \/ stream.capability = "none" /\ StartUnknown
       \/ /\ stream.capability = "sized" /\ stream.position > Len(stream.data)
          /\ Return(<<>>, "invalid argument", NoRead)
       \/ /\ stream.capability = "sized" /\ stream.position <= Len(stream.data)
          /\ StartKnown(Len(stream.data) - stream.position)
    /\ UNCHANGED <<stream, collected, spent>>

\* readAllBytesKnownSize, readAllTextKnownSize: one read of what is left of the promise
KnownSizeRead ==
    /\ transfer.at = "known"
    /\ \E r \in ReadOutcomes(transfer.promised - Len(transfer.out)) :
           LET out == transfer.out \o r.bytes
               short == Len(out) < transfer.promised
               fine == ~r.impossible /\ r.status = "ok"
           IN  /\ Consume(r)
               /\ \/ r.impossible /\ Return(transfer.out, "read failed", NoRead)
                  \/ ~r.impossible /\ r.status /= "ok" /\ Return(out, r.status, r)
                  \/ fine /\ ~short /\ Return(out, "ok", r)
                  \/ fine /\ short /\ r.end /\ Return(out, "partial", r)
                  \/ fine /\ short /\ ~r.end /\ r.bytes = <<>> /\ Return(out, "read failed", r)
                  \/ /\ fine /\ short /\ ~r.end /\ r.bytes /= <<>>
                     /\ transfer' = [transfer EXCEPT !.out = out, !.seen = out]
    /\ UNCHANGED <<collected, spent>>

\* appendBytes, appendTextBytes: the container takes all of a read or none of it
Appended(out, r) == {out \o r.bytes} \cup (IF r.bytes = <<>> THEN {} ELSE {out})

\* readAllBytesWithScratch, readAllTextWithScratch
ScratchRead ==
    /\ transfer.at = "stream"
    /\ \E r \in ReadOutcomes(AtMost(transfer.scratch, transfer.max - Len(transfer.out))) :
       \E out \in Appended(transfer.out, r) :
           LET appended == out = transfer.out \o r.bytes
               fine == ~r.impossible /\ appended /\ r.status = "ok"
           IN  /\ Consume(r)
               /\ \/ r.impossible /\ Return(transfer.out, "read failed", NoRead)
                  \/ ~r.impossible /\ ~appended /\ Return(transfer.out, "memory", r)
                  \/ ~r.impossible /\ appended /\ r.status /= "ok" /\ Return(out, r.status, r)
                  \/ fine /\ r.end /\ Return(out, "ok", r)
                  \/ fine /\ ~r.end /\ r.bytes = <<>> /\ Return(out, "read failed", r)
                  \/ /\ fine /\ ~r.end /\ r.bytes /= <<>>
                     /\ transfer' = [transfer EXCEPT !.out = out, !.seen = out,
                                                     !.at = IF Len(out) >= transfer.max THEN "probe" ELSE "stream"]
    /\ UNCHANGED <<collected, spent>>

ProbeStatus_OnlyStatus(r) ==    \* mutant: the probed byte is forgotten
    IF r.impossible THEN "read failed" ELSE IF r.status /= "ok" THEN r.status
    ELSE IF r.end \/ r.bytes /= <<>> THEN "ok" ELSE "read failed"

\* probeForMoreData: one more byte says whether the limit cut the input
ProbeStatus(r) ==
    IF r.impossible THEN "read failed"
    ELSE IF r.bytes /= <<>> THEN "size limit"
    ELSE IF r.status /= "ok" THEN r.status
    ELSE IF r.end THEN "ok" ELSE "read failed"
ProbeForMoreData ==
    /\ transfer.at = "probe"
    /\ \E r \in ReadOutcomes(1) : Consume(r) /\ Return(transfer.out, ProbeStatus(r), r)
    /\ UNCHANGED <<collected, spent>>
(***************************************************************************)
(* Writing.  The input may be a part of the memory writer's own bytes; the *)
(* writer then grows by a copy of that part.                               *)
(***************************************************************************)
\* writeAllText refuses text that is not UTF-8 before it writes
BeginWriteAll ==
    /\ transfer.at \in {"none", "done"} /\ spent.transfers < MaxTransfers
    /\ \E text \in BOOLEAN, own \in BOOLEAN :
       \E input \in IF own THEN {SubSeq(collected.bytes, i, Len(collected.bytes)) : i \in 1 .. Len(collected.bytes)}
                    ELSE Contents :
           LET refused == text /\ Validation(input) /= "valid"
           IN  transfer' = [kind |-> "write", text |-> text, input |-> input, left |-> input,
                            before |-> collected.bytes, written |-> 0,
                            at |-> IF refused \/ input = <<>> THEN "done" ELSE "write",
                            status |-> IF refused THEN "encoding" ELSE "ok"]
    /\ spent' = [spent EXCEPT !.transfers = @ + 1]
    /\ UNCHANGED <<stream, collected>>

\* what one write accepts: MemoryWriter all or nothing, another writer any prefix
Accepts(bytes) ==
    IF collected.memory
    THEN { w \in [bytes : {<<>>, bytes}, status : {"ok", "not open", "memory"}, impossible : {FALSE}] :
             /\ (w.status = "ok") = (w.bytes = bytes)
             /\ collected.open <=> w.status /= "not open" }
    ELSE { w \in [bytes : {SubSeq(bytes, 1, k) : k \in 0 .. Len(bytes)},
                  status : {"ok", "device"}, impossible : BOOLEAN] :
             w.impossible => w.bytes = <<>> /\ w.status = "ok" }

\* appendAliasedBytes, insert: the copied part is read from the bytes as they were
Collected(w) == [collected EXCEPT !.bytes = @ \o w.bytes]

\* writeAllBytes: one write of the suffix nobody took yet
WriteStep ==
    /\ transfer.at = "write"
    /\ \E w \in Accepts(transfer.left) :
           LET total == transfer.written + Len(w.bytes)
               left == SubSeq(transfer.left, Len(w.bytes) + 1, Len(transfer.left))
               Ends(status) == transfer' = [transfer EXCEPT !.at = "done", !.status = status, !.written = total]
           IN  /\ collected' = Collected(w)
               /\ \/ w.impossible /\ Ends("write failed")
                  \/ ~w.impossible /\ w.status /= "ok" /\ Ends(w.status)
                  \/ ~w.impossible /\ w.status = "ok" /\ w.bytes = <<>> /\ Ends("write failed")
                  \/ w.status = "ok" /\ w.bytes /= <<>> /\ left = <<>> /\ Ends("ok")
                  \/ /\ w.status = "ok" /\ w.bytes /= <<>> /\ left /= <<>>
                     /\ transfer' = [transfer EXCEPT !.left = left, !.written = total]
    /\ UNCHANGED <<stream, spent>>

\* close keeps what was collected; clear and takeBytes leave nothing of it
CloseWriter ==
    /\ transfer.at \in {"none", "done"} /\ collected.memory
    /\ collected' = [collected EXCEPT !.open = FALSE]
    /\ UNCHANGED <<stream, transfer, spent>>
TakeBytes ==
    /\ transfer.at \in {"none", "done"} /\ collected.memory /\ collected.bytes /= <<>>
    /\ collected' = [collected EXCEPT !.bytes = <<>>] /\ transfer' = NoTransfer
    /\ UNCHANGED <<stream, spent>>

TransferInit ==
    /\ \E data \in Contents, memory \in BOOLEAN, capability \in {"sized", "none", "fails"} :
           /\ memory => capability = "sized"
           /\ \E p \in {0, Len(data) + 1} :
                  /\ p > 0 => ~memory
                  /\ stream = [data |-> data, position |-> p, memory |-> memory, capability |-> capability]
    /\ \E memory \in BOOLEAN : collected = [bytes |-> <<>>, open |-> TRUE, memory |-> memory]
    /\ transfer = NoTransfer /\ spent = [transfers |-> 0, changes |-> 0]

TransferNext ==
    \/ BeginReadAll \/ KnownReadableByteCount \/ KnownSizeRead \/ ScratchRead \/ ProbeForMoreData
    \/ BeginWriteAll \/ WriteStep \/ CloseWriter \/ TakeBytes \/ MemorySeek \/ StreamChanges

(***************************************************************************)
(* What a transfer promises                                                *)
(***************************************************************************)
\* readAllBytes and readAllText account for every byte they took from the
\* reader: the result is a prefix of them, within maxBytes and whole scalars in
\* text; a success lost none of them and stopped at the reader's end or at the
\* size it promised; a failure lost at most the probe's byte and half a scalar.
ReadIsExact ==
    transfer.at = "done" /\ transfer.kind = "read" =>
        LET lost == Len(transfer.seen) - Len(transfer.out)
        IN  /\ lost >= 0 /\ transfer.out = SubSeq(transfer.seen, 1, Len(transfer.out))
            /\ stream.position = transfer.from + Len(transfer.seen)
            /\ Len(transfer.out) <= transfer.max
            /\ transfer.text => WholeScalars(transfer.out)
            /\ transfer.status = "ok" => lost = 0 /\ (transfer.ended \/ Len(transfer.out) = transfer.promised)
            /\ transfer.status \notin {"memory", "encoding"} =>
                   lost <= (IF transfer.status = "size limit" THEN 1 ELSE 0) + (IF transfer.text THEN 1 ELSE 0)
            /\ transfer.status = "encoding" => transfer.text

\* writeAllBytes and writeAllText: the writer holds exactly the reported prefix of
\* the input after what it held before, also when the input is a part of itself;
\* only a success wrote all, and text that is not UTF-8 wrote nothing.
WriteIsExact ==
    transfer.at \in {"write", "done"} /\ transfer.kind = "write" =>
        /\ collected.bytes = transfer.before \o SubSeq(transfer.input, 1, transfer.written)
        /\ transfer.at = "done" /\ transfer.status = "ok" => transfer.written = Len(transfer.input)
        /\ transfer.text /\ transfer.written > 0 => WholeScalars(transfer.input)

\* Both at once: no transfer loses, repeats or invents a byte unreported.
TransfersAreExact == ReadIsExact /\ WriteIsExact

TransferSpec == TransferInit /\ [][TransferNext]_transferVars
=============================================================================
