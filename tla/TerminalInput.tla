---------------------------- MODULE TerminalInput ----------------------------
(***************************************************************************)
(* The Win32 input backend: byte, text and line reads of a redirected      *)
(* stdin, the console records a console stdin is read through and the key  *)
(* decoder that turns them into events and bytes, and the buffered state   *)
(* (pending bytes, unread records, decoder) that outlives a read and must  *)
(* not outlive the endpoint it came from.                                  *)
(*                                                                         *)
(* A byte of the stream is "a" (ASCII), "h" and "l" (lead and trail of a   *)
(* two-byte scalar), "r" and "n" (CR and LF) or "x" (never valid).  Bytes  *)
(* carry the endpoint they came from and their number in its stream.       *)
(***************************************************************************)
EXTENDS Integers, Sequences, FiniteSets, SequencesExt

CONSTANTS StreamBytes,    \* bytes a redirected endpoint can carry
          Records,        \* console records the endpoint can carry
          Limits,         \* maxReturnedBytes and buffer sizes of the reads
          BatchSize,      \* kNativeRecordBatchSize
          MaxSent,        \* bound: bytes and records all endpoints carry
          MaxEndpoints    \* bound: endpoints stdin is attached to

ASSUME TerminalInputAssumption ==
  /\ StreamBytes \subseteq {"a", "h", "l", "r", "n", "x"}
  /\ Limits \subseteq Nat \ {0}
  /\ BatchSize \in Nat \ {0} /\ MaxSent \in Nat /\ MaxEndpoints \in Nat \ {0}

VARIABLES endpoint,   \* the stdin endpoint: number, kind, what it carries, how much it and earlier ones did
          identity,   \* endpointIdentity: the endpoint confirmed last (0: Unknown)
          pending,    \* pendingBytes
          batch,      \* nativeRecords not yet decoded
          decoder,    \* DecoderState: keys down, high surrogate, pendingEvent
          call,       \* the read under way
          result,     \* what the last read returned
          returned,   \* history: bytes of the endpoint's stream the callers have had
          pressed     \* history: keys whose last delivered event left them down, and whether a
                      \* repeat was ever delivered for a key that was not

inputBackendVars == <<endpoint, identity, pending, batch, decoder, call, result, returned, pressed>>

NoCall == [op |-> "none", max |-> 1, partial |-> TRUE, got |-> <<>>]
NoDecoder == [down |-> {}, high |-> FALSE, event |-> 0, key |-> "none"]
NoResult == [op |-> "none", bytes |-> <<>>, max |-> 1, ending |-> "none", truncated |-> FALSE,
             outcome |-> "completed", from |-> 0]

Values(bytes) == [i \in DOMAIN bytes |-> bytes[i].v]

-----------------------------------------------------------------------------
(* utf8Prefix, findLineEnding and the line rules                           *)

\* utf8Prefix: whole scalars from the front, and why the scan stopped
PrefixStep(p, i, s, max) ==
  IF p.stop # "end" \/ i <= p.bytes THEN p
  ELSE LET size == IF s[i] = "h" THEN 2 ELSE 1
       IN  CASE s[i] \in {"x", "l"} -> [p EXCEPT !.stop = "invalid"]
             [] s[i] = "h" /\ i = Len(s) -> [p EXCEPT !.stop = "incomplete"]
             [] s[i] = "h" /\ i < Len(s) /\ s[i + 1] # "l" -> [p EXCEPT !.stop = "invalid"]
             [] p.bytes + size > max -> [p EXCEPT !.stop = "max"]
             [] OTHER -> [p EXCEPT !.bytes = @ + size]
Utf8Prefix(s, max) ==
  FoldLeft(LAMBDA p, i : PrefixStep(p, i, s, max), [bytes |-> 0, stop |-> "end"], [i \in DOMAIN s |-> i])
ValidUtf8(s) == Utf8Prefix(s, Len(s)).stop = "end"

\* findLineEnding: a CR that ends the buffer counts only when nothing more will come.
LineEnding(s, trailingCr) ==
  LET ends == {i \in DOMAIN s : s[i] = "n" \/ (s[i] = "r" /\ (i < Len(s) \/ trailingCr))}
      i == Min(ends)
  IN  IF ends = {} THEN [at |-> 0, length |-> 0, kind |-> "none"]
      ELSE CASE s[i] = "n" -> [at |-> i, length |-> 1, kind |-> "lf"]
             [] s[i] = "r" /\ i < Len(s) /\ s[i + 1] = "n" -> [at |-> i, length |-> 2, kind |-> "crlf"]
             [] OTHER -> [at |-> i, length |-> 1, kind |-> "cr"]

\* How a read ends: what it returns, and how many pending bytes it used up.
Outcome(bytes, used, truncated, outcome, ending) ==
  [bytes |-> bytes, used |-> used, truncated |-> truncated, outcome |-> outcome, ending |-> ending]
Failure(outcome) == Outcome(<<>>, 0, FALSE, outcome, "none")

\* Mutant: the cut is made at the limit, wherever that falls.
TruncatedPrefix_AtLimit(s, max) ==
  LET n == Min({max, Len(s)})
  IN  Outcome(SubSeq(s, 1, n), n, TRUE, "completed", "none")

\* copyTruncatedUtf8Prefix
TruncatedPrefix(s, max) ==
  LET p == Utf8Prefix(Values(s), max)
  IN  CASE p.stop = "invalid" -> Failure("encoding failed")
        [] p.bytes = 0 /\ p.stop = "max" -> Failure("limit exceeded")
        [] OTHER -> Outcome(SubSeq(s, 1, p.bytes), p.bytes, TRUE, "completed", "none")

\* Mutant: one byte of the ending is consumed, whichever ending it is.
CompleteLine_OneByte(s, e, kept, max) ==
  LET body == SubSeq(s, 1, e.at - 1)
  IN  CASE e.at - 1 > max -> TruncatedPrefix(s, max)
        [] e.at - 1 <= max /\ ~ValidUtf8(Values(body)) -> Failure("encoding failed")
        [] OTHER -> Outcome(body, e.at, kept > max - (e.at - 1), "completed", e.kind)

\* completeLineFromPending: the body without its ending, which is consumed with it.  How many bytes of
\* an ending the mode returns (Strip, NormalizeToLf, Keep) matters only for the limit.
CompleteLine(s, e, kept, max) ==
  LET body == SubSeq(s, 1, e.at - 1)
  IN  CASE e.at - 1 > max -> TruncatedPrefix(s, max)
        [] e.at - 1 <= max /\ ~ValidUtf8(Values(body)) -> Failure("encoding failed")
        [] OTHER -> Outcome(body, e.at - 1 + e.length, kept > max - (e.at - 1), "completed", e.kind)

-----------------------------------------------------------------------------
(* The key decoder                                                         *)

\* A record is a key ([k, down, unit, repeat]), "size" or "blur".  VK_PACKET is key "packet",
\* which is never tracked.
Tracked(r) == r.k # "packet"

\* Mutant: the repeats of the first record are dropped.
Made_DropsRepeats(d, r) ==
  LET was == Tracked(r) /\ r.k \in d.down
  IN  [decoder |-> [d EXCEPT !.down = IF ~Tracked(r) THEN @ ELSE IF r.down THEN @ \cup {r.k} ELSE @ \ {r.k},
                             !.event = 0,
                             !.key = r.k],
       action |-> CASE ~r.down -> "release" [] r.down /\ was -> "repeat" [] OTHER -> "press",
       count |-> IF r.down /\ was THEN r.repeat ELSE 1,
       k |-> r.k]

\* makeEvent: the event of a record, and the follow-up repeats it leaves pending
Made(d, r) ==
  LET was == Tracked(r) /\ r.k \in d.down
  IN  [decoder |-> [d EXCEPT !.down = IF ~Tracked(r) THEN @ ELSE IF r.down THEN @ \cup {r.k} ELSE @ \ {r.k},
                             !.event = IF r.down /\ ~was /\ r.repeat > 1 THEN r.repeat - 1 ELSE 0,
                             !.key = r.k],
       action |-> CASE ~r.down -> "release" [] r.down /\ was -> "repeat" [] OTHER -> "press",
       count |-> IF r.down /\ was THEN r.repeat ELSE 1,
       k |-> r.k]
Nothing(d, action) == [decoder |-> d, action |-> action, count |-> 0, k |-> "none"]

\* decodeCharacterRecord and decodeKeyRecord: a half of a surrogate pair waits for the other one;
\* anything else in its place fails and is lost with it.
DecodeKeyRecord(d, r) ==
  CASE d.high /\ r.unit = "low" -> Made([d EXCEPT !.high = FALSE], [r EXCEPT !.k = "packet", !.down = TRUE])
    [] d.high /\ r.unit # "low" -> Nothing([d EXCEPT !.high = FALSE], "failed")
    [] ~d.high /\ r.unit = "high" -> Nothing([d EXCEPT !.high = TRUE], "none")
    [] ~d.high /\ r.unit = "low" -> Nothing(d, "failed")
    [] ~d.high /\ r.unit = "none" -> Nothing(d, "none")
    [] OTHER -> Made(d, r)

\* One record of readConsoleEvent
Decoded(d, r) ==
  CASE r.k = "blur" -> Nothing(NoDecoder, "none")
    [] r.k = "size" -> Nothing(d, "resize")
    [] OTHER -> DecodeKeyRecord(d, r)

\* takePendingEvent
TakePending(d) ==
  [decoder |-> [d EXCEPT !.event = 0], action |-> "repeat", count |-> d.event, k |-> d.key]

\* What an event delivered to a reader does to the keys it believes are down.
Delivered(p, e) ==
  CASE e.action = "press" -> [p EXCEPT !.keys = @ \cup {e.k}, !.count = @ + 1]
    [] e.action = "release" -> [p EXCEPT !.keys = @ \ {e.k}]
    [] e.action = "repeat" -> [p EXCEPT !.orphan = @ \/ (e.k \notin p.keys /\ e.k # "packet"), !.count = @ + e.count]
    [] OTHER -> p

\* streamBytesForNamedKey, and the encoding of a character key
KeyBytes(k) ==
  CASE k = "enter" -> <<"r", "n">> [] k = "packet" -> <<"h", "l">> [] k = "letter" -> <<"a">> [] OTHER -> <<>>
\* The bytes an event stands for in a stream read
StreamBytesOf(e) ==
  IF e.action \notin {"press", "repeat"} THEN <<>> ELSE FlattenSeq([i \in 1..e.count |-> KeyBytes(e.k)])

-----------------------------------------------------------------------------
InputInit ==
  /\ \E kind \in {"pipe", "console"} :
       endpoint = [number |-> 1, kind |-> kind, wire |-> <<>>, sent |-> 0, before |-> 0, over |-> FALSE]
  /\ identity = 0 /\ pending = <<>> /\ batch = <<>> /\ decoder = NoDecoder
  /\ call = NoCall /\ result = NoResult /\ returned = 0
  /\ pressed = [keys |-> {}, orphan |-> FALSE, typed |-> 0, count |-> 0]

\* The writer of the pipe, or the user at the console
Send ==
  /\ endpoint.before + endpoint.sent < MaxSent /\ ~endpoint.over
  /\ \/ /\ endpoint.kind = "pipe"
        /\ \E b \in StreamBytes :
             endpoint' = [endpoint EXCEPT !.sent = @ + 1,
                            !.wire = Append(@, [v |-> b, from |-> endpoint.number, n |-> endpoint.sent + 1])]
     \/ /\ endpoint.kind = "console"
        /\ \E r \in Records :
             endpoint' = [endpoint EXCEPT !.sent = @ + 1, !.wire = Append(@, r)]
  /\ UNCHANGED <<identity, pending, batch, decoder, call, result, returned, pressed>>

CloseWriter ==
  /\ endpoint.kind = "pipe" /\ ~endpoint.over
  /\ endpoint' = [endpoint EXCEPT !.over = TRUE]
  /\ UNCHANGED <<identity, pending, batch, decoder, call, result, returned, pressed>>

\* The program attaches stdin to another endpoint, or to none, between two reads.
ReplaceStdin ==
  /\ call = NoCall /\ endpoint.number < MaxEndpoints
  /\ \E kind \in {"pipe", "console", "detached"} :
       endpoint' = [number |-> endpoint.number + 1, kind |-> kind, wire |-> <<>>, sent |-> 0,
                    before |-> endpoint.before + endpoint.sent, over |-> kind = "detached"]
  /\ returned' = 0
  /\ UNCHANGED <<identity, pending, batch, decoder, call, result, pressed>>

\* Mutant: the pending bytes survive the replacement.
ObserveEndpoint_KeepsBytes ==
  LET usable == endpoint.kind # "detached"
      replaced == identity # 0 /\ identity # endpoint.number
      now == IF usable THEN endpoint.number ELSE 0
  IN  IF identity = now THEN UNCHANGED <<identity, pending, batch, decoder>>
      ELSE /\ identity' = now
           /\ pending' = pending
           /\ batch' = IF replaced THEN <<>> ELSE batch
           /\ decoder' = IF replaced THEN NoDecoder ELSE decoder

\* inputState at the start of a read: a replaced endpoint takes everything buffered with it.
\* Without a duplicate of the handle the read fails and nothing is forgotten yet.
ObserveEndpoint ==
  LET usable == endpoint.kind # "detached"
      replaced == identity # 0 /\ identity # endpoint.number
      now == IF usable THEN endpoint.number ELSE 0
  IN  IF identity = now THEN UNCHANGED <<identity, pending, batch, decoder>>
      ELSE /\ identity' = now
           /\ pending' = IF replaced THEN <<>> ELSE pending
           /\ batch' = IF replaced THEN <<>> ELSE batch
           /\ decoder' = IF replaced THEN NoDecoder ELSE decoder

\* readBytes, readText and readLine of a redirected stdin; of a console, readEvent and the stream
\* reads built on it.
ReadOperations == IF endpoint.kind = "pipe" THEN {"bytes", "text", "line"} ELSE {"bytes", "text", "event"}
StartRead ==
  /\ call = NoCall
  /\ \E op \in ReadOperations, max \in Limits, partial \in BOOLEAN :
       /\ op \in {"text", "event"} => partial
       /\ \/ /\ ObserveEndpoint
             /\ IF endpoint.kind = "detached"
                THEN call' = NoCall /\ result' = [NoResult EXCEPT !.op = op, !.outcome = "not open"]
                ELSE call' = [op |-> op, max |-> max, partial |-> partial, got |-> <<>>] /\ result' = NoResult
             /\ pressed' = IF identity # 0 /\ identity # endpoint.number
                           THEN [pressed EXCEPT !.keys = {}, !.typed = pressed.count] ELSE pressed
          \/ /\ endpoint.kind # "detached" /\ identity # endpoint.number   \* DuplicateHandle fails
             /\ result' = [NoResult EXCEPT !.op = op, !.outcome = "native failure"]
             /\ UNCHANGED <<identity, pending, batch, decoder, call, pressed>>
  /\ UNCHANGED <<endpoint, returned>>

\* The read returns: what it used of the pending bytes is gone.
Finish_(o) ==
  /\ result' = [op |-> call.op, bytes |-> o.bytes, max |-> call.max, ending |-> o.ending,
                truncated |-> o.truncated, outcome |-> o.outcome, from |-> endpoint.number]
  /\ pending' = SubSeq(pending, o.used + 1, Len(pending))
  /\ returned' = returned + o.used
  /\ call' = NoCall
  /\ UNCHANGED <<endpoint, identity, batch, decoder, pressed>>

\* readBytes copies what is pending, and returns if that will do.
Short(c, extra) == Len(c.got) + Len(extra) < c.max
ReadPendingBytes ==
  /\ call.op = "bytes" /\ pending # <<>> /\ Len(call.got) < call.max
  /\ LET n == Min({call.max - Len(call.got), Len(pending)})
         copied == SubSeq(pending, 1, n)
     IN  IF call.partial \/ ~Short(call, copied)
         THEN Finish_(Outcome(call.got \o copied, n, FALSE, "completed", "none"))
         ELSE /\ call' = [call EXCEPT !.got = @ \o copied]
              /\ pending' = SubSeq(pending, n + 1, Len(pending))
              /\ returned' = returned + n
              /\ UNCHANGED <<endpoint, identity, batch, decoder, result, pressed>>

\* readText: whole scalars as soon as there are any
TextReady == pending # <<>> /\ Utf8Prefix(Values(pending), call.max) # [bytes |-> 0, stop |-> "incomplete"]
ReadPendingText ==
  /\ call.op = "text" /\ TextReady
  /\ LET p == Utf8Prefix(Values(pending), call.max)
     IN  Finish_(CASE p.stop = "invalid" -> Failure("encoding failed")
                   [] p.stop # "invalid" /\ p.bytes > 0 ->
                        Outcome(SubSeq(pending, 1, p.bytes), p.bytes, p.stop = "max", "completed", "none")
                   [] OTHER -> Failure("limit exceeded"))

\* readLine: a complete line, or as much as the limit allows
LineReady == LineEnding(Values(pending), FALSE).at > 0 \/ Len(pending) >= call.max
ReadPendingLine ==
  /\ call.op = "line" /\ LineReady
  /\ LET e == LineEnding(Values(pending), FALSE)
     IN  \E kept \in {0, 1, e.length} :
           Finish_(IF e.at > 0 THEN CompleteLine(pending, e, kept, call.max)
                   ELSE TruncatedPrefix(pending, call.max))

\* What is pending is not enough.
Starved ==
  CASE call.op = "bytes" -> pending = <<>> /\ Len(call.got) < call.max
    [] call.op = "text" -> ~TextReady
    [] call.op = "line" -> ~LineReady
    [] OTHER -> FALSE

\* readFileInputChunk: some of what the pipe holds, never more than asked for
Asked == CASE call.op = "bytes" -> call.max - Len(call.got) [] call.op = "text" -> call.max + 1 [] OTHER -> MaxSent
ReadFileInputChunk ==
  /\ endpoint.kind = "pipe" /\ Starved /\ endpoint.wire # <<>>
  /\ \E n \in 1..Min({Asked, Len(endpoint.wire)}) :
       /\ pending' = pending \o SubSeq(endpoint.wire, 1, n)
       /\ endpoint' = [endpoint EXCEPT !.wire = SubSeq(@, n + 1, Len(@))]
  /\ UNCHANGED <<identity, batch, decoder, call, result, returned, pressed>>

\* No chunk: the pipe ended, the deadline passed, a poll found nothing or a stop was requested.
\* A line read returns what it has, a CR that waited for its LF included.
NoChunk(outcome, kept) ==
  LET e == LineEnding(Values(pending), TRUE)
  IN  CASE call.op = "bytes" -> Outcome(call.got, 0, FALSE, outcome, "none")
        [] call.op = "text" ->
             Failure(IF pending # <<>> /\ outcome = "end" THEN "encoding failed" ELSE outcome)
        [] call.op = "line" /\ e.at > 0 -> CompleteLine(pending, e, kept, call.max)
        [] OTHER -> IF ValidUtf8(Values(pending)) THEN Outcome(pending, Len(pending), FALSE, outcome, "none")
                    ELSE Failure("encoding failed")
ReadEnds ==
  /\ endpoint.kind = "pipe" /\ Starved
  /\ \E kept \in {0, 1} :
       \/ endpoint.over /\ endpoint.wire = <<>> /\ Finish_(NoChunk("end", kept))
       \/ \E outcome \in {"timed out", "failed"} :
            Finish_(IF outcome = "failed"
                    THEN Outcome(call.got, 0, FALSE, "failed", "none") ELSE NoChunk(outcome, kept))

\* fillNativeConsoleRecords, when every record of the batch has been decoded
FillNativeConsoleRecords ==
  /\ endpoint.kind = "console" /\ (Starved \/ call.op = "event")
  /\ decoder.event = 0 /\ batch = <<>> /\ endpoint.wire # <<>>
  /\ LET n == Min({BatchSize, Len(endpoint.wire)})
     IN  /\ batch' = SubSeq(endpoint.wire, 1, n)
         /\ endpoint' = [endpoint EXCEPT !.wire = SubSeq(@, n + 1, Len(@))]
  /\ UNCHANGED <<identity, pending, decoder, call, result, returned, pressed>>

\* One turn of readConsoleEvent: the pending repeat first, then the next record.  readEvent
\* returns the event; a stream read appends the bytes it stands for.
ReadConsoleEvent ==
  /\ endpoint.kind = "console" /\ (Starved \/ call.op = "event")
  /\ decoder.event > 0 \/ batch # <<>>
  /\ LET e == IF decoder.event > 0 THEN TakePending(decoder) ELSE Decoded(decoder, Head(batch))
         typed == IF decoder.event > 0 \/ e.action \notin {"press", "repeat"} THEN 0
                  ELSE Head(batch).repeat
         bytes == StreamBytesOf(e)
         shown == e.action \in {"press", "repeat", "release"} \/ (e.action = "resize" /\ call.op = "event")
     IN  /\ decoder' = e.decoder
         /\ batch' = IF decoder.event > 0 THEN batch ELSE Tail(batch)
         /\ pressed' = [Delivered(pressed, e) EXCEPT !.typed = @ + typed]
         /\ IF e.action = "failed" \/ (call.op = "event" /\ shown)
            THEN /\ result' = [NoResult EXCEPT !.op = call.op, !.bytes = call.got, !.max = call.max,
                                 !.from = endpoint.number,
                                 !.outcome = IF e.action = "failed" THEN "encoding failed" ELSE "completed"]
                 /\ call' = NoCall
                 /\ UNCHANGED <<pending, endpoint>>
            ELSE /\ pending' = IF call.op = "event" THEN pending
                               ELSE pending \o [i \in DOMAIN bytes |->
                                      [v |-> bytes[i], from |-> endpoint.number, n |-> returned + Len(pending) + i]]
                 /\ UNCHANGED <<call, result, endpoint>>
  /\ UNCHANGED <<identity, returned>>

\* waitForConsoleRecord ends without a record: timeout, poll or stop.
ConsoleWaitEnds ==
  /\ endpoint.kind = "console" /\ (Starved \/ call.op = "event")
  /\ decoder.event = 0 /\ batch = <<>>
  /\ Finish_(Outcome(call.got, 0, FALSE, "timed out", "none"))

InputNext ==
  \/ Send \/ CloseWriter \/ ReplaceStdin \/ StartRead
  \/ ReadPendingBytes \/ ReadPendingText \/ ReadPendingLine
  \/ ReadFileInputChunk \/ ReadEnds
  \/ FillNativeConsoleRecords \/ ReadConsoleEvent \/ ConsoleWaitEnds

InputSpec == InputInit /\ [][InputNext]_inputBackendVars

-----------------------------------------------------------------------------
\* Across any mixture of byte, text and line reads, of endings that consume more than they return,
\* of truncations and of failures, the stream is delivered in order, once and without a gap: what
\* is pending continues exactly where the callers were left, behind the ending the last line
\* reported, and the endpoint continues there.
InputIsConserved ==
  LET waiting == SelectSeq(pending, LAMBDA b : b.from = endpoint.number)
                   \o (IF endpoint.kind = "pipe" THEN endpoint.wire ELSE <<>>)
  IN  /\ \A i \in DOMAIN waiting : waiting[i].n = returned + i
      /\ endpoint.kind = "pipe" => returned + Len(waiting) = endpoint.sent
      /\ \A i \in 1..(Len(result.bytes) - 1) : result.bytes[i + 1].n = result.bytes[i].n + 1
      /\ (result.bytes # <<>> /\ result.from = endpoint.number) =>
           Last(result.bytes).n + (CASE result.ending = "crlf" -> 2 [] result.ending = "none" -> 0 [] OTHER -> 1)
             = returned

\* No read returns bytes of an endpoint that stdin no longer is: a read under way has only bytes
\* of the endpoint it reads before it.
ReplacedInputIsGone ==
  /\ call # NoCall => \A i \in DOMAIN pending : pending[i].from = endpoint.number
  /\ \A i \in DOMAIN result.bytes : result.bytes[i].from = result.from

\* What a text or line read returns is whole scalars within its limit, and a line that was not cut
\* holds no line ending.
TextIsWhole ==
  (result.op \in {"text", "line"}) =>
    /\ ValidUtf8(Values(result.bytes)) /\ Len(result.bytes) <= result.max
    /\ result.op = "line" /\ ~result.truncated =>
         \A i \in DOMAIN result.bytes : result.bytes[i].v \notin {"r", "n"}

\* A repeat is only reported for a key whose press was, and every occurrence the native records
\* counted reaches a reader or waits in the pending event.
KeysAreAccounted ==
  /\ ~pressed.orphan
  /\ identity \in {0, endpoint.number} => pressed.typed = pressed.count + decoder.event

\* What the reads of stdin return together is what was typed: each byte and key
\* once and in order, whole scalars, and nothing of an endpoint that was replaced.
InputIsExact == InputIsConserved /\ TextIsWhole /\ KeysAreAccounted /\ ReplacedInputIsGone
=============================================================================
