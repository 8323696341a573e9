------------------------- MODULE AccessibilityProofs -------------------------
(***************************************************************************)
(* Proofs about what UI Automation threads share with the owner of a       *)
(* Window: the geometry of the host, which they read without a lock        *)
(* (GeometryCoherent), and the pool of text ranges (RangesAreShared).      *)
(***************************************************************************)
EXTENDS HostGeometry, TextRanges, FiniteSetTheorems, SequenceTheorems, TLAPS

-----------------------------------------------------------------------------
(* The geometry of the host *)

\* What a client knows at each place of readGeometry.
ReaderType(x) ==
  /\ x.pc \in {"idle", "attempt", "reading", "done"}
  /\ x.pc = "attempt" => x \in [pc : {"attempt"}, attempt : Int, since : Nat]
  /\ x.pc = "reading" => x \in [pc : {"reading"}, attempt : Int, since : Nat, start : Nat, got : Seq(Nat)]
  /\ x.pc = "done" => x \in [pc : {"done"}, ok : BOOLEAN, got : Seq(Nat), since : Nat]

GeometryType ==
  /\ sequence \in Nat
  /\ fields \in [1 .. FieldCount -> Nat]
  /\ writer \in [pc : {"idle", "writing"}, version : Nat, next : Nat \ {0}]
  /\ DOMAIN reader = Readers /\ \A r \in Readers : ReaderType(reader[r])

\* The counter counts two for each geometry, one when it is being written, and the fields before
\* the one that is written next are new already.
WriterInv ==
  /\ writer.pc = "idle" => sequence = 2 * writer.version /\ \A i \in 1 .. FieldCount : fields[i] = writer.version
  /\ writer.pc = "writing" =>
       /\ writer.version > 0 /\ sequence = 2 * writer.version - 1
       /\ \A i \in 1 .. FieldCount : /\ i < writer.next => fields[i] = writer.version
                                     /\ i >= writer.next => fields[i] = writer.version - 1

\* A read whose counter has not moved since has seen fields of one geometry only.
Safe(x) ==
  /\ x.pc \in {"attempt", "reading"} => x.since <= Complete
  /\ x.pc = "reading" =>
       /\ Len(x.got) <= FieldCount /\ x.start % 2 = 0 /\ x.start <= sequence
       /\ x.start = sequence => \A i \in 1 .. Len(x.got) : x.got[i] = writer.version

ReaderSafe(r) == Safe(reader[r])
ReaderInv == \A r \in Readers : ReaderSafe(r)

\* What GeometryCoherent says of one client.
Coherent(x) ==
  x.pc = "done" /\ x.ok
    => \E version \in x.since .. writer.version : \A i \in 1 .. FieldCount : x.got[i] = version

GeometryInv == GeometryType /\ WriterInv /\ ReaderInv /\ GeometryCoherent

\* A host starts with its first geometry stored and nobody reading (AccessibilityRuntime).
LEMMA GeometryInitially == GeometryInit => GeometryInv
BY GeometryAssumption DEF GeometryInit, GeometryInv, GeometryType, ReaderType, IdleReader, WriterInv, ReaderInv, ReaderSafe, Safe, Complete, GeometryCoherent

\* publishGeometry: the fields that are written belong to no geometry that a reader may return.
LEMMA WriterSteps ==
  ASSUME GeometryInv, BeginWrite \/ WriteField \/ EndWrite
  PROVE  GeometryInv'
<1>0. FieldCount \in Nat \ {0} /\ MaxAttempts \in Nat \ {0}
  BY GeometryAssumption
<1> USE <1>0 DEF GeometryInv
<1>1. /\ writer.pc \in {"idle", "writing"} /\ writer.version \in Nat /\ writer.next \in Nat \ {0}
      /\ sequence \in Nat /\ fields \in [1 .. FieldCount -> Nat]
  BY DEF GeometryType
<1>2. /\ reader' = reader /\ GeometryType' /\ WriterInv'
      /\ Complete <= Complete' /\ sequence <= sequence' /\ Complete \in Nat /\ Complete' \in Nat
      /\ writer'.version \in Nat /\ sequence' \in Nat /\ writer.version <= writer'.version
      /\ sequence' # sequence \/ writer'.version = writer.version
  <2>1. CASE BeginWrite
    <3>1. /\ writer.pc = "idle" /\ writer'.pc = "writing" /\ writer'.version = writer.version + 1 /\ writer'.next = 1
          /\ sequence' = sequence + 1 /\ fields' = fields /\ reader' = reader
          /\ writer' = [pc |-> "writing", version |-> writer.version + 1, next |-> 1]
      BY <2>1 DEF BeginWrite
    <3>2. WriterInv'
      BY <1>1, <3>1 DEF WriterInv
    <3> QED
      BY <1>1, <3>1, <3>2 DEF GeometryType, Complete
  <2>2. CASE WriteField
    <3>1. /\ writer.pc = "writing" /\ writer'.pc = "writing" /\ writer'.version = writer.version
          /\ writer'.next = writer.next + 1 /\ sequence' = sequence /\ reader' = reader
          /\ writer' \in [pc : {"idle", "writing"}, version : Nat, next : Nat \ {0}]
      <4>1. writer \in [pc : {"idle", "writing"}, version : Nat, next : Nat \ {0}] /\ writer.next + 1 \in Nat \ {0}
        BY <1>1 DEF GeometryType
      <4> QED
        BY <2>2, <4>1 DEF WriteField
    <3>2. fields' \in [1 .. FieldCount -> Nat]
          /\ \A i \in 1 .. FieldCount : fields'[i] = IF i = writer.next THEN writer.version ELSE fields[i]
      BY <1>1, <2>2 DEF WriteField
    <3>3. WriterInv'
      <4>1. ASSUME NEW i \in 1 .. FieldCount
            PROVE  /\ i < writer.next + 1 => fields'[i] = writer.version
                   /\ i >= writer.next + 1 => fields'[i] = writer.version - 1
        <5>1. /\ i < writer.next => fields[i] = writer.version
              /\ i >= writer.next => fields[i] = writer.version - 1
          BY <3>1 DEF WriterInv
        <5>2. fields'[i] = IF i = writer.next THEN writer.version ELSE fields[i]
          BY <3>2
        <5>3. i \in Nat /\ writer.next \in Nat
          BY <1>1
        <5> QED
          BY <5>1, <5>2, <5>3
      <4> QED
        BY <3>1, <4>1 DEF WriterInv
    <3>4. GeometryType'
      BY <3>1, <3>2 DEF GeometryType
    <3>5. Complete' = Complete /\ Complete \in Nat
      BY <1>1, <3>1 DEF Complete, WriterInv
    <3> QED
      BY <1>1, <3>1, <3>3, <3>4, <3>5
  <2>3. CASE EndWrite
    <3>1. /\ writer.pc = "writing" /\ writer'.pc = "idle" /\ writer'.version = writer.version /\ writer'.next = 1
          /\ sequence' = sequence + 1 /\ fields' = fields /\ reader' = reader /\ writer.next > FieldCount
          /\ writer' = [pc |-> "idle", version |-> writer.version, next |-> 1]
      BY <2>3 DEF EndWrite
    <3>2. WriterInv'
      BY <1>1, <3>1 DEF WriterInv
    <3> QED
      BY <1>1, <3>1, <3>2 DEF GeometryType, Complete, WriterInv
  <2> QED
    BY <2>1, <2>2, <2>3
<1>3. ReaderInv'
  <2> SUFFICES ASSUME NEW r \in Readers PROVE ReaderSafe(r)'
    BY DEF ReaderInv
  <2>1. ReaderSafe(r) /\ ReaderType(reader[r])
    BY DEF ReaderInv, GeometryType
  <2>2. CASE reader[r].pc = "attempt"
    <3>1. reader[r].since \in Nat
      BY <2>1, <2>2 DEF ReaderType
    <3> QED
      BY <1>2, <2>1, <2>2, <3>1 DEF ReaderSafe, Safe
  <2>3. CASE reader[r].pc = "reading"
    <3>1. reader[r].since \in Nat /\ reader[r].start \in Nat /\ reader[r].got \in Seq(Nat)
      BY <2>1, <2>3 DEF ReaderType
    <3>2. reader[r].start = sequence' => sequence' = sequence
      BY <1>1, <1>2, <2>1, <2>3, <3>1 DEF ReaderSafe, Safe
    <3>3. /\ Len(reader[r].got) <= FieldCount /\ reader[r].start % 2 = 0 /\ reader[r].start <= sequence
          /\ reader[r].since <= Complete
          /\ reader[r].start = sequence => \A i \in 1 .. Len(reader[r].got) : reader[r].got[i] = writer.version
      BY <2>1, <2>3 DEF ReaderSafe, Safe
    <3>4. reader[r].start <= sequence' /\ reader[r].since <= Complete'
      <4>1. /\ sequence \in Nat /\ sequence' \in Nat /\ sequence <= sequence'
            /\ Complete \in Nat /\ Complete' \in Nat /\ Complete <= Complete'
        BY <1>1, <1>2 DEF GeometryType
      <4> DEFINE old == Complete
                 new == Complete'
      <4>2. reader[r].since <= old /\ old <= new /\ old \in Nat /\ new \in Nat
        BY <3>3, <4>1
      <4> HIDE DEF old, new
      <4>3. reader[r].since <= new
        BY <3>1, <4>2
      <4>4. reader[r].start <= sequence'
        BY <3>1, <3>3, <4>1
      <4> QED BY <4>3, <4>4 DEF new
    <3>5. reader[r].start = sequence' => writer'.version = writer.version /\ reader[r].start = sequence
      BY <1>2, <3>2
    <3> QED
      BY <1>2, <3>3, <3>4, <3>5 DEF ReaderSafe, Safe
  <2> QED
    BY <1>2, <2>2, <2>3 DEF ReaderSafe, Safe
<1>4. GeometryCoherent'
  <2> SUFFICES ASSUME NEW r \in Readers, reader[r].pc = "done", reader[r].ok
               PROVE  \E version \in reader[r].since .. writer'.version :
                        \A i \in 1 .. FieldCount : reader[r].got[i] = version
    BY <1>2 DEF GeometryCoherent
  <2>1. PICK version \in reader[r].since .. writer.version : \A i \in 1 .. FieldCount : reader[r].got[i] = version
    BY DEF GeometryCoherent
  <2>2. ReaderType(reader[r])
    BY DEF GeometryType
  <2>3. reader[r].since \in Nat
    BY <2>2 DEF ReaderType
  <2>4. version \in reader[r].since .. writer'.version
    BY <1>1, <1>2, <2>1, <2>3
  <2> QED
    BY <2>1, <2>4
<1> QED
  BY <1>2, <1>3, <1>4

\* What the new state of the client that moved has to be for the invariant to hold again.
LEMMA ReaderMoves ==
  ASSUME GeometryInv, NEW r \in Readers, NEW x, reader' = [reader EXCEPT ![r] = x],
         UNCHANGED <<sequence, fields, writer>>, ReaderType(x), Safe(x), Coherent(x)
  PROVE  GeometryInv'
<1>1. \A q \in Readers : reader'[q] = IF q = r THEN x ELSE reader[q]
  BY DEF GeometryInv, GeometryType
<1>2. GeometryType' /\ WriterInv'
  BY <1>1 DEF GeometryInv, GeometryType, WriterInv
<1>3. ReaderInv'
  <2> SUFFICES ASSUME NEW q \in Readers PROVE ReaderSafe(q)'
    BY DEF ReaderInv
  <2>1. CASE q = r
    BY <1>1, <2>1 DEF ReaderSafe, Safe, Complete
  <2>2. CASE q # r
    BY <1>1, <2>2 DEF GeometryInv, ReaderInv, ReaderSafe, Safe, Complete
  <2> QED
    BY <2>1, <2>2
<1>4. GeometryCoherent'
  <2> SUFFICES ASSUME NEW q \in Readers, reader'[q].pc = "done", reader'[q].ok
               PROVE  \E version \in reader'[q].since .. writer.version :
                        \A i \in 1 .. FieldCount : reader'[q].got[i] = version
    BY DEF GeometryCoherent
  <2>1. CASE q = r
    BY <1>1, <2>1 DEF Coherent
  <2>2. CASE q # r
    BY <1>1, <2>2 DEF GeometryInv, GeometryCoherent
  <2> QED
    BY <2>1, <2>2
<1> QED
  BY <1>2, <1>3, <1>4 DEF GeometryInv

\* readGeometry: a counter that is even and unchanged at the end was even and unchanged all along.
LEMMA ReaderSteps ==
  ASSUME GeometryInv, NEW r \in Readers,
         LoadSequence(r) \/ LoadField(r) \/ CompareSequence(r) \/ UseGeometry(r)
  PROVE  GeometryInv'
<1>0. FieldCount \in Nat \ {0} /\ MaxAttempts \in Nat \ {0}
  BY GeometryAssumption
<1> USE <1>0
<1>1. /\ writer.pc \in {"idle", "writing"} /\ writer.version \in Nat /\ writer.next \in Nat \ {0}
      /\ sequence \in Nat /\ fields \in [1 .. FieldCount -> Nat] /\ Complete \in Nat
      /\ ReaderType(reader[r]) /\ ReaderSafe(r) /\ DOMAIN reader = Readers
      /\ Complete <= writer.version
  BY DEF GeometryInv, GeometryType, ReaderInv, WriterInv, Complete
<1>2. ASSUME sequence % 2 = 0
      PROVE  sequence = 2 * writer.version /\ Complete = writer.version
             /\ \A i \in 1 .. FieldCount : fields[i] = writer.version
  <2>1. writer.pc = "idle"
    <3>1. writer.pc = "writing" => sequence = 2 * writer.version - 1
      BY DEF GeometryInv, WriterInv
    <3>2. \A v \in Nat : (2 * v - 1) % 2 = 1
      OBVIOUS
    <3>3. writer.pc = "writing" => sequence % 2 = 1
      BY <1>1, <3>1, <3>2
    <3>4. writer.pc # "writing"
      BY <1>2, <3>3
    <3> QED
      BY <1>1, <3>4
  <2> QED
    BY <2>1 DEF GeometryInv, WriterInv, Complete
<1>3. UNCHANGED <<sequence, fields, writer>>
  BY DEF LoadSequence, LoadField, CompareSequence, UseGeometry
<1>4. ASSUME NEW x, reader' = [reader EXCEPT ![r] = x], ReaderType(x), Safe(x), Coherent(x)
      PROVE  GeometryInv'
  BY <1>3, <1>4, ReaderMoves
<1>5. ASSUME NEW since \in Nat, reader' = [reader EXCEPT ![r] = [pc |-> "done", ok |-> FALSE, got |-> << >>, since |-> since]]
      PROVE  GeometryInv'
  <2> DEFINE x == [pc |-> "done", ok |-> FALSE, got |-> << >>, since |-> since]
  <2>1. ReaderType(x) /\ Safe(x) /\ Coherent(x)
    BY <1>5 DEF ReaderType, Safe, Coherent
  <2> HIDE DEF x
  <2> QED
    BY <1>4, <1>5, <2>1 DEF x
<1>6. ASSUME NEW attempt \in Int, NEW since \in Nat, since <= Complete,
             reader' = [reader EXCEPT ![r] = [pc |-> "attempt", attempt |-> attempt, since |-> since]]
      PROVE  GeometryInv'
  <2> DEFINE x == [pc |-> "attempt", attempt |-> attempt, since |-> since]
  <2>1. ReaderType(x) /\ Safe(x) /\ Coherent(x)
    BY <1>6 DEF ReaderType, Safe, Coherent
  <2> QED
    BY <1>4, <1>6, <2>1
<1>7. CASE reader[r].pc = "idle" /\ LoadSequence(r)
  <2>1. reader' = [reader EXCEPT ![r] = [pc |-> "attempt", attempt |-> 1, since |-> Complete]]
    BY <1>7 DEF LoadSequence
  <2>2. 1 \in Int /\ Complete \in Nat /\ Complete <= Complete
    BY <1>1
  <2> HIDE DEF Complete
  <2> QED
    BY <1>6, <2>1, <2>2
<1>8. CASE reader[r].pc = "attempt" /\ LoadSequence(r)
  <2>1. /\ reader[r] \in [pc : {"attempt"}, attempt : Int, since : Nat]
        /\ reader[r].since <= Complete /\ reader[r].since \in Nat /\ reader[r].attempt \in Int
    BY <1>1, <1>8 DEF ReaderType, ReaderSafe, Safe
  <2>2. CASE sequence % 2 = 0
    <3> DEFINE x == [pc |-> "reading", attempt |-> reader[r].attempt, since |-> reader[r].since,
                     start |-> sequence, got |-> << >>]
    <3>1. reader' = [reader EXCEPT ![r] = x]
      BY <1>8, <2>2 DEF LoadSequence
    <3>2. ReaderType(x)
      BY <1>1, <2>1 DEF ReaderType
    <3>3. Safe(x)
      BY <1>1, <2>1, <2>2 DEF Safe
    <3>4. Coherent(x)
      BY DEF Coherent
    <3> QED
      BY <1>4, <3>1, <3>2, <3>3, <3>4
  <2>3. CASE sequence % 2 # 0 /\ reader[r].attempt = MaxAttempts
    <3>1. reader' = [reader EXCEPT ![r] = [pc |-> "done", ok |-> FALSE, got |-> << >>, since |-> reader[r].since]]
      BY <1>8, <2>3 DEF LoadSequence
    <3> QED
      BY <1>5, <2>1, <3>1
  <2>4. CASE sequence % 2 # 0 /\ reader[r].attempt # MaxAttempts
    <3>1. [reader[r] EXCEPT !.attempt = @ + 1] = [pc |-> "attempt", attempt |-> reader[r].attempt + 1, since |-> reader[r].since]
      BY <2>1
    <3>2. reader' = [reader EXCEPT ![r] = [reader[r] EXCEPT !.attempt = @ + 1]]
      BY <1>8, <2>4 DEF LoadSequence
    <3>3. reader[r].attempt + 1 \in Int
      BY <2>1
    <3> QED
      BY <1>6, <2>1, <3>1, <3>2, <3>3
  <2> QED
    BY <2>2, <2>3, <2>4
<1>9. CASE LoadField(r)
  <2>1. /\ reader[r] \in [pc : {"reading"}, attempt : Int, since : Nat, start : Nat, got : Seq(Nat)]
        /\ reader[r].pc = "reading" /\ Len(reader[r].got) < FieldCount
    BY <1>1, <1>9 DEF ReaderType, LoadField
  <2> DEFINE got == reader[r].got
             n == Len(got) + 1
             value == fields[n]
             x == [reader[r] EXCEPT !.got = Append(@, value)]
  <2>2. n \in 1 .. FieldCount /\ value \in Nat /\ Len(got) \in Nat /\ got \in Seq(Nat)
    BY <1>1, <2>1
  <2>3. reader' = [reader EXCEPT ![r] = x]
    BY <1>9 DEF LoadField
  <2>4. reader[r].start = sequence => value = writer.version
    BY <1>1, <1>2, <2>1, <2>2 DEF ReaderSafe, Safe
  <2>5. reader[r].start = sequence => \A i \in 1 .. Len(got) : got[i] = writer.version
    BY <1>1, <2>1 DEF ReaderSafe, Safe
  <2>6. reader[r].start % 2 = 0 /\ reader[r].start <= sequence /\ reader[r].since <= Complete
    BY <1>1, <2>1 DEF ReaderSafe, Safe
  <2> HIDE DEF value, n
  <2>7. Append(got, value) \in Seq(Nat) /\ Len(Append(got, value)) = n
        /\ \A i \in 1 .. n : Append(got, value)[i] = IF i = n THEN value ELSE got[i]
    BY <2>2 DEF n
  <2>8. /\ x.got = Append(got, value) /\ x.start = reader[r].start /\ x.since = reader[r].since /\ x.pc = "reading"
        /\ x \in [pc : {"reading"}, attempt : Int, since : Nat, start : Nat, got : Seq(Nat)]
    <3> HIDE DEF got
    <3>1. reader[r].got = got
      BY DEF got
    <3> QED
      BY <2>1, <2>7, <3>1
  <2> HIDE DEF x, got
  <2>9. ASSUME x.start = sequence, NEW i \in 1 .. Len(x.got) PROVE x.got[i] = writer.version
    <3>1. i \in 1 .. n /\ (i # n => i \in 1 .. Len(got))
      BY <2>2, <2>7, <2>8 DEF n
    <3> QED
      BY <2>4, <2>5, <2>7, <2>8, <2>9, <3>1
  <2>10. Len(x.got) <= FieldCount
    BY <1>0, <2>2, <2>7, <2>8
  <2>11. Safe(x)
    BY <2>6, <2>8, <2>9, <2>10 DEF Safe
  <2> QED
    BY <1>4, <2>3, <2>8, <2>11 DEF ReaderType, Coherent
<1>10. CASE CompareSequence(r)
  <2>1. /\ reader[r] \in [pc : {"reading"}, attempt : Int, since : Nat, start : Nat, got : Seq(Nat)]
        /\ reader[r].pc = "reading" /\ Len(reader[r].got) = FieldCount
        /\ reader[r].since \in Nat /\ reader[r].attempt \in Int /\ reader[r].got \in Seq(Nat)
    BY <1>1, <1>10 DEF ReaderType, CompareSequence
  <2>2. reader[r].since <= Complete
    BY <1>1, <2>1 DEF ReaderSafe, Safe
  <2>3. CASE sequence = reader[r].start
    <3> DEFINE x == [pc |-> "done", ok |-> TRUE, got |-> reader[r].got, since |-> reader[r].since]
    <3>1. reader' = [reader EXCEPT ![r] = x]
      BY <1>10, <2>3 DEF CompareSequence, SameSequence
    <3>2. \A i \in 1 .. FieldCount : reader[r].got[i] = writer.version
      BY <1>1, <2>1, <2>3 DEF ReaderSafe, Safe
    <3>3. writer.version \in reader[r].since .. writer.version
      BY <1>1, <2>1, <2>2
    <3>4. ReaderType(x) /\ Safe(x)
      BY <2>1 DEF ReaderType, Safe
    <3>5. Coherent(x)
      BY <3>2, <3>3 DEF Coherent
    <3> QED
      BY <1>4, <3>1, <3>4, <3>5
  <2>4. CASE sequence # reader[r].start /\ reader[r].attempt = MaxAttempts
    <3>1. reader' = [reader EXCEPT ![r] = [pc |-> "done", ok |-> FALSE, got |-> << >>, since |-> reader[r].since]]
      BY <1>10, <2>4 DEF CompareSequence, SameSequence
    <3> QED
      BY <1>5, <2>1, <3>1
  <2>5. CASE sequence # reader[r].start /\ reader[r].attempt # MaxAttempts
    <3>1. reader' = [reader EXCEPT ![r] = [pc |-> "attempt", attempt |-> reader[r].attempt + 1, since |-> reader[r].since]]
      BY <1>10, <2>5 DEF CompareSequence, SameSequence
    <3>2. reader[r].attempt + 1 \in Int
      BY <2>1
    <3> QED
      BY <1>6, <2>1, <2>2, <3>1, <3>2
  <2> QED
    BY <2>3, <2>4, <2>5
<1>11. CASE UseGeometry(r)
  <2>1. reader' = [reader EXCEPT ![r] = IdleReader]
    BY <1>11 DEF UseGeometry
  <2>2. ReaderType(IdleReader) /\ Safe(IdleReader) /\ Coherent(IdleReader)
    BY DEF IdleReader, ReaderType, Safe, Coherent
  <2> QED
    BY <1>4, <2>1, <2>2
<1> QED
  BY <1>7, <1>8, <1>9, <1>10, <1>11 DEF LoadSequence

\* The invariant of the geometry holds in every state: what the owner has stored and what every
\* reader has seen fit the counter (storeGeometry and readGeometry).
THEOREM GeometryInvariance == GeometrySpec => []GeometryInv
<1>1. GeometryInv /\ [GeometryNext]_geometryVars => GeometryInv'
  <2> SUFFICES ASSUME GeometryInv, [GeometryNext]_geometryVars PROVE GeometryInv'
    OBVIOUS
  <2>1. CASE UNCHANGED geometryVars
    BY <2>1 DEF geometryVars, GeometryInv, GeometryType, WriterInv, ReaderInv, ReaderSafe, Safe, Complete, GeometryCoherent
  <2> QED
    BY <2>1, WriterSteps, ReaderSteps DEF GeometryNext
<1> QED
  BY <1>1, GeometryInitially, PTL DEF GeometrySpec

\* A client that is told it has the geometry has all of one geometry, no older than its question
\* (readGeometry), for any number of readers and fields.
THEOREM GeometryIsCoherent == GeometrySpec => []GeometryCoherent
<1>1. GeometryInv => GeometryCoherent
  BY DEF GeometryInv
<1> QED
  BY <1>1, GeometryInvariance, PTL

-----------------------------------------------------------------------------
(* The text ranges *)

-----------------------------------------------------------------------------
(* Moving over the text. *)

\* The offsets of a unit, ascending from 0, and the bounds a range may have among the offsets U.
Ascending(units) ==
  /\ units \in Seq(Nat) /\ Len(units) > 0 /\ units[1] = 0
  /\ \A i, j \in DOMAIN units : i <= j => units[i] <= units[j]

Within(U, range) == range \in [begin : Nat, end : Nat] /\ range.begin <= range.end /\ {range.begin, range.end} \subseteq U

\* A nonempty set of numbers up to n has a largest one.
LEMMA Largest ==
  ASSUME NEW n \in Nat, NEW T, T \subseteq 1 .. n, T # {}
  PROVE  \E i \in T : \A j \in T : j <= i
<1> DEFINE R == OpToRel(<, Nat)
           D == {n - i : i \in T}
<1>1. D \subseteq Nat /\ D # {}
  <2>1. \A i \in T : n - i \in Nat
    OBVIOUS
  <2> QED BY <2>1
<1>2. PICK d \in D : \A e \in D : ~(<<e, d>> \in R)
  <2>1. IsWellFoundedOn(R, Nat)
    BY NatLessThanWellFounded
  <2> HIDE DEF R, D
  <2> QED BY <1>1, <2>1, WFMin
<1>3. ASSUME NEW e \in D PROVE d <= e
  <2>1. d \in Nat /\ e \in Nat /\ ~(<<e, d>> \in R)
    BY <1>1, <1>2
  <2>2. e < d => <<e, d>> \in R
    BY <2>1, Zenon DEF OpToRel
  <2> HIDE DEF R, D
  <2> QED BY <2>1, <2>2
<1>4. PICK i \in T : d = n - i
  OBVIOUS
<1>5. ASSUME NEW j \in T PROVE j <= i
  <2>1. n - j \in D
    OBVIOUS
  <2>2. d <= n - j
    BY <1>3, <2>1
  <2> QED BY <1>4, <2>2
<1> QED BY <1>5

\* unitAt finds a unit.
LEMMA UnitAtIsUnit ==
  ASSUME NEW units, Ascending(units), NEW offset \in Nat
  PROVE  UnitAt(units, offset) \in 1 .. Len(units)
<1> DEFINE T == {i \in DOMAIN units : units[i] <= offset}
<1>1. units \in Seq(Nat) /\ Len(units) \in Nat /\ Len(units) > 0 /\ units[1] = 0 /\ DOMAIN units = 1 .. Len(units)
  BY DEF Ascending
<1>2. 1 \in T /\ T \subseteq 1 .. Len(units)
  BY <1>1
<1>3. PICK i \in T : \A j \in T : j <= i
  <2> HIDE DEF T
  <2> QED BY <1>1, <1>2, Largest
<1>4. \E k \in DOMAIN units : units[k] <= offset /\ \A j \in DOMAIN units : units[j] <= offset => j <= k
  BY <1>3
<1>5. UnitAt(units, offset) \in DOMAIN units
  BY <1>4 DEF UnitAt
<1> QED BY <1>1, <1>5

\* lower_bound finds a place.
LEMMA LowerBoundIsPlace ==
  ASSUME NEW units, Ascending(units), NEW offset PROVE LowerBound(units, offset) \in Nat
<1> DEFINE T == {i \in DOMAIN units : units[i] < offset}
<1>1. Len(units) \in Nat /\ DOMAIN units = 1 .. Len(units)
  BY DEF Ascending
<1>2. IsFiniteSet(1 .. Len(units))
  BY <1>1, FS_Interval
<1>3. IsFiniteSet(T)
  BY <1>1, <1>2, FS_Subset
<1>4. Cardinality(T) \in Nat
  BY <1>3, FS_CardinalityType
<1> QED BY <1>4 DEF LowerBound

\* A unit and the one after it, or a later one, are the ends of a range.
LEMMA UnitsBound ==
  ASSUME NEW units, Ascending(units), NEW U, ToSet(units) \subseteq U,
         NEW i \in 1 .. Len(units), NEW j \in 1 .. Len(units), i <= j
  PROVE  Within(U, [begin |-> units[i], end |-> units[j]])
<1>1. units \in Seq(Nat) /\ DOMAIN units = 1 .. Len(units) /\ Len(units) \in Nat
  BY DEF Ascending
<1>2. units[i] \in Nat /\ units[j] \in Nat /\ units[i] <= units[j]
  BY <1>1 DEF Ascending
<1>3. units[i] \in U /\ units[j] \in U
  BY <1>1 DEF ToSet
<1> QED BY <1>2, <1>3 DEF Within

\* ExpandToEnclosingUnit stays inside the text.
LEMMA ExpandedWithin ==
  ASSUME NEW units, Ascending(units), NEW U, ToSet(units) \subseteq U, NEW range, Within(U, range)
  PROVE  Within(U, Expanded(units, range))
<1> DEFINE start == Smaller(UnitAt(units, range.begin), Larger(Len(units) - 1, 1))
           stop == IF Len(units) > 1 THEN start + 1 ELSE start
<1>1. Len(units) \in Nat /\ Len(units) > 0 /\ UnitAt(units, range.begin) \in 1 .. Len(units)
  <2>1. range.begin \in Nat
    BY DEF Within
  <2>2. units \in Seq(Nat) /\ Len(units) > 0
    BY DEF Ascending
  <2>3. Len(units) \in Nat
    BY <2>2, LenProperties
  <2>4. UnitAt(units, range.begin) \in 1 .. Len(units)
    BY <2>1, UnitAtIsUnit
  <2> QED BY <2>2, <2>3, <2>4
<1>2. start \in 1 .. Len(units) /\ stop \in 1 .. Len(units) /\ start <= stop
  BY <1>1 DEF Smaller, Larger
<1>3. Expanded(units, range) = [begin |-> units[start], end |-> units[stop]]
  BY DEF Expanded
<1> HIDE DEF start, stop
<1> QED BY <1>2, <1>3, UnitsBound

\* Move stays inside the text.
LEMMA MovedWithin ==
  ASSUME NEW units, Ascending(units), NEW U, ToSet(units) \subseteq U, NEW range, Within(U, range),
         NEW count \in Int
  PROVE  Within(U, Moved(units, range, count))
<1> DEFINE degenerate == range.begin = range.end
           last == IF Len(units) > 1 THEN Len(units) - (IF degenerate THEN 0 ELSE 1) ELSE 1
           index == Clamp(Smaller(UnitAt(units, range.begin), last) + count, 1, last)
           stop == IF degenerate THEN index ELSE Smaller(index + 1, Len(units))
<1>1. Len(units) \in Nat /\ Len(units) > 0 /\ UnitAt(units, range.begin) \in 1 .. Len(units)
  <2>1. range.begin \in Nat
    BY DEF Within
  <2>2. units \in Seq(Nat) /\ Len(units) > 0
    BY DEF Ascending
  <2>3. Len(units) \in Nat
    BY <2>2, LenProperties
  <2>4. UnitAt(units, range.begin) \in 1 .. Len(units)
    BY <2>1, UnitAtIsUnit
  <2> QED BY <2>2, <2>3, <2>4
<1>2. last \in 1 .. Len(units)
  BY <1>1
<1>3. index \in 1 .. last
  <2> HIDE DEF last
  <2> QED BY <1>1, <1>2 DEF Clamp, Smaller, Larger
<1>4. index \in 1 .. Len(units) /\ stop \in 1 .. Len(units) /\ index <= stop
  <2> HIDE DEF last, index
  <2> QED BY <1>1, <1>2, <1>3 DEF Smaller
<1>5. Moved(units, range, count) = [begin |-> units[index], end |-> units[stop]]
  BY DEF Moved
<1> HIDE DEF index, stop
<1> QED BY <1>4, <1>5, UnitsBound

\* An endpoint that is set inside the text leaves a range inside the text.
LEMMA WithEndpointWithin ==
  ASSUME NEW U, U \subseteq Nat, NEW range, Within(U, range), NEW endpoint, NEW offset \in U
  PROVE  Within(U, WithEndpoint(range, endpoint, offset))
BY DEF Within, WithEndpoint, Larger, Smaller

\* MoveEndpointByUnit stays inside the text.
LEMMA EndpointMovedWithin ==
  ASSUME NEW units, Ascending(units), NEW U, U \subseteq Nat, ToSet(units) \subseteq U, NEW range, Within(U, range),
         NEW endpoint \in {"begin", "end"}, NEW count \in Int
  PROVE  Within(U, EndpointMoved(units, range, endpoint, count))
<1> DEFINE offset == range[endpoint]
           found == LowerBound(units, offset)
           initial == IF count > 0 /\ found <= Len(units) /\ units[found] # offset THEN found - 1 ELSE found
           index == Clamp(initial + count, 1, Len(units))
<1>1. units \in Seq(Nat) /\ Len(units) \in Nat /\ Len(units) > 0 /\ found \in Nat
  BY LowerBoundIsPlace DEF Ascending
<1>2. initial \in Int
  <2> HIDE DEF found
  <2> QED BY <1>1
<1>3. index \in 1 .. Len(units)
  <2> HIDE DEF initial
  <2> QED BY <1>1, <1>2 DEF Clamp, Larger, Smaller
<1>4. units[index] \in U
  <2> HIDE DEF index
  <2> QED BY <1>1, <1>3 DEF ToSet
<1>5. EndpointMoved(units, range, endpoint, count) = WithEndpoint(range, endpoint, units[index])
  BY DEF EndpointMoved
<1> HIDE DEF index
<1> QED BY <1>4, <1>5, WithEndpointWithin

\* What the assumption on the texts says of the units of one generation.
LEMMA TextFacts ==
  ASSUME NEW g \in DOMAIN Texts
  PROVE  /\ g \in Nat \ {0}
         /\ \A u \in Units : Ascending(Texts[g][u]) /\ ToSet(Texts[g][u]) \subseteq ToSet(Texts[g]["character"])
         /\ ToSet(Texts[g]["character"]) \subseteq Nat
<1>1. g \in Nat \ {0} /\ Texts[g] \in [Units -> Seq(Nat)] /\ "character" \in Units
  BY TextAssumption
<1>2. ASSUME NEW u \in Units
      PROVE  Ascending(Texts[g][u]) /\ ToSet(Texts[g][u]) \subseteq ToSet(Texts[g]["character"])
  BY <1>1, TextAssumption DEF Ascending
<1>3. Texts[g]["character"] \in Seq(Nat)
  BY <1>1
<1>4. ToSet(Texts[g]["character"]) \subseteq Nat
  BY <1>3 DEF ToSet
<1> QED BY <1>1, <1>2, <1>4

-----------------------------------------------------------------------------
(* The pool.                                                               *)

Holders(s) == {c \in TextClients : holds[c][s] = 1}
Chars(g) == ToSet(Texts[g]["character"])

SlotType == [available : BOOLEAN, references : Nat, generation : Nat, bounds : [begin : Nat, end : Nat]]

RangeType ==
  /\ textGeneration \in 0 .. Len(Texts)
  /\ slot \in [Slots -> SlotType]
  /\ holds \in [TextClients -> [Slots -> {0, 1}]]
  /\ given \in [Slots -> [begin : Nat, end : Nat]]
  /\ task = [c \in TextClients |-> task[c]]

\* The references of an object are those of its holders; a held one is a range of some text,
\* where its holders left it.
SlotSound(s) ==
  /\ slot[s].references = Cardinality(Holders(s))
  /\ slot[s].available => Holders(s) = {}
  /\ Holders(s) # {} => /\ slot[s].generation \in DOMAIN Texts /\ slot[s].bounds = given[s]
                        /\ Within(Chars(slot[s].generation), slot[s].bounds)

\* An operation on a range of generation g works with the units of that text.
EditSound(edit, g) ==
  /\ edit.op \in {"expand", "move", "endpoint", "byRange"}
  /\ edit.units \in {Texts[g][u] : u \in Units}
  /\ edit.count \in Int /\ edit.endpoint \in {"begin", "end"}
  /\ edit.op = "byRange" => edit.offset \in Chars(g)

Returning(c) == task[c].pc \in {"resetting", "freeing"}

\* One client returns an object that nobody holds any more; whoever moves a range holds it.
TaskSound(c) ==
  /\ task[c].pc \in {"idle", "resetting", "freeing", "exchanging"}
  /\ Returning(c) =>
       /\ task[c].s \in Slots /\ ~slot[task[c].s].available /\ Holders(task[c].s) = {}
       /\ \A d \in TextClients \ {c} : Returning(d) => task[d].s # task[c].s
  /\ task[c].pc = "exchanging" =>
       /\ task[c] = [pc |-> "exchanging", s |-> task[c].s, edit |-> task[c].edit, old |-> task[c].old,
                     attempt |-> task[c].attempt]
       /\ task[c].s \in Slots /\ holds[c][task[c].s] = 1
       /\ EditSound(task[c].edit, slot[task[c].s].generation)
       /\ Within(Chars(slot[task[c].s].generation), task[c].old)

RangeInv ==
  /\ RangeType
  /\ \A s \in Slots : SlotSound(s)
  /\ \A c \in TextClients : TaskSound(c)

\* An operation that fits the text makes bounds of the text out of bounds of the text.
LEMMA NextBoundsWithin ==
  ASSUME NEW g \in DOMAIN Texts, NEW edit, EditSound(edit, g), NEW range, Within(Chars(g), range)
  PROVE  Within(Chars(g), NextBounds(edit, range))
<1>1. Chars(g) \subseteq Nat
  BY TextFacts DEF Chars
<1>2. PICK u \in Units : edit.units = Texts[g][u]
  BY DEF EditSound
<1>3. Ascending(edit.units) /\ ToSet(edit.units) \subseteq Chars(g)
  BY <1>2, TextFacts DEF Chars
<1>4. edit.count \in Int /\ edit.endpoint \in {"begin", "end"}
  BY DEF EditSound
<1>5. CASE edit.op = "expand"
  BY <1>3, <1>5, ExpandedWithin DEF NextBounds
<1>6. CASE edit.op = "move"
  BY <1>3, <1>4, <1>6, MovedWithin DEF NextBounds
<1>7. CASE edit.op = "endpoint"
  BY <1>1, <1>3, <1>4, <1>7, EndpointMovedWithin DEF NextBounds
<1>8. CASE edit.op = "byRange"
  BY <1>1, <1>8, WithEndpointWithin DEF NextBounds, EditSound
<1> QED BY <1>5, <1>6, <1>7, <1>8 DEF EditSound

\* The holders of a range can be counted.
LEMMA HoldersFinite ==
  ASSUME NEW s PROVE IsFiniteSet(Holders(s)) /\ Cardinality(Holders(s)) \in Nat
<1>1. Holders(s) \subseteq TextClients
  BY DEF Holders
<1> QED BY <1>1, TextAssumption, FS_Subset, FS_CardinalityType

\* The invariant by objects, clients and references.
LEMMA RangeFacts ==
  ASSUME RangeInv
  PROVE  /\ \A s \in Slots : SlotSound(s)
         /\ \A s \in Slots : /\ slot[s].references \in Nat /\ slot[s].available \in BOOLEAN
                             /\ slot[s].bounds \in [begin : Nat, end : Nat] /\ slot[s].generation \in Nat
                             /\ given[s] \in [begin : Nat, end : Nat]
         /\ \A c \in TextClients : TaskSound(c)
         /\ \A c \in TextClients, s \in Slots : /\ holds[c][s] \in {0, 1} /\ (Held(c, s) <=> c \in Holders(s))
                                                /\ (Held(c, s) <=> holds[c][s] = 1)
<1>1. \A c \in TextClients, s \in Slots : holds[c][s] \in {0, 1}
  BY DEF RangeInv, RangeType, SlotType
<1>2. \A c \in TextClients, s \in Slots : Held(c, s) <=> holds[c][s] = 1
  BY <1>1 DEF Held
<1>3. \A s \in Slots : /\ slot[s].references \in Nat /\ slot[s].available \in BOOLEAN
                       /\ slot[s].bounds \in [begin : Nat, end : Nat] /\ slot[s].generation \in Nat
                       /\ given[s] \in [begin : Nat, end : Nat]
  BY DEF RangeInv, RangeType, SlotType
<1> QED BY <1>1, <1>2, <1>3 DEF RangeInv, Holders

\* What the updates of an object leave alone.
LEMMA SlotUpdate ==
  ASSUME NEW x \in SlotType
  PROVE  /\ [x EXCEPT !.generation = 0, !.bounds = Nowhere] \in SlotType
         /\ [x EXCEPT !.generation = 0, !.bounds = Nowhere].references = x.references
         /\ [x EXCEPT !.generation = 0, !.bounds = Nowhere].available = x.available
         /\ [x EXCEPT !.available = TRUE] \in SlotType
         /\ [x EXCEPT !.available = TRUE].references = x.references
<1>1. Nowhere \in [begin : Nat, end : Nat]
  BY DEF Nowhere
<1>2. ASSUME NEW b \in [begin : Nat, end : Nat]
      PROVE  /\ [x EXCEPT !.generation = 0, !.bounds = b] \in SlotType
             /\ [x EXCEPT !.generation = 0, !.bounds = b].references = x.references
             /\ [x EXCEPT !.generation = 0, !.bounds = b].available = x.available
  BY DEF SlotType
<1>3. [x EXCEPT !.available = TRUE] \in SlotType /\ [x EXCEPT !.available = TRUE].references = x.references
  BY DEF SlotType
<1> QED BY <1>1, <1>2, <1>3

\* A step that leaves the task of a client alone, and what its task stands on.
LEMMA TaskKept ==
  ASSUME NEW d \in TextClients, TaskSound(d), task'[d] = task[d],
         Returning(d) =>
           /\ ~slot'[task[d].s].available /\ Holders(task[d].s)' = {}
           /\ \A x \in TextClients \ {d} : Returning(x)' => task'[x].s # task[d].s,
         task[d].pc = "exchanging" =>
           holds'[d][task[d].s] = 1 /\ slot'[task[d].s].generation = slot[task[d].s].generation
  PROVE  TaskSound(d)'
<1>1. /\ task'[d].pc \in {"idle", "resetting", "freeing", "exchanging"}
      /\ Returning(d)' <=> Returning(d)
  BY DEF TaskSound, Returning
<1>2. Returning(d)' =>
        /\ task'[d].s \in Slots /\ ~slot'[task'[d].s].available /\ Holders(task[d].s)' = {}
        /\ \A x \in TextClients \ {d} : Returning(x)' => task'[x].s # task'[d].s
  BY <1>1 DEF TaskSound
<1>3. (task'[d].pc = "exchanging") =>
        /\ task'[d] = [pc |-> "exchanging", s |-> task'[d].s, edit |-> task'[d].edit, old |-> task'[d].old,
                       attempt |-> task'[d].attempt]
        /\ task'[d].s \in Slots /\ holds'[d][task'[d].s] = 1
        /\ EditSound(task'[d].edit, slot'[task'[d].s].generation)
        /\ Within(Chars(slot'[task'[d].s].generation), task'[d].old)
  BY <1>1 DEF TaskSound
<1> QED BY <1>1, <1>2, <1>3 DEF TaskSound, Returning, Holders, Chars, EditSound

\* A step that leaves an object and its holders alone.
LEMMA SlotKept ==
  ASSUME NEW s \in Slots, SlotSound(s), slot'[s] = slot[s], given'[s] = given[s], Holders(s)' = Holders(s)
  PROVE  SlotSound(s)'
<1>1. Cardinality(Holders(s)') = Cardinality(Holders(s))
  OBVIOUS
<1>2. Chars(slot[s].generation)' = Chars(slot[s].generation)
  BY DEF Chars
<1> QED BY <1>1, <1>2 DEF SlotSound, Chars

\* A leased object belongs to one client, with bounds of the published text (UiaState::range).
LEMMA LeaseKeeps ==
  ASSUME RangeInv, NEW c \in TextClients, Lease(c) PROVE RangeInv'
<1> DEFINE g == textGeneration
<1>1. PICK s \in Slots, b \in Chars(g), e \in Chars(g) :
        /\ slot[s].available /\ b <= e
        /\ slot' = [slot EXCEPT ![s] = [available |-> FALSE, references |-> 1, generation |-> g,
                                        bounds |-> [begin |-> b, end |-> e]]]
        /\ given' = [given EXCEPT ![s] = [begin |-> b, end |-> e]]
        /\ holds' = [holds EXCEPT ![c][s] = 1]
  BY DEF Lease, Chars
<1>2. g # 0 /\ UNCHANGED <<textGeneration, task>>
  BY DEF Lease
<1>3. g \in DOMAIN Texts /\ b \in Nat /\ e \in Nat
  <2>1. g \in DOMAIN Texts
    BY <1>2, TextAssumption DEF RangeInv, RangeType, SlotType
  <2> QED BY <2>1, TextFacts DEF Chars
<1>4. RangeType'
  <2>1. g \in Nat
    BY <1>3, TextFacts
  <2>2. slot' \in [Slots -> SlotType]
    BY <1>1, <1>3, <2>1 DEF RangeInv, RangeType, SlotType
  <2>3. given' \in [Slots -> [begin : Nat, end : Nat]]
    BY <1>1, <1>3 DEF RangeInv, RangeType, SlotType
  <2>4. holds' \in [TextClients -> [Slots -> {0, 1}]]
    BY <1>1 DEF RangeInv, RangeType, SlotType
  <2> QED BY <1>2, <2>2, <2>3, <2>4 DEF RangeInv, RangeType, SlotType
<1>5. Holders(s) = {} /\ Holders(s)' = {c} /\ \A x \in Slots \ {s} : Holders(x)' = Holders(x)
  <2>1. Holders(s) = {}
    BY <1>1, RangeFacts DEF SlotSound
  <2> QED BY <1>1, <2>1 DEF Holders, RangeInv, RangeType, SlotType
<1>6. /\ slot'[s] = [available |-> FALSE, references |-> 1, generation |-> g, bounds |-> [begin |-> b, end |-> e]]
      /\ given'[s] = [begin |-> b, end |-> e]
      /\ \A x \in Slots \ {s} : slot'[x] = slot[x] /\ given'[x] = given[x]
  BY <1>1 DEF RangeInv, RangeType, SlotType
<1>7. ASSUME NEW x \in Slots PROVE SlotSound(x)'
  <2>1. CASE x = s
    <3>1. Cardinality({c}) = 1
      BY FS_Singleton
    <3>2. Within(Chars(g), [begin |-> b, end |-> e])
      BY <1>1, <1>3 DEF Within
    <3> QED BY <1>2, <1>3, <1>5, <1>6, <2>1, <3>1, <3>2 DEF SlotSound, Chars
  <2>2. CASE x # s
    BY <1>5, <1>6, <2>2, SlotKept, RangeFacts
  <2> QED BY <2>1, <2>2
<1>8. ASSUME NEW d \in TextClients PROVE TaskSound(d)'
  <2>1. TaskSound(d)
    BY RangeFacts
  <2>2. Returning(d) => task[d].s \in Slots \ {s}
    BY <1>1, <2>1 DEF TaskSound
  <2>3. task[d].pc = "exchanging" => task[d].s \in Slots \ {s}
    BY <1>5, <2>1 DEF TaskSound, Holders
  <2>4. task[d].pc = "exchanging" => holds'[d][task[d].s] = 1
    BY <1>1, <2>1, <2>3 DEF TaskSound, RangeInv, RangeType, SlotType
  <2>5. \A y \in TextClients : Returning(y)' <=> Returning(y)
    BY <1>2 DEF Returning
  <2> QED BY <1>2, <1>5, <1>6, <2>1, <2>2, <2>3, <2>4, <2>5, TaskKept DEF TaskSound
<1> QED BY <1>4, <1>7, <1>8 DEF RangeInv

\* A shared object counts its new holder (AddRef).
LEMMA ShareKeeps ==
  ASSUME RangeInv, NEW c \in TextClients, Share(c) PROVE RangeInv'
<1>1. PICK s \in Slots, e \in TextClients \ {c} :
        /\ Held(c, s) /\ ~Held(e, s)
        /\ slot' = [slot EXCEPT ![s].references = @ + 1]
        /\ holds' = [holds EXCEPT ![e][s] = 1]
  BY DEF Share
<1>2. UNCHANGED <<textGeneration, task, given>>
  BY DEF Share
<1>3. slot'[s] = [slot[s] EXCEPT !.references = slot[s].references + 1]
      /\ \A x \in Slots \ {s} : slot'[x] = slot[x]
  BY <1>1 DEF RangeInv, RangeType, SlotType
<1>4. /\ slot'[s].references = slot[s].references + 1 /\ slot'[s].available = slot[s].available
      /\ slot'[s].generation = slot[s].generation /\ slot'[s].bounds = slot[s].bounds
  BY <1>3 DEF RangeInv, RangeType, SlotType
<1>5. RangeType'
  <2>1. slot' \in [Slots -> SlotType]
    <3>1. slot[s] \in SlotType
      BY DEF RangeInv, RangeType, SlotType
    <3>2. slot'[s] \in SlotType
      BY <1>3, <3>1 DEF SlotType
    <3> QED BY <1>1, <1>3, <3>2 DEF RangeInv, RangeType, SlotType
  <2>2. holds' \in [TextClients -> [Slots -> {0, 1}]]
    BY <1>1 DEF RangeInv, RangeType, SlotType
  <2> QED BY <1>2, <2>1, <2>2 DEF RangeInv, RangeType, SlotType
<1>6. /\ c \in Holders(s) /\ e \notin Holders(s) /\ Holders(s)' = Holders(s) \cup {e}
      /\ \A x \in Slots \ {s} : Holders(x)' = Holders(x)
  BY <1>1, RangeFacts DEF Holders, RangeInv, RangeType, SlotType
<1>7. ASSUME NEW x \in Slots PROVE SlotSound(x)'
  <2>1. CASE x = s
    <3>1. Cardinality(Holders(s)') = Cardinality(Holders(s)) + 1
      <4>1. IsFiniteSet(Holders(s))
        BY HoldersFinite
      <4>2. Cardinality(Holders(s) \cup {e}) = Cardinality(Holders(s)) + 1
        BY <1>6, <4>1, FS_AddElement
      <4> QED BY <1>6, <4>2
    <3>2. SlotSound(s) /\ Holders(s) # {}
      BY <1>6, RangeFacts
    <3>3. /\ slot'[s].references = Cardinality(Holders(s)') /\ ~slot'[s].available
          /\ slot'[s].generation \in DOMAIN Texts /\ slot'[s].bounds = given'[s]
          /\ Within(Chars(slot'[s].generation), slot'[s].bounds)
      BY <1>2, <1>4, <3>1, <3>2 DEF SlotSound
    <3> QED BY <2>1, <3>3 DEF SlotSound, Chars
  <2>2. CASE x # s
    BY <1>2, <1>3, <1>6, <2>2, SlotKept, RangeFacts
  <2> QED BY <2>1, <2>2
<1>8. ASSUME NEW d \in TextClients PROVE TaskSound(d)'
  <2>1. TaskSound(d)
    BY RangeFacts
  <2>2. Returning(d) => task[d].s \in Slots \ {s}
    BY <1>6, <2>1 DEF TaskSound
  <2>3. task[d].pc = "exchanging" =>
          task[d].s \in Slots /\ holds'[d][task[d].s] = 1 /\ slot'[task[d].s].generation = slot[task[d].s].generation
    BY <1>1, <1>3, <1>4, <2>1 DEF TaskSound, RangeInv, RangeType, SlotType
  <2>4. \A y \in TextClients : Returning(y)' <=> Returning(y)
    BY <1>2 DEF Returning
  <2> QED BY <1>2, <1>3, <1>6, <2>1, <2>2, <2>3, <2>4, TaskKept DEF TaskSound
<1> QED BY <1>5, <1>7, <1>8 DEF RangeInv

\* The last holder, and no other, is left with the return of the object (Release).
LEMMA ReleaseKeeps ==
  ASSUME RangeInv, NEW c \in TextClients, Release(c) PROVE RangeInv'
<1>1. PICK s \in Slots :
        /\ Held(c, s)
        /\ holds' = [holds EXCEPT ![c][s] = 0]
        /\ slot' = [slot EXCEPT ![s].references = @ - 1]
        /\ task' = [task EXCEPT ![c] = IF slot[s].references = 1 THEN [pc |-> "resetting", s |-> s] ELSE NoTask]
  BY DEF Release
<1>2. task[c].pc = "idle" /\ UNCHANGED <<textGeneration, given>>
  BY DEF Release
<1>3. /\ \A x \in Slots \ {s} : slot'[x] = slot[x]
      /\ slot'[s] = [slot[s] EXCEPT !.references = slot[s].references - 1]
      /\ \A d \in TextClients \ {c} : task'[d] = task[d]
      /\ task'[c] = IF slot[s].references = 1 THEN [pc |-> "resetting", s |-> s] ELSE NoTask
  BY <1>1 DEF RangeInv, RangeType, SlotType
<1>4. /\ slot'[s].references = slot[s].references - 1 /\ slot'[s].available = slot[s].available
      /\ slot'[s].generation = slot[s].generation /\ slot'[s].bounds = slot[s].bounds
  BY <1>3 DEF RangeInv, RangeType, SlotType
<1>5. /\ c \in Holders(s) /\ Holders(s)' = Holders(s) \ {c}
      /\ \A x \in Slots \ {s} : Holders(x)' = Holders(x)
  BY <1>1, RangeFacts DEF Holders, RangeInv, RangeType, SlotType
<1>6. /\ SlotSound(s) /\ ~slot[s].available /\ slot[s].references \in Nat \ {0}
      /\ slot[s].references = Cardinality(Holders(s))
      /\ Cardinality(Holders(s)') = slot[s].references - 1
  <2>1. SlotSound(s) /\ ~slot[s].available /\ slot[s].references = Cardinality(Holders(s))
        /\ slot[s].references \in Nat
    BY <1>5, RangeFacts DEF SlotSound
  <2>2. IsFiniteSet(Holders(s))
    BY HoldersFinite
  <2>3. Cardinality(Holders(s)) # 0
    BY <1>5, <2>2, FS_EmptySet
  <2>4. Cardinality(Holders(s) \ {c}) = Cardinality(Holders(s)) - 1
    BY <1>5, <2>2, FS_RemoveElement
  <2> QED BY <1>5, <2>1, <2>3, <2>4
<1>7. slot[s].references = 1 => Holders(s)' = {}
  <2>1. IsFiniteSet(Holders(s) \ {c})
    BY HoldersFinite, FS_RemoveElement
  <2> QED BY <1>5, <1>6, <2>1, FS_EmptySet
<1>8. RangeType'
  <2>1. slot' \in [Slots -> SlotType]
    <3>1. slot[s] \in SlotType
      BY DEF RangeInv, RangeType, SlotType
    <3>2. slot'[s] \in SlotType
      BY <1>3, <1>6, <3>1 DEF SlotType
    <3> QED BY <1>1, <1>3, <3>2 DEF RangeInv, RangeType, SlotType
  <2>2. holds' \in [TextClients -> [Slots -> {0, 1}]]
    BY <1>1 DEF RangeInv, RangeType, SlotType
  <2>3. task' = [d \in TextClients |-> task'[d]]
    BY <1>1 DEF RangeInv, RangeType, SlotType
  <2> QED BY <1>2, <2>1, <2>2, <2>3 DEF RangeInv, RangeType, SlotType
<1>9. ASSUME NEW x \in Slots PROVE SlotSound(x)'
  <2>1. CASE x = s
    <3>1. /\ slot'[s].references = Cardinality(Holders(s)') /\ ~slot'[s].available
          /\ slot'[s].generation \in DOMAIN Texts /\ slot'[s].bounds = given'[s]
          /\ Within(Chars(slot'[s].generation), slot'[s].bounds)
      BY <1>2, <1>4, <1>5, <1>6 DEF SlotSound
    <3> QED BY <2>1, <3>1 DEF SlotSound, Chars
  <2>2. CASE x # s
    BY <1>2, <1>3, <1>5, <2>2, SlotKept, RangeFacts
  <2> QED BY <2>1, <2>2
<1>10. \A d \in TextClients : Returning(d) => task[d].s \in Slots \ {s} /\ d # c
  BY <1>2, <1>5, RangeFacts DEF TaskSound, Returning
<1>11. ASSUME NEW d \in TextClients PROVE TaskSound(d)'
  <2>1. CASE d = c
    <3>1. CASE slot[s].references = 1
      <4>1. task'[c].pc = "resetting" /\ task'[c].s = s
        BY <1>3, <3>1
      <4>2. \A x \in TextClients \ {c} : Returning(x)' => task'[x].s # s
        BY <1>3, <1>10 DEF Returning
      <4>3. ~slot'[s].available /\ Holders(s)' = {}
        BY <1>4, <1>6, <1>7, <3>1
      <4> QED BY <2>1, <4>1, <4>2, <4>3 DEF TaskSound, Returning, Holders
    <3>2. CASE slot[s].references # 1
      <4>1. task'[c].pc = "idle"
        BY <1>3, <3>2 DEF NoTask
      <4> QED BY <2>1, <4>1 DEF TaskSound, Returning
    <3> QED BY <3>1, <3>2
  <2>2. CASE d # c
    <3>1. TaskSound(d) /\ task'[d] = task[d]
      BY <1>3, <2>2, RangeFacts
    <3>2. Returning(d) => \A x \in TextClients \ {d} : Returning(x)' => task'[x].s # task[d].s
      <4>1. ASSUME Returning(d), NEW x \in TextClients \ {d}, Returning(x)' PROVE task'[x].s # task[d].s
        <5>1. CASE x = c
          <6>1. task'[c].s = s
            BY <1>3, <4>1, <5>1 DEF Returning, NoTask
          <6> QED BY <1>10, <4>1, <5>1, <6>1
        <5>2. CASE x # c
          BY <1>3, <3>1, <4>1, <5>2 DEF TaskSound, Returning
        <5> QED BY <5>1, <5>2
      <4> QED BY <4>1
    <3>3. Returning(d) => ~slot'[task[d].s].available /\ Holders(task[d].s)' = {}
      BY <1>3, <1>5, <1>10, <3>1 DEF TaskSound
    <3>4. task[d].pc = "exchanging" =>
            holds'[d][task[d].s] = 1 /\ slot'[task[d].s].generation = slot[task[d].s].generation
      BY <1>1, <1>3, <1>4, <2>2, <3>1 DEF TaskSound, RangeInv, RangeType, SlotType
    <3> QED BY <3>1, <3>2, <3>3, <3>4, TaskKept
  <2> QED BY <2>1, <2>2
<1> QED BY <1>8, <1>9, <1>11 DEF RangeInv

\* The object is nobody's while it is returned.
LEMMA ReturnKeeps ==
  ASSUME RangeInv, NEW c \in TextClients, Reset(c) \/ Free(c) PROVE RangeInv'
<1>0. PICK s : s = task[c].s
  OBVIOUS
<1>1. /\ Returning(c) /\ UNCHANGED <<textGeneration, holds, given>>
      /\ task' = [task EXCEPT ![c] = [pc |-> "freeing", s |-> s]] \/ task' = [task EXCEPT ![c] = NoTask]
      /\ \/ task' = [task EXCEPT ![c] = [pc |-> "freeing", s |-> s]]
            /\ slot' = [slot EXCEPT ![s] = [slot[s] EXCEPT !.generation = 0, !.bounds = Nowhere]]
         \/ task' = [task EXCEPT ![c] = NoTask]
            /\ slot' = [slot EXCEPT ![s].available = TRUE]
  BY <1>0 DEF Reset, Free, Returning
<1>2. /\ s \in Slots /\ ~slot[s].available /\ Holders(s) = {}
      /\ \A d \in TextClients \ {c} : Returning(d) => task[d].s # s
  BY <1>0, <1>1, RangeFacts DEF TaskSound
<1>3. /\ \A x \in Slots \ {s} : slot'[x] = slot[x]
      /\ \A d \in TextClients \ {c} : task'[d] = task[d]
      /\ slot'[s] = [slot[s] EXCEPT !.generation = 0, !.bounds = Nowhere] \/ slot'[s] = [slot[s] EXCEPT !.available = TRUE]
      /\ slot[s] \in SlotType
  BY <1>1, <1>2 DEF RangeInv, RangeType, SlotType
<1>4. /\ slot'[s] \in SlotType
      /\ slot'[s].references = slot[s].references
  BY <1>3, SlotUpdate
<1>5. \A x : Holders(x)' = Holders(x)
  BY <1>1 DEF Holders
<1>6. RangeType'
  <2>1. slot' \in [Slots -> SlotType]
    <3>1. slot' = [x \in Slots |-> slot'[x]]
      BY <1>1, <1>2 DEF RangeInv, RangeType, SlotType
    <3>2. \A x \in Slots : slot'[x] \in SlotType
      BY <1>3, <1>4 DEF RangeInv, RangeType, SlotType
    <3> QED BY <3>1, <3>2
  <2>2. task' = [d \in TextClients |-> task'[d]]
    BY <1>1 DEF RangeInv, RangeType, SlotType
  <2> QED BY <1>1, <2>1, <2>2 DEF RangeInv, RangeType, SlotType
<1>7. ASSUME NEW x \in Slots PROVE SlotSound(x)'
  <2>1. CASE x = s
    <3>1. slot[s].references = Cardinality(Holders(s))
      BY <1>2, RangeFacts DEF SlotSound
    <3> QED BY <1>2, <1>4, <1>5, <2>1, <3>1 DEF SlotSound
  <2>2. CASE x # s
    BY <1>1, <1>3, <1>5, <2>2, SlotKept, RangeFacts
  <2> QED BY <2>1, <2>2
<1>8. ASSUME NEW d \in TextClients \ {c} PROVE TaskSound(d)'
  <2>1. TaskSound(d) /\ task'[d] = task[d]
    BY <1>3, RangeFacts
  <2>2. Returning(d) => task[d].s \in Slots \ {s} /\ ~slot[task[d].s].available /\ Holders(task[d].s) = {}
    BY <1>2, <2>1 DEF TaskSound
  <2>3. Returning(d) => \A x \in TextClients \ {d} : Returning(x)' => task'[x].s # task[d].s
    <3>1. ASSUME Returning(d), NEW x \in TextClients \ {d}, Returning(x)' PROVE task'[x].s # task[d].s
      <4>1. CASE x = c
        <5>1. task'[c] = [pc |-> "freeing", s |-> s] \/ task'[c] = NoTask
          BY <1>1 DEF RangeInv, RangeType, SlotType
        <5>2. task'[c].s = s
          BY <3>1, <4>1, <5>1 DEF Returning, NoTask
        <5> QED BY <2>2, <3>1, <4>1, <5>2
      <4>2. CASE x # c
        BY <1>3, <2>1, <3>1, <4>2 DEF TaskSound, Returning
      <4> QED BY <4>1, <4>2
    <3> QED BY <3>1
  <2>4. task[d].pc = "exchanging" =>
          holds'[d][task[d].s] = 1 /\ slot'[task[d].s].generation = slot[task[d].s].generation
    <3>1. ASSUME task[d].pc = "exchanging"
          PROVE  holds'[d][task[d].s] = 1 /\ slot'[task[d].s].generation = slot[task[d].s].generation
      <4>1. task[d].s \in Slots /\ d \in Holders(task[d].s)
        BY <2>1, <3>1 DEF TaskSound, Holders
      <4>2. task[d].s # s
        BY <1>2, <4>1
      <4> QED BY <1>1, <1>3, <4>1, <4>2 DEF Holders
    <3> QED BY <3>1
  <2> QED BY <1>3, <1>5, <2>1, <2>2, <2>3, <2>4, TaskKept
<1>9. TaskSound(c)'
  <2>1. CASE task'[c] = NoTask
    BY <2>1 DEF NoTask, TaskSound, Returning
  <2>2. CASE task'[c] = [pc |-> "freeing", s |-> s] /\ slot'[s] = [slot[s] EXCEPT !.generation = 0, !.bounds = Nowhere]
    <3>1. ~slot'[s].available /\ Holders(s)' = {}
      <4>1. slot'[s].available = slot[s].available
        BY <1>3, <2>2, SlotUpdate
      <4> QED BY <1>2, <1>5, <4>1
    <3>2. \A x \in TextClients \ {c} : Returning(x)' => task'[x].s # s
      BY <1>2, <1>3 DEF Returning
    <3>3. task'[c].pc = "freeing" /\ task'[c].s = s
      BY <2>2
    <3> QED BY <1>2, <3>1, <3>2, <3>3 DEF TaskSound, Returning, Holders
  <2>3. \/ task'[c] = NoTask
        \/ task'[c] = [pc |-> "freeing", s |-> s] /\ slot'[s] = [slot[s] EXCEPT !.generation = 0, !.bounds = Nowhere]
    <3>1. \A v : task' = [task EXCEPT ![c] = v] => task'[c] = v
      BY DEF RangeInv, RangeType, SlotType
    <3>2. \A v : slot' = [slot EXCEPT ![s] = v] => slot'[s] = v
      BY <1>2 DEF RangeInv, RangeType, SlotType
    <3> QED BY <1>1, <3>1, <3>2
  <2> QED BY <2>1, <2>2, <2>3
<1> QED BY <1>6, <1>7, <1>8, <1>9 DEF RangeInv

\* The edits that a client may begin, by the shape of their records.
Expands == [op : {"expand"}, units : {Texts[textGeneration][u] : u \in Units}, count : {0},
            endpoint : {"begin"}, offset : {0}]
Moves == [op : {"move"}, units : {Texts[textGeneration][u] : u \in Units}, count : Counts,
          endpoint : {"begin"}, offset : {0}]
EndMoves == [op : {"endpoint"}, units : {Texts[textGeneration][u] : u \in Units}, count : Counts,
             endpoint : {"begin", "end"}, offset : {0}]
EndsByRange(c) == [op : {"byRange"}, units : {Texts[textGeneration]["document"]}, count : {0},
                   endpoint : {"begin", "end"},
                   offset : UNION {{slot[t].bounds.begin, slot[t].bounds.end} : t \in {t \in Slots : Held(c, t) /\ Current(t)}}]

\* Every edit that a client may begin fits the text of the published snapshot.
LEMMA EditsFit ==
  ASSUME RangeInv, NEW c \in TextClients, textGeneration \in DOMAIN Texts,
         NEW edit \in Expands \cup Moves \cup EndMoves \cup EndsByRange(c)
  PROVE  EditSound(edit, textGeneration)
<1>1. "document" \in Units /\ \A n \in Counts : n \in Int
  BY TextAssumption
<1>2. CASE edit \in Expands
  <2>1. /\ edit.op = "expand" /\ edit.units \in {Texts[textGeneration][u] : u \in Units} /\ edit.count = 0
        /\ edit.endpoint = "begin"
    BY <1>2 DEF Expands
  <2> QED BY <2>1 DEF EditSound
<1>3. CASE edit \in Moves
  <2>1. /\ edit.op = "move" /\ edit.units \in {Texts[textGeneration][u] : u \in Units} /\ edit.count \in Counts
        /\ edit.endpoint = "begin"
    BY <1>3 DEF Moves
  <2> QED BY <1>1, <2>1 DEF EditSound
<1>4. CASE edit \in EndMoves
  <2>1. /\ edit.op = "endpoint" /\ edit.units \in {Texts[textGeneration][u] : u \in Units} /\ edit.count \in Counts
        /\ edit.endpoint \in {"begin", "end"}
    BY <1>4 DEF EndMoves
  <2> QED BY <1>1, <2>1 DEF EditSound
<1>5. CASE edit \in EndsByRange(c)
  <2>1. /\ edit.op = "byRange" /\ edit.units = Texts[textGeneration]["document"] /\ edit.count = 0
        /\ edit.endpoint \in {"begin", "end"}
        /\ edit.offset \in UNION {{slot[t].bounds.begin, slot[t].bounds.end} : t \in {t \in Slots : Held(c, t) /\ Current(t)}}
    BY <1>5 DEF EndsByRange
  <2>2. PICK t \in Slots : Held(c, t) /\ Current(t) /\ edit.offset \in {slot[t].bounds.begin, slot[t].bounds.end}
    BY <2>1
  <2>3. c \in Holders(t)
    BY <2>2, RangeFacts
  <2>4. slot[t].generation = textGeneration /\ Within(Chars(textGeneration), slot[t].bounds)
    BY <2>2, <2>3, RangeFacts DEF Current, SlotSound
  <2>5. edit.offset \in Chars(textGeneration)
    BY <2>2, <2>4 DEF Within
  <2> QED BY <1>1, <2>1, <2>5 DEF EditSound
<1> QED BY <1>2, <1>3, <1>4, <1>5

\* An operation begins with a fitting edit and the bounds of its own range (TextRangeProvider::query).
LEMMA BeginEditKeeps ==
  ASSUME RangeInv, NEW c \in TextClients, BeginEdit(c) PROVE RangeInv'
<1>a. PICK s \in Slots, edit \in Expands \cup Moves \cup EndMoves \cup EndsByRange(c) :
        /\ Held(c, s) /\ Current(s)
        /\ task' = [task EXCEPT ![c] =
             [pc |-> "exchanging", s |-> s, edit |-> edit, old |-> slot[s].bounds, attempt |-> 1]]
  BY Zenon DEF BeginEdit, Expands, Moves, EndMoves, EndsByRange
<1>1. /\ Held(c, s) /\ Current(s)
      /\ task' = [task EXCEPT ![c] =
           [pc |-> "exchanging", s |-> s, edit |-> edit, old |-> slot[s].bounds, attempt |-> 1]]
  BY <1>a
<1>2. task[c].pc = "idle" /\ UNCHANGED <<textGeneration, slot, holds, given>>
  BY DEF BeginEdit
<1>3. \A x : Holders(x)' = Holders(x)
  BY <1>2 DEF Holders
<1>4. /\ slot[s].generation = textGeneration /\ textGeneration \in DOMAIN Texts /\ holds[c][s] = 1
      /\ Within(Chars(textGeneration), slot[s].bounds)
  BY <1>1, RangeFacts DEF Current, SlotSound
<1>6. EditSound(edit, textGeneration)
  BY <1>4, EditsFit
<1>7. task'[c] = [pc |-> "exchanging", s |-> s, edit |-> edit, old |-> slot[s].bounds, attempt |-> 1]
      /\ \A d \in TextClients \ {c} : task'[d] = task[d]
  BY <1>1 DEF RangeInv, RangeType, SlotType
<1>8. RangeType'
  <2>1. task' = [d \in TextClients |-> task'[d]]
    BY <1>1 DEF RangeInv, RangeType
  <2> QED BY <1>2, <2>1 DEF RangeInv, RangeType, SlotType
<1>9. ASSUME NEW x \in Slots PROVE SlotSound(x)'
  BY <1>2, <1>3, SlotKept, RangeFacts
<1>10. TaskSound(c)'
  <2>1. /\ task'[c].pc = "exchanging" /\ task'[c].s = s /\ task'[c].edit = edit /\ task'[c].old = slot[s].bounds
        /\ task'[c].attempt = 1
    BY <1>7
  <2>2. /\ holds'[c][s] = 1 /\ EditSound(edit, slot'[s].generation)
        /\ Within(Chars(slot'[s].generation), slot[s].bounds)
    BY <1>2, <1>4, <1>6
  <2>3. ~Returning(c)'
    BY <2>1 DEF Returning
  <2> QED BY <1>7, <2>1, <2>2, <2>3 DEF TaskSound, EditSound, Chars
<1>11. ASSUME NEW d \in TextClients \ {c} PROVE TaskSound(d)'
  <2>1. TaskSound(d) /\ task'[d] = task[d]
    BY <1>7, RangeFacts
  <2>2. ~Returning(c)'
    BY <1>7 DEF Returning
  <2>3. Returning(d) =>
          /\ ~slot'[task[d].s].available /\ Holders(task[d].s)' = {}
          /\ \A x \in TextClients \ {d} : Returning(x)' => task'[x].s # task[d].s
    BY <1>2, <1>3, <1>7, <2>1, <2>2 DEF TaskSound, Returning
  <2>4. task[d].pc = "exchanging" =>
          holds'[d][task[d].s] = 1 /\ slot'[task[d].s].generation = slot[task[d].s].generation
    BY <1>2, <2>1 DEF TaskSound
  <2> QED BY <2>1, <2>3, <2>4, TaskKept
<1> QED BY <1>8, <1>9, <1>10, <1>11 DEF RangeInv

\* Bounds are replaced only where nobody has changed them since they were loaded.
LEMMA ExchangeKeeps ==
  ASSUME RangeInv, NEW c \in TextClients, Exchange(c) PROVE RangeInv'
<1>0. PICK t, g : t = task[c] /\ g = slot[t.s].generation
  OBVIOUS
<1> DEFINE s == t.s
           next == NextBounds(t.edit, t.old)
<1>1. /\ t.pc = "exchanging" /\ UNCHANGED <<textGeneration, holds>>
      /\ \/ /\ slot[s].bounds = t.old
            /\ slot' = [slot EXCEPT ![s].bounds = next]
            /\ given' = [given EXCEPT ![s] = NextBounds(t.edit, given[s])]
            /\ task' = [task EXCEPT ![c] = NoTask]
         \/ /\ task' = [task EXCEPT ![c] = NoTask]
            /\ UNCHANGED <<slot, given>>
         \/ /\ task' = [task EXCEPT ![c] =
              [pc |-> "exchanging", s |-> s, edit |-> t.edit, old |-> slot[s].bounds, attempt |-> t.attempt + 1]]
            /\ UNCHANGED <<slot, given>>
  BY <1>0 DEF Exchange, MayExchange
<1>2. /\ s \in Slots /\ holds[c][s] = 1 /\ EditSound(t.edit, g) /\ Within(Chars(g), t.old)
      /\ t = [pc |-> "exchanging", s |-> s, edit |-> t.edit, old |-> t.old, attempt |-> t.attempt]
  BY <1>0, <1>1, RangeFacts DEF TaskSound
<1>3. /\ c \in Holders(s) /\ ~slot[s].available /\ g \in DOMAIN Texts /\ slot[s].bounds = given[s]
      /\ Within(Chars(g), slot[s].bounds) /\ slot[s].references = Cardinality(Holders(s))
  BY <1>0, <1>2, RangeFacts DEF SlotSound, Holders
<1>4. \A x : Holders(x)' = Holders(x)
  BY <1>1 DEF Holders
<1>5. /\ \A d \in TextClients \ {c} : task'[d] = task[d]
      /\ \A x \in Slots \ {s} : slot'[x] = slot[x] /\ given'[x] = given[x]
      /\ task' = [d \in TextClients |-> task'[d]]
  BY <1>1, <1>2 DEF RangeInv, RangeType, SlotType
<1>6. /\ slot'[s].references = slot[s].references /\ slot'[s].available = slot[s].available
      /\ slot'[s].generation = g /\ slot'[s].bounds = given'[s] /\ Within(Chars(g), slot'[s].bounds)
      /\ slot' \in [Slots -> SlotType]
      /\ given' \in [Slots -> [begin : Nat, end : Nat]]
  <2>1. CASE UNCHANGED <<slot, given>>
    BY <1>0, <1>3, <2>1 DEF RangeInv, RangeType, SlotType
  <2>2. CASE /\ slot[s].bounds = t.old
             /\ slot' = [slot EXCEPT ![s].bounds = next]
             /\ given' = [given EXCEPT ![s] = NextBounds(t.edit, given[s])]
    <3>1. Within(Chars(g), next)
      BY <1>2, <1>3, NextBoundsWithin
    <3>2. next \in [begin : Nat, end : Nat] /\ NextBounds(t.edit, given[s]) = next
      BY <1>3, <2>2, <3>1 DEF Within
    <3> HIDE DEF next
    <3>3. slot'[s] = [slot[s] EXCEPT !.bounds = next] /\ given'[s] = next
      BY <1>2, <2>2, <3>2 DEF RangeInv, RangeType, SlotType
    <3>4. slot[s] \in SlotType
      BY <1>2 DEF RangeInv, RangeType, SlotType
    <3>5. slot'[s] \in SlotType
      BY <3>2, <3>3, <3>4 DEF SlotType
    <3>6. /\ slot'[s].references = slot[s].references /\ slot'[s].available = slot[s].available
          /\ slot'[s].generation = g /\ slot'[s].bounds = next
      BY <1>0, <3>3, <3>4 DEF SlotType
    <3>7. slot' \in [Slots -> SlotType]
      BY <1>5, <2>2, <3>5 DEF RangeInv, RangeType, SlotType
    <3>8. given' \in [Slots -> [begin : Nat, end : Nat]]
      BY <2>2, <3>2 DEF RangeInv, RangeType, SlotType
    <3> QED BY <3>1, <3>3, <3>6, <3>7, <3>8
  <2> QED BY <1>1, <2>1, <2>2
<1>7. RangeType'
  BY <1>1, <1>5, <1>6 DEF RangeInv, RangeType, SlotType
<1>8. ASSUME NEW x \in Slots PROVE SlotSound(x)'
  <2>1. CASE x = s
    <3>1. slot'[s].references = Cardinality(Holders(s)')
      BY <1>3, <1>4, <1>6
    <3> QED BY <1>3, <1>4, <1>6, <2>1, <3>1 DEF SlotSound, Chars
  <2>2. CASE x # s
    BY <1>4, <1>5, <2>2, SlotKept, RangeFacts
  <2> QED BY <2>1, <2>2
<1>9. ASSUME NEW d \in TextClients \ {c} PROVE TaskSound(d)'
  <2>1. TaskSound(d) /\ task'[d] = task[d]
    BY <1>5, RangeFacts
  <2>2. Returning(d) => task[d].s \in Slots \ {s} /\ ~slot[task[d].s].available /\ Holders(task[d].s) = {}
    BY <1>3, <2>1 DEF TaskSound
  <2>3. ~Returning(c)'
    <3>1. task'[c].pc \in {"idle", "exchanging"}
      <4>1. \A v : task' = [task EXCEPT ![c] = v] => task'[c] = v
        BY DEF RangeInv, RangeType, SlotType
      <4>2. task'[c] = NoTask \/ task'[c] = [pc |-> "exchanging", s |-> s, edit |-> t.edit, old |-> slot[s].bounds, attempt |-> t.attempt + 1]
        BY <1>1, <4>1
      <4> QED BY <4>2 DEF NoTask
    <3> QED BY <3>1 DEF Returning
  <2>4. Returning(d) => \A x \in TextClients \ {d} : Returning(x)' => task'[x].s # task[d].s
    BY <1>5, <2>1, <2>3 DEF TaskSound, Returning
  <2>5. task[d].pc = "exchanging" =>
          holds'[d][task[d].s] = 1 /\ slot'[task[d].s].generation = slot[task[d].s].generation
    BY <1>0, <1>1, <1>5, <1>6, <2>1 DEF TaskSound
  <2> QED BY <1>4, <1>5, <2>1, <2>2, <2>4, <2>5, TaskKept
<1>10. TaskSound(c)'
  <2>1. CASE task' = [task EXCEPT ![c] = NoTask]
    <3>1. task'[c] = NoTask
      BY <2>1 DEF RangeInv, RangeType, SlotType
    <3> QED BY <3>1 DEF NoTask, TaskSound, Returning
  <2>2. CASE task' = [task EXCEPT ![c] =
              [pc |-> "exchanging", s |-> s, edit |-> t.edit, old |-> slot[s].bounds, attempt |-> t.attempt + 1]]
             /\ UNCHANGED <<slot, given>>
    <3>3. task'[c] = [pc |-> "exchanging", s |-> s, edit |-> t.edit, old |-> slot[s].bounds, attempt |-> t.attempt + 1]
      BY <2>2 DEF RangeInv, RangeType, SlotType
    <3>4. /\ task'[c].pc = "exchanging" /\ task'[c].s = s /\ task'[c].edit = t.edit
          /\ task'[c].old = slot[s].bounds /\ task'[c].attempt = t.attempt + 1
      BY <3>3
    <3>5. ~Returning(c)'
      BY <3>4 DEF Returning
    <3>6. holds'[c][s] = 1 /\ EditSound(t.edit, slot'[s].generation) /\ Within(Chars(slot'[s].generation), slot[s].bounds)
      BY <1>0, <1>1, <1>2, <1>3, <2>2
    <3> QED BY <1>2, <3>3, <3>4, <3>5, <3>6 DEF TaskSound, EditSound, Chars
  <2> QED BY <1>1, <2>1, <2>2
<1> QED BY <1>7, <1>8, <1>9, <1>10 DEF RangeInv

\* The generation that is published matters to nobody who holds a range already.
LEMMA RepublishKeeps ==
  ASSUME RangeInv, UNCHANGED <<slot, holds, task, given>>, textGeneration' \in 0 .. Len(Texts) PROVE RangeInv'
<1>1. \A x : Holders(x)' = Holders(x)
  BY DEF Holders
<1>2. \A x \in Slots : SlotSound(x)'
  BY <1>1, SlotKept, RangeFacts
<1>3. ASSUME NEW d \in TextClients PROVE TaskSound(d)'
  <2>1. TaskSound(d) /\ task'[d] = task[d]
    BY RangeFacts
  <2>2. Returning(d) =>
          /\ ~slot'[task[d].s].available /\ Holders(task[d].s)' = {}
          /\ \A x \in TextClients \ {d} : Returning(x)' => task'[x].s # task[d].s
    BY <1>1, <2>1 DEF TaskSound, Returning
  <2>3. task[d].pc = "exchanging" =>
          holds'[d][task[d].s] = 1 /\ slot'[task[d].s].generation = slot[task[d].s].generation
    BY <2>1 DEF TaskSound
  <2> QED BY <2>1, <2>2, <2>3, TaskKept
<1> QED BY <1>2, <1>3 DEF RangeInv, RangeType

\* The invariant of the pool holds in every state: references, leases, returns and operations in
\* progress fit together.
THEOREM RangeInvariance == TextSpec => []RangeInv
<1>1. TextInit => RangeInv
  <2> SUFFICES ASSUME TextInit PROVE RangeInv
    OBVIOUS
  <2>1. \A s \in Slots : Holders(s) = {} /\ slot[s] = FreeSlot /\ Cardinality({}) = 0
    BY FS_EmptySet DEF TextInit, Holders
  <2>2. \A s \in Slots : SlotSound(s)
    BY <2>1 DEF SlotSound, FreeSlot
  <2>3. \A c \in TextClients : TaskSound(c)
    BY DEF TextInit, TaskSound, Returning, NoTask
  <2>4. RangeType
    <3>1. FreeSlot \in SlotType /\ Nowhere \in [begin : Nat, end : Nat]
      BY DEF FreeSlot, SlotType, Nowhere
    <3>2. 1 \in 0 .. Len(Texts)
      BY TextAssumption
    <3> QED BY <3>1, <3>2 DEF TextInit, RangeType
  <2> QED BY <2>2, <2>3, <2>4 DEF RangeInv
<1>2. RangeInv /\ [TextNext]_textVars => RangeInv'
  <2> SUFFICES ASSUME RangeInv, [TextNext]_textVars PROVE RangeInv'
    OBVIOUS
  <2>1. CASE UNCHANGED textVars
    BY <2>1, RepublishKeeps DEF textVars, RangeInv, RangeType
  <2>2. CASE Republish
    BY <2>2, RepublishKeeps, TextAssumption DEF Republish
  <2> QED
    BY <2>1, <2>2, LeaseKeeps, ShareKeeps, ReleaseKeeps, ReturnKeeps, BeginEditKeeps, ExchangeKeeps
       DEF TextNext
<1> QED BY <1>1, <1>2, PTL DEF TextSpec

\* Whatever the clients do with shared ranges while newer snapshots are published, no successful move
\* is lost and every range stays inside its own text (TextRangeProvider), for any pool and any texts.
THEOREM RangesStayShared == TextSpec => []RangesAreShared
<1>1. RangeInv => RangesAreShared
  BY RangeFacts DEF RangesAreShared, MovesAreNotLost, RangesWellFormed, Leased, SlotSound, Within, Chars
<1> QED BY <1>1, RangeInvariance, PTL
=============================================================================
