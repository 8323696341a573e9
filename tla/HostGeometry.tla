---------------------------- MODULE HostGeometry ----------------------------
(***************************************************************************)
(* The host geometry of an accessible Window: eight atomics that the owner *)
(* thread rewrites under a sequence counter while client threads read them. *)
(* All accesses are sequentially consistent, so one step is one access.    *)
(***************************************************************************)
EXTENDS Integers, Sequences

CONSTANTS Readers,      \* client threads
          FieldCount,   \* the atomics of one geometry (eight in the code)
          MaxVersion,   \* bound: geometries the owner publishes
          MaxAttempts   \* attempts of readGeometry (eight in the code)

ASSUME GeometryAssumption == {FieldCount, MaxVersion, MaxAttempts} \subseteq Nat \ {0}

VARIABLES sequence,     \* AccessibilityRuntime::geometrySequence
          fields,       \* x, y, width, ...: which geometry each one belongs to
          writer,       \* the owner: the geometry being written and how much of it is
          reader        \* each client: attempt, sequence at its start, fields read so far

geometryVars == <<sequence, fields, writer, reader>>

IdleReader == [pc |-> "idle"]

\* The last geometry that was published as a whole.
Complete == IF writer.pc = "idle" THEN writer.version ELSE writer.version - 1

-----------------------------------------------------------------------------
(* The owner: publishGeometry *)

\* The first increment: the counter is odd while the fields change.
BeginWrite ==
  /\ writer.pc = "idle" /\ writer.version < MaxVersion
  /\ sequence' = sequence + 1
  /\ writer' = [pc |-> "writing", version |-> writer.version + 1, next |-> 1]
  /\ UNCHANGED <<fields, reader>>

WriteField ==
  /\ writer.pc = "writing" /\ writer.next <= FieldCount
  /\ fields' = [fields EXCEPT ![writer.next] = writer.version]
  /\ writer' = [writer EXCEPT !.next = @ + 1]
  /\ UNCHANGED <<sequence, reader>>

EndWrite ==
  /\ writer.pc = "writing" /\ writer.next > FieldCount
  /\ sequence' = sequence + 1
  /\ writer' = [pc |-> "idle", version |-> writer.version, next |-> 1]
  /\ UNCHANGED <<fields, reader>>

-----------------------------------------------------------------------------
(* A client: readGeometry, called by queryNode, propertyEvent and the owner itself *)

\* The counter is loaded; an odd one costs an attempt.
LoadSequence(r) ==
  \/ /\ reader[r].pc = "idle"
     /\ reader' = [reader EXCEPT ![r] = [pc |-> "attempt", attempt |-> 1, since |-> Complete]]
     /\ UNCHANGED <<sequence, fields, writer>>
  \/ /\ reader[r].pc = "attempt"
     /\ reader' = [reader EXCEPT ![r] =
          IF sequence % 2 = 0
          THEN [pc |-> "reading", attempt |-> @.attempt, since |-> @.since, start |-> sequence, got |-> << >>]
          ELSE IF @.attempt = MaxAttempts THEN [pc |-> "done", ok |-> FALSE, got |-> << >>, since |-> @.since]
          ELSE [reader[r] EXCEPT !.attempt = @ + 1]]
     /\ UNCHANGED <<sequence, fields, writer>>

LoadField(r) ==
  /\ reader[r].pc = "reading" /\ Len(reader[r].got) < FieldCount
  /\ reader' = [reader EXCEPT ![r].got = Append(@, fields[Len(@) + 1])]
  /\ UNCHANGED <<sequence, fields, writer>>

\* Mutation: the counter is not compared again.
SameSequence_Unchecked(start) == TRUE

SameSequence(start) == sequence = start

\* The counter is loaded again: an unchanged one makes the fields one geometry.
CompareSequence(r) ==
  /\ reader[r].pc = "reading" /\ Len(reader[r].got) = FieldCount
  /\ reader' = [reader EXCEPT ![r] =
       IF SameSequence(@.start) THEN [pc |-> "done", ok |-> TRUE, got |-> @.got, since |-> @.since]
       ELSE IF @.attempt = MaxAttempts THEN [pc |-> "done", ok |-> FALSE, got |-> << >>, since |-> @.since]
       ELSE [pc |-> "attempt", attempt |-> @.attempt + 1, since |-> @.since]]
  /\ UNCHANGED <<sequence, fields, writer>>

\* The query uses what it read.
UseGeometry(r) ==
  /\ reader[r].pc = "done"
  /\ reader' = [reader EXCEPT ![r] = IdleReader]
  /\ UNCHANGED <<sequence, fields, writer>>

GeometryInit ==
  /\ sequence = 0
  /\ fields = [i \in 1 .. FieldCount |-> 0]
  /\ writer = [pc |-> "idle", version |-> 0, next |-> 1]
  /\ reader = [r \in Readers |-> IdleReader]

GeometryNext ==
  \/ BeginWrite \/ WriteField \/ EndWrite
  \/ \E r \in Readers : LoadSequence(r) \/ LoadField(r) \/ CompareSequence(r) \/ UseGeometry(r)

GeometrySpec == GeometryInit /\ [][GeometryNext]_geometryVars

-----------------------------------------------------------------------------
(* Properties *)

\* A geometry that readGeometry returns was published as a whole, and not before the last one that was
\* complete when the read began: never a mixture of two (accessibility.cpp, lines 37-56).
GeometryCoherent ==
  \A r \in Readers : reader[r].pc = "done" /\ reader[r].ok
    => \E version \in reader[r].since .. writer.version : \A i \in 1 .. FieldCount : reader[r].got[i] = version

=============================================================================
