-------------------------- MODULE ShellRegistration --------------------------
(***************************************************************************)
(* Registration of file extensions and URI schemes under the current       *)
(* user's shell classes: the inspection of who owns what, the three key    *)
(* trees a call rewrites value by value, the backup a failing call restores *)
(* them from, and a process that dies between two writes. Key contents     *)
(* (icons, verbs, commands, names) are one "body"; a body being rewritten  *)
(* is PartialRecord. Deleting or copying a tree of keys may fail as a      *)
(* whole; restoring one, which does both, may also stop between the two or *)
(* after the key was created again.                                        *)
(***************************************************************************)
EXTENDS Integers, Sequences, SequencesExt

CONSTANTS Owners,        \* owner keys of applications that use Registration
          Extensions,    \* file extensions
          Schemes,       \* URI schemes
          Apps,          \* executable names under Applications\
          AppDescriptions,  \* what a registration writes into a body
          Malformed,     \* a description that validation refuses
          NoValue,       \* an absent value
          Other,         \* a program that does not use Registration
          PartialRecord,       \* a body that is only partly rewritten
          MaxCalls       \* bound: calls made

ASSUME RegistrationAssumption ==
  /\ MaxCalls \in Nat
  /\ Extensions \cap Schemes = {} /\ Owners \cap {NoValue, Other} = {}
  /\ NoValue # Other /\ AppDescriptions \cap {NoValue, PartialRecord, Malformed} = {}

ShellTargets == Extensions \cup Schemes

VARIABLES reg,     \* HKEY_CURRENT_USER\Software\Classes
          call,    \* the call in progress: arguments, findings, writes to come, the backup
          calls,   \* calls begun
          crashed  \* the call a dying process left behind, until the next call

registrationVars == <<reg, call, calls, crashed>>

-----------------------------------------------------------------------------
(* The keys *)

AbsentTarget  == [present |-> FALSE, owner |-> NoValue, default |-> NoValue, openWith |-> {}, body |-> NoValue]
NoProgram == [present |-> FALSE, owner |-> NoValue, app |-> NoValue, body |-> NoValue]
NoApp     == [present |-> FALSE, owner |-> NoValue, types |-> {}, body |-> NoValue]
NoCall    == [pc |-> "idle"]

\* Program identifiers: one per owner and target, the target's key names it by its owner.
Program(c) == <<c.owner, c.target>>

\* A key without an owner and without a default does not count as a registration.
IsRegistered(target) == target.present /\ (target.owner # NoValue \/ target.default # NoValue)

SameOwner(key, owner) == key.present /\ key.owner = owner

\* The application record a call is about blocks it when somebody else has it.
AppBlocked(r, app, owner) == app # NoValue /\ r.application[app].present /\ r.application[app].owner # owner

-----------------------------------------------------------------------------
(* The writes of a call, as the registry after each of them *)

\* The owner key comes first, then the application's name, then names, content type and icon.
ProgramStages(r, c) ==
  LET k == Program(c)
      created == [r EXCEPT !.program[k].present = TRUE]
      owned == [created EXCEPT !.program[k].owner = c.owner]
      named == [owned EXCEPT !.program[k].app = c.app]
  IN << created, owned, named, [named EXCEPT !.program[k].body = PartialRecord] >>

\* The shell commands replace what was there; the program is whole with the last of them.
CommandStages(r, c) == << [r EXCEPT !.program[Program(c)].body = c.description] >>

ApplicationStages(r, c) ==
  IF c.app = NoValue THEN << >>
  ELSE LET created == [r EXCEPT !.application[c.app].present = TRUE]
           owned == [created EXCEPT !.application[c.app].owner = c.owner]
           begun == [owned EXCEPT !.application[c.app].body = PartialRecord]
           whole == [begun EXCEPT !.application[c.app].body = c.description]
       IN << created, owned, begun, whole, [whole EXCEPT !.application[c.app].types = @ \cup {c.target}] >>

\* Mutation: the default handler is written before the owner key.
TargetStages_DefaultFirst(r, c) ==
  LET created == [r EXCEPT !.target[c.target].present = TRUE]
      default == [created EXCEPT !.target[c.target].default = c.owner]
  IN IF c.foreign THEN << >> ELSE << created, default, [default EXCEPT !.target[c.target].owner = c.owner] >>

\* Mutation: a target of somebody else is taken over.
TargetStages_Takes(r, c) ==
  LET created == [r EXCEPT !.target[c.target].present = TRUE]
      owned == [created EXCEPT !.target[c.target].owner = c.owner]
  IN << created, owned, [owned EXCEPT !.target[c.target].default = c.owner] >>

\* A target somebody else has keeps its owner and its default.
TargetStages(r, c) ==
  LET created == [r EXCEPT !.target[c.target].present = TRUE]
      owned == [created EXCEPT !.target[c.target].owner = c.owner]
  IN IF c.foreign THEN << >> ELSE << created, owned, [owned EXCEPT !.target[c.target].default = c.owner] >>

\* An extension advertises the program among its alternatives, also next to a foreign default.
AlternativeStages(r, c) ==
  << [r EXCEPT !.target[c.target].present = TRUE, !.target[c.target].openWith = @ \cup {c.owner}] >>

\* A scheme's own key carries the commands.
SchemeStages(r, c) ==
  LET begun == [r EXCEPT !.target[c.target].body = PartialRecord]
  IN IF c.foreign THEN << >> ELSE << begun, [begun EXCEPT !.target[c.target].body = c.description] >>

\* An application record without a type: its icon, commands and names go before its owner key.
DeleteApplicationStages(r, a) ==
  LET begun == [r EXCEPT !.application[a].body = PartialRecord]
      emptied == [begun EXCEPT !.application[a].body = NoValue]
      unowned == [emptied EXCEPT !.application[a].owner = NoValue]
  IN << begun, emptied, unowned, [unowned EXCEPT !.application[a] = NoApp] >>

\* removeApplicationRegistration: the record goes with the last type it supports.
RemoveApplicationStages(r, c) ==
  LET untyped == [r EXCEPT !.application[c.app].types = @ \ {c.target}]
  IN IF c.app = NoValue \/ ~r.application[c.app].present THEN << >>
     ELSE << untyped >> \o (IF untyped.application[c.app].types # {} THEN << >>
                            ELSE DeleteApplicationStages(untyped, c.app))

\* pruneEmptyRegistrationKey: a key without values and children is deleted.
Pruned(target) ==
  IF target.owner = NoValue /\ target.default = NoValue /\ target.openWith = {} /\ target.body = NoValue
  THEN AbsentTarget ELSE target

\* One list of writes after another.
AfterCall(stages, r) == IF stages = << >> THEN r ELSE Last(stages)

UnlistStages(r, c) == << [r EXCEPT !.target[c.target].openWith = @ \ {c.owner}] >>

\* The default if it is still this program, then the owner key.
DisownStages(r, c) ==
  LET plain == [r EXCEPT !.target[c.target].default = IF @ = c.owner THEN NoValue ELSE @]
  IN << plain, [plain EXCEPT !.target[c.target].owner = NoValue] >>

PruneStages(r, c) == << [r EXCEPT !.target[c.target] = Pruned(@)] >>

\* Mutation: only the holder of the target takes its alternative back.
RemoveExtensionStages_HolderOnly(r, c) ==
  LET u == UnlistStages(r, c)
      d == u \o DisownStages(AfterCall(u, r), c)
  IN IF c.sameOwner THEN d \o PruneStages(AfterCall(d, r), c) ELSE << >>

\* The alternative goes with any owner, default and owner key only with the target's holder.
RemoveExtensionStages(r, c) ==
  LET u == UnlistStages(r, c)
      d == IF c.sameOwner THEN u \o DisownStages(AfterCall(u, r), c) ELSE u
  IN d \o PruneStages(AfterCall(d, r), c)

RemoveSchemeStages(r, c) == IF c.sameOwner THEN << [r EXCEPT !.target[c.target] = AbsentTarget] >> ELSE << >>

RemoveProgramStages(r, c) == IF c.ownProgram THEN << [r EXCEPT !.program[Program(c)] = NoProgram] >> ELSE << >>

ExtensionStages(r, c) ==
  LET p == ProgramStages(r, c)
      m == p \o CommandStages(AfterCall(p, r), c)
      a == m \o ApplicationStages(AfterCall(m, r), c)
      t == a \o TargetStages(AfterCall(a, r), c)
  IN t \o AlternativeStages(AfterCall(t, r), c)

UriStages(r, c) ==
  LET p == ProgramStages(r, c)
      m == p \o CommandStages(AfterCall(p, r), c)
      t == m \o TargetStages(AfterCall(m, r), c)
  IN t \o SchemeStages(AfterCall(t, r), c)

\* Mutation: the program goes before the target that names it.
UnregisterStages_ProgramFirst(r, c) ==
  LET p == RemoveProgramStages(r, c)
      a == p \o RemoveApplicationStages(AfterCall(p, r), c)
  IN a \o (IF c.target \in Extensions THEN RemoveExtensionStages(AfterCall(a, r), c)
           ELSE RemoveSchemeStages(AfterCall(a, r), c))

UnregisterStages(r, c) ==
  LET a == RemoveApplicationStages(r, c)
      t == a \o (IF c.target \in Extensions THEN RemoveExtensionStages(AfterCall(a, r), c)
                 ELSE RemoveSchemeStages(AfterCall(a, r), c))
  IN t \o RemoveProgramStages(AfterCall(t, r), c)

-----------------------------------------------------------------------------
(* A call *)

Returns(c, outcome) == [c EXCEPT !.pc = "done", !.outcome = outcome]

RegistrationCall(op, o, t, app, description) ==
  [pc |-> "capture", op |-> op, owner |-> o, target |-> t, app |-> app, description |-> description,
   sameOwner |-> SameOwner(reg.target[t], o), foreign |-> IsRegistered(reg.target[t]) /\ ~SameOwner(reg.target[t], o),
   ownProgram |-> SameOwner(reg.program[<<o, t>>], o), start |-> reg, todo |-> << >>, restored |-> 0,
   lost |-> FALSE, outcome |-> "none"]

\* A description that is not well formed never reaches the registry.
WellFormed(description) == description # Malformed

\* The conflict policies: Report accepts no existing target, only Coexist a foreign one.
Conflict(c, policy) == IsRegistered(reg.target[c.target]) /\ (policy = "report" \/ (c.foreign /\ policy # "coexist"))

\* A conflict the policy does not accept, or a foreign application record, ends the call before it writes.
RegisterFileExtension(o, t, app, description, policy) ==
  LET c == RegistrationCall("extension", o, t, app, description)
      refused == ~WellFormed(description) \/ Conflict(c, policy) \/ AppBlocked(reg, app, o)
  IN /\ call.pc = "idle" /\ calls < MaxCalls
     /\ call' = IF refused THEN Returns(c, "refused") ELSE c
     /\ calls' = calls + 1 /\ crashed' = NoCall /\ UNCHANGED reg

RegisterUriScheme(o, t, description, policy) ==
  LET c == RegistrationCall("scheme", o, t, NoValue, description)
      refused == ~WellFormed(description) \/ Conflict(c, policy)
  IN /\ call.pc = "idle" /\ calls < MaxCalls
     /\ call' = IF refused THEN Returns(c, "refused") ELSE c
     /\ calls' = calls + 1 /\ crashed' = NoCall /\ UNCHANGED reg

\* unregisterRegistrationTarget: the application is the one the owner's program names.
UnregisterTarget(o, t) ==
  LET program == reg.program[<<o, t>>]
      app == IF SameOwner(program, o) /\ t \in Extensions THEN program.app ELSE NoValue
      c == RegistrationCall("unregister", o, t, app, NoValue)
      refused == (~c.sameOwner /\ ~c.ownProgram) \/ AppBlocked(reg, app, o)
  IN /\ call.pc = "idle" /\ calls < MaxCalls
     /\ call' = IF refused THEN Returns(c, "refused") ELSE c
     /\ calls' = calls + 1 /\ crashed' = NoCall /\ UNCHANGED reg

\* RegistryTreeBackup::capture: what fails here has changed nothing yet.
CaptureTrees ==
  /\ call.pc = "capture"
  /\ \/ call' = [call EXCEPT !.pc = "write", !.todo = CASE call.op = "extension" -> ExtensionStages(reg, call)
                                                        [] call.op = "scheme" -> UriStages(reg, call)
                                                        [] call.op = "unregister" -> UnregisterStages(reg, call)]
     \/ call' = Returns(call, "failed")
  /\ UNCHANGED <<reg, calls, crashed>>

WriteNext ==
  /\ call.pc = "write" /\ call.todo # << >>
  /\ reg' = Head(call.todo)
  /\ call' = [call EXCEPT !.todo = Tail(@)]
  /\ UNCHANGED <<calls, crashed>>

\* A registry function that fails: the transaction leaves scope while it is active.
WriteFails ==
  /\ call.pc = "write" /\ call.todo # << >>
  /\ call' = [call EXCEPT !.pc = "rollback"]
  /\ UNCHANGED <<reg, calls, crashed>>

\* The backup is removed; a backup that cannot be removed is the status of a call that did its work.
CommitTrees ==
  /\ call.pc = "write" /\ call.todo = << >>
  /\ \E outcome \in {"ok", "cleanupFailed"} : call' = Returns(call, outcome)
  /\ UNCHANGED <<reg, calls, crashed>>

\* Mutation: the application record is not part of the backup.
Restored_NoApplication(r, c, i) ==
  CASE i = 1 -> [r EXCEPT !.program[Program(c)] = c.start.program[Program(c)]]
    [] i = 2 -> [r EXCEPT !.target[c.target] = c.start.target[c.target]]
    [] i = 3 -> r

\* restoreTree of the program, the target and the application, in this order; each is deleted and copied
\* back, and the copy may fail.
RestoredRegistry(r, c, i) ==
  CASE i = 1 -> [r EXCEPT !.program[Program(c)] = c.start.program[Program(c)]]
    [] i = 2 -> [r EXCEPT !.target[c.target] = c.start.target[c.target]]
    [] i = 3 -> IF c.app = NoValue THEN r ELSE [r EXCEPT !.application[c.app] = c.start.application[c.app]]

\* Every tree deleted.
NoTrees == [target |-> [t \in ShellTargets |-> AbsentTarget], program |-> [k \in Owners \X ShellTargets |-> NoProgram],
            application |-> [a \in Apps |-> NoApp]]

\* Every tree as the bare key a copy goes into.
BareTrees(r) ==
  [target |-> [t \in ShellTargets |-> [AbsentTarget EXCEPT !.present = r.target[t].present]],
   program |-> [k \in Owners \X ShellTargets |-> [NoProgram EXCEPT !.present = r.program[k].present]],
   application |-> [a \in Apps |-> [NoApp EXCEPT !.present = r.application[a].present]]]

\* The registry when restoring a tree stops after its deletion, or after its key was created again.
HalfRestored(r, c, i) ==
  {RestoredRegistry(r, [c EXCEPT !.start = from], i) : from \in {NoTrees, BareTrees(c.start)}}

RestoreTree ==
  /\ call.pc = "rollback"
  /\ LET i == call.restored + 1
         next == [call EXCEPT !.restored = i]
     IN \/ /\ reg' = RestoredRegistry(reg, call, i)
           /\ call' = IF i = 3 THEN Returns(next, "failed") ELSE next
        \/ /\ reg' \in {reg} \cup HalfRestored(reg, call, i)
           /\ call' = [(IF i = 3 THEN Returns(next, "failed") ELSE next) EXCEPT !.lost = TRUE]
  /\ UNCHANGED <<calls, crashed>>

ReturnResult ==
  /\ call.pc = "done"
  /\ call' = NoCall
  /\ UNCHANGED <<reg, calls, crashed>>

\* The process dies: nobody rolls back, or goes on doing so. A tree may be half restored.
ProcessDies ==
  /\ call.pc \in {"write", "rollback"}
  /\ \/ reg' = reg /\ crashed' = call
     \/ /\ call.pc = "rollback"
        /\ reg' \in HalfRestored(reg, call, call.restored + 1)
        /\ crashed' = [call EXCEPT !.lost = TRUE]
  /\ call' = NoCall
  /\ UNCHANGED calls

\* Another program makes itself the default of a target; it knows no owner key.
OtherTakes(t) ==
  /\ call.pc = "idle" /\ calls < MaxCalls /\ crashed = NoCall
  /\ reg.target[t].default # Other
  /\ reg' = [reg EXCEPT !.target[t].present = TRUE, !.target[t].default = Other]
  /\ UNCHANGED <<call, calls, crashed>>

Policies == {"report", "coexist", "replaceOwned"}

RegistrationInit ==
  /\ reg = NoTrees /\ call = NoCall /\ calls = 0 /\ crashed = NoCall

RegistrationNext ==
  \/ \E o \in Owners, app \in Apps \cup {NoValue}, d \in AppDescriptions \cup {Malformed}, policy \in Policies :
       \E t \in Extensions : RegisterFileExtension(o, t, app, d, policy)
  \/ \E o \in Owners, d \in AppDescriptions \cup {Malformed}, policy \in Policies :
       \E t \in Schemes : RegisterUriScheme(o, t, d, policy)
  \/ \E o \in Owners, t \in ShellTargets : UnregisterTarget(o, t)
  \/ CaptureTrees \/ WriteNext \/ WriteFails \/ CommitTrees \/ RestoreTree \/ ReturnResult \/ ProcessDies
  \/ \E t \in ShellTargets : OtherTakes(t)

RegistrationSpec == RegistrationInit /\ [][RegistrationNext]_registrationVars

-----------------------------------------------------------------------------
(* Properties *)

\* A call that fails leaves no trace: unless restoring a tree failed as well, everything it wrote into the
\* program, the target and the application is as it was (win32_shell.cpp, lines 1513-1690).
FailureLeavesNoTrace ==
  call.pc = "done" /\ call.outcome \in {"refused", "failed"} /\ ~call.lost => reg = call.start

\* Whatever a call writes, and wherever it stops or dies, what belongs to others stays theirs: their
\* programs and application records, and, unless a tree was lost, the owner and default of a target they
\* hold (registerFileExtension, line 3674).
OthersKeepTheirs ==
  \A c \in {call, crashed} : c.pc # "idle" =>
    /\ \A k \in Owners \X ShellTargets : k[1] # c.owner => reg.program[k] = c.start.program[k]
    /\ \A a \in Apps : c.start.application[a].owner \in Owners \ {c.owner}
                       => reg.application[a] = c.start.application[a]
    /\ \A t \in ShellTargets : IsRegistered(c.start.target[t]) /\ ~SameOwner(c.start.target[t], c.owner) /\ ~c.lost
                       => /\ reg.target[t].owner = c.start.target[t].owner
                          /\ reg.target[t].default = c.start.target[t].default

\* A process that died in the middle does not lock its owner out of the target: the target is still its
\* own, or nobody's, or already was somebody else's, so that the next call is not refused on its account
\* (lines 3666-3690). What the target names may be gone, see DefaultsNameAProgram.
TargetSurvivesCrash ==
  crashed # NoCall =>
    LET target == reg.target[crashed.target]
    IN IsRegistered(target) => SameOwner(target, crashed.owner) \/ crashed.foreign
                         \/ (target.default = Other /\ crashed.start.target[crashed.target].default = Other)

\* After an extension or a scheme was unregistered, nothing of its owner's registration is left in the
\* target, the program or the application record that the program named (unregisterRegistrationTarget).
UnregisteredIsGone ==
  call.pc = "done" /\ call.op = "unregister" /\ call.outcome \in {"ok", "cleanupFailed"} =>
    /\ ~SameOwner(reg.program[Program(call)], call.owner)
    /\ ~SameOwner(reg.target[call.target], call.owner)
    /\ call.owner \notin reg.target[call.target].openWith \cup {reg.target[call.target].default}
    /\ call.app # NoValue => call.target \notin reg.application[call.app].types

\* Registration as a transaction over the registry: a call that fails left nothing
\* behind, nobody else's record is touched, a crash leaves the target free for its
\* owner, and an unregistered application is gone.
RegistrationIsAtomic ==
    /\ FailureLeavesNoTrace
    /\ OthersKeepTheirs
    /\ TargetSurvivesCrash
    /\ UnregisteredIsGone

\* Targets whose default is the program of an application that is not there.
Dangling(r) ==
  {t \in ShellTargets : LET default == r.target[t].default
                        IN default \in Owners /\ ~SameOwner(r.program[<<default, t>>], default)}

\* The shell never starts a program that is not there because of a call that goes forward: a target names
\* its program only while the program is registered, after every single write and when the process dies at
\* one (registerFileExtension writes the program first, unregisterRegistrationTarget removes it last,
\* lines 3639-3698 and 2601-2688). Rolling back deletes the program before the target (lines 1647-1648),
\* so that only a call that rolls back, or dies doing so, may leave such a default.
DefaultsNameAProgram ==
  \A c \in {call, crashed} :
    c.pc \in {"capture", "write", "done"} /\ ~c.lost => Dangling(reg) \subseteq Dangling(c.start)

\* Disagreement with engine/desktop/docs/shell.md, line 192 ("the operation is transactional and
\* retryable"): the application's key is created before its owner is written (win32_shell.cpp, lines 1933
\* and 1947), and a key without an owner is refused as somebody else's (lines 1885-1905).
FailedCallIsRetryable ==
  \A c \in {call, crashed} :
    (c = crashed /\ c # NoCall) \/ (c.pc = "done" /\ c.outcome = "failed") => ~AppBlocked(reg, c.app, c.owner)
=============================================================================
