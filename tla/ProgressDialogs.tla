-------------------------- MODULE ProgressDialogs --------------------------
(***************************************************************************)
(* Modeless progress dialogs of the desktop library: the portable object   *)
(* (core/progress_dialog.cpp), its Win32 backend                           *)
(* (platform/win32/win32_progress_dialog.cpp) and the parts of the owner   *)
(* thread's dispatcher that keep its cleanup obligations                   *)
(* (platform/win32/win32_window.cpp, win32_window_lifecycle.cpp).          *)
(*                                                                         *)
(* One owner thread opens, pumps, closes and finally exits; every dialog   *)
(* may be destroyed by a foreign thread.  Code of the owner thread is      *)
(* sequential, so a handler is one action, except where it loops over      *)
(* dialogs that can fail one by one: those loops are steps of `pc'.        *)
(* A member of Dialogs is one ProgressDialogState allocation with the      *)
(* ProgressDialog object that opened it; reopening the object uses another *)
(* member.  One Window can own dialogs.                                    *)
(*                                                                         *)
(* Every native call the code checks may fail; MaxFaults bounds how many   *)
(* failures one behaviour contains.                                        *)
(***************************************************************************)
EXTENDS Naturals, Sequences, FiniteSets, SequencesExt

CONSTANTS
    Dialogs,        \* ProgressDialogState allocations
    NoDialog,       \* null
    Descriptions,   \* the descriptions open() is called with
    MaxFaults,      \* bound: native failures in one behaviour
    MaxToggles,     \* bound: changes of the Window's requested interaction
    RollbackFaults  \* TRUE: enabling the owner can fail even while a failed
                    \* Window::close rolls back

ASSUME ConstantsAssumption ==
    /\ NoDialog \notin Dialogs
    /\ Descriptions \subseteq [owned : BOOLEAN, blocks : BOOLEAN, cancelable : BOOLEAN]
    /\ MaxFaults \in Nat
    /\ MaxToggles \in Nat
    /\ RollbackFaults \in BOOLEAN

VARIABLES
    dlg,            \* [Dialogs -> the dialog's portable and native state]
    registry,       \* Dispatcher::progressDialogs
    restoreChain,   \* Dispatcher::pendingProgressOwnerRestoreHead, head first
    deferred,       \* Dispatcher::deferredProgressDialogCleanupHead
    cleanup,        \* the chain pruneAbandonedStates or ~Dispatcher has taken
    classUsers,     \* progressClassUsers
    retained,       \* class references left to process teardown
    win,            \* the owner Window
    posted,         \* an owner-restore message is in the native queue
    pc,             \* what the owner thread is doing
    cur,            \* the dialog an open is rolling back
    tries,          \* finalisations that roll-back still attempts
    idx,            \* loop index of notifyProgressOwnerLoss
    fpc,            \* [Dialogs -> progress of a foreign ~ProgressDialog]
    faults,         \* native failures so far
    toggles         \* changes of the requested interaction so far

chains == <<registry, restoreChain, deferred, cleanup>>
class  == <<classUsers, retained>>
ctl    == <<pc, cur, tries, idx>>
vars   == <<dlg, chains, class, win, posted, ctl, fpc, faults, toggles>>

Fresh == [at |-> "fresh", data |-> "none", hwnd |-> "none",
          classHeld |-> FALSE, registered |-> FALSE, blocking |-> FALSE,
          finalize |-> FALSE, restorePending |-> FALSE, cancel |-> FALSE,
          desc |-> [owned |-> FALSE, blocks |-> FALSE, cancelable |-> FALSE]]

(***************************************************************************)
(* at       : who owns the portable state: nobody yet, the ProgressDialog  *)
(*            object, the dispatcher's deferred chain, or it is freed.     *)
(* data     : the ProgressDialogData: state.platform holds it ("owned"),   *)
(*            it was freed, or it was deliberately leaked.                 *)
(* hwnd     : "live" while GWLP_USERDATA leads to the data, "detached"     *)
(*            once that pointer was cleared on a window still existing.    *)
(* finalize : nativeDestroyedPendingFinalize.                              *)
(***************************************************************************)
DialogType ==
    [at : {"fresh", "held", "deferred", "freed"},
     data : {"none", "owned", "leaked", "freed"},
     hwnd : {"none", "live", "detached"},
     classHeld : BOOLEAN, registered : BOOLEAN, blocking : BOOLEAN,
     finalize : BOOLEAN, restorePending : BOOLEAN, cancel : BOOLEAN,
     desc : [owned : BOOLEAN, blocks : BOOLEAN, cancelable : BOOLEAN]]

Platform(d) == dlg[d].data = "owned"

Init ==
    /\ dlg = [d \in Dialogs |-> Fresh]
    /\ registry = <<>> /\ restoreChain = <<>> /\ deferred = <<>> /\ cleanup = <<>>
    /\ classUsers = 0 /\ retained = 0
    /\ win = [open |-> TRUE, enabled |-> TRUE, interaction |-> TRUE, destroying |-> FALSE]
    /\ posted = FALSE
    /\ pc = "idle" /\ cur = NoDialog /\ tries = 0 /\ idx = 1
    /\ fpc = [d \in Dialogs |-> "none"]
    /\ faults = 0 /\ toggles = 0

MayFail == faults < MaxFaults
Fail == MayFail /\ faults' = faults + 1
NoFail == UNCHANGED faults

-----------------------------------------------------------------------------
(* Blocking and restoring the owner *)

BlocksOwner(d) ==
    /\ Platform(d) /\ ~dlg[d].finalize
    /\ dlg[d].desc.owned /\ dlg[d].desc.blocks /\ dlg[d].blocking

HasBlocking(reg) == \E i \in DOMAIN reg : BlocksOwner(reg[i])

\* A list of dialogs without d; no list holds a dialog twice.
Without(list, d) ==
    IF d \in Range(list) THEN RemoveAt(list, CHOOSE i \in DOMAIN list : list[i] = d) ELSE list

\* What is left of a list, in its order, without the members of S.
Keeping(list, S) ==
    {kept \in SetToSeqs(Range(list) \ S) :
        \A i, j \in DOMAIN kept : i < j =>
            \E k, l \in DOMAIN list : k < l /\ kept[i] = list[k] /\ kept[j] = list[l]}

OwnerResolves(d) == dlg[d].desc.owned /\ win.open /\ ~win.destroying

\* restoreOwnerAfterRemoval: it acts only if no other dialog blocks.
Restores(d) == OwnerResolves(d) /\ Platform(d) /\ ~HasBlocking(Without(registry, d))
RestoreCanFail(d) == Restores(d) /\ win.enabled # win.interaction
EnabledAfter(d) == IF Restores(d) THEN win.interaction ELSE win.enabled

Restored(d) == [win EXCEPT !.enabled = EnabledAfter(d)]

-----------------------------------------------------------------------------
(* finalizeNative(state, restoreOwner), one disjunct per return statement.  *)
(* The caller sets at, because ownership of the state is the caller's.      *)

Cancelled(d) == [dlg[d] EXCEPT !.restorePending = FALSE]

Removed(d) == [Cancelled(d) EXCEPT !.hwnd = "none", !.registered = FALSE, !.blocking = FALSE]

Pend(d, restoreOwner) == restoreOwner /\ dlg[d].restorePending
Back(d, restoreOwner) == restoreOwner /\ dlg[d].blocking

Become(d, rec, owner) == dlg' = [dlg EXCEPT ![d] = [rec EXCEPT !.at = owner]]

\* The returns with resourceClosed = false.
FinalizeKeeps(d, restoreOwner, owner) ==
    \/ \* the restoration already pending fails: everything is kept
       /\ Pend(d, restoreOwner) /\ RestoreCanFail(d) /\ Fail
       /\ Become(d, dlg[d], owner)
       /\ UNCHANGED <<registry, restoreChain, classUsers, win>>
    \/ \* DestroyWindow fails
       /\ Platform(d) /\ dlg[d].hwnd = "live" /\ Fail
       /\ Become(d, Cancelled(d), owner)
       /\ restoreChain' = Without(restoreChain, d)
       /\ win' = IF Pend(d, restoreOwner) THEN Restored(d) ELSE win
       /\ UNCHANGED <<registry, classUsers>>
    \/ \* the owner cannot be enabled again: queue the restoration
       /\ Platform(d) /\ Back(d, restoreOwner) /\ RestoreCanFail(d) /\ Fail
       /\ Become(d, [Removed(d) EXCEPT !.restorePending = TRUE], owner)
       /\ restoreChain' = <<d>> \o Without(restoreChain, d)
       /\ registry' = Without(registry, d)
       /\ UNCHANGED <<classUsers, win>>
    \/ \* the window class cannot be unregistered by its last user
       /\ Platform(d) /\ dlg[d].classHeld /\ classUsers = 1 /\ Fail
       /\ Become(d, [Removed(d) EXCEPT !.finalize = TRUE, !.cancel = FALSE], owner)
       /\ restoreChain' = Without(restoreChain, d)
       /\ registry' = Without(registry, d)
       /\ win' = IF Pend(d, restoreOwner) \/ Back(d, restoreOwner) THEN Restored(d) ELSE win
       /\ UNCHANGED classUsers

\* Mutant: classReferenceHeld is not cleared, so the deleter releases again.
FinalizeCloses_ReleasesTwice(d, restoreOwner, owner) ==
    /\ NoFail /\ Platform(d)
    /\ Become(d, [Removed(d) EXCEPT !.data = "freed"], owner)
    /\ restoreChain' = Without(restoreChain, d) /\ registry' = Without(registry, d)
    /\ classUsers' = classUsers - 2
    /\ UNCHANGED win

\* Mutant: cancelProgressOwnerRestore is not called.
FinalizeCloses_KeepsRestore(d, restoreOwner, owner) ==
    /\ NoFail /\ Platform(d)
    /\ Become(d, [Removed(d) EXCEPT !.finalize = TRUE, !.classHeld = FALSE,
                                    !.data = "freed"], owner)
    /\ registry' = Without(registry, d)
    /\ win' = IF Pend(d, restoreOwner) \/ Back(d, restoreOwner) THEN Restored(d) ELSE win
    /\ classUsers' = classUsers - (IF dlg[d].classHeld THEN 1 ELSE 0)
    /\ UNCHANGED restoreChain

\* The returns with resourceClosed = true.
FinalizeCloses(d, restoreOwner, owner) ==
    /\ NoFail
    /\ restoreChain' = Without(restoreChain, d)
    /\ \/ /\ ~Platform(d)
          /\ Become(d, [Cancelled(d) EXCEPT !.finalize = TRUE, !.cancel = FALSE], owner)
          /\ UNCHANGED <<registry, classUsers, win>>
       \/ /\ Platform(d)
          /\ Become(d, [Removed(d) EXCEPT !.finalize = TRUE, !.cancel = FALSE,
                                          !.classHeld = FALSE, !.data = "freed"], owner)
          /\ registry' = Without(registry, d)
          /\ win' = IF Pend(d, restoreOwner) \/ Back(d, restoreOwner) THEN Restored(d) ELSE win
          /\ classUsers' = classUsers - (IF dlg[d].classHeld THEN 1 ELSE 0)

-----------------------------------------------------------------------------
(* ProgressDialog::open on the owner thread *)

Idle == pc = "idle"

\* The native state an open has built when it stops at `point'.
Partial(d, desc, point) ==
    [Fresh EXCEPT !.at = "held", !.data = "owned", !.classHeld = TRUE, !.desc = desc,
        !.hwnd = IF point = "create" THEN "none" ELSE "live",
        !.registered = point \in {"controls", "configure", "show", "done"},
        !.blocking = point \in {"show", "done"} /\ desc.owned /\ desc.blocks]

\* openProgress succeeds.  Failures before the window class is acquired leave
\* no state behind and are no step.
Open(d, desc) ==
    /\ Idle /\ dlg[d].at = "fresh"
    /\ desc.owned => win.open
    /\ dlg' = [dlg EXCEPT ![d] = Partial(d, desc, "done")]
    /\ registry' = Append(registry, d)
    /\ classUsers' = classUsers + 1
    /\ win' = IF desc.owned /\ desc.blocks THEN [win EXCEPT !.enabled = FALSE] ELSE win
    /\ UNCHANGED <<restoreChain, deferred, cleanup, retained, posted, ctl, fpc, faults, toggles>>

\* openProgress fails: no window is created, registration runs out of memory,
\* a control is missing, the mode, layout or blocking of the owner fails, or
\* the final UpdateWindow fails.  The later points roll back themselves before
\* open() tries closeProgressBestEffort again.
OpenFails(d, desc, point) ==
    /\ Idle /\ dlg[d].at = "fresh"
    /\ desc.owned => win.open
    /\ Fail
    /\ dlg' = [dlg EXCEPT ![d] = Partial(d, desc, point)]
    /\ registry' = IF Partial(d, desc, point).registered THEN Append(registry, d) ELSE registry
    /\ classUsers' = classUsers + 1
    /\ win' = IF Partial(d, desc, point).blocking THEN [win EXCEPT !.enabled = FALSE] ELSE win
    /\ pc' = "rollback" /\ cur' = d
    /\ tries' = IF point \in {"create", "controls"} THEN 1 ELSE 2
    /\ UNCHANGED <<restoreChain, deferred, cleanup, retained, posted, idx, fpc, toggles>>

\* A roll-back finalisation; the candidate of a failed open that cannot be
\* finalised is handed to the dispatcher's deferred chain.
RollbackOpen ==
    /\ pc = "rollback"
    /\ \/ /\ FinalizeCloses(cur, TRUE, "freed")
          /\ pc' = "idle" /\ cur' = NoDialog /\ tries' = 0
          /\ UNCHANGED deferred
       \/ /\ tries > 1
          /\ FinalizeKeeps(cur, TRUE, "held")
          /\ tries' = tries - 1
          /\ UNCHANGED <<deferred, pc, cur>>
       \/ /\ tries = 1
          /\ FinalizeKeeps(cur, TRUE, "deferred")
          /\ deferred' = <<cur>> \o deferred
          /\ pc' = "idle" /\ cur' = NoDialog /\ tries' = 0
    /\ UNCHANGED <<cleanup, retained, posted, idx, fpc, toggles>>

-----------------------------------------------------------------------------
(* Owner-thread operations on an open dialog *)

\* The owner thread may use the object: no foreign thread is destroying it.
Usable(d) == Idle /\ dlg[d].at = "held" /\ fpc[d] = "none"

\* A state without native data is released without any finalisation.
Release(d) ==
    /\ ~Platform(d)
    /\ dlg' = [dlg EXCEPT ![d].at = "freed"]
    /\ UNCHANGED <<registry, restoreChain, classUsers, win, faults>>

\* closeProgress and closeProgressBestEffort on the owner thread
CloseSucceeds(d) == Release(d) \/ (Platform(d) /\ FinalizeCloses(d, TRUE, "freed"))
CloseFails(d, owner) == Platform(d) /\ FinalizeKeeps(d, TRUE, owner)

\* ProgressDialog::close
Close(d) ==
    /\ Usable(d)
    /\ CloseSucceeds(d) \/ CloseFails(d, "held")
    /\ UNCHANGED <<deferred, cleanup, retained, posted, ctl, fpc, toggles>>

\* Mutant: the destructor frees a state whose cleanup failed.
Destroy_DropsFailure(d) ==
    /\ Usable(d)
    /\ CloseSucceeds(d) \/ CloseFails(d, "freed")
    /\ UNCHANGED <<deferred, cleanup, retained, posted, ctl, fpc, toggles>>

\* ~ProgressDialog on the owner thread
Destroy(d) ==
    /\ Usable(d)
    /\ \/ CloseSucceeds(d) /\ UNCHANGED deferred
       \/ CloseFails(d, "deferred") /\ deferred' = <<d>> \o deferred
    /\ UNCHANGED <<cleanup, retained, posted, ctl, fpc, toggles>>

\* WM_COMMAND of the cancel button, or WM_CLOSE
RequestCancel(d) ==
    /\ Idle /\ dlg[d].hwnd = "live" /\ Platform(d) /\ dlg[d].desc.cancelable
    /\ dlg' = [dlg EXCEPT ![d].cancel = TRUE]
    /\ UNCHANGED <<chains, class, win, posted, ctl, fpc, faults, toggles>>

ClearCancelRequest(d) ==
    /\ Usable(d) /\ dlg[d].cancel
    /\ dlg' = [dlg EXCEPT ![d].cancel = FALSE]
    /\ UNCHANGED <<chains, class, win, posted, ctl, fpc, faults, toggles>>

\* Mutant: blocking dialogs are not consulted.
SetUserInteractionEnabled_IgnoresBlockers ==
    /\ Idle /\ win.open /\ toggles < MaxToggles
    /\ toggles' = toggles + 1
    /\ win' = [win EXCEPT !.interaction = ~@, !.enabled = ~win.interaction]
    /\ UNCHANGED <<dlg, chains, class, posted, ctl, fpc, faults>>

\* Window::setUserInteractionEnabled
SetUserInteractionEnabled ==
    /\ Idle /\ win.open /\ toggles < MaxToggles
    /\ toggles' = toggles + 1
    /\ LET wanted == ~win.interaction
           effective == wanted /\ ~HasBlocking(registry)
       IN \/ /\ win' = [win EXCEPT !.interaction = wanted, !.enabled = effective]
             /\ NoFail
          \/ /\ win.enabled # effective /\ Fail
             /\ UNCHANGED win
    /\ UNCHANGED <<dlg, chains, class, posted, ctl, fpc>>

-----------------------------------------------------------------------------
(* Native losses: WM_NCDESTROY that finalizeNative did not cause *)

\* The dialogs that lose their native window without finalizeNative.
Lost(S) == [d \in Dialogs |->
    IF d \in S
    THEN [dlg[d] EXCEPT !.hwnd = "none", !.registered = FALSE, !.blocking = FALSE,
                        !.restorePending = @ \/ dlg[d].blocking,
                        !.cancel = FALSE, !.finalize = TRUE]
    ELSE dlg[d]]

\* queueProgressOwnerRestore for the blocking ones, each at the chain's head
QueueProgressOwnerRestore(S) ==
    \E q \in SetToSeqs({d \in S : dlg[d].blocking /\ ~dlg[d].restorePending}) :
        restoreChain' = q \o restoreChain

Live(S) == {d \in S : dlg[d].hwnd = "live" /\ Platform(d)}

\* The wake posted to the owner Window can be lost.
NativeLoss(d) ==
    /\ Idle /\ d \in Live(Dialogs)
    /\ dlg' = Lost({d})
    /\ registry' = Without(registry, d)
    /\ QueueProgressOwnerRestore({d})
    /\ IF dlg[d].blocking
       THEN \/ posted' = TRUE /\ NoFail
            \/ Fail /\ UNCHANGED posted
       ELSE UNCHANGED <<posted, faults>>
    /\ UNCHANGED <<deferred, cleanup, class, win, ctl, fpc, toggles>>

\* The owner Window is destroyed, natively owned dialogs with it, and messages
\* posted to it are gone.
WindowGone ==
    LET S == Live({d \in Dialogs : dlg[d].desc.owned})
    IN /\ dlg' = Lost(S)
       /\ registry' \in Keeping(registry, S)
       /\ QueueProgressOwnerRestore(S)
       /\ win' = [win EXCEPT !.open = FALSE, !.destroying = FALSE]
       /\ posted' = FALSE

WindowNativeLoss ==
    /\ Idle /\ win.open
    /\ WindowGone
    /\ UNCHANGED <<deferred, cleanup, class, ctl, fpc, faults, toggles>>

-----------------------------------------------------------------------------
(* Window::close: the owned dialogs go first *)

CloseWindow ==
    /\ Idle /\ win.open
    /\ win' = [win EXCEPT !.destroying = TRUE]
    /\ pc' = "ownerLoss" /\ idx' = 1
    /\ UNCHANGED <<dlg, chains, class, posted, cur, tries, fpc, faults, toggles>>

\* One iteration of notifyProgressOwnerLoss
NotifyProgressOwnerLoss ==
    /\ pc = "ownerLoss" /\ idx <= Len(registry)
    /\ LET d == registry[idx]
       IN \/ /\ ~dlg[d].desc.owned
             /\ idx' = idx + 1
             /\ UNCHANGED <<dlg, registry, restoreChain, classUsers, win, faults, pc>>
          \/ /\ dlg[d].desc.owned
             /\ FinalizeCloses(d, FALSE, dlg[d].at)
             /\ UNCHANGED <<idx, pc>>
          \/ /\ dlg[d].desc.owned
             /\ FinalizeKeeps(d, FALSE, dlg[d].at)
             /\ pc' = "closeRollback"
             /\ UNCHANGED idx
    /\ UNCHANGED <<deferred, cleanup, retained, posted, cur, tries, fpc, toggles>>

\* Drag-and-drop teardown and DestroyWindow of the owner
DestroyOwnerWindow ==
    /\ pc = "ownerLoss" /\ idx > Len(registry)
    /\ \/ /\ WindowGone /\ NoFail
          /\ pc' = "idle"
       \/ /\ Fail
          /\ pc' = "closeRollback"
          /\ UNCHANGED <<dlg, registry, restoreChain, win, posted>>
    /\ UNCHANGED <<deferred, cleanup, class, cur, tries, idx, fpc, toggles>>

\* A failed close enables the owner again unless a dialog still blocks it.
CloseRollback ==
    /\ pc = "closeRollback"
    /\ pc' = "idle"
    /\ \/ /\ win' = [win EXCEPT !.destroying = FALSE,
                               !.enabled = IF HasBlocking(registry) THEN @ ELSE win.interaction]
          /\ NoFail
       \/ /\ RollbackFaults /\ Fail
          /\ ~HasBlocking(registry) /\ win.enabled # win.interaction
          /\ win' = [win EXCEPT !.destroying = FALSE]
    /\ UNCHANGED <<dlg, chains, class, posted, cur, tries, idx, fpc, toggles>>

-----------------------------------------------------------------------------
(* The event pump *)

\* Mutant: a record is dropped although its restoration failed.
RestorePendingProgressOwners_DropsFailed ==
    /\ restoreChain' = <<>>
    /\ dlg' = [d \in Dialogs |-> [dlg[d] EXCEPT !.restorePending = FALSE]]
    /\ \/ /\ NoFail
          /\ win' = IF restoreChain # <<>> /\ win.open /\ ~HasBlocking(registry)
                    THEN [win EXCEPT !.enabled = win.interaction] ELSE win
       \/ Fail /\ UNCHANGED win

\* restorePendingProgressOwners: the chain is walked from its head; k leading
\* restorations fail and stay, the next one enables the owner and with it
\* every later record is settled.
RestorePendingProgressOwners ==
    LET kept(c) == [d \in Dialogs |->
                      [dlg[d] EXCEPT !.restorePending = @ /\ d \in Range(c)]]
    IN
    \/ \* the owner is gone: every record is dropped
       /\ ~win.open \/ win.destroying
       /\ restoreChain' = <<>> /\ dlg' = kept(<<>>)
       /\ UNCHANGED <<win, faults>>
    \/ \* another dialog blocks the owner: every record stays
       /\ win.open /\ ~win.destroying /\ HasBlocking(registry)
       /\ UNCHANGED <<restoreChain, dlg, win, faults>>
    \/ /\ win.open /\ ~win.destroying /\ ~HasBlocking(registry)
       /\ \E k \in 0..Len(restoreChain) :
            LET c == SubSeq(restoreChain, 1, k)
            IN /\ k > 0 => win.enabled # win.interaction
               /\ faults + k <= MaxFaults
               /\ faults' = faults + k
               /\ restoreChain' = c /\ dlg' = kept(c)
               /\ win' = IF k < Len(restoreChain)
                         THEN [win EXCEPT !.enabled = win.interaction] ELSE win

\* The posted restore message reaches the owner Window's procedure.
RestoreMessage ==
    /\ Idle /\ posted
    /\ posted' = FALSE
    /\ RestorePendingProgressOwners
    /\ UNCHANGED <<registry, deferred, cleanup, class, ctl, fpc, toggles>>

\* pumpEvents: pruneAbandonedStates first retries the restorations and takes
\* the deferred chain under deferredMutex.
Pump ==
    /\ Idle
    /\ RestorePendingProgressOwners
    /\ cleanup' = deferred /\ deferred' = <<>>
    /\ pc' = "prune"
    /\ UNCHANGED <<registry, class, posted, cur, tries, idx, fpc, toggles>>

\* Mutant: the rest of the chain is not put back after a failure.
PruneAbandonedStates_LosesRest ==
    /\ pc = "prune"
    /\ \/ /\ cleanup = <<>>
          /\ pc' = "idle"
          /\ UNCHANGED <<dlg, registry, restoreChain, classUsers, win, faults, cleanup>>
       \/ /\ cleanup # <<>>
          /\ CloseSucceeds(Head(cleanup))
          /\ cleanup' = Tail(cleanup)
          /\ UNCHANGED pc
       \/ /\ cleanup # <<>>
          /\ CloseFails(Head(cleanup), "deferred")
          /\ cleanup' = <<>>
          /\ pc' = "idle"
    /\ UNCHANGED <<deferred, retained, posted, cur, tries, idx, fpc, toggles>>

\* One iteration of the progress loop of pruneAbandonedStates.  A failure puts
\* the rest of the chain back in front of what foreign threads pushed.
PruneAbandonedStates ==
    /\ pc = "prune"
    /\ \/ /\ cleanup = <<>>
          /\ pc' = "idle"
          /\ UNCHANGED <<dlg, registry, restoreChain, classUsers, win, faults, deferred, cleanup>>
       \/ /\ cleanup # <<>>
          /\ CloseSucceeds(Head(cleanup))
          /\ cleanup' = Tail(cleanup)
          /\ UNCHANGED <<deferred, pc>>
       \/ /\ cleanup # <<>>
          /\ CloseFails(Head(cleanup), "deferred")
          /\ deferred' = cleanup \o deferred
          /\ cleanup' = <<>>
          /\ pc' = "idle"
    /\ UNCHANGED <<retained, posted, cur, tries, idx, fpc, toggles>>

-----------------------------------------------------------------------------
(* ~Dispatcher: the owner thread exits, the registry mutex held throughout *)

BeginExit ==
    /\ Idle
    /\ pc' = "exit"
    /\ cleanup' = deferred /\ deferred' = <<>>
    /\ UNCHANGED <<dlg, registry, restoreChain, class, win, posted, cur, tries, idx,
                   fpc, faults, toggles>>

\* finalizeProgressForDispatcherExit: deferred states first, then the registry
\* from its back.
ExitTarget == IF cleanup # <<>> THEN Head(cleanup) ELSE Last(registry)

\* Who owns the target once it is finalised: deferred states are freed.
AfterExit(d) == IF cleanup # <<>> THEN "freed" ELSE dlg[d].at

FinalizeForExit ==
    /\ pc = "exit" /\ (cleanup # <<>> \/ registry # <<>>)
    /\ LET d == ExitTarget
       IN \/ /\ FinalizeCloses(d, FALSE, AfterExit(d))
             /\ cleanup' = Without(cleanup, d)
             /\ UNCHANGED <<pc, cur>>
          \/ /\ FinalizeKeeps(d, FALSE, dlg[d].at)
             /\ pc' = "abandon" /\ cur' = d
             /\ UNCHANGED cleanup
    /\ UNCHANGED <<deferred, retained, posted, tries, idx, fpc, toggles>>

\* Mutant: the class reference of a window that still exists is given up.
AbandonNativeForThreadExit_ReleasesClass ==
    /\ pc = "abandon" /\ NoFail
    /\ dlg' = [dlg EXCEPT ![cur] = [@ EXCEPT !.at = AfterExit(cur), !.registered = FALSE,
                                    !.hwnd = IF @ = "live" THEN "detached" ELSE @,
                                    !.blocking = FALSE, !.classHeld = FALSE, !.data = "freed"]]
    /\ classUsers' = classUsers - 1
    /\ registry' = Without(registry, cur) /\ cleanup' = Without(cleanup, cur)
    /\ pc' = "exit" /\ cur' = NoDialog
    /\ UNCHANGED <<restoreChain, deferred, retained, win, posted, tries, idx, fpc, toggles>>

\* abandonNativeForThreadExit: the window keeps its class reference; if its
\* user data cannot be cleared, the data is leaked on purpose.
AbandonNativeForThreadExit ==
    LET d == cur
        out == [dlg[d] EXCEPT !.at = AfterExit(d), !.registered = FALSE, !.blocking = FALSE,
                              !.cancel = FALSE, !.finalize = TRUE]
    IN
    /\ pc = "abandon"
    /\ \/ /\ NoFail
          /\ dlg' = [dlg EXCEPT ![d] = [out EXCEPT
                        !.hwnd = IF @ = "live" THEN "detached" ELSE @,
                        !.classHeld = FALSE, !.data = "freed"]]
          /\ retained' = retained + (IF dlg[d].classHeld THEN 1 ELSE 0)
       \/ /\ dlg[d].hwnd = "live" /\ Fail
          /\ dlg' = [dlg EXCEPT ![d] = [out EXCEPT !.data = "leaked"]]
          /\ UNCHANGED retained
    /\ registry' = Without(registry, d)
    /\ cleanup' = Without(cleanup, d)
    /\ pc' = "exit" /\ cur' = NoDialog
    /\ UNCHANGED <<restoreChain, deferred, classUsers, win, posted, tries, idx, fpc, toggles>>

\* The Windows are closed, the dispatcher and its chains are gone, and the
\* system destroys the thread's remaining windows.
EndExit ==
    /\ pc = "exit" /\ cleanup = <<>> /\ registry = <<>>
    /\ pc' = "exited"
    /\ dlg' = [d \in Dialogs |-> [dlg[d] EXCEPT !.hwnd = "none"]]
    /\ restoreChain' = <<>>
    /\ win' = [win EXCEPT !.open = FALSE]
    /\ posted' = FALSE
    /\ UNCHANGED <<registry, deferred, cleanup, class, cur, tries, idx, fpc, faults, toggles>>

-----------------------------------------------------------------------------
(* ~ProgressDialog on a foreign thread *)

\* The destructor's first look at state_->platform
ForeignDestroy(d) ==
    /\ dlg[d].at = "held" /\ fpc[d] = "none" /\ ~(pc = "rollback" /\ cur = d)
    /\ IF Platform(d)
       THEN fpc' = [fpc EXCEPT ![d] = "defer"] /\ UNCHANGED dlg
       ELSE dlg' = [dlg EXCEPT ![d].at = "freed"] /\ UNCHANGED fpc
    /\ UNCHANGED <<chains, class, win, posted, ctl, faults, toggles>>

\* deferProgressCleanupToOwner compares the owner's thread id, read through
\* state->platform, before it takes the registry mutex: the pointer is loaded
\* and then followed.
ReadOwnerThread(d) ==
    /\ fpc[d] = "defer"
    /\ fpc' = [fpc EXCEPT ![d] = IF Platform(d) THEN "deref" ELSE "fallback"]
    /\ UNCHANGED <<dlg, chains, class, win, posted, ctl, faults, toggles>>

\* If the owner thread has released the data in between, the value read is
\* arbitrary: it may even match the caller's own thread, whose dispatcher then
\* takes the state, which has no native data left, and releases it.
ReadThroughPlatform(d) ==
    /\ fpc[d] = "deref"
    /\ \/ /\ fpc' = [fpc EXCEPT ![d] = "lock"]
          /\ UNCHANGED dlg
       \/ /\ dlg[d].data = "freed"
          /\ fpc' = [fpc EXCEPT ![d] = "none"]
          /\ dlg' = [dlg EXCEPT ![d].at = "freed"]
    /\ UNCHANGED <<chains, class, win, posted, ctl, faults, toggles>>

RegistryUnlocked == pc \notin {"exit", "abandon"}

DeferToOwner(d) ==
    /\ fpc[d] = "lock" /\ RegistryUnlocked
    /\ IF pc # "exited" /\ Platform(d)
       THEN /\ deferred' = <<d>> \o deferred
            /\ dlg' = [dlg EXCEPT ![d].at = "deferred"]
            /\ fpc' = [fpc EXCEPT ![d] = "none"]
       ELSE /\ fpc' = [fpc EXCEPT ![d] = "fallback"]
            /\ UNCHANGED <<deferred, dlg>>
    /\ UNCHANGED <<registry, restoreChain, cleanup, class, win, posted, ctl, faults, toggles>>

\* No dispatcher takes the state: closeProgressBestEffort off the owner thread,
\* then the deleters.  The data of a live window, or of a class that cannot be
\* released twice in a row, is leaked.
ForeignFallback(d) ==
    /\ fpc[d] = "fallback"
    /\ fpc' = [fpc EXCEPT ![d] = "none"]
    /\ \/ /\ ~Platform(d)
          /\ dlg' = [dlg EXCEPT ![d].at = "freed"]
          /\ UNCHANGED <<classUsers, faults>>
       \/ /\ Platform(d) /\ dlg[d].hwnd # "live"
          /\ dlg' = [dlg EXCEPT ![d].at = "freed", ![d].data = "freed", ![d].classHeld = FALSE]
          /\ classUsers' = classUsers - (IF dlg[d].classHeld THEN 1 ELSE 0)
          /\ UNCHANGED faults
       \/ /\ Platform(d)
          /\ dlg[d].hwnd = "live" \/ (dlg[d].classHeld /\ classUsers = 1)
          /\ dlg' = [dlg EXCEPT ![d].at = "freed", ![d].data = "leaked"]
          /\ IF dlg[d].hwnd = "live" THEN UNCHANGED faults
             ELSE faults + 2 <= MaxFaults /\ faults' = faults + 2
          /\ UNCHANGED classUsers
    /\ UNCHANGED <<chains, retained, win, posted, ctl, toggles>>

-----------------------------------------------------------------------------
OpenPoints == {"create", "register", "controls", "configure", "show"}

DialogStep(d) ==
    \/ \E desc \in Descriptions : Open(d, desc)
    \/ \E desc \in Descriptions, point \in OpenPoints : OpenFails(d, desc, point)
    \/ Close(d) \/ Destroy(d)
    \/ RequestCancel(d) \/ ClearCancelRequest(d)
    \/ NativeLoss(d)

WindowStep == SetUserInteractionEnabled \/ WindowNativeLoss \/ CloseWindow

\* Steps that finish what the owner thread is in the middle of
OwnerContinues ==
    \/ RollbackOpen \/ NotifyProgressOwnerLoss \/ DestroyOwnerWindow \/ CloseRollback
    \/ PruneAbandonedStates
    \/ FinalizeForExit \/ AbandonNativeForThreadExit \/ EndExit

ForeignStep(d) ==
    \/ ForeignDestroy(d) \/ ReadOwnerThread(d) \/ ReadThroughPlatform(d)
    \/ DeferToOwner(d) \/ ForeignFallback(d)

\* Everything has ended: the owner thread is gone and so is every object.
Ended ==
    /\ pc = "exited" /\ \A d \in Dialogs : dlg[d].at # "held"
    /\ UNCHANGED vars

Next ==
    \/ \E d \in Dialogs : DialogStep(d) \/ ForeignStep(d)
    \/ WindowStep \/ OwnerContinues
    \/ RestoreMessage \/ Pump \/ BeginExit
    \/ Ended

Spec == Init /\ [][Next]_vars

\* The owner thread finishes its handlers and keeps pumping, as
\* ProgressDialog::open asks of its caller, and a foreign destructor runs on.
Fairness ==
    /\ WF_vars(OwnerContinues)
    /\ SF_vars(Pump)
    /\ \A d \in Dialogs :
         WF_vars(ReadOwnerThread(d) \/ ReadThroughPlatform(d) \/ DeferToOwner(d)
                 \/ ForeignFallback(d))

FairSpec == Spec /\ Fairness

-----------------------------------------------------------------------------
(* Properties *)

\* Every variable of the dispatcher, the owner Window and the dialogs keeps
\* its type; the class reference count and the fault budget stay natural numbers.
TypeOK ==
    /\ dlg \in [Dialogs -> DialogType]
    /\ registry \in Seq(Dialogs) /\ restoreChain \in Seq(Dialogs)
    /\ deferred \in Seq(Dialogs) /\ cleanup \in Seq(Dialogs)
    /\ classUsers \in Nat /\ retained \in Nat
    /\ win \in [open : BOOLEAN, enabled : BOOLEAN, interaction : BOOLEAN, destroying : BOOLEAN]
    /\ posted \in BOOLEAN
    /\ pc \in {"idle", "rollback", "ownerLoss", "closeRollback", "prune", "exit",
               "abandon", "exited"}
    /\ cur \in Dialogs \cup {NoDialog} /\ tries \in 0..2 /\ idx \in Nat \ {0}
    /\ fpc \in [Dialogs -> {"none", "defer", "deref", "lock", "fallback"}]
    /\ faults \in 0..MaxFaults /\ toggles \in 0..MaxToggles

\* An open blocking dialog keeps its Window natively disabled, whatever is
\* requested of the Window meanwhile and however other dialogs come and go
\* (windowHasBlockingProgressDialog is asked before every EnableWindow).
BlockedWhileBlocking == win.open /\ HasBlocking(registry) => ~win.enabled

Alive(d) == dlg[d].at \in {"held", "deferred"}

\* Raw pointers never dangle: a native window leads to data that still exists,
\* native data belongs to a portable state that still exists, and so do the
\* entries of the dispatcher's registry and of its two intrusive chains.
NothingDangles ==
    /\ \A d \in Dialogs : dlg[d].hwnd = "live" => dlg[d].data \in {"owned", "leaked"}
    /\ \A d \in Dialogs : dlg[d].data = "owned" => Alive(d)
    /\ \A d \in Range(registry) \cup Range(restoreChain) : Alive(d)
    /\ \A d \in Range(deferred) \cup Range(cleanup) : dlg[d].at = "deferred"

\* The window class is registered as long as a window of it exists, and its
\* user count is exactly the references held plus those left to process
\* teardown.
ClassOutlivesWindows ==
    /\ classUsers = retained + Cardinality({d \in Dialogs : dlg[d].classHeld})
    /\ \A d \in Dialogs : dlg[d].hwnd # "none" => classUsers > 0

\* While the owner thread lives, a dialog's state is released only after its
\* native window, its owner's blocking and its class reference are gone: what
\* could not be cleaned up is retained for a retry.
NothingLostBeforeExit ==
    \A d \in Dialogs : dlg[d].at = "freed" /\ RegistryUnlocked /\ pc # "exited"
        => /\ dlg[d].hwnd = "none" /\ ~dlg[d].classHeld /\ ~dlg[d].blocking
           /\ dlg[d].data \in {"none", "freed"}

\* A foreign destructor never reads native data the owner thread has released.
DestructorReadsLiveData == \A d \in Dialogs : fpc[d] = "deref" => dlg[d].data # "freed"

\* A dialog handed to the dispatcher is eventually finalised and freed.
DeferredIsFreed == \A d \in Dialogs : dlg[d].at = "deferred" ~> dlg[d].at = "freed"

\* A disabled Window with no blocking dialog left is eventually enabled again
\* (or closed, disabled on request, or blocked by a new dialog).
OwnerIsRestored ==
    win.open /\ win.interaction /\ ~win.enabled /\ ~HasBlocking(registry)
        ~> ~win.open \/ ~win.interaction \/ win.enabled \/ HasBlocking(registry)

\* The owner side of a progress dialog, through every failure of its destruction:
\* the owner stays disabled while a dialog blocks it, and no window, list entry,
\* pending restore or window class is left of a dialog that is gone, nor a dialog
\* lost before its thread exits.
OwnersStayUsable ==
    /\ TypeOK
    /\ BlockedWhileBlocking
    /\ NothingDangles
    /\ ClassOutlivesWindows
    /\ NothingLostBeforeExit

\* Destroying a dialog is settled in the end, wherever its destructor ran and
\* whichever native call failed: it is freed, and the Window it disabled is
\* enabled again.
DestructionSettles == DeferredIsFreed /\ OwnerIsRestored
=============================================================================
