----------------------------- MODULE Fullscreen -----------------------------
(***************************************************************************)
(* Window modes: windowed, borderless and exclusive fullscreen, on         *)
(* displays that come and go. setWindowMode runs in stages, because every  *)
(* native call in it dispatches messages: between two stages the window    *)
(* procedure may handle WM_ACTIVATEAPP and WM_DISPLAYCHANGE of any window  *)
(* of the thread. Every native call may fail. Sizes, positions and display *)
(* modes are names; a display is its own MonitorId, since the registry of  *)
(* ids never forgets or reuses one. The thread's DXGI factory, which       *)
(* getColorInfo keeps while windows are open, is the last part.            *)
(***************************************************************************)
EXTENDS Integers, FiniteSets, Sequences

CONSTANTS ModeWindows,     \* windows of the thread
          Displays,        \* displays that can be attached
          PrimaryDisplay,  \* the one that stays attached
          ExactModes,      \* display modes a request names
          ListedModes,     \* the ones EnumDisplaySettingsExW lists
          MaxActivations,  \* bound: undelivered WM_ACTIVATEAPP messages of a window
          None

ASSUME FullscreenAssumption ==
  PrimaryDisplay \in Displays /\ ListedModes \subseteq ExactModes /\ MaxActivations \in Nat \ {0}

VARIABLES screens,      \* WindowState and WindowData of each window
          display,      \* the mode each display shows
          connected,    \* the attached displays
          foreground,   \* whether the process owns the foreground window
          activations,  \* WM_ACTIVATEAPP messages not yet delivered
          notices,      \* windows with an undelivered WM_DISPLAYCHANGE
          change,       \* the setWindowMode call in progress
          abandoned,    \* history: a restoration failed and its record was dropped
          colors        \* DisplayColorFactoryState and what was announced of it

fullscreenVars == <<screens, display, connected, foreground, activations, notices, change, abandoned, colors>>
nativeVars == <<connected, foreground>>

Desktop == "desktop"
NoChange == [window |-> None, step |-> "none"]
NoFullscreen == [monitor |-> None, requested |-> None, exact |-> FALSE, suspended |-> FALSE]

Requests ==
  [mode : {"windowed"}, monitor : {None}, exact : {None}]
    \cup [mode : {"borderless"}, monitor : Displays \cup {None}, exact : {None}]
    \cup [mode : {"exclusive"}, monitor : Displays \cup {None}, exact : ExactModes \cup {None}]

\* saved, device, active and suspended are WindowData's; saved # None is hasSavedDisplayMode.
\* torn: a failure left the window without the look of its mode. unsettled: the display
\* went away, or refused the mode, since the exclusive mode was last applied.
Created ==
  [open |-> TRUE, alive |-> TRUE, mode |-> "windowed", fs |-> NoFullscreen, saved |-> None, device |-> None,
   active |-> None, suspended |-> FALSE, placement |-> None, rect |-> "home", style |-> "framed",
   told |-> "windowed", torn |-> FALSE, unsettled |-> FALSE]

Absent == [Created EXCEPT !.open = FALSE, !.alive = FALSE]

\* asked is history: a caller has colours it got from this factory.
NoColors == [factory |-> "none", queried |-> FALSE, asked |-> FALSE]

FullscreenInit ==
  /\ screens = [w \in ModeWindows |-> Created]
  /\ display = [d \in Displays |-> Desktop]
  /\ connected = Displays
  /\ foreground = TRUE
  /\ activations = [w \in ModeWindows |-> <<>>]
  /\ notices = {}
  /\ change = NoChange
  /\ abandoned = FALSE
  /\ colors = NoColors

-----------------------------------------------------------------------------
(* Helpers *)

\* modeTransitionDepth # 0.
InTransition(w) == change.window = w /\ change.step # "reconcile"

Alive == {w \in ModeWindows : screens[w].alive}

\* A display change call reaches only an attached display, and may fail there too.
Reaches(d) == IF d \in connected THEN BOOLEAN ELSE {FALSE}

\* Every change of the displays sends WM_DISPLAYCHANGE to the windows.
Announce == notices' = notices \cup Alive

StyleFor(mode) == IF mode = "windowed" THEN "framed" ELSE "popup"

\* The display behind a MonitorId, if it is attached; and a query of it, which may fail.
NativeMonitor(d) == d \in connected
MonitorFromNative(d) == IF NativeMonitor(d) THEN BOOLEAN ELSE {FALSE}

Nearest(w) == IF screens[w].rect \in connected THEN screens[w].rect ELSE PrimaryDisplay
TargetMonitor(w, q) == IF q.monitor = None THEN Nearest(w) ELSE q.monitor

Cleared(r) ==
  [r EXCEPT !.saved = None, !.device = None, !.active = None, !.suspended = FALSE, !.fs = NoFullscreen]

SnapshotFields == {"mode", "fs", "style", "rect", "device", "saved", "active", "suspended"}
CaptureModeSnapshot(r) == [f \in SnapshotFields |-> r[f]]
Restored(r, snap) == [f \in DOMAIN r |-> IF f \in SnapshotFields THEN snap[f] ELSE r[f]]

-----------------------------------------------------------------------------
(* setWindowMode *)

AlreadyThere(r, q, target) ==
  \/ r.mode = "windowed" /\ q.mode = "windowed"
  \/ /\ r.mode = "exclusive" /\ q.mode = "exclusive" /\ r.fs.monitor = target /\ ~r.fs.suspended
     /\ IF q.exact = None THEN ~r.fs.exact ELSE r.fs.exact /\ r.fs.requested = q.exact

FindNativeMode(q) == q.exact = None \/ q.exact \in ListedModes

Acceptable(w, q) ==
  q.mode # "windowed" => NativeMonitor(TargetMonitor(w, q)) /\ FindNativeMode(q)

\* saveWindowedPlacement keeps the bounds a window leaves windowed mode with.
SaveWindowedPlacement(r) == IF r.mode = "windowed" THEN [r EXCEPT !.placement = r.rect] ELSE r

\* applyWindowMode up to the transition. Any of its queries may fail: the call then
\* changes nothing, and setWindowMode still looks at the foreground.
SetWindowMode(w, q) ==
  LET r == screens[w]
      target == IF q.mode = "windowed" THEN None ELSE TargetMonitor(w, q)
  IN /\ change = NoChange /\ r.alive
     /\ \E begins \in {FALSE, Acceptable(w, q) /\ ~AlreadyThere(r, q, target)} :
          IF begins
          THEN /\ change' = [window |-> w, step |-> "leave", request |-> q, target |-> target, current |-> None,
                             snap |-> CaptureModeSnapshot(r), previous |-> r.mode]
               /\ screens' = [screens EXCEPT ![w] = SaveWindowedPlacement(r)]
          ELSE /\ change' = [window |-> w, step |-> "reconcile"]
               /\ UNCHANGED screens
     /\ UNCHANGED <<display, nativeVars, activations, notices, abandoned, colors>>

At(w, step) == change.window = w /\ change.step = step

\* leaveExclusive: the native call, and a failure that ends the transition.
LeaveCall(w) ==
  LET r == screens[w]
  IN /\ At(w, "leave")
     /\ IF r.saved = None \/ r.suspended
        THEN /\ change' = [change EXCEPT !.step = "left"]
             /\ UNCHANGED <<display, notices>>
        ELSE \E ok \in Reaches(r.device) :
               IF ok
               THEN /\ display' = [display EXCEPT ![r.device] = r.saved]
                    /\ change' = [change EXCEPT !.step = "left"]
                    /\ Announce
               ELSE /\ change' = [window |-> w, step |-> "reconcile"]
                    /\ UNCHANGED <<display, notices>>
     /\ UNCHANGED <<screens, nativeVars, activations, abandoned, colors>>

\* The records of the old mode are gone; the new display mode is tested and set.
EnterCall(w) ==
  LET q == change.request
      d == change.target
      r == Cleared(screens[w])
      desired == IF q.exact = None THEN display[d] ELSE q.exact
  IN /\ At(w, "left")
     /\ CASE q.mode = "windowed" ->
               /\ screens' = [screens EXCEPT ![w] = [r EXCEPT !.mode = "windowed"]]
               /\ change' = [change EXCEPT !.step = "style"]
               /\ UNCHANGED <<display, notices>>
          [] q.mode = "borderless" ->
               /\ screens' = [screens EXCEPT ![w] = [r EXCEPT !.mode = "borderless", !.fs.monitor = d]]
               /\ change' = [change EXCEPT !.step = "style"]
               /\ UNCHANGED <<display, notices>>
          [] OTHER -> \E ok \in Reaches(d) :
               /\ screens' = [screens EXCEPT ![w] = [r EXCEPT !.device = d, !.unsettled = FALSE]]
               /\ IF ok
                  THEN /\ display' = [display EXCEPT ![d] = desired]
                       /\ change' = [change EXCEPT !.step = "entered", !.current = display[d]]
                       /\ Announce
                  ELSE /\ change' = [change EXCEPT !.step = "rollback"]
                       /\ UNCHANGED <<display, notices>>
     /\ UNCHANGED <<nativeVars, activations, abandoned, colors>>

Entered(w) ==
  LET q == change.request
      exact == q.exact # None
      desired == IF exact THEN q.exact ELSE change.current
  IN /\ At(w, "entered")
     /\ screens' = [screens EXCEPT ![w] = [@ EXCEPT !.saved = change.current, !.active = desired, !.suspended = FALSE,
                      !.mode = "exclusive",
                      !.fs = [monitor |-> change.target, requested |-> q.exact, exact |-> exact, suspended |-> FALSE]]]
     /\ change' = [change EXCEPT !.step = "style"]
     /\ UNCHANGED <<display, nativeVars, activations, notices, abandoned, colors>>

ReportModeChange(r, previous) == [r EXCEPT !.told = IF previous # r.mode THEN r.mode ELSE @]

Placed(r, d) == IF r.mode = "windowed" THEN r.placement ELSE d

\* applyStyle and the placement: the saved one, or the whole monitor.
Style(w) ==
  LET r == screens[w]
  IN /\ At(w, "style")
     /\ \E ok \in (IF change.target = None THEN BOOLEAN ELSE MonitorFromNative(change.target)) :
          IF ok
          THEN /\ screens' = [screens EXCEPT ![w] =
                     ReportModeChange([r EXCEPT !.style = StyleFor(r.mode), !.rect = Placed(r, change.target)], change.previous)]
               /\ change' = [window |-> w, step |-> "reconcile"]
          ELSE /\ change' = [change EXCEPT !.step = "rollback"]
               /\ UNCHANGED screens
     /\ UNCHANGED <<display, nativeVars, activations, notices, abandoned, colors>>

\* restoreModeSnapshot: the display mode just set is undone, the earlier one set again,
\* the records, the styles and the bounds put back, whatever fails on the way.
RestoreModeSnapshot(w) ==
  LET r == screens[w]
      snap == change.snap
      undo == r.saved # None /\ ~r.suspended
      back == snap.saved # None /\ ~snap.suspended
  IN /\ At(w, "rollback")
     /\ \E undone \in (IF undo THEN Reaches(r.device) ELSE {TRUE}),
           again \in (IF back THEN Reaches(snap.device) ELSE {TRUE}), look \in BOOLEAN :
          /\ LET first == IF undo /\ undone THEN [display EXCEPT ![r.device] = r.saved] ELSE display
             IN display' = IF back /\ again THEN [first EXCEPT ![snap.device] = snap.active] ELSE first
          /\ screens' = [screens EXCEPT ![w] = [Restored(r, snap) EXCEPT
                !.torn = @ \/ ~look, !.unsettled = @ \/ ~again]]
          /\ abandoned' = (abandoned \/ ~undone)
     /\ Announce
     /\ change' = [window |-> w, step |-> "reconcile"]
     /\ UNCHANGED <<nativeVars, activations, colors>>

\* Mutation: suspendExclusive and resumeExclusive do not look at modeTransitionDepth.
SuspendOrResume_Anytime(w, active) ==
  LET r == screens[w]
  IN IF r.saved = None \/ r.suspended = ~active
     THEN UNCHANGED <<screens, display, notices>>
     ELSE \E ok \in Reaches(r.device) :
            /\ display' = IF ok THEN [display EXCEPT ![r.device] = IF active THEN r.active ELSE r.saved] ELSE display
            /\ screens' = [screens EXCEPT ![w] = IF ok
                 THEN [@ EXCEPT !.suspended = ~active, !.fs.suspended = ~active, !.unsettled = FALSE]
                 ELSE [@ EXCEPT !.unsettled = TRUE]]
            /\ IF ok THEN Announce ELSE UNCHANGED notices

\* resumeExclusive and suspendExclusive, with the calls inside them taken as one step.
SuspendOrResume(w, active) ==
  LET r == screens[w]
  IN IF InTransition(w) \/ r.saved = None \/ r.suspended = ~active
     THEN UNCHANGED <<screens, display, notices>>
     ELSE \E ok \in Reaches(r.device) :
            /\ display' = IF ok THEN [display EXCEPT ![r.device] = IF active THEN r.active ELSE r.saved] ELSE display
            /\ screens' = [screens EXCEPT ![w] = IF ok
                 THEN [@ EXCEPT !.suspended = ~active, !.fs.suspended = ~active, !.unsettled = FALSE]
                 ELSE [@ EXCEPT !.unsettled = TRUE]]
            /\ IF ok THEN Announce ELSE UNCHANGED notices

\* Mutation: setWindowMode ends with the transition.
Reconcile_Skips(w) ==
  /\ At(w, "reconcile")
  /\ change' = NoChange
  /\ UNCHANGED <<screens, display, notices, nativeVars, activations, abandoned, colors>>

\* The end of setWindowMode: what the foreground asks for now, success or not.
Reconcile(w) ==
  /\ At(w, "reconcile")
  /\ change' = NoChange
  /\ SuspendOrResume(w, foreground)
  /\ UNCHANGED <<nativeVars, activations, abandoned, colors>>

-----------------------------------------------------------------------------
(* Messages, delivered between the stages or while nothing runs *)

ActivateApp(w) ==
  /\ screens[w].alive /\ activations[w] # <<>>
  /\ activations' = [activations EXCEPT ![w] = Tail(@)]
  /\ SuspendOrResume(w, Head(activations[w]))
  /\ UNCHANGED <<nativeVars, change, abandoned, colors>>

\* Mutation: recovery forgets to report the mode it falls back to.
Recovered_Silent(r, look) ==
  [Cleared(r) EXCEPT !.mode = "windowed", !.style = IF look THEN "framed" ELSE @,
     !.rect = IF look THEN "centered" ELSE @, !.torn = @ \/ ~look, !.unsettled = FALSE]

\* The window falls back to the primary display, its events held back until it is there.
Recovered(r, look) ==
  [Cleared(r) EXCEPT !.mode = "windowed", !.style = IF look THEN "framed" ELSE @, !.told = "windowed",
     !.rect = IF look THEN "centered" ELSE @, !.torn = @ \/ ~look, !.unsettled = FALSE]

\* recoverAfterDisplayChange. The query of the primary monitor comes before the look at
\* the transition depth. A restoration on a display that is gone fails and is not reported.
DisplayChange(w) ==
  LET r == screens[w]
  IN /\ r.alive /\ w \in notices
     /\ notices' = notices \ {w}
     /\ IF r.mode = "windowed" \/ NativeMonitor(r.fs.monitor)
        THEN UNCHANGED screens
        ELSE \E known \in MonitorFromNative(PrimaryDisplay), look \in BOOLEAN :
               CASE ~known -> screens' = [screens EXCEPT ![w] =
                      [r EXCEPT !.mode = "windowed", !.fs = NoFullscreen, !.told = "windowed", !.torn = TRUE]]
                 [] known /\ InTransition(w) -> UNCHANGED screens
                 [] OTHER -> screens' = [screens EXCEPT ![w] = Recovered(r, look)]
     /\ UNCHANGED <<display, nativeVars, activations, change, abandoned, colors>>

-----------------------------------------------------------------------------
(* The rest of the window's life *)

MoveWindow(w) ==
  /\ change = NoChange /\ screens[w].alive /\ screens[w].mode = "windowed"
  /\ \E rect \in {"home", "moved"} \ {screens[w].rect} : screens' = [screens EXCEPT ![w].rect = rect]
  /\ UNCHANGED <<display, nativeVars, activations, notices, change, abandoned, colors>>

\* leaveExclusive outside a transition: its result, its record and the displays.
Leaves(w) ==
  LET r == screens[w]
  IN IF r.saved = None \/ r.suspended
     THEN {[ok |-> TRUE, record |-> Cleared(r), shown |-> display]}
     ELSE {[ok |-> ok, record |-> IF ok THEN Cleared(r) ELSE r,
            shown |-> IF ok THEN [display EXCEPT ![r.device] = r.saved] ELSE display] : ok \in Reaches(r.device)}

\* unregisterOpenState: the last window takes the factory with it.
ReleaseColors == IF \A w \in ModeWindows : ~screens'[w].open THEN NoColors ELSE colors

\* Window::close: a failed restoration keeps the window, and the record, for another try.
CloseMode(w) ==
  /\ change = NoChange /\ screens[w].open
  /\ \E leave \in Leaves(w) :
       /\ display' = leave.shown
       /\ screens' = [screens EXCEPT ![w] = IF leave.ok THEN Absent ELSE @]
       /\ notices' = IF leave.ok THEN notices \ {w} ELSE notices
       /\ activations' = IF leave.ok THEN [activations EXCEPT ![w] = <<>>] ELSE activations
  /\ colors' = ReleaseColors
  /\ UNCHANGED <<nativeVars, change, abandoned>>

\* The destructor: closeBestEffort ignores the failure.
DestroyMode(w) ==
  /\ change = NoChange /\ screens[w].open
  /\ \E leave \in Leaves(w) :
       /\ display' = leave.shown
       /\ abandoned' = (abandoned \/ ~leave.ok)
  /\ screens' = [screens EXCEPT ![w] = Absent]
  /\ notices' = notices \ {w}
  /\ activations' = [activations EXCEPT ![w] = <<>>]
  /\ colors' = ReleaseColors
  /\ UNCHANGED <<nativeVars, change>>

\* WM_NCDESTROY nobody asked for: the record survives until close when the call fails.
NativeLossMode(w) ==
  /\ change = NoChange /\ screens[w].alive
  /\ \E leave \in Leaves(w) :
       /\ display' = leave.shown
       /\ screens' = [screens EXCEPT ![w] = [leave.record EXCEPT !.alive = FALSE]]
  /\ notices' = notices \ {w}
  /\ activations' = [activations EXCEPT ![w] = <<>>]
  /\ UNCHANGED <<nativeVars, change, abandoned, colors>>

OpenMode(w) ==
  /\ change = NoChange /\ ~screens[w].open
  /\ screens' = [screens EXCEPT ![w] = Created]
  /\ UNCHANGED <<display, nativeVars, activations, notices, change, abandoned, colors>>

-----------------------------------------------------------------------------
(* The user, the displays and the colour factory *)

SwitchApp ==
  /\ \A w \in Alive : Len(activations[w]) < MaxActivations
  /\ foreground' = ~foreground
  /\ activations' = [w \in ModeWindows |-> IF w \in Alive THEN Append(activations[w], ~foreground) ELSE activations[w]]
  /\ UNCHANGED <<screens, display, connected, notices, change, abandoned, colors>>

\* A display that comes back shows the desktop's mode.
Plug(d) ==
  /\ d # PrimaryDisplay
  /\ connected' = IF d \in connected THEN connected \ {d} ELSE connected \cup {d}
  /\ display' = [display EXCEPT ![d] = Desktop]
  /\ screens' = [w \in ModeWindows |-> [screens[w] EXCEPT !.unsettled = @ \/ screens[w].device = d]]
  /\ colors' = IF colors.factory = "current" THEN [colors EXCEPT !.factory = "stale"] ELSE colors
  /\ Announce
  /\ UNCHANGED <<foreground, activations, change, abandoned>>

\* The colours change (an HDR switch): DXGI says the factory is no longer current.
ColorsChange ==
  /\ colors.factory = "current"
  /\ colors' = [colors EXCEPT !.factory = "stale"]
  /\ UNCHANGED <<screens, display, nativeVars, activations, notices, change, abandoned>>

NoOpenWindow == \A w \in ModeWindows : ~screens[w].open

\* The colours themselves are not told apart.
EnsureDisplayColorFactory(c, made) ==
  IF c.factory = "current" THEN [c EXCEPT !.asked = TRUE]
  ELSE [NoColors EXCEPT !.factory = IF made THEN "current" ELSE "none", !.asked = made]

\* Mutation: the factory of a query made without windows is kept.
GetColorInfo_Keeps ==
  /\ change = NoChange
  /\ colors' = [factory |-> "current", queried |-> colors.factory = "current", asked |-> TRUE]
  /\ UNCHANGED <<screens, display, nativeVars, activations, notices, change, abandoned>>

\* getColorInfo notes the query; ensureDisplayColorFactory then releases what is not
\* current, the note included, and creates a factory, which may fail. Without an open
\* window everything goes after the query.
GetColorInfo ==
  /\ change = NoChange
  /\ \E made \in BOOLEAN :
       colors' = CASE NoOpenWindow -> NoColors
                   [] OTHER -> EnsureDisplayColorFactory([colors EXCEPT !.queried = TRUE], made)
  /\ UNCHANGED <<screens, display, nativeVars, activations, notices, change, abandoned>>

\* The end of a pump: a stale factory is released and every window told to ask again.
ConsumeColorChange ==
  /\ change = NoChange /\ ~NoOpenWindow
  /\ colors.queried /\ colors.factory = "stale"
  /\ colors' = NoColors
  /\ UNCHANGED <<screens, display, nativeVars, activations, notices, change, abandoned>>

FullscreenNext ==
  \/ \E w \in ModeWindows : \E q \in Requests : SetWindowMode(w, q)
  \/ \E w \in ModeWindows : LeaveCall(w) \/ EnterCall(w) \/ Entered(w) \/ Style(w) \/ RestoreModeSnapshot(w) \/ Reconcile(w)
  \/ \E w \in ModeWindows : ActivateApp(w) \/ DisplayChange(w)
  \/ \E w \in ModeWindows : MoveWindow(w) \/ CloseMode(w) \/ DestroyMode(w) \/ NativeLossMode(w) \/ OpenMode(w)
  \/ SwitchApp
  \/ \E d \in Displays : Plug(d)
  \/ ColorsChange \/ GetColorInfo \/ ConsumeColorChange

FullscreenSpec == FullscreenInit /\ [][FullscreenNext]_fullscreenVars

-----------------------------------------------------------------------------
(* Properties *)

Idle == change = NoChange

\* A display that shows another mode than the desktop's is one a window still holds,
\* and so will give back, or one the transition under way is about to record: closing,
\* leaving, suspending, rolling back and recovering all end in the desktop's mode,
\* unless the system refused a restoration that had to be given up.
TheDesktopReturns ==
  abandoned \/ \A d \in Displays : display[d] # Desktop =>
    \/ \E w \in ModeWindows : screens[w].open /\ screens[w].saved # None /\ screens[w].device = d /\ ~screens[w].suspended
    \/ change.step = "entered" /\ change.target = d

\* Once a call has returned and the messages are handled, an exclusive window is
\* suspended exactly when the process is in the background, its display shows what that
\* means, and FullscreenState says the same: no order of a mode change and the
\* activation messages that arrive inside it leaves the wrong mode on the display.
ExclusiveFollowsForeground ==
  \A w \in ModeWindows :
    LET r == screens[w]
    IN ~abandoned /\ Idle /\ r.alive /\ r.saved # None /\ ~r.unsettled /\ ~r.torn /\ activations[w] = <<>> =>
         /\ r.suspended = ~foreground /\ r.fs.suspended = r.suspended
         /\ display[r.device] = IF r.suspended THEN r.saved ELSE r.active

\* The mode the window's events add up to, the one it reports, its styles, its bounds
\* and the saved display mode tell one story when no call is under way, through
\* rollbacks and recoveries, unless a native call of one of those failed.
LooksLikeItsMode ==
  \A w \in ModeWindows :
    LET r == screens[w]
    IN Idle /\ r.alive /\ ~r.torn =>
         /\ r.told = r.mode
         /\ r.style = StyleFor(r.mode)
         /\ r.mode = "windowed" => r.rect \in {"home", "moved", "centered"} /\ r.fs = NoFullscreen
         /\ r.mode # "windowed" => r.rect = r.fs.monitor
         /\ (r.mode = "exclusive") = (r.saved # None)

\* The DXGI factory does not outlive the windows of the thread.
FactoryFollowsWindows == NoOpenWindow => colors.factory = "none"

\* A caller that asked for the colours of a display hears of their next change: the
\* pump announces it only for a factory it knows to have been asked.
ColorChangeIsAnnounced == colors.asked /\ colors.factory = "stale" => colors.queried

\* The desktop and the window agree: a display leaves the mode it had only for an
\* exclusive window in front, which gives it back, and the window looks like the
\* mode it reports.
DesktopIsRestored ==
    /\ TheDesktopReturns
    /\ ExclusiveFollowsForeground
    /\ LooksLikeItsMode
    /\ FactoryFollowsWindows
====
