--------------------------- MODULE WindowControls ---------------------------
(***************************************************************************)
(* What the setters of an open desktop Window keep in step: the portable   *)
(* settings and the native window style, the owner relation and the native *)
(* parent, the registered window class, the client size and its limits,    *)
(* the cursor confinement of the session, and the native cursors and icons *)
(* a window holds.  Every native call may fail; a setter that fails rolls  *)
(* back.  Fullscreen modes are in module Fullscreen, events in             *)
(* WindowEvents: here every window is windowed and events are left out.    *)
(***************************************************************************)
EXTENDS Integers, FiniteSets, FiniteSetsExt, Functions

CONSTANTS
    ControlWindows,   \* the Window objects of one owner thread
    Cursors,          \* custom Cursor resources the application may create
    ImageSets,        \* sets of [dpi, sound] images a Cursor may be asked for
    Dpis,             \* the DPIs a window may have
    Sizes,            \* client sizes, in one dimension
    NoWindow, NoCursor,
    MaxIcons          \* bound: icons created in a behaviour

ASSUME WindowControlsAssumption ==
    /\ NoWindow \notin ControlWindows /\ NoCursor \notin Cursors
    /\ Dpis \subseteq Nat \ {0} /\ Dpis # {}
    /\ \A images \in ImageSets : images \subseteq [dpi : Nat \ {0}, sound : BOOLEAN]
    /\ Sizes \subseteq Nat \ {0} /\ Sizes # {}

VARIABLES
    life,       \* [ControlWindows -> "closed" | "open" | "lost"]: the platform data and its handle
    setting,    \* the portable fields the native style is computed from
    look,       \* the native style words, alpha and parent of each window
    torn,       \* windows whose last style change and its rollback both failed
    adrift,     \* windows whose last owner change could not put the native parent back
    classUsers, classRegistered,
    extent,     \* per window: client size, limits, and whether a failed change left the size behind
    confine,    \* per window: cursor mode, focused, visible, minimized, cursorClipApplied, place
    clip,       \* what the system confines the cursor to: NoWindow or <<window, place>>
    astray,     \* windows whose last cursor application failed
    faultless,  \* no cursor call has failed so far
    holders,    \* [Cursors -> copies of the Cursor the application holds], with its variants
    bound,      \* per window: the custom cursor bound, its selected variant, dpi, stale
    natives,    \* native cursors and icons alive
    icons, madeIcons

styleVars  == <<setting, look, torn, adrift>>
classVars  == <<classUsers, classRegistered>>
clipVars   == <<confine, clip, astray, faultless>>
cursorVars == <<holders, bound>>
iconVars   == <<icons, madeIcons>>
controlVars == <<life, styleVars, classVars, extent, clipVars, cursorVars, natives, iconVars>>

OpenControl(w) == life[w] = "open"
Registered == {w \in ControlWindows : life[w] # "closed"}

-----------------------------------------------------------------------------
(* Styles *)

Defaults == [owner |-> NoWindow, decoration |-> "System", resizable |-> TRUE, maximizable |-> TRUE,
             focusable |-> TRUE, alwaysOnTop |-> FALSE, opacity |-> "full", pointer |-> "Normal"]

WindowStyle(s) ==
    {b \in {"CAPTION", "POPUP", "MAXIMIZEBOX", "THICKFRAME"} :
        CASE b = "CAPTION" -> s.decoration = "System"
          [] b = "POPUP" -> s.decoration # "System"
          [] b = "MAXIMIZEBOX" -> s.maximizable
          [] OTHER -> s.resizable}

Layered(s) == s.opacity # "full" \/ s.pointer = "ClickThrough"

ExtendedStyleFor(s) ==
    {b \in {"APPWINDOW", "NOACTIVATE", "TOPMOST", "LAYERED", "TRANSPARENT"} :
        CASE b = "APPWINDOW" -> s.owner = NoWindow
          [] b = "NOACTIVATE" -> ~s.focusable
          [] b = "TOPMOST" -> s.alwaysOnTop
          [] b = "LAYERED" -> Layered(s)
          [] OTHER -> s.pointer = "ClickThrough"}

(* applyStyle: two queries, two words, the frame change and the cached      *)
(* geometry; the fault names the first call that fails.  A window that      *)
(* stops being layered loses its alpha, one that becomes layered has none   *)
(* until SetLayeredWindowAttributes.                                        *)
StyleFaults == {"none", "query", "extended", "frame"}

ApplyStyle(n, s, fault) ==
    LET extended == IF fault \in {"none", "frame"} THEN ExtendedStyleFor(s) ELSE n.extended
    IN [n EXCEPT !.style = IF fault = "query" THEN @ ELSE WindowStyle(s),
                 !.extended = extended,
                 !.alpha = IF "LAYERED" \in extended /\ "LAYERED" \in n.extended THEN @ ELSE "unset"]

UpdateStyleValue_Forgets(w, s) ==
    /\ OpenControl(w) /\ s # setting[w]
    /\ \E fault \in StyleFaults :
        IF fault = "none"
        THEN /\ setting' = [setting EXCEPT ![w] = s]
             /\ look' = [look EXCEPT ![w] = ApplyStyle(@, s, "none")]
             /\ torn' = torn \ {w}
        ELSE \E again \in StyleFaults :
             /\ look' = [look EXCEPT ![w] = ApplyStyle(@, s, fault)]
             /\ torn' = IF again = "none" THEN torn \ {w} ELSE torn \union {w}
             /\ UNCHANGED setting

(* One setter: assign, apply, and on a failure restore the field and apply  *)
(* the old style again.                                                     *)
UpdateStyleValue(w, s) ==
    /\ OpenControl(w) /\ s # setting[w]
    /\ \E fault \in StyleFaults :
        IF fault = "none"
        THEN /\ setting' = [setting EXCEPT ![w] = s]
             /\ look' = [look EXCEPT ![w] = ApplyStyle(@, s, "none")]
             /\ torn' = torn \ {w}
        ELSE \E again \in StyleFaults :
             /\ look' = [look EXCEPT ![w] = ApplyStyle(ApplyStyle(@, s, fault), setting[w], again)]
             /\ torn' = IF again = "none" THEN torn \ {w} ELSE torn \union {w}
             /\ UNCHANGED setting

SetResizable(w) ==
    \E resizable \in BOOLEAN :
        /\ resizable \/ ~setting[w].maximizable
        /\ UpdateStyleValue(w, [setting[w] EXCEPT !.resizable = resizable])

SetControls(w) ==
    \E maximizable \in BOOLEAN :
        /\ maximizable => setting[w].resizable
        /\ UpdateStyleValue(w, [setting[w] EXCEPT !.maximizable = maximizable])

SetDecorationMode(w) ==
    \E mode \in {"System", "Custom"} : UpdateStyleValue(w, [setting[w] EXCEPT !.decoration = mode])

SetAlwaysOnTop(w) == \E top \in BOOLEAN : UpdateStyleValue(w, [setting[w] EXCEPT !.alwaysOnTop = top])

(* The alpha follows the style and may fail on its own.                     *)
Alpha(n, s, ok) == IF Layered(s) /\ ok THEN [n EXCEPT !.alpha = s.opacity] ELSE n

(* setOpacity restores the style of a failed change, and not its alpha: a   *)
(* window whose layered bit went away and came back has none.               *)
SetOpacity(w) ==
    \E opacity \in {"full", "half"}, fault, again \in StyleFaults, ok \in BOOLEAN :
        LET s == [setting[w] EXCEPT !.opacity = opacity]
            applied == ApplyStyle(look[w], s, fault)
        IN /\ OpenControl(w)
           /\ (fault # "none" \/ ~Layered(s)) => ok
           /\ (fault = "none" /\ ok) => again = "none"
           /\ IF fault = "none" /\ ok
              THEN /\ setting' = [setting EXCEPT ![w] = s]
                   /\ look' = [look EXCEPT ![w] = Alpha(applied, s, TRUE)]
                   /\ torn' = torn \ {w}
              ELSE /\ look' = [look EXCEPT ![w] = ApplyStyle(applied, setting[w], again)]
                   /\ torn' = IF again = "none" THEN torn \ {w} ELSE torn \union {w}
                   /\ UNCHANGED setting

(* setPointerInputLayout of the platform: style, then alpha.                *)
PointerApplied(n, s, fault, ok) ==
    IF fault = "none" THEN Alpha(ApplyStyle(n, s, fault), s, ok) ELSE ApplyStyle(n, s, fault)

SetPointerInputLayout(w) ==
    \E mode \in {"Normal", "ClickThrough"}, fault, again \in StyleFaults, ok, okAgain \in BOOLEAN :
        LET s == [setting[w] EXCEPT !.pointer = mode]
        IN /\ OpenControl(w) /\ s # setting[w]
           /\ ~Layered(s) => ok
           /\ ~Layered(setting[w]) => okAgain
           /\ (fault = "none" /\ ok) => (again = "none" /\ okAgain)
           /\ IF fault = "none" /\ ok
              THEN /\ setting' = [setting EXCEPT ![w] = s]
                   /\ look' = [look EXCEPT ![w] = PointerApplied(@, s, fault, ok)]
                   /\ torn' = torn \ {w}
              ELSE /\ look' = [look EXCEPT ![w] =
                          PointerApplied(PointerApplied(@, s, fault, ok), setting[w], again, okAgain)]
                   /\ torn' = IF again = "none" /\ okAgain THEN torn \ {w} ELSE torn \union {w}
                   /\ UNCHANGED setting

StyleStep ==
    /\ \E w \in ControlWindows :
        \/ SetResizable(w) \/ SetControls(w) \/ SetDecorationMode(w)
        \/ SetAlwaysOnTop(w) \/ SetOpacity(w) \/ SetPointerInputLayout(w)
    /\ UNCHANGED <<life, adrift, classVars, extent, clipVars, cursorVars, natives, iconVars>>

-----------------------------------------------------------------------------
(* Owners *)

(* The native parent goes first, then the style; a failing style restores   *)
(* the owner, the parent and the style.  An owner whose native window is    *)
(* gone still counts: its id is registered, its handle is null.             *)
Handle(o) == IF o # NoWindow /\ life[o] = "open" THEN o ELSE NoWindow

(* The windows met on the way up from w by the function to the next one.    *)
Above(w, next) ==
    LET up[n \in 0..Cardinality(ControlWindows)] ==
            IF n = 0 THEN w ELSE IF up[n - 1] = NoWindow THEN NoWindow ELSE next[up[n - 1]]
    IN {up[n] : n \in 1..Cardinality(ControlWindows)} \ {NoWindow}

Ancestors(w) == Above(w, [x \in ControlWindows |-> setting[x].owner])

MayOwn_Parent(w, o) == o = NoWindow \/ (o \in Registered /\ o # w /\ setting[o].owner # w)

MayOwn(w, o) == o = NoWindow \/ (o \in Registered /\ o # w /\ w \notin Ancestors(o))

SetOwner(w) ==
    \E o \in ControlWindows \union {NoWindow}, parented, parentedAgain \in BOOLEAN, fault, again \in StyleFaults :
        LET s == [setting[w] EXCEPT !.owner = o]
            owned == [look[w] EXCEPT !.parent = Handle(o)]
            back == IF parentedAgain THEN [ApplyStyle(owned, s, fault) EXCEPT !.parent = Handle(setting[w].owner)]
                    ELSE ApplyStyle(owned, s, fault)
        IN /\ OpenControl(w) /\ MayOwn(w, o)
           /\ ~parented => fault = "none"
           /\ fault = "none" => parentedAgain /\ again = "none"
           /\ IF ~parented THEN UNCHANGED styleVars
              ELSE IF fault = "none"
              THEN /\ setting' = [setting EXCEPT ![w] = s]
                   /\ look' = [look EXCEPT ![w] = ApplyStyle(owned, s, "none")]
                   /\ torn' = torn \ {w} /\ adrift' = adrift \ {w}
              ELSE /\ look' = [look EXCEPT ![w] = ApplyStyle(back, setting[w], again)]
                   /\ torn' = IF again = "none" THEN torn \ {w} ELSE torn \union {w}
                   /\ adrift' = IF parentedAgain THEN adrift \ {w} ELSE adrift \union {w}
                   /\ UNCHANGED setting
           /\ UNCHANGED <<life, classVars, extent, clipVars, cursorVars, natives, iconVars>>

-----------------------------------------------------------------------------
(* Cursor confinement *)

Confining(c) == c.mode = "Confined" /\ c.focused /\ c.visible /\ ~c.minimized

(* applyCursorState of w in the state c, given what the system confines to  *)
(* now.  It changes the clip, or fails and leaves it.                       *)
CursorState(w, c, now, ok) ==
    IF ~Confining(c)
    THEN IF c.applied /\ ~ok THEN [c |-> c, clip |-> now, ok |-> FALSE]
         ELSE [c |-> [c EXCEPT !.applied = FALSE],
               clip |-> IF c.applied THEN <<NoWindow, 0>> ELSE now, ok |-> TRUE]
    ELSE IF ok THEN [c |-> [c EXCEPT !.applied = TRUE], clip |-> <<w, c.place>>, ok |-> TRUE]
         ELSE [c |-> c, clip |-> now, ok |-> FALSE]

ApplyCursorState(w, c) ==
    \E ok \in BOOLEAN : \E r \in {CursorState(w, c, clip, ok)} :
        /\ confine' = [confine EXCEPT ![w] = r.c]
        /\ clip' = r.clip
        /\ astray' = IF r.ok THEN astray \ {w} ELSE astray \union {w}
        /\ faultless' = (faultless /\ r.ok)

(* setCursorMode puts the mode back when it fails, and applies that.        *)
SetCursorMode(w) ==
    \E mode \in {"Normal", "Confined"}, ok, okAgain \in BOOLEAN :
        \E r \in {CursorState(w, [confine[w] EXCEPT !.mode = mode], clip, ok)} :
        \E b \in {CursorState(w, [r.c EXCEPT !.mode = confine[w].mode], r.clip, okAgain)} :
            /\ OpenControl(w) /\ mode # confine[w].mode
            /\ confine' = [confine EXCEPT ![w] = IF r.ok THEN r.c ELSE b.c]
            /\ clip' = IF r.ok THEN r.clip ELSE b.clip
            /\ astray' = IF r.ok \/ b.ok THEN astray \ {w} ELSE astray \union {w}
            /\ faultless' = (faultless /\ r.ok)

ShowHide_Forgets(w) ==
    /\ OpenControl(w)
    /\ \E v \in BOOLEAN : confine' = [confine EXCEPT ![w].visible = v]
    /\ UNCHANGED <<clip, astray, faultless>>

(* show, hide, minimize and restore through WM_SHOWWINDOW and WM_SIZE.      *)
ShowHide(w) == OpenControl(w) /\ \E v \in BOOLEAN : ApplyCursorState(w, [confine[w] EXCEPT !.visible = v])

Minimize(w) ==
    /\ OpenControl(w)
    /\ \E m \in BOOLEAN : ApplyCursorState(w, [confine[w] EXCEPT !.minimized = m])

(* WM_MOVE: the client area has another place on the screen.                *)
Move(w) == OpenControl(w) /\ \E p \in {0, 1} : ApplyCursorState(w, [confine[w] EXCEPT !.place = p])

(* SetFocus: WM_KILLFOCUS to the window that had it, then WM_SETFOCUS.      *)
Focused == {w \in ControlWindows : confine[w].focused}

SetFocus(w) ==
    \E old \in Focused, killed, got \in BOOLEAN :
        \E k \in {CursorState(old, [confine[old] EXCEPT !.focused = FALSE], clip, killed)} :
        \E g \in {CursorState(w, [confine[w] EXCEPT !.focused = TRUE], k.clip, got)} :
            /\ OpenControl(w) /\ old # w
            /\ confine' = [confine EXCEPT ![old] = k.c, ![w] = g.c]
            /\ clip' = g.clip
            /\ astray' = (astray \ {old, w}) \union {x \in {old} : ~k.ok} \union {x \in {w} : ~g.ok}
            /\ faultless' = (faultless /\ k.ok /\ g.ok)

TakeFocus(w) == OpenControl(w) /\ Focused = {} /\ ApplyCursorState(w, [confine[w] EXCEPT !.focused = TRUE])

LoseFocus(w) == w \in Focused /\ ApplyCursorState(w, [confine[w] EXCEPT !.focused = FALSE])

(* A window made unfocusable gives the focus away when it has it.           *)
SetFocusable(w) ==
    /\ \E focusable \in BOOLEAN : UpdateStyleValue(w, [setting[w] EXCEPT !.focusable = focusable])
    /\ IF w \in Focused /\ setting'[w] # setting[w] /\ ~setting'[w].focusable
       THEN ApplyCursorState(w, [confine[w] EXCEPT !.focused = FALSE])
       ELSE UNCHANGED clipVars
    /\ UNCHANGED <<life, adrift, classVars, extent, cursorVars, natives, iconVars>>

ConfineStep ==
    /\ \E w \in ControlWindows :
        \/ SetCursorMode(w) \/ ShowHide(w) \/ Minimize(w) \/ Move(w)
        \/ SetFocus(w) \/ TakeFocus(w) \/ LoseFocus(w)
    /\ UNCHANGED <<life, styleVars, classVars, extent, cursorVars, natives, iconVars>>

-----------------------------------------------------------------------------
(* Native cursors and icons *)

Distance(a, b) == IF a > b THEN a - b ELSE b - a

IsBetterDpiCandidate(candidate, current, target) ==
    \/ Distance(candidate, target) < Distance(current, target)
    \/ Distance(candidate, target) = Distance(current, target) /\ candidate > current

VariantForDpi_Any(k, dpi) == Min(holders[k].variants)

VariantForDpi(k, dpi) ==
    CHOOSE v \in holders[k].variants :
        \A u \in holders[k].variants : ~IsBetterDpiCandidate(u, v, dpi)

(* A CursorState lives while the application or a window holds it; the last *)
(* holder destroys its native cursors.                                      *)
Living(h, b) ==
    {n \in natives : n[1] = "icon" \/ h[n[1]].held \/ \E w \in ControlWindows : b[w].cursor = n[1]}

ValidateVariants(images) ==
    /\ images # {}
    /\ \A i \in images : i.sound /\ \A j \in images : i # j => i.dpi # j.dpi

NativeCursor(k, image) == <<k, image.dpi>>

CreateCursor ==
    /\ \E k \in Cursors, images \in ImageSets :
        /\ ValidateVariants(images)
        /\ ~holders[k].held /\ \A w \in ControlWindows : bound[w].cursor # k
        /\ \/ /\ holders' = [holders EXCEPT ![k] = [held |-> TRUE, variants |-> {i.dpi : i \in images}]]
              /\ natives' = natives \union {NativeCursor(k, i) : i \in images}
           \/ UNCHANGED <<holders, natives>>   \* a variant fails: the earlier ones are destroyed
    /\ UNCHANGED bound

DropCursor ==
    \E k \in Cursors :
        /\ holders[k].held
        /\ holders' = [holders EXCEPT ![k].held = FALSE]
        /\ natives' = Living(holders', bound)
        /\ UNCHANGED bound

SetCustomCursor(w) ==
    \E k \in Cursors :
        /\ OpenControl(w) /\ holders[k].held
        /\ \/ /\ bound' = [bound EXCEPT ![w] = [@ EXCEPT !.cursor = k, !.stale = FALSE,
                                                        !.selected = VariantForDpi(k, bound[w].dpi)]]
              /\ natives' = Living(holders, bound')
           \/ UNCHANGED <<bound, natives>>
        /\ UNCHANGED holders

Unbound(b) == [b EXCEPT !.cursor = NoCursor, !.selected = 0, !.stale = FALSE]

SetCursorShape(w) ==
    /\ OpenControl(w)
    /\ bound' = [bound EXCEPT ![w] = Unbound(@)]
    /\ natives' = Living(holders, bound')
    /\ UNCHANGED holders

(* WM_DPICHANGED: three failures return before the cursor is refreshed.     *)
DpiChanged(w) ==
    \E dpi \in Dpis, reached \in BOOLEAN :
        /\ OpenControl(w) /\ dpi # bound[w].dpi
        /\ bound' = [bound EXCEPT ![w] =
               IF @.cursor = NoCursor THEN [@ EXCEPT !.dpi = dpi]
               ELSE IF reached THEN [@ EXCEPT !.dpi = dpi, !.stale = FALSE, !.selected = VariantForDpi(bound[w].cursor, dpi)]
               ELSE [@ EXCEPT !.dpi = dpi, !.stale = TRUE]]
        /\ UNCHANGED <<holders, natives>>

CursorStep ==
    /\ \/ CreateCursor \/ DropCursor
       \/ \E w \in ControlWindows : SetCustomCursor(w) \/ SetCursorShape(w) \/ DpiChanged(w)
    /\ UNCHANGED <<life, styleVars, classVars, extent, clipVars, iconVars>>

(* setIcon creates the large and the small icon before it destroys the old  *)
(* pair; clearIcon only destroys.                                           *)
Icon(i) == <<"icon", i>>

SetIcon(w) ==
    /\ OpenControl(w) /\ madeIcons + 2 <= MaxIcons
    /\ \E made \in {"none", "large", "both"} :
        IF made = "both"
        THEN /\ icons' = [icons EXCEPT ![w] = {Icon(madeIcons + 1), Icon(madeIcons + 2)}]
             /\ natives' = (natives \ icons[w]) \union icons'[w]
        ELSE UNCHANGED <<icons, natives>>
    /\ madeIcons' = madeIcons + 2

ClearIcon(w) ==
    /\ OpenControl(w)
    /\ icons' = [icons EXCEPT ![w] = {}]
    /\ natives' = natives \ icons[w]
    /\ UNCHANGED madeIcons

IconStep ==
    /\ \E w \in ControlWindows : SetIcon(w) \/ ClearIcon(w)
    /\ UNCHANGED <<life, styleVars, classVars, extent, clipVars, cursorVars>>

-----------------------------------------------------------------------------
(* Client size *)

Clamped(e) == IF e.size < e.low THEN e.low ELSE IF e.size > e.high THEN e.high ELSE e.size

(* A fault before the native call changes nothing; one after it (the cached *)
(* geometry) reports a failure of a size that is already there.             *)
SetClientSize(w) ==
    \E size \in Sizes :
        /\ OpenControl(w) /\ extent[w].low <= size /\ size <= extent[w].high
        /\ \/ extent' = [extent EXCEPT ![w].size = size, ![w].behind = FALSE]
           \/ UNCHANGED extent

SetSizeLimits(w) ==
    \E low, high \in Sizes, fault \in {"none", "before", "after"} :
        LET wanted == [extent[w] EXCEPT !.low = low, !.high = high]
        IN /\ OpenControl(w) /\ low <= high
           /\ fault # "none" => Clamped(wanted) # extent[w].size
           /\ extent' = [extent EXCEPT ![w] =
                  CASE fault = "none" -> [wanted EXCEPT !.size = Clamped(wanted), !.behind = FALSE]
                    [] fault = "before" -> @
                    [] OTHER -> [@ EXCEPT !.size = Clamped(wanted), !.behind = TRUE]]

(* The user drags the frame: WM_GETMINMAXINFO bounds the size.              *)
UserResize(w) ==
    \E size \in Sizes :
        /\ OpenControl(w) /\ setting[w].resizable
        /\ extent' = [extent EXCEPT ![w].size = Clamped([extent[w] EXCEPT !.size = size]), ![w].behind = FALSE]

SizeStep ==
    /\ \E w \in ControlWindows : SetClientSize(w) \/ SetSizeLimits(w) \/ UserResize(w)
    /\ UNCHANGED <<life, styleVars, classVars, clipVars, cursorVars, natives, iconVars>>

-----------------------------------------------------------------------------
(* Lifetime *)

(* A window destroyed natively takes the windows it owns with it.           *)
Owned(w) == {x \in ControlWindows : OpenControl(x) /\ w \in Above(x, [y \in ControlWindows |-> look[y].parent])}

Bare == [style |-> {}, extended |-> {}, alpha |-> "unset", parent |-> NoWindow]
Unfocused(c) == [c EXCEPT !.focused = FALSE, !.visible = FALSE]

(* WM_KILLFOCUS to the focused one, WM_DESTROY and WM_NCDESTROY to each.    *)
NativelyDestroyed(gone, c, held, ok) ==
    \E old \in {x \in gone : c[x].focused} \union {NoWindow} :
        /\ old = NoWindow => \A x \in gone : ~c[x].focused
        /\ \E k \in {IF old = NoWindow THEN [clip |-> held, ok |-> TRUE]
                      ELSE CursorState(old, [c[old] EXCEPT !.focused = FALSE], held, ok)} :
            /\ confine' = [x \in ControlWindows |->
                   IF x = old THEN Unfocused(k.c) ELSE IF x \in gone THEN Unfocused(c[x]) ELSE c[x]]
            /\ clip' = k.clip
            /\ astray' = IF k.ok THEN astray ELSE astray \union {old}
            /\ faultless' = (faultless /\ k.ok)
        /\ bound' = [x \in ControlWindows |-> IF x \in gone THEN Unbound(bound[x]) ELSE bound[x]]
        /\ UNCHANGED holders

ControlLoss ==
    \E w \in ControlWindows, ok \in BOOLEAN : \E gone \in {{w} \union Owned(w)} :
        /\ OpenControl(w)
        /\ ok \/ \E x \in gone : confine[x].focused
        /\ life' = [x \in ControlWindows |-> IF x \in gone THEN "lost" ELSE life[x]]
        /\ NativelyDestroyed(gone, confine, clip, ok)
        /\ look' = [x \in ControlWindows |-> IF x \in gone THEN Bare ELSE look[x]]
        /\ natives' = Living(holders, bound')
        /\ UNCHANGED <<setting, torn, adrift, classVars, extent, iconVars>>

(* releaseWindowClass: the last user unregisters, and stays when that fails.*)
ReleaseWindowClass ==
    \/ /\ classUsers' = classUsers - 1
       /\ classRegistered' = (classUsers > 1)
    \/ classUsers = 1 /\ UNCHANGED classVars

AcquireWindowClass == classUsers' = classUsers + 1 /\ classRegistered' = TRUE

(* unregisterWindowId: windows that still name the id lose their owner, and *)
(* the live ones their owned style and their parent, unless clearing it     *)
(* fails, which is only noted.                                              *)
UnregisterWindowId(w, gone, fault, parented) ==
    LET orphans == {x \in Registered \ {w} : setting[x].owner = w}
        Parentless(x) == IF x \in parented THEN look[x] ELSE [look[x] EXCEPT !.parent = NoWindow]
    IN /\ parented \subseteq {x \in orphans \ gone : OpenControl(x)}
       /\ setting' = [x \in ControlWindows |->
              IF x = w THEN Defaults
              ELSE IF x \in orphans THEN [setting[x] EXCEPT !.owner = NoWindow] ELSE setting[x]]
       /\ look' = [x \in ControlWindows |->
              IF x \in gone THEN Bare
              ELSE IF x \in orphans /\ OpenControl(x)
                   THEN ApplyStyle(Parentless(x), setting'[x], fault) ELSE look[x]]
       /\ torn' = (torn \ ({w} \union orphans)) \union {x \in orphans \ gone : fault # "none"}
       /\ adrift' = (adrift \ ({w} \union orphans)) \union parented

(* Window::close: it stops at a clip it cannot release, and at a native     *)
(* window it cannot destroy, when the clip is released already.             *)
CloseWindow ==
    \E w \in ControlWindows, ok \in BOOLEAN, fault \in StyleFaults, parented \in SUBSET ControlWindows :
      \E gone \in {{w} \union Owned(w)} :
        /\ life[w] # "closed"
        /\ fault # "none" => \E x \in Registered \ {w} : setting[x].owner = w /\ x \notin gone
        /\ ok \/ \E x \in gone : confine[x].focused
        /\ life' = [x \in ControlWindows |-> IF x = w THEN "closed" ELSE IF x \in gone THEN "lost" ELSE life[x]]
        /\ NativelyDestroyed(gone, [confine EXCEPT ![w].applied = FALSE],
                IF confine[w].applied THEN <<NoWindow, 0>> ELSE clip, ok)
        /\ UnregisterWindowId(w, gone, fault, parented)
        /\ icons' = [icons EXCEPT ![w] = {}]
        /\ natives' = Living(holders, bound') \ icons[w]
        /\ ReleaseWindowClass
        /\ UNCHANGED <<extent, madeIcons>>

ControlCloseFails ==
    \E w \in ControlWindows :
        /\ OpenControl(w)
        /\ \/ confine[w].applied /\ UNCHANGED <<confine, clip>>
           \/ /\ confine' = [confine EXCEPT ![w].applied = FALSE]
              /\ clip' = IF confine[w].applied THEN <<NoWindow, 0>> ELSE clip
        /\ faultless' = FALSE
        /\ UNCHANGED <<life, styleVars, classVars, extent, astray, cursorVars, natives, iconVars>>

(* Window::open, and an open that fails after the native window exists: it  *)
(* is destroyed again, and the class given back.                            *)
OpenWindow ==
    \E w \in ControlWindows, o \in ControlWindows \union {NoWindow}, opacity \in {"full", "half"}, visible \in BOOLEAN :
        LET s == [Defaults EXCEPT !.owner = o, !.opacity = opacity]
        IN /\ life[w] = "closed"
           /\ o # NoWindow => o \in Registered
           /\ life' = [life EXCEPT ![w] = "open"]
           /\ setting' = [setting EXCEPT ![w] = s]
           /\ look' = [look EXCEPT ![w] =
                  Alpha(ApplyStyle([Bare EXCEPT !.parent = Handle(o)], s, "none"), s, TRUE)]
           /\ torn' = torn \ {w} /\ adrift' = adrift \ {w}
           /\ confine' = [confine EXCEPT ![w] = [mode |-> "Normal", focused |-> FALSE, visible |-> visible,
                                                minimized |-> FALSE, applied |-> FALSE, place |-> 0]]
           /\ astray' = astray \ {w}
           /\ extent' = [extent EXCEPT ![w] = [size |-> Min(Sizes), low |-> Min(Sizes), high |-> Max(Sizes), behind |-> FALSE]]
           /\ AcquireWindowClass
           /\ UNCHANGED <<clip, faultless, cursorVars, natives, iconVars>>

OpenControlFails ==
    /\ \E w \in ControlWindows : life[w] = "closed"
    /\ classUsers = 0
    /\ classUsers' = 1 /\ classRegistered' = TRUE    \* and the class could not be unregistered again
    /\ UNCHANGED <<life, styleVars, extent, clipVars, cursorVars, natives, iconVars>>

LifeStep == ControlLoss \/ CloseWindow \/ ControlCloseFails \/ OpenWindow \/ OpenControlFails

-----------------------------------------------------------------------------
ControlInit ==
    /\ life = [w \in ControlWindows |-> "closed"]
    /\ setting = [w \in ControlWindows |-> Defaults]
    /\ look = [w \in ControlWindows |-> Bare]
    /\ torn = {} /\ adrift = {}
    /\ classUsers = 0 /\ classRegistered = FALSE
    /\ extent = [w \in ControlWindows |-> [size |-> Min(Sizes), low |-> Min(Sizes), high |-> Max(Sizes), behind |-> FALSE]]
    /\ confine = [w \in ControlWindows |-> [mode |-> "Normal", focused |-> FALSE, visible |-> FALSE,
                                            minimized |-> FALSE, applied |-> FALSE, place |-> 0]]
    /\ clip = <<NoWindow, 0>>
    /\ astray = {} /\ faultless = TRUE
    /\ holders = [k \in Cursors |-> [held |-> FALSE, variants |-> {}]]
    /\ bound = [w \in ControlWindows |-> [cursor |-> NoCursor, selected |-> 0, dpi |-> Min(Dpis), stale |-> FALSE]]
    /\ natives = {}
    /\ icons = [w \in ControlWindows |-> {}] /\ madeIcons = 0

OwnerStep == \E w \in ControlWindows : SetOwner(w)

FocusStep == \E w \in ControlWindows : SetFocusable(w)

ControlNext ==
    LifeStep \/ OwnerStep \/ FocusStep \/ StyleStep \/ ConfineStep \/ CursorStep \/ IconStep \/ SizeStep

ControlSpec == ControlInit /\ [][ControlNext]_controlVars

-----------------------------------------------------------------------------
(* Whatever call failed, the native style of an open window is the one its  *)
(* settings ask for, and its size is within its limits, unless the rollback *)
(* itself could not do its work (updateStyleValue, setSizeLimits).          *)
StyleFollowsSettings ==
    \A w \in ControlWindows :
        OpenControl(w) =>
            /\ w \notin torn => /\ look[w].style = WindowStyle(setting[w])
                               /\ look[w].extended = ExtendedStyleFor(setting[w])
            /\ ~extent[w].behind => extent[w].low <= extent[w].size /\ extent[w].size <= extent[w].high

(* Owners never form a cycle and are registered; a live window hangs below  *)
(* its live owner natively, and never below a destroyed one; while a window *)
(* exists its class is registered (setOwner, unregisterWindowId,            *)
(* releaseWindowClass).                                                     *)
OwnersAreSound ==
    /\ \A w \in Registered :
        /\ setting[w].owner # NoWindow => setting[w].owner \in Registered
        /\ w \notin Ancestors(w)
        /\ OpenControl(w) /\ w \notin adrift => look[w].parent = Handle(setting[w].owner)
    /\ classUsers >= Cardinality(Registered)
    /\ Registered # {} => classRegistered

(* The system confines the cursor only to the present client area of an     *)
(* open, focused, visible window that asked for it, unless a native call    *)
(* for that window failed last; and before any failed, such a window does   *)
(* have the cursor (applyCursorState after every message that matters).     *)
ClipIsJustified ==
    /\ clip[1] # NoWindow =>
        \/ clip[1] \in astray
        \/ /\ OpenControl(clip[1]) /\ Confining(confine[clip[1]])
           /\ clip[2] = confine[clip[1]].place
    /\ \A w \in ControlWindows :
        faultless /\ OpenControl(w) /\ Confining(confine[w]) => clip = <<w, confine[w].place>>

(* The native cursor of a window is alive and the best variant for its DPI; *)
(* a cursor or icon no one holds is destroyed (CursorBinding, variantForDpi,*)
(* refreshCustomCursorForDpi, setIcon, close).                              *)
CursorsAreHeld ==
    /\ \A w \in ControlWindows : bound[w].cursor # NoCursor =>
        /\ OpenControl(w)
        /\ <<bound[w].cursor, bound[w].selected>> \in natives
        /\ ~bound[w].stale => \A v \in holders[bound[w].cursor].variants :
               Distance(bound[w].selected, bound[w].dpi) <= Distance(v, bound[w].dpi)
    /\ \A n \in natives :
        IF n[1] = "icon" THEN \E w \in Registered : n \in icons[w]
        ELSE holders[n[1]].held \/ \E w \in ControlWindows : bound[w].cursor = n[1]

\* The native window follows the settings of every control: its style bits, its
\* owner, the one cursor clip of the desktop, and the cursors and icons it holds.
ControlsAgree == StyleFollowsSettings /\ OwnersAreSound /\ ClipIsJustified /\ CursorsAreHeld
=============================================================================
