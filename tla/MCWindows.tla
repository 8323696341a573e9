----------------------------- MODULE MCWindows -----------------------------
(***************************************************************************)
(* A desktop window's events and controls.  Each behaviour exercises one   *)
(* of them while the other rests; the controls are exercised one group of  *)
(* setters at a time.                                                      *)
(***************************************************************************)
EXTENDS WindowEvents, WindowControls

CONSTANTS First, Third   \* two of the three windows

VARIABLE part

\* one geometry kind is enough: the kinds differ only in the order they are emitted, and each has its own
\* entry in the trailing run
MCGeometry == <<"framebuffer">>

(***************************************************************************)
(* The images of a cursor: for both of the DPIs, for one between them, a   *)
(* damaged one, and none.                                                  *)
(***************************************************************************)
MCImages ==
    {{[dpi |-> 96, sound |-> TRUE], [dpi |-> 144, sound |-> TRUE]},
     {[dpi |-> 120, sound |-> TRUE]}, {[dpi |-> 120, sound |-> FALSE]}, {}}

ControlParts == {"style", "size", "owner", "confine", "cursor"}

(***************************************************************************)
(* The third window is there for the owner relation; what one group of     *)
(* setters changes keeps its default value in the other groups.            *)
(***************************************************************************)
FewControls ==
    /\ part # "owner" =>
        /\ life[Third] = "closed" /\ torn = {}
        /\ \A w \in ControlWindows : setting[w].owner = NoWindow
    /\ part \in {"style", "size"} => Cardinality(Registered) <= 1
    /\ part # "style" => \A w \in ControlWindows : setting[w].opacity = "full" /\ (setting[w].focusable \/ w = First)
    /\ part # "confine" => \A w \in ControlWindows : ~confine[w].visible
    /\ \A w \in ControlWindows : confine[w].minimized => w = First
    /\ madeIcons > 0 => Cardinality(Registered) <= 1
    /\ Cardinality(torn \union adrift) <= 1 /\ Cardinality(astray) <= 1
    /\ part = "owner" => \A w \in torn \ adrift : setting[w].owner = NoWindow
    /\ part = "confine" => \A w \in astray : ~confine[w].minimized
    /\ classUsers <= Cardinality(Registered)

MCInit ==
    /\ part \in ControlParts \union {"events"}
    /\ Init /\ ControlInit

Events == Next /\ UNCHANGED controlVars

Controls ==
    /\ \/ LifeStep
       \/ part = "style" /\ (StyleStep \/ FocusStep)
       \/ part = "size" /\ SizeStep
       \/ part = "owner" /\ OwnerStep
       \/ part = "confine" /\ (ConfineStep \/ FocusStep)
       \/ part = "cursor" /\ (CursorStep \/ IconStep)
    /\ UNCHANGED vars
    /\ FewControls'

MCNext ==
    /\ UNCHANGED part
    /\ \/ part = "events" /\ Events
       \/ part \in ControlParts /\ Controls

MCSpec == MCInit /\ [][MCNext]_<<vars, controlVars, part>>
=============================================================================
