--------------------------- MODULE MCDesktopState ---------------------------
(***************************************************************************)
(* What the desktop library publishes about its windows: the renderer's    *)
(* view of a window, and accessibility (host geometry, snapshots and       *)
(* notifications, text ranges, snapshot trees); and what it borrows from   *)
(* the system and has to give back as it was: display modes, the user's    *)
(* shell registrations, and the native side of drop targets.  Each         *)
(* behaviour exercises one of them while the others rest.                  *)
(***************************************************************************)
EXTENDS RendererBridge, HostGeometry, Accessibility, TextRanges, SnapshotTree,
        Fullscreen, ShellRegistration, DragDrop

VARIABLE part

MCNode(name, value, exposure, focused) ==
    [name |-> name, value |-> value, exposure |-> exposure, focused |-> focused]

\* a child that appears, changes its value and its focus, is redacted, and is replaced
MCContents ==
    LET top == Root :> MCNode("r", "-", "full", FALSE)
    IN {top, top @@ 2 :> MCNode("a", "x", "full", FALSE), top @@ 2 :> MCNode("a", "y", "full", TRUE),
        top @@ 2 :> MCNode("a", "y", "redactValue", FALSE), top @@ 3 :> MCNode("b", "y", "full", FALSE)}

\* a text with a wide character, and the empty one
MCTexts ==
    <<("character" :> <<0, 1, 3>> @@ "document" :> <<0, 3>>), ("character" :> <<0>> @@ "document" :> <<0, 0>>)>>
MCCounts == {-1, 2}

Plain == [focusable |-> FALSE, focused |-> FALSE, bytes |-> 0]
MCNodeShapes ==
    {Plain, [focusable |-> TRUE, focused |-> TRUE, bytes |-> 1], [focusable |-> FALSE, focused |-> TRUE, bytes |-> 0]}

\* a client submits actions while only one snapshot has been published and every notification is delivered;
\* a third snapshot is published in the first runtime, which stays enabled
ThirdIsLast ==
    \/ /\ lastGeneration < 3
       /\ \A p \in Publishers : publisher[p].pc \in {"built", "prepared"} => publisher[p].candidate.generation < 3
    \/ runtime = 1 /\ live[1]

FewPublications ==
    /\ ThirdIsLast
    /\ \/ \A c \in Clients : client[c] = IdleThread /\ \A rt \in Runtimes : nextRequest[rt] = 1
       \/ /\ lastGeneration = 1 /\ \A rt \in Runtimes : ring[rt] = << >>
          /\ \A p \in Publishers : publisher[p].pc = "idle"

\* nodes with text or focus come in trees of two, where one of them has children; a child is named twice
\* by one node in trees of two as well; one node of three has several children; the identifiers of three
\* nodes rise, as from an application that walks its own tree, or fall, the root last
FewShapes ==
    /\ (\E i \in DOMAIN built : built[i].focused) =>
         Len(built) <= 2 /\ Cardinality({i \in DOMAIN built : built[i].children # << >>}) <= 1
    /\ (\E i \in DOMAIN built : ~IsInjective(built[i].children)) => Len(built) <= 2
    /\ Len(built) = 3 => /\ Cardinality({i \in DOMAIN built : Len(built[i].children) > 1}) <= 1
                         /\ built[1].id < built[2].id <=> built[2].id < built[3].id

\* both clients are in an operation only while the first text is the published one
FewEdits == textGeneration # 1 => \E c \in TextClients : \A d \in TextClients \ {c} : task[d] = NoTask

\* colour profiles change while every window is windowed and whole; a torn window is windowed; the process
\* is switched twice before a window hears of it only while every display is attached
ModesApart ==
    /\ ~abandoned
    /\ colors # NoColors =>
        \A w \in ModeWindows : screens[w].mode = "windowed" /\ ~screens[w].torn /\ screens[w].placement = None
    /\ \A w \in ModeWindows : screens[w].torn => screens[w].mode = "windowed"
    /\ \A w \in ModeWindows : Len(activations[w]) > 1 => connected = Displays

\* the extension and the scheme share no key, so a behaviour registers one of them
OneTarget == Cardinality({t \in ShellTargets : reg.target[t] # AbsentTarget}) <= 1

\* only the first call of a behaviour fails to restore a tree
LostOnce == calls = MaxCalls /\ call # NoCall => ~call.lost

publishedVars == <<vars, geometryVars, a11yVars, textVars, treeVars>>
restoredVars == <<fullscreenVars, registrationVars, dragVars>>

PublishingParts == {"renderer", "geometry", "snapshots", "text", "trees"}

MCInit ==
    /\ part \in PublishingParts \union {"fullscreen", "registration", "drops"}
    /\ Init /\ GeometryInit /\ A11yInit /\ TextInit /\ TreeInit
    /\ FullscreenInit /\ RegistrationInit /\ DragInit

Ranges == TextNext /\ FewEdits'
Snapshots == A11yNext /\ FewPublications'
Trees == TreeNext /\ FewShapes'
Modes == FullscreenNext /\ ModesApart'
Registrations == RegistrationNext /\ OneTarget' /\ LostOnce'

Publishing ==
    \/ part = "renderer" /\ Next /\ UNCHANGED <<geometryVars, a11yVars, textVars, treeVars>>
    \/ part = "geometry" /\ GeometryNext /\ UNCHANGED <<vars, a11yVars, textVars, treeVars>>
    \/ part = "snapshots" /\ Snapshots /\ UNCHANGED <<vars, geometryVars, textVars, treeVars>>
    \/ part = "text" /\ Ranges /\ UNCHANGED <<vars, geometryVars, a11yVars, treeVars>>
    \/ part = "trees" /\ Trees /\ UNCHANGED <<vars, geometryVars, a11yVars, textVars>>

Borrowing ==
    \/ part = "fullscreen" /\ Modes /\ UNCHANGED <<registrationVars, dragVars>>
    \/ part = "registration" /\ Registrations /\ UNCHANGED <<fullscreenVars, dragVars>>
    \/ part = "drops" /\ DragNext /\ UNCHANGED <<fullscreenVars, registrationVars>>

\* a part whose bounded counters are used up
Rests == part \notin {"renderer", "fullscreen"} /\ UNCHANGED <<publishedVars, restoredVars>>

MCNext ==
    /\ UNCHANGED part
    /\ \/ part \in PublishingParts /\ Publishing /\ UNCHANGED restoredVars
       \/ part \notin PublishingParts /\ Borrowing /\ UNCHANGED publishedVars
       \/ Rests

MCSpec == MCInit /\ [][MCNext]_<<publishedVars, restoredVars, part>>
=============================================================================
