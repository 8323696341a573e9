------------------------- MODULE MCTerminalAndInput -------------------------
(***************************************************************************)
(* The terminal library: output scopes on one stream, Sessions on several  *)
(* threads, reads through the input backend, and the line editor; and the  *)
(* engine's input layers: gamepad and keyboard input and the action map.   *)
(* Each behaviour exercises one of them while the others rest.             *)
(*                                                                         *)
(* Four scopes, three of the program's own, which can be nested, moved and *)
(* destroyed in any order, and the one a Session owns; the depth limit of  *)
(* three is one short of them, so it is reached.                           *)
(***************************************************************************)
EXTENDS TerminalScopes, TerminalSession, TerminalInput, LineInput, GamepadInput, ActionMap

VARIABLE part

MCKey(key, down, unit, repeat) == [k |-> key, down |-> down, unit |-> unit, repeat |-> repeat]

\* a key and its repetition and release, Enter, the halves of a pair, a focus change and a new size
MCRecords ==
    {MCKey("letter", TRUE, "a", 1), MCKey("letter", TRUE, "a", 3), MCKey("letter", FALSE, "a", 1),
     MCKey("enter", TRUE, "named", 1), MCKey("packet", TRUE, "high", 1), MCKey("packet", TRUE, "low", 1),
     MCKey("blur", FALSE, "none", 0), MCKey("size", FALSE, "none", 0)}

\* a wide character, a malformed one, and a tab with a mark after it
MCPastes == {<<"a", "w">>, <<"a", "x">>, <<"t", "m">>}

MCSymmetry == Permutations(Threads) \cup Permutations(Sessions)

Bound(action, primary, modifiers, order, trigger, scale, inner) ==
    [action |-> action, primary |-> primary, modifiers |-> modifiers, mode |-> order,
     trigger |-> trigger, scale |-> scale, inner |-> inner]

\* a tap and a hold on one key, a stick, and a chord of that key in both uses
MCPool ==
    {Bound("jump", "key", {}, "AnyOrder", "Tap", 1, 0), Bound("jump", "key", {}, "AnyOrder", "Hold", 1, 0),
     Bound("steer", Stick, {}, "AnyOrder", "Value", 1, 1), Bound("steer", "key", {"shift"}, "PrimaryLast", "Value", -1, 0),
     Bound("jump", "key", {"shift"}, "PrimaryLast", "Down", 1, 0)}

MCOptions ==
    {[trigger |-> "Tap", mode |-> "AnyOrder", modifierMode |-> "KeyboardModifiersOnly",
      replace |-> FALSE, completion |-> "OnRelease"],
     [trigger |-> "Value", mode |-> "AnyOrder", modifierMode |-> "None",
      replace |-> TRUE, completion |-> "OnActivation"]}

\* a frame records at most two activations; one pad is held at a time; the second clear comes before the pad's first packet
ShortFrames ==
    /\ Len(input.activations) <= (IF scanned THEN 2 ELSE 1)
    /\ (\E p \in HidPads : hids[p].state # "idle") => \A s \in XPads : pads[s].state = "idle"
    /\ input.generation = MaxClears => \A s \in XPads : pads[s].packet = 0

(***************************************************************************)
(* Two bindings are of one action, and two jumps include the tap; a        *)
(* capture starts from at most one tap, which stays at rest until the      *)
(* capture has been applied.  The shift key is used when it has a use.       *)
(***************************************************************************)
FewBindings ==
    /\ \A j, k \in DOMAIN bindings : bindings[j].action = bindings[k].action
    /\ Len(bindings) = 2 /\ bindings[1].action = "jump" => \E k \in 1 .. 2 : bindings[k].trigger = "Tap"
    /\ "shift" \in frame.down \union frame.released =>
        session.active \/ capture # NoCapture \/ \E k \in DOMAIN bindings : bindings[k].modifiers # {}
    /\ (session.active \/ capture # NoCapture) =>
        /\ changes = 0
        /\ Len(bindings) = 2 => ~session.active /\ capture.result = "Captured"
        /\ \A k \in DOMAIN bindings : (bindings[k] \in Pool => bindings[k].trigger = "Tap") /\ ~states[k].active

MCInit ==
    /\ part \in {"scopes", "session", "reads", "line", "pads", "actions"}
    /\ Init /\ SessionInit /\ InputInit /\ LineInit /\ GamepadInit /\ ActionInit
    /\ part # "reads" => endpoint.kind = "pipe"
    /\ part # "line" => echo.on /\ (\A width \in Widths : echo.size <= width) /\ (\A rows \in Rows : screen.rows <= rows)
    \* a short buffer matters to an echo alone
    /\ ~echo.on => \A rows \in Rows : screen.rows >= rows

terminalVars == <<vars, sessionVars, inputBackendVars, lineVars>>
legacyVars == <<gamepadVars, actionVars>>

\* formatters of two threads do not make calls at the same time
NestedApart == \A t, u \in Threads : Len(stack[t]) = MaxNesting /\ Len(stack[u]) = MaxNesting => t = u
\* stdin that replaced another carries one byte or record, besides what was left of the other
OneOfReplaced == endpoint.number > 1 => endpoint.sent <= 1

Scoped == Next /\ UNCHANGED <<sessionVars, inputBackendVars, lineVars>>
Session == SessionNext /\ UNCHANGED <<vars, inputBackendVars, lineVars>> /\ NestedApart'
Reading == InputNext /\ UNCHANGED <<vars, sessionVars, lineVars>> /\ OneOfReplaced'
\* a key handled before a waiting resize, or a distance measured over a scroll, is the last step of its behaviour
Editing == ~torn /\ ~echo.shifted /\ LineNext /\ UNCHANGED <<vars, sessionVars, inputBackendVars>>
Pads == GamepadNext /\ UNCHANGED actionVars /\ ShortFrames'
ActionMaps == ActionNext /\ UNCHANGED gamepadVars /\ FewBindings'

\* what is typed is bounded, a torn screen is where a line ends, and the counters of pads and bindings are used up
Rests ==
    /\ part \in {"reads", "line", "pads", "actions"}
    /\ UNCHANGED <<terminalVars, legacyVars>>

MCNext ==
    /\ UNCHANGED part
    /\ \/ /\ \/ part = "scopes" /\ Scoped
             \/ part = "session" /\ Session
             \/ part = "reads" /\ Reading
             \/ part = "line" /\ Editing
          /\ UNCHANGED legacyVars
       \/ /\ \/ part = "pads" /\ Pads
             \/ part = "actions" /\ ActionMaps
          /\ UNCHANGED terminalVars
       \/ Rests
=============================================================================
