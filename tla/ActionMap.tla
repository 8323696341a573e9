------------------------------ MODULE ActionMap ------------------------------
(* ActionMap (engine/action): bindings of controls to actions, evaluated     *)
(* once per frame against the input state, and captured from the user while  *)
(* the map is in use.                                                        *)
(*                                                                           *)
(* A frame brings a sequence of button changes and the position of one       *)
(* axis.  Values are counted in halves of 1.0, which keeps the deadzone      *)
(* arithmetic of the default settings exact; the curve exponent and the      *)
(* sensitivity are 1.                                                        *)
EXTENDS Integers, FiniteSets, SequencesExt

CONSTANTS
  Pool,          \* the bindings the program adds
  CaptureOptions,\* ActionRebindOptions of the captures
  Positions,     \* the positions of the axis, in halves
  CancelControls,\* controls that end a capture
  HoldSeconds,   \* holdSeconds of the gestures
  DoubleTapSeconds,
  MaxToggles,    \* bound: button changes in a frame
  MaxBindings,   \* bound: bindings in the map
  MaxChanges     \* bound: valueChangeSequence

ASSUME ActionMapAssumption ==
  /\ {HoldSeconds, DoubleTapSeconds, MaxToggles, MaxBindings, MaxChanges} \subseteq Nat \ {0}
  /\ 0 \in Positions /\ Positions \subseteq -2 .. 2

Buttons == {"key", "shift"}
Stick == "stick"
Full == 2
ActionKind == [jump |-> "Button", steer |-> "Axis1D"]
Actions == DOMAIN ActionKind
DeviceOf(c) == IF c = Stick THEN "Gamepad" ELSE "Keyboard"
IsKeyboardModifier(c) == c = "shift"
NoCapture == [result |-> "None"]

VARIABLES
  frame,         \* the input state of the frame: down, pressed, released, axis, activations
  bindings,      \* bindings
  states,        \* bindingStates
  outputs,       \* what each binding did in the last evaluation (history)
  actions,       \* actionStates
  candidates,    \* the value buckets of the last evaluation (history)
  changes,       \* valueChangeSequence
  session,       \* ActionRebindSession
  capture        \* ActionRebindCapture

actionVars == <<frame, bindings, states, outputs, actions, candidates, changes, session, capture>>

---------------------------------------------------------------------------
(* Frames of input *)

EmptyFrame == [down |-> {}, pressed |-> {}, released |-> {}, axis |-> 0, activations |-> <<>>]

ToggleButton(f, c) ==
  IF c \in f.down
  THEN [f EXCEPT !.down = @ \ {c}, !.released = @ \cup {c}, !.activations = Append(@, [control |-> c, kind |-> "released"])]
  ELSE [f EXCEPT !.down = @ \cup {c}, !.pressed = @ \cup {c}, !.activations = Append(@, [control |-> c, kind |-> "pressed"])]

NextFrame(f, toggles, axis) ==
  LET start == [f EXCEPT !.pressed = {}, !.released = {}, !.activations = <<>>]
      moved == IF axis = f.axis THEN start
               ELSE [start EXCEPT !.axis = axis, !.activations = Append(@, [control |-> Stick, kind |-> "axis"])]
  IN FoldLeft(ToggleButton, moved, toggles)

---------------------------------------------------------------------------
(* Bindings *)

SameCombo(l, r) == l.primary = r.primary /\ l.mode = r.mode /\ l.modifiers = r.modifiers
SameBinding(l, r) == l.action = r.action /\ SameCombo(l, r) /\ l.trigger = r.trigger /\ l.scale = r.scale
Conflicting(l, r) == l.action # r.action /\ SameCombo(l, r) /\ l.trigger = r.trigger

CompatibleControls(b) == (ActionKind[b.action] = "Button") = (b.trigger # "Value")

ValidateBinding(b, ignoreSameAction) ==
  LET others == {k \in DOMAIN bindings : ~(ignoreSameAction /\ bindings[k].action = b.action)}
      controls == (b.trigger # "Value" => b.primary \in Buttons) /\ b.modifiers \subseteq Buttons
  IN IF ~CompatibleControls(b) THEN "InvalidBinding"
     ELSE IF ~controls THEN "InvalidControl"
     ELSE IF b.primary \in b.modifiers THEN "InvalidBinding"
     ELSE IF \E k \in others : SameBinding(bindings[k], b) THEN "DuplicateBinding"
     ELSE IF \E k \in others : Conflicting(bindings[k], b) THEN "ConflictingBinding"
     ELSE "Success"

Accepted(result) == result \in {"Success", "ConflictingBinding"}

---------------------------------------------------------------------------
(* Evaluation of one binding *)

FreshState == [active |-> FALSE, held |-> 0, fired |-> FALSE, waiting |-> FALSE, since |-> 0, changed |-> 0]
Quiet == [pressed |-> FALSE, released |-> FALSE, down |-> FALSE, stopped |-> FALSE, value |-> 0]

ModifiersDown(f, b) == b.modifiers \subseteq f.down
ComboDown(f, b) == b.primary \in f.down /\ ModifiersDown(f, b)
Sum2(x, y) == IF x + y > HoldSeconds + DoubleTapSeconds THEN HoldSeconds + DoubleTapSeconds ELSE x + y

\* Mutant: a hold that is still active counts as one that has fired.
MatchingHoldFired_Active(bs, st, k) ==
  \E j \in DOMAIN bs \ {k} : bs[j].trigger = "Hold" /\ SameCombo(bs[j], bs[k]) /\ (st[j].fired \/ st[j].active)

MatchingHoldFired(bs, st, k) ==
  \E j \in DOMAIN bs \ {k} : bs[j].trigger = "Hold" /\ SameCombo(bs[j], bs[k]) /\ st[j].fired

EvaluateHold(st, starts, stops, next, dt) ==
  LET begun == IF starts THEN [st EXCEPT !.held = 0, !.fired = FALSE] ELSE st
      aged == [begun EXCEPT !.held = Sum2(@, dt)]
      fires == ~aged.fired /\ aged.held >= HoldSeconds
  IN IF next
     THEN [state |-> [aged EXCEPT !.fired = @ \/ fires],
           out |-> [Quiet EXCEPT !.pressed = fires, !.down = aged.fired \/ fires]]
     ELSE [state |-> [begun EXCEPT !.held = 0],
           out |-> [Quiet EXCEPT !.released = stops /\ begun.fired]]

EvaluateDoubleTap(st, f, b, stops, dt) ==
  LET late == ~ModifiersDown(f, b) \/ Sum2(st.since, dt) > DoubleTapSeconds
      timed == CASE ~st.waiting -> st
                 [] st.waiting /\ late -> [st EXCEPT !.waiting = FALSE, !.since = 0]
                 [] OTHER -> [st EXCEPT !.since = Sum2(@, dt)]
      second == stops /\ timed.waiting
  IN [state |-> IF stops THEN [timed EXCEPT !.waiting = ~@, !.since = 0] ELSE timed,
      out |-> [Quiet EXCEPT !.pressed = second, !.down = second]]

\* An axis contributes its position past the threshold 0, a button contributes 1.0 while its combo is active.
EvaluateValue(st, f, b, next) ==
  LET contributes == IF b.primary \in Buttons THEN next ELSE ModifiersDown(f, b) /\ f.axis # 0
      value == IF b.primary \in Buttons THEN Full ELSE f.axis
  IN [state |-> [st EXCEPT !.active = contributes],
      out |-> [Quiet EXCEPT !.value = IF contributes THEN value * b.scale ELSE 0]]

\* acc is [states, outputs]: a binding sees the state of the bindings before it as this frame left them.
EvaluateBinding(f, bs, dt, acc, k) ==
  LET b == bs[k]
      st == acc.states[k]
      comboDown == ComboDown(f, b)
      starts == IF b.mode = "AnyOrder" THEN comboDown /\ ~st.active
                ELSE b.primary \in f.pressed /\ ModifiersDown(f, b)
      next == comboDown /\ (b.mode = "AnyOrder" \/ st.active \/ starts)
      stops == st.active /\ ~next
      taps == stops /\ ~MatchingHoldFired(bs, acc.states, k)
      result ==
        CASE b.trigger = "Pressed" -> [state |-> st, out |-> [Quiet EXCEPT !.pressed = starts, !.down = starts]]
          [] b.trigger = "Released" -> [state |-> st, out |-> [Quiet EXCEPT !.released = stops, !.down = stops]]
          [] b.trigger = "Down" -> [state |-> st, out |-> [Quiet EXCEPT !.down = next, !.pressed = starts, !.released = stops]]
          [] b.trigger = "Tap" -> [state |-> [st EXCEPT !.held = IF next THEN Sum2(@, dt) ELSE 0],
                                   out |-> [Quiet EXCEPT !.pressed = taps, !.down = taps]]
          [] b.trigger = "Hold" -> EvaluateHold(st, starts, stops, next, dt)
          [] b.trigger = "DoubleTap" -> EvaluateDoubleTap(st, f, b, stops, dt)
          [] b.trigger = "Value" -> EvaluateValue(st, f, b, next)
      after == IF b.trigger = "Value" THEN result.state ELSE [result.state EXCEPT !.active = next]
  IN [states |-> [acc.states EXCEPT ![k] = after],
      outputs |-> [acc.outputs EXCEPT ![k] = [result.out EXCEPT !.stopped = stops]]]

---------------------------------------------------------------------------
(* Values *)

Magnitude(v) == IF v < 0 THEN -v ELSE v
Clamp(v) == IF v > Full THEN Full ELSE IF v < -Full THEN -Full ELSE v

\* innerDeadzone in halves; outerDeadzone is 1.0.
ApplyDeadzone1D(v, inner) ==
  LET m == Magnitude(v)
      s == IF v < 0 THEN -1 ELSE 1
  IN CASE m <= inner -> 0
       [] m > inner /\ m >= Full -> s * Full
       [] OTHER -> s * (((m - inner) * Full) \div (Full - inner))

\* One bucket per action, device and settings: its bindings add up before the deadzone is applied.
\* The buckets stand in the order of their first contribution.
Buckets(bs, sts, outs) ==
  LET contributing == SelectSeq([k \in DOMAIN bs |-> k], LAMBDA k : outs[k].value # 0)
      key(k) == <<bs[k].action, DeviceOf(bs[k].primary), bs[k].inner>>
      firsts == SelectSeq(contributing, LAMBDA k : \A j \in 1 .. k - 1 : outs[j].value # 0 => key(j) # key(k))
      members(k) == {j \in DOMAIN bs : outs[j].value # 0 /\ key(j) = key(k)}
      total(k) == FoldLeft(LAMBDA sum, j : IF j \in members(k) THEN sum + outs[j].value ELSE sum, 0, contributing)
      latest(k) == CHOOSE c \in {sts[j].changed : j \in members(k)} : \A j \in members(k) : sts[j].changed <= c
  IN [n \in DOMAIN firsts |->
        [action |-> bs[firsts[n]].action, sequence |-> latest(firsts[n]),
         value |-> Clamp(ApplyDeadzone1D(total(firsts[n]), bs[firsts[n]].inner))]]

\* Mutant: the later change wins whatever its magnitude.
ChooseCandidate_Latest(best, c) == IF c.sequence > best.sequence THEN c ELSE best

\* shouldChooseValueCandidate: the larger magnitude, and of equal ones the later change.
ChooseCandidate(best, c) ==
  IF \/ Magnitude(c.value) > Magnitude(best.value)
     \/ Magnitude(c.value) = Magnitude(best.value) /\ c.sequence > best.sequence
  THEN c ELSE best

ActionValue(a, found) ==
  FoldLeft(LAMBDA best, c : IF c.action = a THEN ChooseCandidate(best, c) ELSE best,
           [action |-> a, sequence |-> 0, value |-> 0], found).value

---------------------------------------------------------------------------
ActionInit ==
  /\ frame = EmptyFrame
  /\ bindings = <<>> /\ states = <<>> /\ outputs = <<>>
  /\ actions = [a \in Actions |-> [pressed |-> FALSE, released |-> FALSE, down |-> FALSE, value |-> 0, active |-> FALSE]]
  /\ candidates = <<>>
  /\ changes = 0
  /\ session = [active |-> FALSE]
  /\ capture = NoCapture

\* The change numbers of the value bindings: each activation in turn takes the next one, if a binding listens to it.
NumberChanges(f) ==
  LET listens(a) == \E k \in DOMAIN bindings : bindings[k].trigger = "Value" /\ bindings[k].primary = a.control
  IN FoldLeft(LAMBDA acc, a : IF ~listens(a) THEN acc
                              ELSE [last |-> acc.last + 1,
                                    states |-> [k \in DOMAIN states |->
                                      IF bindings[k].trigger = "Value" /\ bindings[k].primary = a.control
                                      THEN [acc.states[k] EXCEPT !.changed = acc.last + 1] ELSE acc.states[k]]],
              [last |-> changes, states |-> states], f.activations)

EvaluateBindings(f, dt, numbered) ==
  FoldLeft(LAMBDA acc, k : EvaluateBinding(f, bindings, dt, acc, k),
           [states |-> numbered, outputs |-> [k \in DOMAIN bindings |-> Quiet]],
           [k \in DOMAIN bindings |-> k])

\* The action's edges come from its bindings, and for a value from the change of its being active.
EvaluateAction(a, outs, found) ==
  LET mine == {outs[k] : k \in {j \in DOMAIN bindings : bindings[j].action = a}}
      on == \E n \in DOMAIN found : found[n].action = a /\ found[n].value # 0
      valued == ActionKind[a] # "Button"
  IN [pressed |-> (\E o \in mine : o.pressed) \/ (valued /\ on /\ ~actions[a].active),
      released |-> (\E o \in mine : o.released) \/ (valued /\ ~on /\ actions[a].active),
      down |-> (\E o \in mine : o.down) \/ (valued /\ on),
      value |-> ActionValue(a, found),
      active |-> valued /\ on]

\* advanceFrame and evaluate, for the input of one frame.
Evaluate ==
  \E toggles \in UNION {[1 .. n -> Buttons] : n \in 0 .. MaxToggles}, axis \in Positions, dt \in 0 .. 1 :
    /\ axis # frame.axis => \E k \in DOMAIN bindings : bindings[k].primary = Stick
    /\ \E f \in {NextFrame(frame, toggles, axis)} :
       \E numbered \in {NumberChanges(f)} :
       \E end \in {EvaluateBindings(f, dt, numbered.states)} :
       \E found \in {Buckets(bindings, end.states, end.outputs)} :
         /\ numbered.last <= MaxChanges
         /\ frame' = f
         /\ states' = end.states /\ outputs' = end.outputs
         /\ candidates' = found
         /\ changes' = numbered.last
         /\ actions' = [a \in Actions |-> EvaluateAction(a, end.outputs, found)]
    /\ UNCHANGED <<bindings, session, capture>>

AddBindingUnchecked(bs, sts, outs, b) ==
  /\ bindings' = Append(bs, b)
  /\ states' = Append(sts, FreshState)
  /\ outputs' = Append(outs, Quiet)

AddBinding ==
  /\ Len(bindings) < MaxBindings
  /\ \E b \in Pool : /\ Accepted(ValidateBinding(b, FALSE))
                     /\ AddBindingUnchecked(bindings, states, outputs, b)
  /\ UNCHANGED <<frame, actions, candidates, changes, session, capture>>

\* clearBindings: the runtime states of the erased bindings go with them, without a release.
ClearBindings(a) ==
  LET kept == SelectSeq([k \in DOMAIN bindings |-> k], LAMBDA k : bindings[k].action # a)
  IN /\ Len(kept) < Len(bindings)
     /\ bindings' = [n \in DOMAIN kept |-> bindings[kept[n]]]
     /\ states' = [n \in DOMAIN kept |-> states[kept[n]]]
     /\ outputs' = [n \in DOMAIN kept |-> outputs[kept[n]]]
     /\ UNCHANGED <<frame, actions, candidates, changes, session, capture>>

---------------------------------------------------------------------------
(* Capturing a binding *)

CapturedModifiers(primary, held, o) ==
  {c \in held : /\ o.modifierMode # "None" /\ c # primary /\ c \in Buttons /\ c \notin CancelControls
                /\ o.modifierMode = "KeyboardModifiersOnly" => IsKeyboardModifier(c)}

\* A binding that exists already is captured all the same; only applying it is refused.
BuildRebindCapture(a, primary, held, o) ==
  LET b == [action |-> a, primary |-> primary, modifiers |-> CapturedModifiers(primary, held, o), mode |-> o.mode,
            trigger |-> o.trigger, scale |-> 1, inner |-> 0]
      v == ValidateBinding(b, o.replace)
  IN IF v \in {"InvalidControl", "InvalidBinding"} THEN [result |-> v]
     ELSE [result |-> "Captured", binding |-> b, replace |-> o.replace]

BeginBindingCapture ==
  /\ \E a \in Actions, o \in CaptureOptions :
       session' = [active |-> TRUE, action |-> a, options |-> o, controls |-> {}, primary |-> ""]
  /\ capture' = NoCapture
  /\ UNCHANGED <<frame, bindings, states, outputs, actions, candidates, changes>>

\* The walk over the activations of the frame; it ends at the first one that decides the capture.
CaptureStep(acc, a) ==
  LET s == acc.session
      done(c) == [session |-> [s EXCEPT !.active = FALSE], capture |-> c]
      allowed == a.kind \in {"pressed", "axis"}
  IN CASE ~s.active -> acc
       [] s.active /\ a.control \in CancelControls -> done([result |-> "Canceled"])
       [] s.active /\ a.control \notin CancelControls /\ allowed /\ s.options.completion = "OnRelease" /\ a.kind = "pressed" ->
            [acc EXCEPT !.session = [s EXCEPT !.controls = @ \cup {a.control}, !.primary = a.control]]
       [] s.active /\ a.control \notin CancelControls /\ allowed
            /\ ~(s.options.completion = "OnRelease" /\ a.kind = "pressed") ->
            done(BuildRebindCapture(s.action, a.control, frame.down, s.options))
       [] s.active /\ a.control \notin CancelControls /\ ~allowed /\ s.options.completion = "OnRelease"
            /\ a.control \in s.controls ->
            done(BuildRebindCapture(s.action, s.primary, s.controls, s.options))
       [] OTHER -> acc

UpdateBindingCapture ==
  /\ session.active
  /\ LET end == FoldLeft(CaptureStep, [session |-> session, capture |-> NoCapture], frame.activations)
     IN session' = (IF end.session.active THEN end.session ELSE [active |-> FALSE]) /\ capture' = end.capture
  /\ UNCHANGED <<frame, bindings, states, outputs, actions, candidates, changes>>

\* captureBinding: the newest activation that is a press or cancels decides, and only without one the axis.
CaptureBinding ==
  /\ ~session.active
  /\ \E a \in Actions, o \in CaptureOptions :
       LET acts == frame.activations
           decisive == {k \in DOMAIN acts : acts[k].control \in CancelControls \/ acts[k].kind = "pressed"}
           newest == acts[CHOOSE k \in decisive : \A j \in decisive : j <= k].control
       IN capture' = CASE decisive # {} /\ newest \in CancelControls -> [result |-> "Canceled"]
                       [] decisive # {} /\ newest \notin CancelControls -> BuildRebindCapture(a, newest, frame.down, o)
                       [] decisive = {} /\ (\E k \in DOMAIN acts : acts[k].kind = "axis") ->
                            BuildRebindCapture(a, Stick, frame.down, o)
                       [] OTHER -> NoCapture
  /\ UNCHANGED <<frame, bindings, states, outputs, actions, candidates, changes, session>>

\* Mutant: what was captured is trusted.
Applicable_Trusts(c) == Accepted("Success")

\* The capture may be old by now: it is validated against the bindings of today.
Applicable(c) == Accepted(ValidateBinding(c.binding, c.replace))

ApplyCapturedBinding ==
  /\ capture.result = "Captured"
  /\ Applicable(capture)
  /\ LET a == capture.binding.action
         kept == SelectSeq([k \in DOMAIN bindings |-> k], LAMBDA k : ~capture.replace \/ bindings[k].action # a)
     IN /\ Len(kept) < MaxBindings
        /\ AddBindingUnchecked([n \in DOMAIN kept |-> bindings[kept[n]]], [n \in DOMAIN kept |-> states[kept[n]]],
                               [n \in DOMAIN kept |-> outputs[kept[n]]], capture.binding)
  /\ UNCHANGED <<frame, actions, candidates, changes, session, capture>>

ActionNext ==
  \/ Evaluate \/ AddBinding \/ (\E a \in Actions : ClearBindings(a))
  \/ BeginBindingCapture \/ UpdateBindingCapture \/ CaptureBinding \/ ApplyCapturedBinding

ActionSpec == ActionInit /\ [][ActionNext]_actionVars

---------------------------------------------------------------------------
(* Properties *)

\* A tap and a hold on the same combo share its presses: in the frame both see the combo let go, exactly one of the tap
\* and the end of the hold is reported, in whichever order they were bound and whenever each of them was added.
\* Combos of the PrimaryLast mode are not covered: a release, press and release in one frame resets the hold first.
TapOrHold ==
  \A t, h \in DOMAIN bindings :
    (/\ bindings[t].trigger = "Tap" /\ bindings[h].trigger = "Hold" /\ SameCombo(bindings[t], bindings[h])
     /\ bindings[t].mode = "AnyOrder" /\ outputs[t].stopped /\ outputs[h].stopped)
    => \/ \E j \in DOMAIN bindings \ {h} : bindings[j].trigger = "Hold" /\ SameCombo(bindings[j], bindings[h])
       \/ outputs[t].pressed # outputs[h].released

\* No two bindings of the map are the same, although captures are applied long after they were validated.
BindingsAreDistinct ==
  \A j, k \in DOMAIN bindings : j # k => ~SameBinding(bindings[j], bindings[k])

\* The value of an action is that of a device whose bindings produce the largest magnitude,
\* and of equally large ones the one that changed last.
LargestCandidateWins ==
  \A a \in Actions :
    LET mine == {candidates[n] : n \in {m \in DOMAIN candidates : candidates[m].action = a}}
        largest == {c \in mine : \A d \in mine : Magnitude(d.value) <= Magnitude(c.value)}
    IN mine # {} => \E c \in largest : /\ c.value = actions[a].value
                                       /\ \A d \in largest : d.sequence <= c.sequence

\* What evaluate() and the binding calls promise together: a press is a tap or a
\* hold and never both, no two bindings are the same, and an axis takes the
\* largest candidate.
ActionsAreExact == TapOrHold /\ BindingsAreDistinct /\ LargestCandidateWins
=============================================================================
