---------------------------- MODULE GamepadInput ----------------------------
(* The input state, the device registry and the Win32 backend that feeds     *)
(* them (engine/input, driven by engine/window_manager).  XInput pads are    *)
(* polled once per frame, HID pads report through window messages, and both  *)
(* share the small device indices of the registry.                           *)
(*                                                                           *)
(* Messages are handled in the order they were posted, so a message is one   *)
(* step; a pad may change between any two of them.  Of the many controls of  *)
(* a device one button, one axis (XInput) and one hat (HID) are kept, each   *)
(* with two levels.                                                          *)
EXTENDS Integers, FiniteSets, SequencesExt

CONSTANTS
  NumSlots,      \* XInput user indices, kMaxGamepadCount
  XPads,         \* the indices a pad is ever plugged into
  HidPads,       \* HID gamepads, by device path
  Unusable,      \* the HID pads without a control the backend understands
  MaxIndex,      \* bound: the largest device index
  MaxPlugs,      \* bound: how often a HID pad is plugged in
  MaxPackets,    \* bound: the changes of an XInput pad
  MaxClears      \* bound: InputState::clear calls

ASSUME GamepadInputAssumption ==
  /\ NumSlots \in Nat \ {0} /\ XPads \subseteq 0 .. NumSlots - 1
  /\ IsFiniteSet(HidPads) /\ Unusable \subseteq HidPads
  /\ {MaxIndex, MaxPlugs, MaxPackets, MaxClears} \subseteq Nat
  /\ MaxIndex >= NumSlots + Cardinality(HidPads)

XSlots == 0 .. NumSlots - 1
Indices == 0 .. MaxIndex
PadStates == {"idle", "press", "move"}
XButton(i) == <<"Gamepad", i, "South">>
XAxis(i) == <<"Gamepad", i, "LeftX">>
HidButton(i) == <<"Gamepad", i, "hid">>
HidHat(i) == <<"Gamepad", i, "hat">>
Key == <<"Keyboard", 0, "Key">>
XIdentity(s) == <<"xinput", s>>
HidIdentity(p) == <<"hid", p>>
NoIdentity == <<>>
NoRaw == "never"

VARIABLES
  pads,        \* XInput hardware: [XSlots -> plugged, state, packet]
  hids,        \* HID hardware: [HidPads -> plugged, state, handle]
  input,       \* the InputState of the game
  registry,    \* device index -> InputDeviceInfo
  runtimes,    \* raw device <<pad, handle>> -> HidDeviceRuntime
  cache,       \* the cached* arrays, by XInput slot; fedAs is history: the index of the last feed
  scanned,     \* initialXInputScanComplete
  nextSlot,    \* nextDisconnectedGamepadSlotToPoll
  focused,     \* the main window has the focus
  posted      \* a WM_INPUT_DEVICE_CHANGE is in the message queue

gamepadVars == <<pads, hids, input, registry, runtimes, cache, scanned, nextSlot, focused, posted>>
hardwareVars == <<pads, hids>>

---------------------------------------------------------------------------
(* InputState *)

EmptyInput == [down |-> {}, pressed |-> {}, released |-> {}, axes |-> {}, activations |-> <<>>,
               connected |-> {}, generation |-> 0]

SetButton(i, c, isDown) ==
  CASE isDown = (c \in i.down) -> i
    [] isDown /\ c \notin i.down ->
         [i EXCEPT !.down = @ \cup {c}, !.pressed = @ \cup {c},
                   !.activations = Append(@, <<c, "ButtonPressed">>)]
    [] OTHER ->
         [i EXCEPT !.down = @ \ {c}, !.released = @ \cup {c},
                   !.activations = Append(@, <<c, "ButtonReleased">>)]

SetAxis(i, c, tilted) ==
  IF tilted = (c \in i.axes) THEN i
  ELSE [i EXCEPT !.axes = IF tilted THEN @ \cup {c} ELSE @ \ {c},
                 !.activations = Append(@, <<c, IF tilted THEN "AxisPositive" ELSE "AxisChanged">>)]

\* Mutant: what the frame had recorded stays.
ClearInput_KeepsFrame(i) ==
  [i EXCEPT !.down = {}, !.released = @ \cup i.down, !.axes = {}, !.generation = @ + 1]

\* Releases are announced for the held buttons only; what the frame had recorded so far is dropped.
ClearInput(i) ==
  [i EXCEPT !.down = {}, !.pressed = {}, !.released = i.down, !.axes = {},
            !.activations = [k \in 1 .. Cardinality(i.down) |-> <<SetToSeq(i.down)[k], "ButtonReleased">>],
            !.generation = @ + 1]

SetConnected(i, index, on) ==
  [i EXCEPT !.connected = IF on THEN @ \cup {index} ELSE @ \ {index}]

---------------------------------------------------------------------------
(* InputDeviceRegistry *)

PrimaryBackend(e) ==
  CASE "XInput" \in e.feeds -> "XInput"
    [] "XInput" \notin e.feeds /\ "RawInputHID" \in e.feeds -> "RawInputHID"
    [] OTHER -> e.primary

RefreshDeviceSummary(e) ==
  LET p == PrimaryBackend(e)
      own == IF p = "XInput" THEN e.xid ELSE e.hidid
  IN [e EXCEPT !.primary = p, !.identity = IF own = NoIdentity THEN @ ELSE own]

AttachBackendInfo(e, backend, identity) ==
  RefreshDeviceSummary(
    IF backend = "XInput"
    THEN [e EXCEPT !.canonical = TRUE, !.feeds = @ \cup {backend}, !.xid = identity]
    ELSE [e EXCEPT !.canonical = TRUE, !.feeds = @ \cup {backend}, !.hidid = identity])

NewDevice(backend, identity) ==
  AttachBackendInfo([feeds |-> {}, primary |-> backend, identity |-> identity, xid |-> NoIdentity,
                     hidid |-> NoIdentity, canonical |-> TRUE], backend, identity)

AllocateDeviceIndex(r) == CHOOSE i \in Indices \ DOMAIN r : \A j \in Indices \ DOMAIN r : i <= j

\* A known identity keeps its index; a new one takes the index it asks for, or the lowest free one.
UpsertDevice(r, wanted, backend, identity) ==
  LET known == {i \in DOMAIN r : r[i].identity = identity}
      index == CASE known # {} -> CHOOSE i \in known : TRUE
                 [] known = {} /\ wanted \in DOMAIN r -> AllocateDeviceIndex(r)
                 [] OTHER -> wanted
      entry == IF known # {} THEN AttachBackendInfo(r[index], backend, identity) ELSE NewDevice(backend, identity)
  IN [index |-> index, registry |-> [i \in DOMAIN r \cup {index} |-> IF i = index THEN entry ELSE r[i]]]

SetBackendConnected(r, index, backend, on) ==
  IF index \notin DOMAIN r THEN r
  ELSE [r EXCEPT ![index] = RefreshDeviceSummary([@ EXCEPT !.feeds = IF on THEN @ \cup {backend} ELSE @ \ {backend}])]

\* Devices nothing feeds any more are erased, whichever backend they belonged to.
ClearHidBackend(r) ==
  LET cleared(i) == RefreshDeviceSummary([r[i] EXCEPT !.feeds = @ \ {"RawInputHID"}, !.hidid = NoIdentity])
  IN [i \in {j \in DOMAIN r : cleared(j).feeds # {}} |-> cleared(i)]

HasFeed(r, index, backend) == index \in DOMAIN r /\ backend \in r[index].feeds
IsConnectedDevice(r, index) == index \in DOMAIN r /\ r[index].feeds # {} /\ r[index].canonical
ShouldFeed(r, index, backend) ==
  IsConnectedDevice(r, index) /\ HasFeed(r, index, backend) /\ r[index].primary = backend

\* The one gamepad the other backend feeds under the same identity, if there is exactly one.
MergeTargets(r, backend, identity) ==
  {i \in DOMAIN r : /\ r[i].canonical
                    /\ IF backend = "XInput" THEN HasFeed(r, i, "RawInputHID") /\ r[i].hidid = identity
                                             ELSE HasFeed(r, i, "XInput") /\ r[i].xid = identity}

RegisterDevice(r, wanted, backend, identity) ==
  LET merge == MergeTargets(r, backend, identity)
  IN IF Cardinality(merge) = 1
     THEN LET i == CHOOSE j \in merge : TRUE
          IN [index |-> i, registry |-> [r EXCEPT ![i] = AttachBackendInfo(@, backend, identity)]]
     ELSE UpsertDevice(r, wanted, backend, identity)

SyncRegistryConnections(i, r) ==
  [i EXCEPT !.connected = (@ \ DOMAIN r) \cup {d \in DOMAIN r : IsConnectedDevice(r, d)}]

---------------------------------------------------------------------------
(* The HID backend *)

\* An HID pad always asks for index 0.  One without usable controls is registered and withdrawn again.
BuildHidRuntime(acc, p) ==
  LET reg == RegisterDevice(acc.registry, 0, "RawInputHID", HidIdentity(p))
      off == SetBackendConnected(reg.registry, reg.index, "RawInputHID", FALSE)
      raw == <<p, hids[p].handle>>
  IN IF p \in Unusable
     THEN [acc EXCEPT !.registry = IF IsConnectedDevice(off, reg.index) THEN off
                                   ELSE [off EXCEPT ![reg.index].canonical = FALSE]]
     ELSE [registry |-> reg.registry,
           runtimes |-> [k \in DOMAIN acc.runtimes \cup {raw} |->
                           IF k = raw THEN [device |-> reg.index, previous |-> NoRaw] ELSE acc.runtimes[k]]]

\* listed is the raw device list: an order of the pads that are plugged in, without those the system fails to describe.
RefreshHidDevices(r, listed) ==
  FoldLeft(BuildHidRuntime, [registry |-> ClearHidBackend(r), runtimes |-> [k \in {} |-> {}]], listed)

RawLists == {l \in UNION {[1 .. n -> {p \in HidPads : hids[p].plugged}] : n \in 0 .. Cardinality(HidPads)} : IsInjective(l)}

HatValue(state) == IF state = "move" THEN "up" ELSE "centered"

\* The previous raw value is kept per runtime: an unchanged hat is not fed again.
FeedHidReport(i, rt, state) ==
  LET raw == HatValue(state)
      buttons == SetButton(i, HidButton(rt.device), state = "press")
  IN IF rt.previous = raw THEN buttons ELSE SetButton(buttons, HidHat(rt.device), raw = "up")

---------------------------------------------------------------------------
(* The XInput backend.  Its helpers map [input, registry, cache] to the same. *)

\* The loop of clearGamepadControls.
ClearGamepadControls(i, index) == SetAxis(SetButton(i, XButton(index), FALSE), XAxis(index), FALSE)

FeedGamepadState(i, index, state) ==
  SetAxis(SetButton(i, XButton(index), state = "press"), XAxis(index), state = "move")

MarkGamepadDisconnected(s, slot, index) ==
  LET known == HasFeed(s.registry, index, "XInput")
      r == SetBackendConnected(s.registry, index, "XInput", FALSE)
      i == IF s.cache[slot].cleared THEN s.input ELSE ClearGamepadControls(s.input, index)
      entry == [s.cache[slot] EXCEPT !.same = known, !.generation = s.input.generation, !.connected = FALSE,
                                     !.has = FALSE, !.cleared = TRUE]
  IN IF ~known THEN [s EXCEPT !.cache[slot] = entry]
     ELSE [input |-> SetConnected(i, index, IsConnectedDevice(r, index)), registry |-> r,
           cache |-> [s.cache EXCEPT ![slot] = entry]]

\* Mutant: the clear generation is not part of the skip test.
AlreadyFed_NoGeneration(s, slot) ==
  LET c == s.cache[slot]
  IN c.has /\ c.same /\ c.packet = pads[slot].packet

\* The packet number, the clear generation and the input state decide whether a packet was fed already.
AlreadyFed(s, slot) ==
  LET c == s.cache[slot]
  IN c.has /\ c.same /\ c.packet = pads[slot].packet /\ c.generation = s.input.generation

PollConnected(s, slot) ==
  LET reg == RegisterDevice(s.registry, slot, "XInput", XIdentity(slot))
      i == SetConnected(s.input, reg.index, TRUE)
      seen == [s.cache[slot] EXCEPT !.connected = TRUE, !.index = reg.index]
  IN IF AlreadyFed(s, slot)
     THEN [input |-> i, registry |-> reg.registry, cache |-> [s.cache EXCEPT ![slot] = seen]]
     ELSE [input |-> FeedGamepadState(i, reg.index, pads[slot].state), registry |-> reg.registry,
           cache |-> [s.cache EXCEPT ![slot] =
             [seen EXCEPT !.packet = pads[slot].packet, !.generation = i.generation, !.same = TRUE,
                          !.has = TRUE, !.cleared = FALSE, !.fedAs = reg.index]]]

\* A slot that was not connected is marked under the index that equals its number.
PollSlot(s, slot) ==
  IF pads[slot].plugged THEN PollConnected(s, slot)
  ELSE MarkGamepadDisconnected(s, slot, IF s.cache[slot].connected THEN s.cache[slot].index ELSE slot)

\* The next slot in turn that is not connected; NumSlots when all are.
DisconnectedSlot ==
  LET turn(k) == (nextSlot + k) % NumSlots
      free == {k \in 0 .. NumSlots - 1 : ~cache[turn(k)].connected}
  IN IF free = {} THEN NumSlots ELSE turn(CHOOSE k \in free : \A j \in free : k <= j)

---------------------------------------------------------------------------
GamepadInit ==
  /\ pads = [s \in XSlots |-> [plugged |-> FALSE, state |-> "idle", packet |-> 0]]
  /\ hids = [p \in HidPads |-> [plugged |-> FALSE, state |-> "idle", handle |-> 0]]
  /\ input = EmptyInput
  /\ registry = [i \in {} |-> {}]
  /\ runtimes = [k \in {} |-> {}]
  /\ cache = [s \in XSlots |-> [connected |-> FALSE, has |-> FALSE, same |-> FALSE, packet |-> 0,
                                generation |-> 0, index |-> 0, cleared |-> TRUE, fedAs |-> 0]]
  /\ scanned = FALSE
  /\ nextSlot = 0
  /\ focused = TRUE
  /\ posted = FALSE

(* Hardware *)

PadChanges(s) ==
  /\ pads[s].packet < MaxPackets
  /\ \E on \in BOOLEAN, st \in PadStates :
       /\ ~on => st = "idle"
       /\ <<on, st>> # <<pads[s].plugged, pads[s].state>>
       /\ pads' = [pads EXCEPT ![s] = [plugged |-> on, state |-> st, packet |-> @.packet + 1]]
  /\ UNCHANGED <<hids, input, registry, runtimes, cache, scanned, nextSlot, focused, posted>>

HidPlugs(p) ==
  /\ ~hids[p].plugged => hids[p].handle < MaxPlugs
  /\ hids' = [hids EXCEPT ![p] = [plugged |-> ~@.plugged, state |-> "idle",
                                  handle |-> IF @.plugged THEN @.handle ELSE @.handle + 1]]
  /\ posted' = TRUE
  /\ UNCHANGED <<pads, input, registry, runtimes, cache, scanned, nextSlot, focused>>

(* Messages *)

\* Also for a keyboard or a mouse that comes or goes.
HandleDeviceChange ==
  /\ focused
  /\ input.generation < MaxClears
  /\ \E listed \in RawLists :
       LET fresh == RefreshHidDevices(registry, listed)
       IN /\ registry' = fresh.registry
          /\ runtimes' = fresh.runtimes
          /\ input' = SyncRegistryConnections(ClearInput(input), fresh.registry)
  /\ scanned' = FALSE
  /\ posted' = FALSE
  /\ UNCHANGED <<hardwareVars, cache, nextSlot, focused>>

\* Messages of a main window without the focus do not reach the input backend.
DropDeviceChange ==
  /\ posted /\ ~focused
  /\ posted' = FALSE
  /\ UNCHANGED <<hardwareVars, input, registry, runtimes, cache, scanned, nextSlot, focused>>

\* A report of a raw device without a runtime enumerates the devices again, and clears nothing.
HandleRawHidInput(p) ==
  /\ hids[p].plugged /\ focused /\ ~posted
  /\ \E st \in PadStates, listed \in RawLists :
       LET raw == <<p, hids[p].handle>>
           unknown == raw \notin DOMAIN runtimes
           now == IF unknown THEN RefreshHidDevices(registry, listed) ELSE [registry |-> registry, runtimes |-> runtimes]
           feeds == raw \in DOMAIN now.runtimes /\ ShouldFeed(now.registry, now.runtimes[raw].device, "RawInputHID")
       IN /\ unknown \/ listed = <<>>
          /\ hids' = [hids EXCEPT ![p].state = st]
          /\ registry' = now.registry
          /\ scanned' = (scanned /\ ~unknown)
          /\ IF feeds
             THEN /\ input' = FeedHidReport(SetConnected(input, now.runtimes[raw].device, TRUE), now.runtimes[raw], st)
                  /\ runtimes' = [now.runtimes EXCEPT ![raw].previous = HatValue(st)]
             ELSE input' = input /\ runtimes' = now.runtimes
  /\ UNCHANGED <<pads, cache, nextSlot, focused, posted>>

HandleKey ==
  /\ focused
  /\ \E isDown \in BOOLEAN : input' = SetButton(input, Key, isDown)
  /\ UNCHANGED <<hardwareVars, registry, runtimes, cache, scanned, nextSlot, focused, posted>>

\* Mutant: the clear that pollEvents has for a WM_KILLFOCUS it retrieves.
FocusLost_Clears ==
  /\ focused /\ focused' = FALSE
  /\ input.generation < MaxClears
  /\ input' = ClearInput(input)
  /\ UNCHANGED <<hardwareVars, registry, runtimes, cache, scanned, nextSlot, posted>>

\* The window procedure learns of the loss from a message that is sent, before any posted one is retrieved.
\* PeekMessageW never returns a sent message, so that the clear in pollEvents is not reached: what was held
\* when the focus went stays held.
FocusLost ==
  /\ focused /\ focused' = FALSE
  /\ UNCHANGED <<hardwareVars, input, registry, runtimes, cache, scanned, nextSlot, posted>>

FocusGained ==
  /\ ~focused /\ focused' = TRUE
  /\ UNCHANGED <<hardwareVars, input, registry, runtimes, cache, scanned, nextSlot, posted>>

(* Frames *)

\* The end of pollEvents, with an XInput library present.
UpdateGamepads ==
  /\ focused
  /\ \E due \in BOOLEAN :
       LET turn == IF scanned /\ due THEN DisconnectedSlot ELSE NumSlots
           polled == SelectSeq([k \in 1 .. NumSlots |-> k - 1], LAMBDA s : cache[s].connected \/ ~scanned \/ s = turn)
           end == FoldLeft(PollSlot, [input |-> SyncRegistryConnections(input, registry), registry |-> registry,
                                      cache |-> cache], polled)
       IN /\ input' = end.input /\ registry' = end.registry /\ cache' = end.cache
          /\ nextSlot' = IF turn = NumSlots THEN nextSlot ELSE (turn + 1) % NumSlots
  /\ scanned' = TRUE
  /\ UNCHANGED <<hardwareVars, runtimes, focused, posted>>

AdvanceFrame ==
  /\ input.activations # <<>>
  /\ input' = [input EXCEPT !.pressed = {}, !.released = {}, !.activations = <<>>]
  /\ UNCHANGED <<hardwareVars, registry, runtimes, cache, scanned, nextSlot, focused, posted>>

GamepadNext ==
  \/ \E s \in XPads : PadChanges(s)
  \/ \E p \in HidPads : HidPlugs(p) \/ HandleRawHidInput(p)
  \/ HandleDeviceChange \/ DropDeviceChange \/ HandleKey \/ FocusLost \/ FocusGained
  \/ UpdateGamepads \/ AdvanceFrame

GamepadSpec == GamepadInit /\ [][GamepadNext]_gamepadVars

---------------------------------------------------------------------------
(* Properties *)

\* updateGamepads skips a packet it has fed before: as long as the slot's device keeps its index,
\* a packet that would be skipped is what the input state shows, through clears, refreshes and reconnections.
SkippedPacketsAreCurrent ==
  \A s \in XSlots :
    LET i == cache[s].index
    IN (AlreadyFed([input |-> input, cache |-> cache], s) /\ pads[s].plugged
          /\ i = cache[s].fedAs)
       => /\ (XButton(i) \in input.down) = (pads[s].state = "press")
          /\ (XAxis(i) \in input.axes) = (pads[s].state = "move")

\* A hat whose raw value has not changed is not fed again either, and clearing the input does not reset the
\* runtime's previous value: what a runtime has fed last is what the input state shows, however often the
\* input is cleared, the devices are refreshed and the focus comes and goes.
SkippedHatsAreCurrent ==
  \A raw \in DOMAIN runtimes :
    LET rt == runtimes[raw]
    IN rt.previous # NoRaw => (HidHat(rt.device) \in input.down) = (rt.previous = "up")

\* The activations a frame reports end in the level of each button, and pressed and released are the controls they name,
\* however often feeds, disconnections and clears alternate within the frame.
EdgesEndInLevels ==
  LET of(c) == SelectSeq(input.activations, LAMBDA a : a[1] = c /\ a[2] \in {"ButtonPressed", "ButtonReleased"})
      named(kind) == {input.activations[k][1] : k \in {j \in DOMAIN input.activations : input.activations[j][2] = kind}}
  IN /\ \A c \in named("ButtonPressed") \cup named("ButtonReleased") :
          (c \in input.down) = (of(c)[Len(of(c))][2] = "ButtonPressed")
     /\ input.pressed = named("ButtonPressed") /\ input.released = named("ButtonReleased")

\* What a frame of device input promises together: an unchanged packet may be
\* skipped only while its levels are still in force, neither may a hat that has
\* not moved, and the edges of a frame end in its levels.
PadsAreExact == SkippedPacketsAreCurrent /\ SkippedHatsAreCurrent /\ EdgesEndInLevels
=============================================================================
