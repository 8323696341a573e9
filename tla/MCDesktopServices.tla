-------------------------- MODULE MCDesktopServices --------------------------
(***************************************************************************)
(* What an application adds to its windows: child surfaces, progress       *)
(* dialogs, the shell's taskbar, tray, notifications and jump list, and    *)
(* the clipboard.                                                          *)
(* Each behaviour exercises one of them while the others rest; the shell's *)
(* objects share one event queue and are exercised taskbar, tray with      *)
(* notifications, and jump list in turn.                                   *)
(***************************************************************************)
EXTENDS ProgressDialogs, ShellResources, Clipboard, ChildSurfaces, TLC

CONSTANT Second     \* one of the two surfaces

VARIABLE part

MCDialogs ==
    {[owned |-> TRUE, blocks |-> TRUE, cancelable |-> TRUE], [owned |-> FALSE, blocks |-> TRUE, cancelable |-> FALSE]}

Picture == [width |-> 1, height |-> 2, pixels |-> <<<<1, 2, 3, 255>>, <<4, 5, 6, 255>>>>]
Payload(kind, name, value) == [kind |-> kind, name |-> name, value |-> value]

\* the second text holds a terminator and cannot be published
MCPayloads ==
    {Payload("Text", "", <<1, 2>>), Payload("Text", "", <<1, 0, 2>>), Payload("FileList", "", <<<<1>>, <<2, 3>>>>),
     Payload("Image", "", Picture), Payload("Custom", "app", <<0, 1>>)}

\* another program's bottom-up 24-bit picture, and text with bytes after its end
MCForeign ==
    {[native |-> "DIB", item |-> Payload("Image", "", Picture),
      bytes |-> [depth |-> 3, topDown |-> FALSE, alpha |-> FALSE, width |-> 1, height |-> 2,
                 rows |-> <<6, 5, 4, 0, 3, 2, 1, 0>>]],
     [native |-> "UNICODETEXT", item |-> Payload("Text", "", <<2>>), bytes |-> <<2, 0, 7>>]}

Symmetry == Permutations(Dialogs) \cup Permutations(Callers)

MCInit ==
    /\ part \in {"progress", "taskbar", "tray", "jump list", "clipboard", "surfaces"}
    /\ Init /\ ShellInit /\ ClipInit /\ SurfaceInit
    /\ part # "surfaces" => parentScale = Min(ScaleSteps)

Progress == Next /\ UNCHANGED <<shellVars, clipVars, surfaceVars>>
Shell ==
    /\ \/ QueueNext
       \/ part = "taskbar" /\ TaskbarNext
       \/ part = "tray" /\ (TrayNext \/ CenterNext)
       \/ part = "jump list" /\ JumpNext
    /\ UNCHANGED <<vars, clipVars, surfaceVars>>
\* of two writes that overlap one has a single item
FewItems == \E c \in Callers : \A d \in Callers \ {c} : Len(clipCalls[d].prepared) + Len(clipCalls[d].published) < 2

Clips == ClipNext /\ UNCHANGED <<vars, shellVars, surfaceVars>> /\ FewItems'

\* a surface that was moved is shown and enabled, its host too; one that its host left behind has dropped
\* no event; two surfaces exist at once in one place, shown and enabled, with no event dropped or waiting,
\* but the second with both events of a scale or its end
FewSurfaceEvents ==
    /\ \A s \in Surfaces : hosts[s].values.position = 2 =>
            hosts[s].enabled /\ native[s].enabled /\ hosts[s].values.visible
    /\ \A s \in Surfaces : hosts[s].where = "deferred" => events[s].lossless
    /\ hosts[Second].where # "closed" =>
        \A s \in Surfaces :
           /\ hosts[s].where # "closed" =>
               hosts[s].values.position = 1 /\ hosts[s].values.visible /\ hosts[s].enabled
           /\ events[s].lossless
           /\ s # Second => events[s].queue = << >>
           /\ s = Second /\ Len(events[s].queue) = 1 => events[s].queue[1].kind = "destroyed"

ChildWindows == SurfaceNext /\ UNCHANGED <<vars, shellVars, clipVars>> /\ FewSurfaceEvents'

\* a shell object whose bounded calls are used up
Rests ==
    /\ part \in {"taskbar", "tray", "jump list"}
    /\ UNCHANGED <<vars, shellVars, clipVars, surfaceVars>>

MCNext ==
    /\ UNCHANGED part
    /\ \/ part = "progress" /\ Progress
       \/ part \in {"taskbar", "tray", "jump list"} /\ Shell
       \/ part = "clipboard" /\ Clips
       \/ part = "surfaces" /\ ChildWindows
       \/ Rests
=============================================================================
