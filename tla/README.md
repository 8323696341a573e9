# TLA+ verification of GameWIP

This directory holds a TLA+ model of the parts of GameWIP whose correctness
depends on order: threads that share state without a common lock, native calls
that fail half-way through an operation, messages that re-enter the code that
caused them, queues and counters at their limits, crashes between two writes.
Every definition is translated from the C++ under `engine/`, `foundation/` and
`tools/`, and `PROJECT.json` maps each one to its lines. TLC checks small
instances of every module; TLAPS proves the invariants of ten of them for
every instance.

## 1. Inventory of the system

GameWIP is a C++23 code base for Windows: foundation libraries, tools, a desktop
engine library and a small game runtime. `engine/input`, `engine/action` and
`engine/window_manager` are kept by the repository as reference code and are
excluded from its normal builds; the first two are modelled all the same,
because their logic is the most intricate of the frame-based code.

| component | state it keeps | operations | what is hard | what makes it correct | modules |
| --- | --- | --- | --- | --- | --- |
| Logger queue and lifecycle (`tools/logger/core/logger_queue.cpp`, `logger_state.cpp`, `logger_runtime.cpp`, flush and shutdown in `logger_reports.cpp`) | ring of slots with sequence numbers, ticket counters, queue depth, published head, active producers, worker flags | log, init, flush, shutdown, the worker loop | any number of producers, a worker and a lifecycle holder share atomics; storage is reset by the next init | no slot race, no spinning, no lost wake-up, records in order, flush and shutdown cover what came before | `LoggerQueue` |
| Logger sinks, filters, reports, health | sinks, failure marks, source registry, counters, batches, synchronous reports | filters, report, direct debug output, batches of the worker | sinks fail one by one in the middle of a batch, in one initialisation or the next | each accepted record reaches each sink or is accounted for; a report says what happened | `LoggerSinks` |
| Progress dialogs (`engine/desktop/core/progress_dialog.cpp`, `win32_progress_dialog.cpp`) and the window dispatcher | native window, owner Window, window-class reference, dispatcher registries, queues of restorations and deferred states | open, close, cancel, destroy, destroy on a foreign thread, native loss, pump, thread exit | each native call can fail; the owner must be enabled again; foreign destructors race thread exit | no dangling pointer, exact class references, nothing lost, owner restored | `ProgressDialogs` |
| Window events (`engine/desktop/core/events.cpp`, `win32_window_proc.cpp`) | bounded ring with coalescing, cached geometry, lifetime, close request | native messages, poll, peek, remove, clear, open, close | merging across durable events, eviction when full, re-entrant messages | replaying the events yields the cached state; native loss is never lost | `WindowEvents`, `EventQueueSpec` |
| Renderer bridge (`core/renderer_bridge.cpp`) | hit-mask generation, pending and active mask, occlusion provider, atomic sidecar | begin, publish, clear hit mask; attach and detach provider; concurrent reads | results of a renderer thread arrive after resizes, clears and reopenings | an active mask is current; readers see what the window published | `RendererBridge` |
| Window setters, owners, cursors, confinement | settings, native style, owner, clip, cursor and icon handles, class reference | setters, focus, DPI changes, close | a setter is several native calls and each can fail | the native window follows its settings; the desktop's one clip is justified | `WindowControls` |
| Child surfaces (`core/child_surface*.cpp`, `win32_child_surface.cpp`) | parent link, event ring, native child | open, close, defer, foreign destruction, parent loss, geometry and scale | parent destroyed under the child, coalescing with scale | replaying events gives the surface; an open surface has its window | `ChildSurfaces` |
| Fullscreen and monitors (`win32_mode.cpp`, `win32_monitor.cpp`) | mode, saved placement, display modes, DXGI factory | setWindowMode in stages, suspend, resume, recover, getColorInfo | every native call dispatches messages; displays vanish | displays return to their mode, the window looks like its mode | `Fullscreen` |
| Accessibility (`core/accessibility*.cpp`, `win32_accessibility*.cpp`) | published snapshots, notification ring, action queue, geometry under a sequence counter, pool of text ranges | publish, deliver, submit, read, move ranges, enable, disable | client threads without a lock, a ring that overflows | coherent geometry, clients converge, ranges stay shared, trees are trees | `Accessibility`, `HostGeometry`, `TextRanges`, `SnapshotTree` |
| Shell (`core/shell.cpp`, `win32_shell.cpp`) | event queue shared by tray icon, notifications and taskbar items; registry records | open, close, publish, pump, Explorer restart; register, unregister, roll back | failing and restarting shell; a crash between two registry values | nothing shown that nobody holds; registration is a transaction | `ShellResources`, `ShellRegistration` |
| Drag and drop, clipboard | drop-event lists, OLE registration; commit state and native formats | OLE callbacks, drain, close, foreign destruction; publish and read formats | full queue merges movements; each native step can fail | the drag is continuous; the commit state is true | `DragDrop`, `Clipboard` |
| Terminal output scopes (`foundation/terminal/core/terminal.cpp`) | nesting depth per output stream, phase of each scope object | hide, restore, move, destroy | a write or a flush fails, scopes end in any order | hidden while some scope holds, shown after the last | `TerminalScopes` |
| Terminal sessions (`foundation/terminal/core/session.cpp`) | open flag, active leases, mutation gate, owner of stdin, saved mode, owed output state | open, close, destroy, calls and their nested calls, direct reads | formatters re-enter or close the session; each step of close can fail | calls keep the binding they started with; close waits, restores and never deadlocks | `TerminalSession` |
| Terminal input and line editor (`win32_terminal.cpp`, `line_input.cpp`) | pending bytes, records, decoder; line, caret, echo geometry | reads of bytes, text, lines, keys; editing keys, paste, resize | split sequences, limits, time-outs, replaced endpoints; wrapping rows | every byte once, whole scalars; the screen shows the line | `TerminalInput`, `LineInput` |
| Filesystem (`win32_filesystem.cpp`, `filesystem_whole_file.inl`) | native handles, locks, temporary files, cursors | open, lock, resize, atomic replacement, copy, move, trees | failure and crash between steps, links swapped in | old or new file, nothing outside the tree removed, locks backed | `FileHandles`, `FileReplacement`, `DirectoryTree` |
| IO transfers (`foundation/io/core/transfer.cpp`) | counters, UTF-8 check | whole-stream reads, writes and copies | partial reads and writes, exact limits | bytes delivered exactly once, errors true | `Transfers` |
| Legacy input and actions (`engine/input`, `engine/action`) | device registry, cached pads, frames; bindings and their states | poll, raw input, focus, clear; evaluate, capture, rebind | index reuse, skipped packets, several edges in a frame | levels and edges agree; tap or hold | `GamepadInput`, `ActionMap` |
| Unicode | none | conversion, segmentation | limits | agree with a reference | UTF-8 check only, in `Transfers` |
| Assertions, test support, game runtime, scripts | once-only flags; child processes; nothing | fail; run with a time-out; start-up | nothing shared for long | one report per failure | not modelled |

Components meet in few places. The dispatcher of a thread owns the Windows,
surfaces, drop targets and progress dialogs of that thread; `Window::close`
closes blocking dialogs and a dialog's restoration enables the Window
(`ProgressDialogs`). The window procedure feeds the event ring and the renderer
bridge: a resize both records an event (`WindowEvents`) and invalidates the hit
mask (`RendererBridge`). A terminal Session owns one output scope per state it
changes; `TerminalScopes` models how that scope counts with others,
`TerminalSession` when the Session may restore it. The worker's batches go to
the sinks of `LoggerSinks`; `LoggerQueue` takes a batch as written once it was
handed over. The action map reads the frame that the input layer ends.

`PROJECT.json` lists the hazards line by line with the properties that would
notice them.

## 2. Modules

Operators whose name has the form `Definition_Variant` are deliberate mutations
of that definition. No specification uses them; each shows, when put in the
place of the definition, that a property notices the change. The operator each
run checks is a conjunction of the named parts its module explains.

| module | content | proofs |
| --- | --- | --- |
| `LoggerQueue` | ring, producers, worker, lifecycle, at the grain of the atomic accesses | `LoggerQueueProofs`, `LoggerDeliveryProofs` |
| `LoggerSinks` | sinks, filters, synchronous reports, health | |
| `ProgressDialogs` | dialogs, their owner Window, dispatcher, foreign destructors, thread exit | `ProgressDialogsProofs` |
| `WindowEvents` | event ring and the messages and calls that feed and drain it | |
| `EventQueueSpec` | what the consumer is promised: a bounded sequence of events | |
| `RendererBridge` | hit-mask handshake, occlusion and concurrent publication | `DesktopProofs` |
| `WindowControls` | settings of a window against its native state | |
| `ChildSurfaces` | child surfaces, their events and their parent | |
| `Fullscreen` | window modes over displays that come and go | |
| `Accessibility` | publication, notifications, actions, providers | |
| `HostGeometry` | the geometry sequence counter | `AccessibilityProofs` |
| `TextRanges` | the pool of shared text ranges | `AccessibilityProofs` |
| `SnapshotTree` | tree validation, layout and walks | |
| `ShellResources` | tray, taskbar, notifications, jump list, their queue | |
| `ShellRegistration` | registration with backup, roll-back and crash | `DesktopProofs` |
| `DragDrop` | drop target, its queue and its OLE session | |
| `Clipboard` | clipboard writers and readers | |
| `TerminalScopes` | nested cursor (and alternate-screen) scopes | `TerminalProofs` |
| `TerminalSession` | leases, mutations, ownership of stdin, restoration | `TerminalProofs` |
| `TerminalInput` | reads over the input backend | |
| `LineInput` | line editor and its echo | |
| `FileHandles` | handles, positions and locks | `FileHandlesProofs` |
| `FileReplacement` | whole-file calls, failures and a crash | `FileReplacementProofs` |
| `DirectoryTree` | trees while links are swapped in | |
| `Transfers` | transfers over partial readers and writers | |
| `GamepadInput`, `ActionMap` | legacy input and actions | |
| `MC...` | constants for TLC, and which components a run puts side by side | |

### LoggerQueue

Threads: producers (callers of the asynchronous API), the worker
(`loggerWorker`), and whoever holds `lifecycleMutex` (`init`, `flush`,
`shutdown`), with program counters `pc`, `wpc` and `cpc`. `sequence`, `slot`,
`enqueueTicket`, `dequeueTicket`, `queueDepth`, `publishedQueueDepth`,
`activeProducers`, `workerRunning` and `workerBusy` are the variables of
`LoggerState` of those names. Each atomic access that another thread can observe
is one action; accesses are interleaved sequentially consistently, which the
code's acquire and release operations on x86 justify for the protocol (every
read-modify-write is a full fence there). `submitted`, `delivered`, `lost` and
`flushMark` are history.

A producer enters (`activeProducers`), re-reads `workerRunning`, filters,
reserves depth (the soft limit for ordinary levels, the hard limit for important
ones), draws a ticket, waits for its slot, copies or marks the slot to be
skipped when copying fails, publishes, decides from the head whether to notify,
and leaves. The worker drains published slots into batches. `Init` may fail to
create the thread; producers then already inside finish without a worker.

Left out: spurious wake-ups (they only repeat a check), the branch of
`publishReservedQueueEntry` for capacity 0 (unreachable while a depth can be
reserved), the counters `truncated`, `peakQueueDepth` and `written`, and the
sinks, which accept whatever the worker writes. `ExitCheck` evaluates the exit
test of the worker in one action: past the wait either the head is published,
which only the worker can take back, so that the test fails; or the logger was
seen stopped without active producers, after which nobody passes admission and
the counters no longer change.

### LoggerSinks

`sinks` and `filters` are the configuration, `counts` bounds and the health
record's counters, and the worker's batch, a caller's report and a thread that
writes debug output directly each have their step. A write to a sink succeeds,
fails or fails only at its line end; a sink whose failure was noted is off until
the next `init`. Text formatting and the statistics snapshot are left out.

### ProgressDialogs

`dlg` holds for each dialog who owns its state (`at`: held by the program,
deferred to the dispatcher, freed), its native window and data, and which steps
of its finalisation have been done. `registry`, `restoreChain`, `deferred` and
`cleanup` are the dispatcher's lists; `classUsers` the reference count of the
window class; `win` the owner Window. Owner-thread handlers that make several
native calls are sequences of actions with `pc`, `cur` and `idx`; each native
call can fail as long as `MaxFaults` allows. A destructor on another thread
(`fpc`) tests `state->platform`, reads the owner's thread id through it, and
takes the registry lock. `Pump` restores pending owners and
prunes deferred states; `BeginExit` starts `~Dispatcher`. Setters of texts and
progress values change nothing the properties see and are left out.

### WindowEvents and EventQueueSpec

`ring` is the `EventQueue` with its slots, head, count, next sequence number
and drop counter; operators translate `enqueueEvent`: the merging of
coalescible geometry and scale events with the entry they supersede, the
eviction that makes room, the drops, and the removal of an entry from the
middle. `cached` is what the window procedure has stored, `view` what a consumer
computes by replaying the events it was handed; `lost`, `told` and `stamp` are
history. `WM_DPICHANGED` places the window before it reports the scale: the
nested `WM_MOVE` and `WM_SIZE` already store the new geometry and scale, emit the
geometry and may queue `MonitorChanged` and `PresentationStateChanged`. A consumer
that pops one of these notices knows the geometry the getters return but still the
previous scale, until the `ContentScaleChanged` behind it; `BarrierConsistent`
compares with exactly that.

`EventQueueSpec` knows nothing of slots, payloads or eviction order: its queue is
a sequence of numbered entries. Routing a message may remove coalescible
entries and append newly numbered ones, but never reorders, never reuses a
number and never removes a durable entry; only the loss of the native window may
sacrifice the oldest entry. `ImplementsQueue` is that specification under the
mapping that reads the ring from its head.

Assumed: native geometry queries succeed, DPI changes take effect in
`WM_DPICHANGED`, `notice` stands for the durable kinds that only announce
something. The `framebufferSize` field of `ContentScaleChanged` and fullscreen
recovery with `suppressEvents` are left out.

### RendererBridge

The owner thread draws a generation for a hit mask (`BeginPointerHitMaskUpdate`), a
renderer thread works on it, and `PublishPointerHitMask` accepts the result only
for the pending generation and extent. Resizes, clears, losses and reopenings
invalidate. `epoch` is history: it counts everything that makes an earlier
drawing stale. The counter saturates at `MaxGeneration` (`exhausted`).
`published` is the atomic sidecar renderer threads read. It has a single
writer, the owner thread, so its compare-and-swap loop never retries; of its
fields the extent, lifetime and occlusion are kept. The Win32 backend does not
yet advertise hit-mask support (only the test hook does); the model assumes a
backend that does.

### WindowControls, ChildSurfaces and Fullscreen

`WindowControls` keeps `setting` (what the Window remembers) next to the native
style, owner, clip, cursor and icon handles. A setter is its sequence of native
calls, any of which may fail; what the code rolls back is rolled back. `torn`,
`adrift` and `astray` record that a failure left a native side behind its
setting, so that the properties can say exactly when that may be: an orphan of
a closed owner whose native parent cannot be cleared, for instance, stays
`adrift` until its owner is set again.

`ChildSurfaces` has the surfaces of one host: `hosts` is the portable state,
`native` the child window, `events` the ring with `lossless` telling whether an
event was dropped, `client` the replay. A foreign destructor hands the state to
the dispatcher; the host may go first. A destructor, a clean-up or the
dispatcher's exit goes on when a host cannot be destroyed: `strays` counts the
hosts left without a state, which keep the window class registered until their
parent goes. What their messages do after that is not modelled.

`Fullscreen` runs `setWindowMode` in stages (`change`), because each native call
dispatches messages: between two stages the window procedure may handle
`WM_ACTIVATEAPP` and `WM_DISPLAYCHANGE`. `display` is what each display shows,
`screens` what each window remembers. The DXGI factory behind `getColorInfo` is
`colors`. Enumerations and monitor descriptions are names.

### Accessibility, HostGeometry, TextRanges, SnapshotTree

`Accessibility` keeps, for each runtime that `enable` made, the snapshot pointer,
the notification ring with its pending invalidation, the action queue and the
native providers; publishers, clients and the owner are threads with a program
counter. `view` is the tree a client builds from the notifications it was told.

`HostGeometry` interleaves the single accesses of `publishGeometry` and
`readGeometry`: `sequence` is odd while the owner writes, `fields` says of each
atomic which geometry it belongs to, a reader gives up after `MaxAttempts`.

`TextRanges` is the fixed pool of range objects: `slot` has availability,
reference count, snapshot generation and the 64-bit bounds that every mover
replaces by compare-and-exchange; `holds` the references of each client; `given`
(history) the bounds the last successful mover installed. Texts are sequences of
unit offsets per generation.

`SnapshotTree` is sequential: the builder's calls, with nodes in any order and
with identifiers that are refused when they repeat, `validateSnapshot` and the
traversal that assigns each node an interval, compared with trees and descent
defined over the parent relation.

### Shell, drag and drop, clipboard

`ShellResources`: `ring` is the event queue that a tray icon, a notification
center and taskbar items borrow; each object has its portable and its shown
state. The shell fails, restarts (`TaskbarCreated`) and sends messages (`mail`).
`ShellRegistration` rewrites three key trees value by value (`call` holds the
writes to come and the backup); it may fail at each write, fail again while it
restores, or die. Restoring a tree deletes and copies it and may stop half-way
(`HalfRestored`): after the deletion, or with the key created and empty.
`DragDrop` has the slot array with its three intrusive lists
(`drops`), the OLE session of the drag, and the native registration in its
three homes. Any revocation may fail, the one in `WM_NCDESTROY` too: the native
record, its OLE reference and the list entry then stay without a window until a
close, a drain or the thread's exit succeeds or cuts them off. `Clipboard` has calls of several threads and programs: waiting for
the clipboard until a deadline, emptying, publishing format after format,
reading another program's data.

### TerminalScopes

One action per operation of `CursorHiddenScope`, which run under the output
mutex. A scope is inactive, active, `emitted` (its show sequence was written
and only a flush is owed) or dying (between the two halves of its destructor,
which take the mutex separately). The alternate screen is the same code with
another sequence. `author` records whether the scopes themselves left the cursor
as it is: the documentation asks programs not to mix scopes with direct
`setCursorVisible` calls.

### TerminalSession

`stack` holds, for each thread, its calls on Sessions: an operation, a nested
operation of a formatter, `open`, `close`, or a destructor, each with the step
it has reached. `gate`, `active` and `open` are the lifecycle state behind
`lifecycleMutex`; `holder` and `mode` the process-wide ownership and mode of
stdin; `saved` and `owed` what the Session has to restore. A direct read claims
stdin for its own duration. `setInputMode` that fails leaves the mode as it was;
reads are serialised by `inputOperationMutex` and what they return is in
`TerminalInput`. A Session is destroyed only when no call on it is under way, as
its documentation demands.

### TerminalInput and LineInput

`TerminalInput` carries bytes tagged with their endpoint and position:
`endpoint` is stdin, which a program may attach to another file between two
reads, `pending`, `batch` and `decoder` what the backend keeps between calls,
`call` and `result` the read. Time-outs and would-block results are outcomes of
waiting; a line's ending may be kept, stripped or normalised to one byte.
`LineInput` has the edited line with its grapheme boundaries (`edit`),
the echo's idea of the screen (`echo`) and the console itself (`screen`), whose
width a resize changes before the echo hears of it. Its buffer has a last row
and scrolls there, which changes every row number while the echo keeps its
origin: `shifted` notes that a distance was measured over such a scroll, after
which `LineIsTrue` no longer asks where the line stands (section 5). Scalars are of four kinds:
one cell, two cells, a joining mark, a tab.

### FileHandles, FileReplacement, DirectoryTree, Transfers

`FileHandles`: native file objects (`opens`), the handles of `FileReader`,
`FileWriter` and `File`, and `FileLock` objects with a duplicate of the handle.
`FileReplacement`: tasks with a plan of whole-file calls, each a sequence of
native steps that may fail, and a power failure that keeps an earlier directory
and loses unflushed bytes. An open may fail after it created its file; the empty
file stays behind, counted in `history.uncleaned` if it is a temporary one.
`DirectoryTree`: removal, creation and listing
component by component, while another program exchanges a directory for a link.
`Transfers`: whole-stream calls as loops over readers and writers that give
short counts, zero, errors and ends, with the incremental UTF-8 check, against
what they must deliver.

### GamepadInput and ActionMap

`GamepadInput`: XInput slots and HID pads with their hardware state, the registry
of device indices, the cached packets and the frame of levels and edges; focus
and clears in between. Losing the focus clears nothing: `pollEvents` clears on a
`WM_KILLFOCUS` it retrieves, which is a sent message and never retrieved. An
XInput pad and its HID twin are not merged. `ActionMap`: one frame's input, up to two bindings with
triggers, modifiers and modes, the states of `evaluate`, and the rebind capture.
Names, serialisation and mouse deltas are left out.

## 3. Runs

Several runs put components side by side that do not interact: a variable `part`
picks the component a behaviour exercises while the others keep their initial
state. Primed guards in the MC module (`FewBindings'` and the like) bound the
instance; each is commented with what it leaves out.

| run | configuration | properties | what it shows |
| --- | --- | --- | --- |
| `logger` | `MCLogger`, `Logger.cfg` | `RingIsSafe`, `StorageOutlivesUse`, `DeliveredInTicketOrder`, `NoLostWakeup`, `SinksAreTrue` | slots are never raced and a drawn ticket finds its slot free; ring storage outlives its users over two initialisations; records leave in ticket order; the worker never sleeps over a published head; sinks, health and reports are true under failing writes |
| `logger_calls` | `MCLoggerQueue`, `LoggerQueue.cfg` | `CallsCoverRecords`, `CallsReturn`, `TicketsAreDrained` | flush and shutdown return and cover what was submitted before them; no ticket stays behind a slot that is never filled |
| `desktop_services` | `MCDesktopServices`, `DesktopServices.cfg` | `OwnersStayUsable`, `ShellIsAccounted`, `ClipboardIsTrue`, `SurfacesAreTrue` | dialogs with native failures, foreign destructors and thread exit; shell objects over one queue; clipboard calls with every failure; surfaces without their parent |
| `windows` | `MCWindows`, `Windows.cfg` | `EventsAreFaithful`, `ControlsAgree`, `ImplementsQueue` | merging, eviction and drops keep what the consumer is promised; settings against native windows |
| `desktop_state` | `MCDesktopState`, `DesktopState.cfg` | `ActiveMaskIsCurrent`, `RendererSeesTheWindow`, `DesktopIsRestored`, `GeometryCoherent`, `TreesAreTrue`, `RangesAreShared`, `TreesAreExact`, `RegistrationIsAtomic`, `DefaultsNameAProgram`, `DragIsSound`, `GenerationsGrow` | what the desktop library publishes to renderers and accessibility clients; what it borrows and gives back: display modes, the user's registrations through failures and crashes, the native side of drop targets |
| `terminal_and_input` | `MCTerminalAndInput`, `TerminalAndInput.cfg` | `ScopesAreTrue`, `LeaseKeepsBinding`, `SessionIsConsistent`, `InputIsExact`, `LineIsTrue`, `PadsAreExact`, `ActionsAreExact` | nested scopes, Sessions that compete for stdin, reads over replaced endpoints, the line on the screen; frames of pads and bindings |
| `files` | `MCFiles`, `Files.cfg` | `LocksAreSound`, `ReplacementIsAtomic`, `TreeOperationsAreTrue`, `TransfersAreExact`, `CreateOnlyNeverReplaces` | locks backed and exclusive; replacement old or new through failure and crash; nothing outside the tree removed; bytes exactly once |
| `calls_finish` | `MCCallsFinish`, `CallsFinish.cfg` | `DestructionSettles`, `MutationsFinish` | deferred dialogs are freed and owners enabled again; Sessions' mutations finish although formatters call or close the Session they run in |
| `progress_foreign_read` | `MCProgressDialogs`, `ProgressDialogsForeignRead.cfg` | `DestructorReadsLiveData` (violated) | disagreement 1 |
| `terminal_session_racing_open` | `TerminalSession`, `TerminalSessionRacingOpen.cfg` | `LeaseKeepsBinding` (violated) | disagreement 2 |
| `fullscreen_colors` | `Fullscreen`, `FullscreenColors.cfg` | `ColorChangeIsAnnounced` (violated) | disagreement 3 |
| `registration_retry` | `ShellRegistration`, `RegistrationRetry.cfg` | `FailedCallIsRetryable` (violated) | disagreement 4 |

Deadlock is checked in every passing run but `calls_finish`, where a Session and a
dialog at rest may stay so. A part whose bounded counters are used up stutters
explicitly (`Rests`).

### Bounds

- `logger`: two producers are the smallest number that can overtake each other
  between reservation, ticket and publication. The ring has two slots with a
  soft limit of one and up to three records, so that the ring fills, the soft
  limit rejects, tickets wrap around and a batch of one leaves records behind;
  two initialisations are the smallest number in which a producer admitted by
  one can meet the storage of the next. `SizeMod = 8` is the width of the
  published counter, larger than any depth. The sinks are explored in three
  parts (`faults`, `filters`, `epochs`) because every fault with every filter
  change and reinitialisation is too much at once.
- `logger_calls`: a ring of one slot that wraps on the second record, and both
  lifecycle calls, which hold `lifecycleMutex`, so they never overlap. TLC cannot
  use symmetry with liveness; `FirstLogs` names the producer that logs first.
- `desktop_services`: two dialogs share one owner, so that one's restoration meets
  the other's blocking; two native failures allow a failed close and a failed
  retry. Three shell events over a queue of two slots drop one. Two clipboard
  callers, of which one has a single item (`FewItems`). Two surfaces, the second
  with a restricted history (`FewSurfaceEvents`), and one stray host at a time
  (`MaxStrays`).
- `windows`: three slots hold a durable entry between two coalescible ones;
  two values of a geometry and two scales tell stale from current;
  `MaxSequence = 4` lets entries be inserted after the ring was full;
  `MaxDropped` bounds the drop counter. The geometry kinds differ only in the
  order they are emitted, so one stands for all. Three windows for the owner
  relation, otherwise two; one failure outstanding of each kind (`FewControls`).
- `desktop_state`: four generations with saturation and four changes of epoch,
  enough for a resize and its undoing around both phases of a publication; two
  readers with two fields and two attempts; a notification ring of two, three snapshots, so that an event
  queued by the second is delivered when the third already hides its node
  (`ThirdIsLast`), and one client, whose actions begin while one snapshot is
  published (`FewPublications`); one range shared by two
  clients; trees of three nodes (`FewShapes`): text and focus in trees of two, a
  child named twice in trees of two, one node of three with several children, the
  identifiers of three nodes rising or falling; one window on two displays, one
  of which goes (`ModesApart` keeps color changes and torn windows out of the
  fullscreen stages); two
  registration calls on one target, the first of which may fail to restore
  (`OneTarget`, `LostOnce`); three drop slots and two sessions.
- `terminal_and_input`: three free scopes and a Session's with a depth limit of three, one
  short of them; two Sessions and two threads with a nesting of two, of which one
  at a time nests (`NestedApart`); three bytes or records over two endpoints, one
  of them after a replacement (`OneOfReplaced`); a console of three or four
  columns whose buffer has two rows, so that it scrolls, or twenty, so that it does
  not; four bytes of line, one resize; one XInput and one HID pad, two
  packets, two clears (`ShortFrames`); two bindings of one action (`FewBindings`).
- `files`: two handles, two locks, three file objects, the third only without the
  spare lock (`FewOpens`); two tasks with the plans of `MCPlans`, among them empty writes, and two temporary
  names so that one collides; a tree of eight nodes with one swap, where two of
  the three operations overlap (`FewOperations`); streams of three bytes with
  limits below, at and above them.
- `calls_finish`: one Session, because closes of two Sessions cannot wait for each
  other, since only the one that owns stdin can be open.

### Fairness

- Logger: weak fairness of each producer inside a call, of the worker and of the
  lifecycle call under way. The operating system runs every runnable thread.
  Nobody has to log or to call anything, a flush need not time out, and a flush
  is only promised to return when producers stop adding records
  (`docs/threading_performance.md`): the bound `MaxLogs` makes them.
- Progress dialogs: weak fairness of the owner thread inside a handler, strong
  fairness of pumping, because `ProgressDialog::open` asks its caller to keep
  pumping and other handlers run in between, weak fairness of a foreign
  destructor under way.
- Terminal session: weak fairness of each thread inside a call, and strong
  fairness of the end of an operation at each nesting level: a formatter may make
  further calls but makes finitely many.

## 4. Proofs

Each proof module follows the same plan. An inductive invariant is stated as a
conjunction of named parts; TLC checks the parts on the run's instance first;
one lemma per action shows that the action keeps the invariant; a theorem
`Spec => []Inv` follows, and the properties the runs check are consequences. All
theorems hold for every value of the constants that satisfies the module's
`ASSUME`, so for any number of threads, tasks, objects, slots and any limits. TLC
evaluates the assumptions on every run.

**`LoggerQueueProofs`: `QueueInv`.** The types, and: the producer counter counts
the producers between enter and leave; the depth counts reservations, tickets in
flight and the slot being released; tickets being filled are distinct and in the
window; each slot's sequence number tells what its ticket waits for; the
lifecycle, the worker and `workerRunning` agree; and storage exists exactly while
somebody may be past admission. Slot exclusivity alone is not inductive: it
follows from the depth never exceeding the ring, which follows from counting,
which needs admission to be closed whenever storage is reset. From it:
`SlotsAreExclusive`, `TicketsFindFreeSlots`, `RingIsAlwaysSafe`, `StorageIsHeld`.

**`LoggerDeliveryProofs`: `DeliveryInv` on top of `QueueInv`.** A slot holds the
record of its ticket; a ticket is submitted, lost or still in the ring, and counted
once; what the worker has handed on, followed by its batch, begins the sequence
of due records in ticket order; a flush marks a ticket that was drawn. From it:
`RecordsAreDelivered`, `CallsCover`. `WakeupsAreNotLost` needs `QueueInv` only.

**`DesktopProofs`, renderer: `MaskInv`.** It adds to "an active mask is current" what
makes the generation check sufficient (`TargetInv`): a pending target is newer
than every accepted one, belongs to this extent, and is the worker's only if
nothing made the drawing stale. `SidecarInv` adds that a closed window has no
provider. From them: `MasksAreCurrent`, `GenerationsOnlyGrow` (an action
property), `PublicationIsExact`, `OcclusionIsAnnounced`,
`RendererAlwaysSeesTheWindow`.

**`AccessibilityProofs`, geometry: `GeometryInv`.** At rest the counter is twice
the version and every field is of that version; while the owner writes the
counter is odd and the fields before `next` are the new ones; a reader whose
counter has not moved since has seen one version only. `GeometryIsCoherent`
follows although readers and writer share no lock.

**`AccessibilityProofs`, text ranges: `RangeInv`.** The reference count of an
object is the number of its holders, a held object is within its own text and
where its last successful mover left it, an object on its way back to the pool
has no holder and one client returning it, and a client about to exchange the
bounds holds the range. That a range stays inside its text needs facts about the
texts (`TextAssumption`: units are sorted offsets that contain both ends).
`RangesStayShared` follows.

**`ProgressDialogsProofs`: `ProgressInv`.** Each part is what one side relies on of
another:

- `DialogsSound` (one `RecordSound` per dialog): native data belongs to a state that
  is held or deferred; a live window has its data and a class reference, and a
  window without data a reference left to process teardown; a restoration is owed
  by a dialog that no longer blocks; before thread exit a state without native data
  has nothing left to clean; a foreign destructor finds its state as it left it;
- `NativeLists`: the registry and the chain of restorations hold each dialog at most
  once, and lead to native data;
- `CleanupLists`: the deferred chain and the one that was taken from it hold deferred
  states, none twice and none in both;
- `ThreadSound`: what the owner thread holds in the middle of a handler, in
  particular that nothing is deferred to a dispatcher that is leaving;
- `ClassCounted`: `classUsers` is the number of dialogs holding a reference plus
  those left to teardown.

That a registered dialog's state is alive is not inductive by itself: the state is
freed when its native data is gone, so the lists must lead to native data, and that
data is gone from a list only because each return of `finalizeNative` unlinks what
it closes. The returns are summed up by two lemmas, `Keeps` (something is retained)
and `Closes` (everything is gone); `AfterKept` and `AfterClosed` carry them to the
invariant for every caller: close, destructor, roll-back, loss of the owner,
pruning and thread exit. That the owner stays disabled follows from `RestoredSafely`:
the code enables it only after it found no other blocking dialog in the registry.
From the invariant: `OwnersAreUsable`.

**`DesktopProofs`, registration: `RegistrationInv`.** It speaks of the registry as it
is and of every state a call has still to write:

- `RegistrySound`: a default of an application comes with its owner key, only
  extensions have alternatives, an absent application supports no type;
- `StageSound`: between two writes the registry differs from what the call found
  only in the call's own program, target and application; a target that somebody
  else holds keeps its owner and default, any other stays free for its owner;
- `CallSound`: all writes still to come are such states, and the last write of an
  unregistration leaves nothing of the registration (`AllGone`); a roll-back has
  put back the trees it has passed, unless a restore failed; a call that ended
  badly without such a failure left the registry as it found it;
- the call that a process death interrupted stopped in a `StageSound` state, or in
  its roll-back with a tree half restored.

`RegistrationIsAtomic` alone is not inductive: it speaks of ends and crashes and
says nothing of the writes in between. There is one lemma for each list of writes,
`Joined` chains the lists, and `TreeBack` and `AllBack` carry the roll-back. From
the invariant: `RegistrationsAreAtomic`.

**`TerminalProofs`, scopes: `ScopeInv`**, assuming `~DestructorFlushFails` (section
5). It needs `DyingIsOther`: while a destructor sits between its failed restore
and its release, its depth keeps every other scope from being the outermost, so
the scopes have emitted nothing since. From it: `DepthIsExact`,
`CursorFollowsScopes`, `ScopesAreAlwaysTrue`.

**`TerminalProofs`, Sessions: `SessionInv`.** The stacks of calls have their shapes
(only a formatter has calls above it, one mutation of a Session is past its
first wait); the lease counter counts the frames that hold a lease; a leased
Session is open and its gate is not held; and for each stage a call can be in,
what it knows of gate, owner, mode and owed output. `InputFollowsOwner` holds for
every program. `LeasesKeepBinding` and `SessionsAreConsistent` assume
`OpensAlone`, since without it the code really breaks them (disagreement 2).

**`FileHandlesProofs`: `FileInv`.** The counter of a file object is the number of
its active lock objects, and the native locks are as many, or one more after an
unlock failed; an object that is gone left nothing; an object still truncating
has no lock; an exclusive native lock is alone on its object unless the object
took a shared and an exclusive lock itself, and keeps the locks of every other
object out; an exclusive lock object has it. Most steps are quiet (`QuietStep`):
they change positions, states and contents but no lock, so one lemma covers
opens, reads, writes, seeks and resizes, and the lock steps are proved one by
one. `LockObjectsAreSound` follows.

**`FileReplacementProofs`: `ReplaceInv`.** The directory is kept as all the states a
power failure may bring back, and the invariant speaks of every one of them:

- `TemporaryIsOwn`: the temporary file of a call is in the directory under the
  call's name, and was the destination or the source at no moment;
- `TemporaryIsWhole`: it has all bytes before it is flushed, and is on the disk
  before it is closed, if the call asks for that;
- `CopyIsExact`, `InPlaceIsOpen`: a copy has its destination for itself and has
  written as many bytes as it counted;
- `Apart`: two calls never meet in a temporary file, nor in the destination of a
  copy;
- `EveryMomentIsWhole`: what only atomic calls put in place is whole, and on the
  disk if the calls flush, at every moment since the last flush of the directory;
- `TemporariesAreKnown`: a temporary file belongs to a call that knows it, or its
  removal or its own open failed and it is counted among those left behind.

That the destination is whole *now* is not inductive: a crash may restore any
earlier directory, so the property must be carried for all of them, and a file
is only safe to put in place because nobody else can have it open, which is
`Apart`. From the invariant: `AtomicReplacement` and `CreateOnlyIsKept`, the action
property that a create-only call never replaces a file that appeared after it
looked.

### What is only model-checked

- Liveness (`CallsReturn`, `TicketsAreDrained`, `DestructionSettles`,
  `MutationsFinish`): it needs fairness and ENABLED, which the prover does not
  handle.
- `ImplementsQueue` and `EventsAreFaithful`: replaying a queue of events is a fold
  over its entries, and reasoning about it is induction over data.
- Properties of recursive or folded data for the same reason: `TreesAreExact`,
  `TreesAreTrue`, `LineIsTrue`, `InputIsExact`, `TransfersAreExact`,
  `TreeOperationsAreTrue`, `DragIsSound`, `SurfacesAreTrue`.
- `ShellIsAccounted`, `ClipboardIsTrue`, `DesktopIsRestored`, `ControlsAgree`,
  `DefaultsNameAProgram`, `PadsAreExact`, `ActionsAreExact`, `SinksAreTrue`: within reach of the prover, not proved; their
  instances are explored completely by the runs.

## 5. Disagreements between code and documentation

1. `progress_foreign_read`. A comment in `~Dispatcher`
   (`engine/desktop/platform/win32/win32_window.cpp:661`) says that a concurrent
   destructor on another thread "either transfers before this point or waits".
   `deferProgressCleanupToOwner` (line 1352) tests `state->platform` and reads the
   owner's thread id through it before it takes `dispatcherRegistryMutex`, so the
   exiting thread can release that data in between.
2. `terminal_session_racing_open`. `foundation/terminal/docs/read_write.md:40`
   says each call holds a lease for its whole lifetime. A call that finds the
   Session closed takes none (`session.cpp:632`), and reads the open flag again
   after unlocking; an `open` that completes in between lets it run without a
   lease. The passing runs set `OpensAlone`: the program does not call `open`
   concurrently with other calls on the same Session.
3. `fullscreen_colors`. `engine/desktop/docs/fullscreen_and_monitors.md:48` says
   that color changes surface as display-configuration events. `getColorInfo`
   marks the query and then creates the DXGI factory through a function that
   clears the mark (`win32_monitor.cpp:98`), so after a first query no color change
   is announced.
4. `registration_retry`. `engine/desktop/docs/shell.md:191` says of registration
   that "the operation is transactional and retryable". The application's key is
   created (`win32_shell.cpp:1933`) before its owner is written (line 1947). A
   process that dies in between leaves a key without an owner, which every later
   registration refuses as somebody else's. `RegistrationIsAtomic` promises that
   for the target only: a crash leaves it to its owner.

Three constants mark assumptions of some runs; with the other value TLC shows
what happens without them.

- `RollbackFaults`: the roll-back of `Window::close` enables the owner with one
  call. If that fails too nothing is queued: the Window stays disabled with no
  dialog left. `desktop_services` allows it, `calls_finish` does not, since
  `DestructionSettles` then fails.
- `DestructorFlushFails`: a destructor whose restore wrote the show sequence and
  then failed to flush releases its depth twice (`terminal.cpp:1330`); a scope
  created between the two halves loses its depth and never shows the cursor.
- `OpensAlone`, see disagreement 2.

Corners that the modules reproduce and no property speaks of:

- `session.cpp:1589`: after `setCursorVisible(true)` wrote its sequence but failed
  to flush, `setCursorVisible(false)` takes the cursor for hidden;
- `win32_terminal.cpp:1628`: a read may return nothing without an error after it
  cut an incomplete text; `2675`: a limit between a carriage return and its line
  feed returns the carriage return with the text; `2688`: a carriage return given
  out at a time-out makes an extra empty line when its line feed follows; `2712`:
  stdin replaced during a read mixes the two endpoints;
- `win32_shell.cpp:1647`: a roll-back deletes the program before it restores the
  target, so that a process that dies in between, or whose second restore fails,
  leaves a default that names a program which is gone (`DefaultsNameAProgram`
  excepts calls that roll back); a target taken from somebody else is lost when
  its restore is cut short (`RegistrationIsAtomic` excepts `lost` calls);
- `win32_window_manager.cpp:275`: keys and buttons held when the focus goes stay
  held, since the clear waits for a message `PeekMessageW` never returns;
- `line_input.cpp:321`, `439`: at the last row of its buffer a console scrolls the
  buffer itself. `LineEcho::append` goes on measuring text that is not ASCII from
  the old `origin_`, and a redraw measures and rewrites from an origin its own text
  may have scrolled away, so that the next redraw writes the line in the wrong
  place; `read_write.md:149` says that "scrolling does not invalidate its anchor".
  `ScreenShowsLine` asks nothing more once `echo.shifted` notes such a distance;
  `787`: a resize that waits behind keys is heard of late;
- `logger_reports.cpp:373`: text without its line end when the append throws
  between them; `904`: a report counts debug output as delivered that another
  thread has just disabled; `941`: a direct write that failed is noted in a later
  initialisation;
- `action_map.inl:170`: under `PrimaryLast` a release, press and release in one
  frame reset a hold that had fired;
- `win32_filesystem.cpp:1712`: a file object that takes a shared and an exclusive
  lock releases the exclusive one first, whichever is unlocked (`mixed` in
  `FileHandles`); `2681`: a failed resize has moved the position;
- `win32_input.cpp:2139`: an unplugged XInput slot is marked disconnected under
  the index that equals its number, which may be another device's;
- `win32_controls.cpp:275`: the roll-back of a failed opacity change loses the alpha
  value; `win32_operations.cpp:421`: a failure after the native size was changed
  leaves it changed;
- `win32_mode.cpp:583`: a display that is unplugged and plugged in again before
  the next pump; `troubleshooting.md:123`: two exclusive fullscreen windows on one
  display.

## 6. Plan

What the project would add next, most important first.

1. Proofs of the invariants listed above as within reach, first `ShellIsAccounted`
   and `DesktopIsRestored`.
2. The step-by-step refinement of `EventQueueSpec` for a ring whose coalescing is
   restated without a fold.
3. Modal dialogs (`win32_dialogs.cpp`) and the foreign destruction of a whole
   Window.
4. Child processes of the test support with reader thread, cancellation and
   time-out.
5. Unicode segmentation as functions over small alphabets.

## 7. Not modelled

Thin translations to single native calls (jump-list items, OLE data objects,
message boxes, file pickers) have no state of their own beyond the call.
Generated Unicode tables are data. Text assembly, formatting and styles do not
take part in any property. Assertions report once and end the process. Test
support, the game runtime, scripts and build files are not part of the modelled
program. A Window destroyed as a whole on a foreign thread is modelled for
dialogs and surfaces only.
