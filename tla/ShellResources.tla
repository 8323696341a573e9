--------------------------- MODULE ShellResources ---------------------------
(***************************************************************************)
(* The shell resources of one thread: the event queue they borrow, taskbar *)
(* items bound to a Window, a tray icon and a notification center, and the *)
(* native shell they publish to, which fails, restarts and answers with    *)
(* messages. All of it runs on the owner thread; a message is handled when *)
(* the thread pumps. What is shown (icons, texts, buttons) is a value.     *)
(***************************************************************************)
EXTENDS Integers, FiniteSets

CONSTANTS Items,          \* TaskbarItem objects
          Shown,          \* what a part of a presentation can be
          Blank,          \* the cleared presentation
          Unfit,          \* a description that validation refuses: nothing of it is copied
          QueueSlots,     \* slots of the queue
          MaxEvents,      \* bound: events published while a queue is open
          MaxNotices,     \* bound: notification identities
          MaxMail         \* bound: native messages on their way

ASSUME ShellAssumption == {QueueSlots, MaxEvents, MaxNotices, MaxMail} \subseteq Nat \ {0} /\ {Blank, Unfit} \cap Shown = {} /\ Blank # Unfit

VARIABLES ring,      \* ShellEventQueueState
          host,      \* the Window: alive, and the item it points to
          item,      \* TaskbarItemState of each item
          button,    \* the taskbar button of the Window, as the shell shows it
          trayIcon,  \* TrayIconState and TrayNative
          trayShown, \* what the shell shows of it
          center,    \* NotificationCenterState
          balloons,  \* the notifications the shell has
          jump,      \* the jump list, the one being built, and the recent items
          mail       \* messages the shell has sent to the tray and notification windows

shellVars == <<ring, host, item, button, trayIcon, trayShown, center, balloons, jump, mail>>

Parts == {"buttons", "progress", "overlay"}
Content == Shown \cup {Blank}
NoItem == "none"

-----------------------------------------------------------------------------
(* The event queue *)

ClosedRing == [open |-> FALSE, slots |-> [i \in 0 .. QueueSlots - 1 |-> 0], head |-> 0, count |-> 0,
               next |-> 1, dropped |-> 0, bound |-> 0]

Slot(q, i) == (q.head + i) % QueueSlots

\* Mutation: an event that does not fit takes its number along.
Published_NumbersDropped(q) ==
  IF ~q.open THEN q
  ELSE IF q.count = QueueSlots THEN [q EXCEPT !.dropped = @ + 1, !.next = @ + 1]
  ELSE [q EXCEPT !.slots[Slot(q, q.count)] = q.next, !.next = @ + 1, !.count = @ + 1]

\* publishShellEvent: the newest event is dropped when the ring is full.
Published(q) ==
  IF ~q.open THEN q
  ELSE IF q.count = QueueSlots THEN [q EXCEPT !.dropped = @ + 1]
  ELSE [q EXCEPT !.slots[Slot(q, q.count)] = q.next, !.next = @ + 1, !.count = @ + 1]

\* Bound: how often events are published.
MayPublish == ring.next + ring.dropped <= MaxEvents

Bound(q) == [q EXCEPT !.bound = @ + 1]
Unbound(q) == [q EXCEPT !.bound = IF @ # 0 THEN @ - 1 ELSE 0]

\* Mutation: an open that fails keeps its binding.
OpenFailed_StaysBound(q) == Bound(q)

\* The binding of an open that the native side refuses is taken back.
OpenFailed(q) == Unbound(Bound(q))

ReleaseBinding(q, bound) == IF bound THEN Unbound(q) ELSE q

OpenQueue ==
  /\ ~ring.open
  /\ ring' = [ClosedRing EXCEPT !.open = TRUE]
  /\ UNCHANGED <<host, item, button, trayIcon, trayShown, center, balloons, jump, mail>>

\* A queue with a bound resource stays open.
CloseQueue ==
  /\ ring.open /\ ring.bound = 0
  /\ ring' = ClosedRing
  /\ UNCHANGED <<host, item, button, trayIcon, trayShown, center, balloons, jump, mail>>

PopEvent ==
  /\ ring.open /\ ring.count # 0
  /\ ring' = [ring EXCEPT !.slots[ring.head] = 0, !.head = (@ + 1) % QueueSlots, !.count = @ - 1]
  /\ UNCHANGED <<host, item, button, trayIcon, trayShown, center, balloons, jump, mail>>

PopEvents ==
  /\ ring.open /\ ring.count # 0
  /\ \E n \in 1 .. ring.count :
       ring' = [ring EXCEPT !.slots = [i \in 0 .. QueueSlots - 1 |->
                                         IF \E k \in 0 .. n - 1 : Slot(ring, k) = i THEN 0 ELSE @[i]],
                            !.head = (@ + n) % QueueSlots, !.count = @ - n]
  /\ UNCHANGED <<host, item, button, trayIcon, trayShown, center, balloons, jump, mail>>

ClearEvents ==
  /\ ring.open
  /\ ring' = [ring EXCEPT !.slots = ClosedRing.slots, !.head = 0, !.count = 0]
  /\ UNCHANGED <<host, item, button, trayIcon, trayShown, center, balloons, jump, mail>>

ClearDroppedEventCount ==
  /\ ring.open /\ ring.dropped # 0
  /\ ring' = [ring EXCEPT !.dropped = 0]
  /\ UNCHANGED <<host, item, button, trayIcon, trayShown, center, balloons, jump, mail>>

-----------------------------------------------------------------------------
(* Taskbar items *)

Plain == [p \in Parts |-> Blank]
NoTaskbar == [open |-> FALSE, exists |-> FALSE, bound |-> FALSE, native |-> FALSE, attached |-> FALSE, parts |-> Plain,
              torn |-> FALSE]

\* applyTaskbar: the buttons, then the progress, then the overlay; a failure leaves what was done before it.
Apply(shown, parts) ==
  LET first == [shown EXCEPT !["buttons"] = parts["buttons"]]
      second == [first EXCEPT !["progress"] = parts["progress"]]
  IN {[ok |-> FALSE, shown |-> shown], [ok |-> FALSE, shown |-> first], [ok |-> FALSE, shown |-> second],
      [ok |-> TRUE, shown |-> parts]}

\* Identities, labels, icons and fractions are checked before anything is replaced.
TaskbarAccepted(parts) == \A p \in Parts : parts[p] # Unfit

\* closeTaskbar: an overlay that was set is removed, progress and buttons stay with the button.
Withdrawn(shown) == [shown EXCEPT !["overlay"] = Blank]

\* TaskbarItem::open, with or without the queue; buttons need one.
OpenTaskbar(i, parts, bind) ==
  /\ ~item[i].exists /\ host.alive /\ host.item = NoItem /\ TaskbarAccepted(parts)
  /\ bind => ring.open
  /\ ~bind => parts["buttons"] = Blank
  /\ \E r \in Apply(button, parts) :
       IF r.ok
       THEN /\ item' = [item EXCEPT ![i] = [NoTaskbar EXCEPT !.open = TRUE, !.exists = TRUE, !.bound = bind,
                                                             !.native = TRUE, !.attached = TRUE, !.parts = parts]]
            /\ host' = [host EXCEPT !.item = i]
            /\ button' = r.shown
            /\ ring' = IF bind THEN Bound(ring) ELSE ring
       ELSE /\ UNCHANGED <<item, host>>
            /\ button' = r.shown
            /\ ring' = IF bind THEN OpenFailed(ring) ELSE ring
  /\ UNCHANGED <<trayIcon, trayShown, center, balloons, jump, mail>>

\* Mutation: what a failed update showed is not replaced.
Reapplied_Not(shown, parts) == {[ok |-> TRUE, shown |-> shown]}

\* The previous presentation is applied once more after a failure.
Reapplied(shown, parts) == Apply(shown, parts)

\* setProgress, setOverlayIcon, setThumbnailButtons.
UpdateTaskbar(i, part, value) ==
  LET new == [item[i].parts EXCEPT ![part] = value]
  IN /\ item[i].open /\ item[i].native /\ TaskbarAccepted(new)
     /\ part = "buttons" /\ value # Blank => item[i].bound
     /\ \E r \in Apply(button, new) :
          IF r.ok THEN /\ item' = [item EXCEPT ![i].parts = new, ![i].torn = FALSE]
                       /\ button' = r.shown
          ELSE \E again \in Reapplied(r.shown, item[i].parts) :
                 /\ item' = [item EXCEPT ![i].torn = ~again.ok]
                 /\ button' = again.shown
     /\ UNCHANGED <<ring, host, trayIcon, trayShown, center, balloons, jump, mail>>

\* TaskbarItem::close and the destructor on the owner thread.
CloseTaskbar(i) ==
  /\ item[i].exists
  /\ item' = [item EXCEPT ![i] = NoTaskbar]
  /\ host' = IF item[i].attached /\ host.item = i THEN [host EXCEPT !.item = NoItem] ELSE host
  /\ button' = IF item[i].native THEN Withdrawn(button) ELSE button
  /\ ring' = ReleaseBinding(ring, item[i].bound)
  /\ UNCHANGED <<trayIcon, trayShown, center, balloons, jump, mail>>

\* The Window is destroyed: notifyTaskbarWindowDestroyed cuts the item loose, which stays bound to its queue.
DestroyWindow ==
  /\ host.alive
  /\ host' = [alive |-> FALSE, item |-> NoItem]
  /\ item' = IF host.item = NoItem THEN item
             ELSE [item EXCEPT ![host.item] = [@ EXCEPT !.open = FALSE, !.native = FALSE, !.attached = FALSE, !.torn = FALSE]]
  /\ button' = Plain
  /\ UNCHANGED <<ring, trayIcon, trayShown, center, balloons, jump, mail>>

OpenWindow ==
  /\ ~host.alive
  /\ host' = [host EXCEPT !.alive = TRUE]
  /\ UNCHANGED <<ring, item, button, trayIcon, trayShown, center, balloons, jump, mail>>

\* routeTaskbarCommand: a thumbnail button of the attached item was clicked.
RouteTaskbarCommand ==
  /\ host.alive /\ host.item # NoItem
  /\ item[host.item].bound /\ item[host.item].open /\ item[host.item].parts["buttons"] # Blank
  /\ MayPublish
  /\ ring' = Published(ring)
  /\ UNCHANGED <<host, item, button, trayIcon, trayShown, center, balloons, jump, mail>>

-----------------------------------------------------------------------------
(* The tray icon *)

NoTray == [open |-> FALSE, bound |-> FALSE, icon |-> Blank, menu |-> Blank, menuPublished |-> FALSE, version4 |-> FALSE]

\* A menu whose commands are not unique, or whose items are inconsistent, is refused as a whole.
MenuAccepted(menu) == menu # Unfit

\* openTray: the icon is added; a menu needs the queue.
OpenTray(icon, menu, bind) ==
  /\ ~trayIcon.open /\ MenuAccepted(menu)
  /\ bind => ring.open
  /\ menu # Blank => bind
  /\ \/ \E version4 \in BOOLEAN :
          /\ trayIcon' = [open |-> TRUE, bound |-> bind, icon |-> icon, menu |-> menu, menuPublished |-> menu # Blank,
                          version4 |-> version4]
          /\ trayShown' = icon
          /\ ring' = IF bind THEN Bound(ring) ELSE ring
     \/ /\ ring' = IF bind THEN OpenFailed(ring) ELSE ring
        /\ UNCHANGED <<trayIcon, trayShown>>
  /\ UNCHANGED <<host, item, button, center, balloons, jump, mail>>

\* A passive icon takes a queue once, before its first menu.
BindEventQueue ==
  /\ trayIcon.open /\ ~trayIcon.bound /\ ~trayIcon.menuPublished /\ ring.open
  /\ trayIcon' = [trayIcon EXCEPT !.bound = TRUE]
  /\ ring' = Bound(ring)
  /\ UNCHANGED <<host, item, button, trayShown, center, balloons, jump, mail>>

\* setIcon and setTooltip: NIM_MODIFY of an icon the shell no longer has fails, and the old one is kept.
SetIcon(icon) ==
  /\ trayIcon.open /\ trayShown # Blank
  /\ trayIcon' = [trayIcon EXCEPT !.icon = icon]
  /\ trayShown' = icon
  /\ UNCHANGED <<ring, host, item, button, center, balloons, jump, mail>>

SetMenu(menu) ==
  /\ trayIcon.open /\ trayShown # Blank /\ MenuAccepted(menu) /\ (menu # Blank => trayIcon.bound)
  /\ trayIcon' = [trayIcon EXCEPT !.menu = menu, !.menuPublished = @ \/ menu # Blank]
  /\ trayShown' = trayIcon.icon
  /\ UNCHANGED <<ring, host, item, button, center, balloons, jump, mail>>

\* closeTray: the icon is deleted and the message window destroyed, its messages with it.
CloseTray ==
  /\ trayIcon.open
  /\ trayIcon' = NoTray /\ trayShown' = Blank
  /\ mail' = {m \in mail : m.to # "tray"}
  /\ ring' = ReleaseBinding(ring, trayIcon.bound)
  /\ UNCHANGED <<host, item, button, center, balloons, jump>>

-----------------------------------------------------------------------------
(* Notifications *)

NoCenter == [open |-> FALSE, bound |-> FALSE, notices |-> [n \in 1 .. MaxNotices |-> Blank], next |-> 1]

OpenCenter(bind) ==
  /\ ~center.open
  /\ bind => ring.open
  /\ \/ /\ center' = [NoCenter EXCEPT !.open = TRUE, !.bound = bind]
        /\ ring' = IF bind THEN Bound(ring) ELSE ring
     \/ /\ ring' = IF bind THEN OpenFailed(ring) ELSE ring
        /\ UNCHANGED center
  /\ UNCHANGED <<host, item, button, trayIcon, trayShown, balloons, jump, mail>>

\* Texts, actions and media are checked; what the Win32 balloon cannot show is unsupported.
NoticeAccepted(content) == content # Unfit

\* publish: the identity is spent whether or not the shell takes the notification; one that cannot be
\* remembered is dismissed again and counts as not taken.
PublishNotice(content) ==
  LET n == center.next
  IN /\ center.open /\ n <= MaxNotices /\ NoticeAccepted(content)
     /\ \/ /\ center' = [center EXCEPT !.next = @ + 1, !.notices[n] = content]
           /\ balloons' = [balloons EXCEPT ![n] = content]
        \/ /\ center' = [center EXCEPT !.next = @ + 1]
           /\ UNCHANGED balloons
     /\ UNCHANGED <<ring, host, item, button, trayIcon, trayShown, jump, mail>>

\* update: the previous description stays when the shell refuses the new one.
UpdateNotice(n, content) ==
  /\ center.open /\ center.notices[n] # Blank /\ balloons[n] # Blank /\ NoticeAccepted(content)
  /\ center' = [center EXCEPT !.notices[n] = content]
  /\ balloons' = [balloons EXCEPT ![n] = content]
  /\ UNCHANGED <<ring, host, item, button, trayIcon, trayShown, jump, mail>>

\* dismiss: a notification the shell no longer has counts as dismissed.
DismissNotice(n) ==
  /\ center.open /\ center.notices[n] # Blank
  /\ center' = [center EXCEPT !.notices[n] = Blank]
  /\ balloons' = [balloons EXCEPT ![n] = Blank]
  /\ UNCHANGED <<ring, host, item, button, trayIcon, trayShown, jump, mail>>

Withdraw(shown, notices) == [n \in DOMAIN shown |-> IF notices[n] # Blank THEN Blank ELSE shown[n]]

CloseCenter ==
  /\ center.open
  /\ center' = NoCenter
  /\ balloons' = Withdraw(balloons, center.notices)
  /\ mail' = {m \in mail : m.to # "center"}
  /\ ring' = ReleaseBinding(ring, center.bound)
  /\ UNCHANGED <<host, item, button, trayIcon, trayShown, jump>>

-----------------------------------------------------------------------------
(* Jump lists *)

\* JumpLists::publish: a new list is begun next to the one that is shown.
BeginJumpList(content) ==
  /\ jump.building = Blank /\ content # Unfit
  /\ jump' = [jump EXCEPT !.building = content]
  /\ UNCHANGED <<ring, host, item, button, trayIcon, trayShown, center, balloons, mail>>

\* A link or a category that cannot be added ends the transaction: the list is aborted.
AbortJumpList ==
  /\ jump.building # Blank
  /\ jump' = [jump EXCEPT !.building = Blank]
  /\ UNCHANGED <<ring, host, item, button, trayIcon, trayShown, center, balloons, mail>>

\* The list takes the place of the old one, then the recent items are added.
Committed(j) == [shown |-> j.building, building |-> Blank, recent |-> j.building]

CommitJumpList ==
  /\ jump.building # Blank
  /\ jump' = Committed(jump)
  /\ UNCHANGED <<ring, host, item, button, trayIcon, trayShown, center, balloons, mail>>

-----------------------------------------------------------------------------
(* The native shell and its messages *)

\* Explorer dies and comes back: its icons are gone and TaskbarCreated is broadcast.
ShellRestarts ==
  /\ Cardinality(mail) < MaxMail
  /\ trayShown' = Blank /\ balloons' = [n \in DOMAIN balloons |-> Blank]
  /\ button' = Plain
  /\ item' = [i \in Items |-> [item[i] EXCEPT !.torn = @ \/ item[i].native]]
  /\ mail' = IF trayIcon.open THEN mail \cup {[to |-> "tray", kind |-> "created"]} ELSE mail
  /\ UNCHANGED <<ring, host, trayIcon, center, jump>>

\* The user clicks the icon, opens its menu or clicks a balloon; a balloon expires.
UserActs ==
  /\ Cardinality(mail) < MaxMail
  /\ \/ trayShown # Blank /\ \E kind \in {"select", "menu"} : mail' = mail \cup {[to |-> "tray", kind |-> kind]}
     \/ (\E n \in DOMAIN balloons : balloons[n] # Blank) /\ mail' = mail \cup {[to |-> "center", kind |-> "balloon"]}
  /\ UNCHANGED <<ring, host, item, button, trayIcon, trayShown, center, balloons, jump>>

\* trayWindowProc: TaskbarCreated adds the icon again; selections and the menu become events.
TrayMessage(m) ==
  /\ m \in mail /\ m.to = "tray" /\ trayIcon.open
  /\ mail' = mail \ {m}
  /\ \/ /\ m.kind = "created"
        /\ \/ trayShown' = trayIcon.icon /\ \E v \in BOOLEAN : trayIcon' = [trayIcon EXCEPT !.version4 = v]
           \/ trayIcon' = [trayIcon EXCEPT !.version4 = FALSE] /\ UNCHANGED trayShown
        /\ UNCHANGED ring
     \/ /\ m.kind = "select" /\ MayPublish
        /\ ring' = IF trayIcon.bound THEN Published(ring) ELSE ring
        /\ UNCHANGED <<trayIcon, trayShown>>
     \/ /\ m.kind = "menu" /\ MayPublish
        /\ \E chosen \in BOOLEAN :
             ring' = IF ~trayIcon.bound THEN ring
                     ELSE IF chosen /\ trayIcon.menu # Blank THEN Published(Published(ring)) ELSE Published(ring)
        /\ UNCHANGED <<trayIcon, trayShown>>
  /\ UNCHANGED <<host, item, button, center, balloons, jump>>

\* notificationWindowProc: activation and expiry become events, the description is kept.
CenterMessage(m) ==
  /\ m \in mail /\ m.to = "center" /\ MayPublish
  /\ mail' = mail \ {m}
  /\ ring' = IF center.open /\ center.bound THEN Published(ring) ELSE ring
  /\ UNCHANGED <<host, item, button, trayIcon, trayShown, center, balloons, jump>>

ShellInit ==
  /\ ring = ClosedRing
  /\ host = [alive |-> TRUE, item |-> NoItem]
  /\ item = [i \in Items |-> NoTaskbar] /\ button = Plain
  /\ trayIcon = NoTray /\ trayShown = Blank
  /\ center = NoCenter /\ balloons = [n \in 1 .. MaxNotices |-> Blank]
  /\ jump = [shown |-> Blank, building |-> Blank, recent |-> Blank]
  /\ mail = {}

TaskbarNext ==
  \/ DestroyWindow \/ OpenWindow \/ RouteTaskbarCommand
  \/ \E i \in Items :
       \/ CloseTaskbar(i)
       \/ \E parts \in [Parts -> Content \cup {Unfit}], bind \in BOOLEAN : OpenTaskbar(i, parts, bind)
       \/ \E part \in Parts, value \in Content \cup {Unfit} : UpdateTaskbar(i, part, value)

TrayNext ==
  \/ BindEventQueue \/ CloseTray
  \/ \E icon \in Shown : SetIcon(icon) \/ (\E menu \in Content \cup {Unfit}, bind \in BOOLEAN : OpenTray(icon, menu, bind))
  \/ \E menu \in Content \cup {Unfit} : SetMenu(menu)
  \/ \E m \in mail : TrayMessage(m)

CenterNext ==
  \/ CloseCenter \/ UserActs
  \/ \E bind \in BOOLEAN : OpenCenter(bind)
  \/ \E content \in Shown \cup {Unfit} : PublishNotice(content)
  \/ \E n \in 1 .. MaxNotices : DismissNotice(n) \/ (\E content \in Shown \cup {Unfit} : UpdateNotice(n, content))
  \/ \E m \in mail : CenterMessage(m)

QueueNext == ShellRestarts \/ OpenQueue \/ CloseQueue \/ PopEvent \/ PopEvents \/ ClearEvents \/ ClearDroppedEventCount

JumpNext == AbortJumpList \/ CommitJumpList \/ \E content \in Shown \cup {Unfit} : BeginJumpList(content)

ShellNext == JumpNext \/ QueueNext \/ TaskbarNext \/ TrayNext \/ CenterNext

ShellSpec == ShellInit /\ [][ShellNext]_shellVars

-----------------------------------------------------------------------------
(* Properties *)

\* The queue counts exactly the resources that point to it, through opens that fail, Windows that die under
\* their item and late bindings: it can be closed when the last one lets go, and never while one publishes
\* into it (shell.cpp, lines 140-178).
BindingsCounted ==
  /\ ring.bound = Cardinality({i \in Items : item[i].bound}) + (IF trayIcon.bound THEN 1 ELSE 0)
                  + (IF center.bound THEN 1 ELSE 0)
  /\ (trayIcon.bound \/ center.bound \/ \E i \in Items : item[i].bound) => ring.open
  /\ \A i \in Items : (item[i].attached <=> host.item = i) /\ (item[i].native => item[i].attached)

\* Retained events carry consecutive numbers up to the last one handed out, whatever was popped, cleared or
\* dropped in between (shell.cpp, lines 1715-1740 and 1853-1924).
ShellEventsInOrder ==
  ring.open => \A i \in 0 .. ring.count - 1 : ring.slots[Slot(ring, i)] = ring.next - ring.count + i

\* An update of a taskbar item that failed leaves the button with the presentation the item still holds,
\* unless the shell refused that one, too, or forgot it in a restart; and nothing the center published
\* outlives it (shell.cpp, lines 817-935 and 1349-1370).
ShownIsHeld ==
  /\ \A i \in Items : item[i].native /\ ~item[i].torn => button = item[i].parts
  /\ \A n \in 1 .. MaxNotices : balloons[n] # Blank => center.notices[n] = balloons[n]

\* The shell's shared resources: as many bindings as open objects, events in the
\* order they happened, and nothing shown that no object holds.
ShellIsAccounted == BindingsCounted /\ ShellEventsInOrder /\ ShownIsHeld
=============================================================================
