------------------------------ MODULE LineInput ------------------------------
(***************************************************************************)
(* Detail::managedTerminalLineRead: the line a console user edits, the     *)
(* cached grapheme boundaries its caret moves by, and the echo that keeps  *)
(* the screen in step with the line by appending, erasing one cell or      *)
(* redrawing.  The screen is a row of cells folded at its width, as the    *)
(* console folds it; a resize folds the same cells at another width, and   *)
(* text that runs out of the screen buffer scrolls it.  The echo turns     *)
(* screen positions into distances with the size it last heard of, which a *)
(* resize still waiting in the event queue makes stale.                    *)
(*                                                                         *)
(* A scalar is "a" (printable ASCII), "w" (a wide character of two cells), *)
(* "m" (a mark that joins the grapheme before it) or "t" (a tab).          *)
(***************************************************************************)
EXTENDS Integers, Sequences, FiniteSets, SequencesExt

CONSTANTS Widths,        \* columns the console can have
          Rows,          \* rows the screen buffer can have
          Starts,        \* cells the cursor can stand on when the read begins
          TabStop,       \* cells between tab stops
          MaxBytes,      \* LineOptions::maxReturnedBytes
          Typed,         \* scalars the keyboard produces
          Pastes,        \* pasted texts; "x" is an undecodable byte
          MaxRepeat,     \* bound: largest repeatCount
          MaxResizes     \* bound: resizes of the console

ASSUME LineInputAssumption ==
  /\ Widths \subseteq Nat \ {0, 1} /\ Widths # {} /\ Starts \subseteq Nat /\ Rows \subseteq Nat \ {0}
  /\ TabStop \in Nat \ {0} /\ MaxBytes \in Nat
  /\ Typed \subseteq {"a", "w", "m"}
  /\ MaxRepeat \in Nat \ {0} /\ MaxResizes \in Nat

VARIABLES edit,      \* line, caret (scalars before it), graphemes index, wasTruncated
          echo,      \* LineEcho: enabled, size, origin, rendered and caret cells; history: it measured over a scroll
          screen,    \* cells, cursor, width and rows of the console; history: rows lost since the origin was set
          reading,   \* "begin", "reading" or how the read ended
          queued,    \* a resize happened whose event has not been read
          torn,      \* history: a key was handled while a resize was waiting
          resizes    \* resizes so far

lineVars == <<edit, echo, screen, reading, queued, torn, resizes>>

NoIndex == {-1}
Bytes(x) == CASE x = "w" -> 3 [] x = "m" -> 2 [] OTHER -> 1
Size(text) == FoldLeft(LAMBDA n, x : n + Bytes(x), 0, text)

\* Unicode::Utf8 grapheme boundaries: a mark joins what precedes it, except a control character.
Boundaries(line) ==
  {0, Len(line)} \cup {i \in 1..(Len(line) - 1) : line[i + 1] # "m" \/ line[i] = "t"}

-----------------------------------------------------------------------------
(* The console: what writing text does to the cells and to the cursor.     *)

LastCell == Max(Starts) + Max(Widths) + TabStop * (MaxBytes + 2)
Blank == [c \in 0..LastCell |-> " "]

\* The cursor has left the last row: the buffer loses its first rows.
Scrolled(s) ==
  LET over == Max({0, s.cursor \div s.width - s.rows + 1})
      shift == over * s.width
  IN  [s EXCEPT !.cursor = @ - shift, !.lost = @ + over,
                !.cells = [c \in DOMAIN @ |-> IF c + shift \in DOMAIN @ THEN @[c + shift] ELSE " "]]

\* One scalar: a wide character that does not fit in the row leaves a blank cell behind.
Put(s, x) ==
  LET column == s.cursor % s.width
      skip == IF x = "w" /\ column = s.width - 1 THEN 1 ELSE 0
      cells == CASE x \in {"a", " "} -> <<x>>
                 [] x = "w" -> [i \in 1..(skip + 2) |-> IF i <= skip THEN " " ELSE "w"]
                 [] x = "t" -> [i \in 1..(TabStop - (column % TabStop)) |-> " "]
                 [] x = "m" -> <<>>
  IN  Scrolled([s EXCEPT !.cursor = @ + Len(cells),
                         !.cells = [c \in DOMAIN @ |->
                                      IF c >= s.cursor /\ c < s.cursor + Len(cells) THEN cells[c - s.cursor + 1]
                                      ELSE @[c]]])

\* writeText
Write(s, text) == FoldLeft(Put, s, text)
Spaces(n) == [i \in 1..n |-> " "]

\* getLineRenderingCursorPosition: the column and the row in the screen buffer
CursorPosition(s) == [column |-> s.cursor % s.width, row |-> s.cursor \div s.width]

\* The linear cell number positionBefore and cellDistance count with, at the echo's own width;
\* -1 where the column lies outside that width.
QueryRenderingPosition(s, columns) ==
  LET position == CursorPosition(s)
  IN  IF position.column >= columns THEN -1 ELSE position.row * columns + position.column

\* setLineRenderingCursorPosition of a position counted at the echo's width
InBuffer(s, columns, cell) == cell % columns < s.width
SetRenderingPosition(s, columns, cell) ==
  [s EXCEPT !.cursor = (cell \div columns) * s.width + (cell % columns)]

\* The rows that are lost are counted from here on: the origin is set.
Anchored(s) == [s EXCEPT !.lost = 0]

-----------------------------------------------------------------------------
(* LineEcho.  Each operation gives the outcome, the echo and the screen.   *)

Done(e, s) == [outcome |-> "ok", echo |-> e, screen |-> s]
Undone(outcome) == [outcome |-> outcome, echo |-> echo, screen |-> screen]

\* append: printable ASCII is counted, anything else is measured from the origin, wherever the text has scrolled to.
Append_(e, s, text) ==
  LET written == Write(s, text)
      here == QueryRenderingPosition(written, e.size)
      simple == \A i \in DOMAIN text : text[i] = "a"
      cells == IF simple THEN e.rendered + Len(text) ELSE here - e.origin
  IN  IF ~e.on \/ text = <<>> THEN Done(e, s)
      ELSE IF ~simple /\ (here = -1 \/ here < e.origin) THEN Undone("unsupported")
      ELSE Done([e EXCEPT !.rendered = cells, !.caret = cells,
                          !.shifted = @ \/ (~simple /\ written.lost > 0)], written)

\* eraseTrailingAsciiCell
EraseTrailingAsciiCell(e, s) ==
  LET here == QueryRenderingPosition(s, e.size)
      back == IF s.cursor % s.width > 0 THEN here - 1 ELSE (s.cursor \div s.width) * e.size - 1
      moved == SetRenderingPosition(s, e.size, back)
      blanked == SetRenderingPosition(Write(moved, <<" ">>), e.size, back)
  IN  IF ~e.on THEN Done(e, s)
      ELSE IF here = -1 \/ e.caret > here \/ back < 0 THEN Undone("unsupported")
      ELSE IF ~InBuffer(s, e.size, back) THEN Undone("failed")
      ELSE Done([e EXCEPT !.origin = here - e.caret, !.rendered = @ - 1, !.caret = @ - 1], Anchored(blanked))

\* Mutant: what a shorter line no longer covers stays on the screen.
Covered_KeepsTail(drawn, over) == drawn

\* redraw: the line is written over what was shown, blanks cover what was longer, ...
Covered(drawn, over) == IF over > 0 THEN Write(drawn, Spaces(over)) ELSE drawn

\* ... and the text before the caret is written again.
Placed(e, drawn, end, origin, line, caret) ==
  Write(SetRenderingPosition(Covered(drawn, e.rendered - (end - origin)), e.size, origin), SubSeq(line, 1, caret))

Redrawn(e, origin, end, placed, at, caret) ==
  IF end < origin \/ at < origin THEN Undone("unsupported")
  ELSE Done([e EXCEPT !.origin = origin, !.rendered = end - origin,
                      !.caret = IF caret > 0 THEN at - origin ELSE 0,
                      !.shifted = @ \/ placed.lost > 0], placed)

DrawnFrom(e, s, origin, line, caret) ==
  LET drawn == Write(Anchored(SetRenderingPosition(s, e.size, origin)), line)
      end == QueryRenderingPosition(drawn, e.size)
      placed == Placed(e, drawn, end, origin, line, caret)
  IN  Redrawn(e, origin, end, placed, QueryRenderingPosition(placed, e.size), caret)

\* redraw: the origin is counted back from the live cursor.
Redraw(e, s, line, caret) ==
  LET here == QueryRenderingPosition(s, e.size)
      origin == here - e.caret
  IN  IF ~e.on THEN Done(e, s)
      ELSE IF here = -1 \/ origin < 0 THEN Undone("unsupported")
      ELSE IF ~InBuffer(s, e.size, origin) THEN Undone("failed")
      ELSE DrawnFrom(e, s, origin, line, caret)

\* finish
Finish(e, s, line, caret) ==
  IF e.on /\ caret # Len(line) THEN Redraw(e, s, line, Len(line)) ELSE Done(e, s)

-----------------------------------------------------------------------------
(* GraphemeIndex and the edits of the line                                 *)

\* ensure: the index is built when it is not ready.
Ensured(d) == IF d.index = NoIndex THEN [d EXCEPT !.index = Boundaries(d.line)] ELSE d
Invalidated(d) == [d EXCEPT !.index = NoIndex]
\* retainThroughCurrent
Retained(d) == [d EXCEPT !.index = {i \in @ : i <= d.caret}]

\* previous and next: -1 at the end of the text; -2 when the caret is no boundary of the index.
Previous(d) ==
  LET below == {i \in d.index : i < d.caret}
  IN  IF d.caret \notin d.index THEN -2 ELSE IF below = {} THEN -1 ELSE Max(below)
Next_(d) ==
  LET above == {i \in d.index : i > d.caret}
  IN  IF d.caret \notin d.index THEN -2 ELSE IF above = {} THEN -1 ELSE Min(above)

\* Mutant: the caret stays where the edit left it.
Normalized_Stays(d) == Ensured(d)

\* normalizeCaret: a caret that an edit left inside a grapheme moves behind it.
Normalized(d) ==
  LET e == Ensured(d)
  IN  [e EXCEPT !.caret = Min({i \in Boundaries(e.line) : i >= e.caret})]

Spliced(d, text) ==
  LET atEnd == d.caret = Len(d.line)
      longer == Invalidated([d EXCEPT !.line = SubSeq(@, 1, d.caret) \o text \o SubSeq(@, d.caret + 1, Len(@)),
                                      !.caret = @ + Len(text)])
  IN  IF atEnd THEN longer ELSE Normalized(longer)

Room(d) == MaxBytes - Min({MaxBytes, Size(d.line)})

\* insertScalar
InsertScalar(d, x) ==
  IF Bytes(x) > Room(d) THEN [d EXCEPT !.truncated = TRUE] ELSE Spliced(d, <<x>>)

\* insertPaste: the longest prefix of whole scalars that fits; bad text fails before it is inserted.
Fitting(d, text) == Max({n \in 0..Len(text) : Size(SubSeq(text, 1, n)) <= Room(d)})
BadBefore(d, text) == \E i \in 1..Min({Len(text), Fitting(d, text) + 1}) : text[i] = "x"
InsertPaste(d, text) ==
  LET n == Fitting(d, text)
      cut == [d EXCEPT !.truncated = @ \/ n < Len(text)]
  IN  IF n = 0 THEN cut ELSE Spliced(cut, SubSeq(text, 1, n))

\* A navigation key's effect: the edit it leaves, how the screen must follow, and whether the
\* grapheme index refused the caret.
Effect(d, draw) == [edit |-> d, draw |-> draw, bad |-> FALSE]
Refused(d) == [edit |-> d, draw |-> "none", bad |-> TRUE]
Deleted(d, from, to) ==
  [d EXCEPT !.line = SubSeq(@, 1, from) \o SubSeq(@, to + 1, Len(@)), !.caret = from]

\* NamedKey::Backspace
Backspace(d) ==
  LET e == Ensured(d)
      p == Previous(e)
      gone == Deleted(e, p, e.caret)
  IN  CASE p = -2 -> Refused(e)
        [] p = -1 -> Effect(e, "none")
        [] p >= 0 /\ e.caret = Len(e.line) ->
             Effect(Retained(gone), IF e.caret - p = 1 /\ e.line[e.caret] = "a" THEN "erase" ELSE "redraw")
        [] OTHER -> Effect(Normalized(Invalidated(gone)), "redraw")

\* NamedKey::Delete
Delete(d) ==
  LET e == Ensured(d)
      n == Next_(e)
      gone == Deleted(e, e.caret, n)
  IN  CASE n = -2 -> Refused(e)
        [] n = -1 -> Effect(e, "none")
        [] n >= 0 /\ n = Len(e.line) -> Effect(Retained(gone), "redraw")
        [] OTHER -> Effect(Normalized(Invalidated(gone)), "redraw")

\* NamedKey::ArrowLeft, ArrowRight, Home and End
Arrow(d, left) ==
  LET e == Ensured(d)
      to == IF left THEN Previous(e) ELSE Next_(e)
  IN  CASE to = -2 -> Refused(e)
        [] to = -1 -> Effect(e, "none")
        [] OTHER -> Effect([e EXCEPT !.caret = to], "redraw")
Jump(d, to) == Effect([d EXCEPT !.caret = to], IF d.caret = to THEN "none" ELSE "redraw")

\* NamedKey::Tab
Tab(d) ==
  LET e == InsertScalar(d, "t")
  IN  Effect(e, IF d.caret = Len(d.line) THEN "append" ELSE "redraw")

KeyEffect(d, key) ==
  CASE key = "Backspace" -> Backspace(d)
    [] key = "Delete" -> Delete(d)
    [] key = "ArrowLeft" -> Arrow(d, TRUE)
    [] key = "ArrowRight" -> Arrow(d, FALSE)
    [] key = "Home" -> Jump(d, 0)
    [] key = "End" -> Jump(d, Len(d.line))
    [] key = "Tab" -> Tab(d)

-----------------------------------------------------------------------------
LineInit ==
  /\ edit = [line |-> <<>>, caret |-> 0, index |-> NoIndex, truncated |-> FALSE]
  /\ \E on \in BOOLEAN, w \in Widths, start \in Starts :
       /\ echo = [on |-> on, size |-> w, origin |-> start, rendered |-> 0, caret |-> 0, shifted |-> FALSE]
       /\ \E rows \in Rows :
            /\ start < rows * w
            /\ screen = [cells |-> Blank, cursor |-> start, width |-> w, rows |-> rows, lost |-> 0]
  /\ reading = "begin" /\ queued = FALSE /\ torn = FALSE /\ resizes = 0

\* LineEcho::begin and the start of the loop; without the capabilities the read fails at once.
Begin ==
  /\ reading = "begin"
  /\ reading' \in {"reading"} \cup (IF echo.on THEN {"failed"} ELSE {})
  /\ UNCHANGED <<edit, echo, screen, queued, torn, resizes>>

\* What an event leaves behind: the edit, and the screen when the echo could follow.  Any write,
\* query or move of the echo may also fail, which ends the read with the line so far.
Follow(d, drawn) ==
  /\ edit' = d
  /\ \/ /\ drawn.outcome = "ok"
        /\ echo' = drawn.echo /\ screen' = drawn.screen
        /\ UNCHANGED reading
     \/ /\ drawn.outcome # "ok" \/ echo.on
        /\ reading' = "failed"
        /\ UNCHANGED <<echo, screen>>

Drawn(d, e, s, oldCaret, oldLine) ==
  IF oldCaret = Len(oldLine) THEN Append_(e, s, SubSeq(d.line, Len(oldLine) + 1, Len(d.line)))
  ELSE Redraw(e, s, d.line, d.caret)

\* A character key, pressed or repeated, without a shortcut modifier.
CharacterKey ==
  /\ reading = "reading"
  /\ \E x \in Typed, n \in 1..MaxRepeat :
       \E d \in {FoldLeft(InsertScalar, edit, [i \in 1..n |-> x])} :
         Follow(d, Drawn(d, echo, screen, edit.caret, edit.line))
  /\ torn' = (torn \/ queued)
  /\ UNCHANGED <<queued, resizes>>

Paste ==
  /\ reading = "reading"
  /\ \E text \in Pastes :
       IF BadBefore(edit, text)
       THEN reading' = "failed" /\ UNCHANGED <<edit, echo, screen>>
       ELSE \E d \in {InsertPaste(edit, text)} : Follow(d, Drawn(d, echo, screen, edit.caret, edit.line))
  /\ torn' = (torn \/ queued)
  /\ UNCHANGED <<queued, resizes>>

\* The occurrences of a named key.  Once a redraw is owed the others only edit; an erase the echo
\* does not support becomes a redraw.
Echoed(r, k) ==
  CASE k.draw = "erase" /\ ~r.redraw -> EraseTrailingAsciiCell(r.echo, r.screen)
    [] k.draw = "append" /\ ~r.redraw ->
         Append_(r.echo, r.screen, SubSeq(k.edit.line, Len(r.edit.line) + 1, Len(k.edit.line)))
    [] OTHER -> Done(r.echo, r.screen)

AfterKey(r, k, step) ==
  LET ok == step.outcome = "ok"
      unsupported == k.draw = "erase" /\ step.outcome = "unsupported"
  IN  [edit |-> k.edit,
       echo |-> IF ok THEN step.echo ELSE r.echo,
       screen |-> IF ok THEN step.screen ELSE r.screen,
       redraw |-> r.redraw \/ k.draw = "redraw" \/ unsupported,
       failed |-> k.bad \/ (~ok /\ ~unsupported)]

FollowKey(r, k) == AfterKey(r, k, Echoed(r, k))

Occurrence(r, key) == IF r.failed THEN r ELSE FollowKey(r, KeyEffect(r.edit, key))

NamedKey ==
  /\ reading = "reading"
  /\ \E key \in {"Backspace", "Delete", "ArrowLeft", "ArrowRight", "Home", "End", "Tab"}, n \in 1..MaxRepeat :
       LET start == [edit |-> edit, echo |-> echo, screen |-> screen, redraw |-> FALSE, failed |-> FALSE]
       IN  \E r \in {FoldLeft(Occurrence, start, [i \in 1..n |-> key])} :
             Follow(r.edit, IF r.failed THEN Undone("failed")
                            ELSE IF r.redraw THEN Redraw(r.echo, r.screen, r.edit.line, r.edit.caret)
                            ELSE Done(r.echo, r.screen))
  /\ torn' = (torn \/ queued)
  /\ UNCHANGED <<queued, resizes>>

\* Enter: the caret goes to the end, the line ends on the screen and is returned with the ending
\* the options ask for, if that still fits.
Enter ==
  /\ reading = "reading"
  /\ LET f == Finish(echo, screen, edit.line, edit.caret)
     IN  \/ /\ f.outcome = "ok"
            /\ echo' = f.echo /\ screen' = f.screen
            /\ \E ending \in 0..2 :
                 edit' = [edit EXCEPT !.caret = Len(edit.line), !.truncated = @ \/ ending > Room(edit)]
            /\ reading' = "completed"
         \/ /\ f.outcome # "ok" \/ echo.on
            /\ reading' = "failed"
            /\ UNCHANGED <<edit, echo, screen>>
  /\ torn' = (torn \/ queued)
  /\ UNCHANGED <<queued, resizes>>

\* The user resizes the console; its event waits behind the keys already queued.
ResizeConsole ==
  /\ reading = "reading" /\ resizes < MaxResizes
  /\ \E w \in Widths \ {screen.width} : screen' = Scrolled([screen EXCEPT !.width = w])
  /\ queued' = TRUE /\ resizes' = resizes + 1
  /\ UNCHANGED <<edit, echo, reading, torn>>

\* Events::Resize: updateSize and a redraw.
ResizeEvent ==
  /\ reading = "reading" /\ queued
  /\ LET e == [echo EXCEPT !.size = screen.width]
         drawn == Redraw(e, screen, edit.line, edit.caret)
     IN  Follow(edit, drawn)
  /\ queued' = FALSE
  /\ UNCHANGED <<torn, resizes>>

\* A timeout, a stop request, the end of the input or a failed read of events.
Leave ==
  /\ reading = "reading"
  /\ reading' \in {"left", "failed"}
  /\ UNCHANGED <<edit, echo, screen, queued, torn, resizes>>

LineNext ==
  \/ Begin \/ CharacterKey \/ Paste \/ NamedKey \/ Enter \/ ResizeConsole \/ ResizeEvent \/ Leave

\* The line written once, from the origin on, on a blank screen that never scrolls.
Shown(line) ==
  Write([screen EXCEPT !.cells = Blank, !.cursor = echo.origin - screen.lost * screen.width, !.rows = LastCell + 1], line)

Matches == screen.cells = Shown(edit.line).cells /\ screen.cursor = Shown(SubSeq(edit.line, 1, edit.caret)).cursor

\* The echo is on and no resize waits that a key was handled before.
Watched == reading \in {"reading", "completed"} /\ echo.on /\ ~torn /\ ~queued

\* The screen shows the line and nothing but the line, and the cursor stands at the caret, after
\* whatever mixture of appends, erasures and redraws led there.  A key handled while a resize waits
\* in the queue is drawn with the old width and is left out, and so is what follows a distance that
\* the echo measured over a scroll of the buffer (lines 315-329 and 439-490): there the code breaks what
\* docs/read_write.md says, lines 149-151, of an anchor that scrolling does not invalidate.
ScreenShowsLine == Watched /\ ~echo.shifted => Matches

\* The caret never stands inside a grapheme, the cached boundaries are those of the line as it is
\* now, and the line never outgrows maxReturnedBytes.
EditingIsSound ==
  /\ edit.caret \in Boundaries(edit.line)
  /\ edit.index \in {NoIndex, Boundaries(edit.line)}
  /\ Size(edit.line) <= MaxBytes

LineSpec == LineInit /\ [][LineNext]_lineVars

\* The line editor as its user sees it: what is on the screen is the line, and the
\* line is what the keys made of it.
LineIsTrue == ScreenShowsLine /\ EditingIsSound
=============================================================================
