----------------------------- MODULE Clipboard ------------------------------
(***************************************************************************)
(* Clipboard calls of several threads and processes. The system clipboard  *)
(* has one holder at a time; a call tries to get hold of it until its      *)
(* deadline, then empties, publishes or reads it step by step, each of     *)
(* which may fail, and lets go. What is transferred is kept as the bytes   *)
(* of its native format: terminated text units, the terminated entries of  *)
(* a file list, the rows of a bitmap, or raw bytes.                        *)
(***************************************************************************)
EXTENDS Integers, Sequences, SequencesExt, FiniteSets

CONSTANTS Callers,      \* threads that use this library
          Payloads,     \* portable items: [kind, name, value]
          ForeignData,  \* what other programs publish: [native, bytes, item]
          MaxTries      \* bound: how often a busy clipboard is tried again before the deadline

ASSUME ClipboardAssumption == MaxTries \in Nat /\ "none" \notin Callers

VARIABLES board,   \* the system clipboard: its holder and the data in each native format
          clipCalls,   \* the call each caller is in
          found    \* history: the data a caller found when it got hold of the clipboard

clipVars == <<board, clipCalls, found>>

-----------------------------------------------------------------------------
(* Native data *)

EndOfCall == 0   \* the terminating unit

\* A pixel is r, g, b, a; the bitmap has b, g, r, a, and rows from top to bottom.
Swapped(p) == <<p[3], p[2], p[1], p[4]>>

EncodedText(units) == Append(units, EndOfCall)
EncodedFiles(paths) == Append(FlattenSeq([i \in DOMAIN paths |-> Append(paths[i], EndOfCall)]), EndOfCall)
EncodedImage(image) == [depth |-> 4, topDown |-> TRUE, alpha |-> TRUE, width |-> image.width, height |-> image.height,
                        rows |-> FlattenSeq([i \in DOMAIN image.pixels |-> Swapped(image.pixels[i])])]

\* nativeFormat: custom names are registered without regard to case.
NativeFormat(item) == CASE item.kind = "Text" -> "UNICODETEXT" [] item.kind = "FileList" -> "HDROP"
                        [] item.kind = "Image" -> "DIBV5" [] item.kind = "Custom" -> item.name

\* What validation refuses: text with a terminator in it, no or relative paths, an image whose bytes do not match its
\* size, an unnamed format. An empty custom payload is not supported.
Transferable(item) ==
  CASE item.kind = "Text" -> \A i \in DOMAIN item.value : item.value[i] # EndOfCall
    [] item.kind = "FileList" -> item.value # <<>> /\ \A i \in DOMAIN item.value : item.value[i] # <<>>
    [] item.kind = "Image" -> item.value.width > 0 /\ item.value.height > 0
                              /\ Len(item.value.pixels) = item.value.width * item.value.height
    [] item.kind = "Custom" -> item.value # <<>>

\* prepare
Prepared(item) ==
  [native |-> NativeFormat(item), item |-> item, live |-> TRUE,
   bytes |-> CASE item.kind = "Text" -> EncodedText(item.value) [] item.kind = "FileList" -> EncodedFiles(item.value)
               [] item.kind = "Image" -> EncodedImage(item.value) [] item.kind = "Custom" -> item.value]

DecodedText(bytes) == SubSeq(bytes, 1, SelectInSeq(bytes, LAMBDA u : u = EndOfCall) - 1)

\* DragQueryFile: the entries up to the empty one.
DecodedFiles(bytes) ==
  LET ends == {i \in DOMAIN bytes : bytes[i] = EndOfCall}
      last == CHOOSE i \in ends : i > 1 /\ bytes[i - 1] = EndOfCall /\ \A j \in ends : j > 1 /\ bytes[j - 1] = EndOfCall => i <= j
      starts == SetToSortSeq({i \in 1 .. last - 1 : i = 1 \/ bytes[i - 1] = EndOfCall}, LAMBDA a, b : a < b)
  IN [k \in DOMAIN starts |-> SubSeq(bytes, starts[k],
                                     (CHOOSE e \in ends : e >= starts[k] /\ \A f \in ends : f >= starts[k] => e <= f) - 1)]

\* Mutation: rows are not padded to four bytes.
RowBytes_Packed(bitmap) == bitmap.width * bitmap.depth
RowBytes(bitmap) == ((bitmap.width * bitmap.depth * 8 + 31) \div 32) * 4

DecodedPixel(bitmap, x, y) ==
  LET row == IF bitmap.topDown THEN y ELSE bitmap.height - 1 - y
      p == row * RowBytes(bitmap) + x * bitmap.depth
      B(k) == IF p + k \in DOMAIN bitmap.rows THEN bitmap.rows[p + k] ELSE 0
  IN <<B(3), B(2), B(1), IF bitmap.alpha THEN B(4) ELSE 255>>

\* materializeGlobal
DecodedImage(bitmap) ==
  [width |-> bitmap.width, height |-> bitmap.height,
   pixels |-> [i \in 1 .. bitmap.width * bitmap.height |->
                 DecodedPixel(bitmap, (i - 1) % bitmap.width, (i - 1) \div bitmap.width)]]

Materialized(native, bytes) ==
  CASE native = "UNICODETEXT" -> DecodedText(bytes) [] native = "HDROP" -> DecodedFiles(bytes)
    [] native \in {"DIBV5", "DIB"} -> DecodedImage(bytes) [] OTHER -> bytes

-----------------------------------------------------------------------------
(* Calls *)

IdleCall == [pc |-> "idle", kind |-> "none", tries |-> 0, prepared |-> <<>>, published |-> <<>>, commit |-> "Untouched",
         want |-> "none", status |-> "ok", got |-> <<>>, listed |-> <<>>]

\* The owner window, and what was prepared and not handed over, are given up at the end of the call; memory that was
\* freed although the clipboard has it is no longer there.
Freed(data, call) ==
  LET both == {call.prepared[i].item : i \in DOMAIN call.prepared} \cap {call.published[i] : i \in DOMAIN call.published}
  IN [f \in DOMAIN data |-> [data[f] EXCEPT !.live = @ /\ data[f].item \notin both]]

EndedCall(c, status) == [clipCalls EXCEPT ![c] = [IdleCall EXCEPT !.kind = @, !.status = status]]

\* write: every item is prepared, in memory of its own, before the clipboard is touched; two items of one native
\* format are refused.
BeginWrite(c, items, tries) ==
  /\ clipCalls[c].pc = "idle" /\ items # <<>>
  /\ \A i \in DOMAIN items : Transferable(items[i])
  /\ \A i, j \in DOMAIN items : NativeFormat(items[i]) = NativeFormat(items[j]) => i = j
  /\ clipCalls' = [clipCalls EXCEPT ![c] = [IdleCall EXCEPT !.pc = "opening", !.kind = "write", !.tries = tries,
                                                !.prepared = [i \in DOMAIN items |-> Prepared(items[i])]]]
  /\ UNCHANGED <<board, found>>

BeginClear(c, tries) ==
  /\ clipCalls[c].pc = "idle"
  /\ clipCalls' = [clipCalls EXCEPT ![c] = [IdleCall EXCEPT !.pc = "opening", !.kind = "clear", !.tries = tries]]
  /\ UNCHANGED <<board, found>>

\* readText, readFiles, readImage, readCustomData, and hasFormat and getFormats, which look without copying.
BeginRead(c, want, tries) ==
  /\ clipCalls[c].pc = "idle"
  /\ clipCalls' = [clipCalls EXCEPT ![c] = [IdleCall EXCEPT !.pc = "opening", !.kind = "read", !.tries = tries, !.want = want]]
  /\ UNCHANGED <<board, found>>

\* ClipboardSession::open
OpenClipboard(c) ==
  /\ clipCalls[c].pc = "opening" /\ board.holder = "none"
  /\ board' = [board EXCEPT !.holder = c]
  /\ clipCalls' = [clipCalls EXCEPT ![c].pc = IF clipCalls[c].kind = "read" THEN "reading" ELSE "emptying"]
  /\ found' = [found EXCEPT ![c] = board.data]

\* Busy: it sleeps and tries again, or the deadline has passed.
TryAgain(c) ==
  /\ clipCalls[c].pc = "opening" /\ board.holder # "none"
  /\ clipCalls' = IF clipCalls[c].tries > 0 THEN [clipCalls EXCEPT ![c].tries = @ - 1] ELSE EndedCall(c, "ResourceBusy")
  /\ UNCHANGED <<board, found>>

EmptyClipboard(c) ==
  /\ clipCalls[c].pc = "emptying"
  /\ \/ /\ board' = [board EXCEPT !.data = <<>>]
        /\ clipCalls' = [clipCalls EXCEPT ![c].commit = "Cleared", ![c].pc = IF clipCalls[c].kind = "clear" THEN "closing" ELSE "publishing"]
     \/ /\ clipCalls' = [clipCalls EXCEPT ![c].status = "WriteFailed", ![c].pc = "closing"]
        /\ UNCHANGED board
  /\ UNCHANGED found

\* Mutation: the memory stays the caller's although the clipboard has it.
HandedOver_Kept(call) == call

\* The clipboard owns what SetClipboardData took.
HandedOver(call) == [call EXCEPT !.prepared = Tail(@)]

\* Mutation: a failure after the first item reports that the clipboard was only cleared.
PublicationFailed_Cleared(call) == [call EXCEPT !.status = "WriteFailed", !.commit = "Cleared", !.pc = "closing"]

PublicationFailed(call) ==
  [call EXCEPT !.status = "WriteFailed", !.commit = IF call.published = <<>> THEN "Cleared" ELSE "PartiallyPublished", !.pc = "closing"]

PublishItem(c) ==
  LET call == clipCalls[c]
      entry == call.prepared[1]
      given == [HandedOver(call) EXCEPT !.published = Append(@, entry.item)]
  IN /\ call.pc = "publishing"
     /\ \/ /\ board' = [board EXCEPT !.data = [f \in DOMAIN @ \cup {entry.native} |-> IF f = entry.native THEN entry ELSE @[f]]]
           /\ clipCalls' = [clipCalls EXCEPT ![c] = IF Len(call.prepared) = 1
                                            THEN [given EXCEPT !.pc = "closing", !.commit = "Published"]
                                            ELSE given]
        \/ /\ clipCalls' = [clipCalls EXCEPT ![c] = PublicationFailed(call)]
           /\ UNCHANGED board
     /\ UNCHANGED found

\* An image is read from the newer format first; a device bitmap is not supported.
NativeWanted(want, data) ==
  CASE want = "Text" -> "UNICODETEXT" [] want = "FileList" -> "HDROP"
    [] want = "Image" -> IF "DIBV5" \in DOMAIN data THEN "DIBV5" ELSE "DIB" [] OTHER -> want

\* getFormats: several native forms of one kind are listed once.
Listed(data) == {CASE f = "UNICODETEXT" -> "Text" [] f = "HDROP" -> "FileList" [] f \in {"DIBV5", "DIB"} -> "Image" [] OTHER -> f
                   : f \in DOMAIN data}

\* hasFormat
Available(want, data) == NativeWanted(want, data) \in DOMAIN data

\* hasFormat and getFormats copy nothing.
LookAtClipboard(c) ==
  /\ clipCalls[c].pc = "reading"
  /\ \/ clipCalls' = [clipCalls EXCEPT ![c].listed = <<[formats |-> Listed(board.data), has |-> Available(clipCalls[c].want, board.data)]>>,
                              ![c].pc = "closing"]
     \/ clipCalls' = [clipCalls EXCEPT ![c].status = "ReadFailed", ![c].pc = "closing"]
  /\ UNCHANGED <<board, found>>

ReadClipboard(c) ==
  LET native == NativeWanted(clipCalls[c].want, board.data)
  IN /\ clipCalls[c].pc = "reading"
     /\ \/ /\ native \notin DOMAIN board.data
           /\ clipCalls' = [clipCalls EXCEPT ![c].status = "NotFound", ![c].pc = "closing"]
        \/ /\ native \in DOMAIN board.data
           /\ clipCalls' = [clipCalls EXCEPT ![c].got = <<Materialized(native, board.data[native].bytes)>>, ![c].pc = "closing"]
        \/ /\ native \in DOMAIN board.data
           /\ clipCalls' = [clipCalls EXCEPT ![c].status = "ReadFailed", ![c].pc = "closing"]
     /\ UNCHANGED <<board, found>>

\* closePreservingPrimary: a close that fails is only reported when nothing failed before it.
CloseClipboard(c) ==
  /\ clipCalls[c].pc = "closing"
  /\ board' = [holder |-> "none", data |-> Freed(board.data, clipCalls[c])]
  /\ \E close \in {"ok", "CloseFailed"} : clipCalls' = EndedCall(c, IF clipCalls[c].status = "ok" THEN close ELSE clipCalls[c].status)
  /\ found' = [found EXCEPT ![c] = <<>>]

\* Another program replaces the contents.
ForeignWrite(d) ==
  /\ board.holder = "none"
  /\ board' = [board EXCEPT !.data = [f \in {d.native} |-> [native |-> f, item |-> d.item, live |-> TRUE, bytes |-> d.bytes]]]
  /\ UNCHANGED <<clipCalls, found>>

ClipInit ==
  /\ board = [holder |-> "none", data |-> <<>>]
  /\ clipCalls = [c \in Callers |-> IdleCall]
  /\ found = [c \in Callers |-> <<>>]

Kinds == {"Text", "FileList", "Image"} \cup {p.name : p \in {q \in Payloads : q.kind = "Custom"}}

ClipNext ==
  \/ \E d \in ForeignData : ForeignWrite(d)
  \/ \E c \in Callers :
       \/ OpenClipboard(c) \/ TryAgain(c) \/ EmptyClipboard(c) \/ PublishItem(c) \/ ReadClipboard(c) \/ LookAtClipboard(c) \/ CloseClipboard(c)
       \/ \E tries \in 0 .. MaxTries :
            \/ BeginClear(c, tries)
            \/ \E want \in Kinds : BeginRead(c, want, tries)
            \/ \E a, b \in Payloads : BeginWrite(c, <<a, b>>, tries)
            \/ \E a \in Payloads : BeginWrite(c, <<a>>, tries)

ClipSpec == ClipInit /\ [][ClipNext]_clipVars

-----------------------------------------------------------------------------
(* Properties *)

Holding == {"emptying", "publishing", "reading", "closing"}

\* The commit state a write reports is what the clipboard holds when the call lets go of it, at whichever step it
\* failed and whatever others wrote before: all of the items, those before the failure, nothing, or what was there
\* before (win32_clipboard.cpp, lines 931-959).
CommitStateIsTrue ==
  \A c \in Callers : clipCalls[c].pc = "closing" /\ clipCalls[c].kind \in {"write", "clear"} =>
    LET there == {board.data[f].item : f \in DOMAIN board.data}
        sent == {clipCalls[c].published[i] : i \in DOMAIN clipCalls[c].published}
    IN CASE clipCalls[c].commit = "Untouched" -> board.data = found[c]
         [] clipCalls[c].commit = "Cleared" -> there = {}
         [] clipCalls[c].commit = "PartiallyPublished" -> sent # {} /\ there = sent /\ clipCalls[c].prepared # <<>>
         [] clipCalls[c].commit = "Published" -> there = sent /\ clipCalls[c].status = "ok"

\* What a call reads is what was published: text up to its end, every path, every pixel in its place and with its
\* colours, whoever wrote it and in whichever native form (win32_data_transfer.cpp, lines 278-447 and 587-784).
ReadsWhatWasPublished ==
  \A c \in Callers :
    /\ clipCalls[c].got # <<>> => clipCalls[c].got[1] = board.data[NativeWanted(clipCalls[c].want, board.data)].item.value
    /\ clipCalls[c].listed # <<>> =>
         LET offered == {IF board.data[f].item.kind = "Custom" THEN board.data[f].item.name ELSE board.data[f].item.kind
                           : f \in DOMAIN board.data}
         IN clipCalls[c].listed[1].formats = offered /\ (clipCalls[c].listed[1].has <=> clipCalls[c].want \in offered)

\* One call at a time is inside the clipboard, it is released at the end of every call, and everything the clipboard
\* holds is memory that nobody has freed (win32_clipboard.cpp, lines 71-120, 151-226 and 941-956).
ClipboardIsSound ==
  /\ \A c \in Callers : clipCalls[c].pc \in Holding <=> board.holder = c
  /\ \A f \in DOMAIN board.data : board.data[f].live

\* What the clipboard calls report: the commit state they return is what happened
\* to the native clipboard, a read gives what somebody published, and it is never
\* left open or leaking a handle.
ClipboardIsTrue == CommitStateIsTrue /\ ReadsWhatWasPublished /\ ClipboardIsSound
=============================================================================
