------------------------------ MODULE Console -------------------------------
(***************************************************************************)
(* The text console: VGATextConsole, the stream programs write to, the log *)
(* of the boot, and the layout of a panic.  Rows and columns count from 0, *)
(* as in the code; the screen is the video memory, cell by cell.           *)
(***************************************************************************)
EXTENDS Integers, Sequences, SequencesExt

CONSTANTS
  Width, Height,      (* VGA_WIDTH and VGA_HEIGHT                          *)
  Runs,               (* lengths of the texts that are written             *)
  MaxWrites,          (* bound: number of calls                            *)
  PanicWidth, PanicHeight,  (* the screen a panic is laid out on           *)
  MaxMessage          (* bound: length of a panic's message                *)

ASSUME ConsoleAssumption ==
  /\ Width \in Nat /\ Width > 6      (* room for a result of the log        *)
  /\ Height \in Nat /\ Height > 1    (* a task of the log has a row below it *)
  /\ Runs \subseteq Nat \ {0}
  /\ MaxWrites \in Nat
  /\ PanicWidth \in Nat /\ PanicWidth > 4 /\ PanicHeight \in Nat /\ PanicHeight > 8
  /\ MaxMessage \in Nat   (* a message has room below the banner            *)
  /\ MaxMessage <= (PanicWidth - 4) * (PanicHeight - 9)

VARIABLES
  console,            (* the VGATextConsole and the hardware behind it     *)
  paper,              (* every line since the screen was cleared           *)
  message,            (* the message of a panic                            *)
  writes              (* bound                                             *)

consoleVars == <<console, paper, message, writes>>

Grey == 7
White == 15

(* Characters above 127 are negative: widened, they set every colour bit.  *)
make_vgaentry(c, color) == [char |-> c, color |-> IF c = "high" THEN 255 ELSE color]

(* move_cursor_to; a hidden cursor is far below the screen.                *)
Position(row, col) == row * Width + col
HiddenCursor == Position(255, 255)

setCursorVisible(con, isVisible) ==
  [con EXCEPT !.visible = isVisible,
              !.cursor = IF isVisible THEN Position(con.row, con.col) ELSE HiddenCursor]

moveTo(con, row, col) ==
  [con EXCEPT !.row = row, !.col = col,
              !.cursor = IF con.visible THEN Position(row, col) ELSE @]

putCharAt(con, c, row, col) ==
  [con EXCEPT !.buffer[Position(row, col)] = make_vgaentry(c, con.color)]

clear(con) ==
  moveTo([con EXCEPT !.buffer = [i \in DOMAIN @ |-> make_vgaentry("blank", con.color)]],
         0, 0)

(* Mutant of scroll: the rows move up, and the last one stays.             *)
scrollKeepingLast(con, lines) ==
  [con EXCEPT !.buffer =
     [i \in DOMAIN @ |-> IF i < Width * (Height - lines) THEN @[i + Width * lines]
                                                         ELSE @[i]]]

(* memcpy copies upwards, from the first byte on.                          *)
scroll(con, lines) ==
  [con EXCEPT !.buffer =
     [i \in DOMAIN @ |-> IF i < Width * (Height - lines)
                         THEN @[i + Width * lines]
                         ELSE make_vgaentry("blank", con.color)]]

(* The next row; below the last one, the screen scrolls.                   *)
NextRow(con) ==
  IF con.row + 1 = Height
  THEN moveTo(scroll(con, 1), Height - 1, 0)
  ELSE moveTo(con, con.row + 1, 0)

putChar(con, c) ==
  IF c = "newline" THEN NextRow(con)
  ELSE LET put == putCharAt(con, c, con.row, con.col)
       IN IF con.col + 1 = Width THEN NextRow(put)
                                 ELSE moveTo(put, con.row, con.col + 1)

(* writeString hides the cursor while it writes.                           *)
writeString(con, text) ==
  LET written == FoldLeft(putChar, setCursorVisible(con, FALSE), text)
  IN IF con.visible THEN setCursorVisible(written, TRUE)
                    ELSE FoldLeft(putChar, con, text)

setForegroundColor(con, fg) == [con EXCEPT !.color = (@ \div 16) * 16 + fg]

-----------------------------------------------------------------------------
(* ConsoleOutputStream. *)

doBackspace(con) ==
  IF con.row = 0 /\ con.col = 0 THEN putCharAt(con, "blank", 0, 0)
  ELSE LET back == IF con.col = 0 THEN moveTo(con, con.row - 1, Width - 1)
                                  ELSE moveTo(con, con.row, con.col - 1)
       IN putCharAt(back, "blank", back.row, back.col)

write(con, byte) ==
  IF byte = "backspace" THEN doBackspace(con) ELSE putChar(con, byte)

-----------------------------------------------------------------------------
(* The log of the boot. *)

Text(c, n) == [i \in 1 .. n |-> c]

log_task_begin(con, text) ==
  LET cleared == FoldLeft(putChar, moveTo(con, con.row, 0), Text("blank", Width))
      back == moveTo(cleared, cleared.row - 1, 0)
      shown == writeString(setForegroundColor(back, White), text)
  IN setForegroundColor(IF shown.col > Width - 6 THEN writeString(shown, <<"newline">>)
                                                 ELSE shown,
                        Grey)

log_result(con, answer, color) ==
  LET at == moveTo(con, con.row, Width - (Len(answer) + 3))
      open == writeString(at, <<"[">>)
      said == writeString(setForegroundColor(open, color), answer)
  IN setForegroundColor(writeString(setForegroundColor(said, White), <<"]", "newline">>),
                        Grey)

-----------------------------------------------------------------------------
(* What is expected of the screen: a paper of lines that only grows, with  *)
(* the screen on the last Height of them.                                  *)

(* A character as it was written: in the colour that was set.              *)
Ink(c, color) == [char |-> c, color |-> color]

BlankLine(color) == [i \in 0 .. Width - 1 |-> Ink("blank", color)]

FirstShown(p) == Len(p.lines) - Height + 1

Fresh(color) == [lines |-> [i \in 1 .. Height |-> BlankLine(color)],
                 row |-> 1, col |-> 0]

(* The line below exists when the pen reaches it.                          *)
Feed(p, color) ==
  [p EXCEPT !.row = @ + 1, !.col = 0,
            !.lines = IF p.row = Len(@) THEN Append(@, BlankLine(color)) ELSE @]

Inked(p, cell) == [p EXCEPT !.lines[p.row][p.col] = cell]

Pen(color, p, c) ==
  CASE c = "newline" -> Feed(p, color)
    [] c = "backspace" ->
         LET back == CASE p.col > 0 -> [p EXCEPT !.col = @ - 1]
                       [] p.col = 0 /\ p.row > FirstShown(p) ->
                            [p EXCEPT !.row = @ - 1, !.col = Width - 1]
                       [] OTHER -> p
         IN Inked(back, Ink("blank", color))
    [] OTHER ->
         LET inked == Inked(p, Ink(c, color))
         IN IF p.col = Width - 1 THEN Feed(inked, color) ELSE [inked EXCEPT !.col = @ + 1]

Penned(p, text, color) == FoldLeft(LAMBDA q, c : Pen(color, q, c), p, text)

(* A task's line replaces what stood on the current one, and there is a    *)
(* line below it; its result ends on the line's last column but one.       *)
TaskPenned(p, text, color) ==
  LET below == Feed(p, color)
      line == [below EXCEPT !.row = p.row, !.lines[p.row] = BlankLine(color)]
      penned == Penned(line, text, White)
  IN IF penned.col > Width - 6 THEN Feed(penned, White) ELSE penned

ResultCell(p, answer, ink, color, i) ==
  LET at == Width - 3 - Len(answer)
  IN CASE i = at -> Ink("[", ink)
       [] i > at /\ i < Width - 2 -> Ink(answer[i - at], color)
       [] i = Width - 2 -> Ink("]", White)
       [] OTHER -> p.lines[p.row][i]

ResultPenned(p, answer, ink, color) ==
  Feed([p EXCEPT !.lines[p.row] =
          [i \in 0 .. Width - 1 |-> ResultCell(p, answer, ink, color, i)]], White)

-----------------------------------------------------------------------------
ConsoleInit ==
  /\ console = [buffer |-> [i \in 0 .. Width * Height - 1 |-> make_vgaentry("blank", Grey)],
                row |-> 0, col |-> 0, color |-> Grey, visible |-> FALSE,
                cursor |-> HiddenCursor]
  /\ paper = Fresh(Grey)
  /\ writes = 0

Write(text) ==
  /\ console' = FoldLeft(write, console, text)
  /\ paper' = Penned(paper, text, console.color)

Clear ==
  /\ console' = clear(console)
  /\ paper' = Fresh(console.color)

SetForegroundColor(fg) ==
  /\ console' = setForegroundColor(console, fg)
  /\ UNCHANGED paper

SetCursorVisible(isVisible) ==
  /\ console' = setCursorVisible(console, isVisible)
  /\ UNCHANGED paper

LogTaskBegin(text) ==
  /\ console' = log_task_begin(console, text)
  /\ paper' = TaskPenned(paper, text, console.color)

Green == 2
Red == 4

LogResult(answer, color) ==
  /\ console' = log_result(console, answer, color)
  /\ paper' = ResultPenned(paper, answer, console.color, color)

Texts == {Text(c, n) : c \in {"x", "newline", "backspace"}, n \in Runs} \cup {<<"high">>}

ConsoleNext ==
  /\ writes < MaxWrites
  /\ writes' = writes + 1
  /\ UNCHANGED message
  /\ \/ \E text \in Texts : Write(text)
     \/ Clear
     \/ \E fg \in {Grey, White} : SetForegroundColor(fg)
     \/ \E isVisible \in BOOLEAN : SetCursorVisible(isVisible)
     \/ \E n \in Runs : LogTaskBegin(Text("t", n))
     \/ LogResult(<<"D", "O", "N", "E">>, Green)
     \/ LogResult(<<"F", "A", "I", "L">>, Red)

(* A character above 127 is shown in a colour of its own.                  *)
Agree(cell, ink) ==
  /\ cell.char = ink.char
  /\ ink.char # "high" => cell.color = ink.color

(* The screen shows the last lines of all that was written since it was    *)
(* cleared, cell by cell and in the colour that was set when each was      *)
(* written (for characters up to 127), whatever mix of output, backspaces, *)
(* cleared lines and log results came before; no line is lost or doubled   *)
(* by scrolling, and the cursor, if it is visible, is where the next       *)
(* character goes.                                                         *)
ScreenIsWindow ==
  /\ \A row \in 0 .. Height - 1, col \in 0 .. Width - 1 :
       Agree(console.buffer[Position(row, col)], paper.lines[FirstShown(paper) + row][col])
  /\ console.row = paper.row - FirstShown(paper)
  /\ console.col = paper.col
  /\ console.cursor = IF console.visible THEN Position(console.row, console.col)
                                         ELSE HiddenCursor

(* Console.hpp on setForegroundColor: "Sets the foreground color for       *)
(* future writes", of every character: each cell has the colour that was   *)
(* set when it was written.                                                *)
ColorIsSet ==
  \A row \in 0 .. Height - 1, col \in 0 .. Width - 1 :
    console.buffer[Position(row, col)].color = paper.lines[FirstShown(paper) + row][col].color

-----------------------------------------------------------------------------
(* Kernel::panic lays out its message. *)

Messages == UNION {[1 .. n -> {"x", "space"}] : n \in 0 .. MaxMessage}

MaxLineWidth == PanicWidth - 4

(* The end of the line that starts a text: behind its last space, or where *)
(* it is cut.                                                              *)
LineLength(text) ==
  LET cut == IF Len(text) < MaxLineWidth THEN Len(text) ELSE MaxLineWidth
      spaces == {j \in 1 .. cut : text[j] = "space"}
  IN IF spaces = {} THEN cut ELSE CHOOSE j \in spaces : \A k \in spaces : k <= j

(* Mutant of EstimatedLines: a last line that is not full is not counted.  *)
EstimatedLinesFull(length) == length \div MaxLineWidth

EstimatedLines(length) ==
  length \div MaxLineWidth + (IF length % PanicWidth # 0 THEN 1 ELSE 0)

(* Line i of what is left of a message, with its place                     *)
PanicLine(first, done, i) ==
  IF done.rest = <<>> THEN done
  ELSE LET n == LineLength(done.rest)
       IN [rest |-> SubSeq(done.rest, n + 1, Len(done.rest)),
           lines |-> Append(done.lines,
                       [row |-> first + i, col |-> (PanicWidth - n) \div 2,
                        text |-> SubSeq(done.rest, 1, n)])]

PanicLines(text) ==
  IF Len(text) <= MaxLineWidth
  THEN << [row |-> PanicHeight \div 2, col |-> (PanicWidth - Len(text)) \div 2,
           text |-> text] >>
  ELSE LET estimated == EstimatedLines(Len(text))
           first == PanicHeight \div 2 - estimated \div 2
           after[k \in 0 .. estimated] ==
             IF k = 0 THEN [rest |-> text, lines |-> <<>>]
             ELSE PanicLine(first, after[k - 1], k - 1)
       IN after[estimated].lines

(* A panic shows its message from the beginning: line below line, centred, *)
(* between the banner and the last words, with no word broken that fits    *)
(* on a line.  All of it is shown if it fits on one line, and if it has no *)
(* spaces, unless its length is a multiple of the width.                   *)
PanicShowsMessage ==
  LET lines == PanicLines(message)
      shown == FlattenSeq([i \in DOMAIN lines |-> lines[i].text])
      spaces == {i \in DOMAIN message : message[i] = "space"}
  IN /\ shown = SubSeq(message, 1, Len(shown))
     /\ \A i \in DOMAIN lines :
          /\ lines[i].row \in 4 .. PanicHeight - 3
          /\ lines[i].row = lines[1].row + i - 1
          /\ Len(lines[i].text) <= MaxLineWidth
          /\ lines[i].col - (PanicWidth - lines[i].col - Len(lines[i].text)) \in {-1, 0}
     /\ \A i \in 1 .. Len(lines) - 1 :
          LET text == lines[i].text
          IN text[Len(text)] # "space" => \A j \in DOMAIN text : text[j] # "space"
     /\ (Len(message) <= MaxLineWidth
           \/ (spaces = {} /\ (Len(message) % PanicWidth # 0 \/ Len(message) % MaxLineWidth = 0)))
        => shown = message
=============================================================================
