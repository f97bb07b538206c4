-------------------------------- MODULE Vdu --------------------------------
(***************************************************************************)
(* The text terminal of vdu.cpp: the buffer of characters gScreen, the     *)
(* framebuffer that should show it, the text cursor and the mouse pointer  *)
(* drawn over it, and the smooth scroll, which moves the framebuffer one   *)
(* scanline per taskVDU while the rest of the firmware goes on: a mouse    *)
(* click, a change of mode, a cleared screen or the Enter key may come in  *)
(* the middle of it.                                                       *)
(*                                                                         *)
(* The framebuffer is kept by scanline and column of characters; a pixel   *)
(* stands for the line of the character drawn there.  Colours, fonts and   *)
(* the blinking of the cursor, which changes a colour of the palette, are  *)
(* left out.  The whole state is the record v, and each routine of the     *)
(* code an operator from records to records: vduPutc is a composition of   *)
(* them, as it is of the routines in the code.                             *)
(***************************************************************************)
EXTENDS Integers, Sequences

CONSTANTS
  ROWS, COLS,
  H,            \* FONT_CELL_HEIGHT: the scanlines of a character
  Modes,        \* the modes that GDU commands select, of 0 .. 9
  Output,       \* the characters written
  QueueSize,    \* bound: characters waiting in vdu_tx_fifo
  MaxEvents     \* bound: characters, clicks, keys and commands from outside

ASSUME VduAssumption ==
  /\ ROWS \in Nat \ {0, 1} /\ COLS \in Nat \ {0, 1} /\ H \in Nat \ {0, 1}
  /\ Modes \subseteq 0 .. 9
  /\ QueueSize \in Nat \ {0} /\ MaxEvents \in Nat

VARIABLES
  v,          \* the state of vdu.cpp
  vdu_tx_fifo,
  smudged,    \* history: something was drawn that gScreen does not know of
  events      \* bound: events so far

vduVars == <<v, vdu_tx_fifo, smudged, events>>

Rows == 0 .. ROWS - 1
Cols == 0 .. COLS - 1
Lines == 0 .. ROWS * H - 1

\* The row of characters a scanline belongs to, and its line of their cells.
CellRow(y) == y \div H
CellLine(y) == y % H

\* The columns of vduModes that decide something here.
vduModes == [m \in 0 .. 9 |->
  [textMode |-> m \notin {6, 8},
   autoScroll |-> m \in {0, 1, 2, 3, 4, 7},
   smoothScroll |-> m \in {0, 1},
   screenMode |-> m \in {0, 1},
   visibleCursor |-> m \in {0, 1, 2, 3, 7},
   cursorShape |-> IF m \in {0, 2, 7} THEN "block" ELSE "underline"]]

Blank == <<" ", 0>>
Cursor == <<"cursor", 0>>
Pointer == <<"pointer", 0>>
Ink == <<"ink", 0>>
Keep == <<"keep", -1>>

Glyph(ch) == [k \in 0 .. H - 1 |-> IF ch = " " THEN Blank ELSE <<ch, k>>]

\* A block covers all but the last lines of its cell, an underline those.
CursorImage(shape) ==
  [k \in 0 .. H - 1 |-> IF (k = H - 1) = (shape = "underline") THEN Cursor ELSE Keep]

Paint(fb, r, c, image) ==
  [y \in Lines |->
     IF CellRow(y) # r \/ image[CellLine(y)] = Keep THEN fb[y] ELSE [fb[y] EXCEPT ![c] = image[CellLine(y)]]]

BlankLine == [x \in Cols |-> " "]

\* What the framebuffer shows of the buffer when nothing is drawn over it.
Rendered(scr) == [y \in Lines |-> [x \in Cols |-> Glyph(scr[CellRow(y)][x])[CellLine(y)]]]

Present(s) == vduModes[s.mode]

-----------------------------------------------------------------------------
\* The cursor.

\* Below the last row nothing is drawn: the framebuffer ends there.
vduDrawCell(s, r, c) ==
  IF r \in Rows THEN [s EXCEPT !.fb = Paint(@, r, c, Glyph(s.scr[r][c]))] ELSE s

showCursor(s) ==
  IF ~s.enabled \/ s.drawn THEN s
  ELSE [s EXCEPT !.fb = Paint(@, s.row, s.col, CursorImage(s.shape)), !.drawn = TRUE]

hideCursor(s) ==
  IF ~s.drawn THEN s ELSE [vduDrawCell(s, s.row, s.col) EXCEPT !.drawn = FALSE]

setCursor(s, show) ==
  LET e == [s EXCEPT !.enabled = Present(s).visibleCursor]
  IN IF ~Present(s).textMode THEN s
     ELSE IF show THEN showCursor(e) ELSE hideCursor(e)

moveCursor(s, c, r) ==
  LET hidden == hideCursor(s)
      moved == [hidden EXCEPT !.col = IF c < COLS THEN c ELSE COLS - 1,
                              !.row = IF r < ROWS THEN r ELSE ROWS - 1]
  IN IF s.drawn THEN showCursor(moved) ELSE moved

-----------------------------------------------------------------------------
\* The mouse pointer, drawn into the framebuffer over the cell it is in and
\* the next.  The routines that change the display take it off first and put
\* it back last; inside one another only the outermost does.

Covered(s) == {x \in Cols : x \in s.mcol .. s.mcol + 1}

vduMouseHideOverlay(s) ==
  LET plain == [y \in Lines |-> IF CellRow(y) # s.mrow THEN s.fb[y]
                ELSE [x \in Cols |-> IF x \in Covered(s) THEN Glyph(s.scr[s.mrow][x])[CellLine(y)]
                                     ELSE s.fb[y][x]]]
      \* Drawn again, a block covers all of its cell.
      image == IF s.shape = "block" THEN [k \in 0 .. H - 1 |-> Cursor] ELSE CursorImage(s.shape)
      redrawn == IF s.drawn /\ s.row = s.mrow /\ s.col \in Covered(s)
                 THEN Paint(plain, s.row, s.col, image) ELSE plain
  IN IF ~s.pointed THEN s
     ELSE [s EXCEPT !.fb = IF Present(s).textMode THEN redrawn ELSE @, !.pointed = FALSE]

vduMouseDrawOverlay(s) ==
  IF ~s.active \/ s.pointed \/ ~Present(s).textMode \/ s.scrollActive THEN s
  ELSE [s EXCEPT !.fb[s.mrow * H] = [x \in Cols |-> IF x \in Covered(s) THEN Pointer ELSE @[x]],
                 !.pointed = TRUE]

-----------------------------------------------------------------------------
\* Scrolling.

FbUp(fb, n) == [y \in Lines |-> IF y + n \in Lines THEN fb[y + n] ELSE [x \in Cols |-> Blank]]

Rotated(scr) == [r \in Rows |-> IF r + 1 \in Rows THEN scr[r + 1] ELSE BlankLine]

vduRedrawLine(s, r) ==
  [s EXCEPT !.fb = [y \in Lines |-> IF CellRow(y) = r THEN Rendered(s.scr)[y] ELSE @[y]]]

\* What ends a scroll, smooth or not: the buffer moves, the row that was
\* waiting becomes the cursor's, and the cursor is drawn without a hide.
EndScroll(s) ==
  showCursor(vduRedrawLine(
    [s EXCEPT !.scr = Rotated(@), !.drawn = FALSE, !.pendingRow = -1,
              !.row = IF s.pendingRow >= 0 THEN s.pendingRow ELSE @], ROWS - 1))

scrollStep(s0) ==
  LET s == vduMouseHideOverlay(s0)
      moved == [s EXCEPT !.fb = FbUp(@, 1), !.scrollPixel = @ + 1]
  IN vduMouseDrawOverlay(
       IF moved.scrollPixel # H THEN moved
       ELSE EndScroll([moved EXCEPT !.scrollPixel = 0, !.scrollActive = FALSE]))

cmdScrollUp(s) ==
  LET h == hideCursor(s)
  IN IF h.smoothScroll THEN [h EXCEPT !.scrollPixel = 0, !.scrollActive = TRUE]
     ELSE EndScroll([h EXCEPT !.fb = FbUp(@, H)])

\* Leaves the row where it is while the screen scrolls.
MutantNewline(s) ==
  LET n == [s EXCEPT !.col = 0, !.row = @ + 1]
  IN IF n.row < ROWS THEN n
     ELSE IF Present(s).autoScroll THEN cmdScrollUp(n) ELSE [n EXCEPT !.row = ROWS - 1]

cmdNewline(s) ==
  LET n == [s EXCEPT !.col = 0, !.row = @ + 1]
  IN IF n.row < ROWS THEN n
     ELSE IF Present(s).autoScroll THEN cmdScrollUp([n EXCEPT !.pendingRow = ROWS - 1])
     ELSE [n EXCEPT !.row = ROWS - 1]

vduSaveCursor(s) == [s EXCEPT !.savedRow = s.row, !.gInEditmode = TRUE]

\* Takes the pointer off only around the parts that do it themselves.
vduRestoreCursor(s) ==
  LET MoveTo(t, r) == vduMouseDrawOverlay(moveCursor(vduMouseHideOverlay(t), 0, r))
      Scrolled(t) == vduMouseDrawOverlay(cmdScrollUp(vduMouseHideOverlay(t)))
      restored ==
        IF s.savedRow # s.row THEN MoveTo(s, s.savedRow)
        ELSE IF s.savedRow = ROWS - 1
             THEN showCursor(MoveTo(Scrolled(hideCursor(s)), ROWS - 1))
             ELSE MoveTo(s, s.savedRow + 1)
  IN IF s.gInEditmode THEN [restored EXCEPT !.gInEditmode = FALSE] ELSE s

-----------------------------------------------------------------------------
\* The commands of ctrlTable and the characters.

SetLine(s, line) == [s EXCEPT !.scr[s.row] = line]

cmdDelete(s) ==
  vduRedrawLine(SetLine(s, [x \in Cols |->
    IF x = COLS - 1 THEN " " ELSE s.scr[s.row][IF x < s.col THEN x ELSE x + 1]]), s.row)

vduInsertc(s, c) ==
  vduRedrawLine(SetLine(s, [x \in Cols |->
    IF x = s.col THEN c ELSE s.scr[s.row][IF x < s.col THEN x ELSE x - 1]]), s.row)

cmdClearEOL(s) ==
  LET t == SetLine(s, [x \in Cols |-> IF x < s.col THEN s.scr[s.row][x] ELSE " "])
  IN [t EXCEPT !.fb = [y \in Lines |-> IF CellRow(y) # s.row THEN @[y]
                       ELSE [x \in Cols |-> IF x < s.col THEN @[y][x] ELSE Blank]]]

cmdCursorEOL(s) ==
  LET used == {x \in Cols : s.scr[s.row][x] # " "}
      past == {x + 1 : x \in used}
      last == CHOOSE x \in past : \A y \in past : y <= x
  IN [s EXCEPT !.col = IF used = {} THEN 0 ELSE IF last < COLS THEN last ELSE COLS - 1]

cmdClearScreen(s) ==
  setCursor(moveCursor(
    [hideCursor(s) EXCEPT !.fb = [y \in Lines |-> [x \in Cols |-> Blank]],
                          !.scr = [r \in Rows |-> BlankLine]], 0, 0), TRUE)

Controls == {"BOL", "LEFT", "DELETE", "EOL", "RIGHT", "INSERT", "CLEAREOL", "CLEAR",
             "DOWN", "OVERWRITE", "UP", "INSTANT", "SMOOTH"}

Control(s, c) ==
  CASE c = "BOL" -> [s EXCEPT !.col = 0]
    [] c = "LEFT" -> [s EXCEPT !.col = IF @ > 0 THEN @ - 1 ELSE @]
    [] c = "RIGHT" -> [s EXCEPT !.col = IF @ < COLS - 1 THEN @ + 1 ELSE @]
    [] c = "UP" -> [s EXCEPT !.row = IF @ > 0 THEN @ - 1 ELSE @]
    [] c = "DOWN" -> [s EXCEPT !.row = IF @ < ROWS - 1 THEN @ + 1 ELSE @]
    [] c = "EOL" -> cmdCursorEOL(s)
    [] c = "DELETE" -> cmdDelete(s)
    [] c = "CLEAREOL" -> cmdClearEOL(s)
    [] c = "CLEAR" -> cmdClearScreen(s)
    [] c \in {"INSERT", "OVERWRITE"} -> [s EXCEPT !.gInsertMode = c = "INSERT"]
    [] c \in {"SMOOTH", "INSTANT"} -> [s EXCEPT !.smoothScroll = c = "SMOOTH"]
    [] OTHER -> s

vduDisplayc(s, c) ==
  LET t == [s EXCEPT !.scr[s.row][s.col] = c]
  IN IF c \in Controls THEN s ELSE vduDrawCell(t, s.row, s.col)

\* No mode wraps, so the last column takes every character that follows.
Regular(s, c) ==
  LET shifted == IF s.gInsertMode /\ s.gAsScreenMode THEN vduInsertc(s, c) ELSE s
  IN [vduDisplayc(shifted, c) EXCEPT !.col = IF @ + 1 < COLS THEN @ + 1 ELSE COLS - 1]

Process(s, c) ==
  CASE c \in {"CR", "LF"} -> vduSaveCursor(cmdNewline(s))
    [] c = "BS" -> [s EXCEPT !.col = IF @ > 0 THEN @ - 1 ELSE @]
    [] c \in Controls /\ s.gAsScreenMode -> Control(s, c)
    [] OTHER -> Regular(s, c)

Finished(s) ==
  LET after[n \in 0 .. H] == IF n = 0 THEN s
                             ELSE IF after[n - 1].scrollActive THEN scrollStep(after[n - 1])
                             ELSE after[n - 1]
  IN after[H]

\* A character waits for the scroll to end, calling taskVDU.  Without text
\* mode it is drawn where the display's own cursor is; one place stands for
\* them all.
vduPutc(s0, c) ==
  LET s == vduMouseHideOverlay(Finished(s0))
  IN vduMouseDrawOverlay(
       IF Present(s).textMode THEN setCursor(Process(setCursor(s, FALSE), c), TRUE)
       ELSE [s EXCEPT !.fb[0][0] = Ink])

PutAll(s, q) ==
  LET after[n \in 0 .. Len(q)] == IF n = 0 THEN s ELSE vduPutc(after[n - 1], q[n])
  IN after[Len(q)]

vduSetMode(s0, m) ==
  LET s == vduMouseHideOverlay(s0)
  IN vduMouseDrawOverlay(
       [s EXCEPT !.mode = m,
                 !.gAsScreenMode = vduModes[m].screenMode,
                 !.smoothScroll = vduModes[m].smoothScroll,
                 !.shape = vduModes[m].cursorShape,
                 !.enabled = vduModes[m].visibleCursor])

Clear(s) == vduMouseDrawOverlay(cmdClearScreen(vduMouseHideOverlay(s)))

-----------------------------------------------------------------------------
\* After initVDU: mode 0 and a clear screen.
VduInit ==
  /\ v = Clear(vduSetMode(
       [scr |-> [r \in Rows |-> BlankLine], fb |-> [y \in Lines |-> [x \in Cols |-> Blank]],
        row |-> 0, col |-> 0, drawn |-> FALSE, enabled |-> FALSE, shape |-> "block",
        mode |-> 0, gAsScreenMode |-> FALSE, gInsertMode |-> FALSE, smoothScroll |-> FALSE,
        scrollActive |-> FALSE, scrollPixel |-> 0, pendingRow |-> -1,
        savedRow |-> -1, gInEditmode |-> FALSE,
        active |-> FALSE, pointed |-> FALSE, mrow |-> ROWS \div 2, mcol |-> COLS \div 2,
        left |-> FALSE], 0))
  /\ vdu_tx_fifo = <<>>
  /\ smudged = FALSE
  /\ events = 0

-----------------------------------------------------------------------------
\* The tasks.

Event == events < MaxEvents /\ events' = events + 1

\* The 6502 or the monitor writes a character for the display.
writeVDUQ(c) ==
  /\ Event
  /\ Len(vdu_tx_fifo) < QueueSize
  /\ vdu_tx_fifo' = Append(vdu_tx_fifo, c)
  /\ UNCHANGED <<v, smudged>>

\* taskInput puts every waiting character on the display before it returns.
taskInput ==
  /\ vdu_tx_fifo # <<>>
  /\ v' = PutAll(v, vdu_tx_fifo)
  /\ vdu_tx_fifo' = <<>>
  /\ smudged' = (smudged \/ ~Present(v).textMode)
  /\ UNCHANGED events

\* Returns while a scroll is active, before it is moved on.
MutantTaskVDU == v.scrollActive /\ UNCHANGED vduVars

\* A scanline when its time has come.
taskVDU ==
  /\ v.scrollActive
  /\ v' = scrollStep(v)
  /\ UNCHANGED <<vdu_tx_fifo, smudged, events>>

\* Moves the pointer before taking it off the display.
MutantMouse(s0, r, c, click) ==
  LET s == vduMouseHideOverlay([s0 EXCEPT !.mrow = r, !.mcol = c])
      moved == [s EXCEPT !.active = TRUE]
  IN vduMouseDrawOverlay(IF click /\ Present(s).textMode THEN moveCursor(moved, c, r) ELSE moved)

Moused(s0, r, c, click) ==
  LET s == vduMouseHideOverlay(s0)
      moved == [s EXCEPT !.active = TRUE, !.mrow = r, !.mcol = c]
  IN vduMouseDrawOverlay(IF click /\ Present(s).textMode THEN moveCursor(moved, c, r) ELSE moved)

\* A report of the mouse: it moves, its left button is pressed or released.
vduMouseUpdate(r, c, left) ==
  /\ Event
  /\ r # v.mrow \/ c # v.mcol \/ left # v.left
  /\ v' = [Moused(v, r, c, left /\ ~v.left) EXCEPT !.left = left]
  /\ smudged' = (smudged \/ (v.scrollActive /\ left /\ ~v.left))
  /\ UNCHANGED vdu_tx_fifo

\* The commands of the GDU: a mode, a sane display, a clear screen, a figure.
\* What is cleared is clean, unless a scroll goes on underneath.
cmdGDUMode(m) ==
  /\ Event
  /\ v' = vduSetMode(v, m)
  /\ UNCHANGED <<vdu_tx_fifo, smudged>>

cmdCLS ==
  /\ Event
  /\ v' = Clear(v)
  /\ smudged' = v.scrollActive
  /\ UNCHANGED vdu_tx_fifo

resetDisplay ==
  /\ Event
  /\ v' = Clear(vduSetMode(v, 0))
  /\ smudged' = v.scrollActive
  /\ UNCHANGED vdu_tx_fifo

Draw ==
  /\ Event
  /\ v' = [v EXCEPT !.fb[0][0] = Ink]
  /\ smudged' = TRUE
  /\ UNCHANGED vdu_tx_fifo

\* The Enter key in screen mode: the display's part of monitorConsoleInput.
\* The line goes to the 6502's queue, which Mailbox models.
Enter ==
  /\ Event
  /\ vdu_tx_fifo' = IF Len(vdu_tx_fifo) < QueueSize THEN Append(vdu_tx_fifo, "CR") ELSE vdu_tx_fifo
  /\ v.gAsScreenMode
  /\ v' = vduRestoreCursor(v)
  /\ smudged' = (smudged \/ v'.scrollActive)

VduNext ==
  \/ \E c \in Output \union Controls \union {" ", "CR", "BS"} : writeVDUQ(c)
  \/ taskInput
  \/ taskVDU
  \/ \E r \in Rows, c \in Cols, left \in BOOLEAN : vduMouseUpdate(r, c, left)
  \/ \E m \in Modes : cmdGDUMode(m)
  \/ cmdCLS
  \/ resetDisplay
  \/ Draw
  \/ Enter

VduSpec == VduInit /\ [][VduNext]_vduVars /\ WF_vduVars(taskVDU)

-----------------------------------------------------------------------------
\* The cursor is in the buffer, but for a newline's scroll, during which it
\* waits a row below and the row it will have is known: so every character and
\* every command finds a cell to work on (vduPutc waits for the scroll).
CursorInBuffer ==
  /\ v.col \in Cols
  /\ v.row \in Rows \/ (v.scrollActive /\ v.pendingRow = ROWS - 1)

AtCursor(s, y, x) == s.drawn /\ CellRow(y) = s.row /\ x = s.col /\ s.fb[y][x] = Cursor
AtPointer(s, y, x) == s.pointed /\ y = s.mrow * H /\ x \in Covered(s) /\ s.fb[y][x] = Pointer

\* Between scrolls the framebuffer shows the buffer, with the cursor and the
\* pointer at their places and nowhere else, whatever was typed, clicked and
\* edited, unless something was drawn that is not text, or a scroll in
\* progress was disturbed by a click, a clear screen or the Enter key.
DisplayShowsBuffer ==
  ~v.scrollActive /\ ~smudged =>
    \A y \in Lines, x \in Cols :
      v.fb[y][x] = Rendered(v.scr)[y][x] \/ AtCursor(v, y, x) \/ AtPointer(v, y, x)

\* A scroll ends: output that waits for it in vduPutc goes on.
ScrollEnds == v.scrollActive ~> ~v.scrollActive
=============================================================================
