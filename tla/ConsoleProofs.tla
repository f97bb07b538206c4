--------------------------- MODULE ConsoleProofs ---------------------------
(***************************************************************************)
(* Proofs about the two ends of the console.                               *)
(*                                                                         *)
(* The display, for any number of rows, columns and lines of a character,  *)
(* any characters and any modes: the framebuffer shows the buffer between  *)
(* scrolls, and the cursor is in it.  Each routine of vdu.cpp has a lemma  *)
(* that says what it keeps; the tasks are compositions of them.            *)
(*                                                                         *)
(* The keyboard, for any number of interfaces and records and any reports: *)
(* only a key that the selected keyboard's last report has down repeats,   *)
(* and what is typed goes where that keyboard or the monitor chose.        *)
(***************************************************************************)
EXTENDS Vdu, UsbKeyboard, SequenceTheorems, WellFoundedInduction, TLAPS

-----------------------------------------------------------------------------
\* Induction over the naturals, with a set for the hypothesis.
LEMMA SetInduction ==
  ASSUME NEW S, 0 \in S, \A n \in Nat : n \in S => n + 1 \in S
  PROVE  Nat \subseteq S
<1> SUFFICES ASSUME Nat \ S # {} PROVE FALSE
  OBVIOUS
<1> DEFINE T == Nat \ S
           R == OpToRel(<, Nat)
<1>1. IsWellFoundedOn(R, Nat)
  BY NatLessThanWellFounded
<1>2. \A x, y \in Nat : <<x, y>> \in R <=> x < y
  BY DEF OpToRel
<1>3. T \subseteq Nat /\ T # {}
  OBVIOUS
<1> HIDE DEF R, T
<1>4. PICK x \in T : \A y \in T : ~(<<y, x>> \in R)
  BY <1>1, <1>3, WFMin
<1>5. x \in Nat /\ x # 0
  BY <1>3 DEF T
<1>6. x - 1 \in Nat /\ x - 1 < x /\ (x - 1) + 1 = x
  BY <1>5
<1>7. x - 1 \notin T
  BY <1>2, <1>4, <1>5, <1>6
<1>8. x - 1 \in S
  BY <1>6, <1>7 DEF T
<1>9. x \in S
  BY <1>6, <1>8
<1> QED
  BY <1>9 DEF T

-----------------------------------------------------------------------------
\* THE DISPLAY.

\* What the record v is.  Nothing is assumed of the characters written.
Chars == Output \union Controls \union {" ", "CR", "BS"}
Pixels == (Chars \X Nat) \union {Cursor, Pointer, Ink}
Buffers == [Rows -> [Cols -> Chars]]
Framebuffers == [Lines -> [Cols -> Pixels]]

Displays ==
  [scr : Buffers, fb : Framebuffers,
   row : 0 .. ROWS, col : Cols, drawn : BOOLEAN, enabled : BOOLEAN,
   shape : {"block", "underline"}, mode : 0 .. 9, gAsScreenMode : BOOLEAN,
   gInsertMode : BOOLEAN, smoothScroll : BOOLEAN,
   scrollActive : BOOLEAN, scrollPixel : 0 .. H - 1, pendingRow : {-1, ROWS - 1},
   savedRow : -1 .. ROWS, gInEditmode : BOOLEAN,
   active : BOOLEAN, pointed : BOOLEAN, mrow : Rows, mcol : Cols, left : BOOLEAN]

\* The cursor leaves the rows only for a scroll that brings it back, and a row
\* to return to was saved before edit mode.
CursorInv(s) ==
  /\ s.row = ROWS => s.scrollActive /\ s.pendingRow = ROWS - 1
  /\ s.gInEditmode => s.savedRow >= 0

\* Lines are moved only in a scroll, and the pointer is off the display in it.
ScrollInv(s) ==
  /\ ~s.scrollActive => s.scrollPixel = 0
  /\ s.pointed => Present(s).textMode /\ ~s.scrollActive

Sane(s) == s \in Displays /\ CursorInv(s) /\ ScrollInv(s)

-----------------------------------------------------------------------------
\* Geometry: what is used of division by the height of a character.
LEMMA Times ==
  ASSUME NEW a \in Nat, NEW b \in Nat, a < b
  PROVE  a * H + H <= b * H
<1>1. PICK d \in Nat : b = a + 1 + d
  <2>1. b - a - 1 \in Nat /\ b = a + 1 + (b - a - 1)
    OBVIOUS
  <2> QED
    BY <2>1
<1>2. d * H \in Nat /\ a * H \in Nat /\ H \in Nat
  BY VduAssumption
<1>3. b * H = a * H + H + d * H
  BY <1>1, VduAssumption
<1> QED
  BY <1>2, <1>3

LEMMA Parts ==
  ASSUME NEW q \in Nat, NEW p \in Nat, NEW k \in 0 .. H - 1, NEW j \in 0 .. H - 1,
         q * H + k = p * H + j
  PROVE  q = p /\ k = j
<1>0. H \in Nat /\ q * H \in Nat /\ p * H \in Nat /\ k \in Nat /\ j \in Nat /\ k < H /\ j < H
  BY VduAssumption
<1>1. ~(q < p)
  <2> SUFFICES ASSUME q < p PROVE FALSE
    OBVIOUS
  <2>1. q * H + H <= p * H
    BY Times
  <2> QED
    BY ONLY <1>0, <2>1, q * H + k = p * H + j
<1>2. ~(p < q)
  <2> SUFFICES ASSUME p < q PROVE FALSE
    OBVIOUS
  <2>1. p * H + H <= q * H
    BY Times
  <2> QED
    BY ONLY <1>0, <2>1, q * H + k = p * H + j
<1>3. q = p
  BY <1>1, <1>2
<1> QED
  BY <1>0, <1>3

LEMMA Divided ==
  ASSUME NEW y \in Nat
  PROVE  CellRow(y) \in Nat /\ CellLine(y) \in 0 .. H - 1 /\ y = CellRow(y) * H + CellLine(y)
BY VduAssumption DEF CellRow, CellLine

LEMMA Cells ==
  /\ \A y \in Lines : y \in Nat /\ CellRow(y) \in Rows /\ CellLine(y) \in 0 .. H - 1
  /\ \A r \in Rows : r * H \in Lines /\ CellRow(r * H) = r
  /\ \A y \in Lines :
       /\ y + H \in Lines <=> CellRow(y) + 1 \in Rows
       /\ CellRow(y + H) = CellRow(y) + 1 /\ CellLine(y + H) = CellLine(y)
  /\ \A y \in Lines, n \in Nat, m \in Nat : n <= m /\ y + m \in Lines => y + n \in Lines
<1>0. ROWS \in Nat /\ H \in Nat /\ ROWS * H \in Nat /\ H > 1 /\ ROWS > 1
  BY VduAssumption
<1>1. ASSUME NEW y \in Nat
      PROVE  y \in Lines <=> CellRow(y) \in Rows
  <2> DEFINE q == CellRow(y)
             k == CellLine(y)
  <2>0. q \in Nat /\ k \in 0 .. H - 1 /\ y = q * H + k
    BY Divided
  <2>1. q \in Nat /\ k \in Nat /\ k < H /\ y = q * H + k /\ q * H \in Nat
    <3> HIDE DEF q, k
    <3> QED
      BY <1>0, <2>0
  <2> HIDE DEF q, k
  <2>2. q < ROWS => y < ROWS * H
    <3>1. q < ROWS => q * H + H <= ROWS * H
      BY <1>0, <2>1, Times
    <3> QED
      BY <1>0, <2>1, <3>1
  <2>3. ROWS <= q => ROWS * H <= q * H
    <3>1. ROWS < q => ROWS * H + H <= q * H
      BY <1>0, <2>1, Times
    <3> QED
      BY <1>0, <2>1, <3>1
  <2>4. y \in Lines <=> y < ROWS * H
    BY <1>0 DEF Lines
  <2>5. q \in Rows <=> q < ROWS
    BY <1>0, <2>1 DEF Rows
  <2>6. q < ROWS <=> y < ROWS * H
    BY <1>0, <2>1, <2>2, <2>3
  <2> QED
    BY <2>4, <2>5, <2>6 DEF q
<1>2. \A y \in Lines : y \in Nat
  BY <1>0 DEF Lines
<1>3. ASSUME NEW y \in Nat
      PROVE  CellRow(y + H) = CellRow(y) + 1 /\ CellLine(y + H) = CellLine(y)
  <2> DEFINE q == CellRow(y)
             k == CellLine(y)
             p == CellRow(y + H)
             j == CellLine(y + H)
  <2>1. /\ q \in Nat /\ k \in 0 .. H - 1 /\ y = q * H + k
        /\ p \in Nat /\ j \in 0 .. H - 1 /\ y + H = p * H + j
    BY <1>0, Divided
  <2> HIDE DEF q, k, p, j
  <2>2. (q + 1) * H = q * H + H
    BY <1>0, <2>1
  <2>3. q * H \in Nat /\ p * H \in Nat
    BY <1>0, <2>1
  <2>4. (q + 1) * H + k = p * H + j
    BY <1>0, <2>1, <2>2, <2>3
  <2>5. q + 1 = p /\ k = j
    BY <2>1, <2>4, Parts
  <2> QED
    BY <2>5 DEF q, k, p, j
<1>4. ASSUME NEW r \in Rows
      PROVE  r * H \in Lines /\ CellRow(r * H) = r
  <2>1. r \in Nat /\ r * H \in Nat /\ 0 \in 0 .. H - 1
    BY <1>0 DEF Rows
  <2>2. CellRow(r * H) \in Nat /\ CellLine(r * H) \in 0 .. H - 1
        /\ r * H + 0 = CellRow(r * H) * H + CellLine(r * H)
    BY <2>1, Divided
  <2>3. CellRow(r * H) = r
    BY <2>1, <2>2, Parts
  <2> QED
    BY <1>1, <2>1, <2>3
<1>5. ASSUME NEW y \in Lines, NEW n \in Nat, NEW m \in Nat, n <= m, y + m \in Lines
      PROVE  y + n \in Lines
  BY <1>0, <1>5 DEF Lines
<1>6. ASSUME NEW y \in Lines
      PROVE  y + H \in Lines <=> CellRow(y) + 1 \in Rows
  <2>1. y + H \in Nat
    BY <1>0, <1>2
  <2> QED
    BY <1>1, <1>2, <1>3, <2>1
<1>7. \A y \in Lines : CellRow(y) \in Rows /\ CellLine(y) \in 0 .. H - 1
  BY <1>1, <1>2, Divided
<1> QED
  BY <1>2, <1>3, <1>4, <1>5, <1>6, <1>7

-----------------------------------------------------------------------------
\* Images.
LEMMA Colours ==
  /\ Cursor \in Pixels /\ Pointer \in Pixels /\ Ink \in Pixels /\ Blank \in Pixels
  /\ Keep \notin Pixels
  /\ \A ch \in Chars, k \in 0 .. H - 1 : Glyph(ch)[k] \in Pixels
  /\ \A shape \in {"block", "underline"}, k \in 0 .. H - 1 :
       CursorImage(shape)[k] \in {Cursor, Keep}
<1>1. Blank \in Pixels
  BY DEF Pixels, Chars, Blank
<1>2. ASSUME NEW p \in Pixels
      PROVE  p # Keep
  <2>1. CASE p \in Chars \X Nat
    <3>1. p[2] \in Nat /\ Keep[2] = -1
      BY <2>1 DEF Keep
    <3> QED
      BY <3>1
  <2>2. CASE p \in {Cursor, Pointer, Ink}
    BY <2>2 DEF Cursor, Pointer, Ink, Keep
  <2> QED
    BY <2>1, <2>2 DEF Pixels
<1>3. ASSUME NEW ch \in Chars, NEW k \in 0 .. H - 1
      PROVE  Glyph(ch)[k] \in Pixels
  <2>1. k \in Nat
    BY VduAssumption
  <2>2. <<ch, k>> \in Pixels
    BY <2>1 DEF Pixels
  <2>3. Glyph(ch)[k] = IF ch = " " THEN Blank ELSE <<ch, k>>
    BY DEF Glyph
  <2> QED
    BY <1>1, <2>2, <2>3
<1>4. \A shape \in {"block", "underline"}, k \in 0 .. H - 1 :
        CursorImage(shape)[k] \in {Cursor, Keep}
  BY DEF CursorImage
<1> QED
  BY <1>1, <1>2, <1>3, <1>4 DEF Pixels

Image(i) == \A k \in 0 .. H - 1 : i[k] \in Pixels \union {Keep}

LEMMA Painted ==
  ASSUME NEW fb \in Framebuffers, NEW r, NEW c \in Cols, NEW i, Image(i)
  PROVE  /\ Paint(fb, r, c, i) \in Framebuffers
         /\ \A y \in Lines, x \in Cols :
              Paint(fb, r, c, i)[y][x] =
                IF CellRow(y) = r /\ x = c /\ i[CellLine(y)] # Keep THEN i[CellLine(y)]
                ELSE fb[y][x]
<1>1. ASSUME NEW y \in Lines
      PROVE  /\ i[CellLine(y)] \in Pixels \union {Keep} /\ fb[y] \in [Cols -> Pixels]
             /\ Paint(fb, r, c, i)[y] =
                  IF CellRow(y) # r \/ i[CellLine(y)] = Keep THEN fb[y]
                  ELSE [fb[y] EXCEPT ![c] = i[CellLine(y)]]
  <2>1. CellLine(y) \in 0 .. H - 1
    BY Cells
  <2> QED
    BY <2>1 DEF Image, Paint, Framebuffers
<1>2. ASSUME NEW y \in Lines, NEW x \in Cols
      PROVE  /\ Paint(fb, r, c, i)[y] \in [Cols -> Pixels]
             /\ Paint(fb, r, c, i)[y][x] =
                  IF CellRow(y) = r /\ x = c /\ i[CellLine(y)] # Keep THEN i[CellLine(y)]
                  ELSE fb[y][x]
  BY <1>1
<1>3. Paint(fb, r, c, i) \in Framebuffers
  <2>1. Paint(fb, r, c, i) = [y \in Lines |-> Paint(fb, r, c, i)[y]]
    BY DEF Paint
  <2>2. Cols # {}
    BY VduAssumption DEF Cols
  <2>3. \A y \in Lines : Paint(fb, r, c, i)[y] \in [Cols -> Pixels]
    BY <1>2
  <2> HIDE DEF Paint
  <2> QED
    BY <2>1, <2>3 DEF Framebuffers
<1> QED
  BY <1>2, <1>3

-----------------------------------------------------------------------------
\* What is only drawn leaves the rest of the record as it is.
Keeping(s, t) ==
  /\ t \in Displays
  /\ t.scr = s.scr
  /\ t.shape = s.shape /\ t.mode = s.mode
  /\ t.gAsScreenMode = s.gAsScreenMode /\ t.gInsertMode = s.gInsertMode
  /\ t.smoothScroll = s.smoothScroll /\ t.scrollActive = s.scrollActive
  /\ t.scrollPixel = s.scrollPixel /\ t.pendingRow = s.pendingRow
  /\ t.savedRow = s.savedRow /\ t.gInEditmode = s.gInEditmode
  /\ t.active = s.active /\ t.mrow = s.mrow /\ t.mcol = s.mcol /\ t.left = s.left

Drawing(s, t) == Keeping(s, t) /\ t.row = s.row /\ t.col = s.col

LEMMA Cell ==
  ASSUME NEW s \in Displays, NEW r, NEW c \in Cols
  PROVE  /\ Drawing(s, vduDrawCell(s, r, c))
         /\ vduDrawCell(s, r, c).drawn = s.drawn /\ vduDrawCell(s, r, c).pointed = s.pointed
         /\ vduDrawCell(s, r, c).enabled = s.enabled
         /\ \A y \in Lines, x \in Cols :
              vduDrawCell(s, r, c).fb[y][x] =
                IF r \in Rows /\ CellRow(y) = r /\ x = c THEN Glyph(s.scr[r][c])[CellLine(y)]
                ELSE s.fb[y][x]
<1>1. CASE r \notin Rows
  BY <1>1 DEF vduDrawCell, Drawing, Keeping
<1>2. CASE r \in Rows
  <2> DEFINE i == Glyph(s.scr[r][c])
             fb == Paint(s.fb, r, c, i)
             t == vduDrawCell(s, r, c)
  <2>1. s.scr[r][c] \in Chars /\ s.fb \in Framebuffers
    BY <1>2 DEF Displays, Buffers
  <2>2. Image(i) /\ \A k \in 0 .. H - 1 : i[k] # Keep
    BY <2>1, Colours DEF Image
  <2>3. /\ fb \in Framebuffers
        /\ \A y \in Lines, x \in Cols :
             fb[y][x] = IF CellRow(y) = r /\ x = c /\ i[CellLine(y)] # Keep THEN i[CellLine(y)]
                        ELSE s.fb[y][x]
    BY <2>1, <2>2, Painted
  <2>4. t = [s EXCEPT !.fb = fb]
    BY <1>2 DEF vduDrawCell
  <2> HIDE DEF fb, t, i
  <2>5. Drawing(s, t) /\ t.drawn = s.drawn /\ t.pointed = s.pointed /\ t.enabled = s.enabled /\ t.fb = fb
    BY <2>3, <2>4 DEF Drawing, Keeping, Displays
  <2>6. \A y \in Lines : i[CellLine(y)] # Keep
    BY <2>2, Cells
  <2> QED
    BY <1>2, <2>3, <2>5, <2>6 DEF t, i
<1> QED
  BY <1>1, <1>2

\* The cursor is painted in its cell, or the cell without it.
LEMMA ShowCursor ==
  ASSUME NEW s \in Displays
  PROVE  LET t == showCursor(s) IN
         /\ Drawing(s, t) /\ t.pointed = s.pointed /\ t.enabled = s.enabled
         /\ t.drawn = (s.drawn \/ s.enabled)
         /\ \A y \in Lines, x \in Cols :
              \/ t.fb[y][x] = s.fb[y][x]
              \/ t.drawn /\ CellRow(y) = s.row /\ x = s.col /\ t.fb[y][x] = Cursor
<1> DEFINE t == showCursor(s)
           i == CursorImage(s.shape)
           fb == Paint(s.fb, s.row, s.col, i)
<1>1. CASE ~s.enabled \/ s.drawn
  <2>1. t = s
    BY <1>1 DEF showCursor
  <2>2. t.drawn = (s.drawn \/ s.enabled)
    BY <1>1, <2>1 DEF Displays
  <2> QED
    BY <2>1, <2>2 DEF Drawing, Keeping
<1>2. CASE ~(~s.enabled \/ s.drawn)
  <2>1. s.fb \in Framebuffers /\ s.col \in Cols /\ s.shape \in {"block", "underline"}
    BY DEF Displays
  <2>2. \A k \in 0 .. H - 1 : i[k] \in {Cursor, Keep}
    BY <2>1, Colours
  <2>3. Image(i)
    BY <2>2, Colours DEF Image
  <2>4. /\ fb \in Framebuffers
        /\ \A y \in Lines, x \in Cols :
             fb[y][x] = IF CellRow(y) = s.row /\ x = s.col /\ i[CellLine(y)] # Keep
                        THEN i[CellLine(y)] ELSE s.fb[y][x]
    BY <2>1, <2>3, Painted
  <2>5. t = [s EXCEPT !.fb = fb, !.drawn = TRUE]
    BY <1>2 DEF showCursor
  <2> HIDE DEF fb, t, i
  <2>6. /\ Drawing(s, t) /\ t.drawn = TRUE /\ t.pointed = s.pointed /\ t.enabled = s.enabled
        /\ t.fb = fb
    BY <2>4, <2>5 DEF Drawing, Keeping, Displays
  <2>7. t.drawn = (s.drawn \/ s.enabled)
    BY <1>2, <2>6 DEF Displays
  <2>8. \A y \in Lines, x \in Cols :
          fb[y][x] = s.fb[y][x] \/ (CellRow(y) = s.row /\ x = s.col /\ fb[y][x] = Cursor)
    BY <2>2, <2>4, Cells
  <2> QED
    BY <2>6, <2>7, <2>8 DEF t
<1> QED
  BY <1>1, <1>2

LEMMA HideCursor ==
  ASSUME NEW s \in Displays
  PROVE  LET t == hideCursor(s) IN
         /\ Drawing(s, t) /\ t.pointed = s.pointed /\ t.enabled = s.enabled
         /\ t.drawn = FALSE
         /\ \A y \in Lines, x \in Cols :
              t.fb[y][x] = IF s.drawn /\ CellRow(y) = s.row /\ x = s.col
                           THEN Glyph(s.scr[s.row][s.col])[CellLine(y)] ELSE s.fb[y][x]
<1> DEFINE t == hideCursor(s)
           u == vduDrawCell(s, s.row, s.col)
<1>1. CASE ~s.drawn
  <2>1. t = s
    BY <1>1 DEF hideCursor
  <2>2. t.drawn = FALSE
    BY <1>1, <2>1 DEF Displays
  <2> QED
    BY <1>1, <2>1, <2>2 DEF Drawing, Keeping
<1>2. CASE s.drawn
  <2>1. s.col \in Cols
    BY DEF Displays
  <2>2. /\ Drawing(s, u) /\ u.pointed = s.pointed /\ u.enabled = s.enabled
        /\ \A y \in Lines, x \in Cols :
             u.fb[y][x] = IF s.row \in Rows /\ CellRow(y) = s.row /\ x = s.col
                          THEN Glyph(s.scr[s.row][s.col])[CellLine(y)] ELSE s.fb[y][x]
    BY <2>1, Cell
  <2>3. t = [u EXCEPT !.drawn = FALSE]
    BY <1>2 DEF hideCursor
  <2> HIDE DEF t, u
  <2>4. /\ Drawing(s, t) /\ t.pointed = s.pointed /\ t.enabled = s.enabled
        /\ t.drawn = FALSE /\ t.fb = u.fb
    BY <2>2, <2>3 DEF Drawing, Keeping, Displays
  <2>5. \A y \in Lines : CellRow(y) \in Rows
    BY Cells
  <2> QED
    BY <1>2, <2>2, <2>4, <2>5 DEF t
<1> QED
  BY <1>1, <1>2

-----------------------------------------------------------------------------
\* The pointer.
LEMMA DrawOverlay ==
  ASSUME NEW s \in Displays
  PROVE  LET t == vduMouseDrawOverlay(s) IN
         /\ Drawing(s, t) /\ t.drawn = s.drawn /\ t.enabled = s.enabled
         /\ t.pointed => s.pointed \/ (Present(s).textMode /\ ~s.scrollActive)
         /\ s.pointed => t.pointed
         /\ \A y \in Lines, x \in Cols :
              \/ t.fb[y][x] = s.fb[y][x]
              \/ t.pointed /\ y = s.mrow * H /\ x \in Covered(s) /\ t.fb[y][x] = Pointer
<1> DEFINE t == vduMouseDrawOverlay(s)
           Off == ~s.active \/ s.pointed \/ ~Present(s).textMode \/ s.scrollActive
           fb == [s.fb EXCEPT ![s.mrow * H] =
                    [x \in Cols |-> IF x \in Covered(s) THEN Pointer ELSE s.fb[s.mrow * H][x]]]
<1>1. CASE Off
  <2>1. t = s
    BY <1>1 DEF vduMouseDrawOverlay
  <2> QED
    BY <2>1 DEF Drawing, Keeping
<1>2. CASE ~Off
  <2>1. s.fb \in Framebuffers /\ s.mrow * H \in Lines
    BY Cells DEF Displays
  <2>2. fb \in Framebuffers
    <3>1. \A x \in Cols : s.fb[s.mrow * H][x] \in Pixels
      BY <2>1 DEF Framebuffers
    <3>2. [x \in Cols |-> IF x \in Covered(s) THEN Pointer ELSE s.fb[s.mrow * H][x]]
            \in [Cols -> Pixels]
      BY <3>1, Colours
    <3> QED
      BY <2>1, <3>2 DEF Framebuffers
  <2>3. \A y \in Lines, x \in Cols :
          \/ fb[y][x] = s.fb[y][x]
          \/ y = s.mrow * H /\ x \in Covered(s) /\ fb[y][x] = Pointer
    BY <2>1 DEF Framebuffers
  <2>4. t = [s EXCEPT !.fb = fb, !.pointed = TRUE]
    BY <1>2 DEF vduMouseDrawOverlay
  <2>5. Present(s).textMode /\ ~s.scrollActive
    BY <1>2
  <2> HIDE DEF fb, t
  <2>6. /\ Drawing(s, t) /\ t.drawn = s.drawn /\ t.enabled = s.enabled
        /\ t.fb = fb /\ t.pointed
    BY <2>2, <2>4 DEF Drawing, Keeping, Displays
  <2> QED
    BY <2>3, <2>5, <2>6 DEF t
<1> QED
  BY <1>1, <1>2

LEMMA HideOverlay ==
  ASSUME NEW s \in Displays
  PROVE  LET t == vduMouseHideOverlay(s)
             On(y, x) == /\ s.pointed /\ Present(s).textMode
                         /\ CellRow(y) = s.mrow /\ x \in Covered(s) IN
         /\ Drawing(s, t) /\ t.drawn = s.drawn /\ t.enabled = s.enabled
         /\ t.pointed = FALSE
         /\ \A y \in Lines, x \in Cols :
              /\ ~On(y, x) => t.fb[y][x] = s.fb[y][x]
              /\ On(y, x) =>
                   \/ t.fb[y][x] = Glyph(s.scr[s.mrow][x])[CellLine(y)]
                   \/ s.drawn /\ CellRow(y) = s.row /\ x = s.col /\ t.fb[y][x] = Cursor
<1> DEFINE t == vduMouseHideOverlay(s)
           On(y, x) == /\ s.pointed /\ Present(s).textMode
                       /\ CellRow(y) = s.mrow /\ x \in Covered(s)
<1>1. CASE ~s.pointed
  <2>1. t = s
    BY <1>1 DEF vduMouseHideOverlay
  <2>2. t.pointed = FALSE
    BY <1>1, <2>1 DEF Displays
  <2> QED
    BY <1>1, <2>1, <2>2 DEF Drawing, Keeping
<1>2. CASE s.pointed
  <2> DEFINE plain == [y \in Lines |-> IF CellRow(y) # s.mrow THEN s.fb[y]
                       ELSE [x \in Cols |-> IF x \in Covered(s)
                                            THEN Glyph(s.scr[s.mrow][x])[CellLine(y)]
                                            ELSE s.fb[y][x]]]
             i == IF s.shape = "block" THEN [k \in 0 .. H - 1 |-> Cursor] ELSE CursorImage(s.shape)
             Over == s.drawn /\ s.row = s.mrow /\ s.col \in Covered(s)
             redrawn == IF Over THEN Paint(plain, s.row, s.col, i) ELSE plain
             fb == IF Present(s).textMode THEN redrawn ELSE s.fb
  <2>1. /\ s.fb \in Framebuffers /\ s.col \in Cols /\ s.mrow \in Rows
        /\ \A x \in Cols : s.scr[s.mrow][x] \in Chars
    BY DEF Displays, Buffers
  <2>2. ASSUME NEW y \in Lines
        PROVE  plain[y] \in [Cols -> Pixels]
    <3>1. CellLine(y) \in 0 .. H - 1 /\ s.fb[y] \in [Cols -> Pixels]
      BY <2>1, Cells DEF Framebuffers
    <3>2. \A x \in Cols : Glyph(s.scr[s.mrow][x])[CellLine(y)] \in Pixels
      BY <2>1, <3>1, Colours
    <3> QED
      BY <3>1, <3>2
  <2>3. plain \in Framebuffers
    BY <2>2 DEF Framebuffers
  <2>4. \A y \in Lines, x \in Cols :
          plain[y][x] = IF CellRow(y) = s.mrow /\ x \in Covered(s)
                        THEN Glyph(s.scr[s.mrow][x])[CellLine(y)] ELSE s.fb[y][x]
    OBVIOUS
  <2>5. \A k \in 0 .. H - 1 : i[k] \in {Cursor, Keep}
    BY Colours DEF Displays
  <2>6. Image(i)
    BY <2>5, Colours DEF Image
  <2> HIDE DEF plain, i
  <2>7. /\ redrawn \in Framebuffers
        /\ \A y \in Lines, x \in Cols :
             \/ redrawn[y][x] = plain[y][x]
             \/ Over /\ CellRow(y) = s.row /\ x = s.col /\ redrawn[y][x] = Cursor
    <3>1. CASE ~Over
      BY <2>3, <3>1
    <3>2. CASE Over
      <4>1. /\ redrawn \in Framebuffers
            /\ \A y \in Lines, x \in Cols :
                 redrawn[y][x] = IF CellRow(y) = s.row /\ x = s.col /\ i[CellLine(y)] # Keep
                                 THEN i[CellLine(y)] ELSE plain[y][x]
        BY <2>1, <2>3, <2>6, <3>2, Painted
      <4>2. \A y \in Lines : i[CellLine(y)] \in {Cursor, Keep}
        BY <2>5, Cells
      <4> QED
        BY <3>2, <4>1, <4>2
    <3> QED
      BY <3>1, <3>2
  <2> HIDE DEF redrawn
  <2>8. t = [s EXCEPT !.fb = fb, !.pointed = FALSE]
    BY <1>2 DEF vduMouseHideOverlay, redrawn, plain, i
  <2>9. fb \in Framebuffers
    BY <2>1, <2>7
  <2>10. ASSUME NEW y \in Lines, NEW x \in Cols
         PROVE  /\ ~On(y, x) => fb[y][x] = s.fb[y][x]
                /\ On(y, x) =>
                     \/ fb[y][x] = Glyph(s.scr[s.mrow][x])[CellLine(y)]
                     \/ s.drawn /\ CellRow(y) = s.row /\ x = s.col /\ fb[y][x] = Cursor
    BY <1>2, <2>4, <2>7
  <2> HIDE DEF fb, t
  <2>11. /\ Drawing(s, t) /\ t.drawn = s.drawn /\ t.enabled = s.enabled
         /\ t.fb = fb /\ t.pointed = FALSE
    BY <2>8, <2>9 DEF Drawing, Keeping, Displays
  <2> QED
    BY <2>10, <2>11 DEF t
<1> QED
  BY <1>1, <1>2

-----------------------------------------------------------------------------
\* What the display should show of the buffer: the text, moved up by the lines
\* scrolled so far.
Pic(s, y, x) ==
  IF y + s.scrollPixel \in Lines
  THEN Glyph(s.scr[CellRow(y + s.scrollPixel)][x])[CellLine(y + s.scrollPixel)] ELSE Blank

\* It shows that, the cursor and the pointer, and in a scroll no cursor.
Shows(s) ==
  /\ \A y \in Lines, x \in Cols :
       s.fb[y][x] = Pic(s, y, x) \/ AtCursor(s, y, x) \/ AtPointer(s, y, x)
  /\ s.scrollActive /\ s.drawn => s.row = ROWS

\* A cursor drawn now is not left behind in a scroll.
Below(s) == s.scrollActive => s.row = ROWS

LEMMA PicAtRest ==
  ASSUME NEW s, s.scrollPixel = 0, NEW y \in Lines, NEW x \in Cols
  PROVE  Pic(s, y, x) = Glyph(s.scr[CellRow(y)][x])[CellLine(y)]
<1>1. y + s.scrollPixel = y
  BY Cells
<1> QED
  BY <1>1 DEF Pic

LEMMA DrawingSane ==
  ASSUME NEW s, NEW t, Sane(s), Drawing(s, t),
         t.pointed => s.pointed \/ (Present(s).textMode /\ ~s.scrollActive)
  PROVE  Sane(t)
BY DEF Sane, Drawing, Keeping, CursorInv, ScrollInv, Present

LEMMA DrawingPic ==
  ASSUME NEW s, NEW t, Keeping(s, t), NEW y, NEW x
  PROVE  Pic(t, y, x) = Pic(s, y, x) /\ Covered(t) = Covered(s)
BY DEF Keeping, Pic, Covered

\* No cell of the framebuffer is below the last row.
LEMMA InRows ==
  ASSUME NEW s, s.scrollActive /\ s.drawn => s.row = ROWS, s.scrollActive,
         NEW y \in Lines, NEW x
  PROVE  ~AtCursor(s, y, x)
<1>1. CellRow(y) # ROWS
  BY Cells, VduAssumption DEF Rows
<1> QED
  BY <1>1 DEF AtCursor

LEMMA ShowKeeps ==
  ASSUME NEW s, Sane(s)
  PROVE  /\ Sane(showCursor(s))
         /\ Shows(s) /\ Below(s) => Shows(showCursor(s))
<1> DEFINE t == showCursor(s)
<1>1. /\ Drawing(s, t) /\ t.pointed = s.pointed /\ t.drawn = (s.drawn \/ s.enabled)
      /\ s.drawn \in BOOLEAN /\ s.enabled \in BOOLEAN
      /\ \A y \in Lines, x \in Cols :
           \/ t.fb[y][x] = s.fb[y][x]
           \/ t.drawn /\ CellRow(y) = s.row /\ x = s.col /\ t.fb[y][x] = Cursor
  BY ShowCursor DEF Sane, Displays
<1> HIDE DEF t
<1>2. Sane(t)
  BY <1>1, DrawingSane
<1>3. ASSUME Shows(s), Below(s)
      PROVE  Shows(t)
  <2>1. ASSUME NEW y \in Lines, NEW x \in Cols
        PROVE  t.fb[y][x] = Pic(t, y, x) \/ AtCursor(t, y, x) \/ AtPointer(t, y, x)
    <3>1. Pic(t, y, x) = Pic(s, y, x) /\ Covered(t) = Covered(s)
      BY <1>1, DrawingPic DEF Drawing
    <3>2. s.fb[y][x] = Pic(s, y, x) \/ AtCursor(s, y, x) \/ AtPointer(s, y, x)
      BY <1>3 DEF Shows
    <3> QED
      BY <1>1, <3>1, <3>2 DEF AtCursor, AtPointer, Drawing, Keeping
  <2>2. t.scrollActive => t.row = ROWS
    BY <1>1, <1>3 DEF Drawing, Keeping, Below
  <2> QED
    BY <2>1, <2>2 DEF Shows
<1> QED
  BY <1>2, <1>3 DEF t

LEMMA HideKeeps ==
  ASSUME NEW s \in Displays, ScrollInv(s)
  PROVE  /\ Sane(s) => Sane(hideCursor(s))
         /\ Shows(s) => Shows(hideCursor(s))
<1> DEFINE t == hideCursor(s)
<1>1. /\ Drawing(s, t) /\ t.pointed = s.pointed /\ t.drawn = FALSE
      /\ \A y \in Lines, x \in Cols :
           t.fb[y][x] = IF s.drawn /\ CellRow(y) = s.row /\ x = s.col
                        THEN Glyph(s.scr[s.row][s.col])[CellLine(y)] ELSE s.fb[y][x]
  BY HideCursor
<1> HIDE DEF t
<1>2. Sane(s) => Sane(t)
  BY <1>1, DrawingSane
<1>3. ASSUME Shows(s)
      PROVE  Shows(t)
  <2>1. ASSUME NEW y \in Lines, NEW x \in Cols
        PROVE  t.fb[y][x] = Pic(t, y, x) \/ AtPointer(t, y, x)
    <3>1. Pic(t, y, x) = Pic(s, y, x) /\ Covered(t) = Covered(s)
      BY <1>1, DrawingPic DEF Drawing
    <3>2. s.fb[y][x] = Pic(s, y, x) \/ AtCursor(s, y, x) \/ AtPointer(s, y, x)
      BY <1>3 DEF Shows
    <3>3. CASE s.drawn /\ CellRow(y) = s.row /\ x = s.col
      <4>1. s.row # ROWS
        <5>1. s.row \in Rows
          BY <3>3, Cells
        <5> QED
          BY <5>1, VduAssumption DEF Rows
      <4>2. ~s.scrollActive
        BY <1>3, <3>3, <4>1 DEF Shows
      <4>3. Pic(s, y, x) = Glyph(s.scr[CellRow(y)][x])[CellLine(y)]
        BY <4>2, PicAtRest DEF ScrollInv
      <4> QED
        BY <1>1, <3>1, <3>3, <4>3
    <3>4. CASE ~(s.drawn /\ CellRow(y) = s.row /\ x = s.col)
      BY <1>1, <3>1, <3>2, <3>4 DEF AtCursor, AtPointer, Drawing, Keeping
    <3> QED
      BY <3>3, <3>4
  <2> QED
    BY <1>1, <2>1 DEF Shows
<1> QED
  BY <1>2, <1>3 DEF t

LEMMA DrawOverlayKeeps ==
  ASSUME NEW s, Sane(s)
  PROVE  /\ Sane(vduMouseDrawOverlay(s))
         /\ Shows(s) => Shows(vduMouseDrawOverlay(s))
<1> DEFINE t == vduMouseDrawOverlay(s)
<1>1. /\ Drawing(s, t) /\ t.drawn = s.drawn
      /\ t.pointed => s.pointed \/ (Present(s).textMode /\ ~s.scrollActive)
      /\ s.pointed => t.pointed
      /\ \A y \in Lines, x \in Cols :
           \/ t.fb[y][x] = s.fb[y][x]
           \/ t.pointed /\ y = s.mrow * H /\ x \in Covered(s) /\ t.fb[y][x] = Pointer
  BY DrawOverlay DEF Sane
<1> HIDE DEF t
<1>2. Sane(t)
  BY <1>1, DrawingSane
<1>3. ASSUME Shows(s)
      PROVE  Shows(t)
  <2>1. ASSUME NEW y \in Lines, NEW x \in Cols
        PROVE  t.fb[y][x] = Pic(t, y, x) \/ AtCursor(t, y, x) \/ AtPointer(t, y, x)
    <3>1. Pic(t, y, x) = Pic(s, y, x) /\ Covered(t) = Covered(s)
      BY <1>1, DrawingPic DEF Drawing
    <3>2. s.fb[y][x] = Pic(s, y, x) \/ AtCursor(s, y, x) \/ AtPointer(s, y, x)
      BY <1>3 DEF Shows
    <3> QED
      BY <1>1, <3>1, <3>2 DEF AtCursor, AtPointer, Drawing, Keeping
  <2> QED
    BY <1>1, <1>3, <2>1 DEF Shows, Drawing, Keeping
<1> QED
  BY <1>2, <1>3 DEF t

LEMMA HideOverlayKeeps ==
  ASSUME NEW s, Sane(s)
  PROVE  /\ Sane(vduMouseHideOverlay(s))
         /\ Shows(s) => Shows(vduMouseHideOverlay(s))
<1> DEFINE t == vduMouseHideOverlay(s)
           On(y, x) == /\ s.pointed /\ Present(s).textMode
                       /\ CellRow(y) = s.mrow /\ x \in Covered(s)
<1>1. /\ Drawing(s, t) /\ t.drawn = s.drawn /\ t.pointed = FALSE
      /\ \A y \in Lines, x \in Cols :
           /\ ~On(y, x) => t.fb[y][x] = s.fb[y][x]
           /\ On(y, x) =>
                \/ t.fb[y][x] = Glyph(s.scr[s.mrow][x])[CellLine(y)]
                \/ s.drawn /\ CellRow(y) = s.row /\ x = s.col /\ t.fb[y][x] = Cursor
  BY HideOverlay DEF Sane
<1> HIDE DEF t
<1>2. Sane(t)
  BY <1>1, DrawingSane
<1>3. ASSUME Shows(s)
      PROVE  Shows(t)
  <2>1. ASSUME NEW y \in Lines, NEW x \in Cols
        PROVE  t.fb[y][x] = Pic(t, y, x) \/ AtCursor(t, y, x)
    <3>1. Pic(t, y, x) = Pic(s, y, x)
      BY <1>1, DrawingPic DEF Drawing
    <3>2. s.fb[y][x] = Pic(s, y, x) \/ AtCursor(s, y, x) \/ AtPointer(s, y, x)
      BY <1>3 DEF Shows
    <3>3. CASE On(y, x)
      <4>1. s.scrollPixel = 0
        BY <3>3 DEF Sane, ScrollInv
      <4>2. Pic(s, y, x) = Glyph(s.scr[CellRow(y)][x])[CellLine(y)]
        BY <4>1, PicAtRest
      <4> QED
        BY <1>1, <3>1, <3>3, <4>2 DEF AtCursor, Drawing, Keeping
    <3>4. CASE ~On(y, x)
      <4>1. ~AtPointer(s, y, x)
        <5>1. s.pointed => Present(s).textMode
          BY DEF Sane, ScrollInv
        <5>2. s.mrow \in Rows
          BY DEF Sane, Displays
        <5>3. CellRow(s.mrow * H) = s.mrow
          BY <5>2, Cells
        <5> QED
          BY <3>4, <5>1, <5>3 DEF AtPointer
      <4>2. t.fb[y][x] = s.fb[y][x]
        BY <1>1, <3>4
      <4> QED
        BY <1>1, <3>1, <3>2, <4>1, <4>2 DEF AtCursor, Drawing, Keeping
    <3> QED
      BY <3>3, <3>4
  <2> QED
    BY <1>1, <1>3, <2>1 DEF Shows, Drawing, Keeping
<1> QED
  BY <1>2, <1>3 DEF t

LEMMA ModeColumns ==
  ASSUME NEW m \in 0 .. 9
  PROVE  /\ vduModes[m].visibleCursor \in BOOLEAN /\ vduModes[m].screenMode \in BOOLEAN
         /\ vduModes[m].smoothScroll \in BOOLEAN
         /\ vduModes[m].cursorShape \in {"block", "underline"}
<1> DEFINE a == m \notin {6, 8}
           b == m \in {0, 1, 2, 3, 4, 7}
           c == m \in {0, 1}
           d == m \in {0, 1, 2, 3, 7}
           e == IF m \in {0, 2, 7} THEN "block" ELSE "underline"
<1>1. vduModes[m] = [textMode |-> a, autoScroll |-> b, smoothScroll |-> c, screenMode |-> c,
                     visibleCursor |-> d, cursorShape |-> e]
  BY DEF vduModes
<1>2. c \in BOOLEAN /\ d \in BOOLEAN /\ e \in {"block", "underline"}
  OBVIOUS
<1> HIDE DEF a, b, c, d, e
<1> QED
  BY <1>1, <1>2

\* Drawing the cursor as the mode has it, or taking it off.
LEMMA SetCursor ==
  ASSUME NEW s, Sane(s), NEW show \in BOOLEAN
  PROVE  LET t == setCursor(s, show) IN
         /\ Sane(t) /\ Drawing(s, t) /\ t.pointed = s.pointed
         /\ Shows(s) /\ (show => Below(s)) => Shows(t)
         /\ ~show /\ Present(s).textMode => t.drawn = FALSE
<1> DEFINE t == setCursor(s, show)
           e == [s EXCEPT !.enabled = Present(s).visibleCursor]
<1>1. CASE ~Present(s).textMode
  <2>1. t = s
    BY <1>1 DEF setCursor
  <2> QED
    BY <1>1, <2>1 DEF Drawing, Keeping, Sane
<1>2. CASE Present(s).textMode
  <2>1. t = IF show THEN showCursor(e) ELSE hideCursor(e)
    BY <1>2 DEF setCursor
  <2>2. s \in Displays /\ Present(s).visibleCursor \in BOOLEAN
    <3>1. s.mode \in 0 .. 9
      BY DEF Sane, Displays
    <3> QED
      BY <3>1, ModeColumns DEF Sane, Present
  <2> HIDE DEF t
  <2>3. Drawing(s, e) /\ e.pointed = s.pointed /\ e.drawn = s.drawn /\ e.fb = s.fb
    BY <2>2 DEF Drawing, Keeping, Displays
  <2> HIDE DEF e
  <2>4. Sane(e)
    BY <2>3, DrawingSane
  <2>5. Shows(s) => Shows(e)
    <3>1. \A y, x : Pic(e, y, x) = Pic(s, y, x) /\ Covered(e) = Covered(s)
      BY <2>3, DrawingPic DEF Drawing
    <3> QED
      BY <2>3, <3>1 DEF Shows, AtCursor, AtPointer, Drawing, Keeping
  <2>6. Below(s) => Below(e)
    BY <2>3 DEF Below, Drawing, Keeping
  <2>7. CASE show
    <3>1. /\ Sane(t) /\ Drawing(e, t) /\ t.pointed = e.pointed
          /\ Shows(e) /\ Below(e) => Shows(t)
      BY <2>1, <2>4, <2>7, ShowCursor, ShowKeeps DEF Sane
    <3> QED
      BY <2>3, <2>5, <2>6, <2>7, <3>1 DEF Drawing, Keeping, t
  <2>8. CASE ~show
    <3>1. /\ Sane(t) /\ Drawing(e, t) /\ t.pointed = e.pointed /\ t.drawn = FALSE
          /\ Shows(e) => Shows(t)
      BY <2>1, <2>4, <2>8, HideCursor, HideKeeps DEF Sane
    <3> QED
      BY <2>3, <2>5, <2>8, <3>1 DEF Drawing, Keeping, t
  <2> QED
    BY <2>7, <2>8
<1> QED
  BY <1>1, <1>2

\* The cursor put in another cell of the buffer.
LEMMA MoveCursor ==
  ASSUME NEW s, Sane(s), NEW c \in Nat, NEW r \in Nat
  PROVE  LET t == moveCursor(s, c, r) IN
         /\ Sane(t) /\ Keeping(s, t) /\ t.pointed = s.pointed /\ t.row \in Rows
         /\ Shows(s) /\ ~s.scrollActive => Shows(t)
<1> DEFINE t == moveCursor(s, c, r)
           h == hideCursor(s)
           m == [h EXCEPT !.col = IF c < COLS THEN c ELSE COLS - 1,
                          !.row = IF r < ROWS THEN r ELSE ROWS - 1]
<1>1. /\ Sane(h) /\ Drawing(s, h) /\ h.pointed = s.pointed /\ h.drawn = FALSE
      /\ Shows(s) => Shows(h)
  BY HideCursor, HideKeeps DEF Sane
<1>2. t = IF s.drawn THEN showCursor(m) ELSE m
  BY DEF moveCursor
<1> HIDE DEF h, t
<1>3. /\ m.row \in Rows /\ m.col \in Cols /\ ROWS \notin Rows
      /\ \A i \in Rows : i \in 0 .. ROWS
  BY <1>1, VduAssumption DEF Rows, Cols, Drawing, Keeping, Displays
<1>4. /\ Keeping(s, m) /\ m.pointed = s.pointed /\ m.drawn = FALSE /\ m.fb = h.fb
      /\ m.row \in Rows
  <2> DEFINE a == IF c < COLS THEN c ELSE COLS - 1
             b == IF r < ROWS THEN r ELSE ROWS - 1
  <2>1. a \in Cols /\ b \in Rows /\ b \in 0 .. ROWS
    BY VduAssumption DEF Rows, Cols
  <2>2. m = [h EXCEPT !.col = a, !.row = b]
    OBVIOUS
  <2> HIDE DEF a, b, m
  <2> QED
    BY <1>1, <2>1, <2>2 DEF Drawing, Keeping, Displays
<1> HIDE DEF m
<1>5. Sane(m)
  BY <1>3, <1>4 DEF Sane, Keeping, CursorInv, ScrollInv, Present
<1>6. Shows(s) /\ ~s.scrollActive => Shows(m) /\ Below(m)
  <2>1. \A y, x : Pic(m, y, x) = Pic(s, y, x) /\ Covered(m) = Covered(s)
    BY <1>4, DrawingPic
  <2>2. \A y, x : Pic(h, y, x) = Pic(s, y, x) /\ Covered(h) = Covered(s)
    BY <1>1, DrawingPic DEF Drawing
  <2> QED
    BY <1>1, <1>4, <2>1, <2>2 DEF Shows, Below, AtCursor, AtPointer, Drawing, Keeping
<1>7. CASE s.drawn
  <2>1. /\ Sane(t) /\ Drawing(m, t) /\ t.pointed = m.pointed
        /\ Shows(m) /\ Below(m) => Shows(t)
    BY <1>2, <1>5, <1>7, ShowCursor, ShowKeeps DEF Sane
  <2> QED
    BY <1>4, <1>6, <2>1 DEF Drawing, Keeping, t
<1>8. CASE ~s.drawn
  BY <1>2, <1>4, <1>5, <1>6, <1>8 DEF t
<1> QED
  BY <1>7, <1>8

-----------------------------------------------------------------------------
\* Scrolling.
LEMMA Redrawn ==
  ASSUME NEW s \in Displays, NEW r \in Rows
  PROVE  LET t == vduRedrawLine(s, r) IN
         /\ Drawing(s, t) /\ t.pointed = s.pointed /\ t.drawn = s.drawn /\ t.enabled = s.enabled
         /\ \A y \in Lines, x \in Cols :
              t.fb[y][x] = IF CellRow(y) = r THEN Glyph(s.scr[r][x])[CellLine(y)] ELSE s.fb[y][x]
<1> DEFINE t == vduRedrawLine(s, r)
           fb == [y \in Lines |-> IF CellRow(y) = r THEN Rendered(s.scr)[y] ELSE s.fb[y]]
<1>1. s.fb \in Framebuffers /\ \A x \in Cols : s.scr[r][x] \in Chars
  BY DEF Displays, Buffers
<1>2. ASSUME NEW y \in Lines
      PROVE  /\ CellRow(y) = r => Rendered(s.scr)[y] \in [Cols -> Pixels]
             /\ CellRow(y) = r => \A x \in Cols :
                  Rendered(s.scr)[y][x] = Glyph(s.scr[r][x])[CellLine(y)]
  <2>1. CellLine(y) \in 0 .. H - 1
    BY Cells
  <2>2. \A x \in Cols : Glyph(s.scr[r][x])[CellLine(y)] \in Pixels
    BY <1>1, <2>1, Colours
  <2>3. Rendered(s.scr)[y] = [x \in Cols |-> Glyph(s.scr[CellRow(y)][x])[CellLine(y)]]
    BY DEF Rendered
  <2> QED
    BY <2>2, <2>3
<1>3. fb \in Framebuffers
  BY <1>1, <1>2 DEF Framebuffers
<1>4. \A y \in Lines, x \in Cols :
        fb[y][x] = IF CellRow(y) = r THEN Glyph(s.scr[r][x])[CellLine(y)] ELSE s.fb[y][x]
  BY <1>2
<1>5. t = [s EXCEPT !.fb = fb]
  BY DEF vduRedrawLine
<1> HIDE DEF fb, t
<1>6. /\ Drawing(s, t) /\ t.pointed = s.pointed /\ t.drawn = s.drawn /\ t.enabled = s.enabled
      /\ t.fb = fb
  BY <1>3, <1>5 DEF Drawing, Keeping, Displays
<1> QED
  BY <1>4, <1>6 DEF t

LEMMA MovedUp ==
  ASSUME NEW fb \in Framebuffers, NEW n \in Nat
  PROVE  /\ FbUp(fb, n) \in Framebuffers
         /\ \A y \in Lines, x \in Cols :
              FbUp(fb, n)[y][x] = IF y + n \in Lines THEN fb[y + n][x] ELSE Blank
<1>1. \A y \in Lines : (IF y + n \in Lines THEN fb[y + n] ELSE [x \in Cols |-> Blank])
                         \in [Cols -> Pixels]
  BY Colours DEF Framebuffers
<1>2. FbUp(fb, n) \in Framebuffers
  BY <1>1 DEF FbUp, Framebuffers
<1> QED
  BY <1>2 DEF FbUp

\* What is needed before the buffer is moved up: the row has a place in it.
Turning(s) ==
  /\ s \in Displays
  /\ s.row = ROWS => s.pendingRow = ROWS - 1
  /\ s.gInEditmode => s.savedRow >= 0
  /\ ScrollInv(s)

\* The display is a row ahead of the buffer.
Scrolled(s) ==
  \A y \in Lines, x \in Cols :
    CellRow(y) + 1 \in Rows => s.fb[y][x] = Glyph(s.scr[CellRow(y) + 1][x])[CellLine(y)]

\* What a scroll leaves alone.
Control3(s, t) ==
  /\ t.mode = s.mode /\ t.gAsScreenMode = s.gAsScreenMode /\ t.gInsertMode = s.gInsertMode
  /\ t.savedRow = s.savedRow /\ t.gInEditmode = s.gInEditmode

LEMMA Ended ==
  ASSUME NEW s, Turning(s)
  PROVE  LET t == EndScroll(s) IN
         /\ Sane(t) /\ Control3(s, t) /\ t.row \in Rows
         /\ t.scrollActive = s.scrollActive /\ t.pointed = s.pointed
         /\ Scrolled(s) /\ ~s.scrollActive /\ ~s.pointed => Shows(t)
<1> DEFINE t == EndScroll(s)
           row == IF s.pendingRow >= 0 THEN s.pendingRow ELSE s.row
           a == [s EXCEPT !.scr = Rotated(s.scr), !.drawn = FALSE, !.pendingRow = -1, !.row = row]
           b == vduRedrawLine(a, ROWS - 1)
<1>1. t = showCursor(b)
  BY DEF EndScroll
<1>2. row \in Rows /\ row \in 0 .. ROWS /\ row # ROWS /\ ROWS - 1 \in Rows
  BY VduAssumption DEF Turning, Displays, Rows
<1>3. Rotated(s.scr) \in Buffers
  <2>1. \A r \in Rows : (IF r + 1 \in Rows THEN s.scr[r + 1] ELSE BlankLine) \in [Cols -> Chars]
    BY DEF Turning, Displays, Buffers, BlankLine, Chars
  <2> QED
    BY <2>1 DEF Rotated, Buffers
<1> HIDE DEF row
<1>4. /\ a \in Displays /\ a.row = row /\ a.scr = Rotated(s.scr) /\ a.fb = s.fb /\ a.drawn = FALSE
      /\ Control3(s, a) /\ a.scrollActive = s.scrollActive /\ a.pointed = s.pointed
      /\ a.scrollPixel = s.scrollPixel
  BY <1>2, <1>3 DEF Turning, Displays, Control3
<1> HIDE DEF a, t
<1>5. Sane(a)
  BY <1>2, <1>4 DEF Sane, Turning, CursorInv, ScrollInv, Control3, Present
<1>6. /\ Drawing(a, b) /\ b.pointed = a.pointed /\ b.drawn = a.drawn
      /\ \A y \in Lines, x \in Cols :
           b.fb[y][x] = IF CellRow(y) = ROWS - 1 THEN Glyph(a.scr[ROWS - 1][x])[CellLine(y)]
                        ELSE a.fb[y][x]
  BY <1>2, <1>4, Redrawn
<1> HIDE DEF b
<1>7. Sane(b)
  BY <1>5, <1>6, DrawingSane
<1>8. /\ Sane(t) /\ Drawing(b, t) /\ t.pointed = b.pointed
      /\ Shows(b) /\ Below(b) => Shows(t)
  BY <1>1, <1>7, ShowCursor, ShowKeeps DEF Sane
<1>9. ASSUME Scrolled(s), ~s.scrollActive, ~s.pointed
      PROVE  Shows(b) /\ Below(b)
  <2>1. ~b.scrollActive /\ b.scrollPixel = 0
    BY <1>4, <1>6, <1>9 DEF Drawing, Keeping, Turning, ScrollInv
  <2>2. ASSUME NEW y \in Lines, NEW x \in Cols
        PROVE  b.fb[y][x] = Pic(b, y, x)
    <3>1. Pic(b, y, x) = Glyph(b.scr[CellRow(y)][x])[CellLine(y)] /\ b.scr = a.scr
      BY <1>6, <2>1, PicAtRest DEF Drawing, Keeping
    <3>2. CellRow(y) \in Rows
      BY Cells
    <3>3. CASE CellRow(y) = ROWS - 1
      BY <1>6, <3>1, <3>3
    <3>4. CASE CellRow(y) # ROWS - 1
      <4>1. CellRow(y) + 1 \in Rows
        BY <3>2, <3>4, VduAssumption DEF Rows
      <4>2. a.scr[CellRow(y)] = s.scr[CellRow(y) + 1]
        BY <1>4, <3>2, <4>1 DEF Rotated
      <4>3. s.fb[y][x] = Glyph(s.scr[CellRow(y) + 1][x])[CellLine(y)]
        BY <1>9, <4>1 DEF Scrolled
      <4> QED
        BY <1>4, <1>6, <3>1, <3>4, <4>2, <4>3
    <3> QED
      BY <3>3, <3>4
  <2> QED
    BY <2>1, <2>2 DEF Shows, Below
<1> QED
  BY <1>2, <1>4, <1>6, <1>8, <1>9 DEF Control3, Drawing, Keeping, t

\* One line of a smooth scroll.
LEMMA ScrollStep ==
  ASSUME NEW s, Sane(s), s.scrollActive
  PROVE  LET t == scrollStep(s) IN
         /\ Sane(t) /\ Control3(s, t)
         /\ Shows(s) => Shows(t)
         /\ t.scrollActive => t.scrollPixel = s.scrollPixel + 1
<1> DEFINE t == scrollStep(s)
           k == s.scrollPixel
           fb == FbUp(s.fb, 1)
           m == [s EXCEPT !.fb = fb, !.scrollPixel = k + 1]
           u == [m EXCEPT !.scrollPixel = 0, !.scrollActive = FALSE]
<1>1. s \in Displays /\ ~s.pointed /\ k \in Nat /\ k <= H - 1 /\ H \in Nat
  BY VduAssumption DEF Sane, ScrollInv, Displays
<1>2. vduMouseHideOverlay(s) = s
  BY <1>1 DEF vduMouseHideOverlay
<1>3. t = vduMouseDrawOverlay(IF m.scrollPixel # H THEN m ELSE EndScroll(u))
  BY <1>2 DEF scrollStep
<1>4. /\ fb \in Framebuffers
      /\ \A y \in Lines, x \in Cols :
           fb[y][x] = IF y + 1 \in Lines THEN s.fb[y + 1][x] ELSE Blank
  BY <1>1, MovedUp DEF Displays
<1> HIDE DEF t, k, fb
<1>5. /\ m.scrollPixel = k + 1 /\ m.scrollActive = s.scrollActive /\ m.pointed = s.pointed
      /\ m.fb = fb /\ m.scr = s.scr /\ m.row = s.row /\ m.drawn = s.drawn
      /\ Control3(s, m)
      /\ k + 1 # H => m \in Displays
  <2>1. k + 1 # H => k + 1 \in 0 .. H - 1
    BY <1>1
  <2> QED
    BY <1>1, <1>4, <2>1 DEF Displays, Control3
<1>6. /\ Turning(u) /\ u.fb = fb /\ u.scr = s.scr /\ ~u.scrollActive /\ ~u.pointed
      /\ Control3(s, u)
  <2>1. /\ u \in Displays /\ u.fb = fb /\ u.scr = s.scr /\ u.scrollActive = FALSE
        /\ u.pointed = s.pointed /\ u.scrollPixel = 0 /\ u.row = s.row
        /\ u.pendingRow = s.pendingRow /\ Control3(s, u)
    <3>1. u = [s EXCEPT !.fb = fb, !.scrollPixel = 0, !.scrollActive = FALSE]
      BY <1>1 DEF Displays
    <3>2. 0 \in 0 .. H - 1
      BY <1>1
    <3> HIDE DEF u, m
    <3> QED
      BY <1>1, <1>4, <3>1, <3>2 DEF Displays, Control3
  <2> HIDE DEF u, m
  <2> QED
    BY <1>1, <2>1 DEF Turning, ScrollInv, Sane, CursorInv, Control3
\* What is a line below is the text.
<1>7. ASSUME Shows(s), NEW y \in Lines, y + 1 \in Lines, NEW x \in Cols
      PROVE  fb[y][x] = Pic(s, y + 1, x)
  <2>1. s.fb[y + 1][x] = Pic(s, y + 1, x) \/ AtCursor(s, y + 1, x) \/ AtPointer(s, y + 1, x)
    BY <1>7 DEF Shows
  <2>2. ~AtCursor(s, y + 1, x)
    BY <1>7, InRows DEF Shows
  <2>3. ~AtPointer(s, y + 1, x)
    BY <1>1 DEF AtPointer
  <2> QED
    BY <1>4, <1>7, <2>1, <2>2, <2>3
<1> HIDE DEF m, u
<1>8. CASE k + 1 # H
  <2>1. t = m
    BY <1>3, <1>5, <1>8 DEF vduMouseDrawOverlay
  <2>2. Sane(m)
    BY <1>1, <1>5, <1>8 DEF Sane, CursorInv, ScrollInv, Control3, m
  <2>3. ASSUME Shows(s), NEW y \in Lines, NEW x \in Cols
        PROVE  fb[y][x] = Pic(m, y, x)
    <3>1. y \in Nat
      BY Cells
    <3>2. CASE y + 1 \in Lines
      <4>1. (y + 1) + k = y + (k + 1)
        BY <1>1, <3>1
      <4>2. Pic(m, y, x) = Pic(s, y + 1, x)
        BY <1>5, <4>1 DEF Pic, k
      <4> QED
        BY <1>7, <2>3, <3>2, <4>2
    <3>3. CASE y + 1 \notin Lines
      <4>1. k + 1 \in Nat /\ 1 <= k + 1
        BY <1>1
      <4>2. y + (k + 1) \notin Lines
        BY <3>3, <4>1, Cells
      <4> QED
        BY <1>4, <1>5, <3>3, <4>2 DEF Pic
    <3> QED
      BY <3>2, <3>3
  <2>4. Shows(s) => Shows(m)
    BY <1>5, <2>3 DEF Shows
  <2> QED
    BY <1>5, <2>1, <2>2, <2>4 DEF t, k
<1>9. CASE k + 1 = H
  <2> DEFINE e == EndScroll(u)
  <2>1. t = vduMouseDrawOverlay(e)
    BY <1>3, <1>5, <1>9
  <2>2. /\ Sane(e) /\ Control3(u, e) /\ e.scrollActive = u.scrollActive
        /\ Scrolled(u) => Shows(e)
    BY <1>6, Ended
  <2> HIDE DEF e
  <2>3. ASSUME Shows(s), NEW y \in Lines, NEW x \in Cols, CellRow(y) + 1 \in Rows
        PROVE  fb[y][x] = Glyph(s.scr[CellRow(y) + 1][x])[CellLine(y)]
    <3>1. y \in Nat /\ y + H \in Lines /\ CellRow(y + H) = CellRow(y) + 1 /\ CellLine(y + H) = CellLine(y)
      BY <2>3, Cells
    <3>2. 1 \in Nat /\ H \in Nat /\ 1 <= H
      BY VduAssumption
    <3>3. y + 1 \in Lines
      BY <3>1, <3>2, Cells
    <3>4. (y + 1) + k = y + H
      BY <1>1, <1>9, <3>1
    <3>5. Pic(s, y + 1, x) = Glyph(s.scr[CellRow(y) + 1][x])[CellLine(y)]
      BY <3>1, <3>4 DEF Pic, k
    <3> QED
      BY <1>7, <2>3, <3>3, <3>5
  <2>4. Shows(s) => Scrolled(u)
    BY <1>6, <2>3 DEF Scrolled
  <2>5. /\ Drawing(e, t) /\ Sane(t)
        /\ Shows(e) => Shows(t)
    BY <2>1, <2>2, DrawOverlay, DrawOverlayKeeps DEF Sane
  <2>6. Control3(s, t) /\ ~t.scrollActive
    BY <1>6, <2>2, <2>5 DEF Control3, Drawing, Keeping
  <2> QED
    BY <1>6, <2>2, <2>4, <2>5, <2>6 DEF t
<1> QED
  BY <1>8, <1>9

\* A scroll begun, or made at once.
LEMMA ScrollUp ==
  ASSUME NEW s, Turning(s), ~s.pointed
  PROVE  LET t == cmdScrollUp(s) IN
         /\ Sane(t) /\ Control3(s, t) /\ ~t.pointed
         /\ s.scrollActive => t.scrollActive
         /\ ~s.scrollActive /\ Shows(s) => Shows(t)
         /\ ~s.scrollActive /\ s.row = ROWS => Below(t)
<1> DEFINE t == cmdScrollUp(s)
           h == hideCursor(s)
<1>1. /\ Drawing(s, h) /\ h.pointed = s.pointed /\ h.drawn = FALSE
      /\ Shows(s) => Shows(h)
  BY HideCursor, HideKeeps DEF Turning
<1>2. t = IF h.smoothScroll THEN [h EXCEPT !.scrollPixel = 0, !.scrollActive = TRUE]
          ELSE EndScroll([h EXCEPT !.fb = FbUp(h.fb, H)])
  BY DEF cmdScrollUp
<1> HIDE DEF h, t
<1>3. Turning(h) /\ Control3(s, h)
  BY <1>1 DEF Turning, Drawing, Keeping, ScrollInv, Present, Control3
<1>4. ASSUME ~s.scrollActive, Shows(s), NEW y \in Lines, NEW x \in Cols
      PROVE  h.fb[y][x] = Pic(h, y, x) /\ h.scrollPixel = 0
  BY <1>1, <1>4 DEF Shows, AtCursor, AtPointer, Turning, ScrollInv, Drawing, Keeping
<1>5. CASE h.smoothScroll
  <2>1. t = [h EXCEPT !.scrollPixel = 0, !.scrollActive = TRUE]
    BY <1>2, <1>5
  <2>2. /\ t \in Displays /\ t.scrollActive = TRUE /\ t.scrollPixel = 0 /\ t.pointed = h.pointed
        /\ t.row = h.row /\ t.pendingRow = h.pendingRow /\ t.drawn = h.drawn /\ t.fb = h.fb
        /\ t.scr = h.scr /\ Control3(h, t)
    <3>1. 0 \in 0 .. H - 1
      BY VduAssumption
    <3> QED
      BY <1>3, <2>1, <3>1 DEF Turning, Displays, Control3
  <2>3. Sane(t)
    BY <1>1, <1>3, <2>2 DEF Sane, CursorInv, ScrollInv, Turning, Control3
  <2>4. ~s.scrollActive /\ Shows(s) => Shows(t)
    <3>1. \A y, x : h.scrollPixel = 0 => Pic(t, y, x) = Pic(h, y, x)
      BY <2>2 DEF Pic
    <3> QED
      BY <1>1, <1>4, <2>2, <3>1 DEF Shows
  <2>5. ~s.scrollActive /\ s.row = ROWS => Below(t)
    BY <1>1, <2>2 DEF Below, Drawing
  <2> QED
    BY <1>1, <1>3, <2>2, <2>3, <2>4, <2>5 DEF Control3, t
<1>6. CASE ~h.smoothScroll
  <2> DEFINE fb == FbUp(h.fb, H)
             u == [h EXCEPT !.fb = fb]
  <2>1. t = EndScroll(u)
    BY <1>2, <1>6
  <2>2. /\ fb \in Framebuffers
        /\ \A y \in Lines, x \in Cols : fb[y][x] = IF y + H \in Lines THEN h.fb[y + H][x] ELSE Blank
    <3>1. h.fb \in Framebuffers /\ H \in Nat
      BY <1>3, VduAssumption DEF Turning, Displays
    <3> QED
      BY <3>1, MovedUp
  <2> HIDE DEF fb
  <2>3. /\ u \in Displays /\ u.scrollActive = h.scrollActive /\ u.scrollPixel = h.scrollPixel
        /\ u.pointed = h.pointed /\ u.row = h.row /\ u.pendingRow = h.pendingRow
        /\ u.fb = fb /\ u.scr = h.scr /\ Control3(h, u)
    BY <1>3, <2>2 DEF Turning, Displays, Control3
  <2> HIDE DEF u
  <2>4. Turning(u)
    BY <1>3, <2>3 DEF Turning, ScrollInv, Control3, Present
  <2>5. /\ Sane(t) /\ Control3(u, t) /\ t.row \in Rows
        /\ t.scrollActive = u.scrollActive /\ t.pointed = u.pointed
        /\ Scrolled(u) /\ ~u.scrollActive /\ ~u.pointed => Shows(t)
    BY <2>1, <2>4, Ended
  <2>6. ASSUME ~s.scrollActive, Shows(s)
        PROVE  Scrolled(u)
    <3>1. ASSUME NEW y \in Lines, NEW x \in Cols, CellRow(y) + 1 \in Rows
          PROVE  fb[y][x] = Glyph(h.scr[CellRow(y) + 1][x])[CellLine(y)]
      <4>1. y + H \in Lines /\ CellRow(y + H) = CellRow(y) + 1 /\ CellLine(y + H) = CellLine(y)
        BY <3>1, Cells
      <4>2. h.fb[y + H][x] = Glyph(h.scr[CellRow(y + H)][x])[CellLine(y + H)]
        BY <1>4, <2>6, <4>1, PicAtRest
      <4> QED
        BY <2>2, <4>1, <4>2
    <3> QED
      BY <2>3, <3>1 DEF Scrolled
  <2>7. ~s.scrollActive => Below(t)
    BY <1>1, <2>3, <2>5 DEF Drawing, Keeping, Below
  <2> QED
    BY <1>1, <1>3, <2>3, <2>5, <2>6, <2>7 DEF Control3, Drawing, Keeping, t
<1> QED
  BY <1>5, <1>6

-----------------------------------------------------------------------------
\* The commands and the characters, which find no scroll going on and neither
\* the pointer nor the cursor drawn.
Calm(s) == Sane(s) /\ ~s.scrollActive /\ ~s.pointed /\ s.drawn = FALSE

\* The display shows the text and nothing else.
Clean(s) ==
  \A y \in Lines, x \in Cols : s.fb[y][x] = Glyph(s.scr[CellRow(y)][x])[CellLine(y)]

Edited(s, t) == Calm(t) /\ t.mode = s.mode /\ (Clean(s) => Clean(t))

LEMMA CalmState ==
  ASSUME NEW s, Calm(s)
  PROVE  /\ s \in Displays /\ s.row \in Rows /\ s.col \in Cols /\ s.scrollPixel = 0
         /\ s.scr \in Buffers /\ s.fb \in Framebuffers
         /\ Shows(s) <=> Clean(s)
<1>1. s \in Displays /\ s.row \in 0 .. ROWS /\ s.row # ROWS /\ s.scrollPixel = 0
  BY DEF Calm, Sane, CursorInv, ScrollInv, Displays
<1>2. s.row \in Rows
  BY <1>1, VduAssumption DEF Rows
<1>3. \A y \in Lines, x \in Cols : Pic(s, y, x) = Glyph(s.scr[CellRow(y)][x])[CellLine(y)]
  BY <1>1, PicAtRest
<1>4. Shows(s) <=> Clean(s)
  BY <1>3 DEF Shows, Clean, AtCursor, AtPointer, Calm
<1> QED
  BY <1>1, <1>2, <1>4 DEF Displays

\* Anything that leaves a buffer and a display with the cursor in a cell.
Put(s, scr, fb, c, r) == [s EXCEPT !.scr = scr, !.fb = fb, !.col = c, !.row = r]

LEMMA Written ==
  ASSUME NEW s, Calm(s), NEW scr \in Buffers, NEW fb \in Framebuffers,
         NEW c \in Cols, NEW r \in Rows,
         NEW t, t = Put(s, scr, fb, c, r)
  PROVE  /\ Calm(t) /\ t.mode = s.mode /\ t.scr = scr /\ t.fb = fb
         /\ t.col = c /\ t.row = r
<1>1. s \in Displays /\ r \in 0 .. ROWS /\ r # ROWS
  BY CalmState, VduAssumption DEF Rows
<1>2. /\ t \in Displays /\ t.row = r /\ t.col = c /\ t.scr = scr /\ t.fb = fb /\ t.mode = s.mode
      /\ t.scrollActive = s.scrollActive /\ t.scrollPixel = s.scrollPixel
      /\ t.pendingRow = s.pendingRow /\ t.pointed = s.pointed /\ t.drawn = s.drawn
      /\ t.savedRow = s.savedRow /\ t.gInEditmode = s.gInEditmode
  BY <1>1 DEF Displays, Put
<1>3. Calm(t)
  BY <1>1, <1>2 DEF Calm, Sane, CursorInv, ScrollInv, Present
<1> QED
  BY <1>2, <1>3

LEMMA Moved ==
  ASSUME NEW s, Calm(s), NEW c \in Cols, NEW r \in Rows
  PROVE  /\ Edited(s, [s EXCEPT !.col = c]) /\ Edited(s, [s EXCEPT !.row = r])
         /\ Edited(s, [s EXCEPT !.col = c, !.row = r])
<1>1. s \in Displays /\ s.row \in Rows /\ s.col \in Cols /\ s.scr \in Buffers /\ s.fb \in Framebuffers
  BY CalmState
<1>2. ASSUME NEW a \in Cols, NEW b \in Rows, NEW t,
             t = Put(s, s.scr, s.fb, a, b)
      PROVE  Edited(s, t)
  <2>1. Calm(t) /\ t.mode = s.mode /\ t.scr = s.scr /\ t.fb = s.fb
    BY <1>1, <1>2, Written
  <2> QED
    BY <2>1 DEF Edited, Clean
<1>3. /\ [s EXCEPT !.col = c] = Put(s, s.scr, s.fb, c, s.row)
      /\ [s EXCEPT !.row = r] = Put(s, s.scr, s.fb, s.col, r)
      /\ [s EXCEPT !.col = c, !.row = r] = Put(s, s.scr, s.fb, c, r)
  BY <1>1 DEF Displays, Put
<1> QED
  BY <1>1, <1>2, <1>3

\* A line of the buffer changed and drawn again.
LEMMA LineSet ==
  ASSUME NEW s, Calm(s), NEW line \in [Cols -> Chars]
  PROVE  Edited(s, vduRedrawLine(SetLine(s, line), s.row))
<1> DEFINE scr == [s.scr EXCEPT ![s.row] = line]
           u == SetLine(s, line)
           t == vduRedrawLine(u, s.row)
<1>1. s \in Displays /\ s.row \in Rows /\ s.col \in Cols /\ s.scr \in Buffers /\ s.fb \in Framebuffers
  BY CalmState
<1>2. scr \in Buffers /\ \A r \in Rows : r # s.row => scr[r] = s.scr[r]
  BY <1>1 DEF Buffers
<1>3. u = Put(s, scr, s.fb, s.col, s.row)
  BY <1>1 DEF SetLine, Displays, Put
<1> HIDE DEF scr, u
<1>4. Calm(u) /\ u.mode = s.mode /\ u.scr = scr /\ u.fb = s.fb
  BY <1>1, <1>2, <1>3, Written
<1> HIDE DEF t
<1>5. /\ Drawing(u, t) /\ t.pointed = u.pointed /\ t.drawn = u.drawn
      /\ \A y \in Lines, x \in Cols :
           t.fb[y][x] = IF CellRow(y) = s.row THEN Glyph(u.scr[s.row][x])[CellLine(y)] ELSE u.fb[y][x]
  BY <1>1, <1>4, Redrawn DEF Calm, Sane, t
<1>6. Calm(t)
  BY <1>4, <1>5, DrawingSane DEF Calm, Drawing, Keeping
<1>7. ASSUME Clean(s), NEW y \in Lines, NEW x \in Cols
      PROVE  t.fb[y][x] = Glyph(t.scr[CellRow(y)][x])[CellLine(y)]
  <2>1. t.scr = scr /\ CellRow(y) \in Rows
    BY <1>4, <1>5, Cells DEF Drawing, Keeping
  <2>2. CASE CellRow(y) = s.row
    BY <1>4, <1>5, <2>1, <2>2
  <2>3. CASE CellRow(y) # s.row
    <3>1. t.fb[y][x] = s.fb[y][x] /\ scr[CellRow(y)] = s.scr[CellRow(y)]
      BY <1>2, <1>4, <1>5, <2>1, <2>3
    <3> QED
      BY <1>7, <2>1, <3>1 DEF Clean
  <2> QED
    BY <2>2, <2>3
<1> QED
  BY <1>4, <1>5, <1>6, <1>7 DEF Edited, Clean, Drawing, Keeping, t, u

LEMMA Deleted ==
  ASSUME NEW s, Calm(s)
  PROVE  Edited(s, cmdDelete(s))
<1> DEFINE line == [x \in Cols |-> IF x = COLS - 1 THEN " "
                                   ELSE s.scr[s.row][IF x < s.col THEN x ELSE x + 1]]
<1>1. s.scr[s.row] \in [Cols -> Chars]
  BY CalmState DEF Buffers
<1>2. \A x \in Cols : x # COLS - 1 => x + 1 \in Cols
  BY VduAssumption DEF Cols
<1>3. line \in [Cols -> Chars]
  BY <1>1, <1>2 DEF Chars
<1>4. cmdDelete(s) = vduRedrawLine(SetLine(s, line), s.row)
  BY DEF cmdDelete
<1> HIDE DEF line
<1> QED
  BY <1>3, <1>4, LineSet

LEMMA Inserted ==
  ASSUME NEW s, Calm(s), NEW c \in Chars
  PROVE  Edited(s, vduInsertc(s, c))
<1> DEFINE line == [x \in Cols |-> IF x = s.col THEN c
                                   ELSE s.scr[s.row][IF x < s.col THEN x ELSE x - 1]]
<1>1. s.scr[s.row] \in [Cols -> Chars] /\ s.col \in Cols
  BY CalmState DEF Buffers
<1>2. \A x \in Cols : x # s.col /\ ~(x < s.col) => x - 1 \in Cols
  BY <1>1, VduAssumption DEF Cols
<1>3. line \in [Cols -> Chars]
  BY <1>1, <1>2
<1>4. vduInsertc(s, c) = vduRedrawLine(SetLine(s, line), s.row)
  BY DEF vduInsertc
<1> HIDE DEF line
<1> QED
  BY <1>3, <1>4, LineSet

LEMMA Space == \A k \in 0 .. H - 1 : Glyph(" ")[k] = Blank
BY DEF Glyph

LEMMA EndCleared ==
  ASSUME NEW s, Calm(s)
  PROVE  Edited(s, cmdClearEOL(s))
<1> DEFINE line == [x \in Cols |-> IF x < s.col THEN s.scr[s.row][x] ELSE " "]
           scr == [s.scr EXCEPT ![s.row] = line]
           fb == [y \in Lines |-> IF CellRow(y) # s.row THEN s.fb[y]
                                  ELSE [x \in Cols |-> IF x < s.col THEN s.fb[y][x] ELSE Blank]]
           t == cmdClearEOL(s)
<1>1. s \in Displays /\ s.row \in Rows /\ s.col \in Cols /\ s.scr \in Buffers /\ s.fb \in Framebuffers
  BY CalmState
<1>2. line \in [Cols -> Chars]
  BY <1>1 DEF Buffers, Chars
<1>3. /\ scr \in Buffers
      /\ \A r \in Rows : scr[r] = IF r = s.row THEN line ELSE s.scr[r]
  BY <1>1, <1>2 DEF Buffers
<1>4. \A y \in Lines : (IF CellRow(y) # s.row THEN s.fb[y]
                        ELSE [x \in Cols |-> IF x < s.col THEN s.fb[y][x] ELSE Blank])
                       \in [Cols -> Pixels]
  BY <1>1, Colours DEF Framebuffers
<1>5. fb \in Framebuffers
  BY <1>4 DEF Framebuffers
<1>6. t = Put(s, scr, fb, s.col, s.row)
  <2>1. SetLine(s, line) = [s EXCEPT !.scr = scr]
    BY DEF SetLine
  <2>2. t = [SetLine(s, line) EXCEPT !.fb =
              [y \in Lines |-> IF CellRow(y) # s.row THEN SetLine(s, line).fb[y]
                 ELSE [x \in Cols |-> IF x < s.col THEN SetLine(s, line).fb[y][x] ELSE Blank]]]
    BY DEF cmdClearEOL
  <2> HIDE DEF scr, line, t
  <2>3. SetLine(s, line).fb = s.fb
    BY <1>1, <2>1 DEF Displays
  <2>4. t = [SetLine(s, line) EXCEPT !.fb = fb]
    BY <2>2, <2>3
  <2> HIDE DEF fb
  <2> QED
    BY <1>1, <2>1, <2>4 DEF Displays, Put
<1>7. Calm(t) /\ t.mode = s.mode /\ t.scr = scr /\ t.fb = fb
  <2>1. scr \in Buffers
    BY <1>3
  <2> HIDE DEF scr, fb, t
  <2> QED
    BY <1>1, <1>5, <1>6, <2>1, Written
<1>8. ASSUME Clean(s), NEW y \in Lines, NEW x \in Cols
      PROVE  fb[y][x] = Glyph(scr[CellRow(y)][x])[CellLine(y)]
  <2>1. CellRow(y) \in Rows /\ CellLine(y) \in 0 .. H - 1
    BY Cells
  <2>2. s.fb[y][x] = Glyph(s.scr[CellRow(y)][x])[CellLine(y)]
    BY <1>8 DEF Clean
  <2>3. CASE CellRow(y) # s.row
    BY <1>3, <2>1, <2>2, <2>3
  <2>4. CASE CellRow(y) = s.row
    <3>1. fb[y][x] = IF x < s.col THEN s.fb[y][x] ELSE Blank
      BY <2>4
    <3>2. scr[CellRow(y)][x] = IF x < s.col THEN s.scr[s.row][x] ELSE " "
      <4>1. line[x] = IF x < s.col THEN s.scr[s.row][x] ELSE " "
        OBVIOUS
      <4> HIDE DEF scr, line
      <4>2. scr[CellRow(y)] = line
        BY <1>3, <2>1, <2>4
      <4> QED
        BY <4>1, <4>2
    <3> HIDE DEF fb, scr
    <3> QED
      BY <2>1, <2>2, <2>4, <3>1, <3>2, Space
  <2> QED
    BY <2>3, <2>4
<1> HIDE DEF scr, fb, t
<1> QED
  BY <1>7, <1>8 DEF Edited, Clean, t

\* The last of some columns is one of them.
LEMMA LastIs ==
  ASSUME NEW n \in Nat, NEW P \in SUBSET (0 .. n), P # {}
  PROVE  \E m \in P : \A y \in P : y <= m
<1> DEFINE S == {k \in Nat : \A Q \in SUBSET (0 .. k) :
                   Q # {} => \E m \in Q : \A y \in Q : y <= m}
<1>1. 0 \in S
  <2>1. ASSUME NEW Q \in SUBSET (0 .. 0), Q # {}
        PROVE  \E m \in Q : \A y \in Q : y <= m
    <3>1. \A y \in Q : y = 0
      OBVIOUS
    <3>2. 0 \in Q
      BY <2>1, <3>1
    <3> QED
      BY <3>1, <3>2
  <2> QED
    BY <2>1
<1>2. ASSUME NEW k \in Nat, k \in S
      PROVE  k + 1 \in S
  <2>1. ASSUME NEW Q \in SUBSET (0 .. k + 1), Q # {}
        PROVE  \E m \in Q : \A y \in Q : y <= m
    <3>1. CASE k + 1 \in Q
      BY <3>1
    <3>2. CASE k + 1 \notin Q
      <4>1. Q \in SUBSET (0 .. k)
        BY <3>2
      <4> QED
        BY <1>2, <2>1, <4>1
    <3> QED
      BY <3>1, <3>2
  <2> QED
    BY <2>1
<1> HIDE DEF S
<1>3. n \in S
  BY <1>1, <1>2, SetInduction
<1> QED
  BY <1>3 DEF S

LEMMA AtEnd ==
  ASSUME NEW s, Calm(s)
  PROVE  Edited(s, cmdCursorEOL(s))
<1> DEFINE used == {x \in Cols : s.scr[s.row][x] # " "}
           past == {x + 1 : x \in used}
           last == CHOOSE x \in past : \A y \in past : y <= x
           c == IF used = {} THEN 0 ELSE IF last < COLS THEN last ELSE COLS - 1
<1>1. s.row \in Rows /\ 0 \in Cols /\ COLS - 1 \in Cols /\ COLS \in Nat
  BY CalmState, VduAssumption DEF Cols
<1>2. used # {} => last \in 0 .. COLS
  <2>1. past \in SUBSET (0 .. COLS)
    <3>1. \A x \in Cols : x + 1 \in 0 .. COLS
      BY <1>1 DEF Cols
    <3>2. used \subseteq Cols
      OBVIOUS
    <3> HIDE DEF used
    <3> QED
      BY <3>1, <3>2
  <2>2. used # {} => past # {}
    OBVIOUS
  <2> HIDE DEF past
  <2>3. used # {} => \E x \in past : \A y \in past : y <= x
    BY <1>1, <2>1, <2>2, LastIs
  <2> QED
    BY <2>1, <2>3
<1> HIDE DEF last, used
<1>3. c \in Cols
  <2>1. last \in 0 .. COLS /\ last < COLS => last \in Cols
    BY <1>1 DEF Cols
  <2> QED
    BY <1>1, <1>2, <2>1
<1>4. cmdCursorEOL(s) = [s EXCEPT !.col = c]
  BY DEF cmdCursorEOL, last, used
<1> HIDE DEF c
<1>5. Edited(s, [s EXCEPT !.col = c])
  BY <1>1, <1>3, Moved, Zenon
<1> QED
  BY <1>4, <1>5

\* A clear screen.
LEMMA Cleared ==
  ASSUME NEW s, Sane(s)
  PROVE  LET t == cmdClearScreen(s) IN
         /\ Sane(t) /\ t.mode = s.mode /\ t.scrollActive = s.scrollActive
         /\ t.pointed = s.pointed /\ t.active = s.active
         /\ ~s.scrollActive /\ ~s.pointed => Shows(t)
<1> DEFINE h == hideCursor(s)
           fb == [y \in Lines |-> [x \in Cols |-> Blank]]
           scr == [r \in Rows |-> BlankLine]
           m == [h EXCEPT !.fb = fb, !.scr = scr]
           n == moveCursor(m, 0, 0)
           t == cmdClearScreen(s)
<1>1. /\ Sane(h) /\ Drawing(s, h) /\ h.pointed = s.pointed /\ h.drawn = FALSE
  BY HideCursor, HideKeeps DEF Sane
<1>2. fb \in Framebuffers /\ scr \in Buffers
  <2>1. [x \in Cols |-> Blank] \in [Cols -> Pixels] /\ BlankLine \in [Cols -> Chars]
    BY Colours DEF BlankLine, Chars
  <2> QED
    BY <2>1 DEF Framebuffers, Buffers
<1>3. t = setCursor(n, TRUE)
  BY DEF cmdClearScreen
<1>4. \A y \in Lines, x \in Cols : fb[y][x] = Blank
  OBVIOUS
<1>5. \A r \in Rows, x \in Cols : scr[r][x] = " "
  BY DEF BlankLine
<1> HIDE DEF fb, scr, h, n, t
<1>6. /\ m \in Displays /\ m.fb = fb /\ m.scr = scr /\ m.row = h.row /\ m.drawn = h.drawn
      /\ m.mode = h.mode /\ m.scrollActive = h.scrollActive /\ m.pointed = h.pointed
      /\ m.active = h.active /\ m.scrollPixel = h.scrollPixel /\ m.pendingRow = h.pendingRow
      /\ m.savedRow = h.savedRow /\ m.gInEditmode = h.gInEditmode
  BY <1>1, <1>2 DEF Sane, Displays
<1> HIDE DEF m
<1>7. Sane(m)
  BY <1>1, <1>6 DEF Sane, CursorInv, ScrollInv, Present
<1>8. ASSUME ~s.scrollActive, ~s.pointed
      PROVE  Shows(m)
  <2>1. m.scrollPixel = 0
    BY <1>1, <1>6, <1>7, <1>8 DEF Sane, ScrollInv, Drawing, Keeping
  <2>2. ASSUME NEW y \in Lines, NEW x \in Cols
        PROVE  m.fb[y][x] = Pic(m, y, x)
    <3>1. CellRow(y) \in Rows /\ CellLine(y) \in 0 .. H - 1
      BY Cells
    <3>2. m.scr[CellRow(y)][x] = " "
      BY <1>5, <1>6, <3>1
    <3>3. Pic(m, y, x) = Glyph(m.scr[CellRow(y)][x])[CellLine(y)]
      BY <2>1, PicAtRest
    <3> QED
      BY <1>4, <1>6, <3>1, <3>2, <3>3, Space
  <2> QED
    BY <1>1, <1>6, <2>2 DEF Shows
<1>9. /\ Sane(n) /\ Keeping(m, n) /\ n.pointed = m.pointed
      /\ Shows(m) /\ ~m.scrollActive => Shows(n)
  BY <1>7, MoveCursor DEF n
<1>10. /\ Sane(t) /\ Drawing(n, t) /\ t.pointed = n.pointed
       /\ Shows(n) /\ Below(n) => Shows(t)
  BY <1>3, <1>9, SetCursor
<1>11. /\ t.mode = s.mode /\ t.scrollActive = s.scrollActive
       /\ t.pointed = s.pointed /\ t.active = s.active
  BY <1>1, <1>6, <1>9, <1>10 DEF Drawing, Keeping
<1>12. ~s.scrollActive /\ ~s.pointed => Shows(t)
  BY <1>1, <1>6, <1>8, <1>9, <1>10 DEF Drawing, Keeping, Below
<1> QED
  BY <1>10, <1>11, <1>12 DEF t

-----------------------------------------------------------------------------
\* What a character does, with the pointer and the cursor off.
Handled(s, t) ==
  /\ Sane(t) /\ t.pointed = FALSE /\ t.mode = s.mode
  /\ Clean(s) => Shows(t) /\ Below(t)

LEMMA EditedHandled ==
  ASSUME NEW s, NEW t, Edited(s, t)
  PROVE  Handled(s, t)
<1>1. Calm(t) /\ (Shows(t) <=> Clean(t))
  BY CalmState DEF Edited
<1>2. t.pointed = FALSE
  BY <1>1 DEF Calm, Sane, Displays
<1> QED
  BY <1>1, <1>2 DEF Edited, Handled, Calm, Below

LEMMA ControlHandled ==
  ASSUME NEW s, Calm(s), NEW c
  PROVE  Handled(s, Control(s, c))
<1> DEFINE t == Control(s, c)
<1>0. /\ s \in Displays /\ s.row \in Rows /\ s.col \in Cols
      /\ Sane(s) /\ ~s.scrollActive /\ s.pointed = FALSE
      /\ s.col > 0 => s.col - 1 \in Cols
      /\ s.col < COLS - 1 => s.col + 1 \in Cols
      /\ s.row > 0 => s.row - 1 \in Rows
      /\ s.row < ROWS - 1 => s.row + 1 \in Rows
      /\ 0 \in Cols
  <2>1. s \in Displays /\ s.row \in Rows /\ s.col \in Cols /\ Sane(s) /\ ~s.scrollActive /\ ~s.pointed
    BY CalmState DEF Calm
  <2>2. s.pointed = FALSE
    BY <2>1 DEF Displays
  <2> QED
    BY <2>1, <2>2, VduAssumption DEF Rows, Cols
<1>1. ASSUME NEW a \in Cols
      PROVE  Handled(s, [s EXCEPT !.col = a])
  <2>1. Edited(s, [s EXCEPT !.col = a])
    BY <1>0, <1>1, Moved, Zenon
  <2> QED
    BY <2>1, EditedHandled, Zenon
<1>2. ASSUME NEW a \in Rows
      PROVE  Handled(s, [s EXCEPT !.row = a])
  <2>1. Edited(s, [s EXCEPT !.row = a])
    BY <1>0, <1>2, Moved, Zenon
  <2> QED
    BY <2>1, EditedHandled, Zenon
\* The scroll and insert modes are no part of the picture.
<1>3. ASSUME NEW u \in Displays, Drawing([s EXCEPT !.gInsertMode = u.gInsertMode,
                                                 !.smoothScroll = u.smoothScroll], u),
             u.drawn = s.drawn, u.pointed = s.pointed, u.fb = s.fb
      PROVE  Handled(s, u)
  <2>1. /\ u.scr = s.scr /\ u.row = s.row /\ u.mode = s.mode /\ u.scrollActive = s.scrollActive
        /\ u.scrollPixel = s.scrollPixel /\ u.pendingRow = s.pendingRow
        /\ u.savedRow = s.savedRow /\ u.gInEditmode = s.gInEditmode
    BY <1>0, <1>3 DEF Drawing, Keeping, Displays
  <2>2. Calm(u) /\ (Clean(s) => Clean(u))
    BY <1>3, <2>1 DEF Calm, Sane, CursorInv, ScrollInv, Present, Clean
  <2> QED
    BY <2>1, <2>2, EditedHandled DEF Edited
<1>4. CASE c = "BOL"
  BY <1>0, <1>1, <1>4 DEF Control
<1>5. CASE c = "LEFT"
  <2>1. t = [s EXCEPT !.col = IF s.col > 0 THEN s.col - 1 ELSE s.col]
    BY <1>5 DEF Control
  <2>2. (IF s.col > 0 THEN s.col - 1 ELSE s.col) \in Cols
    BY <1>0
  <2> QED
    BY <1>1, <2>1, <2>2, Zenon
<1>6. CASE c = "RIGHT"
  <2>1. t = [s EXCEPT !.col = IF s.col < COLS - 1 THEN s.col + 1 ELSE s.col]
    BY <1>6 DEF Control
  <2>2. (IF s.col < COLS - 1 THEN s.col + 1 ELSE s.col) \in Cols
    BY <1>0
  <2> QED
    BY <1>1, <2>1, <2>2, Zenon
<1>7. CASE c = "UP"
  <2>1. t = [s EXCEPT !.row = IF s.row > 0 THEN s.row - 1 ELSE s.row]
    BY <1>7 DEF Control
  <2>2. (IF s.row > 0 THEN s.row - 1 ELSE s.row) \in Rows
    BY <1>0
  <2> QED
    BY <1>2, <2>1, <2>2, Zenon
<1>8. CASE c = "DOWN"
  <2>1. t = [s EXCEPT !.row = IF s.row < ROWS - 1 THEN s.row + 1 ELSE s.row]
    BY <1>8 DEF Control
  <2>2. (IF s.row < ROWS - 1 THEN s.row + 1 ELSE s.row) \in Rows
    BY <1>0
  <2> QED
    BY <1>2, <2>1, <2>2, Zenon
<1>9. CASE c = "EOL"
  <2>1. t = cmdCursorEOL(s)
    BY <1>9 DEF Control
  <2> QED
    BY <2>1, AtEnd, EditedHandled
<1>10. CASE c = "DELETE"
  <2>1. t = cmdDelete(s)
    BY <1>10 DEF Control
  <2> QED
    BY <2>1, Deleted, EditedHandled
<1>11. CASE c = "CLEAREOL"
  <2>1. t = cmdClearEOL(s)
    BY <1>11 DEF Control
  <2> QED
    BY <2>1, EndCleared, EditedHandled
<1>12. CASE c = "CLEAR"
  <2>1. t = cmdClearScreen(s)
    BY <1>12 DEF Control
  <2> QED
    BY <1>0, <2>1, Cleared DEF Handled, Below
<1>13. CASE c \in {"INSERT", "OVERWRITE"}
  <2> DEFINE u == [s EXCEPT !.gInsertMode = c = "INSERT"]
  <2>1. t = u
    BY <1>13 DEF Control
  <2>2. (c = "INSERT") \in BOOLEAN
    OBVIOUS
  <2>3. /\ u \in Displays /\ u.smoothScroll = s.smoothScroll
        /\ u.drawn = s.drawn /\ u.pointed = s.pointed /\ u.fb = s.fb
        /\ u = [s EXCEPT !.gInsertMode = u.gInsertMode, !.smoothScroll = u.smoothScroll]
    BY <1>0, <2>2 DEF Displays
  <2> HIDE DEF u
  <2> QED
    BY <1>3, <2>1, <2>3 DEF Drawing, Keeping
<1>14. CASE c \in {"SMOOTH", "INSTANT"}
  <2> DEFINE u == [s EXCEPT !.smoothScroll = c = "SMOOTH"]
  <2>1. t = u
    BY <1>14 DEF Control
  <2>2. (c = "SMOOTH") \in BOOLEAN
    OBVIOUS
  <2>3. /\ u \in Displays /\ u.gInsertMode = s.gInsertMode
        /\ u.drawn = s.drawn /\ u.pointed = s.pointed /\ u.fb = s.fb
        /\ u = [s EXCEPT !.gInsertMode = u.gInsertMode, !.smoothScroll = u.smoothScroll]
    BY <1>0, <2>2 DEF Displays
  <2> HIDE DEF u
  <2> QED
    BY <1>3, <2>1, <2>3 DEF Drawing, Keeping
<1>15. CASE c \notin {"BOL", "LEFT", "RIGHT", "UP", "DOWN", "EOL", "DELETE", "CLEAREOL", "CLEAR",
                      "INSERT", "OVERWRITE", "SMOOTH", "INSTANT"}
  <2>1. t = s
    BY <1>15 DEF Control
  <2> QED
    BY <2>1, EditedHandled DEF Edited
<1> QED
  BY <1>4, <1>5, <1>6, <1>7, <1>8, <1>9, <1>10, <1>11, <1>12, <1>13, <1>14, <1>15

LEMMA Displayed ==
  ASSUME NEW s, Calm(s), NEW c \in Chars
  PROVE  Edited(s, vduDisplayc(s, c))
<1> DEFINE line == [s.scr[s.row] EXCEPT ![s.col] = c]
           scr == [s.scr EXCEPT ![s.row] = line]
           u == [s EXCEPT !.scr[s.row][s.col] = c]
           t == vduDrawCell(u, s.row, s.col)
<1>1. s \in Displays /\ s.row \in Rows /\ s.col \in Cols /\ s.scr \in Buffers /\ s.fb \in Framebuffers
  BY CalmState
<1>2. CASE c \in Controls
  BY <1>2 DEF vduDisplayc, Edited
<1>3. CASE c \notin Controls
  <2>1. vduDisplayc(s, c) = t
    BY <1>3 DEF vduDisplayc
  <2>2. s.scr[s.row] \in [Cols -> Chars]
    BY <1>1 DEF Buffers
  <2>3. /\ line \in [Cols -> Chars]
        /\ \A x \in Cols : line[x] = IF x = s.col THEN c ELSE s.scr[s.row][x]
    BY <2>2
  <2>4. u = [s EXCEPT !.scr = scr]
    OBVIOUS
  <2> HIDE DEF line, u
  <2>5. scr \in Buffers /\ \A r \in Rows : scr[r] = IF r = s.row THEN line ELSE s.scr[r]
    BY <1>1, <2>3 DEF Buffers
  <2> HIDE DEF scr
  <2>6. u = Put(s, scr, s.fb, s.col, s.row)
    BY <1>1, <2>4 DEF Displays, Put
  <2>7. Calm(u) /\ u.mode = s.mode /\ u.scr = scr /\ u.fb = s.fb
    BY <1>1, <2>5, <2>6, Written
  <2>8. /\ Drawing(u, t) /\ t.drawn = u.drawn /\ t.pointed = u.pointed
        /\ \A y \in Lines, x \in Cols :
             t.fb[y][x] = IF s.row \in Rows /\ CellRow(y) = s.row /\ x = s.col
                          THEN Glyph(u.scr[s.row][s.col])[CellLine(y)] ELSE u.fb[y][x]
    BY <1>1, <2>7, Cell DEF Calm, Sane
  <2> HIDE DEF t
  <2>9. Calm(t)
    BY <2>7, <2>8, DrawingSane DEF Calm, Drawing, Keeping
  <2>10. ASSUME Clean(s), NEW y \in Lines, NEW x \in Cols
         PROVE  t.fb[y][x] = Glyph(t.scr[CellRow(y)][x])[CellLine(y)]
    <3>1. t.scr = scr /\ CellRow(y) \in Rows
      BY <2>7, <2>8, Cells DEF Drawing, Keeping
    <3>2. s.fb[y][x] = Glyph(s.scr[CellRow(y)][x])[CellLine(y)]
      BY <2>10 DEF Clean
    <3>3. CASE CellRow(y) = s.row /\ x = s.col
      BY <1>1, <2>7, <2>8, <3>1, <3>3
    <3>4. CASE ~(CellRow(y) = s.row /\ x = s.col)
      <4>1. t.fb[y][x] = s.fb[y][x]
        BY <2>7, <2>8, <3>4
      <4>2. scr[CellRow(y)][x] = s.scr[CellRow(y)][x]
        BY <2>3, <2>5, <3>1, <3>4
      <4> QED
        BY <3>1, <3>2, <4>1, <4>2
    <3> QED
      BY <3>3, <3>4
  <2> QED
    BY <2>1, <2>7, <2>8, <2>9, <2>10 DEF Edited, Clean, Drawing, Keeping
<1> QED
  BY <1>2, <1>3

LEMMA RegularHandled ==
  ASSUME NEW s, Calm(s), NEW c \in Chars
  PROVE  Handled(s, Regular(s, c))
<1> DEFINE u == IF s.gInsertMode /\ s.gAsScreenMode THEN vduInsertc(s, c) ELSE s
           d == vduDisplayc(u, c)
           a == IF d.col + 1 < COLS THEN d.col + 1 ELSE COLS - 1
<1>1. Edited(s, u)
  BY Inserted DEF Edited
<1>2. Regular(s, c) = [d EXCEPT !.col = a]
  BY DEF Regular
<1> HIDE DEF u
<1>3. Edited(u, d)
  BY <1>1, Displayed DEF Edited
<1> HIDE DEF d
<1>4. Calm(d) /\ d.row \in Rows /\ d.col \in Cols
  BY <1>3, CalmState DEF Edited
<1>5. a \in Cols
  BY <1>4, VduAssumption DEF Cols
<1> HIDE DEF a
<1>6. Edited(d, [d EXCEPT !.col = a])
  BY <1>4, <1>5, Moved, Zenon
<1>7. Edited(s, Regular(s, c))
  BY <1>1, <1>2, <1>3, <1>6 DEF Edited
<1> QED
  BY <1>7, EditedHandled

LEMMA NewlineHandled ==
  ASSUME NEW s, Calm(s)
  PROVE  Handled(s, cmdNewline(s))
<1> DEFINE n == [s EXCEPT !.col = 0, !.row = s.row + 1]
           p == [n EXCEPT !.pendingRow = ROWS - 1]
           t == cmdNewline(s)
<1>1. /\ s \in Displays /\ s.row \in Rows /\ Sane(s) /\ ~s.scrollActive /\ ~s.pointed
      /\ s.drawn = FALSE /\ s.scrollPixel = 0
  BY CalmState DEF Calm
<1>2. /\ 0 \in Cols /\ s.row + 1 \in 0 .. ROWS /\ ROWS - 1 \in Rows
      /\ s.row + 1 < ROWS => s.row + 1 \in Rows
      /\ ~(s.row + 1 < ROWS) => s.row + 1 = ROWS
  BY <1>1, VduAssumption DEF Rows, Cols
<1>3. n.row = s.row + 1
  BY <1>1 DEF Displays
<1>4. t = IF n.row < ROWS THEN n
          ELSE IF Present(s).autoScroll THEN cmdScrollUp(p) ELSE [n EXCEPT !.row = ROWS - 1]
  BY DEF cmdNewline
<1> HIDE DEF t
<1>5. CASE n.row < ROWS
  <2>1. Edited(s, n)
    BY <1>2, <1>3, <1>5, Calm(s), Moved, Zenon
  <2> QED
    BY <1>4, <1>5, <2>1, EditedHandled DEF t
<1>6. CASE ~(n.row < ROWS) /\ ~Present(s).autoScroll
  <2>1. [n EXCEPT !.row = ROWS - 1] = [s EXCEPT !.col = 0, !.row = ROWS - 1]
    BY <1>1 DEF Displays
  <2> HIDE DEF n
  <2>2. Edited(s, [s EXCEPT !.col = 0, !.row = ROWS - 1])
    BY <1>2, Calm(s), Moved, Zenon
  <2> QED
    BY <1>4, <1>6, <2>1, <2>2, EditedHandled DEF t
<1>7. CASE ~(n.row < ROWS) /\ Present(s).autoScroll
  <2>1. t = cmdScrollUp(p)
    BY <1>4, <1>7
  <2>2. /\ p \in Displays /\ p.row = ROWS /\ p.pendingRow = ROWS - 1 /\ p.drawn = s.drawn
        /\ p.pointed = s.pointed /\ p.scrollActive = s.scrollActive /\ p.scrollPixel = s.scrollPixel
        /\ p.fb = s.fb /\ p.scr = s.scr /\ p.mode = s.mode /\ p.savedRow = s.savedRow
        /\ p.gInEditmode = s.gInEditmode
    <3>1. s.row + 1 = ROWS
      BY <1>2, <1>3, <1>7
    <3>2. p = [s EXCEPT !.col = 0, !.row = ROWS, !.pendingRow = ROWS - 1]
      BY <1>1, <3>1 DEF Displays
    <3>3. ROWS \in 0 .. ROWS /\ 0 \in Cols /\ s \in Displays
      BY <1>1, <1>2, <3>1
    <3> HIDE DEF p, n
    <3> DEFINE q == ROWS - 1
    <3>4. p = [s EXCEPT !.col = 0, !.row = ROWS, !.pendingRow = q] /\ q \in {-1, ROWS - 1}
      BY <3>2
    <3>5. p.pendingRow = q => p.pendingRow = ROWS - 1
      OBVIOUS
    <3> HIDE DEF q
    <3> QED
      BY <3>3, <3>4, <3>5 DEF Displays
  <2> HIDE DEF p, n
  <2>3. Turning(p)
    BY <1>1, <2>2 DEF Turning, Sane, CursorInv, ScrollInv
  <2>4. Clean(s) => Shows(p)
    <3>1. ASSUME Clean(s), NEW y \in Lines, NEW x \in Cols
          PROVE  p.fb[y][x] = Pic(p, y, x)
      BY <1>1, <2>2, <3>1, PicAtRest DEF Clean
    <3> QED
      BY <1>1, <2>2, <3>1 DEF Shows
  <2>5. /\ Sane(t) /\ Control3(p, t) /\ ~t.pointed
        /\ Shows(p) => Shows(t)
        /\ Below(t)
    BY <1>1, <2>1, <2>2, <2>3, ScrollUp
  <2>6. t.pointed = FALSE
    BY <2>5 DEF Sane, Displays
  <2> QED
    BY <2>2, <2>4, <2>5, <2>6 DEF Handled, Control3, t
<1> QED
  BY <1>5, <1>6, <1>7

LEMMA CharacterHandled ==
  ASSUME NEW s, Calm(s), NEW c \in Chars
  PROVE  Handled(s, Process(s, c))
<1>1. CASE c \in {"CR", "LF"}
  <2> DEFINE n == cmdNewline(s)
             t == vduSaveCursor(n)
  <2>1. Process(s, c) = t
    BY <1>1 DEF Process, Controls
  <2>2. Handled(s, n)
    BY NewlineHandled
  <2>3. t = [n EXCEPT !.savedRow = n.row, !.gInEditmode = TRUE]
    BY DEF vduSaveCursor
  <2> HIDE DEF n, t
  <2>4. /\ t \in Displays /\ t.savedRow = n.row /\ t.row = n.row /\ t.fb = n.fb /\ t.scr = n.scr
        /\ t.drawn = n.drawn /\ t.pointed = n.pointed /\ t.mode = n.mode
        /\ t.scrollActive = n.scrollActive /\ t.scrollPixel = n.scrollPixel
        /\ t.pendingRow = n.pendingRow /\ t.mrow = n.mrow /\ t.mcol = n.mcol /\ t.col = n.col
    <3>1. n \in Displays /\ n.row \in 0 .. ROWS
      BY <2>2 DEF Handled, Sane, Displays
    <3>2. n.row \in -1 .. ROWS
      BY <3>1, VduAssumption
    <3> QED
      BY <2>3, <3>1, <3>2 DEF Displays
  <2>5. n.row >= 0
    BY <2>2, VduAssumption DEF Handled, Sane, Displays
  <2>6. Sane(t)
    BY <2>2, <2>4, <2>5 DEF Handled, Sane, CursorInv, ScrollInv, Present
  <2>7. Shows(n) => Shows(t)
    <3>1. \A y, x : Pic(t, y, x) = Pic(n, y, x) /\ Covered(t) = Covered(n)
      BY <2>4 DEF Pic, Covered
    <3> QED
      BY <2>4, <3>1 DEF Shows, AtCursor, AtPointer
  <2>8. Below(n) => Below(t)
    BY <2>4 DEF Below
  <2> QED
    BY <2>1, <2>2, <2>4, <2>6, <2>7, <2>8 DEF Handled
<1>2. CASE c \notin {"CR", "LF"} /\ c = "BS"
  <2>1. Process(s, c) = Control(s, "LEFT")
    BY <1>2 DEF Process, Control, Controls
  <2> QED
    BY <2>1, ControlHandled
<1>3. CASE c \notin {"CR", "LF", "BS"} /\ c \in Controls /\ s.gAsScreenMode
  <2>1. Process(s, c) = Control(s, c)
    BY <1>3 DEF Process
  <2> QED
    BY <2>1, ControlHandled
<1>4. CASE c \notin {"CR", "LF", "BS"} /\ ~(c \in Controls /\ s.gAsScreenMode)
  <2>1. Process(s, c) = Regular(s, c)
    BY <1>4 DEF Process
  <2> QED
    BY <2>1, RegularHandled
<1> QED
  BY <1>1, <1>2, <1>3, <1>4

-----------------------------------------------------------------------------
\* The routines that the tasks call.

\* Nothing that is shown or that says what should be shown.
SamePicture(s, t) ==
  /\ t.fb = s.fb /\ t.scr = s.scr /\ t.row = s.row /\ t.col = s.col /\ t.drawn = s.drawn
  /\ t.scrollActive = s.scrollActive /\ t.scrollPixel = s.scrollPixel
  /\ t.pointed = s.pointed
  /\ s.pointed => t.mrow = s.mrow /\ t.mcol = s.mcol

LEMMA SameShows ==
  ASSUME NEW s, NEW t, SamePicture(s, t)
  PROVE  Shows(s) => Shows(t)
<1>1. \A y, x : Pic(t, y, x) = Pic(s, y, x)
  BY DEF Pic, SamePicture
<1>2. \A y, x : AtCursor(t, y, x) <=> AtCursor(s, y, x)
  BY DEF AtCursor, SamePicture
<1>3. \A y, x : AtPointer(s, y, x) => AtPointer(t, y, x)
  BY DEF AtPointer, Covered, SamePicture
<1> QED
  BY <1>1, <1>2, <1>3 DEF Shows, SamePicture

\* A scroll is over after as many steps as a character has lines.
LEMMA FinishedKeeps ==
  ASSUME NEW s, Sane(s)
  PROVE  LET t == Finished(s) IN
         /\ Sane(t) /\ Control3(s, t) /\ ~t.scrollActive
         /\ Shows(s) => Shows(t)
<1> DEFINE Advance(p) == IF p.scrollActive THEN scrollStep(p) ELSE p
           Rec(p, m) == p = [n \in 0 .. m |-> IF n = 0 THEN s
                                              ELSE IF p[n - 1].scrollActive THEN scrollStep(p[n - 1])
                                              ELSE p[n - 1]]
           S == {m \in Nat : \E p : Rec(p, m)}
<1>0. H \in Nat
  BY VduAssumption
<1>1. 0 \in S
  <2>1. Rec([n \in 0 .. 0 |-> s], 0)
    OBVIOUS
  <2> HIDE DEF Rec
  <2> QED
    BY <2>1
<1>2. ASSUME NEW m \in Nat, m \in S
      PROVE  m + 1 \in S
  <2>1. PICK q : Rec(q, m)
    BY <1>2
  <2> DEFINE last == Advance(q[m])
             p == [n \in 0 .. m + 1 |-> IF n = m + 1 THEN last ELSE q[n]]
  <2>2. p[m + 1] = last /\ \A n \in 0 .. m : p[n] = q[n]
    OBVIOUS
  <2>3. ASSUME NEW n \in 0 .. m + 1
        PROVE  p[n] = IF n = 0 THEN s
                      ELSE IF p[n - 1].scrollActive THEN scrollStep(p[n - 1]) ELSE p[n - 1]
    <3> HIDE DEF p
    <3>1. CASE n = m + 1
      <4>1. n # 0 /\ n - 1 = m /\ m \in 0 .. m
        BY <3>1
      <4> QED
        BY <2>2, <3>1, <4>1
    <3>2. CASE n \in 0 .. m
      <4>1. n # 0 => n - 1 \in 0 .. m
        BY <3>2
      <4>2. q[n] = IF n = 0 THEN s
                   ELSE IF q[n - 1].scrollActive THEN scrollStep(q[n - 1]) ELSE q[n - 1]
        BY <2>1, <3>2
      <4> QED
        BY <2>2, <3>2, <4>1, <4>2
    <3> QED
      BY <3>1, <3>2
  <2>4. p = [n \in 0 .. m + 1 |-> p[n]]
    OBVIOUS
  <2>5. Rec(p, m + 1)
    <3> HIDE DEF p
    <3> QED
      BY <2>3, <2>4
  <2> HIDE DEF p, Rec
  <2> QED
    BY <2>5
<1>3. \E p : Rec(p, H)
  <2> HIDE DEF S
  <2>1. H \in S
    BY <1>0, <1>1, <1>2, SetInduction
  <2> HIDE DEF Rec
  <2> QED
    BY <2>1 DEF S
<1>4. PICK u : Rec(u, H) /\ Finished(s) = u[H]
  BY <1>3 DEF Finished
<1> DEFINE Good(m) == /\ Sane(u[m]) /\ Control3(s, u[m])
                      /\ Shows(s) => Shows(u[m])
                      /\ u[m].scrollActive => u[m].scrollPixel >= m
           T == {m \in Nat : m <= H => Good(m)}
<1>5. 0 \in T
  <2>1. u[0] = s
    BY <1>0, <1>4
  <2>2. s.scrollPixel >= 0
    BY VduAssumption DEF Sane, Displays
  <2> QED
    BY <2>1, <2>2 DEF Control3
<1>6. ASSUME NEW m \in Nat, m \in T
      PROVE  m + 1 \in T
  <2> SUFFICES ASSUME m + 1 <= H PROVE Good(m + 1)
    OBVIOUS
  <2>1. m <= H /\ (m + 1) - 1 = m /\ m + 1 \in 0 .. H /\ m + 1 # 0
    BY <1>0
  <2>2. u[m + 1] = IF u[m].scrollActive THEN scrollStep(u[m]) ELSE u[m]
    BY <1>4, <2>1
  <2>3. Good(m)
    BY <1>6, <2>1
  <2> HIDE DEF Rec
  <2>4. CASE u[m].scrollActive
    <3> DEFINE a == u[m]
               b == scrollStep(a)
    <3>1. /\ Sane(b) /\ Control3(a, b)
          /\ Shows(a) => Shows(b)
          /\ b.scrollActive => b.scrollPixel = a.scrollPixel + 1
      BY <2>3, <2>4, ScrollStep
    <3>2. a.scrollPixel \in Nat /\ a.scrollPixel >= m
      BY <2>3, <2>4, VduAssumption DEF Sane, Displays
    <3>3. b.scrollActive => b.scrollPixel >= m + 1
      BY <3>1, <3>2
    <3>4. u[m + 1] = b
      BY <2>2, <2>4
    <3>5. Control3(s, b)
      BY <2>3, <3>1 DEF Control3
    <3>6. Shows(s) => Shows(b)
      BY <2>3, <3>1
    <3> HIDE DEF a, b
    <3> QED
      BY <3>1, <3>3, <3>4, <3>5, <3>6
  <2>5. CASE ~u[m].scrollActive
    BY <2>2, <2>3, <2>5
  <2> QED
    BY <2>4, <2>5
<1>7. Good(H)
  <2> HIDE DEF Good
  <2>1. H \in T /\ H <= H
    <3> HIDE DEF T
    <3> QED
      BY <1>0, <1>5, <1>6, SetInduction
  <2> QED
    BY <2>1
<1>8. ~u[H].scrollActive
  BY <1>0, <1>7 DEF Sane, Displays
<1> QED
  BY <1>4, <1>7, <1>8

LEMMA Inked ==
  ASSUME NEW s, Sane(s)
  PROVE  LET t == [s EXCEPT !.fb[0][0] = Ink] IN
         Sane(t) /\ t.mode = s.mode /\ t.scrollActive = s.scrollActive
<1> DEFINE fb == [s.fb EXCEPT ![0] = [s.fb[0] EXCEPT ![0] = Ink]]
           t == [s EXCEPT !.fb[0][0] = Ink]
<1>1. 0 \in Lines /\ 0 \in Cols
  <2>1. 0 \in Rows /\ 0 * H = 0 /\ 0 \in Cols
    BY VduAssumption DEF Rows, Cols
  <2> QED
    BY <2>1, Cells
<1>2. s \in Displays /\ s.fb \in Framebuffers
  BY DEF Sane, Displays
<1>3. fb \in Framebuffers
  <2>1. s.fb[0] \in [Cols -> Pixels]
    BY <1>1, <1>2 DEF Framebuffers
  <2>2. [s.fb[0] EXCEPT ![0] = Ink] \in [Cols -> Pixels]
    BY <1>1, <2>1, Colours
  <2> QED
    BY <1>1, <1>2, <2>2 DEF Framebuffers
<1>4. t = [s EXCEPT !.fb = fb]
  OBVIOUS
<1> HIDE DEF fb, t
<1>5. /\ t \in Displays /\ t.row = s.row /\ t.mode = s.mode /\ t.scrollActive = s.scrollActive
      /\ t.scrollPixel = s.scrollPixel /\ t.pendingRow = s.pendingRow /\ t.pointed = s.pointed
      /\ t.savedRow = s.savedRow /\ t.gInEditmode = s.gInEditmode
  BY <1>2, <1>3, <1>4 DEF Displays
<1>6. Sane(t)
  BY <1>5 DEF Sane, CursorInv, ScrollInv, Present
<1> QED
  BY <1>5, <1>6 DEF t

\* A character on the display.
LEMMA PutKeeps ==
  ASSUME NEW s0, Sane(s0), NEW c \in Chars
  PROVE  LET t == vduPutc(s0, c) IN
         /\ Sane(t) /\ t.mode = s0.mode
         /\ Shows(s0) /\ Present(s0).textMode => Shows(t)
<1> DEFINE f == Finished(s0)
           s == vduMouseHideOverlay(f)
           h == setCursor(s, FALSE)
           p == Process(h, c)
           w == setCursor(p, TRUE)
           i == [s EXCEPT !.fb[0][0] = Ink]
           t == vduPutc(s0, c)
<1>1. t = vduMouseDrawOverlay(IF Present(s).textMode THEN w ELSE i)
  BY DEF vduPutc
<1> HIDE DEF t
<1>2. /\ Sane(f) /\ Control3(s0, f) /\ ~f.scrollActive
      /\ Shows(s0) => Shows(f)
  BY FinishedKeeps
<1> HIDE DEF f
<1>3. /\ Sane(s) /\ Drawing(f, s) /\ ~s.pointed
      /\ Shows(f) => Shows(s)
  BY <1>2, HideOverlay, HideOverlayKeeps DEF Sane
<1> HIDE DEF s
<1>4. s.mode = s0.mode /\ ~s.scrollActive /\ Present(s) = Present(s0)
  BY <1>2, <1>3 DEF Control3, Drawing, Keeping, Present
<1>5. CASE Present(s).textMode
  <2>1. /\ Sane(h) /\ Drawing(s, h) /\ h.pointed = s.pointed /\ h.drawn = FALSE
        /\ Shows(s) => Shows(h)
    BY <1>3, <1>5, SetCursor
  <2> HIDE DEF h
  <2>2. Calm(h) /\ h.mode = s.mode
    BY <1>3, <1>4, <2>1 DEF Calm, Drawing, Keeping
  <2>3. Shows(h) => Clean(h)
    BY <2>2, CalmState
  <2>4. Handled(h, p)
    BY <2>2, CharacterHandled
  <2> HIDE DEF p
  <2>5. /\ Sane(w) /\ Drawing(p, w)
        /\ Shows(p) /\ Below(p) => Shows(w)
    BY <2>4, SetCursor DEF Handled
  <2> HIDE DEF w
  <2>6. t = vduMouseDrawOverlay(w)
    BY <1>1, <1>5
  <2>7. /\ Sane(t) /\ Drawing(w, t)
        /\ Shows(w) => Shows(t)
    BY <2>5, <2>6, DrawOverlay, DrawOverlayKeeps DEF Sane
  <2> QED
    BY <1>2, <1>3, <1>4, <2>1, <2>2, <2>3, <2>4, <2>5, <2>7 DEF Handled, Drawing, Keeping, t
<1>6. CASE ~Present(s).textMode
  <2>1. Sane(i) /\ i.mode = s.mode
    BY <1>3, Inked
  <2> HIDE DEF i
  <2>2. t = vduMouseDrawOverlay(i)
    BY <1>1, <1>6
  <2>3. Sane(t) /\ Drawing(i, t)
    BY <2>1, <2>2, DrawOverlay, DrawOverlayKeeps DEF Sane
  <2> QED
    BY <1>4, <1>6, <2>1, <2>3 DEF Drawing, Keeping, t
<1> QED
  BY <1>5, <1>6

LEMMA ModeKeeps ==
  ASSUME NEW s0, Sane(s0), NEW m \in 0 .. 9
  PROVE  LET t == vduSetMode(s0, m) IN
         /\ Sane(t) /\ t.scrollActive = s0.scrollActive
         /\ Shows(s0) => Shows(t)
<1> DEFINE s == vduMouseHideOverlay(s0)
           c == vduModes[m]
           u == [s EXCEPT !.mode = m, !.gAsScreenMode = c.screenMode,
                          !.smoothScroll = c.smoothScroll, !.shape = c.cursorShape,
                          !.enabled = c.visibleCursor]
           t == vduSetMode(s0, m)
<1>1. t = vduMouseDrawOverlay(u)
  BY DEF vduSetMode
<1>2. /\ c.visibleCursor \in BOOLEAN /\ c.screenMode \in BOOLEAN /\ c.smoothScroll \in BOOLEAN
      /\ c.cursorShape \in {"block", "underline"}
  BY ModeColumns
<1> HIDE DEF t, c
<1>3. /\ Sane(s) /\ Drawing(s0, s) /\ s.pointed = FALSE
      /\ Shows(s0) => Shows(s)
  BY HideOverlay, HideOverlayKeeps DEF Sane
<1> HIDE DEF s
<1>4. /\ u \in Displays /\ SamePicture(s, u)
      /\ u.pendingRow = s.pendingRow /\ u.savedRow = s.savedRow /\ u.gInEditmode = s.gInEditmode
  BY <1>2, <1>3 DEF Sane, Displays, SamePicture
<1> HIDE DEF u
<1>5. Sane(u)
  BY <1>3, <1>4 DEF Sane, CursorInv, ScrollInv, SamePicture
<1>6. /\ Sane(t) /\ Drawing(u, t)
      /\ Shows(u) => Shows(t)
  BY <1>1, <1>5, DrawOverlay, DrawOverlayKeeps DEF Sane
<1>7. Shows(s) => Shows(u)
  BY <1>4, SameShows
<1>8. t.scrollActive = s0.scrollActive
  BY <1>3, <1>4, <1>6 DEF Drawing, Keeping, SamePicture
<1> QED
  BY <1>3, <1>6, <1>7, <1>8 DEF t

LEMMA ClearKeeps ==
  ASSUME NEW s, Sane(s)
  PROVE  /\ Sane(Clear(s))
         /\ ~s.scrollActive => Shows(Clear(s))
<1> DEFINE h == vduMouseHideOverlay(s)
           c == cmdClearScreen(h)
           t == Clear(s)
<1>1. t = vduMouseDrawOverlay(c)
  BY DEF Clear
<1>2. Sane(h) /\ Drawing(s, h) /\ h.pointed = FALSE
  BY HideOverlay, HideOverlayKeeps DEF Sane
<1> HIDE DEF h, t
<1>3. /\ Sane(c)
      /\ ~h.scrollActive /\ ~h.pointed => Shows(c)
  BY <1>2, Cleared
<1> HIDE DEF c
<1>4. /\ Sane(t)
      /\ Shows(c) => Shows(t)
  BY <1>1, <1>3, DrawOverlayKeeps
<1> QED
  BY <1>2, <1>3, <1>4 DEF Drawing, Keeping, t

\* The mouse moved or clicked.
LEMMA MousedKeeps ==
  ASSUME NEW s0, Sane(s0), NEW r \in Rows, NEW c \in Cols, NEW click \in BOOLEAN,
         NEW left \in BOOLEAN
  PROVE  LET t == [Moused(s0, r, c, click) EXCEPT !.left = left] IN
         /\ Sane(t)
         /\ Shows(s0) /\ ~(s0.scrollActive /\ click) => Shows(t)
<1> DEFINE s == vduMouseHideOverlay(s0)
           m == [s EXCEPT !.active = TRUE, !.mrow = r, !.mcol = c]
           n == IF click /\ Present(s).textMode THEN moveCursor(m, c, r) ELSE m
           p == Moused(s0, r, c, click)
           t == [p EXCEPT !.left = left]
<1>1. p = vduMouseDrawOverlay(n)
  BY DEF Moused
<1> HIDE DEF p
<1>2. /\ Sane(s) /\ Drawing(s0, s) /\ s.pointed = FALSE
      /\ Shows(s0) => Shows(s)
  BY HideOverlay, HideOverlayKeeps DEF Sane
<1> HIDE DEF s
<1>3. /\ m \in Displays /\ SamePicture(s, m) /\ m.mode = s.mode
      /\ m.pendingRow = s.pendingRow /\ m.savedRow = s.savedRow /\ m.gInEditmode = s.gInEditmode
  BY <1>2 DEF Sane, Displays, SamePicture
<1> HIDE DEF m
<1>4. Sane(m)
  BY <1>2, <1>3 DEF Sane, CursorInv, ScrollInv, SamePicture
<1>5. Shows(s) => Shows(m)
  BY <1>3, SameShows
<1>6. c \in Nat /\ r \in Nat
  BY VduAssumption DEF Rows, Cols
<1>7. /\ Sane(n)
      /\ Shows(m) /\ ~(m.scrollActive /\ click) => Shows(n)
  <2>1. /\ Sane(moveCursor(m, c, r))
        /\ Shows(m) /\ ~m.scrollActive => Shows(moveCursor(m, c, r))
    BY <1>4, <1>6, MoveCursor
  <2> QED
    BY <1>4, <2>1
<1> HIDE DEF n
<1>8. /\ Sane(p)
      /\ Shows(n) => Shows(p)
  BY <1>1, <1>7, DrawOverlayKeeps
<1>9. /\ t \in Displays /\ SamePicture(p, t) /\ t.mode = p.mode
      /\ t.pendingRow = p.pendingRow /\ t.savedRow = p.savedRow /\ t.gInEditmode = p.gInEditmode
  BY <1>8 DEF Sane, Displays, SamePicture
<1> HIDE DEF t
<1>10. Sane(t)
  BY <1>8, <1>9 DEF Sane, CursorInv, ScrollInv, SamePicture, Present
<1>11. Shows(p) => Shows(t)
  BY <1>9, SameShows
<1>12. m.scrollActive = s0.scrollActive
  BY <1>2, <1>3 DEF SamePicture, Drawing, Keeping
<1> QED
  BY <1>2, <1>5, <1>7, <1>8, <1>10, <1>11, <1>12 DEF t, p

\* The cursor put back for the line that the Enter key enters.
LEMMA MoveTo ==
  ASSUME NEW s, Sane(s), NEW r \in Nat
  PROVE  LET t == vduMouseDrawOverlay(moveCursor(vduMouseHideOverlay(s), 0, r)) IN
         /\ Sane(t) /\ t.scrollActive = s.scrollActive
         /\ Shows(s) /\ ~s.scrollActive => Shows(t)
<1> DEFINE h == vduMouseHideOverlay(s)
           m == moveCursor(h, 0, r)
           t == vduMouseDrawOverlay(m)
<1>1. /\ Sane(h) /\ Drawing(s, h)
      /\ Shows(s) => Shows(h)
  BY HideOverlay, HideOverlayKeeps DEF Sane
<1> HIDE DEF h
<1>2. /\ Sane(m) /\ Keeping(h, m)
      /\ Shows(h) /\ ~h.scrollActive => Shows(m)
  BY <1>1, MoveCursor
<1> HIDE DEF m
<1>3. /\ Sane(t) /\ Drawing(m, t)
      /\ Shows(m) => Shows(t)
  BY <1>2, DrawOverlay, DrawOverlayKeeps DEF Sane
<1> HIDE DEF t
<1> QED
  BY <1>1, <1>2, <1>3 DEF Drawing, Keeping, t, m, h

LEMMA RestoreKeeps ==
  ASSUME NEW s, Sane(s)
  PROVE  LET t == vduRestoreCursor(s) IN
         /\ Sane(t)
         /\ s.scrollActive => t.scrollActive
         /\ Shows(s) /\ ~t.scrollActive => Shows(t)
<1> DEFINE Move(p, r) == vduMouseDrawOverlay(moveCursor(vduMouseHideOverlay(p), 0, r))
           a == hideCursor(s)
           b == vduMouseHideOverlay(a)
           d == cmdScrollUp(b)
           e == vduMouseDrawOverlay(d)
           f == Move(e, ROWS - 1)
           g == showCursor(f)
           w == IF s.savedRow # s.row THEN Move(s, s.savedRow)
                ELSE IF s.savedRow = ROWS - 1 THEN g ELSE Move(s, s.savedRow + 1)
           t == vduRestoreCursor(s)
<1>1. t = IF s.gInEditmode THEN [w EXCEPT !.gInEditmode = FALSE] ELSE s
  BY DEF vduRestoreCursor
<1>2. CASE ~s.gInEditmode
  BY <1>1, <1>2
<1>3. CASE s.gInEditmode
  <2>1. t = [w EXCEPT !.gInEditmode = FALSE]
    BY <1>1, <1>3
  <2>2. s.savedRow \in Nat /\ s.savedRow + 1 \in Nat /\ ROWS - 1 \in Nat
    BY <1>3, VduAssumption DEF Sane, CursorInv, Displays
  <2> DEFINE Fine(p) == /\ Sane(p)
                        /\ s.scrollActive => p.scrollActive
                        /\ Shows(s) /\ ~p.scrollActive => Shows(p)
  <2>3. ASSUME NEW r \in Nat, NEW p, Fine(p)
        PROVE  Fine(Move(p, r))
    BY <2>3, MoveTo
  <2>4. Fine(s)
    OBVIOUS
  <2>5. Fine(g)
    <3>1. /\ Sane(a) /\ Drawing(s, a)
          /\ Shows(s) => Shows(a)
      BY HideCursor, HideKeeps DEF Sane
    <3> HIDE DEF a
    <3>2. /\ Sane(b) /\ Drawing(a, b) /\ ~b.pointed
          /\ Shows(a) => Shows(b)
      BY <3>1, HideOverlay, HideOverlayKeeps DEF Sane
    <3> HIDE DEF b
    <3>3. Turning(b)
      BY <3>2 DEF Turning, Sane, CursorInv
    <3>4. /\ Sane(d)
          /\ b.scrollActive => d.scrollActive
          /\ ~b.scrollActive /\ Shows(b) => Shows(d)
      BY <3>2, <3>3, ScrollUp
    <3> HIDE DEF d
    <3>5. /\ Sane(e) /\ Drawing(d, e)
          /\ Shows(d) => Shows(e)
      BY <3>4, DrawOverlay, DrawOverlayKeeps DEF Sane
    <3> HIDE DEF e
    <3>6. Fine(e)
      BY <3>1, <3>2, <3>4, <3>5 DEF Drawing, Keeping
    <3>7. Fine(f)
      BY <2>2, <2>3, <3>6
    <3> HIDE DEF f
    <3>8. /\ Sane(g) /\ Drawing(f, g)
          /\ Shows(f) /\ Below(f) => Shows(g)
      BY <3>7, ShowCursor, ShowKeeps DEF Sane
    <3> HIDE DEF g
    <3> QED
      BY <3>7, <3>8 DEF Drawing, Keeping, Below
  <2> HIDE DEF Move, g
  <2>6. Fine(w)
    <3> HIDE DEF Fine
    <3>1. Fine(Move(s, s.savedRow)) /\ Fine(Move(s, s.savedRow + 1))
      BY <2>2, <2>3, <2>4
    <3> QED
      BY <2>5, <3>1
  <2> HIDE DEF w, t
  <2>7. /\ t \in Displays /\ SamePicture(w, t) /\ t.mode = w.mode
        /\ t.pendingRow = w.pendingRow /\ t.gInEditmode = FALSE
    BY <2>1, <2>6 DEF Sane, Displays, SamePicture
  <2>8. Sane(t)
    BY <2>6, <2>7 DEF Sane, CursorInv, ScrollInv, SamePicture, Present
  <2>9. Shows(w) => Shows(t)
    BY <2>7, SameShows
  <2> QED
    BY <2>6, <2>7, <2>8, <2>9 DEF SamePicture, t
<1> QED
  BY <1>2, <1>3

\* All that waits put on the display, one character after the other.
LEMMA PutAllKeeps ==
  ASSUME NEW s, Sane(s), NEW q \in Seq(Chars)
  PROVE  LET t == PutAll(s, q) IN
         /\ Sane(t) /\ t.mode = s.mode
         /\ Shows(s) /\ Present(s).textMode => Shows(t)
<1> DEFINE N == Len(q)
           Rec(p, m) == p = [n \in 0 .. m |-> IF n = 0 THEN s ELSE vduPutc(p[n - 1], q[n])]
           S == {m \in Nat : \E p : Rec(p, m)}
<1>0. N \in Nat /\ \A n \in 1 .. N : q[n] \in Chars
  BY LenProperties, ElementOfSeq
<1>1. 0 \in S
  <2>1. Rec([n \in 0 .. 0 |-> s], 0)
    OBVIOUS
  <2> HIDE DEF Rec
  <2> QED
    BY <2>1
<1>2. ASSUME NEW m \in Nat, m \in S
      PROVE  m + 1 \in S
  <2>1. PICK o : Rec(o, m)
    BY <1>2
  <2> DEFINE last == vduPutc(o[m], q[m + 1])
             p == [n \in 0 .. m + 1 |-> IF n = m + 1 THEN last ELSE o[n]]
  <2>2. p[m + 1] = last /\ \A n \in 0 .. m : p[n] = o[n]
    OBVIOUS
  <2>3. ASSUME NEW n \in 0 .. m + 1
        PROVE  p[n] = IF n = 0 THEN s ELSE vduPutc(p[n - 1], q[n])
    <3> HIDE DEF p
    <3>1. CASE n = m + 1
      <4>1. n # 0 /\ n - 1 = m /\ m \in 0 .. m
        BY <3>1
      <4> QED
        BY <2>2, <3>1, <4>1
    <3>2. CASE n \in 0 .. m
      <4>1. n # 0 => n - 1 \in 0 .. m
        BY <3>2
      <4>2. o[n] = IF n = 0 THEN s ELSE vduPutc(o[n - 1], q[n])
        BY <2>1, <3>2
      <4> QED
        BY <2>2, <3>2, <4>1, <4>2
    <3> QED
      BY <3>1, <3>2
  <2>4. p = [n \in 0 .. m + 1 |-> p[n]]
    OBVIOUS
  <2>5. Rec(p, m + 1)
    <3> HIDE DEF p
    <3> QED
      BY <2>3, <2>4
  <2> HIDE DEF p, Rec
  <2> QED
    BY <2>5
<1>3. \E p : Rec(p, N)
  <2> HIDE DEF S
  <2>1. N \in S
    BY <1>0, <1>1, <1>2, SetInduction
  <2> HIDE DEF Rec, N
  <2> QED
    BY <2>1 DEF S
<1>4. PICK u : Rec(u, N) /\ PutAll(s, q) = u[N]
  BY <1>3 DEF PutAll
<1> DEFINE Good(m) == /\ Sane(u[m]) /\ u[m].mode = s.mode
                      /\ Shows(s) /\ Present(s).textMode => Shows(u[m])
           T == {m \in Nat : m <= N => Good(m)}
<1>5. 0 \in T
  <2>1. u[0] = s
    BY <1>0, <1>4
  <2> QED
    BY <2>1
<1>6. ASSUME NEW m \in Nat, m \in T
      PROVE  m + 1 \in T
  <2> SUFFICES ASSUME m + 1 <= N PROVE Good(m + 1)
    OBVIOUS
  <2>1. m <= N /\ (m + 1) - 1 = m /\ m + 1 \in 1 .. N /\ m + 1 \in 0 .. N /\ m + 1 # 0
    BY <1>0
  <2>2. u[m + 1] = vduPutc(u[m], q[m + 1])
    BY <1>4, <2>1
  <2>3. Good(m)
    BY <1>6, <2>1
  <2> HIDE DEF Rec
  <2> DEFINE a == u[m]
             b == vduPutc(a, q[m + 1])
  <2>4. /\ Sane(b) /\ b.mode = a.mode
        /\ Shows(a) /\ Present(a).textMode => Shows(b)
    BY <1>0, <2>1, <2>3, PutKeeps
  <2>5. Present(a) = Present(s)
    BY <2>3 DEF Present
  <2>6. u[m + 1] = b
    BY <2>2
  <2>7. /\ b.mode = s.mode
        /\ Shows(s) /\ Present(s).textMode => Shows(b)
    BY <2>3, <2>4, <2>5
  <2> HIDE DEF a, b
  <2> QED
    BY <2>4, <2>6, <2>7
<1>7. Good(N)
  <2> HIDE DEF Good
  <2>1. N \in T /\ N <= N
    <3> HIDE DEF T
    <3> QED
      BY <1>0, <1>5, <1>6, SetInduction
  <2> QED
    BY <2>1
<1> HIDE DEF N, Rec
<1> QED
  BY <1>4, <1>7

-----------------------------------------------------------------------------
\* What holds in every state.
DisplayInv ==
  /\ Sane(v) /\ vdu_tx_fifo \in Seq(Chars) /\ smudged \in BOOLEAN
  /\ ~smudged => Shows(v)

LEMMA DisplayInitial == VduInit => DisplayInv
<1> SUFFICES ASSUME VduInit PROVE DisplayInv
  OBVIOUS
<1> DEFINE scr == [r \in Rows |-> BlankLine]
           fb == [y \in Lines |-> [x \in Cols |-> Blank]]
           mrow == ROWS \div 2
           mcol == COLS \div 2
           s == [scr |-> scr, fb |-> fb,
                 row |-> 0, col |-> 0, drawn |-> FALSE, enabled |-> FALSE, shape |-> "block",
                 mode |-> 0, gAsScreenMode |-> FALSE, gInsertMode |-> FALSE, smoothScroll |-> FALSE,
                 scrollActive |-> FALSE, scrollPixel |-> 0, pendingRow |-> -1,
                 savedRow |-> -1, gInEditmode |-> FALSE,
                 active |-> FALSE, pointed |-> FALSE, mrow |-> mrow, mcol |-> mcol,
                 left |-> FALSE]
           m == vduSetMode(s, 0)
<1>1. v = Clear(m) /\ vdu_tx_fifo = <<>> /\ smudged = FALSE
  BY DEF VduInit
<1>2. fb \in Framebuffers /\ scr \in Buffers
  <2>1. [x \in Cols |-> Blank] \in [Cols -> Pixels] /\ BlankLine \in [Cols -> Chars]
    BY Colours DEF BlankLine, Chars
  <2> QED
    BY <2>1 DEF Framebuffers, Buffers
<1>3. /\ mrow \in Rows /\ mcol \in Cols /\ 0 \in 0 .. ROWS /\ 0 \in Cols /\ 0 \in 0 .. 9
      /\ 0 \in 0 .. H - 1 /\ -1 \in {-1, ROWS - 1} /\ -1 \in -1 .. ROWS /\ ROWS # 0
  BY VduAssumption DEF Rows, Cols
<1> HIDE DEF fb, scr, mrow, mcol
<1>4. /\ s \in Displays /\ s.row = 0 /\ s.gInEditmode = FALSE /\ s.scrollActive = FALSE
      /\ s.scrollPixel = 0 /\ s.pointed = FALSE
  BY <1>2, <1>3 DEF Displays
<1> HIDE DEF s
<1>5. Sane(s)
  BY <1>3, <1>4 DEF Sane, CursorInv, ScrollInv
<1>6. Sane(m) /\ m.scrollActive = FALSE
  BY <1>3, <1>4, <1>5, ModeKeeps
<1> HIDE DEF m
<1>7. Sane(v) /\ Shows(v)
  BY <1>1, <1>6, ClearKeeps
<1>8. <<>> \in Seq(Chars)
  BY EmptySeq
<1> QED
  BY <1>1, <1>7, <1>8 DEF DisplayInv

LEMMA DisplayStep == DisplayInv /\ [VduNext]_vduVars => DisplayInv'
<1> SUFFICES ASSUME DisplayInv, [VduNext]_vduVars
             PROVE  DisplayInv'
  OBVIOUS
<1>0. /\ Sane(v) /\ vdu_tx_fifo \in Seq(Chars) /\ smudged \in BOOLEAN
      /\ ~smudged => Shows(v)
  BY DEF DisplayInv
<1>1. ASSUME NEW c \in Output \union Controls \union {" ", "CR", "BS"}, writeVDUQ(c)
      PROVE  DisplayInv'
  <2>1. vdu_tx_fifo' \in Seq(Chars)
    BY <1>0, <1>1, AppendProperties DEF writeVDUQ, Chars
  <2> QED
    BY <1>0, <1>1, <2>1 DEF writeVDUQ, DisplayInv
<1>2. CASE taskInput
  <2>1. /\ Sane(v')
        /\ Shows(v) /\ Present(v).textMode => Shows(v')
    BY <1>0, <1>2, PutAllKeeps DEF taskInput
  <2>2. vdu_tx_fifo' \in Seq(Chars)
    BY <1>2, EmptySeq DEF taskInput
  <2>3. smudged' \in BOOLEAN /\ (~smudged' => ~smudged /\ Present(v).textMode)
    BY <1>2 DEF taskInput
  <2> QED
    BY <1>0, <2>1, <2>2, <2>3 DEF DisplayInv
<1>3. CASE taskVDU
  <2>1. /\ Sane(v')
        /\ Shows(v) => Shows(v')
    BY <1>0, <1>3, ScrollStep DEF taskVDU
  <2> QED
    BY <1>0, <1>3, <2>1 DEF taskVDU, DisplayInv
<1>4. ASSUME NEW r \in Rows, NEW c \in Cols, NEW left \in BOOLEAN, vduMouseUpdate(r, c, left)
      PROVE  DisplayInv'
  <2>1. (left /\ ~v.left) \in BOOLEAN
    OBVIOUS
  <2>2. /\ Sane(v')
        /\ Shows(v) /\ ~(v.scrollActive /\ (left /\ ~v.left)) => Shows(v')
    BY <1>0, <1>4, <2>1, MousedKeeps DEF vduMouseUpdate
  <2>3. smudged' \in BOOLEAN /\ (~smudged' => ~smudged /\ ~(v.scrollActive /\ (left /\ ~v.left)))
    BY <1>4 DEF vduMouseUpdate
  <2> QED
    BY <1>0, <1>4, <2>2, <2>3 DEF vduMouseUpdate, DisplayInv
<1>5. ASSUME NEW m \in Modes, cmdGDUMode(m)
      PROVE  DisplayInv'
  <2>1. m \in 0 .. 9
    BY VduAssumption
  <2>2. /\ Sane(v')
        /\ Shows(v) => Shows(v')
    BY <1>0, <1>5, <2>1, ModeKeeps DEF cmdGDUMode
  <2> QED
    BY <1>0, <1>5, <2>2 DEF cmdGDUMode, DisplayInv
<1>6. CASE cmdCLS
  <2>1. /\ Sane(v')
        /\ ~v.scrollActive => Shows(v')
    BY <1>0, <1>6, ClearKeeps DEF cmdCLS
  <2>2. smudged' = v.scrollActive /\ v.scrollActive \in BOOLEAN
    BY <1>0, <1>6 DEF cmdCLS, Sane, Displays
  <2> QED
    BY <1>0, <1>6, <2>1, <2>2 DEF cmdCLS, DisplayInv
<1>7. CASE resetDisplay
  <2> DEFINE m == vduSetMode(v, 0)
  <2>1. Sane(m) /\ m.scrollActive = v.scrollActive
    BY <1>0, ModeKeeps
  <2>2. v' = Clear(m)
    BY <1>7 DEF resetDisplay
  <2> HIDE DEF m
  <2>3. /\ Sane(v')
        /\ ~v.scrollActive => Shows(v')
    BY <2>1, <2>2, ClearKeeps
  <2>4. smudged' = v.scrollActive /\ v.scrollActive \in BOOLEAN
    BY <1>0, <1>7 DEF resetDisplay, Sane, Displays
  <2> QED
    BY <1>0, <1>7, <2>3, <2>4 DEF resetDisplay, DisplayInv
<1>8. CASE Draw
  <2>1. Sane([v EXCEPT !.fb[0][0] = Ink])
    BY <1>0, Inked
  <2> QED
    BY <1>0, <1>8, <2>1 DEF Draw, DisplayInv
<1>9. CASE Enter
  <2>1. /\ Sane(v')
        /\ v.scrollActive => v'.scrollActive
        /\ Shows(v) /\ ~v'.scrollActive => Shows(v')
    BY <1>0, <1>9, RestoreKeeps DEF Enter
  <2>2. vdu_tx_fifo' \in Seq(Chars)
    <3>1. Append(vdu_tx_fifo, "CR") \in Seq(Chars)
      BY <1>0, AppendProperties DEF Chars
    <3> QED
      BY <1>0, <1>9, <3>1 DEF Enter
  <2>3. smudged' \in BOOLEAN /\ (~smudged' => ~smudged /\ ~v'.scrollActive)
    BY <1>9 DEF Enter
  <2> QED
    BY <1>0, <2>1, <2>2, <2>3 DEF DisplayInv
<1>10. CASE UNCHANGED vduVars
  BY <1>10 DEF DisplayInv, vduVars
<1> QED
  BY <1>1, <1>2, <1>3, <1>4, <1>5, <1>6, <1>7, <1>8, <1>9, <1>10 DEF VduNext

LEMMA DisplayInvariant == VduSpec => []DisplayInv
<1>1. VduInit => DisplayInv
  BY DisplayInitial
<1>2. DisplayInv /\ [VduNext]_vduVars => DisplayInv'
  BY DisplayStep
<1> QED
  BY <1>1, <1>2, PTL DEF VduSpec

\* Whatever is typed, clicked and commanded, in a scroll or out of one, every
\* character and command finds the cursor in a cell of the buffer, or a row
\* below it in a newline's scroll that knows the row it goes to.
THEOREM CursorStays == VduSpec => []CursorInBuffer
<1>1. DisplayInv => CursorInBuffer
  <2> SUFFICES ASSUME DisplayInv PROVE CursorInBuffer
    OBVIOUS
  <2>1. v.col \in Cols /\ v.row \in 0 .. ROWS /\ (v.row = ROWS => v.scrollActive /\ v.pendingRow = ROWS - 1)
    BY DEF DisplayInv, Sane, Displays, CursorInv
  <2>2. v.row # ROWS => v.row \in Rows
    BY <2>1, VduAssumption DEF Rows
  <2> QED
    BY <2>1, <2>2 DEF CursorInBuffer
<1> QED
  BY <1>1, DisplayInvariant, PTL

\* Between scrolls the framebuffer shows the buffer, the cursor and the pointer
\* and nothing else, however the routines of vdu.cpp followed one another.
THEOREM TextIsShown == VduSpec => []DisplayShowsBuffer
<1>1. DisplayInv => DisplayShowsBuffer
  <2> SUFFICES ASSUME DisplayInv, ~v.scrollActive, ~smudged, NEW y \in Lines, NEW x \in Cols
               PROVE  v.fb[y][x] = Rendered(v.scr)[y][x] \/ AtCursor(v, y, x) \/ AtPointer(v, y, x)
    BY DEF DisplayShowsBuffer
  <2>1. v.scrollPixel = 0 /\ Shows(v)
    BY DEF DisplayInv, Sane, ScrollInv
  <2>2. Pic(v, y, x) = Glyph(v.scr[CellRow(y)][x])[CellLine(y)]
    BY <2>1, PicAtRest
  <2>3. Rendered(v.scr)[y][x] = Glyph(v.scr[CellRow(y)][x])[CellLine(y)]
    BY DEF Rendered
  <2> QED
    BY <2>1, <2>2, <2>3 DEF Shows
<1> QED
  BY <1>1, DisplayInvariant, PTL

-----------------------------------------------------------------------------
\* THE KEYBOARD.

\* What the variables are.
Selectable == Interfaces \union {NoInterface}
Keys == {""} \union UNION {Range(report.keys) : report \in Reports}
Modifiers == {""} \union {report.modifier : report \in Reports}
Codes == {<<>>} \union (Keys \X Modifiers)
Repeats == [key : Keys, modifier : Modifiers, ascii : Codes]
Ports == [selected : Selectable, active : BOOLEAN, pending : BOOLEAN,
          removed : BOOLEAN, report : Reports]

Types ==
  /\ held \in [Interfaces -> Reports]
  /\ g_hidRecords \in [Records -> [interface : Selectable, role : Roles \union {""}]]
  /\ \A r \in Records : g_hidRecords[r].role # "" => g_hidRecords[r].interface # NoInterface
  /\ port \in [Roles -> Ports]
  /\ lastReport \in Reports
  /\ repeat \in Repeats
  /\ consolePID \in {0, 1}
  /\ routedBy \in Selectable \union {"monitor"}
  /\ astray \in BOOLEAN

\* Only what is selected has a transfer or a report, and never once it is gone.
PortInv ==
  \A role \in Roles :
    /\ port[role].active \/ port[role].pending => port[role].selected # NoInterface
    /\ port[role].removed => port[role].selected = NoInterface

\* May choose where this keyboard's typing goes.
Chooser(by) == by = "monitor" \/ (by = port["keyboard"].selected /\ by # NoInterface)

\* Who has chosen it, once the task has seen a removal.
RouteInv ==
  /\ ~port["keyboard"].removed /\ consolePID # 0 => Chooser(routedBy)
  /\ RouteIsOwn

KeyboardInv == Types /\ PortInv /\ RepeatIsHeld /\ RouteInv

-----------------------------------------------------------------------------
\* What is kept of k while the keys of a report are looked at: the repeated
\* key is the one of before, none, or one of the report; and what is typed is
\* typed where it should be.
Scans == [pid : {0, 1}, by : Selectable \union {"monitor"}, repeat : Repeats,
           astray : BOOLEAN, started : BOOLEAN]

Fresh(r, report) ==
  /\ r.key \in Range(report.keys)
  /\ r.modifier = report.modifier
  /\ r.ascii = usb_keyboard_keycode_to_ascii(r.key, report.modifier)
  /\ r.ascii # <<>>

Pressed(k, report) ==
  /\ k \in Scans
  /\ k.repeat = repeat \/ k.repeat = NoRepeat \/ Fresh(k.repeat, report)
  /\ k.pid # 0 => Chooser(k.by)
  /\ ~k.astray

LEMMA CodeTypes ==
  ASSUME NEW key \in Keys, NEW m \in Modifiers
  PROVE  usb_keyboard_keycode_to_ascii(key, m) \in Codes
  BY DEF usb_keyboard_keycode_to_ascii, Codes

LEMMA NoRepeatType == NoRepeat \in Repeats /\ NoRepeat.ascii = <<>>
<1>1. <<>> \in Codes /\ "" \in Modifiers /\ "" \in Keys
  BY Zenon DEF Codes, Modifiers, Keys
<1> DEFINE none == <<>>
<1>2. NoRepeat = [key |-> "", modifier |-> "", ascii |-> none]
  BY DEF NoRepeat
<1>3. none \in Codes
  BY <1>1
<1>4. NoRepeat.ascii = none
  <2> HIDE DEF none
  <2> QED
    BY <1>2
<1>5. NoRepeat \in Repeats
  <2> DEFINE empty == ""
  <2>1. empty \in Keys
    BY <1>1
  <2>2. empty \in Modifiers
    BY <1>1
  <2>3. NoRepeat = [key |-> empty, modifier |-> empty, ascii |-> none]
    BY <1>2
  <2> HIDE DEF none, empty
  <2> QED
    BY <1>3, <2>1, <2>2, <2>3 DEF Repeats
<1> QED
  BY <1>4, <1>5

LEMMA PressKeeps ==
  ASSUME NEW k, NEW report \in Reports, NEW key \in Range(report.keys), KeyboardInv,
         Pressed(k, report), port["keyboard"].selected # NoInterface
  PROVE  Pressed(Press(k, key, report), report)
<1> DEFINE c == usb_keyboard_keycode_to_ascii(key, report.modifier)
           none == [k EXCEPT !.repeat = NoRepeat]
           new == [key |-> key, modifier |-> report.modifier, ascii |-> c]
<1>1. key \in Keys
  BY DEF Keys
<1>2. report.modifier \in Modifiers
  BY DEF Modifiers
<1>3. c \in Codes
  BY <1>1, <1>2, CodeTypes
<1>4. Pressed(none, report)
  BY NoRepeatType DEF Pressed, Scans
<1>5. port["keyboard"].selected \in Selectable
  BY DEF KeyboardInv, Types, Ports, Roles
<1>6. ASSUME NEW pid \in {0, 1}
      PROVE  Pressed(Routed(none, pid), report)
  <2> HIDE DEF none
  <2> QED
    BY <1>4, <1>5 DEF Pressed, Scans, Routed, Chooser, Selectable
<1>7. Typed(k) = k
  BY DEF Typed, Pressed, Chooser, Scans
<1>8. ASSUME c # <<>>
      PROVE  Pressed([k EXCEPT !.repeat = new, !.started = TRUE], report)
  <2>1. new \in Repeats
    BY <1>1, <1>2, <1>3 DEF Repeats
  <2>2. Fresh(new, report)
    BY <1>8 DEF Fresh
  <2> HIDE DEF new
  <2> QED
    BY <2>1, <2>2 DEF Pressed, Scans
<1>9. key \in DOMAIN Routes => Routes[key] \in {0, 1}
  BY DEF Routes
<1> QED
  <2> HIDE DEF c, new, none
  <2>1. \/ Press(k, key, report) = k
        \/ Press(k, key, report) = none
        \/ key \in DOMAIN Routes /\ Press(k, key, report) = Routed(none, Routes[key])
        \/ c # <<>> /\ Press(k, key, report) = [Typed(k) EXCEPT !.repeat = new, !.started = TRUE]
    BY DEF Press, c, new, none
  <2> QED
    BY <1>4, <1>6, <1>7, <1>8, <1>9, <2>1

-----------------------------------------------------------------------------
\* The keys of a report, one after the other.
LEMMA KeysKeep ==
  ASSUME NEW report \in Reports, NEW k, Pressed(k, report), KeyboardInv,
         port["keyboard"].selected # NoInterface
  PROVE  \E p : /\ Pressed(p, report)
                /\ usb_keyboard_process_report(k, report)
                     = usb_keyboard_repeat_update_from_report(p, report)
<1> DEFINE N == Len(report.keys)
           Rec(p, m) == p = [n \in 0 .. m |->
                               IF n = 0 THEN k ELSE Press(p[n - 1], report.keys[n], report)]
           S == {m \in Nat : m <= N => \E p : Rec(p, m) /\ Pressed(p[m], report)}
<1>1. N \in Nat /\ \A n \in 1 .. N : report.keys[n] \in Range(report.keys)
  BY KeyboardAssumption, LenProperties DEF Range
<1>2. 0 \in S
  <2> DEFINE p == [n \in 0 .. 0 |-> k]
  <2>1. Rec(p, 0) /\ p[0] = k
    OBVIOUS
  <2> QED
    BY <2>1
<1>3. ASSUME NEW m \in Nat, m \in S
      PROVE  m + 1 \in S
  <2> SUFFICES ASSUME m + 1 <= N
               PROVE  \E p : Rec(p, m + 1) /\ Pressed(p[m + 1], report)
    OBVIOUS
  <2>1. PICK q : Rec(q, m) /\ Pressed(q[m], report)
    BY <1>1, <1>3
  <2> DEFINE last == Press(q[m], report.keys[m + 1], report)
             p == [n \in 0 .. m + 1 |-> IF n = m + 1 THEN last ELSE q[n]]
  <2>2. Pressed(last, report)
    BY <1>1, <2>1, PressKeeps
  <2>3. p[m + 1] = last /\ p[m] = q[m] /\ \A n \in 0 .. m : p[n] = q[n]
    OBVIOUS
  <2>4. ASSUME NEW n \in 0 .. m + 1
        PROVE  p[n] = IF n = 0 THEN k ELSE Press(p[n - 1], report.keys[n], report)
    <3> HIDE DEF p
    <3>1. CASE n = m + 1
      <4>1. n # 0 /\ n - 1 = m
        BY <3>1
      <4> QED
        BY <2>3, <3>1, <4>1
    <3>2. CASE n \in 0 .. m
      <4>1. n # 0 => n - 1 \in 0 .. m
        BY <3>2
      <4>2. q[n] = IF n = 0 THEN k ELSE Press(q[n - 1], report.keys[n], report)
        BY <2>1, <3>2
      <4> QED
        BY <2>3, <3>2, <4>1, <4>2
    <3> QED
      BY <3>1, <3>2
  <2>5. p = [n \in 0 .. m + 1 |-> p[n]]
    OBVIOUS
  <2>6. Rec(p, m + 1)
    <3> HIDE DEF p
    <3> QED
      BY <2>4, <2>5
  <2>7. p[m + 1] = last
    BY <2>3
  <2> HIDE DEF p, Rec
  <2> QED
    BY <2>2, <2>6, <2>7
<1>4. Nat \subseteq S
  <2> HIDE DEF S
  <2> QED
    BY <1>2, <1>3, SetInduction
<1>5. PICK p : Rec(p, N) /\ Pressed(p[N], report)
  <2> HIDE DEF Rec
  <2>1. N \in Nat /\ N <= N
    <3> HIDE DEF S
    <3> QED
      BY <1>1
  <2>2. N \in S
    <3> HIDE DEF S, N
    <3> QED
      BY <1>4, <2>1
  <2> HIDE DEF N
  <2> QED
    BY <2>1, <2>2
<1>6. PICK u : /\ Rec(u, N)
               /\ usb_keyboard_process_report(k, report)
                    = usb_keyboard_repeat_update_from_report(u[N], report)
  BY <1>5 DEF usb_keyboard_process_report
<1>7. u[N] = p[N]
  <2> DEFINE E == {n \in Nat : n <= N => u[n] = p[n]}
  <2>1. 0 \in E
    BY <1>1, <1>5, <1>6
  <2>2. ASSUME NEW n \in Nat, n \in E
        PROVE  n + 1 \in E
    <3> SUFFICES ASSUME n + 1 <= N PROVE u[n + 1] = p[n + 1]
      OBVIOUS
    <3>1. u[n] = p[n] /\ n + 1 \in 0 .. N /\ n + 1 # 0 /\ (n + 1) - 1 = n
      BY <1>1, <2>2
    <3>2. /\ u[n + 1] = Press(u[n], report.keys[n + 1], report)
          /\ p[n + 1] = Press(p[n], report.keys[n + 1], report)
      BY <1>5, <1>6, <3>1
    <3> QED
      BY <3>1, <3>2
  <2> HIDE DEF E
  <2>3. Nat \subseteq E
    BY <2>1, <2>2, SetInduction
  <2> QED
    BY <1>1, <2>3 DEF E
<1> QED
  BY <1>5, <1>6, <1>7

\* A report processed, and then the repeated key brought up to date with it.
Processed(k, report) ==
  /\ k \in Scans
  /\ k.repeat # NoRepeat => Fresh(k.repeat, report)
  /\ k.pid # 0 => Chooser(k.by)
  /\ ~k.astray

LEMMA UpdateKeeps ==
  ASSUME NEW report \in Reports, NEW k, Pressed(k, report), KeyboardInv
  PROVE  Processed(usb_keyboard_repeat_update_from_report(k, report), report)
<1> DEFINE c == usb_keyboard_keycode_to_ascii(k.repeat.key, report.modifier)
           none == [k EXCEPT !.repeat = NoRepeat]
           new == [k EXCEPT !.repeat.modifier = report.modifier, !.repeat.ascii = c]
<1>1. k \in Scans /\ k.repeat \in Repeats /\ k.repeat.key \in Keys
  BY DEF Pressed, Scans, Repeats
<1>2. report.modifier \in Modifiers
  BY DEF Modifiers
<1>3. c \in Codes
  BY <1>1, <1>2, CodeTypes
<1>4. Processed(none, report)
  BY <1>1, NoRepeatType DEF Pressed, Processed, Scans
<1>5. CASE k.repeat = NoRepeat
  BY <1>5 DEF usb_keyboard_repeat_update_from_report, Processed, Pressed
<1>6. CASE k.repeat # NoRepeat /\ k.repeat.key \notin Range(report.keys)
  BY <1>4, <1>6 DEF usb_keyboard_repeat_update_from_report
<1>7. CASE /\ k.repeat # NoRepeat /\ k.repeat.key \in Range(report.keys)
           /\ report.modifier = k.repeat.modifier
  <2>1. Fresh(k.repeat, report)
    BY <1>7 DEF Pressed, KeyboardInv, RepeatIsHeld, Fresh
  <2> QED
    BY <1>7, <2>1 DEF usb_keyboard_repeat_update_from_report, Processed, Pressed
<1>8. CASE /\ k.repeat # NoRepeat /\ k.repeat.key \in Range(report.keys)
           /\ report.modifier # k.repeat.modifier /\ c = <<>>
  BY <1>4, <1>8 DEF usb_keyboard_repeat_update_from_report
<1>9. CASE /\ k.repeat # NoRepeat /\ k.repeat.key \in Range(report.keys)
           /\ report.modifier # k.repeat.modifier /\ c # <<>>
  <2>1. /\ new.repeat.key = k.repeat.key /\ new.repeat.modifier = report.modifier
        /\ new.repeat.ascii = c /\ new.repeat \in Repeats
    BY <1>1, <1>2, <1>3 DEF Scans, Repeats
  <2>2. new \in Scans /\ new.pid = k.pid /\ new.by = k.by /\ new.astray = k.astray
    BY <1>1, <2>1 DEF Scans
  <2>3. Fresh(new.repeat, report)
    BY <1>9, <2>1 DEF Fresh
  <2>4. usb_keyboard_repeat_update_from_report(k, report) = new
    BY <1>9 DEF usb_keyboard_repeat_update_from_report
  <2> HIDE DEF new
  <2> QED
    BY <2>2, <2>3, <2>4 DEF Processed, Pressed
<1> QED
  BY <1>5, <1>6, <1>7, <1>8, <1>9

-----------------------------------------------------------------------------
\* Of the records that fit, one is the first.
LEMMA First ==
  ASSUME NEW S, S \subseteq Records, S # {}
  PROVE  (CHOOSE r \in S : \A q \in S : r <= q) \in S
<1> DEFINE R == OpToRel(<, Nat)
<1>0. IsWellFoundedOn(R, Nat)
  BY NatLessThanWellFounded
<1>1. S \subseteq Nat
  BY KeyboardAssumption DEF Records
<1>2. \A x, y \in Nat : <<x, y>> \in R <=> x < y
  BY DEF OpToRel
<1> HIDE DEF R
<1>3. PICK r \in S : \A q \in S : ~(<<q, r>> \in R)
  BY <1>0, <1>1, WFMin
<1>4. \A q \in S : r <= q
  <2> TAKE q \in S
  <2>1. r \in Nat /\ q \in Nat /\ ~(q < r)
    BY <1>1, <1>2, <1>3
  <2> QED
    BY <2>1
<1> QED
  BY <1>4

LEMMA InitHolds == Init => KeyboardInv
<1> SUFFICES ASSUME Init PROVE KeyboardInv
  OBVIOUS
<1>1. NoPort \in Ports
  BY KeyboardAssumption DEF NoPort, Ports, Selectable
<1>2. NoRecord \in [interface : Selectable, role : Roles \union {""}] /\ NoRecord.role = ""
  BY DEF NoRecord, Selectable
<1>3. Types
  BY <1>1, <1>2, NoRepeatType, KeyboardAssumption DEF Init, Types, Selectable
<1>4. PortInv
  BY DEF Init, PortInv, NoPort
<1>5. RepeatIsHeld /\ RouteInv
  BY DEF Init, RepeatIsHeld, RouteInv, RouteIsOwn
<1> QED
  BY <1>3, <1>4, <1>5 DEF KeyboardInv

LEMMA MountKeeps ==
  ASSUME KeyboardInv, NEW i \in Interfaces, NEW role \in Roles, tuh_hid_mount_cb(i, role)
  PROVE  KeyboardInv'
<1> DEFINE record == [interface |-> i, role |-> role]
           free == {r \in Records : g_hidRecords[r] = NoRecord}
           first == CHOOSE r \in free : \A q \in free : r <= q
<1>1. /\ record \in [interface : Selectable, role : Roles \union {""}]
      /\ record.interface # NoInterface
  BY KeyboardAssumption DEF Selectable
<1>2. g_hidRecords' = g_hidRecords \/ g_hidRecords' = [g_hidRecords EXCEPT ![first] = record]
  BY DEF tuh_hid_mount_cb
<1>3. Types'
  <2> HIDE DEF record, first
  <2> QED
    BY <1>1, <1>2 DEF tuh_hid_mount_cb, KeyboardInv, Types
<1>4. (PortInv /\ RepeatIsHeld /\ RouteInv)'
  BY DEF tuh_hid_mount_cb, KeyboardInv, PortInv, RepeatIsHeld, RouteInv, RouteIsOwn, Chooser
<1> QED
  BY <1>3, <1>4 DEF KeyboardInv

LEMMA UnmountKeeps ==
  ASSUME KeyboardInv, NEW i \in Interfaces, tuh_hid_umount_cb(i)
  PROVE  KeyboardInv'
<1> DEFINE gone == [NoPort EXCEPT !.removed = TRUE]
<1>1. /\ gone \in Ports /\ gone.selected = NoInterface
      /\ ~gone.active /\ ~gone.pending /\ gone.removed
  BY KeyboardAssumption DEF NoPort, Ports, Selectable
<1>2. /\ port' = [role \in Roles |-> IF port[role].selected = i THEN gone ELSE port[role]]
      /\ IF port["keyboard"].selected = i
         THEN lastReport' = Up /\ repeat' = NoRepeat
         ELSE lastReport' = lastReport /\ repeat' = repeat
      /\ consolePID' = consolePID /\ routedBy' = routedBy /\ astray' = astray
  BY DEF tuh_hid_umount_cb
<1>3. /\ NoRecord \in [interface : Selectable, role : Roles \union {""}] /\ NoRecord.role = ""
      /\ g_hidRecords' = [r \in Records |-> IF g_hidRecords[r].interface = i THEN NoRecord
                                            ELSE g_hidRecords[r]]
      /\ held' = [held EXCEPT ![i] = Up]
  BY DEF tuh_hid_umount_cb, NoRecord, Selectable
<1> HIDE DEF gone
<1>4. Types'
  BY <1>1, <1>2, <1>3, NoRepeatType, KeyboardAssumption DEF KeyboardInv, Types
<1>5. PortInv'
  BY <1>1, <1>2 DEF KeyboardInv, PortInv, Types
<1>6. RepeatIsHeld'
  BY <1>2 DEF KeyboardInv, RepeatIsHeld, Types, Roles
<1>7. RouteInv'
  BY <1>1, <1>2 DEF KeyboardInv, RouteInv, RouteIsOwn, Chooser, Types, Roles
<1> QED
  BY <1>4, <1>5, <1>6, <1>7 DEF KeyboardInv

LEMMA ReportKeeps ==
  ASSUME KeyboardInv, NEW role \in Roles, NEW whole \in BOOLEAN, tuh_hid_report_received_cb(role, whole)
  PROVE  KeyboardInv'
<1> DEFINE p == port[role]
           q == [p EXCEPT !.active = FALSE, !.pending = @ \/ whole,
                          !.report = IF whole THEN held[p.selected] ELSE @]
<1>1. p \in Ports /\ p.active /\ p.selected \in Interfaces /\ held[p.selected] \in Reports
  BY DEF KeyboardInv, Types, PortInv, tuh_hid_report_received_cb, Ports, Selectable
<1>2. /\ q \in Ports /\ q.selected = p.selected /\ ~q.active /\ q.removed = p.removed
      /\ q.pending = (p.pending \/ whole)
  BY <1>1 DEF Ports
<1>3. port' = [port EXCEPT ![role] = q]
  BY <1>1 DEF tuh_hid_report_received_cb, KeyboardInv, Types, Ports
<1> HIDE DEF q
<1>4. Types'
  <2>1. /\ held' = held /\ g_hidRecords' = g_hidRecords /\ lastReport' = lastReport
        /\ repeat' = repeat /\ consolePID' = consolePID /\ routedBy' = routedBy
        /\ astray' = astray
    BY DEF tuh_hid_report_received_cb
  <2>2. port' \in [Roles -> Ports]
    BY <1>2, <1>3 DEF KeyboardInv, Types
  <2> QED
    BY <2>1, <2>2 DEF KeyboardInv, Types
<1>5. PortInv'
  BY <1>1, <1>2, <1>3, KeyboardAssumption DEF KeyboardInv, Types, PortInv
<1>6. port'["keyboard"].selected = port["keyboard"].selected
      /\ port'["keyboard"].removed = port["keyboard"].removed
  BY <1>2, <1>3 DEF KeyboardInv, Types, Roles
<1>7. (RepeatIsHeld /\ RouteInv)'
  BY <1>6 DEF tuh_hid_report_received_cb, KeyboardInv, RepeatIsHeld, RouteInv, RouteIsOwn, Chooser
<1> QED
  BY <1>4, <1>5, <1>7 DEF KeyboardInv

\* Selection changes nothing of what is selected already.
LEMMA Selected ==
  ASSUME KeyboardInv, NEW role \in Roles
  PROVE  LET p == port[role] IN
         /\ Select(role, p) \in Ports
         /\ p.selected # NoInterface => Select(role, p).selected = p.selected
         /\ Select(role, p).active = p.active
<1> DEFINE p == port[role]
           fit == {r \in Records : g_hidRecords[r].role = role}
           first == CHOOSE r \in fit : \A q \in fit : r <= q
           q == [p EXCEPT !.selected = g_hidRecords[first].interface]
<1>1. p \in Ports
  BY DEF KeyboardInv, Types
<1>2. Select(role, p) = IF p.selected # NoInterface \/ fit = {} THEN p ELSE q
  BY DEF Select
<1>3. fit # {} => first \in Records
  <2>1. fit \subseteq Records
    OBVIOUS
  <2> HIDE DEF fit
  <2> QED
    BY <2>1, First
<1>4. fit # {} => g_hidRecords[first].interface \in Selectable
  <2> HIDE DEF first, fit
  <2> QED
    BY <1>3 DEF KeyboardInv, Types
<1>5. fit # {} => q \in Ports /\ q.active = p.active
  <2> HIDE DEF first, fit
  <2> QED
    BY <1>1, <1>4 DEF Ports
<1> HIDE DEF fit, q, p
<1>6. /\ Select(role, p) \in Ports
      /\ p.selected # NoInterface => Select(role, p).selected = p.selected
      /\ Select(role, p).active = p.active
  BY <1>1, <1>2, <1>5
<1> QED
  BY <1>6 DEF p

\* After the task has served a role it is no longer waiting for anything.
LEMMA Served ==
  ASSUME KeyboardInv, NEW role \in Roles, NEW ready \in BOOLEAN
  PROVE  LET p == port[role]
             s == Serve(role, ready)
         IN /\ s \in Ports /\ ~s.removed
            /\ p.selected # NoInterface => s.selected = p.selected
            /\ s.active \/ s.pending => s.selected # NoInterface
<1> DEFINE p == port[role]
           t == Select(role, p)
           s == Serve(role, ready)
<1>1. p \in Ports /\ (p.active => p.selected # NoInterface)
  BY DEF KeyboardInv, Types, PortInv
<1>2. /\ t \in Ports /\ t.active = p.active
      /\ p.selected # NoInterface => t.selected = p.selected
  BY Selected
<1>3. s = [t EXCEPT !.removed = FALSE, !.pending = FALSE, !.report = Up,
                    !.active = @ \/ (t.selected # NoInterface /\ ready)]
  BY DEF Serve
<1> HIDE DEF p, t, s
<1>4. /\ s \in Ports /\ ~s.removed /\ ~s.pending /\ s.selected = t.selected
      /\ s.active = (t.active \/ (t.selected # NoInterface /\ ready))
  BY <1>2, <1>3, KeyboardAssumption DEF Ports
<1>5. /\ s \in Ports /\ ~s.removed
      /\ p.selected # NoInterface => s.selected = p.selected
      /\ s.active \/ s.pending => s.selected # NoInterface
  BY <1>1, <1>2, <1>4
<1> QED
  BY <1>5 DEF p, s

LEMMA WaitingKeeps ==
  ASSUME KeyboardInv, NEW over \in BOOLEAN, NEW due \in BOOLEAN, NEW ready \in BOOLEAN,
         taskUSBHIDInput(over, due, ready), Waits(over)
  PROVE  KeyboardInv'
<1>1. /\ held' = held /\ g_hidRecords' = g_hidRecords /\ astray' = astray
      /\ lastReport' = lastReport /\ repeat' = repeat
      /\ port' = [role \in Roles |-> [port[role] EXCEPT !.removed = FALSE]]
      /\ consolePID' = Route.pid /\ routedBy' = Route.by
  BY DEF taskUSBHIDInput
<1>2. /\ port["keyboard"].removed => consolePID' = 0 /\ routedBy' = NoInterface
      /\ ~port["keyboard"].removed => consolePID' = consolePID /\ routedBy' = routedBy
  BY <1>1 DEF Route
<1>3. \A role \in Roles :
        /\ port'[role] \in Ports /\ ~port'[role].removed
        /\ port'[role].selected = port[role].selected
        /\ port'[role].active = port[role].active /\ port'[role].pending = port[role].pending
  BY <1>1 DEF KeyboardInv, Types, Ports
<1>4. "keyboard" \in Roles
  BY DEF Roles
<1>5. Types'
  <2>1. port' \in [Roles -> Ports]
    BY <1>1, <1>3
  <2>2. consolePID' \in {0, 1} /\ routedBy' \in Selectable \union {"monitor"}
    BY <1>2 DEF KeyboardInv, Types, Selectable
  <2> QED
    BY <1>1, <2>1, <2>2 DEF KeyboardInv, Types
<1>6. PortInv'
  BY <1>3 DEF KeyboardInv, PortInv
<1>7. RepeatIsHeld'
  BY <1>1, <1>3, <1>4 DEF KeyboardInv, RepeatIsHeld
<1>8. RouteInv'
  BY <1>1, <1>2, <1>3, <1>4 DEF KeyboardInv, RouteInv, RouteIsOwn, Chooser
<1> QED
  BY <1>5, <1>6, <1>7, <1>8 DEF KeyboardInv

\* The key that repeats, in the pass that has looked at the report.
LEMMA RepeatKeeps ==
  ASSUME KeyboardInv, NEW k, NEW report, Processed(k, report), NEW due \in BOOLEAN
  PROVE  Repeated(k, due) = k
<1>1. Typed(k) = k
  BY DEF Typed, Processed, Chooser, Scans
<1> QED
  BY <1>1 DEF Repeated

LEMMA WorkingKeeps ==
  ASSUME KeyboardInv, NEW over \in BOOLEAN, NEW due \in BOOLEAN, NEW ready \in BOOLEAN,
         taskUSBHIDInput(over, due, ready), ~Waits(over)
  PROVE  KeyboardInv'
<1> DEFINE p == port["keyboard"]
           k0 == [pid |-> Route.pid, by |-> Route.by, repeat |-> repeat, astray |-> astray,
                  started |-> FALSE]
           k1 == IF p.pending THEN usb_keyboard_process_report(k0, p.report) ELSE k0
           k == Repeated(k1, due)
           last == IF p.pending THEN p.report ELSE lastReport
<1>1. /\ held' = held /\ g_hidRecords' = g_hidRecords
      /\ port' = [role \in Roles |-> Serve(role, ready)]
      /\ lastReport' = last /\ repeat' = k.repeat
      /\ consolePID' = k.pid /\ routedBy' = k.by /\ astray' = k.astray
  BY DEF taskUSBHIDInput
<1>2. "keyboard" \in Roles /\ p \in Ports /\ p.report \in Reports /\ last \in Reports
  BY DEF KeyboardInv, Types, Roles, Ports
<1>3. p.pending \/ repeat # NoRepeat => p.selected # NoInterface
  BY <1>2 DEF KeyboardInv, PortInv, RepeatIsHeld
<1>4. /\ k0 \in Scans /\ k0.repeat = repeat /\ ~k0.astray
      /\ k0.pid # 0 => Chooser(k0.by)
  <2>1. /\ Route.pid \in {0, 1} /\ Route.by \in Selectable \union {"monitor"}
        /\ Route.pid # 0 => Chooser(Route.by)
    BY DEF Route, KeyboardInv, Types, RouteInv, Selectable
  <2> DEFINE pid == Route.pid
             by == Route.by
  <2> HIDE DEF pid, by
  <2>2. /\ pid \in {0, 1} /\ by \in Selectable \union {"monitor"}
        /\ pid # 0 => Chooser(by)
    BY <2>1 DEF pid, by
  <2>3. k0 = [pid |-> pid, by |-> by, repeat |-> repeat, astray |-> astray, started |-> FALSE]
    BY DEF pid, by
  <2> HIDE DEF k0
  <2> QED
    BY <2>2, <2>3 DEF KeyboardInv, Types, RouteInv, RouteIsOwn, Scans
<1> HIDE DEF k0
<1>5. Processed(k1, last)
  <2>1. CASE p.pending
    <3>1. Pressed(k0, p.report)
      BY <1>4 DEF Pressed
    <3>2. PICK q : /\ Pressed(q, p.report)
                   /\ usb_keyboard_process_report(k0, p.report)
                        = usb_keyboard_repeat_update_from_report(q, p.report)
      BY <1>2, <1>3, <2>1, <3>1, KeysKeep
    <3>3. Processed(usb_keyboard_repeat_update_from_report(q, p.report), p.report)
      BY <1>2, <3>2, UpdateKeeps
    <3> QED
      BY <2>1, <3>2, <3>3
  <2>2. CASE ~p.pending
    <3>1. repeat # NoRepeat => Fresh(repeat, lastReport)
      BY DEF KeyboardInv, RepeatIsHeld, Fresh
    <3> QED
      BY <1>4, <2>2, <3>1 DEF Processed
  <2> QED
    BY <2>1, <2>2
<1>6. k1.repeat # NoRepeat => p.selected # NoInterface
  BY <1>3, <1>4
<1> HIDE DEF k1
<1>7. k = k1
  BY <1>5, RepeatKeeps
<1> HIDE DEF k, last, p
<1>8. \A role \in Roles :
        /\ port'[role] \in Ports /\ ~port'[role].removed
        /\ port[role].selected # NoInterface => port'[role].selected = port[role].selected
        /\ port'[role].active \/ port'[role].pending => port'[role].selected # NoInterface
  BY <1>1, Served
<1>9. Types'
  <2>1. port' \in [Roles -> Ports]
    BY <1>1, <1>8
  <2>2. repeat' \in Repeats /\ consolePID' \in {0, 1} /\ astray' \in BOOLEAN
        /\ routedBy' \in Selectable \union {"monitor"}
    BY <1>1, <1>5, <1>7 DEF Processed, Scans
  <2>3. lastReport' \in Reports
    BY <1>1, <1>2
  <2> QED
    BY <1>1, <2>1, <2>2, <2>3 DEF KeyboardInv, Types
<1>10. PortInv'
  BY <1>8 DEF PortInv
<1>11. RepeatIsHeld'
  BY <1>1, <1>2, <1>5, <1>6, <1>7, <1>8 DEF Processed, Fresh, RepeatIsHeld, p
<1>12. RouteInv'
  BY <1>1, <1>2, <1>5, <1>7, <1>8 DEF Processed, RouteInv, RouteIsOwn, Chooser
<1> QED
  BY <1>9, <1>10, <1>11, <1>12 DEF KeyboardInv

\* The keys held, and the monitor's choice of the console.
LEMMA OthersKeep ==
  ASSUME KeyboardInv,
         \/ \E i \in Interfaces, report \in Reports : Hold(i, report)
         \/ \E pid \in Range(Routes) : cmdPID(pid)
         \/ UNCHANGED vars
  PROVE  KeyboardInv'
<1>1. ASSUME NEW i \in Interfaces, NEW report \in Reports, Hold(i, report)
      PROVE  KeyboardInv'
  BY <1>1 DEF Hold, KeyboardInv, Types, PortInv, RepeatIsHeld, RouteInv, RouteIsOwn, Chooser
<1>2. ASSUME NEW pid \in Range(Routes), cmdPID(pid)
      PROVE  KeyboardInv'
  <2>1. pid \in {0, 1}
    BY DEF Range, Routes
  <2>2. /\ consolePID' \in {0, 1} /\ routedBy' \in Selectable \union {"monitor"}
        /\ consolePID' # 0 => routedBy' = "monitor"
    BY <1>2, <2>1 DEF cmdPID, Selectable
  <2>3. /\ held' = held /\ g_hidRecords' = g_hidRecords /\ port' = port
        /\ lastReport' = lastReport /\ repeat' = repeat /\ astray' = astray
    BY <1>2 DEF cmdPID
  <2> QED
    BY <2>2, <2>3 DEF KeyboardInv, Types, PortInv, RepeatIsHeld, RouteInv, RouteIsOwn, Chooser
<1>3. CASE UNCHANGED vars
  BY <1>3 DEF vars, KeyboardInv, Types, PortInv, RepeatIsHeld, RouteInv, RouteIsOwn, Chooser
<1> QED
  BY <1>1, <1>2, <1>3

LEMMA KeyboardInvariant == Spec => []KeyboardInv
<1>1. KeyboardInv /\ [Next]_vars => KeyboardInv'
  <2> SUFFICES ASSUME KeyboardInv, [Next]_vars PROVE KeyboardInv'
    OBVIOUS
  <2>1. ASSUME NEW over \in BOOLEAN, NEW due \in BOOLEAN, NEW ready \in BOOLEAN,
               taskUSBHIDInput(over, due, ready)
        PROVE  KeyboardInv'
    BY <2>1, WaitingKeeps, WorkingKeeps
  <2> QED
    BY <2>1, MountKeeps, UnmountKeeps, ReportKeeps, OthersKeep DEF Next
<1> QED
  BY <1>1, InitHolds, PTL DEF Spec

\* The key that repeats is one the selected keyboard's last report has down,
\* and repeats what that report's modifiers make of it: a release seen, a
\* modifier changed or a keyboard pulled out (usb_hid_input.cpp, the repeat
\* update and the unmount callback) leaves no other.
THEOREM HeldRepeats == Spec => []RepeatIsHeld
<1>1. KeyboardInv => RepeatIsHeld
  BY DEF KeyboardInv
<1> QED
  BY <1>1, KeyboardInvariant, PTL

\* What is typed or repeated goes to context 0, or where this keyboard or the
\* monitor sent it: the route of a keyboard that was pulled out is taken back
\* by the task before the next keyboard's first key.
THEOREM OwnRoute == Spec => []RouteIsOwn
<1>1. KeyboardInv => RouteIsOwn
  BY DEF KeyboardInv, RouteInv
<1> QED
  BY <1>1, KeyboardInvariant, PTL
=============================================================================
