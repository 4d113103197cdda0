---------------------------- MODULE ScreenProofs ----------------------------
(***************************************************************************)
(* Proofs about Screen, for a screen of any size: nothing is drawn outside *)
(* the framebuffer, wherever the coordinates given to get_position lie and *)
(* however long the text or the count is.                                  *)
(***************************************************************************)
EXTENDS Screen, TLAPS

InBuffer(bytes) == bytes \subseteq 0 .. FRAMEBUFFER_SIZE - 1

\* A position that drawing may start from: the first byte of a cell.
Cells == {2 * k : k \in 0 .. COLUMNS * ROWS - 1}

\* clamp gives a value between its bounds when they are in order.
LEMMA Clamped ==
  ASSUME NEW x \in Int, NEW lo \in Int, NEW hi \in Int, lo <= hi
  PROVE  clamp(x, lo, hi) \in lo .. hi
BY DEF clamp

\* The framebuffer has a positive number of cells.
LEMMA Sizes == COLUMNS * ROWS \in Nat \ {0} /\ FRAMEBUFFER_SIZE = 2 * (COLUMNS * ROWS)
BY ScreenConstants, SMT DEF FRAMEBUFFER_SIZE

\* Quotient and remainder.
LEMMA Division ==
  ASSUME NEW n \in Nat, NEW m \in Nat \ {0}
  PROVE  n \div m \in Nat /\ n % m \in 0 .. m - 1 /\ n = m * (n \div m) + (n % m)
BY SMT

\* get_position gives the first byte of a cell whatever its coordinates are,
\* negative or past every edge.
THEOREM PositionInBuffer ==
  ASSUME NEW x \in Int, NEW y \in Int
  PROVE  get_position(x, y) \in Cells
<1> DEFINE row == clamp(y, 0, ROWS - 1)
<1> DEFINE column == clamp(x, 0, COLUMNS * (ROWS - row) - 1)
<1>1. row \in 0 .. ROWS - 1
  BY Clamped, ScreenConstants
<1> HIDE DEF row
<1>2. COLUMNS * (ROWS - row) \in Nat \ {0}
  BY <1>1, ScreenConstants, SMT
<1>3. column \in 0 .. COLUMNS * (ROWS - row) - 1
  <2> DEFINE last == COLUMNS * (ROWS - row) - 1
  <2>1. 0 <= last /\ last \in Int
    BY <1>2
  <2> HIDE DEF last
  <2>2. clamp(x, 0, last) \in 0 .. last
    BY <2>1, Clamped
  <2> QED BY <2>2 DEF last
<1> HIDE DEF column
<1>4. COLUMNS * (ROWS - row) = COLUMNS * ROWS - row * COLUMNS
  BY <1>1, ScreenConstants, SMT
<1>5. row * COLUMNS \in Nat
  BY <1>1, ScreenConstants, SMT
<1>6. row * COLUMNS + column \in 0 .. COLUMNS * ROWS - 1
  BY <1>2, <1>3, <1>4, <1>5, Sizes
<1>7. row * (COLUMNS * 2) = 2 * (row * COLUMNS)
  BY <1>1, ScreenConstants, SMT
<1>8. get_position(x, y) = 2 * (row * COLUMNS + column)
  <2>1. get_position(x, y) = column * 2 + row * (COLUMNS * 2)
    BY DEF get_position, row, column
  <2> QED BY <2>1, <1>2, <1>3, <1>5, <1>7
<1> QED BY <1>6, <1>8 DEF Cells

\* kputchar, at a position that get_position gives.
THEOREM PutcharInBuffer ==
  ASSUME NEW pos \in Cells
  PROVE  InBuffer(kputchar(pos))
BY Sizes DEF Cells, InBuffer, kputchar

\* kccolor stays inside for every count, haltdump's COLUMNS * ROWS * 2 among
\* them: its test lets the end itself pass, but color bytes are odd.
THEOREM ColorInBuffer ==
  ASSUME NEW pos \in Cells, NEW n \in Int
  PROVE  InBuffer(kccolor(pos, n))
<1> SUFFICES ASSUME NEW i \in 0 .. n - 1, i = 0 \/ pos + 1 + 2 * i <= FRAMEBUFFER_SIZE
             PROVE  pos + 1 + 2 * i \in 0 .. FRAMEBUFFER_SIZE - 1
  BY DEF InBuffer, kccolor
<1>1. PICK k \in 0 .. COLUMNS * ROWS - 1 : pos = 2 * k
  BY DEF Cells
<1> QED BY <1>1, Sizes

\* kprint and kputstring: what is written lies inside, and when there is a
\* next character it starts at a cell again.
THEOREM PrintInBuffer ==
  ASSUME NEW vidptr \in Cells, NEW newline \in BOOLEAN
  PROVE  /\ InBuffer(Written(vidptr, newline))
         /\ GoesOn(Advanced(vidptr, newline)) => Advanced(vidptr, newline) \in Cells
<1>1. PICK k \in 0 .. COLUMNS * ROWS - 1 : vidptr = 2 * k
  BY DEF Cells
<1>2. InBuffer(Written(vidptr, newline))
  BY <1>1, Sizes DEF InBuffer, Written
<1>3. CASE newline
  <2> DEFINE r == vidptr % (COLUMNS * 2)
             q == vidptr \div (COLUMNS * 2)
  <2>1. r \in 0 .. COLUMNS * 2 - 1 /\ q \in Int /\ vidptr = (COLUMNS * 2) * q + r
    <3> DEFINE width == COLUMNS * 2
    <3>1. vidptr \in Nat /\ width \in Nat \ {0}
      BY <1>1, ScreenConstants
    <3> HIDE DEF width
    <3>2. /\ vidptr % width \in 0 .. width - 1 /\ vidptr \div width \in Nat
          /\ vidptr = width * (vidptr \div width) + (vidptr % width)
      BY <3>1, Division
    <3> QED BY <3>2 DEF width
  <2> HIDE DEF r, q
  <2>2. COLUMNS * q \in Int /\ (COLUMNS * 2) * q = 2 * (COLUMNS * q)
    BY <2>1, ScreenConstants, SMT
  <2>3. Advanced(vidptr, newline) = 2 * (COLUMNS * q + COLUMNS)
    <3>1. Advanced(vidptr, newline) = vidptr + COLUMNS * 2 - r
      BY <1>3 DEF Advanced, r
    <3> QED BY <3>1, <2>1, <2>2, <1>1, ScreenConstants
  <2>4. COLUMNS * q + COLUMNS \in Nat
    BY <2>1, <2>2, <1>1, ScreenConstants
  <2> QED BY <2>3, <2>4, <1>2, Sizes DEF GoesOn, Cells
<1>4. CASE ~newline
  BY <1>1, <1>2, <1>4, Sizes DEF Advanced, GoesOn, Cells
<1> QED BY <1>3, <1>4

\* kscroll reads and writes whole rows of the framebuffer.
THEOREM ScrollInBuffer == InBuffer(kscroll)
<1>1. ASSUME NEW i \in 0 .. ROWS - 1 PROVE RowBytes(i) \subseteq 0 .. FRAMEBUFFER_SIZE - 1
  <2>1. COLUMNS * (ROWS - i) \in Nat \ {0}
    BY ScreenConstants, SMT
  <2>2. get_position(0, i) = i * (COLUMNS * 2)
    <3>1. clamp(i, 0, ROWS - 1) = i
      BY ScreenConstants DEF clamp
    <3>2. clamp(0, 0, COLUMNS * (ROWS - i) - 1) = 0
      BY <2>1 DEF clamp
    <3>3. i * (COLUMNS * 2) \in Int
      BY ScreenConstants, SMT
    <3> QED BY <3>1, <3>2, <3>3 DEF get_position
  <2>3. i * (COLUMNS * 2) \in Nat /\ i * (COLUMNS * 2) <= FRAMEBUFFER_SIZE - COLUMNS * 2
    <3>1. i * COLUMNS \in Nat /\ i * (COLUMNS * 2) = 2 * (i * COLUMNS)
      BY ScreenConstants, SMT
    <3>2. COLUMNS * (ROWS - i) = COLUMNS * ROWS - i * COLUMNS
      BY ScreenConstants, SMT
    <3>3. COLUMNS * (ROWS - i) >= COLUMNS
      BY ScreenConstants, SMT
    <3> QED BY <3>1, <3>2, <3>3, Sizes, ScreenConstants
  <2> QED BY <2>2, <2>3, ScreenConstants, Sizes DEF RowBytes
<1>2. \A i \in 0 .. ROWS - 2 : i \in 0 .. ROWS - 1 /\ i + 1 \in 0 .. ROWS - 1
  BY ScreenConstants
<1>3. ROWS - 1 \in 0 .. ROWS - 1
  BY ScreenConstants
<1>4. ASSUME NEW o \in kscroll PROVE o \in 0 .. FRAMEBUFFER_SIZE - 1
  <2>1. CASE o \in RowBytes(ROWS - 1)
    BY <2>1, <1>1, <1>3
  <2>2. CASE \E i \in 0 .. ROWS - 2 : o \in RowBytes(i) \cup RowBytes(i + 1)
    BY <2>2, <1>1, <1>2
  <2> QED BY <2>1, <2>2 DEF kscroll
<1> QED BY <1>4 DEF InBuffer

\* No two characters of a text of any length share a cell, so writeline
\* hides none of them, although columns and rows do not go round together.
THEOREM CharactersKept ==
  ASSUME NEW i \in Nat, NEW j \in Nat, i < j, RowsBefore(i) = RowsBefore(j)
  PROVE  Column(i) # Column(j)
<1>1. j - i < COLUMNS
  <2> DEFINE w == COLUMNS - 1
  <2>1. w \in Nat \ {0}
    BY ScreenConstants
  <2>2. ASSUME NEW n \in Nat \ {0}
        PROVE  /\ RowsBefore(n) \in Nat
               /\ w * RowsBefore(n) \in Nat
               /\ n - 1 - w * RowsBefore(n) \in 0 .. w - 1
    <3>1. n - 1 \in Nat /\ RowsBefore(n) = (n - 1) \div w
      BY DEF RowsBefore
    <3> HIDE DEF w
    <3>2. /\ (n - 1) \div w \in Nat /\ (n - 1) % w \in 0 .. w - 1
          /\ n - 1 = w * ((n - 1) \div w) + ((n - 1) % w)
      BY <3>1, <2>1, Division
    <3>3. w * ((n - 1) \div w) \in Nat
      BY <3>2, <2>1, SMT
    <3> QED BY <3>1, <3>2, <3>3, <2>1
  <2> HIDE DEF w
  <2>3. CASE i = 0
    <3>1. RowsBefore(j) = 0
      BY <2>3 DEF RowsBefore
    <3>2. w * RowsBefore(j) = 0
      BY <3>1, <2>1
    <3> QED BY <3>2, <2>2, <2>3, ScreenConstants DEF w
  <2>4. CASE i # 0
    BY <2>1, <2>2, <2>4, ScreenConstants DEF w
  <2> QED BY <2>3, <2>4
<1>2. SUFFICES ASSUME i % COLUMNS = j % COLUMNS PROVE FALSE
  BY DEF Column
<1> DEFINE p == i \div COLUMNS
           q == j \div COLUMNS
<1>3. /\ p \in Int /\ i = COLUMNS * p + (i % COLUMNS)
      /\ q \in Int /\ j = COLUMNS * q + (j % COLUMNS)
      /\ i % COLUMNS \in Int
  BY ScreenConstants, Division
<1> HIDE DEF p, q
<1>4. COLUMNS * p \in Int /\ COLUMNS * q \in Int /\ COLUMNS * (q - p) = COLUMNS * q - COLUMNS * p
  BY <1>3, ScreenConstants, SMT
<1>5. j - i = COLUMNS * (q - p)
  BY <1>2, <1>3, <1>4
<1>6. q - p \in Int /\ q - p < 1
  <2>1. q - p >= 1 => COLUMNS * (q - p) >= COLUMNS
    BY <1>3, ScreenConstants, SMT
  <2> QED BY <2>1, <1>1, <1>3, <1>5, ScreenConstants
<1>7. q - p <= 0 => COLUMNS * (q - p) <= 0
  BY <1>3, ScreenConstants, SMT
<1> QED BY <1>3, <1>5, <1>6, <1>7
=============================================================================
