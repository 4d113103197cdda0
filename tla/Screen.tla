------------------------------- MODULE Screen -------------------------------
(***************************************************************************)
(* Where the drawing of kernel/graphics.c and writeline of terminal.c put  *)
(* their bytes.  A position is an offset into the framebuffer, which has   *)
(* two bytes, a character and its color, for each cell of each row.  No    *)
(* operation is told the size of what it draws on: each has a bound of its *)
(* own, or relies on the positions that get_position gives.                *)
(***************************************************************************)
EXTENDS Integers

CONSTANTS COLUMNS, ROWS

ASSUME ScreenConstants == COLUMNS \in Nat \ {0, 1} /\ ROWS \in Nat \ {0}

FRAMEBUFFER_SIZE == COLUMNS * ROWS * 2

clamp(x, min, max) == IF x > max THEN max ELSE IF x < min THEN min ELSE x

\* The offset of column x of row y, where x may go on into the rows below.
\* The source has 160 for COLUMNS * 2.
get_position(x, y) ==
  LET row == clamp(y, 0, ROWS - 1)
  IN  clamp(x, 0, COLUMNS * (ROWS - row) - 1) * 2 + row * (COLUMNS * 2)

-----------------------------------------------------------------------------
(* The offsets that each operation writes.                                   *)

kputchar(pos) == {pos, pos + 1}

\* Every second byte, until the count or the end is reached: whether to go on
\* is asked after each but the first.
kccolor(pos, n) ==
  {pos + 1 + 2 * i : i \in {k \in 0 .. n - 1 : k = 0 \/ pos + 1 + 2 * k <= FRAMEBUFFER_SIZE}}

\* kprint and kputstring, a character at a time: what is written at vidptr ...
Written(vidptr, newline) == IF newline THEN {} ELSE {vidptr, vidptr + 1}

\* ... where vidptr is next, for handle_newline the start of a row ...
Advanced(vidptr, newline) ==
  IF newline THEN vidptr + COLUMNS * 2 - (vidptr % (COLUMNS * 2)) ELSE vidptr + 2

\* ... and whether there is a next character, if the text has one.
GoesOn(vidptr) == vidptr < FRAMEBUFFER_SIZE

\* kscroll copies row i + 1 to row i, and clears the last.
RowBytes(i) == {get_position(0, i) + k : k \in 0 .. COLUMNS * 2 - 1}
kscroll ==
  (UNION {RowBytes(i) \cup RowBytes(i + 1) : i \in 0 .. ROWS - 2}) \cup RowBytes(ROWS - 1)

-----------------------------------------------------------------------------
(* writeline: character i goes to column i % COLUMNS, and a new row begins   *)
(* after each i > 0 that is a multiple of COLUMNS - 1.                       *)

Column(i) == i % COLUMNS
RowsBefore(i) == IF i = 0 THEN 0 ELSE (i - 1) \div (COLUMNS - 1)

\* How often new_prompt is called for a text of n characters.
writeline(n) == 1 + RowsBefore(n)
=============================================================================
