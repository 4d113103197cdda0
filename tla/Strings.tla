------------------------------ MODULE Strings ------------------------------
(***************************************************************************)
(* The dynamic strings of lib/string.c.  A string is the text before its   *)
(* terminator and the bytes allocated for it: an operation that writes     *)
(* past those leaves a text that does not fit.  A string_resize loses the  *)
(* text it cuts off.                                                       *)
(*                                                                         *)
(* A definition marked "Fault" belongs to no specification: it is a wrong  *)
(* version of the definition after it, that the properties must refuse.    *)
(***************************************************************************)
EXTENDS Integers, Sequences

string_newsz(n) == [text |-> <<>>, size |-> n + 1]
string_new == string_newsz(0)

string_resize(s, n) ==
  [text |-> IF n < Len(s.text) THEN SubSeq(s.text, 1, n) ELSE s.text, size |-> n + 1]

Appended(s, t) == [text |-> s.text \o t, size |-> s.size]

string_add(s, t) ==
  LET length == Len(s.text) + Len(t)
  IN  Appended(IF s.size < length + 1 THEN string_resize(s, length) ELSE s, t)

\* Fault: compares the size with the text as it is.
string_addchar_late(s, c) ==
  Appended(IF s.size <= Len(s.text) THEN string_resize(s, s.size + 1) ELSE s, <<c>>)

string_addchar(s, c) ==
  Appended(IF s.size <= Len(s.text) + 2 THEN string_resize(s, s.size + 1) ELSE s, <<c>>)

string_set(s, t) ==
  [text |-> t, size |-> IF Len(t) + 1 > s.size THEN string_resize(s, Len(t)).size ELSE s.size]

string_clear(s) == [text |-> <<>>, size |-> s.size]

\* Bytes behind the terminator, and the others.
string_padding(s) == s.size - (Len(s.text) + 1)
string_used(s) == s.size - string_padding(s)

\* Resizes to the bytes in use, to which string_resize adds a terminator's.
string_trim(s) == string_resize(s, s.size - string_padding(s))

\* Compares two texts as sequences of characters, each a positive number (the
\* keyboard's are ASCII): at the first where they differ, or where s goes on
\* and t has ended.
Differ(s, t) == {i \in 1 .. Len(s) : IF i <= Len(t) THEN s[i] # t[i] ELSE TRUE}
strcmp(s, t) ==
  IF Differ(s, t) = {} THEN IF Len(s) < Len(t) THEN -1 ELSE 0
  ELSE LET i == CHOOSE i \in Differ(s, t) : \A j \in Differ(s, t) : i <= j
       IN  IF i > Len(t) \/ s[i] > t[i] THEN 1 ELSE -1

\* A text copied character by character to the end of s, as every parser does.
Copied(s, t) ==
  LET upto[i \in 0 .. Len(t)] == IF i = 0 THEN s ELSE string_addchar(upto[i - 1], t[i])
  IN  upto[Len(t)]

\* The text and its terminator lie in the bytes allocated.
Fits(s) == Len(s.text) + 1 <= s.size
=============================================================================
