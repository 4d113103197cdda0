--------------------------- MODULE StringsProofs ---------------------------
(***************************************************************************)
(* The operations of module Strings, proved for strings of every length    *)
(* and size: whoever keeps to them never writes past a string's bytes.     *)
(***************************************************************************)
EXTENDS Strings, FiniteSetTheorems, WellFoundedInduction, TLAPS

StringOver(S) == [text : Seq(S), size : Nat]

\* string_resize to no less than the text keeps it, and it fits.
LEMMA ResizeFits ==
  ASSUME NEW S, NEW s \in StringOver(S), NEW n \in Nat, Len(s.text) <= n
  PROVE  /\ string_resize(s, n) = [text |-> s.text, size |-> n + 1]
         /\ string_resize(s, n) \in StringOver(S)
         /\ Fits(string_resize(s, n))
BY DEF StringOver, string_resize, Fits

\* A text that fits after another one fits when appended to it.
LEMMA AppendedFits ==
  ASSUME NEW S, NEW s \in StringOver(S), NEW t \in Seq(S),
         Len(s.text) + Len(t) + 1 <= s.size
  PROVE  /\ Appended(s, t) = [text |-> s.text \o t, size |-> s.size]
         /\ Appended(s, t) \in StringOver(S)
         /\ Fits(Appended(s, t))
<1>1. Appended(s, t) = [text |-> s.text \o t, size |-> s.size]
  BY DEF Appended
<1>2. s.text \o t \in Seq(S) /\ Len(s.text \o t) = Len(s.text) + Len(t)
  BY DEF StringOver
<1> QED  BY <1>1, <1>2 DEF StringOver, Fits

\* string_add (lib/string.c) appends the whole text and never writes past the
\* bytes of the string, which it grows if it has to.
THEOREM AddFits ==
  ASSUME NEW S, NEW s \in StringOver(S), Fits(s), NEW t \in Seq(S)
  PROVE  /\ string_add(s, t) \in StringOver(S)
         /\ string_add(s, t).text = s.text \o t
         /\ Fits(string_add(s, t))
<1> DEFINE length == Len(s.text) + Len(t)
           r == IF s.size < length + 1 THEN string_resize(s, length) ELSE s
<1>1. length \in Nat /\ Len(s.text) \in Nat /\ Len(s.text) <= length /\ s.size \in Nat
  BY DEF StringOver
<1>2. r \in StringOver(S) /\ r.text = s.text /\ length + 1 <= r.size
  <2>1. CASE s.size < length + 1
    BY <2>1, <1>1, ResizeFits
  <2>2. CASE ~(s.size < length + 1)
    BY <2>2, <1>1
  <2> QED  BY <2>1, <2>2
<1>3. string_add(s, t) = Appended(r, t)
  BY DEF string_add
<1>4. Len(r.text) + Len(t) + 1 <= r.size
  BY <1>1, <1>2
<1> HIDE DEF r
<1>5. /\ Appended(r, t) = [text |-> r.text \o t, size |-> r.size]
      /\ Appended(r, t) \in StringOver(S)
      /\ Fits(Appended(r, t))
  BY <1>2, <1>4, AppendedFits
<1> QED  BY <1>2, <1>3, <1>5

\* string_addchar appends the character, and the string still fits.
THEOREM AddcharFits ==
  ASSUME NEW S, NEW s \in StringOver(S), Fits(s), NEW c \in S
  PROVE  /\ string_addchar(s, c) \in StringOver(S)
         /\ string_addchar(s, c).text = s.text \o <<c>>
         /\ Fits(string_addchar(s, c))
<1> DEFINE r == IF s.size <= Len(s.text) + 2 THEN string_resize(s, s.size + 1) ELSE s
<1>1. s.size \in Nat /\ Len(s.text) \in Nat /\ Len(s.text) + 1 <= s.size
  BY DEF StringOver, Fits
<1>2. r \in StringOver(S) /\ r.text = s.text /\ Len(s.text) + 2 <= r.size
  <2>1. CASE s.size <= Len(s.text) + 2
    BY <2>1, <1>1, ResizeFits
  <2>2. CASE ~(s.size <= Len(s.text) + 2)
    BY <2>2, <1>1
  <2> QED  BY <2>1, <2>2
<1>3. string_addchar(s, c) = Appended(r, <<c>>)
  BY DEF string_addchar
<1>4. <<c>> \in Seq(S) /\ Len(<<c>>) = 1
  OBVIOUS
<1> HIDE DEF r
<1>5. Len(r.text) + Len(<<c>>) + 1 <= r.size
  BY <1>1, <1>2, <1>4
<1>6. /\ Appended(r, <<c>>) = [text |-> r.text \o <<c>>, size |-> r.size]
      /\ Appended(r, <<c>>) \in StringOver(S)
      /\ Fits(Appended(r, <<c>>))
  BY <1>2, <1>4, <1>5, AppendedFits
<1> QED  BY <1>2, <1>3, <1>6

\* string_set leaves the new text and nothing else, and it fits.
THEOREM SetFits ==
  ASSUME NEW S, NEW s \in StringOver(S), NEW t \in Seq(S)
  PROVE  /\ string_set(s, t) \in StringOver(S)
         /\ string_set(s, t).text = t
         /\ Fits(string_set(s, t))
<1>1. s.size \in Nat /\ Len(t) \in Nat /\ s.text \in Seq(S)
  BY DEF StringOver
<1>2. CASE Len(t) + 1 > s.size
  <2>1. string_resize(s, Len(t)).size = Len(t) + 1
    BY DEF string_resize
  <2>2. string_set(s, t) = [text |-> t, size |-> Len(t) + 1]
    BY <1>2 DEF string_set, string_resize
  <2> QED  BY <2>2, <1>1 DEF StringOver, Fits
<1>3. CASE ~(Len(t) + 1 > s.size)
  <2>1. string_set(s, t) = [text |-> t, size |-> s.size]
    BY <1>3 DEF string_set, StringOver
  <2> QED  BY <2>1, <1>1, <1>3 DEF StringOver, Fits
<1> QED  BY <1>2, <1>3

-----------------------------------------------------------------------------
\* A set of natural numbers that is not empty has a least element: what the
\* inductions below rest on.  Of a number in it, the intervals that lie below
\* are finitely many, and their inclusion is well-founded.
LEMMA Least ==
  ASSUME NEW T \in SUBSET Nat, T # {}
  PROVE  \E x \in T : \A y \in T : x <= y
<1>1. PICK n \in T : TRUE
  OBVIOUS
<1> DEFINE S == 0 .. n
           R == StrictSubsetOrdering(S)
           F == {0 .. m : m \in {k \in T : k <= n}}
<1>2. n \in Nat /\ IsFiniteSet(S)
  BY FS_Interval
<1>3. IsWellFoundedOn(R, FiniteSubsetsOf(S))
  BY <1>2, FS_StrictSubsetOrderingWellFounded
<1>4. \A m \in Nat : m <= n => 0 .. m \in FiniteSubsetsOf(S)
  BY <1>2, FS_Interval DEF FiniteSubsetsOf
<1>5. F \subseteq FiniteSubsetsOf(S) /\ F # {}
  BY <1>2, <1>4
<1>6. \A i, j \in Nat : i < j /\ j <= n => <<0 .. i, 0 .. j>> \in R
  BY <1>2 DEF StrictSubsetOrdering
<1> HIDE DEF R, S
<1>7. PICK x \in F : \A y \in F : ~(<<y, x>> \in R)
  BY <1>3, <1>5, WFMin
<1>8. PICK m \in T : m <= n /\ x = 0 .. m
  BY <1>7
<1>9. ASSUME NEW y \in T, y < m PROVE FALSE
  <2>1. m \in Nat /\ y \in Nat /\ y <= n
    BY <1>2, <1>8, <1>9
  <2>2. 0 .. y \in F
    BY <2>1
  <2>3. <<0 .. y, x>> \in R
    BY <1>6, <1>8, <1>9, <2>1
  <2> HIDE DEF F
  <2> QED  BY <1>7, <2>2, <2>3
<1> QED
  <2>1. \A y \in T : m \in Nat /\ y \in Nat
    BY <1>8
  <2>2. \A y \in T : m <= y
    BY <1>9, <2>1
  <2> QED  BY <2>2, <1>8

\* The texts that are copied up to each character, as a function.
IsCopy(f, s, t, n) ==
  /\ f = [i \in 0 .. n |-> f[i]]
  /\ f[0] = s /\ \A i \in 1 .. n : f[i] = string_addchar(f[i - 1], t[i])

\* There is such a function for every number of characters.
LEMMA CopyExists ==
  ASSUME NEW s, NEW t, NEW n \in Nat
  PROVE  \E f : IsCopy(f, s, t, n)
<1> DEFINE Bad == {k \in Nat : ~ \E f : IsCopy(f, s, t, k)}
<1> SUFFICES ASSUME Bad # {} PROVE FALSE
  OBVIOUS
<1>1. PICK k \in Bad : \A j \in Bad : k <= j
  BY Least
<1>2. k \in Nat /\ ~ \E f : IsCopy(f, s, t, k)
  OBVIOUS
<1>3. CASE k = 0
  <2>1. IsCopy([i \in 0 .. 0 |-> s], s, t, 0)
    BY DEF IsCopy
  <2> QED  BY <1>2, <1>3, <2>1
<1>4. CASE k # 0
  <2>1. k - 1 \in Nat /\ k - 1 \notin Bad
    BY <1>1, <1>2, <1>4
  <2>2. PICK f : IsCopy(f, s, t, k - 1)
    BY <2>1
  <2> DEFINE g == [i \in 0 .. k |-> IF i < k THEN f[i] ELSE string_addchar(f[k - 1], t[k])]
  <2>3. g[0] = s
    BY <1>2, <1>4, <2>2 DEF IsCopy
  <2>4. ASSUME NEW i \in 1 .. k PROVE g[i] = string_addchar(g[i - 1], t[i])
    <3>1. CASE i < k
      <4>1. i \in 0 .. k /\ i - 1 \in 0 .. k /\ i - 1 < k /\ i \in 1 .. k - 1
        BY <1>2, <3>1
      <4>2. g[i] = f[i] /\ g[i - 1] = f[i - 1]
        BY <3>1, <4>1
      <4>3. f[i] = string_addchar(f[i - 1], t[i])
        BY <2>2, <4>1 DEF IsCopy
      <4> QED  BY <4>2, <4>3
    <3>2. CASE i = k
      BY <1>2, <3>2
    <3> QED  BY <3>1, <3>2
  <2>5. g = [i \in 0 .. k |-> g[i]]
    OBVIOUS
  <2> HIDE DEF g
  <2>6. IsCopy(g, s, t, k)
    BY <2>3, <2>4, <2>5 DEF IsCopy
  <2> QED  BY <1>2, <2>6
<1> QED  BY <1>3, <1>4

\* The text copied so far and the next character make the next text.
LEMMA NextCopied ==
  ASSUME NEW S, NEW a \in Seq(S), NEW t \in Seq(S), NEW k \in 1 .. Len(t)
  PROVE  (a \o SubSeq(t, 1, k - 1)) \o <<t[k]>> = a \o SubSeq(t, 1, k)
<1>1. SubSeq(t, 1, k - 1) \in Seq(S) /\ <<t[k]>> \in Seq(S)
  OBVIOUS
<1>2. SubSeq(t, 1, k - 1) \o <<t[k]>> = SubSeq(t, 1, k)
  OBVIOUS
<1>3. PICK b \in Seq(S) : b = SubSeq(t, 1, k - 1)
  BY <1>1
<1>4. PICK c \in Seq(S) : c = <<t[k]>>
  BY <1>1
<1>5. (a \o b) \o c = a \o (b \o c)
  OBVIOUS
<1> QED  BY <1>2, <1>3, <1>4, <1>5

\* A text of any length copied character by character, as parse_input and
\* alias do, arrives whole at the end of a string, which grows as it has to.
THEOREM CopiedFits ==
  ASSUME NEW S, NEW s \in StringOver(S), Fits(s), NEW t \in Seq(S)
  PROVE  /\ Copied(s, t) \in StringOver(S)
         /\ Copied(s, t).text = s.text \o t
         /\ Fits(Copied(s, t))
<1>1. Len(t) \in Nat /\ Len(t) \in 0 .. Len(t) /\ SubSeq(t, 1, Len(t)) = t
  OBVIOUS
<1>2. PICK c : IsCopy(c, s, t, Len(t)) /\ Copied(s, t) = c[Len(t)]
  <2> DEFINE F(f) == [i \in 0 .. Len(t) |-> IF i = 0 THEN s ELSE string_addchar(f[i - 1], t[i])]
             c == CHOOSE f : f = F(f)
  <2>1. PICK f : IsCopy(f, s, t, Len(t))
    BY <1>1, CopyExists
  <2>2. f = F(f)
    <3>1. \A i \in 0 .. Len(t) : f[i] = IF i = 0 THEN s ELSE string_addchar(f[i - 1], t[i])
      BY <1>1, <2>1 DEF IsCopy
    <3>2. f = [i \in 0 .. Len(t) |-> f[i]]
      BY <2>1 DEF IsCopy
    <3> QED  BY <3>1, <3>2
  <2>3. c = F(c)
    BY <2>2
  <2>4. Copied(s, t) = c[Len(t)]
    BY DEF Copied
  <2> HIDE DEF c
  <2>5. \A i \in 0 .. Len(t) : c[i] = IF i = 0 THEN s ELSE string_addchar(c[i - 1], t[i])
    BY <2>3
  <2>6. c = [i \in 0 .. Len(t) |-> c[i]]
    BY <2>3
  <2> HIDE DEF F
  <2>7. IsCopy(c, s, t, Len(t))
    BY <1>1, <2>5, <2>6 DEF IsCopy
  <2> QED  BY <2>4, <2>7
<1>3. /\ c[Len(t)] \in StringOver(S) /\ Fits(c[Len(t)])
      /\ c[Len(t)].text = s.text \o SubSeq(t, 1, Len(t))
  <2> DEFINE Good(k) == /\ c[k] \in StringOver(S) /\ Fits(c[k])
                       /\ c[k].text = s.text \o SubSeq(t, 1, k)
             Bad == {k \in 0 .. Len(t) : ~Good(k)}
  <2> SUFFICES Bad = {}
    BY <1>1
  <2> SUFFICES ASSUME Bad # {} PROVE FALSE
    OBVIOUS
  <2>1. Bad \in SUBSET Nat
    OBVIOUS
  <2> HIDE DEF Good
  <2>2. PICK k \in Bad : \A j \in Bad : k <= j
    BY <2>1, Least
  <2>3. k \in 0 .. Len(t) /\ ~Good(k) /\ Len(t) \in Nat
    OBVIOUS
  <2>4. CASE k = 0
    <3>1. SubSeq(t, 1, 0) = <<>> /\ s.text \in Seq(S) /\ s.text \o <<>> = s.text
      BY DEF StringOver
    <3>2. c[0] = s
      BY <1>2 DEF IsCopy
    <3>3. Good(0)
      BY <3>1, <3>2 DEF Good
    <3> QED  BY <2>3, <2>4, <3>3
  <2>5. CASE k # 0
    <3>1. k - 1 \in 0 .. Len(t) /\ k \in 1 .. Len(t) /\ k - 1 \notin Bad
      BY <2>2, <2>3, <2>5
    <3>2. Good(k - 1)
      BY <3>1
    <3>3. t[k] \in S
      BY <3>1
    <3>4. c[k] = string_addchar(c[k - 1], t[k])
      BY <1>2, <3>1 DEF IsCopy
    <3>5. c[k] \in StringOver(S) /\ Fits(c[k]) /\ c[k].text = c[k - 1].text \o <<t[k]>>
      BY <3>2, <3>3, <3>4, AddcharFits DEF Good
    <3>6. s.text \in Seq(S)
      BY DEF StringOver
    <3>7. (s.text \o SubSeq(t, 1, k - 1)) \o <<t[k]>> = s.text \o SubSeq(t, 1, k)
      BY <3>1, <3>6, NextCopied
    <3>8. Good(k)
      BY <3>2, <3>5, <3>7 DEF Good
    <3> QED  BY <2>3, <3>8
  <2> QED  BY <2>4, <2>5
<1> QED  BY <1>1, <1>2, <1>3

\* string_trim keeps the text, and leaves one byte more than the string
\* needs: string_resize adds one for a terminator that is counted already.
THEOREM TrimFits ==
  ASSUME NEW S, NEW s \in StringOver(S), Fits(s)
  PROVE  /\ string_trim(s) \in StringOver(S)
         /\ string_trim(s).text = s.text
         /\ Fits(string_trim(s)) /\ string_padding(string_trim(s)) = 1
<1> DEFINE n == s.size - string_padding(s)
<1>1. s.size \in Nat /\ Len(s.text) \in Nat /\ n = Len(s.text) + 1
  BY DEF StringOver, string_padding
<1>2. n \in Nat /\ Len(s.text) <= n
  BY <1>1
<1> HIDE DEF n
<1>3. string_trim(s) = string_resize(s, n)
  BY DEF string_trim, n
<1>4. string_trim(s) = [text |-> s.text, size |-> n + 1] /\ string_trim(s) \in StringOver(S)
  BY <1>2, <1>3, ResizeFits
<1> QED  BY <1>1, <1>4 DEF Fits, string_padding

\* strcmp is 0 for equal texts and for no others: find_cmd and find_alias
\* find exactly the name they are asked for.
THEOREM StrcmpEqual ==
  ASSUME NEW s \in Seq(Int), NEW t \in Seq(Int)
  PROVE  strcmp(s, t) = 0 <=> s = t
<1>1. Len(s) \in Nat /\ Len(t) \in Nat
  OBVIOUS
<1>2. CASE Differ(s, t) = {}
  <2>1. \A i \in 1 .. Len(s) : i <= Len(t) /\ s[i] = t[i]
    BY <1>2 DEF Differ
  <2>2. Len(s) <= Len(t)
    BY <1>1, <2>1
  <2>3. CASE Len(s) < Len(t)
    BY <1>1, <1>2, <2>3 DEF strcmp
  <2>4. CASE Len(s) = Len(t)
    <3>1. s = t
      BY <2>1, <2>4
    <3> QED  BY <1>1, <1>2, <2>4, <3>1 DEF strcmp
  <2> QED  BY <1>1, <2>2, <2>3, <2>4
<1>3. CASE Differ(s, t) # {}
  <2>1. strcmp(s, t) \in {1, -1}
    BY <1>3 DEF strcmp
  <2>2. s # t
    BY <1>3 DEF Differ
  <2> QED  BY <2>1, <2>2
<1> QED  BY <1>2, <1>3
=============================================================================
