----------------------------- MODULE ListProofs -----------------------------
(***************************************************************************)
(* The linked list, proved for lists of any length: the walks along next   *)
(* and prev, the links after every operation, and that the list is the     *)
(* sequence of values that module ListSeq describes.                       *)
(***************************************************************************)
EXTENDS List, FiniteSetTheorems, SequenceTheorems, WellFoundedInduction, TLAPS

\* The elements are s[1], ..., s[n], in this order, and c their values.
Chained(n, s, c) ==
  /\ n \in Nat /\ s \in [1 .. n -> Addresses] /\ c \in [1 .. n -> Values]
  /\ \A i, j \in 1 .. n : s[i] = s[j] => i = j
  /\ DOMAIN node = {s[i] : i \in 1 .. n}
  /\ node = [x \in DOMAIN node |-> node[x]]
  /\ \A i \in 1 .. n :
       node[s[i]] = [value |-> c[i],
                     next |-> IF i = n THEN NULL ELSE s[i + 1],
                     prev |-> IF i = 1 THEN NULL ELSE s[i - 1]]

\* The owner points to an element unless there is none.
Owned(n) == IF n = 0 THEN list = NULL ELSE list \in DOMAIN node

\* What holds in every state.
IInv == \E n, s, c : Chained(n, s, c) /\ Owned(n)

-----------------------------------------------------------------------------
(* Walking up and down the numbers of the elements.                          *)

\* What holds of 1 and of each next number holds up to n.
LEMMA Upwards ==
  ASSUME NEW n \in Nat, NEW S, n > 0 => 1 \in S,
         \A k \in 1 .. n : k > 1 /\ k - 1 \in S => k \in S
  PROVE  1 .. n \subseteq S
<1> DEFINE R == StrictSubsetOrdering(1 .. n)
           T == {1 .. k : k \in (1 .. n) \ S}
<1> SUFFICES ASSUME ~ (1 .. n \subseteq S) PROVE FALSE
  OBVIOUS
<1>1. IsFiniteSet(1 .. n)
  BY FS_Interval
<1>2. IsWellFoundedOn(R, FiniteSubsetsOf(1 .. n))
  BY <1>1, FS_StrictSubsetOrderingWellFounded
<1>3. T \subseteq FiniteSubsetsOf(1 .. n) /\ T # {}
  <2>1. \A k \in 1 .. n : 1 .. k \in FiniteSubsetsOf(1 .. n)
    BY FS_Interval DEF FiniteSubsetsOf
  <2> QED  BY <2>1
<1>4. PICK t \in T : \A y \in T : ~ (<<y, t>> \in R)
  <2> HIDE DEF R, T
  <2> QED  BY <1>2, <1>3, WFMin
<1>5. PICK k \in (1 .. n) \ S : t = 1 .. k
  BY <1>4
<1>6. k > 1 /\ k - 1 \in (1 .. n) \ S
  <2>1. k > 1
    BY <1>5
  <2> QED  BY <1>5, <2>1
<1>7. 1 .. k - 1 \in T
  BY <1>6
<1>8. <<1 .. k - 1, t>> \in R
  BY <1>5, <1>6 DEF StrictSubsetOrdering
<1> QED  BY <1>4, <1>7, <1>8

\* The same from n down to 1.
LEMMA Downwards ==
  ASSUME NEW n \in Nat, NEW S, n > 0 => n \in S,
         \A k \in 1 .. n : k < n /\ k + 1 \in S => k \in S
  PROVE  1 .. n \subseteq S
<1> DEFINE T == {k \in 1 .. n : n + 1 - k \in S}
<1>1. n > 0 => 1 \in T
  OBVIOUS
<1>2. ASSUME NEW k \in 1 .. n, k > 1, k - 1 \in T PROVE k \in T
  <2>1. n + 1 - k \in 1 .. n /\ n + 1 - k < n /\ (n + 1 - k) + 1 = n + 1 - (k - 1)
    BY <1>2
  <2> QED  BY <1>2, <2>1
<1>3. 1 .. n \subseteq T
  <2> HIDE DEF T
  <2> QED  BY <1>1, <1>2, Upwards
<1>4. ASSUME NEW k \in 1 .. n PROVE k \in S
  <2>1. n + 1 - k \in 1 .. n /\ n + 1 - (n + 1 - k) = k
    OBVIOUS
  <2> QED  BY <1>3, <2>1
<1> QED  BY <1>4

-----------------------------------------------------------------------------
(* What the walks find.                                                      *)

\* The links of an element.
LEMMA Links ==
  ASSUME NEW n, NEW s, NEW c, Chained(n, s, c), NEW i \in 1 .. n
  PROVE  /\ s[i] \in Elements /\ s[i] \in Addresses /\ s[i] # NULL
         /\ node[s[i]].value = c[i]
         /\ node[s[i]].next = NULL <=> i = n
         /\ i < n => i + 1 \in 1 .. n /\ node[s[i]].next = s[i + 1]
         /\ node[s[i]].prev = NULL <=> i = 1
         /\ i > 1 => i - 1 \in 1 .. n /\ node[s[i]].prev = s[i - 1]
<1>1. \A j \in 1 .. n : s[j] \in Elements /\ s[j] \in Addresses /\ s[j] # NULL
  BY ListConstants DEF Chained, Elements
<1>2. n \in Nat /\ (i < n => i + 1 \in 1 .. n) /\ (i > 1 => i - 1 \in 1 .. n)
      /\ (i < n \/ i = n) /\ (i > 1 \/ i = 1)
  BY DEF Chained
<1>3. /\ node[s[i]].value = c[i]
      /\ node[s[i]].next = IF i = n THEN NULL ELSE s[i + 1]
      /\ node[s[i]].prev = IF i = 1 THEN NULL ELSE s[i - 1]
  <2>1. node[s[i]] = [value |-> c[i], next |-> IF i = n THEN NULL ELSE s[i + 1],
                      prev |-> IF i = 1 THEN NULL ELSE s[i - 1]]
    BY DEF Chained
  <2> QED  BY <2>1
<1> QED  BY <1>1, <1>2, <1>3

\* Every element has its number.
LEMMA Numbered ==
  ASSUME NEW n, NEW s, NEW c, Chained(n, s, c), NEW x \in Elements
  PROVE  \E i \in 1 .. n : x = s[i]
BY DEF Chained, Elements

LEMMA FirstIs ==
  ASSUME NEW n, NEW s, NEW c, Chained(n, s, c), NEW k \in 1 .. n
  PROVE  get_first(s[k]) = s[1]
<1> DEFINE F(f) == [x \in Elements |-> IF node[x].prev = NULL THEN x ELSE f[node[x].prev]]
           back == CHOOSE f : f = F(f)
           w == [x \in Elements |-> s[1]]
<1>1. n \in Nat /\ n > 0
  BY DEF Chained
<1>2. w = F(w)
  <2>1. ASSUME NEW x \in Elements
        PROVE  w[x] = IF node[x].prev = NULL THEN x ELSE w[node[x].prev]
    <3>1. PICK i \in 1 .. n : x = s[i]
      BY Numbered
    <3>2. CASE i = 1
      BY <3>1, <3>2, Links
    <3>3. CASE i > 1
      <4>1. i - 1 \in 1 .. n /\ node[x].prev = s[i - 1] /\ node[x].prev # NULL
        BY <3>1, <3>3, Links
      <4>2. s[i - 1] \in Elements
        BY <4>1, Links
      <4> QED  BY <4>1, <4>2
    <3> QED  BY <1>1, <3>2, <3>3
  <2> QED  BY <2>1
<1>3. back = F(back)
  <2> HIDE DEF F, w
  <2> QED  BY <1>2
<1>4. get_first(s[k]) = back[s[k]]
  BY DEF get_first
<1> HIDE DEF back
<1>5. \A x \in Elements : back[x] = IF node[x].prev = NULL THEN x ELSE back[node[x].prev]
  BY <1>3
<1> HIDE DEF F
<1> DEFINE S == {i \in 1 .. n : back[s[i]] = s[1]}
<1>6. 1 \in S
  BY <1>1, <1>5, Links
<1>7. ASSUME NEW i \in 1 .. n, i > 1, i - 1 \in S PROVE i \in S
  <2>1. /\ s[i] \in Elements /\ node[s[i]].prev # NULL /\ node[s[i]].prev = s[i - 1]
    BY <1>7, Links
  <2> QED  BY <1>5, <1>7, <2>1
<1>8. 1 .. n \subseteq S
  <2> HIDE DEF S
  <2> QED  BY <1>1, <1>6, <1>7, Upwards
<1> QED  BY <1>4, <1>8

LEMMA LastIs ==
  ASSUME NEW n, NEW s, NEW c, Chained(n, s, c), NEW k \in 1 .. n
  PROVE  get_last(s[k]) = s[n]
<1> DEFINE F(f) == [x \in Elements |-> IF node[x].next = NULL THEN x ELSE f[node[x].next]]
           on == CHOOSE f : f = F(f)
           w == [x \in Elements |-> s[n]]
<1>1. n \in Nat /\ n > 0
  BY DEF Chained
<1>2. w = F(w)
  <2>1. ASSUME NEW x \in Elements
        PROVE  w[x] = IF node[x].next = NULL THEN x ELSE w[node[x].next]
    <3>1. PICK i \in 1 .. n : x = s[i]
      BY Numbered
    <3>2. CASE i = n
      BY <3>1, <3>2, Links
    <3>3. CASE i < n
      <4>1. i + 1 \in 1 .. n /\ node[x].next = s[i + 1] /\ node[x].next # NULL
        BY <3>1, <3>3, Links
      <4>2. s[i + 1] \in Elements
        BY <4>1, Links
      <4> QED  BY <4>1, <4>2
    <3> QED  BY <1>1, <3>2, <3>3
  <2> QED  BY <2>1
<1>3. on = F(on)
  <2> HIDE DEF F, w
  <2> QED  BY <1>2
<1>4. get_last(s[k]) = on[s[k]]
  BY DEF get_last
<1> HIDE DEF on
<1>5. \A x \in Elements : on[x] = IF node[x].next = NULL THEN x ELSE on[node[x].next]
  BY <1>3
<1> HIDE DEF F
<1> DEFINE S == {i \in 1 .. n : on[s[i]] = s[n]}
<1>6. n \in S
  BY <1>1, <1>5, Links
<1>7. ASSUME NEW i \in 1 .. n, i < n, i + 1 \in S PROVE i \in S
  <2>1. /\ s[i] \in Elements /\ node[s[i]].next # NULL /\ node[s[i]].next = s[i + 1]
    BY <1>7, Links
  <2> QED  BY <1>5, <1>7, <2>1
<1>8. 1 .. n \subseteq S
  <2> HIDE DEF S
  <2> QED  BY <1>1, <1>6, <1>7, Downwards
<1> QED  BY <1>4, <1>8

\* The number of an element, counted from the first.
Number(n, s) == [x \in Elements |-> CHOOSE i \in 1 .. n : x = s[i]]

LEMMA NumberIs ==
  ASSUME NEW n, NEW s, NEW c, Chained(n, s, c), NEW i \in 1 .. n
  PROVE  Number(n, s)[s[i]] = i
<1>1. s[i] \in Elements
  BY Links
<1>2. \A j \in 1 .. n : s[i] = s[j] => i = j
  BY DEF Chained
<1>3. (CHOOSE j \in 1 .. n : s[i] = s[j]) = i
  BY <1>2
<1> QED  BY <1>1, <1>3 DEF Number

LEMMA CountIs ==
  ASSUME NEW n, NEW s, NEW c, Chained(n, s, c), NEW k \in 1 .. n
  PROVE  list_count(s[k]) = n
<1> DEFINE F(f) == [x \in Elements |-> IF node[x].prev = NULL THEN 0 ELSE 1 + f[node[x].prev]]
           before == CHOOSE f : f = F(f)
           w == [x \in Elements |-> Number(n, s)[x] - 1]
           G(f) == [x \in Elements |-> IF node[x].next = NULL THEN 0 ELSE 1 + f[node[x].next]]
           after == CHOOSE f : f = G(f)
           v == [x \in Elements |-> n - Number(n, s)[x]]
<1>1. n \in Nat /\ n > 0
  BY DEF Chained
<1>2. w = F(w)
  <2>1. ASSUME NEW x \in Elements
        PROVE  w[x] = IF node[x].prev = NULL THEN 0 ELSE 1 + w[node[x].prev]
    <3>1. PICK i \in 1 .. n : x = s[i] /\ w[x] = i - 1
      BY Numbered, NumberIs
    <3>2. CASE i = 1
      BY <3>1, <3>2, Links
    <3>3. CASE i > 1
      <4>1. i - 1 \in 1 .. n /\ node[x].prev = s[i - 1] /\ node[x].prev # NULL
        BY <3>1, <3>3, Links
      <4>2. w[s[i - 1]] = (i - 1) - 1
        BY <4>1, Links, NumberIs
      <4> QED  BY <3>1, <4>1, <4>2
    <3> QED  BY <1>1, <3>2, <3>3
  <2> QED  BY <2>1
<1>3. before = F(before)
  <2> HIDE DEF F, w
  <2> QED  BY <1>2
<1>4. v = G(v)
  <2>1. ASSUME NEW x \in Elements
        PROVE  v[x] = IF node[x].next = NULL THEN 0 ELSE 1 + v[node[x].next]
    <3>1. PICK i \in 1 .. n : x = s[i] /\ v[x] = n - i
      BY Numbered, NumberIs
    <3>2. CASE i = n
      BY <1>1, <3>1, <3>2, Links
    <3>3. CASE i < n
      <4>1. i + 1 \in 1 .. n /\ node[x].next = s[i + 1] /\ node[x].next # NULL
        BY <3>1, <3>3, Links
      <4>2. v[s[i + 1]] = n - (i + 1)
        BY <4>1, Links, NumberIs
      <4> QED  BY <1>1, <3>1, <4>1, <4>2
    <3> QED  BY <1>1, <3>2, <3>3
  <2> QED  BY <2>1
<1>5. after = G(after)
  <2> HIDE DEF G, v
  <2> QED  BY <1>4
<1>6. list_count(s[k]) = before[s[k]] + 1 + after[s[k]]
  BY DEF list_count
<1> HIDE DEF before, after
<1>7. \A x \in Elements :
        /\ before[x] = IF node[x].prev = NULL THEN 0 ELSE 1 + before[node[x].prev]
        /\ after[x] = IF node[x].next = NULL THEN 0 ELSE 1 + after[node[x].next]
  BY <1>3, <1>5
<1> HIDE DEF F, G
<1> DEFINE S == {i \in 1 .. n : before[s[i]] = i - 1}
           T == {i \in 1 .. n : after[s[i]] = n - i}
<1>8. 1 .. n \subseteq S
  <2>1. 1 \in S
    BY <1>1, <1>7, Links
  <2>2. ASSUME NEW i \in 1 .. n, i > 1, i - 1 \in S PROVE i \in S
    <3>1. /\ s[i] \in Elements /\ node[s[i]].prev # NULL /\ node[s[i]].prev = s[i - 1]
      BY <2>2, Links
    <3>2. before[s[i]] = 1 + before[s[i - 1]]
      BY <1>7, <3>1
    <3> QED  BY <2>2, <3>2
  <2> HIDE DEF S
  <2> QED  BY <1>1, <2>1, <2>2, Upwards
<1>9. 1 .. n \subseteq T
  <2>1. n \in T
    BY <1>1, <1>7, Links
  <2>2. ASSUME NEW i \in 1 .. n, i < n, i + 1 \in T PROVE i \in T
    <3>1. /\ s[i] \in Elements /\ node[s[i]].next # NULL /\ node[s[i]].next = s[i + 1]
      BY <2>2, Links
    <3>2. after[s[i]] = 1 + after[s[i + 1]]
      BY <1>7, <3>1
    <3> QED  BY <1>1, <2>2, <3>2
  <2> HIDE DEF T
  <2> QED  BY <1>1, <2>1, <2>2, Downwards
<1>10. before[s[k]] = k - 1 /\ after[s[k]] = n - k
  BY <1>8, <1>9
<1> QED  BY <1>1, <1>6, <1>10

LEMMA AtIs ==
  ASSUME NEW n, NEW s, NEW c, Chained(n, s, c), NEW k \in 1 .. n, NEW i \in 0 .. n - 1
  PROVE  get_at(s[k], i) = s[i + 1]
<1> DEFINE F(f) == [j \in 0 .. i |-> IF j = 0 THEN get_first(s[k]) ELSE node[f[j - 1]].next]
           at == CHOOSE f : f = F(f)
           w == [j \in 0 .. i |-> s[j + 1]]
<1>1. n \in Nat /\ n > 0 /\ get_first(s[k]) = s[1]
  <2>1. n \in Nat /\ n > 0
    BY DEF Chained
  <2> QED  BY <2>1, FirstIs
<1>2. w = F(w)
  <2>1. ASSUME NEW j \in 0 .. i
        PROVE  w[j] = IF j = 0 THEN get_first(s[k]) ELSE node[w[j - 1]].next
    <3>1. CASE j = 0
      BY <1>1, <3>1
    <3>2. CASE j > 0
      <4>1. j - 1 \in 0 .. i /\ j \in 1 .. n /\ j < n
        BY <1>1, <3>2
      <4>2. node[s[j]].next = s[j + 1]
        BY <4>1, Links
      <4>3. w[j - 1] = s[j]
        BY <4>1
      <4> QED  BY <3>2, <4>2, <4>3
    <3> QED  BY <3>1, <3>2
  <2> QED  BY <2>1
<1>3. at = F(at)
  <2> HIDE DEF F, w
  <2> QED  BY <1>2
<1>4. get_at(s[k], i) = at[i]
  <2>1. Index(s[k], i)
    BY <1>1, CountIs DEF Index
  <2> QED  BY <2>1 DEF get_at
<1> HIDE DEF at
<1>5. \A j \in 0 .. i : at[j] = IF j = 0 THEN get_first(s[k]) ELSE node[at[j - 1]].next
  BY <1>3
<1> HIDE DEF F
<1> DEFINE S == {j \in 1 .. i + 1 : at[j - 1] = s[j]}
<1>6. 1 \in S
  BY <1>1, <1>5
<1>7. ASSUME NEW j \in 1 .. i + 1, j > 1, j - 1 \in S PROVE j \in S
  <2>1. j - 1 \in 1 .. n /\ j - 1 < n /\ j - 1 \in 0 .. i /\ j - 1 # 0 /\ (j - 1) + 1 = j
    BY <1>1, <1>7
  <2>2. node[s[j - 1]].next = s[j]
    BY <2>1, Links
  <2>3. at[j - 1] = node[at[(j - 1) - 1]].next
    BY <1>5, <2>1
  <2> QED  BY <1>7, <2>2, <2>3
<1>8. 1 .. i + 1 \subseteq S
  <2> HIDE DEF S
  <2> QED  BY <1>6, <1>7, Upwards
<1>9. i + 1 \in S /\ (i + 1) - 1 = i
  BY <1>8
<1> QED  BY <1>4, <1>9

\* What the owner can get at is every element, and the values are the contents.
LEMMA ContentsAre ==
  \A n, s, c : Chained(n, s, c) /\ Owned(n) =>
    /\ Contents = c /\ OnList = Elements
    /\ list # NULL => list \in Elements /\ Indices = 0 .. n - 1 /\ n > 0
<1> SUFFICES ASSUME NEW n, NEW s, NEW c, Chained(n, s, c), Owned(n)
             PROVE  /\ Contents = c /\ OnList = Elements
                    /\ list # NULL => list \in Elements /\ Indices = 0 .. n - 1 /\ n > 0
  OBVIOUS
<1>1. n \in Nat /\ c = [i \in 1 .. n |-> c[i]]
  BY DEF Chained
<1>2. CASE n = 0
  <2>1. list = NULL /\ Elements = {} /\ 1 .. n = {}
    BY <1>2 DEF Owned, Chained, Elements
  <2>2. OnList = {}
    BY <2>1 DEF OnList
  <2>3. Contents = [i \in 1 .. 0 |-> node[get_at(list, i - 1)].value]
    BY <2>1 DEF Contents
  <2>4. Contents = c
    BY <1>1, <1>2, <2>1, <2>3
  <2> QED  BY <2>1, <2>2, <2>4
<1>3. CASE n > 0
  <2>1. list \in Elements /\ list # NULL
    BY <1>1, <1>3, ListConstants DEF Owned, Chained, Elements
  <2>2. PICK k \in 1 .. n : list = s[k]
    BY <2>1, Numbered
  <2>3. list_count(list) = n
    BY <2>2, CountIs
  <2>4. \A i \in 0 .. n - 1 : get_at(list, i) = s[i + 1]
    BY <2>2, AtIs
  <2>5. Indices = 0 .. n - 1
    BY <2>3 DEF Indices
  <2>6. OnList = {s[i + 1] : i \in 0 .. n - 1}
    BY <2>1, <2>4, <2>5 DEF OnList
  <2>7. Elements = {s[i] : i \in 1 .. n}
    BY DEF Chained, Elements
  <2>8. \A i \in 1 .. n : i - 1 \in 0 .. n - 1 /\ (i - 1) + 1 = i
    BY <1>1
  <2>9. \A i \in 0 .. n - 1 : i + 1 \in 1 .. n
    BY <1>1
  <2>10. OnList = Elements
    BY <2>6, <2>7, <2>8, <2>9
  <2>11. Contents = [i \in 1 .. n |-> node[get_at(list, i - 1)].value]
    BY <2>1, <2>3 DEF Contents
  <2>12. \A i \in 1 .. n : node[get_at(list, i - 1)].value = c[i]
    BY <2>4, <2>8, Links
  <2>13. Contents = c
    BY <1>1, <2>11, <2>12
  <2> QED  BY <1>3, <2>1, <2>5, <2>10, <2>13
<1> QED  BY <1>1, <1>2, <1>3

LEMMA ContentsBecome ==
  (\A n, s, c : Chained(n, s, c) /\ Owned(n) =>
     /\ Contents = c /\ OnList = Elements
     /\ list # NULL => list \in Elements /\ Indices = 0 .. n - 1 /\ n > 0)'
BY ContentsAre, PTL

-----------------------------------------------------------------------------
(* What the operations leave.                                                *)

\* f with x after its i-th element, and without its k-th.
Inserted(f, n, i, x) ==
  [j \in 1 .. n + 1 |-> IF j <= i THEN f[j] ELSE IF j = i + 1 THEN x ELSE f[j - 1]]
Removed(f, n, k) == [j \in 1 .. n - 1 |-> IF j < k THEN f[j] ELSE f[j + 1]]

IsInserted(g, T, f, n, i, x) ==
  /\ g \in [1 .. n + 1 -> T] /\ g[i + 1] = x
  /\ \A j \in 1 .. n : /\ j <= i => g[j] = f[j]
                       /\ j > i => g[j + 1] = f[j]

LEMMA InsertedIn ==
  \A T : \A n \in Nat : \A f \in [1 .. n -> T], i \in 1 .. n, x \in T :
    IsInserted(Inserted(f, n, i, x), T, f, n, i, x)
<1> SUFFICES ASSUME NEW T, NEW n \in Nat, NEW f \in [1 .. n -> T], NEW i \in 1 .. n, NEW x \in T
             PROVE  IsInserted(Inserted(f, n, i, x), T, f, n, i, x)
  OBVIOUS
<1>1. ASSUME NEW j \in 1 .. n + 1
      PROVE  (IF j <= i THEN f[j] ELSE IF j = i + 1 THEN x ELSE f[j - 1]) \in T
  <2>1. j > i + 1 => j - 1 \in 1 .. n
    OBVIOUS
  <2>2. j <= i => j \in 1 .. n
    OBVIOUS
  <2>3. j <= i \/ j = i + 1 \/ j > i + 1
    OBVIOUS
  <2> QED  BY <2>1, <2>2, <2>3
<1>2. \A j \in 1 .. n : j \in 1 .. n + 1 /\ j + 1 \in 1 .. n + 1 /\ (j + 1) - 1 = j
  OBVIOUS
<1>3. \A j \in 1 .. n : j > i => ~ (j + 1 <= i) /\ j + 1 # i + 1
  OBVIOUS
<1> QED  BY <1>1, <1>2, <1>3 DEF Inserted, IsInserted

IsRemoved(g, T, f, n, k) ==
  /\ g \in [1 .. n - 1 -> T]
  /\ \A j \in 1 .. n - 1 : /\ j < k => g[j] = f[j]
                           /\ j >= k => g[j] = f[j + 1]

LEMMA RemovedIn ==
  \A T : \A n \in Nat : \A f \in [1 .. n -> T], k \in 1 .. n :
    IsRemoved(Removed(f, n, k), T, f, n, k)
<1> SUFFICES ASSUME NEW T, NEW n \in Nat, NEW f \in [1 .. n -> T], NEW k \in 1 .. n
             PROVE  IsRemoved(Removed(f, n, k), T, f, n, k)
  OBVIOUS
<1>1. \A j \in 1 .. n - 1 : j \in 1 .. n /\ j + 1 \in 1 .. n
  OBVIOUS
<1> QED  BY <1>1 DEF Removed, IsRemoved

LEMMA InsertChained ==
  ASSUME NEW n, NEW s, NEW c, Chained(n, s, c), NEW i \in 1 .. n,
         NEW e \in Addresses \ Elements, NEW v \in Values,
         DOMAIN node' = Elements \cup {e},
         node' = [x \in DOMAIN node' |-> node'[x]],
         node'[e] = [value |-> v, next |-> node[s[i]].next, prev |-> s[i]],
         node'[s[i]] = [node[s[i]] EXCEPT !.next = e],
         i < n => node'[s[i + 1]] = [node[s[i + 1]] EXCEPT !.prev = e],
         \A j \in 1 .. n : j # i /\ j # i + 1 => node'[s[j]] = node[s[j]]
  PROVE  Chained(n + 1, Inserted(s, n, i, e), Inserted(c, n, i, v))'
<1>1. /\ n \in Nat /\ n + 1 \in Nat /\ s \in [1 .. n -> Addresses] /\ c \in [1 .. n -> Values]
      /\ \A j, k \in 1 .. n : s[j] = s[k] => j = k
      /\ Elements = {s[j] : j \in 1 .. n} /\ i \in Nat /\ e \in Addresses
  BY DEF Chained, Elements
<1>2. PICK t, d : t = Inserted(s, n, i, e) /\ d = Inserted(c, n, i, v)
  OBVIOUS
<1>3. /\ t \in [1 .. n + 1 -> Addresses] /\ t[i + 1] = e
      /\ \A j \in 1 .. n : /\ j <= i => t[j] = s[j]
                           /\ j > i => t[j + 1] = s[j]
  <2>1. IsInserted(Inserted(s, n, i, e), Addresses, s, n, i, e)
    BY <1>1, InsertedIn, Zenon
  <2> QED  BY <1>2, <2>1 DEF IsInserted
<1>4. /\ d \in [1 .. n + 1 -> Values] /\ d[i + 1] = v
      /\ \A j \in 1 .. n : /\ j <= i => d[j] = c[j]
                           /\ j > i => d[j + 1] = c[j]
  <2>1. IsInserted(Inserted(c, n, i, v), Values, c, n, i, v)
    BY <1>1, InsertedIn, Zenon
  <2> QED  BY <1>2, <2>1 DEF IsInserted
<1>5. ASSUME NEW j \in 1 .. n + 1
      PROVE  \/ j \in 1 .. n /\ j <= i /\ t[j] = s[j] /\ d[j] = c[j]
             \/ j = i + 1 /\ t[j] = e /\ d[j] = v
             \/ j > i + 1 /\ j - 1 \in 1 .. n /\ t[j] = s[j - 1] /\ d[j] = c[j - 1]
  <2>1. CASE j <= i
    <3>1. j \in 1 .. n
      BY <1>1, <2>1
    <3> QED  BY <1>3, <1>4, <2>1, <3>1
  <2>2. CASE j = i + 1
    BY <1>3, <1>4, <2>2
  <2>3. CASE j > i + 1
    <3>1. j - 1 \in 1 .. n /\ j - 1 > i /\ (j - 1) + 1 = j
      BY <1>1, <2>3
    <3>2. t[(j - 1) + 1] = s[j - 1] /\ d[(j - 1) + 1] = c[j - 1]
      BY <1>3, <1>4, <3>1
    <3> QED  BY <2>3, <3>1, <3>2
  <2>4. j <= i \/ j = i + 1 \/ j > i + 1
    BY <1>1
  <2> QED  BY <2>1, <2>2, <2>3, <2>4
<1>6. \A j \in 1 .. n : s[j] # e
  BY <1>1
<1>7. \A j, k \in 1 .. n + 1 : t[j] = t[k] => j = k
  <2> SUFFICES ASSUME NEW j \in 1 .. n + 1, NEW k \in 1 .. n + 1, t[j] = t[k] PROVE j = k
    OBVIOUS
  <2>1. CASE j <= i
    <3>1. j \in 1 .. n /\ t[j] = s[j]
      BY <1>1, <1>5, <2>1
    <3>2. k <= i
      <4>1. CASE k = i + 1
        BY <1>3, <1>6, <3>1, <4>1
      <4>2. CASE k > i + 1
        <5>1. k - 1 \in 1 .. n /\ t[k] = s[k - 1]
          BY <1>1, <1>5, <4>2
        <5>2. j = k - 1
          BY <1>1, <3>1, <5>1
        <5> QED  BY <1>1, <2>1, <4>2, <5>2
      <4> QED  BY <1>1, <4>1, <4>2
    <3>3. k \in 1 .. n /\ t[k] = s[k]
      BY <1>1, <1>5, <3>2
    <3> QED  BY <1>1, <3>1, <3>3
  <2>2. CASE j = i + 1
    BY <1>3, <1>5, <1>6, <2>2
  <2>3. CASE j > i + 1
    <3>1. j - 1 \in 1 .. n /\ t[j] = s[j - 1]
      BY <1>1, <1>5, <2>3
    <3>2. CASE k <= i
      <4>1. k \in 1 .. n /\ t[k] = s[k]
        BY <1>1, <1>5, <3>2
      <4>2. j - 1 = k
        BY <1>1, <3>1, <4>1
      <4> QED  BY <1>1, <2>3, <3>2, <4>2
    <3>3. CASE k = i + 1
      BY <1>3, <1>6, <3>1, <3>3
    <3>4. CASE k > i + 1
      <4>1. k - 1 \in 1 .. n /\ t[k] = s[k - 1]
        BY <1>1, <1>5, <3>4
      <4>2. j - 1 = k - 1
        BY <1>1, <3>1, <4>1
      <4> QED  BY <1>1, <4>2
    <3> QED  BY <1>1, <3>2, <3>3, <3>4
  <2> QED  BY <1>1, <2>1, <2>2, <2>3
<1>8. DOMAIN node' = {t[j] : j \in 1 .. n + 1}
  <2>1. ASSUME NEW x \in DOMAIN node' PROVE \E j \in 1 .. n + 1 : x = t[j]
    <3>1. CASE x = e
      <4>1. i + 1 \in 1 .. n + 1
        BY <1>1
      <4> QED  BY <1>3, <3>1, <4>1
    <3>2. CASE x \in Elements
      <4>1. PICK j \in 1 .. n : x = s[j]
        BY <1>1, <3>2
      <4>2. j \in 1 .. n + 1 /\ j + 1 \in 1 .. n + 1 /\ (j <= i \/ j > i)
        BY <1>1
      <4> QED  BY <1>3, <4>1, <4>2
    <3> QED  BY <3>1, <3>2
  <2>2. ASSUME NEW j \in 1 .. n + 1 PROVE t[j] \in DOMAIN node'
    BY <1>1, <1>5
  <2> QED  BY <2>1, <2>2
<1>9. ASSUME NEW j \in 1 .. n + 1
      PROVE  node'[t[j]] = [value |-> d[j], next |-> IF j = n + 1 THEN NULL ELSE t[j + 1],
                            prev |-> IF j = 1 THEN NULL ELSE t[j - 1]]
  <2>1. \A k \in 1 .. n :
          node[s[k]] = [value |-> c[k], next |-> IF k = n THEN NULL ELSE s[k + 1],
                        prev |-> IF k = 1 THEN NULL ELSE s[k - 1]]
    BY DEF Chained
  <2>2. CASE j < i
    <3>1. /\ j \in 1 .. n /\ j # i /\ j # i + 1 /\ j + 1 \in 1 .. n /\ j + 1 <= i /\ j # n
          /\ j # n + 1 /\ (j # 1 => j - 1 \in 1 .. n /\ j - 1 <= i)
      BY <1>1, <2>2
    <3>2. t[j] = s[j] /\ d[j] = c[j] /\ t[j + 1] = s[j + 1] /\ (j # 1 => t[j - 1] = s[j - 1])
      BY <1>3, <1>4, <2>2, <3>1
    <3> QED  BY <2>1, <3>1, <3>2
  <2>3. CASE j = i
    <3>1. /\ j \in 1 .. n /\ j # n + 1 /\ (j # 1 => j - 1 \in 1 .. n /\ j - 1 <= i)
      BY <1>1, <2>3
    <3>2. t[j] = s[i] /\ d[j] = c[i] /\ t[j + 1] = e /\ (j # 1 => t[j - 1] = s[i - 1])
      BY <1>3, <1>4, <2>3, <3>1
    <3>3. node'[s[i]] = [value |-> c[i], next |-> e, prev |-> IF i = 1 THEN NULL ELSE s[i - 1]]
      <4>1. node[s[i]] = [value |-> c[i], next |-> IF i = n THEN NULL ELSE s[i + 1],
                          prev |-> IF i = 1 THEN NULL ELSE s[i - 1]]
        BY <2>1
      <4> QED  BY <4>1
    <3> QED  BY <2>3, <3>1, <3>2, <3>3
  <2>4. CASE j = i + 1
    <3>1. j # 1 /\ j - 1 = i /\ (j = n + 1 <=> i = n)
      BY <1>1, <2>4
    <3>2. i # n => i + 1 \in 1 .. n /\ i + 1 > i
      BY <1>1
    <3>3. t[j] = e /\ d[j] = v /\ t[j - 1] = s[i] /\ (i # n => t[j + 1] = s[i + 1])
      BY <1>1, <1>3, <1>4, <2>4, <3>1, <3>2
    <3>4. node[s[i]].next = IF i = n THEN NULL ELSE s[i + 1]
      <4>1. node[s[i]] = [value |-> c[i], next |-> IF i = n THEN NULL ELSE s[i + 1],
                          prev |-> IF i = 1 THEN NULL ELSE s[i - 1]]
        BY <2>1
      <4> QED  BY <4>1
    <3> QED  BY <3>1, <3>3, <3>4
  <2>5. CASE j = i + 2
    <3>1. /\ j # 1 /\ j - 1 = i + 1 /\ i + 1 \in 1 .. n /\ i < n /\ i + 1 # 1 /\ (i + 1) - 1 = i
          /\ (j = n + 1 <=> i + 1 = n)
      <4>1. i \in 1 .. n /\ n \in Nat /\ i + 2 <= n + 1
        BY <1>1, <2>5
      <4>2. i + 1 \in 1 .. n /\ i < n /\ i + 1 # 1 /\ (i + 1) - 1 = i
        BY <4>1
      <4> QED  BY <2>5, <4>1, <4>2
    <3>2. i + 1 # n => j \in 1 .. n /\ j > i /\ j = (i + 1) + 1
      BY <1>1, <2>5
    <3>3. /\ t[j] = s[i + 1] /\ d[j] = c[i + 1] /\ t[j - 1] = e
          /\ (i + 1 # n => t[j + 1] = s[(i + 1) + 1])
      BY <1>1, <1>3, <1>4, <1>5, <2>5, <3>1, <3>2
    <3>4. node[s[i + 1]] = [value |-> c[i + 1],
                            next |-> IF i + 1 = n THEN NULL ELSE s[(i + 1) + 1], prev |-> s[i]]
      BY <2>1, <3>1
    <3>5. node'[s[i + 1]] = [value |-> c[i + 1],
                             next |-> IF i + 1 = n THEN NULL ELSE s[(i + 1) + 1], prev |-> e]
      BY <3>1, <3>4
    <3> QED  BY <3>1, <3>3, <3>5
  <2>6. CASE j > i + 2
    <3>1. /\ j # 1 /\ j - 1 \in 1 .. n /\ j - 1 # i /\ j - 1 # i + 1 /\ j - 1 # 1
          /\ (j = n + 1 <=> j - 1 = n) /\ (j - 1) + 1 = j
          /\ (j - 1) - 1 \in 1 .. n /\ (j - 1) - 1 > i /\ ((j - 1) - 1) + 1 = j - 1
      BY <1>1, <2>6
    <3>2. j - 1 # n => j \in 1 .. n /\ j > i
      BY <1>1, <2>6
    <3>3. /\ t[j] = s[j - 1] /\ d[j] = c[j - 1] /\ t[j - 1] = s[(j - 1) - 1]
          /\ (j - 1 # n => t[j + 1] = s[j])
      <4>1. t[((j - 1) - 1) + 1] = s[(j - 1) - 1]
        BY <1>3, <3>1
      <4> QED  BY <1>1, <1>3, <1>5, <2>6, <3>1, <3>2, <4>1
    <3>4. node[s[j - 1]] = [value |-> c[j - 1], next |-> IF j - 1 = n THEN NULL ELSE s[j],
                            prev |-> s[(j - 1) - 1]]
      BY <2>1, <3>1
    <3>5. node'[s[j - 1]] = node[s[j - 1]]
      BY <3>1
    <3> QED  BY <3>1, <3>3, <3>4, <3>5
  <2> QED  BY <1>1, <2>2, <2>3, <2>4, <2>5, <2>6
<1>10. Chained(n + 1, t, d)'
  BY <1>1, <1>3, <1>4, <1>7, <1>8, <1>9 DEF Chained
<1> QED  BY <1>2, <1>10

LEMMA RemoveChained ==
  ASSUME NEW n, NEW s, NEW c, Chained(n, s, c), NEW k \in 1 .. n, node' = Without(node, s[k])
  PROVE  Chained(n - 1, Removed(s, n, k), Removed(c, n, k))'
<1>1. /\ n \in Nat /\ n - 1 \in Nat /\ s \in [1 .. n -> Addresses] /\ c \in [1 .. n -> Values]
      /\ \A i, j \in 1 .. n : s[i] = s[j] => i = j
      /\ DOMAIN node = {s[j] : j \in 1 .. n} /\ k \in Nat
  BY DEF Chained
<1>2. PICK t, d : t = Removed(s, n, k) /\ d = Removed(c, n, k)
  OBVIOUS
<1>3. /\ t \in [1 .. n - 1 -> Addresses]
      /\ \A j \in 1 .. n - 1 : /\ j < k => t[j] = s[j]
                               /\ j >= k => t[j] = s[j + 1]
  <2>1. IsRemoved(Removed(s, n, k), Addresses, s, n, k)
    BY <1>1, RemovedIn, Zenon
  <2> QED  BY <1>2, <2>1 DEF IsRemoved
<1>4. /\ d \in [1 .. n - 1 -> Values]
      /\ \A j \in 1 .. n - 1 : /\ j < k => d[j] = c[j]
                               /\ j >= k => d[j] = c[j + 1]
  <2>1. IsRemoved(Removed(c, n, k), Values, c, n, k)
    BY <1>1, RemovedIn, Zenon
  <2> QED  BY <1>2, <2>1 DEF IsRemoved
<1>5. \A j \in 1 .. n - 1 : j \in 1 .. n /\ j + 1 \in 1 .. n
  BY <1>1
<1>6. \A i, j \in 1 .. n - 1 : t[i] = t[j] => i = j
  <2> SUFFICES ASSUME NEW i \in 1 .. n - 1, NEW j \in 1 .. n - 1, t[i] = t[j] PROVE i = j
    OBVIOUS
  <2>1. CASE i < k /\ j < k
    BY <1>1, <1>3, <1>5, <2>1
  <2>2. CASE i < k /\ j >= k
    <3>1. i = j + 1
      BY <1>1, <1>3, <1>5, <2>2
    <3> QED  BY <1>1, <2>2, <3>1
  <2>3. CASE i >= k /\ j < k
    <3>1. i + 1 = j
      BY <1>1, <1>3, <1>5, <2>3
    <3> QED  BY <1>1, <2>3, <3>1
  <2>4. CASE i >= k /\ j >= k
    <3>1. i + 1 = j + 1
      BY <1>1, <1>3, <1>5, <2>4
    <3> QED  BY <1>1, <3>1
  <2> QED  BY <1>1, <2>1, <2>2, <2>3, <2>4
<1>7. DOMAIN node' = DOMAIN node \ {s[k]} /\ node' = [x \in DOMAIN node' |-> node'[x]]
  BY DEF Without
<1>8. DOMAIN node' = {t[j] : j \in 1 .. n - 1}
  <2>1. ASSUME NEW x \in DOMAIN node' PROVE \E j \in 1 .. n - 1 : x = t[j]
    <3>1. PICK j \in 1 .. n : x = s[j] /\ j # k
      BY <1>1, <1>7
    <3>2. CASE j < k
      <4>1. j \in 1 .. n - 1
        BY <1>1, <3>2
      <4> QED  BY <1>3, <3>1, <3>2, <4>1
    <3>3. CASE j > k
      <4>1. j - 1 \in 1 .. n - 1 /\ j - 1 >= k /\ (j - 1) + 1 = j
        BY <1>1, <3>3
      <4>2. t[j - 1] = s[j]
        BY <1>3, <4>1
      <4> QED  BY <3>1, <4>1, <4>2
    <3> QED  BY <1>1, <3>1, <3>2, <3>3
  <2>2. ASSUME NEW j \in 1 .. n - 1 PROVE t[j] \in DOMAIN node'
    <3>1. CASE j < k
      BY <1>1, <1>3, <1>5, <1>7, <3>1
    <3>2. CASE j >= k
      <4>1. j + 1 \in 1 .. n /\ j + 1 # k /\ t[j] = s[j + 1]
        BY <1>1, <1>3, <1>5, <3>2
      <4> QED  BY <1>1, <1>7, <4>1
    <3> QED  BY <1>1, <3>1, <3>2
  <2> QED  BY <2>1, <2>2
<1>9. \A i \in 1 .. n :
        /\ node[s[i]] = [value |-> c[i], next |-> IF i = n THEN NULL ELSE s[i + 1],
                         prev |-> IF i = 1 THEN NULL ELSE s[i - 1]]
        /\ i < n => i + 1 \in 1 .. n
        /\ i > 1 => i - 1 \in 1 .. n
        /\ s[i] # NULL
  BY <1>1, ListConstants DEF Chained
<1>10. ASSUME NEW i \in 1 .. n, i # k
       PROVE  node'[s[i]] = [value |-> c[i],
                             next |-> IF i = n \/ (i + 1 = k /\ k = n) THEN NULL
                                      ELSE IF i + 1 = k THEN s[k + 1] ELSE s[i + 1],
                             prev |-> IF i = 1 \/ (i - 1 = k /\ k = 1) THEN NULL
                                      ELSE IF i - 1 = k THEN s[k - 1] ELSE s[i - 1]]
  <2>1. s[i] \in DOMAIN node \ {s[k]}
    BY <1>1, <1>10
  <2>2. node'[s[i]] = [node[s[i]] EXCEPT
           !.next = IF s[i] = node[s[k]].prev THEN node[s[k]].next ELSE @,
           !.prev = IF s[i] = node[s[k]].next THEN node[s[k]].prev ELSE @]
    BY <2>1 DEF Without
  <2>3. node[s[k]].prev = (IF k = 1 THEN NULL ELSE s[k - 1])
        /\ node[s[k]].next = (IF k = n THEN NULL ELSE s[k + 1])
    <3>1. node[s[k]] = [value |-> c[k], next |-> IF k = n THEN NULL ELSE s[k + 1],
                        prev |-> IF k = 1 THEN NULL ELSE s[k - 1]]
      BY <1>9
    <3> QED  BY <3>1
  <2>4. s[i] = node[s[k]].prev <=> i + 1 = k
    <3>1. CASE k = 1
      <4>1. node[s[k]].prev = NULL /\ s[i] # NULL
        BY <1>9, <2>3, <3>1
      <4>2. i + 1 # k
        BY <1>1, <3>1
      <4> QED  BY <4>1, <4>2
    <3>2. CASE k > 1
      <4>1. k - 1 \in 1 .. n
        BY <1>1, <3>2
      <4> QED  BY <1>1, <2>3, <3>2, <4>1
    <3> QED  BY <1>1, <3>1, <3>2
  <2>5. s[i] = node[s[k]].next <=> i - 1 = k
    <3>1. CASE k = n
      <4>1. node[s[k]].next = NULL /\ s[i] # NULL
        BY <1>9, <2>3, <3>1
      <4>2. i - 1 # k
        BY <1>1, <3>1
      <4> QED  BY <4>1, <4>2
    <3>2. CASE k < n
      <4>1. k + 1 \in 1 .. n
        BY <1>1, <3>2
      <4> QED  BY <1>1, <2>3, <3>2, <4>1
    <3> QED  BY <1>1, <3>1, <3>2
  <2>6. node[s[i]] = [value |-> c[i], next |-> IF i = n THEN NULL ELSE s[i + 1],
                      prev |-> IF i = 1 THEN NULL ELSE s[i - 1]]
    BY <1>9
  <2>7. node'[s[i]] = [value |-> c[i],
                       next |-> IF i + 1 = k THEN node[s[k]].next
                                ELSE IF i = n THEN NULL ELSE s[i + 1],
                       prev |-> IF i - 1 = k THEN node[s[k]].prev
                                ELSE IF i = 1 THEN NULL ELSE s[i - 1]]
    <3>1. PICK a, b : a = node[s[k]].next /\ b = node[s[k]].prev
      OBVIOUS
    <3>2. node'[s[i]] = [node[s[i]] EXCEPT !.next = IF i + 1 = k THEN a ELSE @,
                                           !.prev = IF i - 1 = k THEN b ELSE @]
      BY <2>2, <2>4, <2>5, <3>1
    <3>3. PICK r : r = node[s[i]]
      OBVIOUS
    <3>4. PICK y, z : y = (IF i = n THEN NULL ELSE s[i + 1])
                      /\ z = (IF i = 1 THEN NULL ELSE s[i - 1])
      OBVIOUS
    <3>5. r = [value |-> c[i], next |-> y, prev |-> z]
      BY <2>6, <3>3, <3>4
    <3>6. r.next = y /\ r.prev = z
      BY <3>5
    <3>7. node'[s[i]] = [r EXCEPT !.next = IF i + 1 = k THEN a ELSE y,
                                  !.prev = IF i - 1 = k THEN b ELSE z]
      BY <3>2, <3>3, <3>6
    <3>8. node'[s[i]] = [value |-> c[i], next |-> IF i + 1 = k THEN a ELSE y,
                         prev |-> IF i - 1 = k THEN b ELSE z]
      BY <3>5, <3>7
    <3> QED  BY <3>1, <3>4, <3>8
  <2>8. (i + 1 = k => i # n) /\ (i - 1 = k => i # 1)
    BY <1>1
  <2> QED  BY <2>3, <2>7, <2>8
<1>11. ASSUME NEW j \in 1 .. n - 1
       PROVE  node'[t[j]] = [value |-> d[j], next |-> IF j = n - 1 THEN NULL ELSE t[j + 1],
                             prev |-> IF j = 1 THEN NULL ELSE t[j - 1]]
  <2>1. CASE j < k
    <3>1. /\ j \in 1 .. n /\ j # k /\ j # n /\ j - 1 # k /\ t[j] = s[j] /\ d[j] = c[j]
          /\ j # n - 1 => j + 1 \in 1 .. n - 1
          /\ j # 1 => j - 1 \in 1 .. n - 1 /\ j - 1 < k
      BY <1>1, <1>3, <1>4, <1>5, <2>1
    <3>2. j # 1 => t[j - 1] = s[j - 1]
      BY <1>3, <3>1
    <3>3. CASE j + 1 = k
      <4>1. j = n - 1 <=> k = n
        BY <1>1, <3>3
      <4>2. j # n - 1 => t[j + 1] = s[k + 1]
        BY <1>1, <1>3, <3>1, <3>3
      <4> QED  BY <1>10, <3>1, <3>2, <3>3, <4>1, <4>2
    <3>4. CASE j + 1 # k
      <4>1. j # n - 1 /\ j + 1 < k
        BY <1>1, <2>1, <3>4
      <4>2. t[j + 1] = s[j + 1]
        BY <1>3, <3>1, <4>1
      <4> QED  BY <1>10, <3>1, <3>2, <3>4, <4>1, <4>2
    <3> QED  BY <3>3, <3>4
  <2>2. CASE j >= k
    <3>1. /\ j + 1 \in 1 .. n /\ j + 1 # k /\ j + 1 # 1 /\ (j + 1) + 1 # k
          /\ t[j] = s[j + 1] /\ d[j] = c[j + 1]
          /\ (j + 1) - 1 = j /\ (j = n - 1 <=> j + 1 = n)
          /\ j # n - 1 => j + 1 \in 1 .. n - 1 /\ j + 1 >= k
          /\ j # 1 => j - 1 \in 1 .. n - 1
      BY <1>1, <1>3, <1>4, <1>5, <2>2
    <3>2. j # n - 1 => t[j + 1] = s[(j + 1) + 1]
      BY <1>3, <3>1
    <3>3. CASE j = k
      <4>1. k = 1 <=> j = 1
        BY <3>3
      <4>2. j # 1 => t[j - 1] = s[k - 1]
        BY <1>1, <1>3, <3>1, <3>3
      <4> QED  BY <1>10, <3>1, <3>2, <3>3, <4>1, <4>2
    <3>4. CASE j # k
      <4>1. j # 1 /\ j - 1 >= k /\ (j - 1) + 1 = j
        BY <1>1, <2>2, <3>4
      <4>2. t[j - 1] = s[j]
        BY <1>3, <3>1, <4>1
      <4> QED  BY <1>10, <3>1, <3>2, <3>4, <4>1, <4>2
    <3> QED  BY <3>3, <3>4
  <2> QED  BY <1>1, <2>1, <2>2
<1>12. Chained(n - 1, t, d)'
  BY <1>1, <1>3, <1>4, <1>6, <1>7, <1>8, <1>11 DEF Chained
<1> QED  BY <1>2, <1>12

-----------------------------------------------------------------------------
(* The operations, one by one, given the k-th element of the list.           *)

LEMMA NewStep ==
  ASSUME NEW n, NEW s, NEW c, Chained(n, s, c), Owned(n), NEW v \in Values, list_new(v)
  PROVE  n = 0 /\ \E t : (Chained(1, t, [j \in 1 .. 1 |-> v]) /\ Owned(1))'
<1>1. n = 0 /\ n \in Nat /\ DOMAIN node = {}
  <2>1. n = 0
    BY ListConstants DEF list_new, Owned, Chained
  <2>2. 1 .. 0 = {}
    OBVIOUS
  <2> QED  BY <2>1, <2>2 DEF Chained
<1>2. PICK e \in Fresh : /\ node' = With(e, [value |-> v, next |-> NULL, prev |-> NULL])
                         /\ list' = e
  BY DEF list_new
<1>3. e \in Addresses /\ DOMAIN node' = {e}
      /\ node'[e] = [value |-> v, next |-> NULL, prev |-> NULL]
      /\ node' = [x \in DOMAIN node' |-> node'[x]]
  BY <1>1, <1>2 DEF Fresh, With, Elements
<1>4. PICK t, d : t = [j \in 1 .. 1 |-> e] /\ d = [j \in 1 .. 1 |-> v]
  OBVIOUS
<1>5. 1 .. 1 = {1}
  OBVIOUS
<1>6. /\ t \in [1 .. 1 -> Addresses] /\ d \in [1 .. 1 -> Values] /\ t[1] = e /\ d[1] = v
      /\ {t[i] : i \in 1 .. 1} = {e}
  BY <1>3, <1>4, <1>5
<1>7. Chained(1, t, d)'
  BY <1>3, <1>5, <1>6 DEF Chained
<1>8. Owned(1)'
  BY <1>2, <1>3 DEF Owned
<1> QED  BY <1>1, <1>4, <1>7, <1>8

LEMMA AddStep ==
  ASSUME NEW n, NEW s, NEW c, Chained(n, s, c), Owned(n), NEW k \in 1 .. n,
         NEW v \in Values, list_add(s[k], v)
  PROVE  \E t : (Chained(n + 1, t, Inserted(c, n, n, v)) /\ Owned(n + 1))'
<1>1. n \in Nat /\ n > 0 /\ n \in 1 .. n /\ n + 1 # 0
  BY DEF Chained
<1>2. get_last(s[k]) = s[n]
  BY LastIs
<1>3. PICK e \in Fresh :
        node' = [With(e, [value |-> v, next |-> NULL, prev |-> s[n]]) EXCEPT ![s[n]].next = e]
  BY <1>2 DEF list_add
<1>4. e \in Addresses \ Elements /\ s[n] \in Elements /\ s[n] # e
  BY <1>1, <1>3, Links DEF Fresh
<1>5. PICK f : f = With(e, [value |-> v, next |-> NULL, prev |-> s[n]])
  OBVIOUS
<1>6. /\ DOMAIN f = Elements \cup {e} /\ f = [x \in DOMAIN f |-> f[x]]
      /\ f[e] = [value |-> v, next |-> NULL, prev |-> s[n]]
      /\ \A x \in Elements : f[x] = node[x]
  BY <1>4, <1>5 DEF With
<1>7. node' = [f EXCEPT ![s[n]] = [f[s[n]] EXCEPT !.next = e]]
  BY <1>3, <1>5
<1>8. /\ DOMAIN node' = Elements \cup {e} /\ node' = [x \in DOMAIN node' |-> node'[x]]
      /\ node'[e] = [value |-> v, next |-> NULL, prev |-> s[n]]
      /\ node'[s[n]] = [node[s[n]] EXCEPT !.next = e]
      /\ \A x \in Elements : x # s[n] => node'[x] = node[x]
  BY <1>4, <1>6, <1>7
<1>9. node[s[n]].next = NULL
  BY <1>1, Links
<1>10. \A j \in 1 .. n : j # n => s[j] \in Elements /\ s[j] # s[n]
  BY <1>1 DEF Chained, Elements
<1>11. Chained(n + 1, Inserted(s, n, n, e), Inserted(c, n, n, v))'
  <2>1. node'[e] = [value |-> v, next |-> node[s[n]].next, prev |-> s[n]]
    BY <1>8, <1>9
  <2>2. n < n => node'[s[n + 1]] = [node[s[n + 1]] EXCEPT !.prev = e]
    BY <1>1
  <2>3. \A j \in 1 .. n : j # n /\ j # n + 1 => node'[s[j]] = node[s[j]]
    BY <1>8, <1>10
  <2> QED  BY <1>1, <1>4, <1>8, <2>1, <2>2, <2>3, InsertChained
<1>12. Owned(n + 1)'
  <2>1. list' = list /\ list \in Elements
    <3>1. n # 0
      BY <1>1
    <3> QED  BY <3>1, Zenon DEF Owned, list_add, Elements
  <2> QED  BY <1>1, <1>8, <2>1, Zenon DEF Owned
<1> QED  BY <1>11, <1>12

LEMMA AddAtStep ==
  ASSUME NEW n, NEW s, NEW c, Chained(n, s, c), Owned(n), NEW k \in 1 .. n,
         NEW v \in Values, NEW i \in 0 .. n - 1, list_addat(s[k], v, i)
  PROVE  \E t : (Chained(n + 1, t, Inserted(c, n, i + 1, v)) /\ Owned(n + 1))'
<1>1. n \in Nat /\ n > 0 /\ i + 1 \in 1 .. n /\ n + 1 # 0
  BY DEF Chained
<1>2. get_at(s[k], i) = s[i + 1]
  BY AtIs
<1>3. PICK h : h = i + 1
  OBVIOUS
<1>4. PICK next : next = node[s[h]].next
  OBVIOUS
<1>5. PICK e \in Fresh :
        LET linked == [With(e, [value |-> v, next |-> next, prev |-> s[h]])
                         EXCEPT ![s[h]].next = e]
        IN  node' = IF next = NULL THEN linked ELSE [linked EXCEPT ![next].prev = e]
  BY <1>2, <1>3, <1>4 DEF list_addat
<1>6. e \in Addresses \ Elements /\ s[h] \in Elements /\ s[h] # e
  BY <1>1, <1>3, <1>5, Links DEF Fresh
<1>7. PICK f : f = With(e, [value |-> v, next |-> next, prev |-> s[h]])
  OBVIOUS
<1>8. /\ DOMAIN f = Elements \cup {e} /\ f = [x \in DOMAIN f |-> f[x]]
      /\ f[e] = [value |-> v, next |-> next, prev |-> s[h]]
      /\ \A x \in Elements : f[x] = node[x]
  BY <1>6, <1>7 DEF With
<1>9. PICK g : g = [f EXCEPT ![s[h]] = [f[s[h]] EXCEPT !.next = e]]
  OBVIOUS
<1>10. /\ DOMAIN g = Elements \cup {e} /\ g = [x \in DOMAIN g |-> g[x]]
       /\ g[e] = [value |-> v, next |-> next, prev |-> s[h]]
       /\ g[s[h]] = [node[s[h]] EXCEPT !.next = e]
       /\ \A x \in Elements : x # s[h] => g[x] = node[x]
  BY <1>6, <1>8, <1>9
<1>11. node' = IF next = NULL THEN g ELSE [g EXCEPT ![next] = [g[next] EXCEPT !.prev = e]]
  BY <1>5, <1>7, <1>9
<1>12. next = NULL <=> h = n
  BY <1>1, <1>3, <1>4, Links
<1>13. h < n => next = s[h + 1] /\ h + 1 \in 1 .. n /\ next \in Elements /\ next # s[h]
  <2>1. h < n => next = s[h + 1] /\ h + 1 \in 1 .. n
    BY <1>1, <1>3, <1>4, Links
  <2>2. h < n => next \in Elements
    BY <2>1, Links
  <2> QED  BY <1>1, <1>3, <2>1, <2>2 DEF Chained
<1>14. \A j \in 1 .. n : j # h => s[j] \in Elements /\ s[j] # s[h]
  BY <1>1, <1>3 DEF Chained, Elements
<1>15. \A j \in 1 .. n : j # h + 1 /\ h < n => s[j] # next
  BY <1>13 DEF Chained
<1>16. /\ DOMAIN node' = Elements \cup {e} /\ node' = [x \in DOMAIN node' |-> node'[x]]
       /\ node'[e] = [value |-> v, next |-> next, prev |-> s[h]]
       /\ node'[s[h]] = [node[s[h]] EXCEPT !.next = e]
       /\ h < n => node'[s[h + 1]] = [node[s[h + 1]] EXCEPT !.prev = e]
       /\ \A j \in 1 .. n : j # h /\ j # h + 1 => node'[s[j]] = node[s[j]]
  <2>1. CASE h = n
    BY <1>1, <1>10, <1>11, <1>12, <1>14, <2>1
  <2>2. CASE h < n
    <3>1. node' = [g EXCEPT ![next] = [g[next] EXCEPT !.prev = e]]
      BY <1>1, <1>3, <1>11, <1>12, <2>2
    <3>2. next # e /\ g[next] = node[next]
      BY <1>6, <1>10, <1>13, <2>2
    <3>3. /\ DOMAIN node' = Elements \cup {e} /\ node' = [x \in DOMAIN node' |-> node'[x]]
          /\ node'[e] = g[e] /\ node'[s[h]] = g[s[h]]
          /\ node'[next] = [node[next] EXCEPT !.prev = e]
          /\ \A x \in Elements : x # next => node'[x] = g[x]
      BY <1>6, <1>10, <1>13, <2>2, <3>1, <3>2
    <3> QED  BY <1>10, <1>13, <1>14, <1>15, <2>2, <3>3
  <2> QED  BY <1>1, <1>3, <2>1, <2>2
<1>17. Chained(n + 1, Inserted(s, n, h, e), Inserted(c, n, h, v))'
  BY <1>1, <1>3, <1>4, <1>6, <1>16, InsertChained
<1>18. Owned(n + 1)'
  <2>1. list' = list /\ list \in Elements
    <3>1. n # 0
      BY <1>1
    <3> QED  BY <3>1, Zenon DEF Owned, list_addat, Elements
  <2> QED  BY <1>1, <1>16, <2>1, Zenon DEF Owned
<1> QED  BY <1>3, <1>17, <1>18

LEMMA RemoveStep ==
  ASSUME NEW n, NEW s, NEW c, Chained(n, s, c), Owned(n), NEW k \in 1 .. n, list_remove(s[k])
  PROVE  \E t : (Chained(n - 1, t, Removed(c, n, k)) /\ Owned(n - 1))'
<1>1. n \in Nat /\ n > 0
  BY DEF Chained
<1>2. node' = Without(node, s[k]) /\ Repoint(s[k])
  BY DEF list_remove
<1>3. Chained(n - 1, Removed(s, n, k), Removed(c, n, k))'
  BY <1>2, RemoveChained
<1>4. DOMAIN node' = DOMAIN node \ {s[k]} /\ list \in DOMAIN node
  <2>1. DOMAIN node' = DOMAIN node \ {s[k]}
    BY <1>2 DEF Without
  <2>2. n # 0
    BY <1>1
  <2> QED  BY <2>1, <2>2, Zenon DEF Owned
<1>5. \A j \in 1 .. n : j # k => s[j] \in DOMAIN node'
  BY <1>4 DEF Chained
<1>6. CASE list # s[k]
  <2>1. list' = list
    BY <1>2, <1>6 DEF Repoint
  <2>2. PICK j \in 1 .. n : list = s[j]
    BY <1>4, Numbered DEF Elements
  <2>3. n # 1
    BY <1>6, <2>2
  <2>4. Owned(n - 1)'
    BY <1>1, <1>4, <1>6, <2>1, <2>3 DEF Owned
  <2> QED  BY <1>3, <2>4
<1>7. CASE list = s[k] /\ n = 1
  <2>1. list' = NULL
    BY <1>2, <1>7, CountIs DEF Repoint
  <2>2. Owned(n - 1)'
    BY <1>7, <2>1 DEF Owned
  <2> QED  BY <1>3, <2>2
<1>8. CASE list = s[k] /\ n > 1
  <2>1. list' \in {node[s[k]].next, node[s[k]].prev} \ {NULL}
    <3>1. list_count(s[k]) # 1
      BY <1>8, CountIs
    <3> QED  BY <1>2, <1>8, <3>1 DEF Repoint
  <2>2. node[s[k]].next = NULL \/ node[s[k]].next \in DOMAIN node'
    <3>1. CASE k < n
      BY <1>5, <3>1, Links
    <3> QED  BY <1>1, <3>1, Links
  <2>3. node[s[k]].prev = NULL \/ node[s[k]].prev \in DOMAIN node'
    <3>1. CASE k > 1
      BY <1>5, <3>1, Links
    <3> QED  BY <1>1, <3>1, Links
  <2>4. list' \in DOMAIN node'
    BY <2>1, <2>2, <2>3
  <2>5. Owned(n - 1)'
    BY <1>1, <1>8, <2>4 DEF Owned
  <2> QED  BY <1>3, <2>5
<1> QED  BY <1>1, <1>6, <1>7, <1>8

LEMMA DeleteStep ==
  ASSUME NEW n, NEW s, NEW c, Chained(n, s, c), NEW k \in 1 .. n, list_delete(s[k])
  PROVE  \E t : (Chained(0, t, [j \in 1 .. 0 |-> NULL]) /\ Owned(0))'
<1> DEFINE F(f) == [i \in 0 .. n |-> IF i = 0 THEN node
                                     ELSE Without(f[i - 1], get_at(s[k], i - 1))]
           left == CHOOSE f : f = F(f)
           Rest(i) == [x \in {s[j] : j \in i + 1 .. n} |->
                         [node[x] EXCEPT !.prev = IF x = s[i + 1] THEN NULL ELSE @]]
           w == [i \in 0 .. n |-> Rest(i)]
<1>1. n \in Nat /\ n > 0 /\ n \in 0 .. n
  BY DEF Chained
<1>2. \A i \in 1 .. n : i - 1 \in 0 .. n - 1 /\ get_at(s[k], i - 1) = s[i]
  <2>1. ASSUME NEW i \in 1 .. n PROVE i - 1 \in 0 .. n - 1 /\ (i - 1) + 1 = i
    BY <1>1
  <2> QED  BY <2>1, AtIs
<1>3. \A j \in 1 .. n :
        node[s[j]] = [value |-> c[j], next |-> IF j = n THEN NULL ELSE s[j + 1],
                      prev |-> IF j = 1 THEN NULL ELSE s[j - 1]]
  BY DEF Chained
<1>4. Rest(0) = node
  <2>1. 0 + 1 = 1
    OBVIOUS
  <2>2. DOMAIN node = {s[j] : j \in 1 .. n} /\ node = [x \in DOMAIN node |-> node[x]]
    BY DEF Chained
  <2>3. ASSUME NEW j \in 1 .. n
        PROVE  [node[s[j]] EXCEPT !.prev = IF s[j] = s[1] THEN NULL ELSE @] = node[s[j]]
    <3>1. s[j] = s[1] => node[s[j]].prev = NULL
      BY <1>1, Links
    <3> QED  BY <1>3, <3>1
  <2>4. PICK D : D = DOMAIN node
    OBVIOUS
  <2>5. \A x \in D : [node[x] EXCEPT !.prev = IF x = s[1] THEN NULL ELSE @] = node[x]
    BY <2>2, <2>3, <2>4
  <2>6. Rest(0) = [x \in D |-> [node[x] EXCEPT !.prev = IF x = s[1] THEN NULL ELSE @]]
    BY <2>1, <2>2, <2>4
  <2> HIDE DEF Rest
  <2> QED  BY <2>2, <2>4, <2>5, <2>6
<1>5. ASSUME NEW i \in 1 .. n PROVE Rest(i) = Without(Rest(i - 1), s[i])
  <2>1. (i - 1) + 1 = i
    BY <1>1
  <2>2. PICK r : r = Rest(i - 1)
    OBVIOUS
  <2>3. r = [x \in {s[j] : j \in i .. n} |->
               [node[x] EXCEPT !.prev = IF x = s[i] THEN NULL ELSE @]]
    BY <2>1, <2>2
  <2>4. \A j \in i .. n : j \in 1 .. n
    BY <1>1
  <2>5. DOMAIN r = {s[j] : j \in i .. n}
    BY <2>3
  <2>6. DOMAIN r \ {s[i]} = {s[j] : j \in i + 1 .. n}
    <3>1. i .. n = {i} \cup (i + 1 .. n) /\ i \notin i + 1 .. n
      BY <1>1
    <3>2. \A j \in i + 1 .. n : s[j] # s[i]
      BY <2>4, <3>1 DEF Chained
    <3> QED  BY <2>5, <3>1, <3>2
  <2>7. r[s[i]].prev = NULL /\ r[s[i]].next = IF i = n THEN NULL ELSE s[i + 1]
    <3>1. s[i] \in DOMAIN r
      BY <1>1, <2>5
    <3>2. r[s[i]] = [node[s[i]] EXCEPT !.prev = NULL]
      BY <2>3, <3>1
    <3>3. r[s[i]] = [value |-> c[i], next |-> IF i = n THEN NULL ELSE s[i + 1], prev |-> NULL]
      <4>1. PICK q, p : /\ q = (IF i = n THEN NULL ELSE s[i + 1])
                        /\ p = (IF i = 1 THEN NULL ELSE s[i - 1])
        OBVIOUS
      <4>2. PICK y : y = node[s[i]]
        OBVIOUS
      <4>3. y = [value |-> c[i], next |-> q, prev |-> p] /\ r[s[i]] = [y EXCEPT !.prev = NULL]
        BY <1>3, <3>2, <4>1, <4>2
      <4>4. r[s[i]] = [value |-> c[i], next |-> q, prev |-> NULL]
        BY <4>3
      <4> QED  BY <4>1, <4>4
    <3> QED  BY <3>3
  <2>8. ASSUME NEW j \in i + 1 .. n
        PROVE  [r[s[j]] EXCEPT !.next = IF s[j] = r[s[i]].prev THEN r[s[i]].next ELSE @,
                               !.prev = IF s[j] = r[s[i]].next THEN r[s[i]].prev ELSE @]
               = [node[s[j]] EXCEPT !.prev = IF s[j] = s[i + 1] THEN NULL ELSE @]
    <3>1. j \in 1 .. n /\ j \in i .. n /\ i # n /\ j # i
      BY <1>1
    <3>2. s[j] # NULL /\ s[j] # s[i]
      <4>1. s[j] # NULL
        BY <3>1, Links
      <4> QED  BY <3>1, <4>1 DEF Chained
    <3>3. PICK y : y = node[s[j]]
      OBVIOUS
    <3>4. PICK q, p : y = [value |-> c[j], next |-> q, prev |-> p]
      <4>1. PICK q, p : /\ q = (IF j = n THEN NULL ELSE s[j + 1])
                        /\ p = (IF j = 1 THEN NULL ELSE s[j - 1])
        OBVIOUS
      <4>2. y = [value |-> c[j], next |-> q, prev |-> p]
        BY <1>3, <3>1, <3>3, <4>1
      <4> QED  BY <4>2
    <3>5. r[s[j]] = [y EXCEPT !.prev = @]
      <4>1. s[j] \in {s[m] : m \in i .. n}
        BY <3>1
      <4>2. r[s[j]] = [node[s[j]] EXCEPT !.prev = IF s[j] = s[i] THEN NULL ELSE @]
        BY <2>3, <4>1
      <4> QED  BY <3>2, <3>3, <4>2
    <3>6. r[s[j]] = y
      BY <3>4, <3>5
    <3>7. r[s[i]].prev = NULL /\ r[s[i]].next = s[i + 1]
      BY <2>7, <3>1
    <3>8. [y EXCEPT !.next = IF s[j] = NULL THEN s[i + 1] ELSE @,
                    !.prev = IF s[j] = s[i + 1] THEN NULL ELSE @]
          = [y EXCEPT !.prev = IF s[j] = s[i + 1] THEN NULL ELSE @]
      BY <3>2, <3>4
    <3> QED  BY <3>3, <3>6, <3>7, <3>8
  <2>9. Without(r, s[i]) =
          [x \in {s[j] : j \in i + 1 .. n} |->
             [r[x] EXCEPT !.next = IF x = r[s[i]].prev THEN r[s[i]].next ELSE @,
                          !.prev = IF x = r[s[i]].next THEN r[s[i]].prev ELSE @]]
    BY <2>6 DEF Without
  <2>10. Without(r, s[i]) = Rest(i)
    <3>1. PICK E : E = {s[j] : j \in i + 1 .. n}
      OBVIOUS
    <3>2. \A x \in E :
            [r[x] EXCEPT !.next = IF x = r[s[i]].prev THEN r[s[i]].next ELSE @,
                         !.prev = IF x = r[s[i]].next THEN r[s[i]].prev ELSE @]
            = [node[x] EXCEPT !.prev = IF x = s[i + 1] THEN NULL ELSE @]
      <4> SUFFICES ASSUME NEW x \in E
                   PROVE  [r[x] EXCEPT !.next = IF x = r[s[i]].prev THEN r[s[i]].next ELSE @,
                                       !.prev = IF x = r[s[i]].next THEN r[s[i]].prev ELSE @]
                          = [node[x] EXCEPT !.prev = IF x = s[i + 1] THEN NULL ELSE @]
        OBVIOUS
      <4>1. PICK j \in i + 1 .. n : x = s[j]
        BY <3>1
      <4> QED  BY <2>8, <4>1
    <3>3. Rest(i) = [x \in E |-> [node[x] EXCEPT !.prev = IF x = s[i + 1] THEN NULL ELSE @]]
      BY <3>1
    <3> HIDE DEF Rest
    <3> QED  BY <2>9, <3>1, <3>2, <3>3
  <2> QED  BY <2>2, <2>10
<1>6. w = F(w)
  <2>1. ASSUME NEW i \in 0 .. n
        PROVE  w[i] = IF i = 0 THEN node ELSE Without(w[i - 1], get_at(s[k], i - 1))
    <3> HIDE DEF Rest
    <3>1. CASE i = 0
      BY <1>4, <3>1
    <3>2. CASE i > 0
      <4>1. i \in 1 .. n /\ i - 1 \in 0 .. n
        BY <1>1, <3>2
      <4>2. Rest(i) = Without(Rest(i - 1), s[i]) /\ get_at(s[k], i - 1) = s[i]
        BY <1>2, <1>5, <4>1
      <4> QED  BY <3>2, <4>1, <4>2
    <3> QED  BY <3>1, <3>2
  <2> HIDE DEF Rest
  <2> QED  BY <2>1
<1>7. left = F(left)
  <2> HIDE DEF F, w
  <2> QED  BY <1>6
<1>8. node' = left[n] /\ list' = NULL
  <2>1. list_count(s[k]) = n
    BY CountIs
  <2> QED  BY <2>1 DEF list_delete
<1> HIDE DEF left, w, Rest
<1>9. \A i \in 0 .. n : left[i] = IF i = 0 THEN node
                                   ELSE Without(left[i - 1], get_at(s[k], i - 1))
  BY <1>7
<1> HIDE DEF F
<1>10. \A i \in 1 .. n : i \in 0 .. n /\ left[i] = Without(left[i - 1], s[i])
  BY <1>1, <1>2, <1>9
<1>11. \A f, x : DOMAIN Without(f, x) = DOMAIN f \ {x}
  BY DEF Without
<1> DEFINE S == {i \in 1 .. n : DOMAIN left[i] \cap {s[j] : j \in 1 .. i} = {}
                                /\ DOMAIN left[i] \subseteq DOMAIN node}
<1>12. 1 \in S
  <2>1. left[1] = Without(node, s[1]) /\ 1 .. 1 = {1} /\ 1 \in 1 .. n
    <3>1. 1 \in 1 .. n /\ 0 \in 0 .. n /\ 1 - 1 = 0
      BY <1>1
    <3> QED  BY <1>9, <1>10, <3>1
  <2>2. DOMAIN left[1] = DOMAIN node \ {s[1]}
    BY <1>11, <2>1
  <2> QED  BY <2>1, <2>2
<1>13. ASSUME NEW i \in 1 .. n, i > 1, i - 1 \in S PROVE i \in S
  <2>1. 1 .. i = (1 .. i - 1) \cup {i}
    BY <1>13
  <2>2. DOMAIN left[i] = DOMAIN left[i - 1] \ {s[i]}
    <3>1. left[i] = Without(left[i - 1], s[i])
      BY <1>10
    <3> QED  BY <1>11, <3>1
  <2> QED  BY <1>13, <2>1, <2>2
<1>14. 1 .. n \subseteq S
  <2> HIDE DEF S
  <2> QED  BY <1>1, <1>12, <1>13, Upwards
<1>15. DOMAIN left[n] = {}
  <2>1. n \in S
    BY <1>1, <1>14
  <2>2. DOMAIN node = {s[j] : j \in 1 .. n}
    BY DEF Chained
  <2> QED  BY <2>1, <2>2
<1>16. DOMAIN node' = {} /\ node' = [x \in DOMAIN node' |-> node'[x]]
  <2>1. node' = Without(left[n - 1], s[n])
    BY <1>1, <1>8, <1>10
  <2>2. node' = [x \in DOMAIN node' |-> node'[x]]
    BY <2>1 DEF Without
  <2> QED  BY <1>8, <1>15, <2>2
<1>17. PICK d : d = [j \in 1 .. 0 |-> NULL]
  OBVIOUS
<1>18. 1 .. 0 = {}
  OBVIOUS
<1>19. Chained(0, d, d)'
  <2>1. d \in [1 .. 0 -> Addresses] /\ d \in [1 .. 0 -> Values]
    BY <1>17, <1>18
  <2> QED  BY <1>16, <1>18, <2>1 DEF Chained
<1>20. Owned(0)'
  BY <1>8 DEF Owned
<1> QED  BY <1>17, <1>19, <1>20

-----------------------------------------------------------------------------
(* The values before and after, as sequences.                                *)

LEMMA ValuesSeq ==
  \A n \in Nat : \A c \in [1 .. n -> Values] :
    c \in Seq(Values) /\ Len(c) = n /\ \A j \in 1 .. n : c[j] \in Values
OBVIOUS

LEMMA AppendIs ==
  ASSUME NEW n \in Nat, n > 0, NEW c \in [1 .. n -> Values], NEW v \in Values
  PROVE  Inserted(c, n, n, v) = Append(c, v)
<1>1. c \in Seq(Values) /\ Len(c) = n
  BY ValuesSeq
<1>2. /\ Append(c, v) \in Seq(Values) /\ Len(Append(c, v)) = n + 1
      /\ \A j \in 1 .. n : Append(c, v)[j] = c[j]
      /\ Append(c, v)[n + 1] = v
  BY <1>1
<1>3. IsInserted(Inserted(c, n, n, v), Values, c, n, n, v)
  <2>1. n \in 1 .. n
    OBVIOUS
  <2> QED  BY <2>1, InsertedIn, Zenon
<1>4. PICK d : d = Inserted(c, n, n, v)
  OBVIOUS
<1>5. /\ d \in [1 .. n + 1 -> Values] /\ d[n + 1] = v
      /\ \A j \in 1 .. n : d[j] = c[j]
  BY <1>3, <1>4 DEF IsInserted
<1>6. d \in Seq(Values) /\ Len(d) = n + 1
  BY <1>5, ValuesSeq
<1>7. \A j \in 1 .. n + 1 : d[j] = Append(c, v)[j]
  <2>1. \A j \in 1 .. n + 1 : j \in 1 .. n \/ j = n + 1
    OBVIOUS
  <2> QED  BY <1>2, <1>5, <2>1
<1>8. d = Append(c, v)
  BY <1>2, <1>6, <1>7, SeqEqual
<1> QED  BY <1>4, <1>8

\* What SubSeq cuts off the front of a sequence, and what it leaves.
LEMMA FirstOf ==
  ASSUME NEW n \in Nat, NEW c \in [1 .. n -> Values], NEW k \in 0 .. n
  PROVE  /\ SubSeq(c, 1, k) \in Seq(Values) /\ Len(SubSeq(c, 1, k)) = k
         /\ \A j \in 1 .. k : SubSeq(c, 1, k)[j] = c[j]
<1>1. 1 \in Int /\ k \in Int /\ \A j \in 1 .. k : c[j] \in Values
  OBVIOUS
<1>2. /\ SubSeq(c, 1, k) \in Seq(Values)
      /\ Len(SubSeq(c, 1, k)) = IF 1 <= k THEN k - 1 + 1 ELSE 0
      /\ \A j \in 1 .. k - 1 + 1 : SubSeq(c, 1, k)[j] = c[1 + j - 1]
  BY <1>1, SubSeqProperties, SMTT(30)
<1>3. k - 1 + 1 = k /\ (IF 1 <= k THEN k - 1 + 1 ELSE 0) = k
  OBVIOUS
<1>4. \A j \in 1 .. k : 1 + j - 1 = j
  OBVIOUS
<1> QED  BY <1>2, <1>3, <1>4

LEMMA LastOf ==
  ASSUME NEW n \in Nat, NEW c \in [1 .. n -> Values], NEW k \in 0 .. n - 1
  PROVE  /\ SubSeq(c, k + 2, n) \in Seq(Values) /\ Len(SubSeq(c, k + 2, n)) = n - (k + 1)
         /\ \A j \in 1 .. n - (k + 1) : SubSeq(c, k + 2, n)[j] = c[j + (k + 1)]
<1>1. k + 2 \in Int /\ n \in Int /\ \A j \in k + 2 .. n : c[j] \in Values
  OBVIOUS
<1>2. /\ SubSeq(c, k + 2, n) \in Seq(Values)
      /\ Len(SubSeq(c, k + 2, n)) = IF k + 2 <= n THEN n - (k + 2) + 1 ELSE 0
      /\ \A j \in 1 .. n - (k + 2) + 1 : SubSeq(c, k + 2, n)[j] = c[(k + 2) + j - 1]
  BY <1>1, SubSeqProperties, SMTT(30)
<1>3. /\ n - (k + 2) + 1 = n - (k + 1)
      /\ (IF k + 2 <= n THEN n - (k + 2) + 1 ELSE 0) = n - (k + 1)
  OBVIOUS
<1>4. \A j \in 1 .. n - (k + 1) : (k + 2) + j - 1 = j + (k + 1)
  OBVIOUS
<1> QED  BY <1>2, <1>3, <1>4

LEMMA InsertAfterIs ==
  ASSUME NEW n \in Nat, NEW c \in [1 .. n -> Values], NEW i \in 0 .. n - 1, NEW v \in Values
  PROVE  Inserted(c, n, i + 1, v) = Sequence!InsertAfter(c, i, v)
<1>1. /\ c \in Seq(Values) /\ Len(c) = n /\ i + 1 \in 1 .. n /\ i + 2 \in Int /\ i + 1 \in Int
      /\ \A j \in 1 .. n : c[j] \in Values
  BY ValuesSeq
<1>2. PICK a, b, m : a = SubSeq(c, 1, i + 1) /\ b = SubSeq(c, i + 2, n) /\ m = <<v>>
  OBVIOUS
<1>3. /\ a \in Seq(Values) /\ Len(a) = i + 1
      /\ \A j \in 1 .. i + 1 : a[j] = c[j]
  <2>1. i + 1 \in 0 .. n
    OBVIOUS
  <2>2. /\ SubSeq(c, 1, i + 1) \in Seq(Values) /\ Len(SubSeq(c, 1, i + 1)) = i + 1
        /\ \A j \in 1 .. i + 1 : SubSeq(c, 1, i + 1)[j] = c[j]
    BY <2>1, FirstOf, Zenon
  <2> QED  BY <1>2, <2>2, Zenon
<1>4. /\ b \in Seq(Values) /\ Len(b) = n - (i + 1)
      /\ \A j \in 1 .. n - (i + 1) : b[j] = c[j + (i + 1)]
  BY <1>2, LastOf, Zenon
<1>5. m \in Seq(Values) /\ Len(m) = 1 /\ m[1] = v
  BY <1>2
<1>6. PICK am : am = a \o m
  OBVIOUS
<1>7. /\ am \in Seq(Values) /\ Len(am) = i + 2
      /\ \A j \in 1 .. i + 2 : am[j] = IF j <= i + 1 THEN c[j] ELSE v
  <2>1. /\ am \in Seq(Values) /\ Len(am) = (i + 1) + 1
        /\ \A j \in 1 .. (i + 1) + 1 : am[j] = IF j <= i + 1 THEN a[j] ELSE m[j - (i + 1)]
    <3>1. /\ am \in Seq(Values) /\ Len(am) = Len(a) + Len(m)
          /\ \A j \in 1 .. Len(a) + Len(m) :
               am[j] = IF j <= Len(a) THEN a[j] ELSE m[j - Len(a)]
      <4>1. a \in Seq(Values) /\ m \in Seq(Values)
        BY <1>3, <1>5
      <4> QED  BY <1>6, <4>1, ConcatProperties
    <3> QED  BY <1>3, <1>5, <3>1
  <2>2. \A j \in 1 .. i + 2 : \/ j <= i + 1 /\ j \in 1 .. i + 1
                              \/ ~ (j <= i + 1) /\ j - (i + 1) = 1
    OBVIOUS
  <2>3. (i + 1) + 1 = i + 2
    OBVIOUS
  <2> QED  BY <1>3, <1>5, <2>1, <2>2, <2>3
<1>8. PICK z : z = am \o b
  OBVIOUS
<1>9. /\ z \in Seq(Values) /\ Len(z) = n + 1
      /\ \A j \in 1 .. n + 1 : z[j] = IF j <= i + 2 THEN am[j] ELSE b[j - (i + 2)]
  <2>1. /\ z \in Seq(Values) /\ Len(z) = (i + 2) + (n - (i + 1))
        /\ \A j \in 1 .. (i + 2) + (n - (i + 1)) :
             z[j] = IF j <= i + 2 THEN am[j] ELSE b[j - (i + 2)]
    <3>1. /\ z \in Seq(Values) /\ Len(z) = Len(am) + Len(b)
          /\ \A j \in 1 .. Len(am) + Len(b) :
               z[j] = IF j <= Len(am) THEN am[j] ELSE b[j - Len(am)]
      <4>1. am \in Seq(Values) /\ b \in Seq(Values)
        BY <1>4, <1>7
      <4> QED  BY <1>8, <4>1, ConcatProperties
    <3> QED  BY <1>4, <1>7, <3>1
  <2>2. (i + 2) + (n - (i + 1)) = n + 1
    OBVIOUS
  <2> QED  BY <2>1, <2>2
<1>10. PICK d : d = Inserted(c, n, i + 1, v)
  OBVIOUS
<1>11. /\ d \in [1 .. n + 1 -> Values] /\ d[i + 2] = v
       /\ \A j \in 1 .. n : /\ j <= i + 1 => d[j] = c[j]
                            /\ j > i + 1 => d[j + 1] = c[j]
  <2>1. IsInserted(Inserted(c, n, i + 1, v), Values, c, n, i + 1, v)
    BY <1>1, InsertedIn, Zenon
  <2>2. (i + 1) + 1 = i + 2
    OBVIOUS
  <2> QED  BY <1>10, <2>1, <2>2 DEF IsInserted
<1>12. d \in Seq(Values) /\ Len(d) = n + 1
  BY <1>11, ValuesSeq
<1>13. ASSUME NEW j \in 1 .. n + 1 PROVE d[j] = z[j]
  <2>1. CASE j <= i + 1
    <3>1. j \in 1 .. n /\ j \in 1 .. i + 2 /\ j <= i + 2
      BY <2>1
    <3> QED  BY <1>7, <1>9, <1>11, <2>1, <3>1
  <2>2. CASE j = i + 2
    <3>1. j \in 1 .. i + 2 /\ j <= i + 2 /\ ~ (j <= i + 1)
      BY <2>2
    <3> QED  BY <1>7, <1>9, <1>11, <2>2, <3>1
  <2>3. CASE j > i + 2
    <3>1. /\ ~ (j <= i + 2) /\ j - (i + 2) \in 1 .. n - (i + 1) /\ j - 1 \in 1 .. n
          /\ j - 1 > i + 1 /\ (j - 1) + 1 = j /\ (j - (i + 2)) + (i + 1) = j - 1
      BY <2>3
    <3>2. z[j] = b[j - (i + 2)]
      BY <1>9, <3>1
    <3>3. b[j - (i + 2)] = c[j - 1]
      BY <1>4, <3>1
    <3>4. d[(j - 1) + 1] = c[j - 1]
      BY <1>11, <3>1
    <3> QED  BY <3>1, <3>2, <3>3, <3>4
  <2> QED  BY <2>1, <2>2, <2>3
<1>14. d = z
  BY <1>9, <1>12, <1>13, SeqEqual
<1>15. Sequence!InsertAfter(c, i, v) = z
  BY <1>1, <1>2, <1>6, <1>8 DEF Sequence!InsertAfter
<1> QED  BY <1>10, <1>14, <1>15

LEMMA WithoutAtIs ==
  ASSUME NEW n \in Nat, NEW c \in [1 .. n -> Values], NEW i \in 0 .. n - 1
  PROVE  Removed(c, n, i + 1) = Sequence!WithoutAt(c, i)
<1>1. /\ c \in Seq(Values) /\ Len(c) = n /\ i + 1 \in 1 .. n /\ i + 2 \in Int
      /\ \A j \in 1 .. n : c[j] \in Values
  BY ValuesSeq
<1>2. PICK a, b : a = SubSeq(c, 1, i) /\ b = SubSeq(c, i + 2, n)
  OBVIOUS
<1>3. /\ a \in Seq(Values) /\ Len(a) = i
      /\ \A j \in 1 .. i : a[j] = c[j]
  <2>1. i \in 0 .. n
    OBVIOUS
  <2> QED  BY <1>2, <2>1, FirstOf, Zenon
<1>4. /\ b \in Seq(Values) /\ Len(b) = n - (i + 1)
      /\ \A j \in 1 .. n - (i + 1) : b[j] = c[j + (i + 1)]
  BY <1>2, LastOf, Zenon
<1>5. PICK z : z = a \o b
  OBVIOUS
<1>6. /\ z \in Seq(Values) /\ Len(z) = n - 1
      /\ \A j \in 1 .. n - 1 : z[j] = IF j <= i THEN a[j] ELSE b[j - i]
  <2>1. /\ z \in Seq(Values) /\ Len(z) = i + (n - (i + 1))
        /\ \A j \in 1 .. i + (n - (i + 1)) : z[j] = IF j <= i THEN a[j] ELSE b[j - i]
    <3>1. /\ z \in Seq(Values) /\ Len(z) = Len(a) + Len(b)
          /\ \A j \in 1 .. Len(a) + Len(b) :
               z[j] = IF j <= Len(a) THEN a[j] ELSE b[j - Len(a)]
      <4>1. a \in Seq(Values) /\ b \in Seq(Values)
        BY <1>3, <1>4
      <4> QED  BY <1>5, <4>1, ConcatProperties
    <3>2. Len(a) = i /\ Len(b) = n - (i + 1)
      BY <1>3, <1>4
    <3> QED  BY <3>1, <3>2
  <2>2. i + (n - (i + 1)) = n - 1
    OBVIOUS
  <2> QED  BY <2>1, <2>2
<1>7. PICK d : d = Removed(c, n, i + 1)
  OBVIOUS
<1>8. /\ d \in [1 .. n - 1 -> Values]
      /\ \A j \in 1 .. n - 1 : /\ j < i + 1 => d[j] = c[j]
                               /\ j >= i + 1 => d[j] = c[j + 1]
  <2>1. IsRemoved(Removed(c, n, i + 1), Values, c, n, i + 1)
    BY <1>1, RemovedIn, Zenon
  <2> QED  BY <1>7, <2>1 DEF IsRemoved
<1>9. d \in Seq(Values) /\ Len(d) = n - 1
  <2>1. n - 1 \in Nat
    OBVIOUS
  <2> QED  BY <1>8, <2>1, ValuesSeq
<1>10. ASSUME NEW j \in 1 .. n - 1 PROVE d[j] = z[j]
  <2>1. CASE j <= i
    <3>1. j \in 1 .. i /\ j < i + 1
      BY <2>1
    <3> QED  BY <1>3, <1>6, <1>8, <2>1, <3>1
  <2>2. CASE j > i
    <3>1. /\ ~ (j <= i) /\ j - i \in 1 .. n - (i + 1) /\ j >= i + 1
          /\ (j - i) + (i + 1) = j + 1
      BY <2>2
    <3>2. z[j] = b[j - i] /\ b[j - i] = c[j + 1]
      BY <1>4, <1>6, <3>1
    <3> QED  BY <1>8, <3>1, <3>2
  <2> QED  BY <2>1, <2>2
<1>11. d = z
  BY <1>6, <1>9, <1>10, SeqEqual
<1>12. Sequence!WithoutAt(c, i) = z
  BY <1>1, <1>2, <1>5 DEF Sequence!WithoutAt
<1> QED  BY <1>7, <1>11, <1>12

-----------------------------------------------------------------------------
(* Every state and every step.                                               *)

\* What a step makes of the values.
Become(n, c, d) ==
  \/ n = 0 /\ \E v \in Values : d = [j \in 1 .. 1 |-> v]
  \/ n > 0 /\ \E v \in Values : d = Inserted(c, n, n, v)
  \/ \E v \in Values, i \in 0 .. n - 1 : d = Inserted(c, n, i + 1, v)
  \/ \E i \in 0 .. n - 1 : d = Removed(c, n, i + 1)
  \/ d = [j \in 1 .. 0 |-> NULL]

LEMMA Given ==
  ASSUME NEW n, NEW s, NEW c, Chained(n, s, c), Owned(n), NEW e \in OnList
  PROVE  /\ n \in Nat /\ n > 0 /\ Indices = 0 .. n - 1 /\ c \in [1 .. n -> Values]
         /\ Contents = c
         /\ \E k \in 1 .. n : e = s[k]
<1>1. Contents = c /\ OnList = Elements
  BY ContentsAre
<1>2. list # NULL
  BY DEF OnList
<1>3. Indices = 0 .. n - 1 /\ n > 0
  BY <1>2, ContentsAre
<1>4. \E k \in 1 .. n : e = s[k]
  BY <1>1, Numbered
<1>5. n \in Nat /\ c \in [1 .. n -> Values]
  BY DEF Chained
<1> QED  BY <1>1, <1>3, <1>4, <1>5

\* Removing the element an index finds, or the last one.
LEMMA RemoveAtStep ==
  ASSUME NEW n, NEW s, NEW c, Chained(n, s, c), Owned(n), NEW k \in 1 .. n,
         NEW i \in 0 .. n - 1, list_removeat(s[k], i)
  PROVE  \E t : (Chained(n - 1, t, Removed(c, n, i + 1)) /\ Owned(n - 1))'
<1>1. i + 1 \in 1 .. n
  BY DEF Chained
<1>2. list_remove(s[i + 1])
  BY AtIs DEF list_removeat
<1> QED  BY <1>1, <1>2, RemoveStep

LEMMA RemoveLastStep ==
  ASSUME NEW n, NEW s, NEW c, Chained(n, s, c), Owned(n), NEW k \in 1 .. n,
         list_removelast(s[k])
  PROVE  \E t : (Chained(n - 1, t, Removed(c, n, n)) /\ Owned(n - 1))'
<1>1. n \in 1 .. n
  BY DEF Chained
<1>2. list_remove(s[n])
  BY LastIs DEF list_removelast
<1> QED  BY <1>1, <1>2, RemoveStep

LEMMA NextStep ==
  ASSUME NEW n, NEW s, NEW c, Chained(n, s, c), Owned(n), Next
  PROVE  \E m, t, d : (Chained(m, t, d) /\ Owned(m))' /\ Become(n, c, d)
<1>0. n \in Nat
  BY DEF Chained
<1>1. ASSUME NEW v \in Values, list_new(v)
      PROVE  \E m, t, d : (Chained(m, t, d) /\ Owned(m))' /\ Become(n, c, d)
  <2>1. n = 0
    BY <1>1, NewStep
  <2>2. PICK t : (Chained(1, t, [j \in 1 .. 1 |-> v]) /\ Owned(1))'
    BY <1>1, NewStep
  <2>3. Become(n, c, [j \in 1 .. 1 |-> v])
    BY <2>1 DEF Become
  <2> QED  BY <2>2, <2>3
<1>2. ASSUME NEW e \in OnList, NEW v \in Values, list_add(e, v)
      PROVE  \E m, t, d : (Chained(m, t, d) /\ Owned(m))' /\ Become(n, c, d)
  <2>1. PICK k \in 1 .. n : e = s[k]
    BY Given
  <2>2. PICK t : (Chained(n + 1, t, Inserted(c, n, n, v)) /\ Owned(n + 1))'
    BY <1>2, <2>1, AddStep
  <2>3. n > 0
    BY Given
  <2>4. Become(n, c, Inserted(c, n, n, v))
    BY <2>3 DEF Become
  <2> QED  BY <2>2, <2>4
<1>3. ASSUME NEW e \in OnList, NEW v \in Values, NEW i \in Indices, list_addat(e, v, i)
      PROVE  \E m, t, d : (Chained(m, t, d) /\ Owned(m))' /\ Become(n, c, d)
  <2>1. PICK k \in 1 .. n : e = s[k]
    BY Given
  <2>2. i \in 0 .. n - 1
    BY Given
  <2>3. PICK t : (Chained(n + 1, t, Inserted(c, n, i + 1, v)) /\ Owned(n + 1))'
    BY <1>3, <2>1, <2>2, AddAtStep
  <2>4. Become(n, c, Inserted(c, n, i + 1, v))
    BY <2>2 DEF Become
  <2> QED  BY <2>3, <2>4
<1>4. ASSUME NEW k \in 1 .. n, list_remove(s[k])
      PROVE  \E m, t, d : (Chained(m, t, d) /\ Owned(m))' /\ Become(n, c, d)
  <2>1. k - 1 \in 0 .. n - 1 /\ (k - 1) + 1 = k
    BY <1>0
  <2>2. PICK t : (Chained(n - 1, t, Removed(c, n, k)) /\ Owned(n - 1))'
    BY <1>4, RemoveStep
  <2>3. Become(n, c, Removed(c, n, k))
    BY <2>1 DEF Become
  <2> QED  BY <2>2, <2>3
<1>5. ASSUME NEW e \in OnList, list_remove(e)
      PROVE  \E m, t, d : (Chained(m, t, d) /\ Owned(m))' /\ Become(n, c, d)
  <2>1. PICK k \in 1 .. n : e = s[k]
    BY Given
  <2> QED  BY <1>4, <1>5, <2>1
<1>6. ASSUME NEW e \in OnList, NEW i \in Indices, list_removeat(e, i)
      PROVE  \E m, t, d : (Chained(m, t, d) /\ Owned(m))' /\ Become(n, c, d)
  <2>1. PICK k \in 1 .. n : e = s[k]
    BY Given
  <2>2. i \in 0 .. n - 1 /\ i + 1 \in 1 .. n
    BY <1>0, Given
  <2>3. list_remove(s[i + 1])
    BY <1>6, <2>1, <2>2, AtIs DEF list_removeat
  <2> QED  BY <1>4, <2>2, <2>3
<1>7. ASSUME NEW e \in OnList, list_removelast(e)
      PROVE  \E m, t, d : (Chained(m, t, d) /\ Owned(m))' /\ Become(n, c, d)
  <2>1. PICK k \in 1 .. n : e = s[k]
    BY Given
  <2>2. n \in 1 .. n
    BY <1>0, <2>1
  <2>3. list_remove(s[n])
    BY <1>7, <2>1, LastIs DEF list_removelast
  <2> QED  BY <1>4, <2>2, <2>3
<1>8. ASSUME NEW e \in OnList, list_delete(e)
      PROVE  \E m, t, d : (Chained(m, t, d) /\ Owned(m))' /\ Become(n, c, d)
  <2>1. PICK k \in 1 .. n : e = s[k]
    BY Given
  <2>2. PICK t : (Chained(0, t, [j \in 1 .. 0 |-> NULL]) /\ Owned(0))'
    BY <1>8, <2>1, DeleteStep
  <2>3. Become(n, c, [j \in 1 .. 0 |-> NULL])
    BY DEF Become
  <2> QED  BY <2>2, <2>3
<1> QED  BY <1>1, <1>2, <1>3, <1>5, <1>6, <1>7, <1>8 DEF Next

\* The contents before and after a step, when the orders before and after it
\* are known.
LEMMA ContentsStep ==
  ASSUME NEW n, NEW s, NEW c, Chained(n, s, c), Owned(n),
         NEW m, NEW t, NEW d, (Chained(m, t, d) /\ Owned(m))'
  PROVE  Contents = c /\ Contents' = d
<1>1. Contents = c
  BY ContentsAre
<1>2. Contents' = d
  BY ContentsBecome
<1> QED  BY <1>1, <1>2

LEMMA InitIInv == Init => IInv
<1> SUFFICES ASSUME Init PROVE IInv
  OBVIOUS
<1>1. PICK d : d = [j \in 1 .. 0 |-> NULL]
  OBVIOUS
<1>2. 1 .. 0 = {}
  OBVIOUS
<1>3. d \in [1 .. 0 -> Addresses] /\ d \in [1 .. 0 -> Values]
  BY <1>1, <1>2
<1>4. DOMAIN node = {} /\ node = [x \in DOMAIN node |-> node[x]] /\ list = NULL
  BY DEF Init
<1>5. Chained(0, d, d)
  BY <1>2, <1>3, <1>4 DEF Chained
<1>6. Owned(0)
  BY <1>4 DEF Owned
<1> QED  BY <1>5, <1>6 DEF IInv

LEMMA NextIInv == IInv /\ [Next]_vars => IInv'
<1> SUFFICES ASSUME IInv, [Next]_vars PROVE IInv'
  OBVIOUS
<1>1. PICK n, s, c : Chained(n, s, c) /\ Owned(n)
  BY DEF IInv
<1>2. CASE Next
  <2>1. PICK m, t, d : (Chained(m, t, d) /\ Owned(m))'
    BY <1>1, <1>2, NextStep
  <2> QED  BY <2>1 DEF IInv
<1>3. CASE UNCHANGED vars
  <2>1. (Chained(n, s, c) /\ Owned(n))'
    BY <1>1, <1>3 DEF vars, Chained, Owned
  <2> QED  BY <2>1 DEF IInv
<1> QED  BY <1>2, <1>3

LEMMA TypedOf == IInv => TypeOK
<1> SUFFICES ASSUME IInv PROVE TypeOK
  OBVIOUS
<1>1. PICK n, s, c : Chained(n, s, c) /\ Owned(n)
  BY DEF IInv
<1>2. Elements \subseteq Addresses /\ list \in Elements \cup {NULL}
  <2>1. Elements \subseteq Addresses
    BY <1>1 DEF Chained, Elements
  <2>2. list \in Elements \cup {NULL}
    BY <1>1, Zenon DEF Owned, Elements
  <2> QED  BY <2>1, <2>2
<1>3. ASSUME NEW x \in Elements
      PROVE  node[x] \in [value : Values, next : Elements \cup {NULL},
                          prev : Elements \cup {NULL}]
  <2>1. PICK i \in 1 .. n : x = s[i]
    BY <1>1, Numbered
  <2>2. PICK y, z : /\ y = (IF i = n THEN NULL ELSE s[i + 1])
                    /\ z = (IF i = 1 THEN NULL ELSE s[i - 1])
    OBVIOUS
  <2>3. node[x] = [value |-> c[i], next |-> y, prev |-> z]
    BY <1>1, <2>1, <2>2 DEF Chained
  <2>4. c[i] \in Values
    BY <1>1 DEF Chained
  <2>5. y \in Elements \cup {NULL} /\ z \in Elements \cup {NULL}
    <3>1. i # n => i + 1 \in 1 .. n
      BY <1>1 DEF Chained
    <3>2. i # 1 => i - 1 \in 1 .. n
      BY <1>1 DEF Chained
    <3>3. \A j \in 1 .. n : s[j] \in Elements
      BY <1>1 DEF Chained, Elements
    <3> QED  BY <2>2, <3>1, <3>2, <3>3
  <2> QED  BY <2>3, <2>4, <2>5
<1>4. node = [x \in Elements |-> node[x]]
  BY <1>1 DEF Chained, Elements
<1> QED  BY <1>2, <1>3, <1>4 DEF TypeOK

LEMMA LinkedOf == IInv => WellLinked
<1> SUFFICES ASSUME IInv PROVE WellLinked
  OBVIOUS
<1>1. PICK n, s, c : Chained(n, s, c) /\ Owned(n)
  BY DEF IInv
<1>2. n \in Nat /\ \A i, j \in 1 .. n : s[i] = s[j] => i = j
  BY <1>1 DEF Chained
<1>3. \A i, j \in 1 .. n : /\ node[s[i]].next = s[j] <=> j = i + 1
                           /\ node[s[j]].prev = s[i] <=> j = i + 1
  <2> SUFFICES ASSUME NEW i \in 1 .. n, NEW j \in 1 .. n
               PROVE  /\ node[s[i]].next = s[j] <=> j = i + 1
                      /\ node[s[j]].prev = s[i] <=> j = i + 1
    OBVIOUS
  <2>1. node[s[i]].next = s[j] <=> j = i + 1
    <3>1. CASE i = n
      <4>1. node[s[i]].next = NULL /\ s[j] # NULL
        BY <1>1, <3>1, Links
      <4>2. j # i + 1
        BY <1>2, <3>1
      <4> QED  BY <4>1, <4>2
    <3>2. CASE i < n
      <4>1. i + 1 \in 1 .. n /\ node[s[i]].next = s[i + 1]
        BY <1>1, <3>2, Links
      <4> QED  BY <1>2, <4>1
    <3> QED  BY <1>2, <3>1, <3>2
  <2>2. node[s[j]].prev = s[i] <=> j = i + 1
    <3>1. CASE j = 1
      <4>1. node[s[j]].prev = NULL /\ s[i] # NULL
        BY <1>1, <3>1, Links
      <4>2. j # i + 1
        BY <1>2, <3>1
      <4> QED  BY <4>1, <4>2
    <3>2. CASE j > 1
      <4>1. j - 1 \in 1 .. n /\ node[s[j]].prev = s[j - 1]
        BY <1>1, <3>2, Links
      <4>2. j - 1 = i <=> j = i + 1
        BY <1>2
      <4> QED  BY <1>2, <4>1, <4>2
    <3> QED  BY <1>2, <3>1, <3>2
  <2> QED  BY <2>1, <2>2
<1>4. \A x \in Elements : \E i \in 1 .. n : x = s[i]
  BY <1>1, Numbered
<1>5. \A x, y \in Elements : node[x].next = y <=> node[y].prev = x
  BY <1>3, <1>4
<1>6. \A i \in 1 .. n : node[s[i]].next = NULL <=> i = n
  BY <1>1, Links
<1>7. \A x, y \in Elements : node[x].next = NULL /\ node[y].next = NULL => x = y
  BY <1>4, <1>6
<1>8. OnList = Elements
  BY <1>1, ContentsAre
<1> QED  BY <1>5, <1>7, <1>8 DEF WellLinked

\* What each operation of IndexFromFirst makes of the contents.
LEMMA IndexStep ==
  ASSUME IInv, NEW e \in OnList, NEW v \in Values
  PROVE  /\ list_add(e, v) => Contents' = Append(Contents, v)
         /\ list_removelast(e) => Contents' = Sequence!WithoutAt(Contents, Len(Contents) - 1)
         /\ \A i \in Indices :
              /\ list_addat(e, v, i) => Contents' = Sequence!InsertAfter(Contents, i, v)
              /\ list_removeat(e, i) => Contents' = Sequence!WithoutAt(Contents, i)
<1>1. PICK n, s, c : Chained(n, s, c) /\ Owned(n)
  BY DEF IInv
<1>2. /\ n \in Nat /\ n > 0 /\ Indices = 0 .. n - 1 /\ c \in [1 .. n -> Values]
      /\ Contents = c
  BY <1>1, Given
<1>3. PICK k \in 1 .. n : e = s[k]
  BY <1>1, Given
<1>4. ASSUME list_add(e, v) PROVE Contents' = Append(Contents, v)
  <2>1. PICK t : (Chained(n + 1, t, Inserted(c, n, n, v)) /\ Owned(n + 1))'
    BY <1>1, <1>3, <1>4, AddStep
  <2>2. Contents' = Inserted(c, n, n, v)
    BY <1>1, <2>1, ContentsStep
  <2> QED  BY <1>2, <2>2, AppendIs
<1>5. ASSUME list_removelast(e)
      PROVE  Contents' = Sequence!WithoutAt(Contents, Len(Contents) - 1)
  <2>1. PICK t : (Chained(n - 1, t, Removed(c, n, n)) /\ Owned(n - 1))'
    BY <1>1, <1>3, <1>5, RemoveLastStep
  <2>2. Contents' = Removed(c, n, n)
    BY <1>1, <2>1, ContentsStep
  <2>3. Len(c) = n /\ n - 1 \in 0 .. n - 1 /\ (n - 1) + 1 = n
    BY <1>2, ValuesSeq
  <2>4. Removed(c, n, (n - 1) + 1) = Sequence!WithoutAt(c, n - 1)
    BY <1>2, <2>3, WithoutAtIs
  <2> QED  BY <1>2, <2>2, <2>3, <2>4
<1>6. ASSUME NEW i \in Indices, list_addat(e, v, i)
      PROVE  Contents' = Sequence!InsertAfter(Contents, i, v)
  <2>1. i \in 0 .. n - 1
    BY <1>2
  <2>2. PICK t : (Chained(n + 1, t, Inserted(c, n, i + 1, v)) /\ Owned(n + 1))'
    BY <1>1, <1>3, <1>6, <2>1, AddAtStep
  <2>3. Contents' = Inserted(c, n, i + 1, v)
    BY <1>1, <2>2, ContentsStep
  <2> QED  BY <1>2, <2>1, <2>3, InsertAfterIs
<1>7. ASSUME NEW i \in Indices, list_removeat(e, i)
      PROVE  Contents' = Sequence!WithoutAt(Contents, i)
  <2>1. i \in 0 .. n - 1
    BY <1>2
  <2>2. PICK t : (Chained(n - 1, t, Removed(c, n, i + 1)) /\ Owned(n - 1))'
    BY <1>1, <1>3, <1>7, <2>1, RemoveAtStep
  <2>3. Contents' = Removed(c, n, i + 1)
    BY <1>1, <2>2, ContentsStep
  <2> QED  BY <1>2, <2>1, <2>3, WithoutAtIs
<1> QED  BY <1>4, <1>5, <1>6, <1>7

LEMMA SequenceStep ==
  ASSUME IInv, [Next]_vars
  PROVE  [Sequence!SeqNext]_Contents
<1>1. PICK n, s, c : Chained(n, s, c) /\ Owned(n)
  BY DEF IInv
<1>2. n \in Nat /\ c \in [1 .. n -> Values] /\ Len(c) = n /\ c \in Seq(Values)
  <2>1. n \in Nat /\ c \in [1 .. n -> Values]
    BY <1>1 DEF Chained
  <2> QED  BY <2>1, ValuesSeq
<1>3. CASE Next
  <2>1. PICK m, t, d : (Chained(m, t, d) /\ Owned(m))' /\ Become(n, c, d)
    BY <1>1, <1>3, NextStep
  <2>2. Contents = c /\ Contents' = d
    BY <1>1, <2>1, ContentsStep
  <2>3. ASSUME n = 0, NEW v \in Values, d = [j \in 1 .. 1 |-> v] PROVE Sequence!SeqNext
    <3>1. c = <<>> /\ d = <<v>>
      <4>1. c = <<>>
        BY <1>2, <2>3
      <4>2. d = <<v>>
        BY <2>3
      <4> QED  BY <4>1, <4>2
    <3>2. Sequence!New(v)
      BY <2>2, <3>1 DEF Sequence!New
    <3> QED  BY <3>2 DEF Sequence!SeqNext
  <2>4. ASSUME n > 0, NEW v \in Values, d = Inserted(c, n, n, v) PROVE Sequence!SeqNext
    <3>1. c # <<>> /\ d = Append(c, v)
      BY <1>2, <2>4, AppendIs
    <3>2. Sequence!Add(v)
      BY <2>2, <3>1 DEF Sequence!Add
    <3> QED  BY <3>2 DEF Sequence!SeqNext
  <2>5. ASSUME NEW v \in Values, NEW i \in 0 .. n - 1, d = Inserted(c, n, i + 1, v)
        PROVE  Sequence!SeqNext
    <3>1. d = Sequence!InsertAfter(c, i, v)
      BY <1>2, <2>5, InsertAfterIs
    <3>2. Sequence!AddAt(v, i)
      BY <2>2, <3>1 DEF Sequence!AddAt
    <3>3. i \in 0 .. Len(Contents) - 1
      BY <1>2, <2>2
    <3> QED  BY <3>2, <3>3 DEF Sequence!SeqNext
  <2>6. ASSUME NEW i \in 0 .. n - 1, d = Removed(c, n, i + 1) PROVE Sequence!SeqNext
    <3>1. d = Sequence!WithoutAt(c, i)
      BY <1>2, <2>6, WithoutAtIs
    <3>2. Sequence!RemoveAt(i)
      BY <2>2, <3>1 DEF Sequence!RemoveAt
    <3>3. i \in 0 .. Len(Contents) - 1
      BY <1>2, <2>2
    <3> QED  BY <3>2, <3>3 DEF Sequence!SeqNext
  <2>7. ASSUME d = [j \in 1 .. 0 |-> NULL] PROVE Sequence!SeqNext
    <3>1. d = <<>>
      BY <2>7
    <3>2. Sequence!Delete
      BY <2>2, <3>1 DEF Sequence!Delete
    <3> QED  BY <3>2 DEF Sequence!SeqNext
  <2>8. Sequence!SeqNext
    BY <2>1, <2>3, <2>4, <2>5, <2>6, <2>7 DEF Become
  <2> QED  BY <2>8
<1>4. CASE UNCHANGED vars
  <2>1. (Chained(n, s, c) /\ Owned(n))'
    BY <1>1, <1>4 DEF vars, Chained, Owned
  <2>2. Contents' = Contents
    BY <1>1, <2>1, ContentsStep
  <2> QED  BY <2>2
<1> QED  BY <1>3, <1>4

-----------------------------------------------------------------------------
(* The theorems.                                                             *)

\* Whatever operations the list went through, its elements are in one order,
\* each linked to the one before and the one after.
THEOREM ListInductive == Spec => []IInv
<1>1. Init => IInv
  BY InitIInv
<1>2. IInv /\ [Next]_vars => IInv'
  BY NextIInv
<1> QED  BY <1>1, <1>2, PTL DEF Spec

\* The pointers of elements name elements, never a block that was freed.
THEOREM ListTyped == Spec => []TypeOK
BY ListInductive, TypedOf, PTL

\* A link one way has its link the other way, and from the owner's element the
\* walks meet every element: after any operations none is lost.
THEOREM ListLinked == Spec => []WellLinked
BY ListInductive, LinkedOf, PTL

\* Whichever element list_add, list_addat, list_removeat and list_removelast are
\* given, their index counts from the first and the end is that of the list.
THEOREM ListIndexed == Spec => IndexFromFirst
<1>1. IInv /\ [Next]_vars =>
        [\A e \in OnList, v \in Values :
           /\ list_add(e, v) => Contents' = Append(Contents, v)
           /\ list_removelast(e) => Contents' = Sequence!WithoutAt(Contents, Len(Contents) - 1)
           /\ \A i \in Indices :
                /\ list_addat(e, v, i) => Contents' = Sequence!InsertAfter(Contents, i, v)
                /\ list_removeat(e, i) => Contents' = Sequence!WithoutAt(Contents, i)]_vars
  BY IndexStep
<1> QED  BY <1>1, ListInductive, PTL DEF Spec, IndexFromFirst

\* The linked elements behave as the sequence of values lib/list.h promises:
\* every operation of the code is one operation on the sequence.
THEOREM ListIsSequence == Spec => ImplementsSequence
<1>1. Init => Sequence!SeqInit
  <2> SUFFICES ASSUME Init PROVE Sequence!SeqInit
    OBVIOUS
  <2>1. list = NULL
    BY DEF Init
  <2>2. Contents = <<>>
    BY <2>1 DEF Contents
  <2> QED  BY <2>2 DEF Sequence!SeqInit
<1>2. IInv /\ [Next]_vars => [Sequence!SeqNext]_Contents
  BY SequenceStep
<1> QED  BY <1>1, <1>2, ListInductive, PTL DEF Spec, ImplementsSequence, Sequence!SeqSpec
=============================================================================
