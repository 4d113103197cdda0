----------------------------- MODULE HeapProofs -----------------------------
(***************************************************************************)
(* Proofs about module Heap, for every size of high memory that leaves     *)
(* room for the first log element and every request far enough below 2^32. *)
(***************************************************************************)
EXTENDS Heap, HeapStats, FiniteSetTheorems, WellFoundedInduction, TLAPS

\* High memory ends below the 4 GiB the addresses reach, holds the first
\* allocation, and no request wraps when it is rounded or split off; NULL is
\* not itself a call.
ASSUME HeapFits ==
  /\ \A k \in HimemSizes :
       k * KIB < WORD /\ 2 * HEADER_SIZE + ELEMENT_SIZE + 3 <= k * KIB
  /\ \A n \in Sizes : n + 3 + HEADER_SIZE + SPLIT_THRESHOLD < WORD
  /\ Enter("klog", ELEMENT_SIZE, NULL) # NULL

-----------------------------------------------------------------------------
(* The inductive invariant.  CallOK says what the call in progress remembers *)
(* and FirstIsKlog that the heap is untouched only until klog's allocation,  *)
(* the one that kmalloc's test for an empty heap does not check for size.    *)

CallOK ==
  call # NULL =>
    /\ call.req <= call.size
    /\ call.size + HEADER_SIZE + SPLIT_THRESHOLD < WORD
    /\ call.op = "realloc" <=> call.old # NULL
    /\ call.op = "realloc" =>
         /\ call.old # systemlog
         /\ heap[to_header(call.old)].block_size < call.size
    /\ call.op = "klog" => call.size <= ELEMENT_SIZE + 3

FirstIsKlog ==
  status # "off" /\ heap[HEAP_PTR].next_ptr = NULL =>
    /\ heap[HEAP_PTR].is_free
    /\ call # NULL /\ call.op = "klog"

IInv == /\ TypeOK /\ Tiling /\ Ownership /\ ContentsKept /\ FirstFit /\ PrevBehind
        /\ CallOK /\ FirstIsKlog

-----------------------------------------------------------------------------
(* Machine-word arithmetic that does not wrap.                               *)

LEMMA WrapSmall == ASSUME NEW n \in Nat, n < WORD PROVE Wrap(n) = n
  BY HeapConstants DEF Wrap

LEMMA SizesNat == Sizes \subseteq Nat \ {0}
BY HeapConstants DEF Sizes

LEMMA RoundUpSmall ==
  ASSUME NEW n \in Nat, n + 3 < WORD
  PROVE  RoundUp(n) \in Nat /\ n <= RoundUp(n) /\ RoundUp(n) <= n + 3
<1> DEFINE pad == (4 - (n % 4)) % 4
<1>1. pad \in 0 .. 3  OBVIOUS
<1>2. RoundUp(n) = Wrap(n + pad)  BY DEF RoundUp
<1> HIDE DEF pad
<1> QED  BY <1>1, <1>2, WrapSmall, HeapConstants

LEMMA HeapBytesFacts ==
  ASSUME TypeOK
  PROVE  /\ HeapBytes \in Nat /\ HeapBytes < WORD
         /\ 2 * HEADER_SIZE + ELEMENT_SIZE + 3 <= HeapBytes
<1>1. himem \in Nat /\ KIB \in Nat  BY HeapConstants DEF TypeOK
<1>2. himem * KIB \in Nat  BY <1>1
<1> QED  BY <1>2, HeapFits DEF TypeOK, HeapBytes

LEMMA HeaderAndData ==
  ASSUME NEW b \in Nat, b + HEADER_SIZE < WORD
  PROVE  to_data(b) = b + HEADER_SIZE /\ to_header(b + HEADER_SIZE) = b
<1>1. HEADER_SIZE \in Nat \ {0} /\ WORD \in Nat  BY HeapConstants
<1>2. b + HEADER_SIZE \in Nat /\ b < WORD  BY <1>1
<1>3. to_data(b) = b + HEADER_SIZE  BY <1>2, WrapSmall DEF to_data
<1>4. (b + HEADER_SIZE) - HEADER_SIZE = b  BY <1>1
<1>5. Wrap(b) = b  BY <1>2, WrapSmall
<1>6. to_header(b + HEADER_SIZE) = Wrap((b + HEADER_SIZE) - HEADER_SIZE)
  BY DEF to_header
<1> QED  BY <1>3, <1>4, <1>5, <1>6, Zenon

LEMMA BlockFacts ==
  ASSUME TypeOK, Tiling, NEW b \in DOMAIN heap
  PROVE  /\ status # "off"
         /\ b \in Nat /\ heap[b].block_size \in Nat /\ heap[b].is_free \in BOOLEAN
         /\ End(b) \in Nat /\ End(b) <= HeapBytes
         /\ to_data(b) = b + HEADER_SIZE
         /\ to_header(b + HEADER_SIZE) = b
<1>1. status # "off"  BY DEF Tiling
<1>2. b \in Nat /\ heap[b] \in Header(DOMAIN heap)  BY DEF TypeOK
<1>3. heap[b].block_size \in Nat /\ heap[b].is_free \in BOOLEAN
  BY <1>2, HeapConstants DEF Header
<1>4. End(b) \in Nat /\ End(b) <= HeapBytes
  BY <1>1, <1>2, <1>3, HeapConstants DEF Tiling, End
<1>5. b + HEADER_SIZE < WORD
  BY <1>2, <1>3, <1>4, HeapBytesFacts, HeapConstants DEF End
<1> QED  BY <1>1, <1>2, <1>3, <1>4, <1>5, HeaderAndData

LEMMA BlocksApart ==
  ASSUME TypeOK, Tiling, NEW a \in DOMAIN heap, NEW b \in DOMAIN heap, a # b
  PROVE  (a < b /\ End(a) <= b) \/ (b < a /\ End(b) <= a)
<1>1. a \in Nat /\ b \in Nat /\ status # "off"  BY BlockFacts
<1> QED  BY <1>1 DEF Tiling

LEMMA PointerFacts ==
  ASSUME TypeOK, Tiling, NEW p \in DOMAIN live
  PROVE  /\ to_header(p) \in DOMAIN heap
         /\ p = to_header(p) + HEADER_SIZE /\ p = to_data(to_header(p))
         /\ live[p] \in [size : Sizes, data : Contents \cup {NULL}]
<1>1. PICK b \in DOMAIN heap : p = to_data(b)  BY DEF TypeOK
<1>2. to_data(b) = b + HEADER_SIZE /\ to_header(b + HEADER_SIZE) = b  BY BlockFacts
<1> QED  BY <1>1, <1>2 DEF TypeOK

-----------------------------------------------------------------------------
(* What kmalloc has done to the headers and data when it returns block b.    *)

Prepared(h, m, b) ==
  /\ b \in DOMAIN heap /\ heap[b].is_free
  /\ DOMAIN heap \subseteq DOMAIN h /\ DOMAIN h \subseteq 0 .. WORD - 1
  /\ h \in [DOMAIN h -> Header(DOMAIN h)]
  /\ m \in [DOMAIN h -> Contents \cup {NULL}]
  /\ ~h[b].is_free /\ h[b].block_size >= call.size
  /\ \A a \in DOMAIN h \ {b} :
       IF a \in DOMAIN heap
       THEN h[a] = heap[a] /\ (~heap[a].is_free => m[a] = mem[a])
       ELSE h[a].is_free
  /\ \A a \in DOMAIN h :
       /\ a + HEADER_SIZE + h[a].block_size <= HeapBytes
       /\ IF h[a].next_ptr = NULL THEN a + HEADER_SIZE + h[a].block_size = HeapBytes
                                  ELSE h[a].next_ptr = a + HEADER_SIZE + h[a].block_size
       /\ \A c \in DOMAIN h : c < a => c + HEADER_SIZE + h[c].block_size <= a
       /\ IF a = HEAP_PTR THEN h[a].prev_ptr = NULL
                          ELSE h[a].prev_ptr # NULL /\ h[a].prev_ptr < a
  /\ h[HEAP_PTR].next_ptr # NULL

\* Writing to bytes that belong to no data of block a leaves a's data alone.
LEMMA Untouching ==
  ASSUME NEW h, NEW m, NEW lo \in Int, NEW hi \in Int, NEW v, NEW a \in DOMAIN h,
         a \in Nat, h[a].block_size \in Nat,
         hi <= a + HEADER_SIZE \/ a + HEADER_SIZE + h[a].block_size <= lo
  PROVE  kmemset(h, m, lo, hi, v)[a] = m[a]
<1>1. a \notin Touched(h, lo, hi)  BY HeapConstants DEF Touched
<1> QED  BY <1>1 DEF kmemset

LEMMA KmemsetType ==
  ASSUME NEW h, NEW m, NEW lo, NEW hi, NEW v \in Contents \cup {NULL},
         m \in [DOMAIN h -> Contents \cup {NULL}]
  PROVE  kmemset(h, m, lo, hi, v) \in [DOMAIN h -> Contents \cup {NULL}]
BY DEF kmemset

LEMMA SplitPrepares ==
  ASSUME IInv, NEW b \in DOMAIN heap, NEW n \in Nat,
         call # NULL, call.size = n, heap[b].is_free,
         n + HEADER_SIZE <= heap[b].block_size
  PROVE  Prepared(splitblock(heap, b, n), SplitData(heap, mem, b, n), b)
<1> DEFINE nb == b + HEADER_SIZE + n
           rest == heap[b].block_size - (n + HEADER_SIZE)
           h == splitblock(heap, b, n)
           m == SplitData(heap, mem, b, n)
           m0 == [a \in DOMAIN h |-> IF a \in DOMAIN heap /\ a # nb THEN mem[a] ELSE NULL]
<1>1. /\ TypeOK /\ Tiling /\ PrevBehind
      /\ HEADER_SIZE \in Nat \ {0} /\ WORD \in Nat /\ NULL \notin Int
  BY HeapConstants DEF IInv
<1>2. /\ b \in Nat /\ heap[b].block_size \in Nat /\ End(b) \in Nat /\ End(b) <= HeapBytes
      /\ status # "off" /\ HeapBytes \in Nat /\ HeapBytes < WORD
  BY <1>1, BlockFacts, HeapBytesFacts
<1>3. /\ nb \in Nat /\ nb < WORD /\ rest \in Nat /\ rest < WORD
      /\ b < nb /\ nb + HEADER_SIZE + rest = End(b) /\ n < WORD
      /\ nb = b + HEADER_SIZE + n
  BY <1>1, <1>2 DEF End
<1>4. SplitAt(b, n) = nb  BY <1>3, WrapSmall DEF SplitAt
<1>5. /\ n + HEADER_SIZE \in Nat /\ n + HEADER_SIZE < WORD
      /\ Wrap(n + HEADER_SIZE) = n + HEADER_SIZE
      /\ Wrap(heap[b].block_size - (n + HEADER_SIZE)) = rest
  BY <1>1, <1>2, <1>3, WrapSmall DEF End
<1>6. CanSplit(heap, b, n)  BY <1>5 DEF CanSplit
<1>7. nb \notin DOMAIN heap
  <2>1. ASSUME nb \in DOMAIN heap PROVE FALSE
    <3>1. (b < nb /\ End(b) <= nb) \/ (nb < b /\ End(nb) <= b)
      BY <1>1, <1>3, <2>1, BlocksApart
    <3>2. ~(nb < b)  BY <1>2, <1>3
    <3>3. ~(End(b) <= nb)
      <4> HIDE DEF nb, rest
      <4> QED  BY <1>1, <1>2, <1>3
    <3> QED  BY <3>1, <3>2, <3>3
  <2> QED  BY <2>1
<1>8. h = [a \in DOMAIN heap \cup {nb} |->
             IF a = nb THEN [next_ptr |-> heap[b].next_ptr, prev_ptr |-> b,
                             is_free |-> TRUE, block_size |-> rest]
             ELSE IF a = b THEN [next_ptr |-> nb, prev_ptr |-> heap[b].prev_ptr,
                                 is_free |-> FALSE, block_size |-> n]
             ELSE heap[a]]
  BY <1>4, <1>5, <1>6 DEF splitblock
<1>9. m = kmemset(h, m0, nb, nb + HEADER_SIZE, NULL)
  BY <1>4, <1>6 DEF SplitData
<1> HIDE DEF h, m, nb, rest
<1>10. /\ DOMAIN h = DOMAIN heap \cup {nb}
       /\ h[nb] = [next_ptr |-> heap[b].next_ptr, prev_ptr |-> b,
                   is_free |-> TRUE, block_size |-> rest]
       /\ h[b] = [next_ptr |-> nb, prev_ptr |-> heap[b].prev_ptr,
                   is_free |-> FALSE, block_size |-> n]
       /\ \A a \in DOMAIN heap \ {b} : h[a] = heap[a]
  BY <1>3, <1>7, <1>8
<1>11. heap[b] \in Header(DOMAIN heap)  BY <1>1 DEF TypeOK
<1>12. /\ h[b].next_ptr = nb /\ h[b].prev_ptr = heap[b].prev_ptr
       /\ h[b].is_free = FALSE /\ h[b].block_size = n
       /\ h[nb].next_ptr = heap[b].next_ptr /\ h[nb].prev_ptr = b
       /\ h[nb].is_free = TRUE /\ h[nb].block_size = rest
  BY <1>10
<1>13. DOMAIN heap \subseteq DOMAIN h /\ DOMAIN h \subseteq 0 .. WORD - 1
  BY <1>1, <1>3, <1>10 DEF TypeOK
<1>14. h \in [DOMAIN h -> Header(DOMAIN h)]
  <2>1. ASSUME NEW a \in DOMAIN heap PROVE heap[a] \in Header(DOMAIN h)
    BY <1>1, <1>10 DEF TypeOK, Header
  <2>2. h[nb] \in Header(DOMAIN h)  BY <1>1, <1>3, <1>10, <1>11 DEF Header
  <2>3. h[b] \in Header(DOMAIN h)
    <3>1. heap[b].prev_ptr \in DOMAIN h \cup {NULL} /\ nb \in DOMAIN h
      BY <1>10, <1>11 DEF Header
    <3> QED  BY <1>1, <1>3, <1>10, <3>1 DEF Header
  <2>4. h = [a \in DOMAIN h |-> h[a]]  BY <1>8, <1>10
  <2>5. \A a \in DOMAIN h : h[a] \in Header(DOMAIN h)  BY <1>10, <2>1, <2>2, <2>3
  <2> QED  BY <2>4, <2>5
<1>15. m \in [DOMAIN h -> Contents \cup {NULL}]
  <2>1. m0 \in [DOMAIN h -> Contents \cup {NULL}]  BY <1>1 DEF TypeOK
  <2> QED  BY <1>9, <2>1, KmemsetType
<1>16. ASSUME NEW a \in DOMAIN heap, a # b
       PROVE  /\ a \in Nat /\ heap[a].block_size \in Nat /\ a # nb
              /\ (a < b /\ a + HEADER_SIZE + heap[a].block_size <= b) \/ (b < a /\ End(b) <= a)
  BY <1>1, <1>7, <1>16, BlockFacts, BlocksApart DEF End
<1>17. ASSUME NEW a \in DOMAIN h \ {b}
       PROVE  IF a \in DOMAIN heap
              THEN h[a] = heap[a] /\ (~heap[a].is_free => m[a] = mem[a])
              ELSE h[a].is_free
  <2>1. CASE a \notin DOMAIN heap  BY <2>1, <1>10, <1>12
  <2>2. CASE a \in DOMAIN heap
    <3>1. h[a] = heap[a]  BY <2>2, <1>10
    <3>2. m0[a] = mem[a]  BY <2>2, <1>7, <1>13
    <3>3. nb + HEADER_SIZE <= a + HEADER_SIZE \/ a + HEADER_SIZE + h[a].block_size <= nb
      BY <2>2, <3>1, <1>1, <1>2, <1>3, <1>16
    <3>4. m[a] = m0[a]  BY <1>1, <1>3, <1>9, <1>16, <2>2, <3>1, <3>3, Untouching
    <3> QED  BY <2>2, <3>1, <3>2, <3>4
  <2> QED  BY <2>1, <2>2
<1>18. ASSUME NEW a \in DOMAIN h
       PROVE  /\ a + HEADER_SIZE + h[a].block_size <= HeapBytes
              /\ IF h[a].next_ptr = NULL THEN a + HEADER_SIZE + h[a].block_size = HeapBytes
                                  ELSE h[a].next_ptr = a + HEADER_SIZE + h[a].block_size
              /\ IF a = HEAP_PTR THEN h[a].prev_ptr = NULL
                          ELSE h[a].prev_ptr # NULL /\ h[a].prev_ptr < a
  <2>1. CASE a = nb
    BY <2>1, <1>1, <1>2, <1>3, <1>12 DEF Tiling, HEAP_PTR
  <2>2. CASE a = b
    BY <2>2, <1>1, <1>2, <1>3, <1>12 DEF PrevBehind, HEAP_PTR
  <2>3. CASE a \in DOMAIN heap \ {b}
    BY <2>3, <1>1, <1>2, <1>10 DEF Tiling, PrevBehind, End
  <2> QED  BY <1>10, <2>1, <2>2, <2>3
<1>19. ASSUME NEW a \in DOMAIN h, NEW c \in DOMAIN h, c < a
       PROVE  c + HEADER_SIZE + h[c].block_size <= a
  <2>1. a \in Nat /\ c \in Nat  BY <1>1, <1>3, <1>10, BlockFacts
  <2>2. CASE a = nb
    <3>1. CASE c = b  BY <1>3, <1>12, <2>2, <3>1
    <3>2. CASE c # b
      <4>1. c \in DOMAIN heap /\ h[c] = heap[c]  BY <1>2, <1>10, <1>19, <2>1, <2>2, <3>2
      <4>2. c < b /\ c + HEADER_SIZE + heap[c].block_size <= b
        BY <1>1, <1>2, <1>3, <1>16, <1>19, <2>1, <2>2, <3>2, <4>1
      <4> QED  BY <1>1, <1>2, <1>3, <1>16, <2>1, <2>2, <3>2, <4>1, <4>2
    <3> QED  BY <3>1, <3>2
  <2>3. CASE a = b /\ c # nb
    BY <1>1, <1>2, <1>3, <1>10, <1>12, <1>16, <1>19, <2>1, <2>3
  <2>4. CASE a = b /\ c = nb
    BY <1>2, <1>3, <1>19, <2>4
  <2>5. CASE a \in DOMAIN heap \ {b} /\ c = nb
    BY <1>1, <1>2, <1>3, <1>10, <1>12, <1>16, <1>19, <2>1, <2>5
  <2>6. CASE a \in DOMAIN heap \ {b} /\ c = b
    BY <1>1, <1>2, <1>3, <1>10, <1>12, <1>16, <1>19, <2>1, <2>6
  <2>7. CASE a \in DOMAIN heap \ {b} /\ c \in DOMAIN heap \ {b}
    BY <1>1, <1>2, <1>10, <1>19, <2>7 DEF Tiling, End
  <2> QED  BY <1>10, <2>2, <2>3, <2>4, <2>5, <2>6, <2>7
<1>20. h[HEAP_PTR].next_ptr # NULL
  <2>1. HEAP_PTR \in DOMAIN heap  BY <1>1, <1>2 DEF Tiling
  <2>2. CASE b = HEAP_PTR  BY <1>1, <1>3, <1>12, <2>2
  <2>3. CASE b # HEAP_PTR
    <3>1. b > HEAP_PTR /\ heap[HEAP_PTR].next_ptr = NULL =>
            End(HEAP_PTR) = HeapBytes /\ End(HEAP_PTR) <= b
      BY <1>1, <1>2, <2>1 DEF Tiling
    <3>2. End(b) > b  BY <1>1, <1>2 DEF End
    <3>3. heap[HEAP_PTR].next_ptr # NULL
      BY <1>2, <2>3, <3>1, <3>2 DEF HEAP_PTR
    <3> QED  BY <1>10, <2>1, <2>3, <3>3
  <2> QED  BY <2>2, <2>3
<1>21. h[b].block_size >= call.size /\ ~h[b].is_free  BY <1>12
<1> QED
  <2>1. Prepared(h, m, b)
    BY <1>13, <1>14, <1>15, <1>17, <1>18, <1>19, <1>20, <1>21 DEF Prepared
  <2> QED  BY <2>1 DEF h, m

LEMMA OnlyBlock ==
  ASSUME IInv, status # "off", heap[HEAP_PTR].next_ptr = NULL, NEW b \in DOMAIN heap
  PROVE  b = HEAP_PTR
<1>1. TypeOK /\ Tiling /\ HEADER_SIZE \in Nat \ {0}  BY HeapConstants DEF IInv
<1>2. b \in Nat /\ heap[b].block_size \in Nat /\ End(b) \in Nat /\ End(b) <= HeapBytes
      /\ HeapBytes \in Nat
  BY <1>1, BlockFacts, HeapBytesFacts
<1>3. b # HEAP_PTR => End(HEAP_PTR) = HeapBytes /\ End(HEAP_PTR) <= b
  BY <1>1, <1>2 DEF Tiling, HEAP_PTR
<1>4. End(b) > b  BY <1>1, <1>2 DEF End
<1> QED  BY <1>2, <1>3, <1>4

SameButFlag(h, k, o) ==
  /\ k \in [DOMAIN h -> Header(DOMAIN h)] /\ DOMAIN k = DOMAIN h
  /\ \A a \in DOMAIN h : /\ k[a].next_ptr = h[a].next_ptr
                         /\ k[a].prev_ptr = h[a].prev_ptr
                         /\ k[a].block_size = h[a].block_size
                         /\ a # o => k[a] = h[a]

LEMMA Marking ==
  ASSUME NEW h, h \in [DOMAIN h -> Header(DOMAIN h)], NEW o \in DOMAIN h,
         NEW k, k = Mark(h, o, TRUE) \/ k = Mark(h, o, FALSE)
  PROVE  SameButFlag(h, k, o)
<1> DEFINE ho(f) == [h[o] EXCEPT !.is_free = f]
<1>1. h[o] \in Header(DOMAIN h)  OBVIOUS
<1>2. ASSUME NEW f \in BOOLEAN
      PROVE  /\ ho(f) \in Header(DOMAIN h) /\ ho(f).is_free = f
             /\ ho(f).next_ptr = h[o].next_ptr /\ ho(f).prev_ptr = h[o].prev_ptr
             /\ ho(f).block_size = h[o].block_size
  BY <1>1 DEF Header
<1>3. /\ k = Mark(h, o, TRUE) => k = [h EXCEPT ![o] = ho(TRUE)]
      /\ k = Mark(h, o, FALSE) => k = [h EXCEPT ![o] = ho(FALSE)]
  BY DEF Mark
<1>4. PICK f \in BOOLEAN : k = [h EXCEPT ![o] = ho(f)]  BY <1>3
<1> HIDE DEF ho
<1>5. k \in [DOMAIN h -> Header(DOMAIN h)] /\ k[o] = ho(f) /\ \A a \in DOMAIN h \ {o} : k[a] = h[a]
  BY <1>2, <1>4
<1>6. \A a \in DOMAIN h : /\ k[a].next_ptr = h[a].next_ptr
                          /\ k[a].prev_ptr = h[a].prev_ptr
                          /\ k[a].block_size = h[a].block_size
                          /\ a # o => k[a] = h[a]
  BY <1>2, <1>5
<1> QED  BY <1>5, <1>6 DEF SameButFlag

LEMMA MarkedFree ==
  ASSUME NEW h, h \in [DOMAIN h -> Header(DOMAIN h)], NEW o \in DOMAIN h
  PROVE  Mark(h, o, TRUE)[o].is_free
<1>1. h[o] \in Header(DOMAIN h)  OBVIOUS
<1>2. [h[o] EXCEPT !.is_free = TRUE].is_free = TRUE  BY <1>1 DEF Header
<1> QED  BY <1>2 DEF Mark

LEMMA MarkedUsed ==
  ASSUME NEW h, h \in [DOMAIN h -> Header(DOMAIN h)], NEW o \in DOMAIN h
  PROVE  ~Mark(h, o, FALSE)[o].is_free
<1>1. h[o] \in Header(DOMAIN h)  OBVIOUS
<1>2. [h[o] EXCEPT !.is_free = FALSE].is_free = FALSE  BY <1>1 DEF Header
<1> QED  BY <1>2 DEF Mark

LEMMA WholePrepares ==
  ASSUME IInv, NEW b \in DOMAIN heap, call # NULL,
         heap[b].is_free, heap[b].block_size >= call.size, heap[HEAP_PTR].next_ptr # NULL
  PROVE  Prepared(Mark(heap, b, FALSE), mem, b)
<1> DEFINE h == Mark(heap, b, FALSE)
<1>1. TypeOK /\ Tiling /\ PrevBehind  BY DEF IInv
<1>2. status # "off"  BY <1>1, BlockFacts
<1>3. heap \in [DOMAIN heap -> Header(DOMAIN heap)]  BY <1>1 DEF TypeOK
<1>4. SameButFlag(heap, h, b) /\ ~h[b].is_free  BY <1>3, Marking, MarkedUsed
<1> HIDE DEF h
<1>8. \A a \in DOMAIN h :
       /\ a + HEADER_SIZE + h[a].block_size <= HeapBytes
       /\ IF h[a].next_ptr = NULL THEN a + HEADER_SIZE + h[a].block_size = HeapBytes
                                  ELSE h[a].next_ptr = a + HEADER_SIZE + h[a].block_size
       /\ \A c \in DOMAIN h : c < a => c + HEADER_SIZE + h[c].block_size <= a
       /\ IF a = HEAP_PTR THEN h[a].prev_ptr = NULL
                          ELSE h[a].prev_ptr # NULL /\ h[a].prev_ptr < a
  BY <1>1, <1>2, <1>4 DEF SameButFlag, Tiling, PrevBehind, End
<1>9. h[HEAP_PTR].next_ptr # NULL  BY <1>1, <1>2, <1>4 DEF SameButFlag, Tiling
<1>10. Prepared(h, mem, b)
  BY <1>1, <1>4, <1>8, <1>9 DEF Prepared, TypeOK, SameButFlag
<1> QED  BY <1>10 DEF h

-----------------------------------------------------------------------------
(* Returning a block so prepared keeps the invariant.                        *)

LEMMA ReturnKeeps ==
  ASSUME IInv, status = "up", call # NULL,
         NEW h, NEW m, NEW b, Prepared(h, m, b), Return(h, m, b)
  PROVE  IInv'
<1> DEFINE p == b + HEADER_SIZE
           o == to_header(call.old)
           moving == call.op = "realloc"
           new == [size |-> call.req,
                   data |-> IF moving THEN live[call.old].data ELSE NULL]
<1>1. /\ TypeOK /\ Tiling /\ Ownership /\ ContentsKept /\ PrevBehind /\ CallOK
      /\ HEADER_SIZE \in Nat \ {0} /\ WORD \in Nat /\ NULL \notin Int /\ NULL \notin Contents
  BY HeapConstants DEF IInv
<1>2. /\ b \in DOMAIN heap /\ b \in Nat /\ heap[b].is_free /\ to_data(b) = p /\ p \in Nat
      /\ to_header(p) = b /\ b \in DOMAIN h /\ p \notin DOMAIN live
  <2>1. b \in DOMAIN heap /\ heap[b].is_free /\ b \in DOMAIN h  BY DEF Prepared
  <2>2. b \in Nat /\ to_data(b) = p /\ to_header(p) = b  BY <1>1, <2>1, BlockFacts
  <2> QED  BY <1>1, <2>1, <2>2 DEF Ownership
<1>3. call \in Call  BY <1>1 DEF TypeOK
<1>4. ASSUME moving
      PROVE  /\ call.old \in DOMAIN live /\ call.old # systemlog /\ call.old = o + HEADER_SIZE
             /\ o \in DOMAIN heap /\ o \in Nat /\ o # b /\ ~heap[o].is_free /\ o \in DOMAIN h
             /\ h[o].block_size = heap[o].block_size /\ m[o] = mem[o]
             /\ heap[o].block_size \in Nat \ {0} /\ heap[o].block_size < call.size
             /\ live[call.old].size <= heap[o].block_size
             /\ live[call.old] \in [size : Sizes, data : Contents \cup {NULL}]
  <2>1. call.old \in DOMAIN live /\ call.old # systemlog /\ heap[o].block_size < call.size
    BY <1>1, <1>3, <1>4 DEF CallOK, Call
  <2>2. /\ o \in DOMAIN heap /\ call.old = o + HEADER_SIZE /\ call.old = to_data(o)
        /\ live[call.old] \in [size : Sizes, data : Contents \cup {NULL}]
    BY <1>1, <2>1, PointerFacts
  <2>3. o \in Nat /\ heap[o].block_size \in Nat  BY <1>1, <2>2, BlockFacts
  <2>4. ~heap[o].is_free /\ live[call.old].size <= heap[o].block_size
    BY <1>1, <2>1, <2>2 DEF Ownership
  <2>5. live[call.old].size \in Nat \ {0}  BY <2>2, HeapConstants DEF Sizes
  <2>6. o # b /\ o \in DOMAIN h /\ h[o].block_size = heap[o].block_size /\ m[o] = mem[o]
    BY <1>2, <2>2, <2>4 DEF Prepared
  <2> QED  BY <2>1, <2>2, <2>3, <2>4, <2>5, <2>6
<1>5. ~moving => call.old = NULL /\ NULL \notin DOMAIN live
  <2>1. ~moving => call.old = NULL  BY <1>1 DEF CallOK
  <2>2. \A q \in DOMAIN live : q \in Int
    BY <1>1, PointerFacts, BlockFacts
  <2> QED  BY <1>1, <2>1, <2>2
<1>6. /\ call' = NULL /\ himem' = himem /\ status' = status
      /\ live' = [q \in (DOMAIN live \ {call.old}) \cup {p} |-> IF q = p THEN new ELSE live[q]]
      /\ systemlog' = IF call.op = "klog" THEN p ELSE systemlog
      /\ moving => /\ mem' = kmemset(h, m, p, p + h[o].block_size, m[o])
                   /\ heap' = Mark(h, o, TRUE)
      /\ ~moving => mem' = m /\ heap' = h
  BY <1>2 DEF Return
<1> HIDE DEF p, o, moving, new
<1>7. h \in [DOMAIN h -> Header(DOMAIN h)]  BY DEF Prepared
<1>8. /\ DOMAIN heap' = DOMAIN h /\ heap' \in [DOMAIN h -> Header(DOMAIN h)]
      /\ \A a \in DOMAIN h : /\ heap'[a].next_ptr = h[a].next_ptr
                             /\ heap'[a].prev_ptr = h[a].prev_ptr
                             /\ heap'[a].block_size = h[a].block_size
                             /\ heap'[a].is_free <=> (h[a].is_free \/ (moving /\ a = o))
  <2>1. CASE ~moving  BY <2>1, <1>6, <1>7
  <2>2. CASE moving
    <3>1. heap' = Mark(h, o, TRUE) /\ o \in DOMAIN h  BY <2>2, <1>4, <1>6
    <3>2. SameButFlag(h, heap', o) /\ heap'[o].is_free  BY <3>1, <1>7, Marking, MarkedFree
    <3> QED  BY <2>2, <3>2 DEF SameButFlag
  <2> QED  BY <2>1, <2>2
<1>9. /\ DOMAIN live' = (DOMAIN live \ {call.old}) \cup {p}
      /\ live'[p] = new
      /\ \A q \in DOMAIN live' : q # p => live'[q] = live[q] /\ q \in DOMAIN live /\ q # call.old
  BY <1>2, <1>6
<1>10. new \in [size : Sizes, data : Contents \cup {NULL}] /\ new.size = call.req
  BY <1>3, <1>4 DEF new, Call, Sizes
<1>11. mem' \in [DOMAIN h -> Contents \cup {NULL}]
  <2>1. m \in [DOMAIN h -> Contents \cup {NULL}]  BY DEF Prepared
  <2>2. CASE moving
    <3>1. m[o] \in Contents \cup {NULL}  BY <2>1, <2>2, <1>4
    <3> QED  BY <2>1, <2>2, <3>1, <1>6, KmemsetType
  <2> QED  BY <2>1, <2>2, <1>6
<1>12. TypeOK'
  <2>1. DOMAIN heap' \subseteq 0 .. WORD - 1  BY <1>8 DEF Prepared
  <2>2. live' \in [DOMAIN live' -> [size : Sizes, data : Contents \cup {NULL}]]
    <3>1. \A q \in DOMAIN live' : live'[q] \in [size : Sizes, data : Contents \cup {NULL}]
      BY <1>1, <1>9, <1>10 DEF TypeOK
    <3> QED  BY <1>6, <3>1
  <2>3. DOMAIN live' \subseteq {to_data(a) : a \in DOMAIN heap'}
    BY <1>1, <1>2, <1>8, <1>9 DEF TypeOK, Prepared
  <2>4. systemlog' \in DOMAIN live' \cup {NULL}
    BY <1>1, <1>4, <1>5, <1>6, <1>9 DEF TypeOK
  <2> QED  BY <1>1, <1>6, <1>8, <1>11, <2>1, <2>2, <2>3, <2>4 DEF TypeOK, Sizes
<1>13. HeapBytes' = HeapBytes  BY <1>6 DEF HeapBytes
<1>14. Tiling' /\ PrevBehind'
  <2>1. HEAP_PTR \in DOMAIN h /\ status' # "off"
    BY <1>1, <1>6 DEF Tiling, Prepared
  <2> QED  BY <1>8, <1>13, <2>1 DEF Tiling, PrevBehind, Prepared, End
<1>15. ASSUME NEW a \in DOMAIN h
       PROVE  a \in Nat /\ h[a].block_size \in Nat /\ to_data(a) = a + HEADER_SIZE
              /\ to_header(a + HEADER_SIZE) = a
  <2>1. a \in Nat /\ h[a].block_size \in Nat /\ a + HEADER_SIZE + h[a].block_size <= HeapBytes
    BY <1>1, <1>7 DEF Prepared, Header
  <2>2. a + HEADER_SIZE < WORD  BY <1>1, <2>1, HeapBytesFacts
  <2> QED  BY <2>1, <2>2, HeaderAndData
<1>16. Ownership'
  <2>1. ASSUME NEW a \in DOMAIN h
        PROVE  heap'[a].is_free <=> to_data(a) \notin DOMAIN live'
    <3>1. CASE a = b  BY <3>1, <1>2, <1>4, <1>8, <1>9 DEF Prepared
    <3>2. CASE a # b
      <4>1. a + HEADER_SIZE # p  BY <1>1, <1>2, <1>15, <3>2 DEF p
      <4>2. CASE a \notin DOMAIN heap
        <5>1. to_data(a) \notin DOMAIN live
          <6>1. ASSUME to_data(a) \in DOMAIN live PROVE FALSE
            <7>1. to_header(to_data(a)) \in DOMAIN heap  BY <1>1, <6>1, PointerFacts
            <7> QED  BY <1>15, <4>2, <7>1
          <6> QED  BY <6>1
        <5> QED  BY <1>8, <1>9, <1>15, <3>2, <4>1, <4>2, <5>1 DEF Prepared
      <4>3. CASE a \in DOMAIN heap
        <5>1. heap[a].is_free <=> to_data(a) \notin DOMAIN live
          BY <1>1, <4>3 DEF Ownership
        <5>2. h[a].is_free = heap[a].is_free  BY <3>2, <4>3 DEF Prepared
        <5>3. moving => (to_data(a) = call.old <=> a = o)
          BY <1>1, <1>4, <1>15
        <5>4. ~moving => to_data(a) # call.old  BY <1>1, <1>5, <1>15
        <5>5. to_data(a) \in DOMAIN live' <=> to_data(a) \in DOMAIN live /\ to_data(a) # call.old
          BY <1>9, <1>15, <4>1
        <5> QED  BY <1>8, <5>1, <5>2, <5>3, <5>4, <5>5
      <4> QED  BY <4>2, <4>3
    <3> QED  BY <3>1, <3>2
  <2>2. ASSUME NEW q \in DOMAIN live'
        PROVE  live'[q].size <= heap'[to_header(q)].block_size
    <3>1. CASE q = p
      <4>1. live'[q].size = call.req  BY <1>9, <1>10, <3>1
      <4>2. call.req <= call.size /\ call.size <= h[b].block_size
        BY <1>1 DEF CallOK, Prepared
      <4>3. call.req \in Nat /\ call.size \in Nat
        <5>1. call.req \in Sizes /\ call.size \in 0 .. WORD - 1  BY <1>3 DEF Call, Sizes
        <5>2. call.req \in Nat  BY <5>1, SizesNat
        <5> QED  BY <1>1, <5>1, <5>2
      <4> QED  BY <1>2, <1>8, <1>15, <3>1, <4>1, <4>2, <4>3
    <3>2. CASE q # p
      <4>1. live'[q] = live[q] /\ q \in DOMAIN live  BY <1>9, <3>2
      <4>2. to_header(q) \in DOMAIN heap /\ q = to_header(q) + HEADER_SIZE
        BY <1>1, <4>1, PointerFacts
      <4>3. to_header(q) # b /\ to_header(q) \in DOMAIN h  BY <1>2, <3>2, <4>2 DEF p, Prepared
      <4>4. heap'[to_header(q)].block_size = heap[to_header(q)].block_size
        BY <1>8, <4>2, <4>3 DEF Prepared
      <4> QED  BY <1>1, <4>1, <4>4 DEF Ownership
    <3> QED  BY <3>1, <3>2
  <2> QED  BY <1>8, <2>1, <2>2 DEF Ownership
<1>17. ContentsKept'
  <2> SUFFICES ASSUME NEW q \in DOMAIN live', live'[q].data # NULL
               PROVE  mem'[to_header(q)] = live'[q].data
    BY DEF ContentsKept
  <2>1. CASE q = p
    <3>1. live'[q].data = new.data  BY <1>9, <2>1
    <3>2. moving /\ new.data = live[call.old].data  BY <3>1 DEF new
    <3>3. m[o] = live[call.old].data
      BY <1>1, <1>4, <3>1, <3>2 DEF ContentsKept, o
    <3>4. b \in Touched(h, p, p + h[o].block_size)
      <4>1. h[b].block_size \in Nat /\ call.size <= h[b].block_size /\ call.size \in Nat
            /\ h[o].block_size \in Nat \ {0} /\ h[o].block_size < call.size
        BY <1>2, <1>3, <1>4, <1>15, <3>2, HeapConstants DEF Prepared, Call
      <4> QED  BY <1>1, <1>2, <4>1 DEF Touched, p
    <3>5. mem'[b] = m[o]  BY <1>2, <1>6, <3>2, <3>4 DEF kmemset
    <3> QED  BY <1>2, <2>1, <3>1, <3>2, <3>3, <3>5
  <2>2. CASE q # p
    <3> DEFINE a == to_header(q)
    <3>1. live'[q] = live[q] /\ q \in DOMAIN live /\ q # call.old  BY <1>9, <2>2
    <3>2. a \in DOMAIN heap /\ q = a + HEADER_SIZE /\ q = to_data(a)  BY <1>1, <3>1, PointerFacts
    <3>3. a # b /\ a \in DOMAIN h /\ ~heap[a].is_free
      BY <1>1, <1>2, <2>2, <3>1, <3>2 DEF p, Prepared, Ownership
    <3>4. m[a] = mem[a]  BY <3>2, <3>3 DEF Prepared
    <3>5. mem[a] = live[q].data  BY <1>1, <2>2, <3>1 DEF ContentsKept
    <3>6. CASE ~moving  BY <1>6, <3>1, <3>4, <3>5, <3>6
    <3>7. CASE moving
      <4>1. a \in Nat /\ h[a].block_size \in Nat  BY <1>15, <3>3
      <4>2. \/ a < b /\ a + HEADER_SIZE + h[a].block_size <= b
            \/ b < a /\ b + HEADER_SIZE + h[b].block_size <= a
        BY <1>2, <3>3, <4>1 DEF Prepared
      <4>3. h[o].block_size \in Nat /\ h[b].block_size \in Nat /\ h[o].block_size <= h[b].block_size
        BY <1>2, <1>3, <1>4, <1>15, <3>7, HeapConstants DEF Prepared, Call
      <4>4. p + h[o].block_size <= a + HEADER_SIZE \/ a + HEADER_SIZE + h[a].block_size <= p
        BY <1>1, <1>2, <4>1, <4>2, <4>3 DEF p
      <4>5. p \in Int /\ p + h[o].block_size \in Int  BY <1>2, <4>3
      <4>6. mem'[a] = m[a]  BY <1>6, <3>3, <3>7, <4>1, <4>4, <4>5, Untouching
      <4> QED  BY <3>1, <3>4, <3>5, <4>6
    <3> QED  BY <3>6, <3>7
  <2> QED  BY <2>1, <2>2
<1>18. FirstFit' /\ CallOK' /\ FirstIsKlog'
  <2>1. HEAP_PTR \in DOMAIN h /\ h[HEAP_PTR].next_ptr # NULL
    BY <1>1 DEF Tiling, Prepared
  <2>2. heap'[HEAP_PTR].next_ptr # NULL  BY <1>8, <2>1
  <2> QED  BY <1>6, <2>2 DEF FirstFit, CallOK, FirstIsKlog
<1> QED  BY <1>12, <1>14, <1>16, <1>17, <1>18 DEF IInv

-----------------------------------------------------------------------------
(* One lemma per group of actions.                                           *)

LEMMA InitInv == Init => IInv
<1> SUFFICES ASSUME Init PROVE IInv  OBVIOUS
<1>1. /\ DOMAIN heap = {} /\ DOMAIN mem = {} /\ DOMAIN live = {}
      /\ status = "off" /\ call = NULL /\ systemlog = NULL /\ himem \in HimemSizes
      /\ heap = [b \in DOMAIN heap |-> heap[b]] /\ mem = [b \in DOMAIN mem |-> mem[b]]
      /\ live = [b \in DOMAIN live |-> live[b]]
  BY DEF Init
<1>2. TypeOK  BY <1>1 DEF TypeOK
<1> QED
  BY <1>1, <1>2
  DEF IInv, Tiling, Ownership, ContentsKept, FirstFit, PrevBehind, CallOK, FirstIsKlog

LEMMA EnterFacts ==
  ASSUME NEW op, NEW n \in Sizes, NEW old
  PROVE  /\ Enter(op, n, old) = [op |-> op, req |-> n, size |-> RoundUp(n),
                                 old |-> old, at |-> HEAP_PTR]
         /\ RoundUp(n) \in 0 .. WORD - 1 /\ n <= RoundUp(n) /\ RoundUp(n) <= n + 3
         /\ RoundUp(n) + HEADER_SIZE + SPLIT_THRESHOLD < WORD
         /\ n \in Nat
<1>1. /\ n \in Nat /\ n + 3 + HEADER_SIZE + SPLIT_THRESHOLD < WORD
      /\ HEADER_SIZE \in Nat /\ SPLIT_THRESHOLD \in Nat /\ WORD \in Nat
  BY SizesNat, HeapFits, HeapConstants
<1>2. n + 3 < WORD  BY <1>1
<1>3. RoundUp(n) \in Nat /\ n <= RoundUp(n) /\ RoundUp(n) <= n + 3
  BY <1>1, <1>2, RoundUpSmall
<1> QED  BY <1>1, <1>3 DEF Enter

LEMMA EnterKeeps ==
  ASSUME IInv, Idle, NEW op, NEW n \in Sizes, NEW old,
         \/ op = "malloc" /\ old = NULL
         \/ op = "realloc" /\ old \in Owned /\ heap[to_header(old)].block_size < n,
         call' = Enter(op, n, old),
         UNCHANGED <<himem, status, heap, mem, systemlog, live>>
  PROVE  IInv'
<1>1. /\ TypeOK /\ Tiling /\ Ownership /\ ContentsKept /\ PrevBehind /\ FirstIsKlog
      /\ status = "up" /\ call = NULL
  BY DEF IInv, Idle
<1>2. HEAP_PTR \in DOMAIN heap  BY <1>1 DEF Tiling
<1>3. /\ call' = [op |-> op, req |-> n, size |-> RoundUp(n), old |-> old, at |-> HEAP_PTR]
      /\ RoundUp(n) \in 0 .. WORD - 1 /\ n <= RoundUp(n)
      /\ RoundUp(n) + HEADER_SIZE + SPLIT_THRESHOLD < WORD /\ n \in Nat /\ WORD \in Nat
      /\ NULL \notin Int
  BY EnterFacts, HeapConstants
<1>4. op \in {"klog", "malloc", "realloc"} /\ old \in DOMAIN live \cup {NULL}
  BY DEF Owned
<1>5. call' \in Call'
  BY <1>2, <1>3, <1>4 DEF Call, Sizes
<1>6. TypeOK'  BY <1>1, <1>5 DEF TypeOK, Sizes
<1>7. Tiling' /\ Ownership' /\ ContentsKept' /\ PrevBehind'
  BY <1>1 DEF Tiling, Ownership, ContentsKept, PrevBehind, End, HeapBytes
<1>8. FirstFit'
  <2>1. \A b \in DOMAIN heap : ~(b < HEAP_PTR)
    BY <1>1, BlockFacts DEF HEAP_PTR
  <2> QED  BY <1>1, <1>3, <2>1 DEF FirstFit
<1>9. CallOK'
  <2>1. op = "realloc" =>
          /\ old # NULL /\ old # systemlog
          /\ heap[to_header(old)].block_size < RoundUp(n)
    <3> SUFFICES ASSUME op = "realloc" PROVE /\ old # NULL /\ old # systemlog
                                             /\ heap[to_header(old)].block_size < RoundUp(n)
      OBVIOUS
    <3>1. old \in DOMAIN live /\ old # systemlog /\ heap[to_header(old)].block_size < n
      BY DEF Owned
    <3>2. to_header(old) \in DOMAIN heap /\ old = to_header(old) + HEADER_SIZE
      BY <1>1, <3>1, PointerFacts
    <3>3. to_header(old) \in Nat /\ heap[to_header(old)].block_size \in Nat
      BY <1>1, <3>2, BlockFacts
    <3> QED  BY <1>3, <3>1, <3>2, <3>3, HeapConstants
  <2>2. /\ call'.req <= call'.size /\ call'.size + HEADER_SIZE + SPLIT_THRESHOLD < WORD
        /\ call'.op = op /\ call'.old = old /\ call'.size = RoundUp(n)
    BY <1>3
  <2>3. op # "klog"  OBVIOUS
  <2> QED  BY <2>1, <2>2, <2>3 DEF CallOK
<1>10. FirstIsKlog'  BY <1>1 DEF FirstIsKlog
<1> QED  BY <1>6, <1>7, <1>8, <1>9, <1>10 DEF IInv

LEMMA MemoryInitKeeps == ASSUME IInv, memory_init PROVE IInv'
<1> DEFINE first == [next_ptr |-> NULL, prev_ptr |-> NULL, is_free |-> TRUE,
                     block_size |-> HeapBytes - HEADER_SIZE]
<1>1. /\ TypeOK /\ Tiling /\ status = "off" /\ DOMAIN heap = {} /\ DOMAIN live = {}
      /\ HEADER_SIZE \in Nat \ {0} /\ ELEMENT_SIZE \in Nat /\ WORD \in Nat /\ NULL \notin Int
      /\ ELEMENT_SIZE \in Sizes
  BY HeapConstants DEF IInv, memory_init, Tiling, TypeOK, Sizes
<1>2. HeapBytes \in Nat /\ HeapBytes < WORD /\ 2 * HEADER_SIZE + ELEMENT_SIZE + 3 <= HeapBytes
  BY <1>1, HeapBytesFacts
<1>3. Wrap(himem * KIB - HEADER_SIZE) = HeapBytes - HEADER_SIZE
  <2>1. HeapBytes - HEADER_SIZE \in Nat /\ HeapBytes - HEADER_SIZE < WORD  BY <1>1, <1>2
  <2> QED  BY <2>1, WrapSmall DEF HeapBytes
<1>4. /\ heap' = [b \in {HEAP_PTR} |-> first] /\ mem' = [b \in {HEAP_PTR} |-> NULL]
      /\ call' = [op |-> "klog", req |-> ELEMENT_SIZE, size |-> RoundUp(ELEMENT_SIZE),
                  old |-> NULL, at |-> HEAP_PTR]
      /\ status' = "up" /\ himem' = himem /\ systemlog' = systemlog /\ live' = live
      /\ call' # NULL
  BY <1>1, <1>3, EnterFacts, HeapFits DEF memory_init
<1>5. /\ RoundUp(ELEMENT_SIZE) \in 0 .. WORD - 1
      /\ ELEMENT_SIZE <= RoundUp(ELEMENT_SIZE) /\ RoundUp(ELEMENT_SIZE) <= ELEMENT_SIZE + 3
      /\ RoundUp(ELEMENT_SIZE) + HEADER_SIZE + SPLIT_THRESHOLD < WORD
  BY <1>1, EnterFacts
<1>6. HeapBytes' = HeapBytes  BY <1>4 DEF HeapBytes
<1>7. /\ DOMAIN heap' = {HEAP_PTR} /\ heap'[HEAP_PTR] = first
      /\ first \in Header({HEAP_PTR})
  <2>1. HeapBytes - HEADER_SIZE \in 0 .. WORD - 1  BY <1>1, <1>2
  <2>2. first \in Header({HEAP_PTR})  BY <2>1 DEF Header
  <2> QED  BY <1>4, <2>2
<1>8. TypeOK'
  <2>1. heap' \in [{HEAP_PTR} -> Header({HEAP_PTR})]
    <3> HIDE DEF first
    <3> QED  BY <1>4, <1>7
  <2>2. call' \in Call'
    BY <1>1, <1>4, <1>5, <1>7 DEF Call
  <2>3. mem' \in [{HEAP_PTR} -> Contents \cup {NULL}]  BY <1>4
  <2>4. HEAP_PTR \in 0 .. WORD - 1  BY <1>1, <1>2 DEF HEAP_PTR
  <2> QED  BY <1>1, <1>4, <1>7, <2>1, <2>2, <2>3, <2>4 DEF TypeOK, Sizes
<1>9. Tiling' /\ PrevBehind'
  <2>1. HEAP_PTR + HEADER_SIZE + first.block_size = HeapBytes  BY <1>1, <1>2 DEF HEAP_PTR
  <2> QED  BY <1>1, <1>2, <1>4, <1>6, <1>7, <2>1 DEF Tiling, PrevBehind, End, HEAP_PTR
<1>10. Ownership' /\ ContentsKept'  BY <1>1, <1>4, <1>7 DEF Ownership, ContentsKept
<1>11. FirstFit' /\ CallOK' /\ FirstIsKlog'
  BY <1>4, <1>5, <1>7 DEF FirstFit, CallOK, FirstIsKlog, HEAP_PTR
<1> QED  BY <1>8, <1>9, <1>10, <1>11 DEF IInv

LEMMA KreallocKeepKeeps ==
  ASSUME IInv, NEW p \in Owned, NEW n \in Requests, KreallocKeep(p, n) PROVE IInv'
<1>1. /\ TypeOK /\ Tiling /\ Ownership /\ ContentsKept /\ FirstFit /\ PrevBehind
      /\ CallOK /\ FirstIsKlog /\ status = "up" /\ call = NULL
      /\ p \in DOMAIN live /\ n \in Sizes
  BY DEF IInv, KreallocKeep, Idle, Owned, Sizes
<1>2. /\ heap[to_header(p)].block_size >= n
      /\ live' = [live EXCEPT ![p].size = n]
      /\ UNCHANGED <<himem, status, heap, mem, call, systemlog>>
  BY DEF KreallocKeep
<1>3. live[p] \in [size : Sizes, data : Contents \cup {NULL}]  BY <1>1 DEF TypeOK
<1>4. /\ DOMAIN live' = DOMAIN live
      /\ live' \in [DOMAIN live -> [size : Sizes, data : Contents \cup {NULL}]]
      /\ \A q \in DOMAIN live : live'[q].data = live[q].data
      /\ \A q \in DOMAIN live \ {p} : live'[q] = live[q]
      /\ live'[p].size = n
  <2> DEFINE r == [live[p] EXCEPT !.size = n]
  <2>1. r \in [size : Sizes, data : Contents \cup {NULL}] /\ r.size = n /\ r.data = live[p].data
    BY <1>1, <1>3
  <2>2. live' = [live EXCEPT ![p] = r]  BY <1>2
  <2>3. live \in [DOMAIN live -> [size : Sizes, data : Contents \cup {NULL}]]  BY <1>1 DEF TypeOK
  <2> HIDE DEF r
  <2> QED  BY <1>1, <2>1, <2>2, <2>3
<1>5. TypeOK'  BY <1>1, <1>2, <1>4 DEF TypeOK, Sizes
<1>6. Tiling' /\ FirstFit' /\ PrevBehind' /\ CallOK' /\ FirstIsKlog'
  BY <1>1, <1>2 DEF Tiling, FirstFit, PrevBehind, CallOK, FirstIsKlog, End, HeapBytes
<1>7. Ownership'
  <2>1. n <= heap[to_header(p)].block_size
    <3>1. to_header(p) \in DOMAIN heap  BY <1>1, PointerFacts
    <3>2. heap[to_header(p)].block_size \in Nat  BY <1>1, <3>1, BlockFacts
    <3> QED  BY <1>1, <1>2, <3>2, SizesNat
  <2> QED  BY <1>1, <1>2, <1>4, <2>1 DEF Ownership
<1>8. ContentsKept'  BY <1>1, <1>2, <1>4 DEF ContentsKept
<1> QED  BY <1>5, <1>6, <1>7, <1>8 DEF IInv

LEMMA KfreeKeeps == ASSUME IInv, NEW p \in Owned, Kfree(p) PROVE IInv'
<1> DEFINE b == to_header(p)
<1>1. /\ TypeOK /\ Tiling /\ Ownership /\ ContentsKept /\ FirstFit /\ PrevBehind
      /\ CallOK /\ FirstIsKlog /\ status = "up" /\ call = NULL
      /\ p \in DOMAIN live /\ p # systemlog
  BY DEF IInv, Kfree, Idle, Owned
<1>2. /\ heap' = Mark(heap, b, TRUE)
      /\ live' = [q \in DOMAIN live \ {p} |-> live[q]]
      /\ UNCHANGED <<himem, status, mem, call, systemlog>>
  BY DEF Kfree
<1>3. b \in DOMAIN heap /\ p = to_data(b) /\ p = b + HEADER_SIZE  BY <1>1, PointerFacts
<1> HIDE DEF b
<1>4. heap \in [DOMAIN heap -> Header(DOMAIN heap)]  BY <1>1 DEF TypeOK
<1>5. SameButFlag(heap, heap', b) /\ heap'[b].is_free
  BY <1>2, <1>3, <1>4, Marking, MarkedFree
<1>6. /\ DOMAIN live' = DOMAIN live \ {p}
      /\ \A q \in DOMAIN live' : live'[q] = live[q]
      /\ live' = [q \in DOMAIN live' |-> live'[q]]
  BY <1>2
<1>7. TypeOK'
  <2>1. \A q \in DOMAIN live' : live'[q] \in [size : Sizes, data : Contents \cup {NULL}]
    BY <1>1, <1>6 DEF TypeOK
  <2>2. live' \in [DOMAIN live' -> [size : Sizes, data : Contents \cup {NULL}]]
    BY <1>6, <2>1
  <2> QED  BY <1>1, <1>2, <1>5, <1>6, <2>2 DEF TypeOK, SameButFlag, Sizes
<1>8. Tiling' /\ PrevBehind'
  <2>1. HeapBytes' = HeapBytes /\ status' # "off"  BY <1>1, <1>2 DEF HeapBytes
  <2>2. /\ DOMAIN heap' = DOMAIN heap
        /\ \A a \in DOMAIN heap : /\ heap'[a].next_ptr = heap[a].next_ptr
                                  /\ heap'[a].prev_ptr = heap[a].prev_ptr
                                  /\ heap'[a].block_size = heap[a].block_size
    BY <1>5 DEF SameButFlag
  <2>3. Tiling'  BY <1>1, <2>1, <2>2 DEF Tiling, End
  <2>4. PrevBehind'  BY <1>1, <2>2 DEF PrevBehind
  <2> QED  BY <2>3, <2>4
<1>9. Ownership'
  <2>1. ASSUME NEW a \in DOMAIN heap
        PROVE  heap'[a].is_free <=> to_data(a) \notin DOMAIN live'
    <3>1. CASE a = b  BY <1>3, <1>5, <1>6, <3>1
    <3>2. CASE a # b
      <4>1. to_data(a) # p
        <5>1. a \in Nat /\ b \in Nat /\ to_data(a) = a + HEADER_SIZE
          BY <1>1, <1>3, BlockFacts
        <5> QED  BY <1>3, <3>2, <5>1, HeapConstants
      <4>2. heap'[a].is_free = heap[a].is_free  BY <1>5, <3>2 DEF SameButFlag
      <4> QED  BY <1>1, <1>6, <4>1, <4>2 DEF Ownership
    <3> QED  BY <3>1, <3>2
  <2>2. ASSUME NEW q \in DOMAIN live'
        PROVE  live'[q].size <= heap'[to_header(q)].block_size
    <3>1. q \in DOMAIN live /\ live'[q] = live[q]  BY <1>6
    <3>2. to_header(q) \in DOMAIN heap  BY <1>1, <3>1, PointerFacts
    <3> QED  BY <1>1, <1>5, <3>1, <3>2 DEF Ownership, SameButFlag
  <2> QED  BY <1>5, <2>1, <2>2 DEF Ownership, SameButFlag
<1>10. ContentsKept'  BY <1>1, <1>2, <1>6 DEF ContentsKept
<1>11. FirstFit' /\ CallOK'  BY <1>1, <1>2 DEF FirstFit, CallOK
<1>12. FirstIsKlog'
  <2>1. heap[HEAP_PTR].next_ptr # NULL  BY <1>1 DEF FirstIsKlog
  <2>2. HEAP_PTR \in DOMAIN heap  BY <1>1 DEF Tiling
  <2> QED  BY <1>5, <2>1, <2>2 DEF FirstIsKlog, SameButFlag
<1> QED  BY <1>7, <1>8, <1>9, <1>10, <1>11, <1>12 DEF IInv

LEMMA WriteKeeps ==
  ASSUME IInv, NEW p \in Owned, NEW v \in Contents, Write(p, v) PROVE IInv'
<1> DEFINE b == to_header(p)
<1>1. /\ TypeOK /\ Tiling /\ Ownership /\ ContentsKept /\ FirstFit /\ PrevBehind
      /\ CallOK /\ FirstIsKlog /\ status = "up" /\ call = NULL
      /\ p \in DOMAIN live /\ HEADER_SIZE \in Nat \ {0}
  BY HeapConstants DEF IInv, Write, Idle, Owned
<1>2. /\ mem' = kmemset(heap, mem, p, p + live[p].size, v)
      /\ live' = [live EXCEPT ![p].data = v]
      /\ UNCHANGED <<himem, status, heap, call, systemlog>>
  BY DEF Write
<1>3. /\ b \in DOMAIN heap /\ p = to_data(b) /\ p = b + HEADER_SIZE
      /\ live[p] \in [size : Sizes, data : Contents \cup {NULL}]
  BY <1>1, PointerFacts
<1>4. /\ b \in Nat /\ heap[b].block_size \in Nat /\ live[p].size <= heap[b].block_size
      /\ live[p].size \in Nat \ {0}
  BY <1>1, <1>3, BlockFacts, SizesNat DEF Ownership
<1> HIDE DEF b
<1>5. /\ DOMAIN live' = DOMAIN live
      /\ live' \in [DOMAIN live -> [size : Sizes, data : Contents \cup {NULL}]]
      /\ \A q \in DOMAIN live : live'[q].size = live[q].size
      /\ \A q \in DOMAIN live \ {p} : live'[q] = live[q]
      /\ live'[p].data = v
  <2> DEFINE r == [live[p] EXCEPT !.data = v]
  <2>1. r \in [size : Sizes, data : Contents \cup {NULL}] /\ r.data = v /\ r.size = live[p].size
    BY <1>3
  <2>2. live' = [live EXCEPT ![p] = r]  BY <1>2
  <2>3. live \in [DOMAIN live -> [size : Sizes, data : Contents \cup {NULL}]]  BY <1>1 DEF TypeOK
  <2> HIDE DEF r
  <2> QED  BY <1>1, <2>1, <2>2, <2>3
<1>6. mem' \in [DOMAIN heap -> Contents \cup {NULL}]
  BY <1>1, <1>2, KmemsetType DEF TypeOK
<1>7. TypeOK'  BY <1>1, <1>2, <1>5, <1>6 DEF TypeOK, Sizes
<1>8. Tiling' /\ FirstFit' /\ PrevBehind' /\ CallOK' /\ FirstIsKlog'
  BY <1>1, <1>2 DEF Tiling, FirstFit, PrevBehind, CallOK, FirstIsKlog, End, HeapBytes
<1>9. Ownership'  BY <1>1, <1>2, <1>5 DEF Ownership
<1>10. ContentsKept'
  <2> SUFFICES ASSUME NEW q \in DOMAIN live, live'[q].data # NULL
               PROVE  mem'[to_header(q)] = live'[q].data
    BY <1>5 DEF ContentsKept
  <2>1. CASE q = p
    <3>1. b \in Touched(heap, p, p + live[p].size)
      BY <1>1, <1>3, <1>4 DEF Touched
    <3>2. mem'[b] = v  BY <1>2, <1>3, <3>1 DEF kmemset
    <3> QED  BY <1>5, <2>1, <3>2 DEF b
  <2>2. CASE q # p
    <3> DEFINE a == to_header(q)
    <3>1. a \in DOMAIN heap /\ q = a + HEADER_SIZE  BY <1>1, PointerFacts
    <3>2. a \in Nat /\ heap[a].block_size \in Nat /\ a # b
      BY <1>1, <1>3, <2>2, <3>1, BlockFacts
    <3>3. \/ a < b /\ a + HEADER_SIZE + heap[a].block_size <= b
          \/ b < a /\ b + HEADER_SIZE + heap[b].block_size <= a
      BY <1>1, <1>3, <3>1, <3>2, BlocksApart DEF End
    <3> HIDE DEF a
    <3>4. p + live[p].size <= a + HEADER_SIZE \/ a + HEADER_SIZE + heap[a].block_size <= p
      BY <1>1, <1>3, <1>4, <3>2, <3>3
    <3>5. p \in Int /\ p + live[p].size \in Int  BY <1>1, <1>3, <1>4
    <3>6. mem'[a] = mem[a]  BY <1>2, <3>1, <3>2, <3>4, <3>5, Untouching
    <3>7. live'[q] = live[q]  BY <1>5, <2>2
    <3> QED  BY <1>1, <3>6, <3>7 DEF ContentsKept, a
  <2> QED  BY <2>1, <2>2
<1> QED  BY <1>7, <1>8, <1>9, <1>10 DEF IInv

LEMMA NextBlockKeeps == ASSUME IInv, NextBlock PROVE IInv'
<1>1. /\ TypeOK /\ Tiling /\ Ownership /\ ContentsKept /\ FirstFit /\ PrevBehind
      /\ CallOK /\ FirstIsKlog /\ status = "up" /\ call # NULL
      /\ ~Suits(heap, call.at, call.size)
  BY DEF IInv, NextBlock, Skipped, Walking
<1> DEFINE next == heap[call.at].next_ptr
<1>2. /\ call' = [call EXCEPT !.at = next] /\ next # NULL
      /\ UNCHANGED <<himem, status, heap, mem, systemlog, live>>
  BY DEF NextBlock
<1>3. call \in Call /\ call.at \in DOMAIN heap  BY <1>1 DEF TypeOK, Call
<1>4. next \in DOMAIN heap /\ next = End(call.at)
  BY <1>1, <1>2, <1>3 DEF TypeOK, Header, Tiling
<1> HIDE DEF next
<1>5. /\ call' \in Call' /\ call'.at = next /\ call'.op = call.op /\ call'.req = call.req
      /\ call'.size = call.size /\ call'.old = call.old
  BY <1>2, <1>3, <1>4 DEF Call
<1>6. TypeOK'  BY <1>1, <1>2, <1>5 DEF TypeOK, Sizes
<1>7. Tiling' /\ Ownership' /\ ContentsKept' /\ PrevBehind'
  BY <1>1, <1>2 DEF Tiling, Ownership, ContentsKept, PrevBehind, End, HeapBytes
<1>8. ASSUME NEW b \in DOMAIN heap, b < next PROVE ~Suits(heap, b, call.size)
  <2>1. b \in Nat /\ call.at \in Nat /\ heap[b].block_size \in Nat /\ End(b) \in Nat
    BY <1>1, <1>3, BlockFacts
  <2>2. CASE b < call.at  BY <1>1, <2>2 DEF FirstFit
  <2>3. CASE b = call.at  BY <1>1, <2>3
  <2>4. CASE b > call.at
    <3>1. next <= b  BY <1>1, <1>3, <1>4, <2>4 DEF Tiling
    <3>2. next \in Nat  BY <1>1, <1>4, BlockFacts
    <3> QED  BY <1>8, <2>1, <3>1, <3>2
  <2> QED  BY <2>1, <2>2, <2>3, <2>4
<1>9. FirstFit'  BY <1>1, <1>2, <1>5, <1>8 DEF FirstFit, Suits
<1>10. CallOK'  BY <1>1, <1>2, <1>5 DEF CallOK
<1>11. FirstIsKlog'
  <2>1. heap[HEAP_PTR].next_ptr # NULL
    <3>1. ASSUME heap[HEAP_PTR].next_ptr = NULL PROVE FALSE
      <4>1. call.at = HEAP_PTR  BY <1>1, <1>3, <3>1, OnlyBlock
      <4> QED  BY <1>2, <3>1, <4>1 DEF next
    <3> QED  BY <3>1
  <2> QED  BY <1>2, <2>1 DEF FirstIsKlog
<1> QED  BY <1>6, <1>7, <1>9, <1>10, <1>11 DEF IInv

\* FirstIsKlog and HeapFits leave kmalloc's special case for an empty heap
\* with a block that is large enough.
LEMMA UntouchedFits ==
  ASSUME IInv, status = "up", call # NULL, heap[HEAP_PTR].next_ptr = NULL
  PROVE  /\ call.at = HEAP_PTR /\ Untouched
         /\ call.size + HEADER_SIZE <= heap[HEAP_PTR].block_size
<1>1. /\ TypeOK /\ Tiling /\ CallOK /\ FirstIsKlog
      /\ HEADER_SIZE \in Nat \ {0} /\ ELEMENT_SIZE \in Nat
  BY HeapConstants DEF IInv
<1>2. call.at \in DOMAIN heap /\ call.size \in 0 .. WORD - 1 /\ WORD \in Nat
  BY <1>1, HeapConstants DEF TypeOK, Call
<1>3. call.at = HEAP_PTR  BY <1>2, OnlyBlock
<1>4. heap[HEAP_PTR].is_free /\ call.op = "klog"  BY <1>1 DEF FirstIsKlog
<1>5. call.size <= ELEMENT_SIZE + 3  BY <1>1, <1>4 DEF CallOK
<1>6. End(HEAP_PTR) = HeapBytes /\ HEAP_PTR \in DOMAIN heap  BY <1>1 DEF Tiling
<1>7. 2 * HEADER_SIZE + ELEMENT_SIZE + 3 <= HeapBytes /\ HeapBytes \in Nat
  BY <1>1, HeapBytesFacts
<1>8. heap[HEAP_PTR].block_size \in Nat  BY <1>1, <1>6, BlockFacts
<1>9. call.size + HEADER_SIZE <= heap[HEAP_PTR].block_size
  BY <1>1, <1>2, <1>5, <1>6, <1>7, <1>8 DEF End, HEAP_PTR
<1> QED  BY <1>3, <1>4, <1>9 DEF Untouched

LEMMA OutOfMemoryKeeps == ASSUME IInv, OutOfMemory PROVE IInv'
<1>1. /\ TypeOK /\ Tiling /\ Ownership /\ ContentsKept /\ FirstFit /\ PrevBehind
      /\ CallOK /\ FirstIsKlog /\ status = "up" /\ call # NULL
      /\ ~Suits(heap, call.at, call.size) /\ ~Untouched
      /\ heap[call.at].next_ptr = NULL
      /\ status' = "halted" /\ UNCHANGED <<himem, heap, mem, call, systemlog, live>>
  BY DEF IInv, OutOfMemory, Skipped, Walking
<1>2. TypeOK'  BY <1>1 DEF TypeOK, Call, Sizes
<1>3. Tiling' /\ Ownership' /\ ContentsKept' /\ PrevBehind' /\ CallOK'
  BY <1>1 DEF Tiling, Ownership, ContentsKept, PrevBehind, CallOK, End, HeapBytes
<1>4. call.at \in DOMAIN heap  BY <1>1 DEF TypeOK, Call
<1>5. ASSUME NEW b \in DOMAIN heap PROVE ~Suits(heap, b, call.size)
  <2>1. /\ b \in Nat /\ call.at \in Nat /\ End(b) \in Nat /\ End(b) <= HeapBytes
        /\ heap[b].block_size \in Nat /\ HeapBytes \in Nat
    BY <1>1, <1>4, BlockFacts, HeapBytesFacts
  <2>2. CASE b < call.at  BY <1>1, <2>2 DEF FirstFit
  <2>3. CASE b = call.at  BY <1>1, <2>3
  <2>4. CASE b > call.at
    <3>1. End(call.at) = HeapBytes /\ End(call.at) <= b  BY <1>1, <1>4, <2>4 DEF Tiling
    <3>2. End(b) > b  BY <2>1, HeapConstants DEF End
    <3> QED  BY <2>1, <3>1, <3>2
  <2> QED  BY <2>1, <2>2, <2>3, <2>4
<1>6. FirstFit'  BY <1>1, <1>5 DEF FirstFit, Suits
<1>7. FirstIsKlog'
  <2>1. heap[HEAP_PTR].next_ptr # NULL  BY <1>1, UntouchedFits
  <2> QED  BY <1>1, <2>1 DEF FirstIsKlog
<1> QED  BY <1>2, <1>3, <1>6, <1>7 DEF IInv

LEMMA FirstAllocationPrepares ==
  ASSUME IInv, FirstAllocation
  PROVE  Prepared(splitblock(heap, call.at, call.size),
                  SplitData(heap, mem, call.at, call.size), call.at)
<1>1. /\ TypeOK /\ Tiling /\ status = "up" /\ call # NULL /\ Untouched
  BY DEF IInv, FirstAllocation, Walking
<1>2. /\ call.at = HEAP_PTR /\ heap[HEAP_PTR].is_free /\ HEAP_PTR \in DOMAIN heap
      /\ call.size + HEADER_SIZE <= heap[HEAP_PTR].block_size
  BY <1>1, UntouchedFits DEF Untouched, Tiling
<1>3. call.size \in Nat  BY <1>1, HeapConstants DEF TypeOK, Call
<1> QED  BY <1>1, <1>2, <1>3, SplitPrepares

LEMMA TakePartPrepares ==
  ASSUME IInv, TakePart
  PROVE  Prepared(splitblock(heap, call.at, call.size),
                  SplitData(heap, mem, call.at, call.size), call.at)
<1>1. /\ TypeOK /\ Tiling /\ CallOK /\ call # NULL
      /\ Suits(heap, call.at, call.size) /\ WorthSplitting(heap, call.at, call.size)
  BY DEF IInv, TakePart, Found, Walking
<1>2. call.at \in DOMAIN heap /\ call.size \in 0 .. WORD - 1 /\ WORD \in Nat
  BY <1>1, HeapConstants DEF TypeOK, Call
<1>3. call.size \in Nat /\ HEADER_SIZE \in Nat /\ SPLIT_THRESHOLD \in Nat
      /\ heap[call.at].block_size \in Nat
  BY <1>1, <1>2, HeapConstants, BlockFacts
<1>4. Wrap(call.size + HEADER_SIZE + SPLIT_THRESHOLD) = call.size + HEADER_SIZE + SPLIT_THRESHOLD
  BY <1>1, <1>3, WrapSmall DEF CallOK
<1>5. call.size + HEADER_SIZE <= heap[call.at].block_size
  BY <1>1, <1>3, <1>4 DEF WorthSplitting
<1>6. heap[call.at].is_free  BY <1>1 DEF Suits
<1> QED  BY <1>1, <1>2, <1>3, <1>5, <1>6, SplitPrepares

LEMMA TakeWholePrepares ==
  ASSUME IInv, TakeWhole
  PROVE  Prepared(Mark(heap, call.at, FALSE), mem, call.at)
<1>1. /\ TypeOK /\ call # NULL /\ ~Untouched /\ status = "up"
      /\ Suits(heap, call.at, call.size)
  BY DEF IInv, TakeWhole, Found, Walking
<1>2. call.at \in DOMAIN heap  BY <1>1 DEF TypeOK, Call
<1>3. heap[HEAP_PTR].next_ptr # NULL  BY <1>1, UntouchedFits
<1> QED  BY <1>1, <1>2, <1>3, WholePrepares DEF Suits

-----------------------------------------------------------------------------
LEMMA StepKeeps == IInv /\ [Next]_vars => IInv'
<1> SUFFICES ASSUME IInv, [Next]_vars PROVE IInv'  OBVIOUS
<1>1. CASE memory_init  BY <1>1, MemoryInitKeeps
<1>2. ASSUME NEW n \in Requests, Malloc(n) PROVE IInv'
  <2>1. n \in Sizes  BY DEF Sizes
  <2> QED  BY <1>2, <2>1, EnterKeeps DEF Malloc
<1>3. ASSUME NEW p \in Owned, NEW n \in Requests, KreallocGrow(p, n) PROVE IInv'
  <2>1. n \in Sizes  BY DEF Sizes
  <2> QED  BY <1>3, <2>1, EnterKeeps DEF KreallocGrow
<1>4. ASSUME NEW p \in Owned, NEW n \in Requests, KreallocKeep(p, n) PROVE IInv'
  BY <1>4, KreallocKeepKeeps
<1>5. ASSUME NEW p \in Owned, Kfree(p) PROVE IInv'  BY <1>5, KfreeKeeps
<1>6. ASSUME NEW p \in Owned, NEW v \in Contents, Write(p, v) PROVE IInv'
  BY <1>6, WriteKeeps
<1>7. CASE FirstAllocation
  BY <1>7, FirstAllocationPrepares, ReturnKeeps DEF FirstAllocation, Walking
<1>8. CASE NextBlock  BY <1>8, NextBlockKeeps
<1>9. CASE OutOfMemory  BY <1>9, OutOfMemoryKeeps
<1>10. CASE TakePart
  BY <1>10, TakePartPrepares, ReturnKeeps DEF TakePart, Found, Walking
<1>11. CASE TakeWhole
  BY <1>11, TakeWholePrepares, ReturnKeeps DEF TakeWhole, Found, Walking
<1>12. CASE Haltdump \/ UNCHANGED vars
  BY <1>12
  DEF Haltdump, vars, IInv, TypeOK, Call, Sizes, Tiling, Ownership, ContentsKept, FirstFit,
      PrevBehind, CallOK, FirstIsKlog, End, HeapBytes
<1> QED
  BY <1>1, <1>2, <1>3, <1>4, <1>5, <1>6, <1>7, <1>8, <1>9, <1>10, <1>11, <1>12
  DEF Next, Kmalloc

THEOREM Inductive == Spec => []IInv
<1>1. IInv /\ [Next]_vars => IInv'  BY StepKeeps
<1> QED  BY InitInv, <1>1, PTL DEF Spec

-----------------------------------------------------------------------------
(* What follows for every run of the heap.                                   *)

\* Header pointers always name headers, and owners hold data pointers.
THEOREM TypeSafe == Spec => []TypeOK
BY Inductive, PTL DEF IInv

\* memory_init and splitblock keep the blocks in address order, with no gap
\* and no overlap, from HEAP_START to the end of high memory.
THEOREM BlocksTile == Spec => []Tiling
BY Inductive, PTL DEF IInv

\* kmalloc, krealloc and kfree never hand a block out twice, never give one
\* too small for the request and never lose one.
THEOREM BlocksOwned == Spec => []Ownership
BY Inductive, PTL DEF IInv

\* What an owner stored is what it reads, whatever the others do and wherever
\* krealloc moves it.
THEOREM ContentsSafe == Spec => []ContentsKept
BY Inductive, PTL DEF IInv

\* kmalloc gives up only when no block can hold the request.
THEOREM GivesUpOnlyWhenFull == Spec => []FirstFit
BY Inductive, PTL DEF IInv

\* Following prev_ptr ends at HEAP_PTR.
THEOREM PrevDescends == Spec => []PrevBehind
BY Inductive, PTL DEF IInv

-----------------------------------------------------------------------------
(* Blocks in use stay as they are.                                           *)

LEMMA ReturnStays ==
  ASSUME IInv, call # NULL, NEW h, NEW m, NEW b, Prepared(h, m, b), Return(h, m, b),
         NEW a \in DOMAIN heap, ~heap[a].is_free
  PROVE  StaysInUse(a)
<1> DEFINE o == to_header(call.old)
<1>1. a # b /\ a \in DOMAIN h /\ h[a] = heap[a]  BY DEF Prepared
<1>2. h \in [DOMAIN h -> Header(DOMAIN h)]  BY DEF Prepared
<1>3. CASE call.op = "realloc"
  <2>1. heap' = Mark(h, o, TRUE)  BY <1>3 DEF Return
  <2>2. TypeOK /\ Tiling /\ CallOK /\ call \in Call  BY DEF IInv, TypeOK
  <2>3. call.old \in DOMAIN live  BY <1>3, <2>2 DEF CallOK, Call
  <2>4. o \in DOMAIN heap  BY <2>2, <2>3, PointerFacts
  <2>5. o \in DOMAIN h  BY <2>4 DEF Prepared
  <2> HIDE DEF o
  <2>6. SameButFlag(h, heap', o)  BY <1>2, <2>1, <2>5, Marking
  <2>7. CASE a = o  BY <1>1, <2>1, <2>5, <2>6, <2>7 DEF StaysInUse, Mark, SameButFlag
  <2>8. CASE a # o  BY <1>1, <2>6, <2>8 DEF StaysInUse, SameButFlag
  <2> QED  BY <2>7, <2>8
<1>4. CASE call.op # "realloc"
  <2>1. heap' = h  BY <1>4 DEF Return
  <2> QED  BY <1>1, <2>1 DEF StaysInUse
<1> QED  BY <1>3, <1>4

\* kmalloc, kfree and krealloc never resize, move or relink a block in use.
THEOREM UsedBlocksSafe == Spec => UsedBlocksStay
<1>1. ASSUME IInv, [Next]_vars, NEW a \in DOMAIN heap, ~heap[a].is_free PROVE StaysInUse(a)
  <2>1. CASE UNCHANGED heap  BY <1>1, <2>1 DEF StaysInUse
  <2>2. CASE memory_init
    <3>1. DOMAIN heap = {}  BY <1>1, <2>2 DEF IInv, Tiling, memory_init
    <3> QED  BY <1>1, <3>1
  <2>3. ASSUME NEW p \in Owned, Kfree(p) PROVE StaysInUse(a)
    <3> DEFINE b == to_header(p)
    <3>1. TypeOK /\ Tiling /\ p \in DOMAIN live  BY <1>1 DEF IInv, Owned
    <3>2. b \in DOMAIN heap  BY <3>1, PointerFacts
    <3>3. heap' = Mark(heap, b, TRUE)  BY <2>3 DEF Kfree
    <3> HIDE DEF b
    <3>4. SameButFlag(heap, heap', b)  BY <3>1, <3>2, <3>3, Marking DEF TypeOK
    <3>5. CASE a = b  BY <3>2, <3>3, <3>4, <3>5 DEF StaysInUse, Mark, SameButFlag
    <3>6. CASE a # b  BY <1>1, <3>4, <3>6 DEF StaysInUse, SameButFlag
    <3> QED  BY <3>5, <3>6
  <2>4. CASE FirstAllocation
    BY <1>1, <2>4, FirstAllocationPrepares, ReturnStays DEF FirstAllocation, Walking
  <2>5. CASE TakePart
    BY <1>1, <2>5, TakePartPrepares, ReturnStays DEF TakePart, Found, Walking
  <2>6. CASE TakeWhole
    BY <1>1, <2>6, TakeWholePrepares, ReturnStays DEF TakeWhole, Found, Walking
  <2>7. CASE NextBlock \/ OutOfMemory \/ Haltdump \/ UNCHANGED vars
    BY <2>1, <2>7 DEF NextBlock, OutOfMemory, Haltdump, vars
  <2>8. ASSUME NEW n \in Requests, Malloc(n) PROVE StaysInUse(a)  BY <2>1, <2>8 DEF Malloc
  <2>9. ASSUME NEW p \in Owned, NEW n \in Requests, KreallocGrow(p, n) \/ KreallocKeep(p, n)
        PROVE  StaysInUse(a)
    BY <2>1, <2>9 DEF KreallocGrow, KreallocKeep
  <2>10. ASSUME NEW p \in Owned, NEW v \in Contents, Write(p, v) PROVE StaysInUse(a)
    BY <2>1, <2>10 DEF Write
  <2> QED  BY <1>1, <2>2, <2>3, <2>4, <2>5, <2>6, <2>7, <2>8, <2>9, <2>10 DEF Next, Kmalloc
<1>2. IInv /\ [Next]_vars => [StepKeepsUsed]_vars  BY <1>1 DEF StepKeepsUsed
<1> QED  BY <1>2, Inductive, PTL DEF Spec, UsedBlocksStay

-----------------------------------------------------------------------------
(* The heap implements the store of module HeapStore.                        *)

LEMMA ReadsBack ==
  ASSUME NEW L, NEW M, L \in [DOMAIN L -> [size : Sizes, data : Contents \cup {NULL}]],
         \A p \in DOMAIN L : L[p].data # NULL => M[to_header(p)] = L[p].data
  PROVE  [p \in DOMAIN L |->
            [size |-> L[p].size,
             data |-> IF L[p].data = NULL THEN NULL ELSE M[to_header(p)]]] = L
<1> DEFINE R == [p \in DOMAIN L |->
            [size |-> L[p].size,
             data |-> IF L[p].data = NULL THEN NULL ELSE M[to_header(p)]]]
<1>1. L = [p \in DOMAIN L |-> L[p]]  OBVIOUS
<1>2. ASSUME NEW p \in DOMAIN L PROVE L[p] = R[p]
  <2>1. L[p] \in [size : Sizes, data : Contents \cup {NULL}]  OBVIOUS
  <2>2. L[p] = [size |-> L[p].size, data |-> L[p].data]  BY <2>1
  <2>3. L[p].data = IF L[p].data = NULL THEN NULL ELSE M[to_header(p)]  OBVIOUS
  <2> QED  BY <2>2, <2>3
<1>3. R = [p \in DOMAIN L |-> R[p]]  OBVIOUS
<1> HIDE DEF R
<1>4. R = L  BY <1>1, <1>2, <1>3
<1> QED  BY <1>4 DEF R

\* What callers would read is what they last stored.
LEMMA RegionsAreLive == (IInv => Regions = live) /\ (IInv' => Regions' = live')
<1>1. ASSUME IInv PROVE Regions = live
  BY <1>1, ReadsBack DEF IInv, TypeOK, ContentsKept, Regions
<1>2. ASSUME IInv' PROVE Regions' = live'
  BY <1>2, ReadsBack DEF IInv, TypeOK, ContentsKept, Regions, Sizes
<1> QED  BY <1>1, <1>2

LEMMA InitImplements == Init => Store!StoreInit
<1> SUFFICES ASSUME Init PROVE Store!StoreInit  OBVIOUS
<1>1. HeapBytes \in {h * KIB : h \in HimemSizes}  BY DEF Init, HeapBytes
<1>2. status = "off" /\ DOMAIN live = {}  BY DEF Init
<1>3. Regions = [p \in {} |-> NULL]  BY <1>2 DEF Regions
<1> QED  BY <1>1, <1>2, <1>3 DEF Store!StoreInit

\* The block kmalloc returns meets no region handed out and ends in high memory.
LEMMA ReturnFits ==
  ASSUME IInv, status = "up", call # NULL,
         NEW h, NEW m, NEW b, Prepared(h, m, b), Return(h, m, b)
  PROVE  LET p == to_data(b) IN
         /\ p \notin DOMAIN live /\ p \in 0 .. HeapBytes
         /\ Store!Fits(live, p, call.req)
<1> DEFINE p == to_data(b)
<1>1. /\ TypeOK /\ Tiling /\ Ownership /\ CallOK /\ call \in Call
      /\ HEADER_SIZE \in Nat \ {0} /\ WORD \in Nat
  BY HeapConstants DEF IInv, TypeOK
<1>2. /\ b \in DOMAIN heap /\ b \in DOMAIN h /\ heap[b].is_free
      /\ call.size <= h[b].block_size /\ b + HEADER_SIZE + h[b].block_size <= HeapBytes
  BY DEF Prepared
<1>3. b \in Nat /\ p = b + HEADER_SIZE /\ HeapBytes \in Nat
  BY <1>1, <1>2, BlockFacts, HeapBytesFacts
<1>4. /\ call.req \in Nat /\ call.size \in Nat /\ call.req <= call.size
      /\ h[b].block_size \in Nat
  <2>1. call.req \in Sizes /\ call.size \in 0 .. WORD - 1  BY <1>1 DEF Call, Sizes
  <2>2. h[b] \in Header(DOMAIN h)  BY <1>2 DEF Prepared
  <2>3. h[b].block_size \in 0 .. WORD - 1  BY <2>2 DEF Header
  <2>4. call.req \in Nat  BY <2>1, SizesNat
  <2>5. call.req <= call.size  BY <1>1 DEF CallOK
  <2> QED  BY <1>1, <2>1, <2>3, <2>4, <2>5
<1>5. p \notin DOMAIN live  BY <1>1, <1>2 DEF Ownership
<1> HIDE DEF p
<1>6. p >= 0 /\ p + call.req <= HeapBytes /\ p \in 0 .. HeapBytes
  BY <1>1, <1>2, <1>3, <1>4
<1>7. ASSUME NEW q \in DOMAIN live
      PROVE  p + call.req <= q \/ q + live[q].size <= p
  <2> DEFINE a == to_header(q)
  <2>1. a \in DOMAIN heap /\ q = a + HEADER_SIZE /\ live[q].size \in Sizes
    BY <1>1, PointerFacts
  <2>2. a \in Nat /\ heap[a].block_size \in Nat /\ live[q].size <= heap[a].block_size
        /\ live[q].size \in Nat
    BY <1>1, <2>1, BlockFacts, SizesNat DEF Ownership
  <2>3. a # b  BY <1>3, <1>5, <2>1
  <2> HIDE DEF a
  <2>4. a \in DOMAIN h /\ h[a] = heap[a]  BY <2>1, <2>3 DEF Prepared
  <2>5. \/ a < b /\ a + HEADER_SIZE + h[a].block_size <= b
        \/ b < a /\ b + HEADER_SIZE + h[b].block_size <= a
    BY <1>2, <1>3, <2>2, <2>3, <2>4 DEF Prepared
  <2> QED  BY <1>1, <1>2, <1>3, <1>4, <2>1, <2>2, <2>4, <2>5
<1>8. Store!Fits(live, p, call.req)  BY <1>6, <1>7 DEF Store!Fits, Store!Disjoint
<1> QED  BY <1>5, <1>6, <1>8 DEF p

LEMMA ReturnImplements ==
  ASSUME IInv, IInv', status = "up", call # NULL,
         NEW h, NEW m, NEW b, Prepared(h, m, b), Return(h, m, b)
  PROVE  Store!StoreNext
<1> DEFINE p == to_data(b)
<1>1. /\ p \notin DOMAIN live /\ p \in 0 .. HeapBytes /\ Store!Fits(live, p, call.req)
  BY ReturnFits
<1>2. /\ Regions = live /\ Regions' = live' /\ HeapBytes' = HeapBytes
      /\ status' = status
  BY RegionsAreLive DEF Return, HeapBytes
<1>3. CallOK /\ call \in Call /\ call.req \in Sizes  BY DEF IInv, TypeOK, Call, Sizes
<1>4. live' = [q \in (DOMAIN live \ {call.old}) \cup {p} |->
                 IF q = p THEN [size |-> call.req,
                                data |-> IF call.op = "realloc" THEN live[call.old].data ELSE NULL]
                          ELSE live[q]]
  BY DEF Return
<1> HIDE DEF p
<1>5. CASE call.op = "realloc"
  <2>1. call.old \in DOMAIN live  BY <1>3, <1>5 DEF CallOK, Call
  <2>2. call.old # p  BY <1>1, <2>1
  <2>3. live' = Store!With(Store!Without(live, call.old), p,
                           [size |-> call.req, data |-> live[call.old].data])
    BY <1>4, <1>5 DEF Store!With, Store!Without
  <2>4. Store!Reallocate(call.old, p, call.req)
    BY <1>1, <1>2, <2>1, <2>2, <2>3 DEF Store!Reallocate
  <2>5. p \in DOMAIN Regions'
    BY <1>2, <1>4
  <2> QED  BY <1>1, <1>2, <1>3, <2>1, <2>4, <2>5 DEF Store!StoreNext
<1>6. CASE call.op # "realloc"
  <2>1. call.old = NULL  BY <1>3, <1>6 DEF CallOK
  <2>2. NULL \notin DOMAIN live
    <3>1. \A q \in DOMAIN live : q \in Int  BY PointerFacts, BlockFacts, HeapConstants DEF IInv
    <3> QED  BY <3>1, HeapConstants
  <2>3. live' = Store!With(live, p, [size |-> call.req, data |-> NULL])
    BY <1>4, <1>6, <2>1, <2>2 DEF Store!With
  <2>4. Store!Allocate(p, call.req)
    BY <1>1, <1>2, <2>3 DEF Store!Allocate
  <2>5. p \in DOMAIN Regions'
    BY <1>2, <1>4
  <2> QED  BY <1>1, <1>2, <1>3, <2>4, <2>5 DEF Store!StoreNext
<1> QED  BY <1>5, <1>6

\* Each step of the heap is a step of the store or changes nothing of it.
LEMMA StepImplements ==
  ASSUME IInv, IInv', [Next]_vars PROVE [Store!StoreNext]_(Store!storeVars)
<1>1. /\ Regions = live /\ Regions' = live'
      /\ TypeOK /\ Tiling /\ Ownership /\ CallOK /\ HeapBytes \in Nat
  BY RegionsAreLive, HeapBytesFacts DEF IInv
<1>2. ASSUME UNCHANGED <<himem, live>>, (status = "halted")' = (status = "halted")
      PROVE  UNCHANGED Store!storeVars
  BY <1>1, <1>2 DEF Store!storeVars, HeapBytes
<1>3. CASE memory_init \/ NextBlock \/ Haltdump \/ UNCHANGED vars
  <2>1. UNCHANGED <<himem, live>> /\ (status = "halted")' = (status = "halted")
    BY <1>3 DEF memory_init, NextBlock, Skipped, Walking, Haltdump, vars
  <2> QED  BY <1>2, <2>1
<1>4. ASSUME NEW n \in Requests, Malloc(n) PROVE UNCHANGED Store!storeVars
  BY <1>2, <1>4 DEF Malloc
<1>5. ASSUME NEW p \in Owned, NEW n \in Requests, KreallocGrow(p, n)
      PROVE  UNCHANGED Store!storeVars
  BY <1>2, <1>5 DEF KreallocGrow
<1>6. ASSUME NEW p \in Owned, NEW n \in Requests, KreallocKeep(p, n) PROVE Store!StoreNext
  <2> DEFINE b == to_header(p)
  <2>1. /\ p \in DOMAIN live /\ b \in DOMAIN heap /\ p = b + HEADER_SIZE /\ n \in Sizes
        /\ live[p] \in [size : Sizes, data : Contents \cup {NULL}]
    BY <1>1, PointerFacts DEF Owned, Sizes
  <2>2. /\ b \in Nat /\ heap[b].block_size \in Nat /\ End(b) <= HeapBytes
        /\ HEADER_SIZE \in Nat /\ n \in Nat /\ n <= heap[b].block_size
    BY <1>1, <1>6, <2>1, BlockFacts, SizesNat, HeapConstants DEF KreallocKeep
  <2>3. p \in 0 .. HeapBytes /\ p + n <= HeapBytes  BY <1>1, <2>1, <2>2 DEF End
  <2>4. ASSUME NEW q \in DOMAIN live \ {p}
        PROVE  Store!Disjoint(p, n, q, live[q].size)
    <3> DEFINE a == to_header(q)
    <3>1. a \in DOMAIN heap /\ q = a + HEADER_SIZE /\ live[q].size \in Sizes
      BY <1>1, <2>4, PointerFacts
    <3>2. a \in Nat /\ heap[a].block_size \in Nat /\ live[q].size <= heap[a].block_size
          /\ live[q].size \in Nat
      BY <1>1, <2>4, <3>1, BlockFacts, SizesNat DEF Ownership
    <3> HIDE DEF a, b
    <3>3. a # b  BY <2>1, <2>4, <3>1
    <3>4. (a < b /\ End(a) <= b) \/ (b < a /\ End(b) <= a)
      BY <1>1, <2>1, <3>1, <3>3, BlocksApart
    <3> QED  BY <2>1, <2>2, <3>1, <3>2, <3>4 DEF Store!Disjoint, End
  <2> HIDE DEF b
  <2>5. Store!Fits(Store!Without(live, p), p, n)
    BY <2>1, <2>2, <2>3, <2>4 DEF Store!Fits, Store!Without
  <2>6. live' = Store!With(Store!Without(live, p), p, [size |-> n, data |-> live[p].data])
    <3>1. live' = [live EXCEPT ![p].size = n]  BY <1>6 DEF KreallocKeep
    <3>2. [live[p] EXCEPT !.size = n] = [size |-> n, data |-> live[p].data]  BY <2>1
    <3>3. DOMAIN live' = DOMAIN live /\ live'[p] = [size |-> n, data |-> live[p].data]
      BY <2>1, <3>1, <3>2
    <3>4. \A q \in DOMAIN live \ {p} : live'[q] = live[q]  BY <3>1
    <3>5. live' = [q \in DOMAIN live' |-> live'[q]]  BY <3>1
    <3> QED  BY <2>1, <3>3, <3>4, <3>5 DEF Store!With, Store!Without
  <2>7. Store!Reallocate(p, p, n)
    BY <1>1, <1>6, <2>1, <2>5, <2>6
    DEF Store!Reallocate, KreallocKeep, Idle, HeapBytes
  <2>8. p \in DOMAIN Regions'
    BY <1>1, <1>6, <2>1 DEF KreallocKeep
  <2> QED  BY <1>1, <2>1, <2>3, <2>7, <2>8 DEF Store!StoreNext
<1>7. ASSUME NEW p \in Owned, Kfree(p) PROVE Store!StoreNext
  <2>1. p \in DOMAIN live  BY DEF Owned
  <2>2. Store!Release(p)
    BY <1>1, <1>7, <2>1 DEF Store!Release, Store!Without, Kfree, Idle, HeapBytes
  <2> QED  BY <1>1, <2>1, <2>2 DEF Store!StoreNext
<1>8. ASSUME NEW p \in Owned, NEW v \in Contents, Write(p, v) PROVE Store!StoreNext
  <2>1. p \in DOMAIN live  BY DEF Owned
  <2>2. Store!Store(p, v)
    BY <1>1, <1>8, <2>1 DEF Store!Store, Write, Idle, HeapBytes
  <2> QED  BY <1>1, <2>1, <2>2 DEF Store!StoreNext
<1>9. CASE OutOfMemory
  <2>1. Store!GiveUp
    BY <1>1, <1>9 DEF Store!GiveUp, OutOfMemory, Skipped, Walking, HeapBytes
  <2> QED  BY <2>1 DEF Store!StoreNext
<1>10. CASE FirstAllocation
  BY <1>10, FirstAllocationPrepares, ReturnImplements DEF FirstAllocation, Walking
<1>11. CASE TakePart
  BY <1>11, TakePartPrepares, ReturnImplements DEF TakePart, Found, Walking
<1>12. CASE TakeWhole
  BY <1>12, TakeWholePrepares, ReturnImplements DEF TakeWhole, Found, Walking
<1> QED
  BY <1>3, <1>4, <1>5, <1>6, <1>7, <1>8, <1>9, <1>10, <1>11, <1>12 DEF Next, Kmalloc

\* The list of headers that memory.c keeps behaves as the store of module
\* HeapStore: every kmalloc, krealloc, kfree and store maps to one of its steps.
THEOREM Implements == Spec => ImplementsStore
<1>1. IInv /\ IInv' /\ [Next]_vars => [Store!StoreNext]_(Store!storeVars)
  BY StepImplements
<1> QED  BY <1>1, InitImplements, Inductive, PTL DEF Spec, ImplementsStore, Store!StoreSpec

-----------------------------------------------------------------------------
(* The statistics.  The walks of HeapStats go down the list, so what they    *)
(* add up is settled block by block from the last one up.                    *)

\* The blocks from b on.
FromBlock(b) == {a \in DOMAIN heap : b <= a}

LEMMA LinkFacts ==
  ASSUME TypeOK, Tiling, NEW b \in DOMAIN heap
  PROVE  /\ b \in Nat /\ b \in FromBlock(b) /\ status # "off"
         /\ heap[b].next_ptr = NULL => FromBlock(b) = {b} /\ End(b) = HeapBytes
         /\ heap[b].next_ptr # NULL =>
              /\ heap[b].next_ptr \in DOMAIN heap /\ heap[b].next_ptr = End(b)
              /\ b \notin FromBlock(heap[b].next_ptr)
              /\ FromBlock(b) = FromBlock(heap[b].next_ptr) \cup {b}
<1>1. /\ b \in Nat /\ status # "off" /\ End(b) \in Nat /\ End(b) > b
      /\ heap[b] \in Header(DOMAIN heap)
  <2>1. /\ b \in Nat /\ status # "off" /\ End(b) \in Nat /\ heap[b].block_size \in Nat
    BY BlockFacts
  <2>2. End(b) > b
    BY <2>1, HeapConstants DEF End
  <2>3. heap[b] \in Header(DOMAIN heap)
    BY DEF TypeOK
  <2> QED  BY <2>1, <2>2, <2>3
<1>2. b \in FromBlock(b)
  BY <1>1 DEF FromBlock
<1>3. \A a \in DOMAIN heap : /\ a \in Nat /\ End(a) \in Nat /\ End(a) > a /\ End(a) <= HeapBytes
                             /\ a > b => a >= End(b)
  <2> TAKE a \in DOMAIN heap
  <2>1. /\ a \in Nat /\ End(a) \in Nat /\ End(a) <= HeapBytes /\ End(a) > a
    BY BlockFacts, HeapConstants DEF End
  <2> QED  BY <1>1, <2>1 DEF Tiling
<1>4. ASSUME heap[b].next_ptr = NULL PROVE FromBlock(b) = {b} /\ End(b) = HeapBytes
  <2>1. End(b) = HeapBytes
    BY <1>1, <1>4 DEF Tiling
  <2>2. \A a \in DOMAIN heap : b <= a => a = b
    BY <1>1, <1>3, <2>1
  <2> QED  BY <1>2, <2>1, <2>2 DEF FromBlock
<1>5. ASSUME heap[b].next_ptr # NULL
      PROVE  /\ heap[b].next_ptr \in DOMAIN heap /\ heap[b].next_ptr = End(b)
             /\ b \notin FromBlock(heap[b].next_ptr)
             /\ FromBlock(b) = FromBlock(heap[b].next_ptr) \cup {b}
  <2>1. heap[b].next_ptr \in DOMAIN heap /\ heap[b].next_ptr = End(b)
    BY <1>1, <1>5 DEF Tiling, Header
  <2>2. b \notin FromBlock(End(b))
    BY <1>1 DEF FromBlock
  <2>3. \A a \in DOMAIN heap : b <= a <=> End(b) <= a \/ a = b
    BY <1>1, <1>3
  <2>4. FromBlock(b) = FromBlock(End(b)) \cup {b}
    BY <2>3 DEF FromBlock
  <2> QED  BY <2>1, <2>2, <2>4
<1> QED  BY <1>1, <1>2, <1>4, <1>5

LEMMA BlocksFinite ==
  ASSUME TypeOK PROVE IsFiniteSet(DOMAIN heap)
<1>1. IsFiniteSet(0 .. WORD - 1)
  <2>1. 0 \in Int /\ WORD - 1 \in Int
    BY HeapConstants
  <2> QED  BY <2>1, FS_Interval
<1>2. DOMAIN heap \in SUBSET (0 .. WORD - 1)
  BY DEF TypeOK
<1> QED  BY <1>1, <1>2, FS_Subset

\* What holds of the last block, and of a block when it holds of the next one,
\* holds of all.
LEMMA FromTheLast ==
  ASSUME TypeOK, Tiling, NEW S,
         \A b \in DOMAIN heap :
           heap[b].next_ptr = NULL \/ heap[b].next_ptr \in S => b \in S
  PROVE  DOMAIN heap \subseteq S
<1> DEFINE R == StrictSubsetOrdering(DOMAIN heap)
           T == {FromBlock(b) : b \in DOMAIN heap \ S}
<1> SUFFICES ASSUME ~ (DOMAIN heap \subseteq S) PROVE FALSE
  OBVIOUS
<1>1. IsWellFoundedOn(R, FiniteSubsetsOf(DOMAIN heap))
  BY BlocksFinite, FS_StrictSubsetOrderingWellFounded
<1>2. T \subseteq FiniteSubsetsOf(DOMAIN heap) /\ T # {}
  <2>1. \A b \in DOMAIN heap : FromBlock(b) \in SUBSET DOMAIN heap
    BY DEF FromBlock
  <2>2. \A b \in DOMAIN heap : IsFiniteSet(FromBlock(b))
    BY <2>1, BlocksFinite, FS_Subset
  <2> QED  BY <2>1, <2>2 DEF FiniteSubsetsOf
<1>3. PICK t \in T : \A y \in T : ~ (<<y, t>> \in R)
  <2> HIDE DEF R, T
  <2> QED  BY <1>1, <1>2, WFMin
<1>4. PICK b \in DOMAIN heap \ S : t = FromBlock(b)
  BY <1>3
<1>5. PICK n : n = heap[b].next_ptr
  OBVIOUS
<1>6. n # NULL /\ n \notin S
  BY <1>4, <1>5
<1>7. n \in DOMAIN heap /\ b \notin FromBlock(n) /\ FromBlock(b) = FromBlock(n) \cup {b}
  BY <1>5, <1>6, LinkFacts
<1>8. FromBlock(n) \in T
  BY <1>6, <1>7
<1>9. <<FromBlock(n), t>> \in R
  <2>1. FromBlock(n) \subseteq DOMAIN heap /\ t \subseteq DOMAIN heap
    BY <1>4 DEF FromBlock
  <2> QED  BY <1>4, <1>7, <2>1 DEF StrictSubsetOrdering
<1> QED  BY <1>3, <1>8, <1>9

\* f holds at each block the sum of the weights from there to the last block.
SumsFrom(f, weight) ==
  f = [b \in DOMAIN heap |->
         weight[b] + (IF heap[b].next_ptr = NULL THEN 0 ELSE f[heap[b].next_ptr])]

\* The walk is well defined: it comes to an end, whatever it adds up.
LEMMA WalkSums ==
  ASSUME TypeOK, Tiling, status # "off", NEW weight
  PROVE  \E f : SumsFrom(f, weight) /\ Walk(weight) = f[HEAP_PTR]
<1> DEFINE Sums(g, b) ==
             g = [a \in FromBlock(b) |->
                    weight[a] + (IF heap[a].next_ptr = NULL THEN 0 ELSE g[heap[a].next_ptr])]
           S == {b \in DOMAIN heap : \E g : Sums(g, b)}
<1>1. ASSUME NEW b \in DOMAIN heap, heap[b].next_ptr = NULL \/ heap[b].next_ptr \in S
      PROVE  b \in S
  <2>1. CASE heap[b].next_ptr = NULL
    <3>1. FromBlock(b) = {b}
      BY <2>1, LinkFacts
    <3>2. PICK g : g = [a \in {b} |-> weight[a] + 0]
      OBVIOUS
    <3>3. \A a \in {b} : (IF heap[a].next_ptr = NULL THEN 0 ELSE g[heap[a].next_ptr]) = 0
      BY <2>1
    <3>4. Sums(g, b)
      BY <3>1, <3>2, <3>3
    <3> HIDE DEF Sums
    <3> QED  BY <3>4
  <2>2. CASE heap[b].next_ptr # NULL
    <3>1. PICK n : n = heap[b].next_ptr
      OBVIOUS
    <3>2. n \in DOMAIN heap /\ b \notin FromBlock(n) /\ FromBlock(b) = FromBlock(n) \cup {b}
          /\ n \in FromBlock(n)
      BY <2>2, <3>1, LinkFacts
    <3>3. PICK g : Sums(g, n)
      BY <1>1, <2>2, <3>1
    <3>4. PICK k : k = [a \in FromBlock(b) |-> IF a = b THEN weight[b] + g[n] ELSE g[a]]
      OBVIOUS
    <3>5. \A a \in FromBlock(n) : k[a] = g[a]
      BY <3>2, <3>4
    <3>6. \A a \in FromBlock(n) : heap[a].next_ptr # NULL => heap[a].next_ptr \in FromBlock(n)
      <4> SUFFICES ASSUME NEW a \in FromBlock(n), heap[a].next_ptr # NULL
                   PROVE  heap[a].next_ptr \in FromBlock(n)
        OBVIOUS
      <4>1. a \in DOMAIN heap /\ n <= a
        BY DEF FromBlock
      <4>2. heap[a].next_ptr \in DOMAIN heap /\ heap[a].next_ptr = End(a)
        BY <4>1, LinkFacts
      <4>3. a \in Nat /\ n \in Nat /\ End(a) \in Nat /\ End(a) > a
        BY <3>2, <4>1, BlockFacts, HeapConstants DEF End
      <4>4. n <= End(a)
        BY <4>1, <4>3
      <4> QED  BY <4>2, <4>4 DEF FromBlock
    <3>7. \A a \in FromBlock(b) :
            k[a] = weight[a] + (IF heap[a].next_ptr = NULL THEN 0 ELSE k[heap[a].next_ptr])
      <4> TAKE a \in FromBlock(b)
      <4>1. CASE a = b
        BY <2>2, <3>1, <3>2, <3>4, <3>5, <4>1
      <4>2. CASE a # b
        <5>1. a \in FromBlock(n)
          BY <3>2, <4>2
        <5>2. g[a] = weight[a] + (IF heap[a].next_ptr = NULL THEN 0 ELSE g[heap[a].next_ptr])
          BY <3>3, <5>1
        <5>3. heap[a].next_ptr # NULL => k[heap[a].next_ptr] = g[heap[a].next_ptr]
          BY <3>5, <3>6, <5>1
        <5>4. k[a] = g[a]
          BY <3>5, <5>1
        <5> QED  BY <5>2, <5>3, <5>4
      <4> QED  BY <4>1, <4>2
    <3>8. Sums(k, b)
      BY <3>4, <3>7
    <3> HIDE DEF Sums
    <3> QED  BY <3>8
  <2> QED  BY <2>1, <2>2
<1>2. DOMAIN heap \subseteq S
  <2> HIDE DEF S
  <2> QED  BY <1>1, FromTheLast
<1>3. HEAP_PTR \in DOMAIN heap
  BY DEF Tiling
<1>4. PICK g : Sums(g, HEAP_PTR)
  BY <1>2, <1>3
<1>5. FromBlock(HEAP_PTR) = DOMAIN heap
  BY LinkFacts DEF FromBlock, HEAP_PTR
<1>6. SumsFrom(g, weight)
  BY <1>4, <1>5 DEF SumsFrom
<1>7. PICK f : f = CHOOSE h : SumsFrom(h, weight)
  OBVIOUS
<1>8. SumsFrom(f, weight)
  BY <1>6, <1>7, Zenon
<1>9. Walk(weight) = f[HEAP_PTR]
  BY <1>7 DEF Walk, SumsFrom
<1> QED  BY <1>8, <1>9

\* What a walk has added up at each block, while the weights are numbers.
LEMMA SumAt ==
  \A f, weight : SumsFrom(f, weight) =>
    \A b \in DOMAIN heap :
      f[b] = weight[b] + (IF heap[b].next_ptr = NULL THEN 0 ELSE f[heap[b].next_ptr])
BY Zenon DEF SumsFrom

LEMMA SumLast ==
  \A f, weight : SumsFrom(f, weight) =>
    \A b \in DOMAIN heap : heap[b].next_ptr = NULL => f[b] = weight[b] + 0
<1> SUFFICES ASSUME NEW f, NEW weight, SumsFrom(f, weight), NEW b \in DOMAIN heap,
                    heap[b].next_ptr = NULL
             PROVE  f[b] = weight[b] + 0
  BY Zenon
<1>1. f[b] = weight[b] + (IF heap[b].next_ptr = NULL THEN 0 ELSE f[heap[b].next_ptr])
  BY SumAt, Zenon
<1> QED  BY <1>1

LEMMA SumNext ==
  \A f, weight : SumsFrom(f, weight) =>
    \A b \in DOMAIN heap :
      heap[b].next_ptr # NULL => f[b] = weight[b] + f[heap[b].next_ptr]
<1> SUFFICES ASSUME NEW f, NEW weight, SumsFrom(f, weight), NEW b \in DOMAIN heap,
                    heap[b].next_ptr # NULL
             PROVE  f[b] = weight[b] + f[heap[b].next_ptr]
  BY Zenon
<1>1. f[b] = weight[b] + (IF heap[b].next_ptr = NULL THEN 0 ELSE f[heap[b].next_ptr])
  BY SumAt, Zenon
<1> QED  BY <1>1

\* A walk that adds up ones counts the blocks, from where it is to the last.
LEMMA WalkCounts ==
  ASSUME TypeOK, Tiling, NEW f, SumsFrom(f, One)
  PROVE  \A b \in DOMAIN heap : f[b] \in Nat /\ f[b] = Cardinality(FromBlock(b))
<1> DEFINE S == {b \in DOMAIN heap : f[b] \in Nat /\ f[b] = Cardinality(FromBlock(b))}
<1>1. ASSUME NEW b \in DOMAIN heap, heap[b].next_ptr = NULL \/ heap[b].next_ptr \in S
      PROVE  b \in S
  <2>1. One[b] = 1
    BY DEF One
  <2>2. CASE heap[b].next_ptr = NULL
    <3>1. FromBlock(b) = {b} /\ Cardinality({b}) = 1
      BY <2>2, LinkFacts, FS_Singleton
    <3>2. f[b] = 1
      BY <2>1, <2>2, SumLast
    <3> QED  BY <3>1, <3>2
  <2>3. CASE heap[b].next_ptr # NULL
    <3>1. PICK n : n = heap[b].next_ptr
      OBVIOUS
    <3>2. n \in DOMAIN heap /\ b \notin FromBlock(n) /\ FromBlock(b) = FromBlock(n) \cup {b}
      BY <2>3, <3>1, LinkFacts
    <3>3. IsFiniteSet(FromBlock(n))
      BY BlocksFinite, FS_Subset DEF FromBlock
    <3>4. Cardinality(FromBlock(b)) = Cardinality(FromBlock(n)) + 1
      BY <3>2, <3>3, FS_AddElement
    <3>5. f[b] = 1 + f[n]
      BY <2>1, <2>3, <3>1, SumNext
    <3>6. f[n] \in Nat /\ f[n] = Cardinality(FromBlock(n))
      BY <1>1, <2>3, <3>1
    <3> QED  BY <3>4, <3>5, <3>6
  <2> QED  BY <2>2, <2>3
<1>2. DOMAIN heap \subseteq S
  <2> HIDE DEF S
  <2> QED  BY <1>1, FromTheLast
<1> QED  BY <1>2

\* Over the used blocks, it counts those.
UsedFrom(b) == {a \in FromBlock(b) : ~heap[a].is_free}

LEMMA WalkCountsUsed ==
  ASSUME TypeOK, Tiling, NEW f, SumsFrom(f, Over(FALSE, One))
  PROVE  \A b \in DOMAIN heap : f[b] \in Nat /\ f[b] = Cardinality(UsedFrom(b))
<1> DEFINE S == {b \in DOMAIN heap : f[b] \in Nat /\ f[b] = Cardinality(UsedFrom(b))}
<1>1. ASSUME NEW b \in DOMAIN heap, heap[b].next_ptr = NULL \/ heap[b].next_ptr \in S
      PROVE  b \in S
  <2>1. Over(FALSE, One)[b] = IF heap[b].is_free THEN 0 ELSE 1
    <3>1. heap[b].is_free \in BOOLEAN
      BY BlockFacts
    <3>2. heap[b].is_free = FALSE <=> ~heap[b].is_free
      BY <3>1
    <3> QED  BY <3>2 DEF One, Over
  <2>2. CASE heap[b].next_ptr = NULL
    <3>1. UsedFrom(b) = IF heap[b].is_free THEN {} ELSE {b}
      BY <2>2, LinkFacts DEF UsedFrom
    <3>2. Cardinality({b}) = 1 /\ Cardinality({}) = 0
      BY FS_Singleton, FS_EmptySet
    <3>3. heap[b].next_ptr = NULL => f[b] = Over(FALSE, One)[b] + 0
      BY SumLast, Zenon
    <3>4. f[b] = IF heap[b].is_free THEN 0 ELSE 1
      <4>1. PICK e \in Nat : e = (IF heap[b].is_free THEN 0 ELSE 1)
        OBVIOUS
      <4>2. f[b] = e + 0
        BY <2>1, <2>2, <3>3, <4>1, Zenon
      <4> QED  BY <4>1, <4>2
    <3> QED  BY <3>1, <3>2, <3>4
  <2>3. CASE heap[b].next_ptr # NULL
    <3>1. PICK n : n = heap[b].next_ptr
      OBVIOUS
    <3>2. n \in DOMAIN heap /\ b \notin FromBlock(n) /\ FromBlock(b) = FromBlock(n) \cup {b}
      BY <2>3, <3>1, LinkFacts
    <3>3. b \notin UsedFrom(n)
          /\ UsedFrom(b) = IF heap[b].is_free THEN UsedFrom(n) ELSE UsedFrom(n) \cup {b}
      BY <3>2 DEF UsedFrom
    <3>4. IsFiniteSet(UsedFrom(n))
      BY BlocksFinite, FS_Subset DEF UsedFrom, FromBlock
    <3>5. Cardinality(UsedFrom(b)) =
            IF heap[b].is_free THEN Cardinality(UsedFrom(n)) ELSE Cardinality(UsedFrom(n)) + 1
      BY <3>3, <3>4, FS_AddElement
    <3>6. f[b] = (IF heap[b].is_free THEN 0 ELSE 1) + f[n]
      <4>1. f[b] = Over(FALSE, One)[b] + f[n]
        BY <2>3, <3>1, SumNext, Zenon
      <4> QED  BY <2>1, <4>1
    <3>7. f[n] \in Nat /\ f[n] = Cardinality(UsedFrom(n))
      BY <1>1, <2>3, <3>1
    <3> QED  BY <3>5, <3>6, <3>7
  <2> QED  BY <2>2, <2>3
<1>2. DOMAIN heap \subseteq S
  <2> HIDE DEF S
  <2> QED  BY <1>1, FromTheLast
<1> QED  BY <1>2

\* The walk over the free blocks and the one over the used blocks add up to
\* the walk over all.
Added(weight) ==
  \A f, g, h :
    /\ SumsFrom(f, weight)
    /\ SumsFrom(g, Over(TRUE, weight)) /\ SumsFrom(h, Over(FALSE, weight))
    => \A b \in DOMAIN heap : g[b] \in Nat /\ h[b] \in Nat /\ g[b] + h[b] = f[b]

LEMMA WalksAdd ==
  ASSUME TypeOK, Tiling, NEW weight, \A b \in DOMAIN heap : weight[b] \in Nat
  PROVE  Added(weight)
<1> SUFFICES ASSUME NEW f, NEW g, NEW h, SumsFrom(f, weight),
                    SumsFrom(g, Over(TRUE, weight)), SumsFrom(h, Over(FALSE, weight))
             PROVE  \A b \in DOMAIN heap : g[b] \in Nat /\ h[b] \in Nat /\ g[b] + h[b] = f[b]
  BY Zenon DEF Added
<1> DEFINE S == {b \in DOMAIN heap : g[b] \in Nat /\ h[b] \in Nat /\ g[b] + h[b] = f[b]}
<1>1. ASSUME NEW b \in DOMAIN heap, heap[b].next_ptr = NULL \/ heap[b].next_ptr \in S
      PROVE  b \in S
  <2>1. PICK x \in Nat, y \in Nat :
          /\ x = Over(TRUE, weight)[b] /\ y = Over(FALSE, weight)[b] /\ x + y = weight[b]
    <3>1. heap[b].is_free \in BOOLEAN /\ weight[b] \in Nat
      BY BlockFacts
    <3>2. CASE heap[b].is_free = TRUE
      BY <3>1, <3>2 DEF Over
    <3>3. CASE heap[b].is_free = FALSE
      BY <3>1, <3>3 DEF Over
    <3> QED  BY <3>1, <3>2, <3>3
  <2>2. CASE heap[b].next_ptr = NULL
    <3>1. heap[b].next_ptr = NULL => /\ f[b] = weight[b] + 0
                                     /\ g[b] = Over(TRUE, weight)[b] + 0
                                     /\ h[b] = Over(FALSE, weight)[b] + 0
      BY SumLast, Zenon
    <3>2. f[b] = (x + y) + 0 /\ g[b] = x + 0 /\ h[b] = y + 0
      BY <2>1, <2>2, <3>1, Zenon
    <3> QED  BY <3>2
  <2>3. CASE heap[b].next_ptr # NULL
    <3>1. PICK n : n = heap[b].next_ptr
      OBVIOUS
    <3>2. f[b] = weight[b] + f[n] /\ g[b] = x + g[n] /\ h[b] = y + h[n]
      BY <2>1, <2>3, <3>1, SumNext, Zenon
    <3>3. PICK u \in Nat, v \in Nat : u = g[n] /\ v = h[n] /\ u + v = f[n]
      BY <1>1, <2>3, <3>1
    <3>4. g[b] = x + u /\ h[b] = y + v /\ f[b] = (x + y) + (u + v)
      BY <2>1, <3>2, <3>3
    <3>5. g[b] \in Nat /\ h[b] \in Nat /\ g[b] + h[b] = f[b]
      BY <3>4
    <3> QED  BY <3>5
  <2> QED  BY <2>2, <2>3
<1>2. DOMAIN heap \subseteq S
  <2> HIDE DEF S
  <2> QED  BY <1>1, FromTheLast
<1> QED  BY <1>2

\* The bytes of the blocks from b on are those up to the end of high memory,
\* but for a header each.
LEMMA WalkMeasures ==
  ASSUME TypeOK, Tiling, NEW f, SumsFrom(f, Bytes), NEW c, SumsFrom(c, One)
  PROVE  \A b \in DOMAIN heap :
           f[b] \in Nat /\ c[b] \in Nat /\ f[b] + c[b] * HEADER_SIZE = HeapBytes - b
<1> DEFINE S == {b \in DOMAIN heap :
                   f[b] \in Nat /\ c[b] \in Nat /\ f[b] + c[b] * HEADER_SIZE = HeapBytes - b}
<1>0. HEADER_SIZE \in Nat
  BY HeapConstants
<1>1. ASSUME NEW b \in DOMAIN heap, heap[b].next_ptr = NULL \/ heap[b].next_ptr \in S
      PROVE  b \in S
  <2>1. PICK z \in Nat :
          z = heap[b].block_size /\ Bytes[b] = z /\ One[b] = 1 /\ b \in Nat
          /\ End(b) = b + HEADER_SIZE + z
    BY BlockFacts DEF Bytes, One, End
  <2>2. CASE heap[b].next_ptr = NULL
    <3>1. f[b] = z + 0 /\ c[b] = 1 + 0
      BY <2>1, <2>2, SumLast
    <3>2. b + HEADER_SIZE + z = HeapBytes
      BY <2>1, <2>2, LinkFacts
    <3>3. c[b] = 1 /\ f[b] = z /\ c[b] * HEADER_SIZE = HEADER_SIZE
      BY <1>0, <3>1
    <3> QED  BY <1>0, <2>1, <3>2, <3>3
  <2>3. CASE heap[b].next_ptr # NULL
    <3>1. PICK n : n = heap[b].next_ptr
      OBVIOUS
    <3>2. f[b] = z + f[n] /\ c[b] = 1 + c[n]
      BY <2>1, <2>3, <3>1, SumNext
    <3>3. PICK p \in Nat, q \in Nat :
            p = f[n] /\ q = c[n] /\ p + q * HEADER_SIZE = HeapBytes - n
      BY <1>1, <2>3, <3>1
    <3>4. n = b + HEADER_SIZE + z
      BY <2>1, <2>3, <3>1, LinkFacts
    <3>5. (1 + q) * HEADER_SIZE = HEADER_SIZE + q * HEADER_SIZE
      BY <1>0
    <3>6. PICK w \in Nat : w = q * HEADER_SIZE
      BY <1>0
    <3>7. (z + p) + (HEADER_SIZE + w) = HeapBytes - b
      <4>1. p + w = HeapBytes - n
        BY <3>3, <3>6
      <4>2. HeapBytes \in Nat
        BY HeapBytesFacts
      <4> QED  BY <1>0, <2>1, <3>4, <4>1, <4>2
    <3>8. f[b] = z + p /\ c[b] = 1 + q
      BY <3>2, <3>3
    <3>9. (z + p) + (1 + q) * HEADER_SIZE = HeapBytes - b
      BY <3>5, <3>6, <3>7
    <3>10. f[b] + c[b] * HEADER_SIZE = HeapBytes - b
      BY <3>8, <3>9, Zenon
    <3> QED  BY <3>8, <3>10
  <2> QED  BY <2>2, <2>3
<1>2. DOMAIN heap \subseteq S
  <2> HIDE DEF S
  <2> QED  BY <1>1, FromTheLast
<1> QED  BY <1>2

\* Each block in use has one owner.
LEMMA UsedAreLive ==
  ASSUME TypeOK, Tiling, Ownership
  PROVE  Cardinality(UsedFrom(HEAP_PTR)) = Cardinality(DOMAIN live)
<1> DEFINE U == UsedFrom(HEAP_PTR)
           F == [a \in U |-> to_data(a)]
<1>1. U = {a \in DOMAIN heap : ~heap[a].is_free}
  BY BlockFacts DEF UsedFrom, FromBlock, HEAP_PTR
<1>2. IsFiniteSet(U)
  BY <1>1, BlocksFinite, FS_Subset
<1>3. \A a \in U : a \in Nat /\ to_data(a) \in DOMAIN live /\ to_data(a) = a + HEADER_SIZE
  BY <1>1, BlockFacts DEF Ownership
<1>4. F \in Injection(U, DOMAIN live)
  <2>1. F \in [U -> DOMAIN live]
    BY <1>3
  <2>2. \A a, b \in U : F[a] = F[b] => a = b
    BY <1>3, HeapConstants
  <2> QED  BY <2>1, <2>2 DEF Injection, IsInjective
<1>5. \A p \in DOMAIN live : \E a \in U : F[a] = p
  <2> TAKE p \in DOMAIN live
  <2>1. to_header(p) \in DOMAIN heap /\ p = to_data(to_header(p))
    BY PointerFacts
  <2>2. to_header(p) \in U
    BY <1>1, <2>1 DEF Ownership
  <2> QED  BY <2>1, <2>2
<1>6. F \in Bijection(U, DOMAIN live)
  <2> HIDE DEF U
  <2>1. F \in Surjection(U, DOMAIN live)
    BY <1>3, <1>5 DEF Surjection
  <2> QED  BY <1>4, <2>1 DEF Bijection
<1>7. ExistsBijection(U, DOMAIN live)
  BY <1>6 DEF ExistsBijection
<1> QED  BY <1>2, <1>7, FS_Bijection

\* The sums info prints are those of the words, whatever sign an int gives them.
LEMMA SignedAdds ==
  ASSUME NEW x \in Nat, NEW y \in Nat, x + y < WORD
  PROVE  Wrap(Signed(x) + Signed(y)) = x + y
<1>1. WORD \in Nat \ {0} /\ x < WORD /\ y < WORD
  BY HeapConstants
<1>2. Wrap(x) = x /\ Wrap(y) = y
  BY <1>1, WrapSmall
<1>3. (Signed(x) = x \/ Signed(x) = x - WORD) /\ (Signed(y) = y \/ Signed(y) = y - WORD)
  BY <1>2 DEF Signed
<1>4. PICK k \in 0 .. 2 : Signed(x) + Signed(y) = (x + y) - k * WORD
  BY <1>1, <1>3
<1>5. PICK n \in Nat : n = x + y
  OBVIOUS
<1>6. (n - k * WORD) % WORD = n
  <2>1. (n - 0 * WORD) % WORD = n
    BY <1>1, <1>5
  <2>2. (n - 1 * WORD) % WORD = n
    BY <1>1, <1>5
  <2>3. (n - 2 * WORD) % WORD = n
    BY <1>1, <1>5
  <2> QED  BY <2>1, <2>2, <2>3
<1> QED  BY <1>4, <1>5, <1>6 DEF Wrap

LEMMA StatsKept == ASSUME IInv PROVE StatsAddUp
<1> SUFFICES ASSUME status # "off"
             PROVE  /\ total_blocks = Cardinality(DOMAIN heap)
                    /\ free_blocks + used_blocks = total_blocks
                    /\ used_blocks = Cardinality(DOMAIN live)
                    /\ Wrap(free_memory + used_memory) + total_blocks * HEADER_SIZE = HeapBytes
  BY DEF StatsAddUp
<1>0. TypeOK /\ Tiling /\ Ownership
  BY DEF IInv
<1>1. PICK c : SumsFrom(c, One) /\ total_blocks = c[HEAP_PTR]
  BY <1>0, WalkSums DEF total_blocks
<1>2. PICK cf : SumsFrom(cf, Over(TRUE, One)) /\ free_blocks = cf[HEAP_PTR]
  BY <1>0, WalkSums DEF free_blocks
<1>3. PICK cu : SumsFrom(cu, Over(FALSE, One)) /\ used_blocks = cu[HEAP_PTR]
  BY <1>0, WalkSums DEF used_blocks
<1>4. PICK bf : SumsFrom(bf, Over(TRUE, Bytes)) /\ free_memory = Signed(bf[HEAP_PTR])
  BY <1>0, WalkSums DEF free_memory
<1>5. PICK bu : SumsFrom(bu, Over(FALSE, Bytes)) /\ used_memory = Signed(bu[HEAP_PTR])
  BY <1>0, WalkSums DEF used_memory
<1>6. PICK s : SumsFrom(s, Bytes)
  BY <1>0, WalkSums
<1>7. HEAP_PTR \in DOMAIN heap /\ FromBlock(HEAP_PTR) = DOMAIN heap /\ HEAP_PTR = 0
  BY <1>0, BlockFacts DEF Tiling, FromBlock, HEAP_PTR
<1>8. total_blocks = Cardinality(DOMAIN heap)
  BY <1>0, <1>1, <1>7, WalkCounts
<1>9. free_blocks + used_blocks = total_blocks
  <2>1. \A b \in DOMAIN heap : One[b] \in Nat
    BY DEF One
  <2>2. Added(One)
    BY <1>0, <2>1, WalksAdd
  <2>3. \A b \in DOMAIN heap : cf[b] + cu[b] = c[b]
    BY <1>1, <1>2, <1>3, <2>2, Zenon DEF Added
  <2> QED  BY <1>1, <1>2, <1>3, <1>7, <2>3
<1>10. used_blocks = Cardinality(DOMAIN live)
  <2>1. cu[HEAP_PTR] = Cardinality(UsedFrom(HEAP_PTR))
    BY <1>0, <1>3, <1>7, WalkCountsUsed
  <2> QED  BY <1>0, <1>3, <2>1, UsedAreLive
<1>11. Wrap(free_memory + used_memory) + total_blocks * HEADER_SIZE = HeapBytes
  <2>1. \A b \in DOMAIN heap : Bytes[b] \in Nat
    BY <1>0, BlockFacts DEF Bytes
  <2>2. \A b \in DOMAIN heap : bf[b] \in Nat /\ bu[b] \in Nat /\ bf[b] + bu[b] = s[b]
    <3>1. Added(Bytes)
      BY <1>0, <2>1, WalksAdd
    <3> QED  BY <1>4, <1>5, <1>6, <3>1, Zenon DEF Added
  <2>3. PICK x \in Nat, y \in Nat :
          x = bf[HEAP_PTR] /\ y = bu[HEAP_PTR] /\ x + y = s[HEAP_PTR]
    BY <1>7, <2>2
  <2>4. /\ s[HEAP_PTR] \in Nat /\ c[HEAP_PTR] \in Nat
        /\ s[HEAP_PTR] + c[HEAP_PTR] * HEADER_SIZE = HeapBytes - HEAP_PTR
    BY <1>0, <1>1, <1>6, <1>7, WalkMeasures
  <2>5. PICK w \in Nat : w = c[HEAP_PTR] * HEADER_SIZE
    BY <2>4, HeapConstants
  <2>6. HeapBytes \in Nat /\ HeapBytes < WORD /\ x + y + w = HeapBytes
    BY <1>0, <1>7, <2>3, <2>4, <2>5, HeapBytesFacts
  <2>7. Wrap(Signed(x) + Signed(y)) = x + y
    BY <2>6, SignedAdds, HeapConstants
  <2> QED  BY <1>1, <1>4, <1>5, <2>3, <2>5, <2>6, <2>7
<1> QED  BY <1>8, <1>9, <1>10, <1>11

\* What info prints of the heap is so: its walks meet every block, the blocks
\* counted as used are those with an owner, and the bytes add up.
THEOREM StatsRight == Spec => []StatsAddUp
<1> QED  BY StatsKept, Inductive, PTL
=============================================================================
