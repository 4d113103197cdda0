----------------------------- MODULE HeapStore -----------------------------
(***************************************************************************)
(* What the kernel heap of SSMOS promises the code that calls malloc,      *)
(* realloc and free: every pointer it has handed out and not yet taken     *)
(* back names a region of its own, and what a caller stores in its region  *)
(* stays there until that caller stores something else, across a realloc   *)
(* that moves the region too.  No header, no list of blocks and no search  *)
(* appears here; module Heap is shown to implement this specification.     *)
(***************************************************************************)
EXTENDS Integers

CONSTANTS
  Limits,         \* the possible sizes of the heap, in bytes
  Sizes,          \* the sizes a caller asks for
  Contents,       \* what a caller may store in a region
  UNSET           \* the content of a region nothing was stored in yet

VARIABLES
  limit,          \* bytes of memory the heap hands out regions of
  regions,        \* pointer -> [size, data], for the regions handed out
  halted          \* TRUE once the heap has given up

storeVars == <<limit, regions, halted>>

Disjoint(p, m, q, n) == p + m <= q \/ q + n <= p

\* A region of n bytes at p lies in the heap and meets no region of rs.
Fits(rs, p, n) ==
  /\ p >= 0 /\ p + n <= limit
  /\ \A q \in DOMAIN rs : Disjoint(p, n, q, rs[q].size)

With(rs, p, r) == [q \in DOMAIN rs \cup {p} |-> IF q = p THEN r ELSE rs[q]]
Without(rs, p) == [q \in DOMAIN rs \ {p} |-> rs[q]]

StoreInit ==
  /\ limit \in Limits
  /\ regions = [p \in {} |-> UNSET]
  /\ halted = FALSE

\* malloc: a fresh region anywhere it fits, with nothing stored in it.
Allocate(p, n) ==
  /\ ~halted /\ p \notin DOMAIN regions /\ Fits(regions, p, n)
  /\ regions' = With(regions, p, [size |-> n, data |-> UNSET])
  /\ UNCHANGED <<limit, halted>>

\* realloc: the region keeps its content and gets another size, where it is
\* or at another place clear of all regions, its own old one included.
Reallocate(p, q, n) ==
  /\ ~halted /\ p \in DOMAIN regions
  /\ IF q = p THEN Fits(Without(regions, p), q, n)
              ELSE q \notin DOMAIN regions /\ Fits(regions, q, n)
  /\ regions' = With(Without(regions, p), q,
                     [size |-> n, data |-> regions[p].data])
  /\ UNCHANGED <<limit, halted>>

Release(p) ==
  /\ ~halted /\ p \in DOMAIN regions
  /\ regions' = Without(regions, p)
  /\ UNCHANGED <<limit, halted>>

Store(p, v) ==
  /\ ~halted /\ p \in DOMAIN regions
  /\ regions' = [regions EXCEPT ![p].data = v]
  /\ UNCHANGED <<limit, halted>>

GiveUp ==
  /\ ~halted /\ halted' = TRUE
  /\ UNCHANGED <<limit, regions>>

\* A pointer handed out is one of those handed out afterwards: it is looked for
\* among them, and Fits says where it may be.
StoreNext ==
  \/ \E p \in DOMAIN regions', n \in Sizes : Allocate(p, n)
  \/ \E p \in DOMAIN regions :
       \/ \E q \in DOMAIN regions', n \in Sizes : Reallocate(p, q, n)
       \/ Release(p)
       \/ \E v \in Contents : Store(p, v)
  \/ GiveUp

StoreSpec == StoreInit /\ [][StoreNext]_storeVars
=============================================================================
