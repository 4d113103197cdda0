----------------------------- MODULE HeapStats -----------------------------
(***************************************************************************)
(* The heap statistics of kernel/memory.c, which the info command prints:  *)
(* walks along next_ptr that count blocks and add up block sizes.          *)
(***************************************************************************)
EXTENDS Heap, FiniteSets

\* What an int shows of the unsigned word n.
Signed(n) == IF Wrap(n) >= WORD \div 2 THEN Wrap(n) - WORD ELSE Wrap(n)

\* Fault: the walk stops before the last block.
WalkShort(weight) ==
  LET from[b \in DOMAIN heap] ==
        IF heap[b].next_ptr = NULL THEN 0 ELSE weight[b] + from[heap[b].next_ptr]
  IN  from[HEAP_PTR]

\* The sum of the weights of the blocks on the list.
Walk(weight) ==
  LET from[b \in DOMAIN heap] ==
        weight[b] + (IF heap[b].next_ptr = NULL THEN 0 ELSE from[heap[b].next_ptr])
  IN  from[HEAP_PTR]

One == [b \in DOMAIN heap |-> 1]
Bytes == [b \in DOMAIN heap |-> heap[b].block_size]
Over(free, weight) == [b \in DOMAIN heap |-> IF heap[b].is_free = free THEN weight[b] ELSE 0]

total_blocks == Walk(One)
free_blocks == Walk(Over(TRUE, One))
used_blocks == Walk(Over(FALSE, One))
free_memory == Signed(Walk(Over(TRUE, Bytes)))
used_memory == Signed(Walk(Over(FALSE, Bytes)))

\* The statistics are those of the whole heap: the walk meets every header
\* ever written, the blocks counted as used are those with an owner, and the
\* bytes, headers included, add up to high memory.
StatsAddUp ==
  status # "off" =>
    /\ total_blocks = Cardinality(DOMAIN heap)
    /\ free_blocks + used_blocks = total_blocks
    /\ used_blocks = Cardinality(DOMAIN live)
    /\ Wrap(free_memory + used_memory) + total_blocks * HEADER_SIZE = HeapBytes
=============================================================================
