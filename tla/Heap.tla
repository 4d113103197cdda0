-------------------------------- MODULE Heap --------------------------------
(***************************************************************************)
(* The kernel heap (kernel/memory.c, kernel/memory.h): one list of blocks, *)
(* each a header followed by its data, that starts at HEAP_START and is    *)
(* searched first-fit.  Addresses are byte offsets from HEAP_START and,    *)
(* like block sizes, are unsigned machine words: they wrap at WORD.        *)
(*                                                                         *)
(* memory_init, a kmalloc entered by malloc (0x3), realloc (0x4) or klog,  *)
(* kfree (0x5) and the callers' stores are actions; kmalloc's walk down    *)
(* the list is one action per block it looks at.                           *)
(*                                                                         *)
(* A definition marked "Fault" belongs to no specification: it is a wrong  *)
(* version of the definition after it, that the properties must refuse.    *)
(***************************************************************************)
EXTENDS Integers

CONSTANTS
  WORD,             \* 2^32: a size_t or pointer wraps here
  KIB,              \* bytes of a KiB
  HEADER_SIZE,      \* sizeof(struct memory_header)
  SPLIT_THRESHOLD,
  ELEMENT_SIZE,     \* sizeof(struct element), what klog's first entry needs
  HimemSizes,       \* KiB of high memory the boot loader may report
  Requests,         \* sizes callers ask for
  Contents,         \* what a caller may store in a block
  NULL

ASSUME HeapConstants ==
  /\ WORD \in Nat /\ KIB \in Nat /\ SPLIT_THRESHOLD \in Nat
  /\ HEADER_SIZE \in Nat \ {0} /\ ELEMENT_SIZE \in Nat \ {0}
  /\ HimemSizes \subseteq Nat /\ Requests \subseteq Nat \ {0}
  /\ NULL \notin Int /\ NULL \notin Contents

HEAP_PTR == 0

VARIABLES
  himem,      \* KiB of high memory, as passed to kernel_main
  status,     \* "off", "up", or "halted" in haltdump
  heap,       \* header offset -> memory_header, for the headers written
  mem,        \* header offset -> what the block's data bytes hold
  call,       \* the kmalloc in progress, or NULL
  systemlog,  \* pointer to the first element of the kernel log, or NULL
  live        \* what callers own: pointer -> [size asked, data last stored]

vars == <<himem, status, heap, mem, call, systemlog, live>>

-----------------------------------------------------------------------------
Wrap(n) == n % WORD

\* Fault: rounds a request down.
RoundDown(n) == n - (n % 4)

\* The machine-word arithmetic kmalloc starts with: the size, up to x 4.
RoundUp(n) == Wrap(n + ((4 - (n % 4)) % 4))

to_data(b) == Wrap(b + HEADER_SIZE)
to_header(p) == Wrap(p - HEADER_SIZE)

\* Blocks of h whose data overlaps the bytes lo .. hi-1.
Touched(h, lo, hi) ==
  {b \in DOMAIN h : b + HEADER_SIZE < hi /\ lo < b + HEADER_SIZE + h[b].block_size}

\* Fault: fills four bytes for each it was asked for.
kmemsetWords(h, m, lo, hi, v) ==
  [b \in DOMAIN h |-> IF b \in Touched(h, lo, lo + 4 * (hi - lo)) THEN v ELSE m[b]]

\* The data of every block after v was written to the bytes lo .. hi-1.
kmemset(h, m, lo, hi, v) ==
  [b \in DOMAIN h |-> IF b \in Touched(h, lo, hi) THEN v ELSE m[b]]

SplitAt(b, size) == Wrap(b + HEADER_SIZE + size)
CanSplit(h, b, size) ==
  Wrap(size + HEADER_SIZE) <= h[b].block_size /\ h[b].is_free

\* Fault: the new header starts as a copy of the old one, and stays one.
splitblockCopied(h, b, size) ==
  IF ~CanSplit(h, b, size) THEN h
  ELSE [a \in DOMAIN h \cup {SplitAt(b, size)} |->
          IF a = SplitAt(b, size) THEN h[b]
          ELSE IF a = b
          THEN [next_ptr |-> SplitAt(b, size), prev_ptr |-> h[b].prev_ptr,
                is_free |-> FALSE, block_size |-> size]
          ELSE h[a]]

\* The headers after block b was cut at size: b keeps size bytes and is
\* used, the rest is a free block after it.  The prev_ptr of the block that
\* followed b is not updated.
splitblock(h, b, size) ==
  IF ~CanSplit(h, b, size) THEN h
  ELSE [a \in DOMAIN h \cup {SplitAt(b, size)} |->
          IF a = SplitAt(b, size)
          THEN [next_ptr |-> h[b].next_ptr, prev_ptr |-> b, is_free |-> TRUE,
                block_size |-> Wrap(h[b].block_size - Wrap(size + HEADER_SIZE))]
          ELSE IF a = b
          THEN [next_ptr |-> SplitAt(b, size), prev_ptr |-> h[b].prev_ptr,
                is_free |-> FALSE, block_size |-> size]
          ELSE h[a]]

\* The data after splitblock: writing the new header overwrites what lay there.
SplitData(h, m, b, size) ==
  IF ~CanSplit(h, b, size) THEN m
  ELSE LET h2 == splitblock(h, b, size)
           nb == SplitAt(b, size)
           m2 == [a \in DOMAIN h2 |-> IF a \in DOMAIN h /\ a # nb THEN m[a] ELSE NULL]
       IN  kmemset(h2, m2, nb, nb + HEADER_SIZE, NULL)

\* The headers after block b was marked free or used.
Mark(h, b, free) == [h EXCEPT ![b].is_free = free]

\* Fault: takes any block that is large enough.
SuitsUsed(h, b, size) == h[b].block_size >= size

\* kmalloc's two questions about a block.
Suits(h, b, size) == h[b].block_size >= size /\ h[b].is_free
WorthSplitting(h, b, size) ==
  h[b].block_size >= Wrap(size + HEADER_SIZE + SPLIT_THRESHOLD)

-----------------------------------------------------------------------------
Init ==
  /\ himem \in HimemSizes /\ status = "off"
  /\ heap = [b \in {} |-> NULL] /\ mem = [b \in {} |-> NULL]
  /\ call = NULL /\ systemlog = NULL /\ live = [p \in {} |-> NULL]

\* kmalloc, entered by op for req bytes; old is the block realloc replaces.
Enter(op, req, old) ==
  [op |-> op, req |-> req, size |-> RoundUp(req), old |-> old, at |-> HEAP_PTR]

\* One free block of all high memory; then klog allocates its first element.
memory_init ==
  /\ status = "off" /\ status' = "up"
  /\ heap' = [b \in {HEAP_PTR} |->
                [next_ptr |-> NULL, prev_ptr |-> NULL, is_free |-> TRUE,
                 block_size |-> Wrap(himem * KIB - HEADER_SIZE)]]
  /\ mem' = [b \in {HEAP_PTR} |-> NULL]
  /\ call' = Enter("klog", ELEMENT_SIZE, NULL)
  /\ UNCHANGED <<himem, systemlog, live>>

Idle == status = "up" /\ call = NULL
Owned == DOMAIN live \ {systemlog}

Malloc(n) ==
  /\ Idle /\ call' = Enter("malloc", n, NULL)
  /\ UNCHANGED <<himem, status, heap, mem, systemlog, live>>

\* Fault: shrinks the block where it is, and forgets the bytes it cut off.
KreallocShrink(p, n) ==
  /\ Idle /\ heap[to_header(p)].block_size >= n
  /\ heap' = [heap EXCEPT ![to_header(p)].block_size = n]
  /\ live' = [live EXCEPT ![p].size = n]
  /\ UNCHANGED <<himem, status, mem, call, systemlog>>

\* krealloc to more than the block holds goes through kmalloc ...
KreallocGrow(p, n) ==
  /\ Idle /\ heap[to_header(p)].block_size < n
  /\ call' = Enter("realloc", n, p)
  /\ UNCHANGED <<himem, status, heap, mem, systemlog, live>>

\* ... and otherwise returns the pointer it was given.
KreallocKeep(p, n) ==
  /\ Idle /\ heap[to_header(p)].block_size >= n
  /\ live' = [live EXCEPT ![p].size = n]
  /\ UNCHANGED <<himem, status, heap, mem, call, systemlog>>

Kfree(p) ==
  /\ Idle
  /\ heap' = Mark(heap, to_header(p), TRUE)
  /\ live' = [q \in DOMAIN live \ {p} |-> live[q]]
  /\ UNCHANGED <<himem, status, mem, call, systemlog>>

\* The owner of p stores v in all the bytes it asked for.
Write(p, v) ==
  /\ Idle
  /\ mem' = kmemset(heap, mem, p, p + live[p].size, v)
  /\ live' = [live EXCEPT ![p].data = v]
  /\ UNCHANGED <<himem, status, heap, call, systemlog>>

-----------------------------------------------------------------------------
\* kmalloc returns block b of the headers h and data m to whoever called it:
\* klog keeps the pointer, realloc copies the old block and frees it.
Return(h, m, b) ==
  LET p == to_data(b)
      new == [size |-> call.req,
              data |-> IF call.op = "realloc" THEN live[call.old].data ELSE NULL]
      old == to_header(call.old)
  IN  /\ call' = NULL
      /\ live' = [q \in (DOMAIN live \ {call.old}) \cup {p} |->
                    IF q = p THEN new ELSE live[q]]
      /\ systemlog' = IF call.op = "klog" THEN p ELSE systemlog
      /\ IF call.op = "realloc"
         THEN /\ mem' = kmemset(h, m, p, p + h[old].block_size, m[old])
              /\ heap' = Mark(h, old, TRUE)
         ELSE mem' = m /\ heap' = h
      /\ UNCHANGED <<himem, status>>

Walking == status = "up" /\ call # NULL

\* The test kmalloc makes before its loop, and the loop's own.
Untouched == call.at = HEAP_PTR /\ heap[HEAP_PTR].next_ptr = NULL /\ heap[HEAP_PTR].is_free

\* Nothing allocated yet: split the empty heap, whatever its size.
FirstAllocation ==
  /\ Walking /\ Untouched
  /\ Return(splitblock(heap, call.at, call.size), SplitData(heap, mem, call.at, call.size), call.at)

\* Fault: walks past a block that fits exactly.
SkippedExact ==
  Walking /\ ~Untouched /\ ~(heap[call.at].block_size > call.size /\ heap[call.at].is_free)

Skipped == Walking /\ ~Untouched /\ ~Suits(heap, call.at, call.size)

\* Faults: follows the NULL of the last block; looks at the second block for ever.
NextBlockUnchecked ==
  /\ Skipped /\ call' = [call EXCEPT !.at = heap[call.at].next_ptr]
  /\ UNCHANGED <<himem, status, heap, mem, systemlog, live>>

NextBlockSecond ==
  /\ Skipped /\ heap[call.at].next_ptr # NULL
  /\ call' = [call EXCEPT !.at = heap[HEAP_PTR].next_ptr]
  /\ UNCHANGED <<himem, status, heap, mem, systemlog, live>>

NextBlock ==
  /\ Skipped /\ heap[call.at].next_ptr # NULL
  /\ call' = [call EXCEPT !.at = heap[call.at].next_ptr]
  /\ UNCHANGED <<himem, status, heap, mem, systemlog, live>>

OutOfMemory ==
  /\ Skipped /\ heap[call.at].next_ptr = NULL
  /\ status' = "halted"
  /\ UNCHANGED <<himem, heap, mem, call, systemlog, live>>

Found == Walking /\ ~Untouched /\ Suits(heap, call.at, call.size)

TakePart ==
  /\ Found /\ WorthSplitting(heap, call.at, call.size)
  /\ Return(splitblock(heap, call.at, call.size), SplitData(heap, mem, call.at, call.size), call.at)

\* Fault: leaves the block marked free.
TakeWholeUnmarked ==
  /\ Found /\ ~WorthSplitting(heap, call.at, call.size)
  /\ Return(heap, mem, call.at)

TakeWhole ==
  /\ Found /\ ~WorthSplitting(heap, call.at, call.size)
  /\ Return(Mark(heap, call.at, FALSE), mem, call.at)

\* haltdump ends in while(true) { }.
Haltdump == status = "halted" /\ UNCHANGED vars

Kmalloc == FirstAllocation \/ NextBlock \/ OutOfMemory \/ TakePart \/ TakeWhole

Next ==
  \/ memory_init
  \/ \E n \in Requests : Malloc(n)
  \/ \E p \in Owned :
       \/ \E n \in Requests : KreallocGrow(p, n) \/ KreallocKeep(p, n)
       \/ Kfree(p)
       \/ \E v \in Contents : Write(p, v)
  \/ Kmalloc \/ Haltdump

\* kmalloc runs in a syscall handler with interrupts off, or before they are
\* on: once entered nothing else runs, so it keeps taking steps.
Spec == Init /\ [][Next]_vars /\ WF_vars(Kmalloc)

-----------------------------------------------------------------------------
HeapBytes == himem * KIB
End(b) == b + HEADER_SIZE + heap[b].block_size

\* A memory_header whose pointers name members of D.
Header(D) == [next_ptr : D \cup {NULL}, prev_ptr : D \cup {NULL},
              block_size : 0 .. WORD - 1, is_free : BOOLEAN]
Call == [op : {"klog", "malloc", "realloc"}, req : Requests \cup {ELEMENT_SIZE},
         size : 0 .. WORD - 1, old : DOMAIN live \cup {NULL}, at : DOMAIN heap]
Sizes == Requests \cup {ELEMENT_SIZE}

\* Every variable has its type: header pointers name headers, the walk is at
\* a header, and callers own data pointers of headers.
TypeOK ==
  /\ himem \in HimemSizes
  /\ status \in {"off", "up", "halted"}
  /\ DOMAIN heap \subseteq 0 .. WORD - 1
  /\ heap \in [DOMAIN heap -> Header(DOMAIN heap)]
  /\ mem \in [DOMAIN heap -> Contents \cup {NULL}]
  /\ call \in Call \cup {NULL}
  /\ systemlog \in DOMAIN live \cup {NULL}
  /\ live \in [DOMAIN live -> [size : Sizes, data : Contents \cup {NULL}]]
  /\ DOMAIN live \subseteq {to_data(b) : b \in DOMAIN heap}

\* The blocks tile the heap: following next_ptr visits them in address order
\* with no gap and no overlap, and the last one ends where high memory ends
\* (splitblock and memory_init do the arithmetic).
Tiling ==
  IF status = "off" THEN DOMAIN heap = {}
  ELSE /\ HEAP_PTR \in DOMAIN heap
       /\ \A b \in DOMAIN heap :
            /\ End(b) <= HeapBytes
            /\ IF heap[b].next_ptr = NULL THEN End(b) = HeapBytes
                                          ELSE heap[b].next_ptr = End(b)
            /\ \A a \in DOMAIN heap : a < b => End(a) <= b

\* A block is marked used exactly while somebody owns it, and it holds all
\* the bytes its owner asked for: kmalloc and krealloc lose no block.
Ownership ==
  /\ \A b \in DOMAIN heap : heap[b].is_free <=> to_data(b) \notin DOMAIN live
  /\ \A p \in DOMAIN live : live[p].size <= heap[to_header(p)].block_size

\* Every owner reads back what it stored last: no other caller's store, no
\* header written by splitblock and no realloc that moved it has changed it.
ContentsKept ==
  \A p \in DOMAIN live : live[p].data # NULL => mem[to_header(p)] = live[p].data

\* kmalloc passes over a block only when it cannot hold the request, so what
\* it returns is the first fit and "out of memory" means that nothing fits.
FirstFit ==
  call # NULL =>
    \A b \in DOMAIN heap :
      b < call.at \/ status = "halted" => ~Suits(heap, b, call.size)

\* Stale as prev_ptr may be after a split, it names a header further down:
\* following it ends at HEAP_PTR.
PrevBehind ==
  \A b \in DOMAIN heap :
    IF b = HEAP_PTR THEN heap[b].prev_ptr = NULL
                    ELSE heap[b].prev_ptr # NULL /\ heap[b].prev_ptr < b

\* A block in use is never moved, resized or linked elsewhere, whatever is
\* allocated and freed around it; only kfree or a moving realloc ends its use.
StaysInUse(b) ==
  b \in DOMAIN heap' /\ (heap'[b] = heap[b] \/ heap'[b] = [heap[b] EXCEPT !.is_free = TRUE])
StepKeepsUsed == \A b \in DOMAIN heap : ~heap[b].is_free => StaysInUse(b)
UsedBlocksStay == [][StepKeepsUsed]_vars

\* Every kmalloc comes back with a block or ends in haltdump: its walk down
\* the list never goes round.
KmallocReturns == (status = "up" /\ call # NULL) ~> (call = NULL \/ status = "halted")

\* The regions callers own, with what they would read from them.
Regions ==
  [p \in DOMAIN live |->
     [size |-> live[p].size,
      data |-> IF live[p].data = NULL THEN NULL ELSE mem[to_header(p)]]]

Store == INSTANCE HeapStore WITH
  Limits <- {h * KIB : h \in HimemSizes}, UNSET <- NULL,
  limit <- HeapBytes, regions <- Regions, halted <- (status = "halted")

\* The list of blocks implements the store its callers rely on.
ImplementsStore == Store!StoreSpec
=============================================================================
