----------------------------- MODULE BootLoader -----------------------------
(***************************************************************************)
(* The boot loader (boot/boot.asm): check low memory, read the second      *)
(* stage and then the kernel from the boot drive one sector at a time,     *)
(* with retries, ask the BIOS for the high memory and enter kernel_main.   *)
(* The BIOS is the environment: it enters the loader with any es, any call *)
(* of it may fail, a read of no sector of the drive does, and int 0x13 with *)
(* another function than the read in ah reads nothing and fails.  ds, which *)
(* the loader does not set either, is taken to be 0: with another one no   *)
(* variable of the loader would be where it looks.                         *)
(*                                                                         *)
(* A definition marked "Fault" belongs to no specification: it is a wrong  *)
(* version of the definition after it, that the properties must refuse.    *)
(***************************************************************************)
EXTENDS Integers

CONSTANTS
  TOTALSECTORS,  \* the last LBA sector of the kernel
  MAX_ATTEMPTS,
  MINMEM,
  Geometries,    \* drives: [spt, heads], the heads counted as dh + 1 counts them
  Leftovers,     \* what a failed int 0x13 AH=8 may leave: [cl, dh]
  Segments,      \* what the BIOS may leave in es
  LowMemSizes,   \* what int 0x12 may report, in KiB
  Himem          \* what E801 may leave: [cx, ax], in KiB

\* The loader keeps the cylinder in a byte, and compares READ_ATTEMPTS, a byte
\* too, as a signed one: with a larger kernel or limit neither would do.
ASSUME BootConstants ==
  /\ TOTALSECTORS \in 2 .. 255 /\ MAX_ATTEMPTS \in 0 .. 126
  /\ \A m \in Himem : m.cx \in Nat /\ m.ax \in Nat
  /\ \A g \in Geometries : g.spt \in 1 .. 63 /\ g.heads \in 1 .. 256
  /\ \A r \in Leftovers : r.cl \in 0 .. 255 /\ r.dh \in 0 .. 255
  /\ Segments \subseteq Nat

SECONDSTAGE == 2016  \* 0x7E00, an offset to es, in 16-byte paragraphs
KERNEL == 2048       \* 0x800: where CURRENT_OFFSET starts
SECTORSIZE == 32     \* a sector, in 16-byte paragraphs

VARIABLES
  pc,               \* where the loader is
  drive,            \* the geometry the BIOS knows
  ah,               \* the function the next int 0x13 asks for
  chs,              \* cylinder, head and sector it asks for
  es,               \* the segment it reads to
  spt, numhd,       \* the geometry the loader knows
  CURRENT_SECTOR, CURRENT_OFFSET, READ_ATTEMPTS,
  memory,           \* segment -> LBA of the sector read there
  LOWMEM, HIGHMEM

disk == <<ah, chs, es, READ_ATTEMPTS, memory>>
geometry == <<drive, spt, numhd>>
current == <<CURRENT_SECTOR, CURRENT_OFFSET>>
vars == <<pc, geometry, disk, current, LOWMEM, HIGHMEM>>

Init ==
  /\ pc = "start" /\ drive \in Geometries /\ spt = 0 /\ numhd = 0 /\ es \in Segments
  /\ ah = "none" /\ chs = [cyl |-> 0, head |-> 0, sector |-> 0]
  /\ CURRENT_SECTOR = 2 /\ CURRENT_OFFSET = KERNEL /\ READ_ATTEMPTS = 0
  /\ memory = [s \in {} |-> 0] /\ LOWMEM = 0 /\ HIGHMEM = 0

-----------------------------------------------------------------------------
\* jle compares signed: the kernel needs more than MINMEM.
start ==
  /\ pc = "start"
  /\ \E size \in LowMemSizes :
       LOWMEM' = size /\ pc' = IF size <= MINMEM THEN "hung" ELSE "second_stage"
  /\ UNCHANGED <<geometry, disk, current, HIGHMEM>>

\* int 0x12 sets the carry flag.
mem_error ==
  /\ pc = "start" /\ pc' = "hung"
  /\ UNCHANGED <<geometry, disk, current, LOWMEM, HIGHMEM>>

\* A read of one sector, with its registers set.
Read(at) == ah' = "read" /\ chs' = at /\ READ_ATTEMPTS' = 0

\* The second stage is sector 2 of the first track.
second_stage ==
  /\ pc = "second_stage" /\ pc' = "read_second_stage"
  /\ Read([cyl |-> 0, head |-> 0, sector |-> 2])
  /\ UNCHANGED <<geometry, es, current, memory, LOWMEM, HIGHMEM>>

\* The carry flag of int 0x13 AH=8 is never tested: cl and dh are kept whatever
\* they hold, the heads in a byte, after inc dh.
get_diskinfo ==
  /\ pc = "get_diskinfo" /\ SECONDSTAGE \in DOMAIN memory
  /\ \E r \in {[cl |-> drive.spt, dh |-> drive.heads - 1]} \cup Leftovers :
       spt' = r.cl % 64 /\ numhd' = (r.dh + 1) % 256
  /\ pc' = "kernel_load"
  /\ UNCHANGED <<drive, disk, current, LOWMEM, HIGHMEM>>

\* get_diskinfo is part of the second stage: if that is not where it belongs,
\* the call runs whatever is.
NoSecondStage ==
  /\ pc = "get_diskinfo" /\ SECONDSTAGE \notin DOMAIN memory
  /\ pc' = "lost"
  /\ UNCHANGED <<geometry, disk, current, LOWMEM, HIGHMEM>>

\* Fault: sectors count from 0.
lba_chs_from_0(lba) ==
  [cyl |-> ((lba \div spt) \div numhd) % 256, head |-> (lba \div spt) % numhd,
   sector |-> lba % spt]

lba_chs(lba) ==
  [cyl |-> ((lba \div spt) \div numhd) % 256, head |-> (lba \div spt) % numhd,
   sector |-> (lba % spt) + 1]

\* A division by zero sectors or heads ends in the BIOS.
kernel_load ==
  /\ pc = "kernel_load" /\ es' = CURRENT_OFFSET
  /\ IF spt = 0 \/ numhd = 0 THEN pc' = "hung" /\ UNCHANGED <<ah, chs, READ_ATTEMPTS>>
     ELSE pc' = "read_kernel" /\ Read(lba_chs(CURRENT_SECTOR))
  /\ UNCHANGED <<geometry, current, memory, LOWMEM, HIGHMEM>>

Reading == pc \in {"read_second_stage", "read_kernel"}
Target == IF pc = "read_kernel" THEN es ELSE es + SECONDSTAGE

\* The sector of the drive that a cylinder, head and sector name.
OnDrive == chs.head < drive.heads /\ chs.sector \in 1 .. drive.spt
Named == (chs.cyl * drive.heads + chs.head) * drive.spt + chs.sector - 1

\* The loop back to kernel_load: up to TOTALSECTORS, that one included.
Advance ==
  IF pc = "read_kernel"
  THEN /\ CURRENT_OFFSET' = CURRENT_OFFSET + SECTORSIZE
       /\ CURRENT_SECTOR' = CURRENT_SECTOR + 1
       /\ pc' = IF CURRENT_SECTOR + 1 <= TOTALSECTORS THEN "kernel_load" ELSE "get_himem"
  ELSE pc' = "get_diskinfo" /\ UNCHANGED current

read_disk ==
  /\ Reading /\ ah = "read" /\ OnDrive
  /\ memory' = [s \in DOMAIN memory \cup {Target} |->
                  IF s = Target THEN Named ELSE memory[s]]
  /\ Advance
  /\ UNCHANGED <<geometry, ah, chs, es, READ_ATTEMPTS, LOWMEM, HIGHMEM>>

\* Fault: goes on with the next sector.
read_error_skip ==
  /\ Reading /\ ah' = "print" /\ READ_ATTEMPTS' = 0
  /\ Advance
  /\ UNCHANGED <<geometry, chs, es, memory, LOWMEM, HIGHMEM>>

\* Fault: never gives up.
read_error_forever ==
  /\ Reading /\ ah' = "print" /\ READ_ATTEMPTS' = (READ_ATTEMPTS + 1) % 256
  /\ UNCHANGED <<pc, geometry, chs, es, current, memory, LOWMEM, HIGHMEM>>

\* The carry flag is set: print_bios leaves its own function in ah, and the
\* loader jumps to the int 0x13 once more or hangs.
read_error ==
  /\ Reading /\ ah' = "print"
  /\ READ_ATTEMPTS' = READ_ATTEMPTS + 1
  /\ pc' = IF READ_ATTEMPTS + 1 <= MAX_ATTEMPTS THEN pc ELSE "hung"
  /\ UNCHANGED <<geometry, chs, es, current, memory, LOWMEM, HIGHMEM>>

\* cx holds the memory up to the 15M hole, or ax when cx is 0.
get_himem ==
  /\ pc = "get_himem" /\ pc' = "kernel_main"
  /\ \E m \in Himem : HIGHMEM' = IF m.cx = 0 THEN m.ax ELSE m.cx
  /\ UNCHANGED <<geometry, disk, current, LOWMEM>>

himem_error ==
  /\ pc = "get_himem" /\ pc' = "hung"
  /\ UNCHANGED <<geometry, disk, current, LOWMEM, HIGHMEM>>

\* jmp $, or the kernel, or something else, runs.
Ended == pc \in {"hung", "kernel_main", "lost"} /\ UNCHANGED vars

Next ==
  \/ start \/ mem_error \/ second_stage \/ get_diskinfo \/ NoSecondStage
  \/ kernel_load \/ read_disk \/ read_error \/ get_himem \/ himem_error \/ Ended

\* The processor goes on to its next instruction.
Spec == Init /\ [][Next]_vars /\ WF_vars(Next)

-----------------------------------------------------------------------------
\* Every variable has its type.
TypeOK ==
  /\ pc \in {"start", "second_stage", "read_second_stage", "get_diskinfo", "kernel_load",
             "read_kernel", "get_himem", "kernel_main", "hung", "lost"}
  /\ drive \in Geometries /\ ah \in {"none", "read", "print"}
  /\ chs \in [cyl : 0 .. 255, head : 0 .. 255, sector : 0 .. 63]
  /\ es \in Nat /\ spt \in 0 .. 63 /\ numhd \in 0 .. 255
  /\ CURRENT_SECTOR \in 2 .. TOTALSECTORS + 1
  /\ CURRENT_OFFSET = KERNEL + SECTORSIZE * (CURRENT_SECTOR - 2)
  /\ READ_ATTEMPTS \in 0 .. MAX_ATTEMPTS + 1
  /\ memory \in [DOMAIN memory -> Nat] /\ DOMAIN memory \subseteq Nat
  /\ LOWMEM \in LowMemSizes \cup {0} /\ HIGHMEM \in Nat

\* get_diskinfo has learnt what the drive is like.
GeometryKnown == spt = drive.spt /\ numhd = drive.heads

\* The second stage belongs right after the first, the kernel right after it.
InPlace(s) == s - SECONDSTAGE = SECTORSIZE * (memory[s] - 1)

\* Whatever the drive is like, once the loader knows, a sector is read where it
\* belongs: every conversion to cylinder, head and sector is undone by the drive.
SectorsInPlace == GeometryKnown => \A s \in DOMAIN memory : InPlace(s)

\* kernel_main is entered with a sector in every place of the second stage and
\* of the kernel, however many reads failed on the way: the second stage, and,
\* when the geometry was known, every sector of the kernel.
KernelComplete ==
  pc = "kernel_main" =>
    /\ DOMAIN memory = {SECONDSTAGE + SECTORSIZE * (k - 1) : k \in 1 .. TOTALSECTORS}
    /\ memory[SECONDSTAGE] = 1
    /\ GeometryKnown => {memory[s] : s \in DOMAIN memory} = 1 .. TOTALSECTORS

\* The loader does not go round for ever: it enters the kernel or gives up,
\* unless it has left its own code.
Ends == <>(pc \in {"hung", "kernel_main", "lost"})

\* After an error the loader "tries to read again" (boot.asm): what it asks
\* the BIOS for is a read.
RetryReads == Reading => ah = "read"

\* "Kernel successfully loaded!", the loader says before it goes on to the
\* high memory, and lba_chs that the geometry "MUST be already setup": the
\* sectors are in their places then.
LoadedInPlace ==
  pc \in {"get_himem", "kernel_main"} => \A s \in DOMAIN memory : InPlace(s)
=============================================================================
