# SSMOS in TLA+

SSMOS is a small 32-bit x86 hobby kernel: a BIOS boot loader, a kernel with a
heap, interrupts and system calls, and a terminal that runs built-in commands.
One program runs at a time, in ring 0; what makes it hard is not processes but
interrupts that come between any two instructions, system calls entered through
the same gate, a heap whose only structure is a chain of headers, and hardware
that fails. This directory holds specifications of its parts, the TLC
configurations that check them, and proofs for all of them.

    tlc -workers 2 -config MCHeap.cfg MCHeap        model-check
    tlapm HeapProofs.tla                            check proofs; also of Interrupts-, List-,
                                                    BootLoader-, Strings-, Screen-,
                                                    Terminal- and AtaProofs

## Inventory

| part | source | state | operations | modelled |
|---|---|---|---|---|
| boot loader | `boot/boot.asm` | sectors read, current sector and offset, attempts, `es`, `spt` and `numhd`, LOWMEM, HIGHMEM | memory check, read with retry, geometry, LBA to CHS, E801, enter `kernel_main` | `BootLoader` (A20, GDT, protected mode left out) |
| kernel start | `kernel/kernel.c` | none | `kernel_main`: initialisations in order, `sti`, terminal, `cli` | `Interrupts` (order only) |
| heap | `kernel/memory.c` | headers in high memory | `memory_init`, `kmalloc`, `krealloc`, `kfree`, statistics | `Heap`, `HeapStats`, `HeapStore` |
| list | `lib/list.c` | elements in heap blocks | new, delete, add, addat, addfirst, remove, removeat, removelast, walks | `List`, `ListSeq` (addfirst left out) |
| interrupts | `kernel/isr.asm`, `interrupts.c`, `irq.c`, `pic.c` | IDT, `BUFFER`, stack, PIC | stubs, `interrupt_handler`, `process_irq`, `send_EOI` | `Interrupts` (slave PIC left out) |
| timer | `kernel/timer.c` | `ticks` | `timer_IRQ`, `ksleep`, `ksync` | `Interrupts` |
| system calls | `kernel/syscalls.c`, `lib/system.c` | registers | wrappers, `process_syscall` | `Interrupts`, `Heap` (calls that draw or copy have one representative) |
| log, haltdump | `kernel/debug.c` | `systemlog` | `klog`, `getlog`, `haltdump` | in `Heap`, `Interrupts`, `List` |
| strings | `lib/string.c` | text, size | new, set, add, addchar, clear, resize, trim, padding, free, `strcmp` | `Strings` (formatting of numbers left out) |
| terminal | `kernel/terminal.c` | input line, cursor, prompt, history | `handle_input`, `parse_input`, `draw_prompt`, `new_prompt`, `writeline` | `Terminal` |
| commands | `kernel/commands.c` | aliases | alias, cprompt, cls, disk, syslog, shutdown, ... | `Terminal`, each an action (reboot left out); `disk` in detail in `Ata` |
| screen | `kernel/graphics.c`, `lib/output.h` | buffer, video memory | put, print, scroll, color, flip | `Screen` (which bytes), `Terminal` (which cells of the prompt's row) |
| ATA | `kernel/ata.c` | drive selected on each bus | select, reset, type, identify, flush | `Ata` |
| floppy, CMOS | `kernel/floppy.c`, `lib/cmos.c` | none; the clock chip's registers | drive types; read with interrupts off | `Ata`; `Interrupts` |
| keyboard | `lib/keyboard.c` | none that is read | poll | no: a table; any character is a key of `Terminal` |
| FAT, arrays, exceptions | `kernel/fat.c`, `lib/array.c`, `kernel/exceptions.c` | none | stubs | no |
| arithmetic | `lib/math.c` | none | pure functions | `clamp`, in `Screen`; nothing calls the rest |

How they interact: the boot loader passes `himem` to `kernel_main`, and
`memory_init` makes one free block of it. Everything in `lib/` and the terminal
calls `malloc`, `realloc` and `free` of `lib/system.c`, which load a number into
`eax` and execute `int $0x80`; the stub of `isr.asm` saves the registers, calls
`interrupt_handler`, and puts its result into `eax` on the way out, for
interrupts of devices too. `klog` runs before interrupts are on and makes the
kernel log, a list, whose first element is the heap's first block. The terminal draws through `get_position`, `kprint` and
`kputchar` into one framebuffer, and is the only caller of `new_prompt`, which
scrolls it. Of the commands, `disk` polls the ATA drives and asks the CMOS for the
floppy drives, and `time` the CMOS for the clock. `ticks`
connects the timer interrupt with `ksleep` and `ksync`. `haltdump` is where
every failure ends: interrupts off, and a loop.

What each part must get right:

- boot loader: every sector in its place, the kernel complete when entered, no
  endless loop, retries that retry, the drive and the segment it reads to known;
- heap: blocks tile memory, ownership and mark agree, nobody's bytes change, no
  memory is declared full when it is not, walks end;
- list: links agree in both directions, no element is lost, a list is a sequence;
- interrupts: off until all is set up, one handler at a time, every line
  acknowledged once and no line for another, interrupted code none the wiser;
- system calls: the call asked for, with its arguments, its answer delivered;
- strings: no operation writes past the bytes allocated;
- terminal and commands: cursor, line and prompt in step, the prompt on the
  screen, one alias to a name, every block given back or accounted for;
- screen: every byte inside the framebuffer, nothing left behind the line that is
  being typed, no character of a message over another;
- disks: the driver knows which drive answers, says of each what it is, and does
  not wait for ever.

## Modules

**`HeapStore`** is the abstract specification of the heap: regions that are
handed out are disjoint, lie in memory and keep what their owner stored, across a
realloc that moves them. It has no headers and no search.

**`Heap`** is `kernel/memory.c`. `heap` maps the address of each header to
its `memory_header`, `mem` to what the block's data holds. Addresses are offsets
from `HEAP_START`, and both addresses and sizes are words that wrap at `WORD`.
`memory_init`, `Malloc`, `KreallocGrow`/`KreallocKeep`, `Kfree` and the owners'
stores are actions; the walk of `kmalloc` is one action for each block it looks
at (`NextBlock`) and one for each way it ends (`FirstAllocation`, `TakePart`,
`TakeWhole`, `OutOfMemory`), so the loop can be shown to end. A write to memory
is `kmemset` over a range of bytes and changes every block whose data it touches:
overlapping blocks would show in `ContentsKept`. `live` is what callers own. A
caller uses only pointers it owns, asks for at least a byte (the kernel always
does), and stores only into the bytes it asked for. `klog`'s element is the first
block and stays: without it, the branch of `kmalloc` that splits the empty heap
without looking at its size could return a block that is still free.

**`HeapStats`** adds the five statistics as walks along `next_ptr`.

**`Interrupts`** composes the stubs, dispatch, PIC, timer, system calls,
their wrappers and `kernel_main`. A wrapper is call, `movl`, `int`, for `malloc` and
`realloc` the test of the answer (`Again`, `Tested`), and the return (`Done`), a step
each: what is returned is what `eax` holds by then, and so `owned` may contain `NULL`. The stub's way in (`Take`), the handler's calls and the
way out (`Iretd`) are steps too. `stack` holds a frame for each interrupt being
handled: the registers pushed, the interrupt flag, the old `BUFFER`. The heap
appears as the set of blocks it counts as used.

**`List`** is `lib/list.c`, with elements at addresses that are reused after
they are freed, and any element of a list as the argument of an operation.
**`ListSeq`** is the sequence it implements. `list_addfirst`, which nothing calls,
is left out: it never links the old first element back to the new one, which
then nobody can reach from the list.

**`BootLoader`** is `boot/boot.asm` up to `kernel_main`, with the BIOS as its
environment: any call may fail. A read of what is no sector of the drive does; a
failed call for the geometry leaves some of `Leftovers` in `cl` and `dh`, which
`get_diskinfo` keeps in `spt` and `numhd` as if it had succeeded; division by zero of
these ends the loader in the BIOS. `es` is what the BIOS enters with (`Segments`)
until `kernel_load` sets it. When the second stage is then not where
the loader calls it, the loader is `lost` (`NoSecondStage`). `ds`, by which it
finds its own variables, is taken to be 0.

**`Strings`** is the dynamic strings of `lib/string.c`: a record of the text
before the terminator and of the bytes allocated, and an operator for each
operation. Nothing is cut to fit: an operation that writes too far leaves a text
that does not fit. `strcmp` is there as what `find_cmd` and `find_alias` decide by.

**`Screen`** says where `kernel/graphics.c` puts its bytes: each operation is
the set of offsets into the framebuffer that it writes, and `kprint` the step of its
loop. `Column` and `RowsBefore` say which cell `writeline` gives a character.

**`Terminal`** is `kernel/terminal.c` over `Strings` and `Screen`, with the
commands of `kernel/commands.c`. A key, and Enter with the whole
of `parse_input` and the command it runs, is a step: the keyboard is polled, and no
interrupt handler looks at this state. A line is a sequence of letters and spaces,
so that what `alias` makes of it, and what an alias makes of a later line, is what
the code makes of it. Of the history only the number of lines is kept, of the prompt
its length, and of printing the number of calls of `new_prompt`, which scroll it.
A command of the table is an action of its own, found under its name as
`find_cmd` finds it; those that print and nothing else are `Prints(rows, takes,
frees)`, so that `help`, say, is three alternatives with the blocks each takes and
gives back. Where the number of rows depends on data that is left out (the system log,
the drives), the action offers every number up to one that scrolls the whole screen.
`allocated` counts heap blocks as each path through the code takes and frees them;
`lost` counts the strings of `disk` and `syslog`. `shown` is the set of cells, counted
from the beginning of the prompt's row, that hold something; the row above is
never drawn to again. `reach` is a history variable: how far lines that did not fit
into their row went. Before there is an alias,
`alias` reads through the `NULL` of the empty list: `AliasThroughNull` is the outcome
in which what lies there happens to equal the name. The behaviour stops there.

**`Ata`** is `kernel/ata.c`, `kernel/floppy.c` and the `disk` command that calls
them. A call is a sequence of steps, and each loop that polls a register is a step of
its own that is enabled when the loop ends; in between, the drives change their status
registers when they like. What the driver asks of the hardware is modelled from how
it asks (`Srst`, `Command`, `Answers`, `DriveReady`): a reset selects the master and
leaves the drive's signature in LBA mid and high, a busy drive becomes ready or
fails, registers of a drive that is not there are the master's or nobody's, and what
the BIOS left selected is unknown. `addressed` is a history variable: the buses on
which the driver has selected a drive or made a reset itself. `ata_identify` and
`ata_flush`, which no command calls yet, are calls that can come at any time between
others.

Definitions marked "Fault" in these modules are wrong versions of the
definition after them and belong to no specification: they record, for each
property, a bug it would catch.

## What is checked

| configuration | question | bounds |
|---|---|---|
| `MCHeap` | Do tiling, ownership, contents, first fit, `prev_ptr` order, the statistics and the stability of used blocks survive any sequence of calls; does the list implement `HeapStore`; does every `kmalloc` end? | 162,870 states. A "KiB" of 60 bytes and one or two of them: room for klog's element and up to four more blocks; requests of 3 (rounded) and 20 bytes, so that blocks fit exactly, are split, and are taken whole because the rest is under the threshold. Headers are the 16 bytes of the code. |
| `MCInterrupts` | Invariants of interrupts, system calls and `CMOS_read`; is `eax` all that an interrupt costs the code it interrupts; does the program ever hold a block that the kernel counts as free; does the terminal's `ksync` return? | timer, keyboard, masked line 7, one exception; three blocks, so that a `realloc` whose answer is lost moves once more, from a block already freed, before memory is out; the program asks for a block only while it holds none (`MaxOwned`); sleep of 0 and 1; ticks wrap at 3, not a multiple of the two that `VSYNC_MS` is here, as 2^32 is none of 20; 979,208 states |
| `MCInterruptsNull` | Does `malloc` return a block? | violated |
| `MCInterruptsSleep` | Does `sleep` return? | violated |
| `MCList` | Links, refinement of `ListSeq`, and where an index counts from (the refinement alone would accept the removal of the wrong element) | five elements and three values, the addresses symmetric: 364 states, with insertions and removals at both ends and in the middle and two neighbours on each side |
| `MCBootLoader` | Sectors in place, kernel complete, an end | ten sectors; tracks of 2, 3 and 4 sectors, which end inside the kernel and not together with it, on 1 to 3 heads, a diskette, and 256 heads of 63; four kinds of registers after a failed call for the geometry; `es` 0 or 0x7C0; the limit of five attempts is the code's; 2,500 states |
| `MCTerminal` | Cursor and line in step, prompt on the screen, nothing shown behind the line, strings within their bytes, aliases distinct, blocks accounted for | lines of five characters, of two letters and a space, which is what an alias with a command takes; three lines entered, so that an alias is made, replaced and used; one of the letters is a command, and runs any of the table, so that each can follow each; three rows of five columns, so that the screen scrolls and a line goes past its row: 173,474 states |
| `MCDisk` | Does the driver know the selected drive, report types and read words of the right drive; does every call return? | each bus with no drive, with one (ATA or packet), with two of different kinds: 25 machines; every selection left by the BIOS; both kinds of floating bus; any sequence of calls; 273,048 states |
| `MCDiskAgain` | Does "not detected" mean that there is no drive? | violated on a machine with one drive |
| `MCDiskTypes` | Does `disk` say of each drive what it is, and NONE when it is not there? | violated on a machine with a SATA master on the secondary bus |
| `MCBootLoaderRetry` | Does a retry read? | violated |
| `MCBootLoaderGeometry` | Is the kernel in its place when the loader reports it as loaded? | violated |

Each bound is the smallest at which every branch of the code is taken; TLC's
action counts show that every action happens.

### Where the code and its documentation part

1. **NULL from malloc** (`NeverNull`). The stub returns from every interrupt with
   the handler's result in `eax`, so a timer interrupt clears `eax` of the code it
   interrupts (`isr.asm` says "Save all registers" and "Restore registers";
   `OnlyEaxLost` says exactly how much of that is true). The loop of `malloc` and
   `realloc` repeats the call while the answer is `NULL`; an interrupt after the last
   test and before the return makes it `NULL` after all, and no caller in the kernel
   expects that. The invariants `AskedOrSleep`, `ArgumentsKept` and `OwnedAllocated`
   say what is true all the same: a wrapper hit between its two instructions
   becomes a `sleep` and no other call, and `malloc` and `realloc` never leave the
   program with a block the kernel thinks is free. What they can do is lose a block,
   or return `NULL`.
2. **sleep** (`SleepReturns`). It waits, with interrupts off, for an interrupt.
   Interrupted at the wrong instruction, any wrapper with a positive first
   argument becomes such a sleep.
3. **Retry** (`RetryReads`). The error message leaves its own function number in
   `ah`. In `BootLoader` a call with that number fails, so one failed read ends in
   a hang; `KernelComplete` holds because of it.
4. **Geometry** (`LoadedInPlace`). Nobody looks whether the BIOS has answered the call
   for the geometry. With the wrong one every read may succeed, and the loader says
   "Kernel successfully loaded!" of other sectors. `SectorsInPlace` and
   `KernelComplete` say what is true all the same: with the right one every sector is
   in its place, and with any one every place was read to.
5. **Floating bus** (`FloatingMeansEmpty`). `ata_floating` reads the status of the
   drive that was selected last. `disk` asks about the slave after the master; on a
   bus without a slave, the next `disk` reads nobody's status and reports the bus,
   and the drive on it, as not detected.
6. **Types** (`TypeOfLocation`). On the secondary bus `ata_type` starts one register
   too far, at LBA high: a drive there is NONE unless LBA high and the drive register
   happen to look like a signature. On the primary bus, a slave that is not there may
   be reported as the master's type, whose registers it shows. `TypesReported` says
   what is true all the same: no drive is given another drive's type, and on the primary
   bus none is missed.

What else the modelling met, stated in the properties rather than as a finding:

- The second stage is read to `es:0x7E00` (`boot.asm`, line 90), and the first write to
  `es` comes later (line 104). A BIOS that enters with another `es`
  than 0 leaves the loader `lost`; `KernelComplete` and `Ends` take that into account.
- A packet drive that is master never sets RDY after a reset, and a floating bus
  reads as busy: `disk` on the one and `ata_identify` and `ata_flush` on the other
  never return, nor does `disk` when the CMOS names a floppy type that does not exist.
  `Hopeless` names the loops and what they wait for, and `CallsReturn` says that a call
  that does not come to one of these returns.
- A line that goes past its row stays on the screen under the next prompt;
  `LineShown` allows that and nothing else.
- `boot.asm` (line 408) leaves it to the kernel to confirm that there is enough high
  memory, and the kernel does not: see the assumptions of the proofs.

## Fairness

- `Heap`: weak fairness of the steps of `kmalloc`. It runs with interrupts off,
  or before they are on: once entered, nothing else runs. Callers need never call.
- `Interrupts`: weak fairness of `kernel_main`'s start, of handlers and of wrappers
  that are under way, because the processor goes on to the next instruction; weak
  fairness of the timer's line being raised, because the PIT is free-running; strong
  fairness of its delivery, since the line may drop before it is acknowledged, but
  not for ever; and strong fairness of `ksync` seeing a multiple of
  `VSYNC_MS`, because it reads `ticks` in a loop many times within the
  millisecond that a value lasts. Nothing is assumed of callers, of other lines or of
  exceptions. Exceptions end the system,
  and `KsyncReturns` says so.
- `BootLoader`: weak fairness of the next step. A loader that is lost runs other code,
  of which nothing is promised; `Ends` says so.
- `Terminal` waits for keys, and nothing is promised of them.
- `Ata`: weak fairness of the driver's steps, and of each busy drive becoming ready:
  that much a drive promises. Nobody has to call. Whether the register then shows what
  the loop waits for is the question.
- `List` has no liveness: its operations are single steps. That their walks end is
  `WellLinked`.

## What is proved

`HeapProofs` proves about `Heap`, for every value of its constants that satisfies
`HeapConstants` and `HeapFits`:

| theorem | statement |
|---|---|
| `Inductive` | `Spec => []IInv` |
| `TypeSafe`, `BlocksTile`, `BlocksOwned`, `ContentsSafe`, `GivesUpOnlyWhenFull`, `PrevDescends` | `Spec => []` of `TypeOK`, `Tiling`, `Ownership`, `ContentsKept`, `FirstFit`, `PrevBehind` |
| `UsedBlocksSafe` | `Spec => UsedBlocksStay` |
| `StatsRight` | `Spec => []StatsAddUp` |
| `Implements` | `Spec => ImplementsStore` |

Assumptions. `HeapConstants` types the constants. `HeapFits` says that high memory
ends below the last word, that it has room for klog's element, rounded up, and two
headers, that no request is so close to a word that rounding it up or adding a header
and the threshold wraps, and that `NULL` is not a call. TLC checks both on the
instances. The code has no such test of high memory:
a BIOS that reports 0 KiB gives `memory_init` a first block of almost 4 GiB, since it
subtracts the header from zero. Nothing in the kernel refuses a request near 4 GiB either; none is made.
As addresses are offsets, the bound on high memory is the size of the address space
and not of what lies above `HEAP_START`; the boot loader reports 16 bits of KiB, which
stays below either.

The argument. The six invariants together are almost inductive. Two facts are
missing. `CallOK` remembers what the call in progress was entered with: its size is
the request rounded up, so the block it gets is large enough for the owner
(`Ownership`) and the sums in `kmalloc` do not wrap (`Tiling`); a realloc's old
block is one somebody other than the log owns, and is smaller than what was asked
for, so that the copy stays inside the new block (`ContentsKept`). `FirstIsKlog` says
that the list has a single block only until klog's first allocation, which always
fits: the branch for an untouched heap, which does not look at its size, is taken
once. `IInv` is all eight.

The proof has one lemma for each action, and first lemmas about the operators. After
`splitblock` the blocks still tile memory and only the one taken is newly used; a
write inside one block touches no other (`Untouching`); every block `kmalloc` may
return, split or whole, meets one and the same list of conditions (`SplitPrepares`,
`WholePrepares`), from which `ReturnKeeps` derives `IInv'` once for all of
`FirstAllocation`, `TakePart` and `TakeWhole`. `UsedBlocksSafe` follows from `IInv`
step by step. For `Implements`, `IInv` shows that what an owner would read is what it
stored (`RegionsAreLive`); a step of the walk is then a stutter, a `Return` is an
`Allocate` or a `Reallocate` because a free block meets no owned one, a `KreallocKeep` is a
`Reallocate` in place, and `OutOfMemory` is `GiveUp`.

`StatsRight` is about the recursive walks of `HeapStats`. `FromTheLast` is induction
down the list, as a statement about a set: a set that contains the last block, and every
block whose next one it contains, contains all. It is proved from the library's theorem that
the strict subsets of a finite set are well-founded, since the blocks from `b` on are
a strict superset of those from `End(b)` on (`LinkFacts`, from `Tiling`). The walks are
well defined (`WalkSums`) because the blocks for which a function with the walk's equation
exists are such a set; what they add up follows in the same way: a walk of ones is the
number of blocks still to come (`WalkCounts`, `WalkCountsUsed`), free and used add up
(`WalksAdd`), and the bytes with a header each are those up to the end of memory
(`WalkMeasures`). `to_data` takes the blocks in use one to one to the owners' pointers
(`UsedAreLive`). The sum is right even where an `int` shows a
size of more than 2 GiB as negative (`SignedAdds`).

`InterruptsProofs` proves every invariant of `Interrupts` (`InterruptsTyped`,
`OnlyThenReady`, `InServiceStays`, `HandlersStayAlone`, `ArgumentsStay`, `AskedStays`,
`OwnedStays`) and the action property `OnlyEaxLost` (`OthersRestored`), for any set of
lines, exceptions, functions, numbers and pointers, and any wrap of `ticks`. The invariants
lean on each other through the stack of frames, so the inductive one says of a frame what
its handler still has to do: `Started` is what `kernel_main` has set up by each of its
steps, `Calling` what a wrapper has put into the registers by each of its, `Handlers` that
a device's handler returns with `BUFFER` 0, and that the handler of a system call
finds the wrapper's arguments in its frame (`AskedOrSleep` is what is left of them when
an interrupt has cleared `eax`). A frame is on top of another only when it is an
exception's, and that one ends in `haltdump`: so the handler that
returns is always alone, and what it restores is the program's. An interrupt after a
wrapper's test takes the block from the program but not from the kernel: what is
delivered is the block or `NULL`, and `OwnedAllocated` holds of either.

`ListProofs` proves every invariant of `List` and that it implements `ListSeq`
(`ListTyped`, `ListLinked`, `ListIndexed`, `ListIsSequence`), for any number of
elements and any values; it assumes only that `NULL` is no address. The inductive invariant
is that there is an order: a sequence of all the elements, without repetition, such
that each one's links are its neighbours in it. Each operation inserts into that order or
removes from it (`Inserted`, `Removed`), which gives the new links and, read as values,
the step of `ListSeq`. What the walks of `list.c` compute is proved
from the order by induction, again as statements about sets (`Upwards`, `Downwards`):
walking back ends at its first element, walking on at its last, and counting `n` from the
first arrives at the `n`th, whichever element the operation was given.

`BootLoaderProofs` proves `TypeOK`, `SectorsInPlace` and `KernelComplete` (`BootTyped`,
`SectorsStay`, `KernelStaysComplete`) for drives of every geometry, whichever calls of the
BIOS fail and whatever the one for the geometry leaves when it does. The last two say of
the order of the sectors only what holds when that call has succeeded (`GeometryKnown`);
that the loader goes on without is finding 4.
`BootConstants` bounds the kernel by 255 sectors, because the
loader keeps the cylinder in a byte, and the attempts by 126, because it compares them as a
signed byte. That a sector lies in its place rests on a fact of
arithmetic: the cylinder, head and sector that are asked for, put together again by the
drive, are the number they were made from (`LbaNamed`). The inductive invariant adds `Asking`, that the
registers hold that address when a read is made, and `Filled`, that memory is written up
to the sector that is next and no further.

`StringsProofs` proves of the operators of `Strings`, for strings of every length
and size, that `string_add` (`AddFits`), `string_addchar` (`AddcharFits`) and
`string_set` (`SetFits`) leave exactly the text they should, in bytes that hold it and
its terminator, and that `string_trim` (`TrimFits`) keeps the text and leaves one byte
too many. `CopiedFits` says the same of a text of any length copied character by
character, which takes induction: there is no induction principle to cite, so the
proof takes the least number of characters after which the copy is wrong (`Least`, a
set of natural numbers has a least element, from the well-foundedness of the
subsets of a finite set) and shows that there is none. `StrcmpEqual` says that
`strcmp` is 0 for equal texts only, which is why `Terminal` compares names with `=`.
The sizes are integers without a bound: a string of 4 GiB does not exist here.

`ScreenProofs` proves, for a screen of any size, that `get_position` gives a cell of
the framebuffer whatever it is asked for (`PositionInBuffer`) and that each operation
stays inside when it starts at such a cell (`PutcharInBuffer`, `ColorInBuffer`,
`PrintInBuffer`, `ScrollInBuffer`), also `kccolor`, whose test compares with `>`:
color bytes are odd and the end is even. `PrintInBuffer` is about one step of the loop of
`kprint`, from a cell to a cell. `CharactersKept`: no two characters of a
`writeline` share a cell, although it counts columns modulo `COLUMNS` and rows by
`COLUMNS - 1`, because a row of the message is never longer than the screen is wide.

`TerminalProofs` proves `CursorInStep`, `PromptOnScreen`, `StringsFit`,
`AliasesDistinct` and `BlocksAccounted` of `Terminal` (`CursorStays`, `PromptStays`,
`StringsStay`, `AliasesStay`, `BlocksStay`), for every size of screen and line, every
prompt and table of commands, and any number of lines entered. The assumptions are those
of the constants: a prompt that is not empty and begins on the screen, command names
without a space. The inductive invariant is three independent parts. `Placed` adds
that the prompt is never empty, or Backspace could put the cursor before it: `cprompt`
refuses an empty one. `Listed` is the aliases: an alias is added only after
`find_alias` has found none, and its name is the first word of the parameters, so it has
no space (`Parts`). `Counted` is the number of blocks as a formula in the number of
lines, aliases and lost strings (`Count`), and `CountedBy` says by how much each may grow
in a step. Each command is then a case of `RunKeeps`.

`TerminalDraws` adds what is on the screen (`Drawn`): the cells from the prompt's row on
that hold something are no more than the prompt, the line and, beyond them, what lines
longer than their row have left, up to `reach`; and `Bounded`, that a path frees no more
blocks than it takes. `LineShown` (`LineStaysShown`) and `TypeOK` (`TerminalTyped`) follow.
Every way to the next prompt clears or scrolls what was there (`NewPromptDraws`), so the
invariant is the same for every command (`RunLeaves`).

`AtaProofs` proves `TypeOK`, `SelectionKnown`, `TypesReported` and `IdentifyRight` of
`Ata` (`AtaTyped`, `SelectionStays`, `TypesStay`, `IdentifyStays`) for every set of
machines and any interleaving of the driver and the drives. The one assumption is that
no slave is attached without a master. The inductive invariant adds `JustReset`, which
follows `disk` from the bus that does not float to `ata_type`: the reset addresses the
master, leaves every signature in place, and the master the driver has waited for keeps
the bus from floating while the slave is asked for; and `Asked`, which says of a packet
drive that is done with IDENTIFY that its signature is back; and `Reported`, which lists all that `ata_type` can
make of a drive, a missing slave and the secondary bus's wrong registers included, and from
which `TypesReported` follows. `IdentifyRight` then
follows: an absent or a packet drive does not show zeros in LBA mid and high. What the
drives do is an assumption of the model (see its environment), so the theorems are about
the driver with drives that behave as it expects.

Only model-checked: liveness (`KmallocReturns`, `KsyncReturns`, `Ends`,
`CallsReturn`), since the prover does not handle fairness here; that kmalloc's
walk ends is liveness too. Every invariant and every action property of the passing runs, and
both refinements but for the fairness of `Heap`, which `HeapStore` does not ask for,
are theorems.

## Not modelled

What is printed and logged, and the colors and characters on the screen; the slave
PIC, which is masked as a whole; the A20 line, the GDT and protected mode; port timing;
the keyboard's scan codes, numbers as text, and the arithmetic but for `clamp`;
`reboot`, which leaves the system; the commands that are declared and not in the
table. `help` copies `commands[num_commands].name`, which does not exist, whenever it
prints its list: what happens then is not the program's to say, and `Terminal` takes it to
be a string of any length. Data races do not arise: there
is one processor, and interrupt handlers share only `ticks` and `BUFFER` with the
program. Pointers that no owner holds (a double
free, a store beyond the block) are outside what `Heap` describes, as the C
code leaves them undefined.

## Plan

Done so far, in order of importance: the heap with its abstract store and its
proofs, interrupts with system calls, the list, the boot loader, strings, terminal and
commands with their proofs, the screen and the disks with theirs. What is left:

1. Proofs: the measures behind the liveness properties, as safety: each step of
   kmalloc's walk and of the boot loader's reads decreases a natural number, so
   that only the fairness is left to TLC.
2. `Terminal`: the list of history lines over `List` and the blocks over
   `HeapStore` instead of counts; the keyboard's table.
3. `Strings`: numbers as text (`tostring`, `strrev`).
