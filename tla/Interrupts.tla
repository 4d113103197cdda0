----------------------------- MODULE Interrupts -----------------------------
(***************************************************************************)
(* Interrupts, from the line a device raises to iretd: the stubs of        *)
(* isr.asm, interrupt_handler, process_irq, send_EOI and process_syscall,  *)
(* with the wrappers of lib/system.c that enter them through int $0x80 and *)
(* the order kernel_main starts it all in.                                 *)
(*                                                                         *)
(* A program instruction, a call inside a handler and the stub's way in    *)
(* and out are one step each, so an interrupt can come between any two     *)
(* instructions of a wrapper.  The slave PIC is masked as a whole          *)
(* (slave_mask) and left out.                                              *)
(*                                                                         *)
(* A definition marked "Fault" belongs to no specification: it is a wrong  *)
(* version of the definition after it, that the properties must refuse.    *)
(***************************************************************************)
EXTENDS Integers, Sequences, FiniteSets

CONSTANTS
  Lines,       \* lines of the master PIC that devices raise
  Exceptions,  \* vectors of the exceptions the processor may raise
  Functions,   \* the wrappers of lib/system.c the program calls
  Numbers,     \* arguments of sleep and malloc
  Pointers,    \* addresses of blocks kmalloc has to give
  MaxOwned,    \* bound: the program asks for no more blocks while it holds so many
  TICKS,       \* 2^32: ticks wraps here
  VSYNC_MS

ASSUME InterruptsConstants ==
  /\ Lines \subseteq 0 .. 7 /\ Exceptions \subseteq 0 .. 31
  /\ Functions \subseteq {"sleep", "system", "malloc", "realloc", "free", "sync"}
  /\ Numbers \subseteq Int /\ Pointers \subseteq Nat \ {0} /\ MaxOwned \in Nat
  /\ TICKS \in Nat \ {0} /\ VSYNC_MS \in Nat \ {0}

VARIABLES
  boot,       \* what kernel_main is running
  idt,        \* TRUE once lidt has loaded the IDT
  eflags_if,  \* the interrupt flag
  regs,       \* eax, ebx and ecx
  stack,      \* frames of the interrupts being handled, innermost first
  BUFFER,     \* the word of isr.asm the return value goes through
  offset,     \* the PIC: vector of line 0 ...
  masked,     \* ... lines masked ...
  irr,        \* ... lines raised and not yet delivered ...
  isr,        \* ... lines delivered and not yet acknowledged
  ticks,
  allocated,  \* blocks the kernel heap counts as used
  pc,         \* where the program is
  call,       \* the wrapper it is in, with its arguments, or NONE
  owned       \* the pointers malloc and realloc gave the program

cpu == <<eflags_if, regs, stack, BUFFER>>
pic == <<offset, masked, irr, isr>>
program == <<pc, call, owned>>
vars == <<boot, idt, cpu, pic, ticks, allocated, program>>

NULL == 0
NONE == [fn |-> "none", ebx |-> 0, ecx |-> 0]
MASTER_PIC_OFFSET == 32

\* The number process_syscall knows a wrapper by.
Id == [sleep |-> 0, system |-> 1, malloc |-> 3, realloc |-> 4, free |-> 5, sync |-> 15]

Init ==
  /\ boot = "interrupts_init" /\ idt = FALSE
  /\ eflags_if = FALSE /\ regs = [eax |-> 0, ebx |-> 0, ecx |-> 0]
  /\ stack = <<>> /\ BUFFER = 0
  /\ offset = 8 /\ masked = {} /\ irr = {} /\ isr = {}
  /\ ticks = 0 /\ allocated = {}
  /\ pc = "code" /\ call = NONE /\ owned = {}

-----------------------------------------------------------------------------
(* kernel_main.                                                              *)

Then(this, next) == boot = this /\ boot' = next /\ pc = "code" /\ stack = <<>>

interrupts_init ==
  /\ Then("interrupts_init", "memory_init") /\ idt' = TRUE
  /\ UNCHANGED <<cpu, pic, ticks, allocated, program>>

\* memory_init and graphics_init log, and klog calls malloc.
memory_init ==
  /\ Then("memory_init", "graphics_init")
  /\ UNCHANGED <<idt, cpu, pic, ticks, allocated, program>>

graphics_init ==
  /\ Then("graphics_init", "PIC_init")
  /\ UNCHANGED <<idt, cpu, pic, ticks, allocated, program>>

PIC_init ==
  /\ Then("PIC_init", "timer_init")
  /\ offset' = MASTER_PIC_OFFSET /\ masked' = 2 .. 7 /\ irr' = {} /\ isr' = {}
  /\ UNCHANGED <<idt, cpu, ticks, allocated, program>>

\* timer_init, then enable_interrupts.
timer_init ==
  /\ Then("timer_init", "terminal") /\ eflags_if' = TRUE
  /\ UNCHANGED <<idt, regs, stack, BUFFER, pic, ticks, allocated, program>>

\* run_terminal has returned: disable_interrupts, and hang.
Shutdown ==
  /\ Then("terminal", "shutdown") /\ eflags_if' = FALSE
  /\ UNCHANGED <<idt, regs, stack, BUFFER, pic, ticks, allocated, program>>

-----------------------------------------------------------------------------
(* How an interrupt is entered and left.                                     *)

\* Fault: a trap gate, which leaves the interrupt flag alone.
TakeTrap(num) ==
  /\ stack' = <<[num |-> num, regs |-> regs, eflags_if |-> eflags_if, buffer |-> BUFFER,
                 at |-> "interrupt_handler", goal |-> 0]>> \o stack
  /\ UNCHANGED eflags_if

\* The processor pushes EFLAGS and clears IF; the stub pushes BUFFER and the
\* registers.
Take(num) ==
  /\ stack' = <<[num |-> num, regs |-> regs, eflags_if |-> eflags_if, buffer |-> BUFFER,
                 at |-> "interrupt_handler", goal |-> 0]>> \o stack
  /\ eflags_if' = FALSE

Handling(at) == stack # <<>> /\ Head(stack).at = at
GoTo(at) == stack' = <<[Head(stack) EXCEPT !.at = at]>> \o Tail(stack)

\* interrupt_handler returns v, and the stub stores it in BUFFER.  By then C
\* code has used eax and ecx for its own ends.
Answer(v) ==
  /\ GoTo("iretd") /\ BUFFER' = v
  /\ regs' = [regs EXCEPT !.eax = v, !.ecx = 0]

\* Fault: the registers saved on the way in are dropped on the way out.
IretdDropping ==
  /\ Handling("iretd")
  /\ regs' = [regs EXCEPT !.eax = BUFFER]
  /\ BUFFER' = Head(stack).buffer /\ eflags_if' = Head(stack).eflags_if
  /\ stack' = Tail(stack)
  /\ UNCHANGED <<boot, idt, pic, ticks, allocated, program>>

\* Fault: interrupts are on after every interrupt.
IretdSti ==
  /\ Handling("iretd")
  /\ regs' = [Head(stack).regs EXCEPT !.eax = BUFFER]
  /\ BUFFER' = Head(stack).buffer /\ eflags_if' = TRUE
  /\ stack' = Tail(stack)
  /\ UNCHANGED <<boot, idt, pic, ticks, allocated, program>>

\* The stub restores every register but eax, which gets the return value.
Iretd ==
  /\ Handling("iretd")
  /\ regs' = [Head(stack).regs EXCEPT !.eax = BUFFER]
  /\ BUFFER' = Head(stack).buffer /\ eflags_if' = Head(stack).eflags_if
  /\ stack' = Tail(stack)
  /\ UNCHANGED <<boot, idt, pic, ticks, allocated, program>>

\* The code running, a handler's too, raises an exception.  Its handler goes
\* to haltdump, which never returns.
Exception(n) ==
  /\ idt /\ (stack # <<>> => Head(stack).num >= 32)
  /\ Take(n)
  /\ UNCHANGED <<boot, idt, regs, BUFFER, pic, ticks, allocated, program>>

HandleException ==
  /\ Handling("interrupt_handler") /\ Head(stack).num < 32
  /\ GoTo("haltdump")
  /\ UNCHANGED <<boot, idt, eflags_if, regs, BUFFER, pic, ticks, allocated, program>>

-----------------------------------------------------------------------------
(* The PIC and the IRQs.                                                     *)

\* The PIC latches one rise of a line until it is delivered.
Raise(l) ==
  /\ l \notin irr /\ irr' = irr \cup {l}
  /\ UNCHANGED <<boot, idt, cpu, offset, masked, isr, ticks, allocated, program>>

\* Line l is the one the PIC interrupts the processor for.
Pending(l) ==
  /\ l \in irr \ masked
  /\ \A k \in irr \ masked : l <= k
  /\ \A k \in isr : l < k

Deliver(l) ==
  /\ eflags_if /\ Pending(l)
  /\ irr' = irr \ {l} /\ isr' = isr \cup {l}
  /\ Take(offset + l)
  /\ UNCHANGED <<boot, idt, regs, BUFFER, offset, masked, ticks, allocated, program>>

\* The line has dropped before the processor acknowledges it: the PIC gives
\* the vector of line 7 and puts no line in service.
Spurious(l) ==
  /\ eflags_if /\ Pending(l)
  /\ irr' = irr \ {l}
  /\ Take(offset + 7)
  /\ UNCHANGED <<boot, idt, regs, BUFFER, offset, masked, isr, ticks, allocated, program>>

Irq == Head(stack).num - MASTER_PIC_OFFSET

\* Fault: counts the keyboard's interrupts.
process_irq_keyboard ==
  /\ Handling("interrupt_handler") /\ Irq \in 0 .. 15
  /\ ticks' = IF Irq = 1 THEN (ticks + 1) % TICKS ELSE ticks
  /\ GoTo("send_EOI")
  /\ UNCHANGED <<boot, idt, eflags_if, regs, BUFFER, pic, allocated, program>>

\* interrupt_handler on a PIC vector: the timer counts, the rest do nothing.
process_irq ==
  /\ Handling("interrupt_handler") /\ Irq \in 0 .. 15
  /\ ticks' = IF Irq = 0 THEN (ticks + 1) % TICKS ELSE ticks
  /\ GoTo("send_EOI")
  /\ UNCHANGED <<boot, idt, eflags_if, regs, BUFFER, pic, allocated, program>>

\* Fault: acknowledges the timer only.
send_EOI_timer ==
  /\ Handling("send_EOI")
  /\ isr' = IF Irq = 0 THEN isr \ {0} ELSE isr
  /\ Answer(0)
  /\ UNCHANGED <<boot, idt, eflags_if, offset, masked, irr, ticks, allocated, program>>

\* Fault: returns the number of the IRQ.
send_EOI_number ==
  /\ Handling("send_EOI")
  /\ isr' = IF Irq = 7 /\ 7 \notin irr THEN isr ELSE {l \in isr : \E k \in isr : k < l}
  /\ Answer(Irq)
  /\ UNCHANGED <<boot, idt, eflags_if, offset, masked, irr, ticks, allocated, program>>

\* A vector of line 7 is spurious unless line 7 is raised; any other is
\* acknowledged, which takes the first line in service out of it.
send_EOI ==
  /\ Handling("send_EOI")
  /\ isr' = IF Irq = 7 /\ 7 \notin irr THEN isr ELSE {l \in isr : \E k \in isr : k < l}
  /\ Answer(0)
  /\ UNCHANGED <<boot, idt, eflags_if, offset, masked, irr, ticks, allocated, program>>

-----------------------------------------------------------------------------
(* process_syscall, on the registers the stub pushed.                        *)

Syscall(fn) ==
  /\ Handling("interrupt_handler") /\ Head(stack).num = 128
  /\ Head(stack).regs.eax = Id[fn]
  /\ UNCHANGED <<boot, idt, eflags_if, pic, ticks, program>>

ebx == Head(stack).regs.ebx
ecx == Head(stack).regs.ecx

\* ksleep computes its goal, unless the time is not positive ...
ksleep ==
  /\ Syscall("sleep") /\ UNCHANGED allocated
  /\ \/ ebx <= 0 /\ Answer(NULL)
     \/ /\ ebx > 0 /\ UNCHANGED <<regs, BUFFER>>
        /\ stack' = <<[Head(stack) EXCEPT !.at = "ksleep", !.goal = (ticks + ebx) % TICKS]>>
                      \o Tail(stack)

\* ... and spins until ticks reaches it.
KsleepDone ==
  /\ Handling("ksleep") /\ ticks >= Head(stack).goal
  /\ Answer(NULL)
  /\ UNCHANGED <<boot, idt, eflags_if, pic, ticks, allocated, program>>

ksync ==
  /\ Syscall("sync") /\ GoTo("ksync") /\ UNCHANGED <<regs, BUFFER, allocated>>

KsyncHandled ==
  /\ Handling("ksync") /\ ticks % VSYNC_MS = 0
  /\ Answer(NULL)
  /\ UNCHANGED <<boot, idt, eflags_if, pic, ticks, allocated, program>>

\* Stands for every call that neither blocks nor touches the heap and the
\* ticks: clear, memcpy, memset and those that draw answer NULL as well.
system == Syscall("system") /\ Answer(NULL) /\ UNCHANGED allocated

\* A block that is free and large enough, if there is one.
kmalloc ==
  /\ Syscall("malloc")
  /\ \/ \E p \in Pointers \ allocated : Answer(p) /\ allocated' = allocated \cup {p}
     \/ Pointers \subseteq allocated /\ GoTo("haltdump") /\ UNCHANGED <<regs, BUFFER, allocated>>

\* Fault: kfree merges blocks, so that a block freed by a call whose answer is
\* lost may be large enough for itself when realloc asks again.
krealloc_merging ==
  /\ Syscall("realloc")
  /\ LET large == Pointers \ allocated
     IN  \/ ecx = 0 /\ Answer(ebx) /\ UNCHANGED allocated
         \/ /\ ecx = 1
            /\ \E p \in large : Answer(p) /\ allocated' = (allocated \cup {p}) \ {ebx}
         \/ ecx = 1 /\ large = {} /\ GoTo("haltdump") /\ UNCHANGED <<regs, BUFFER, allocated>>

\* A block to be outgrown (ecx = 1) cannot hold the new size itself.  The header
\* of NULL lies in the ROM below 4 GiB: of any size, and no write changes it.
krealloc ==
  /\ Syscall("realloc")
  /\ LET large == Pointers \ (allocated \cup {ebx})
     IN  \/ ecx = 0 /\ Answer(ebx) /\ UNCHANGED allocated
         \/ /\ ecx = 1
            /\ \E p \in large : Answer(p) /\ allocated' = (allocated \cup {p}) \ {ebx}
         \/ ecx = 1 /\ large = {} /\ GoTo("haltdump") /\ UNCHANGED <<regs, BUFFER, allocated>>

kfree == Syscall("free") /\ Answer(NULL) /\ allocated' = allocated \ {ebx}

process_syscall == ksleep \/ ksync \/ system \/ kmalloc \/ krealloc \/ kfree

-----------------------------------------------------------------------------
(* The program: kernel and library code that calls the wrappers.             *)

Running == stack = <<>> /\ boot \in {"memory_init", "graphics_init", "terminal"}

\* While the kernel starts, klog is all that calls wrappers.
Allowed(fn) == fn \in Functions /\ (boot = "terminal" \/ fn = "malloc")

\* The program calls a wrapper, and gives up the block it frees or grows.
Call(fn, arg, more) ==
  /\ Running /\ pc = "code" /\ Allowed(fn)
  /\ pc' = "wrapper" /\ call' = [fn |-> fn, ebx |-> arg, ecx |-> more]
  /\ regs' = [regs EXCEPT !.ebx = arg, !.ecx = more]
  /\ owned' = IF fn \in {"realloc", "free"} THEN owned \ {arg} ELSE owned
  /\ UNCHANGED <<boot, idt, eflags_if, stack, BUFFER, pic, ticks, allocated>>

\* movl $id, %eax
MoveId ==
  /\ Running /\ pc = "wrapper"
  /\ pc' = "loaded" /\ regs' = [regs EXCEPT !.eax = Id[call.fn]]
  /\ UNCHANGED <<boot, idt, eflags_if, stack, BUFFER, pic, ticks, allocated, call, owned>>

\* int $0x80
Int80 ==
  /\ Running /\ pc = "loaded" /\ idt
  /\ pc' = "answered" /\ Take(128)
  /\ UNCHANGED <<boot, idt, regs, BUFFER, pic, ticks, allocated, call, owned>>

Allocates == call.fn \in {"malloc", "realloc"}

\* while (ptr == NULL): once more, with the arguments where they are.
Again ==
  /\ Running /\ pc = "answered" /\ Allocates /\ regs.eax = NULL
  /\ pc' = "wrapper"
  /\ UNCHANGED <<boot, idt, cpu, pic, ticks, allocated, call, owned>>

\* Any other answer ends the loop ...
Tested ==
  /\ Running /\ pc = "answered" /\ Allocates /\ regs.eax # NULL
  /\ pc' = "tested"
  /\ UNCHANGED <<boot, idt, cpu, pic, ticks, allocated, call, owned>>

\* ... and the wrapper returns what is in eax by then: an interrupt after the
\* test has made it NULL.
Done ==
  /\ Running /\ pc = (IF Allocates THEN "tested" ELSE "answered")
  /\ pc' = "code" /\ call' = NONE
  /\ owned' = IF Allocates THEN owned \cup {regs.eax} ELSE owned
  /\ UNCHANGED <<boot, idt, cpu, pic, ticks, allocated>>

\* run_terminal calls ksync itself, with interrupts on.
Ksync ==
  /\ Running /\ boot = "terminal" /\ pc = "code" /\ pc' = "ksync"
  /\ UNCHANGED <<boot, idt, cpu, pic, ticks, allocated, call, owned>>

KsyncDone ==
  /\ Running /\ pc = "ksync" /\ ticks % VSYNC_MS = 0 /\ pc' = "code"
  /\ UNCHANGED <<boot, idt, cpu, pic, ticks, allocated, call, owned>>

\* CMOS_read, which commands call: cli, the two port accesses ...
CMOS_read ==
  /\ Running /\ boot = "terminal" /\ pc = "code" /\ pc' = "cmos" /\ eflags_if' = FALSE
  /\ UNCHANGED <<boot, idt, regs, stack, BUFFER, pic, ticks, allocated, call, owned>>

\* ... and sti, whatever the flag was before.
CmosDone ==
  /\ Running /\ pc = "cmos" /\ pc' = "code" /\ eflags_if' = TRUE
  /\ UNCHANGED <<boot, idt, regs, stack, BUFFER, pic, ticks, allocated, call, owned>>

Wrapper ==
  \/ \E n \in Numbers : Call("sleep", n, 0)
  \/ \E n \in Numbers : n > 0 /\ Cardinality(owned) < MaxOwned /\ Call("malloc", n, 0)
  \/ Call("sync", 0, 0) \/ Call("system", 0, 0)
  \/ \E p \in owned : Call("free", p, 0) \/ \E grows \in {0, 1} : Call("realloc", p, grows)

\* Code that waits for what never comes: a spin on ticks, haltdump, shutdown.
Spin ==
  /\ \/ Handling("haltdump") \/ boot = "shutdown"
     \/ Handling("ksleep") /\ ticks < Head(stack).goal
     \/ Handling("ksync") /\ ticks % VSYNC_MS # 0
  /\ UNCHANGED vars

Boot == interrupts_init \/ memory_init \/ graphics_init \/ PIC_init \/ timer_init
Handler ==
  HandleException \/ process_irq \/ send_EOI \/ process_syscall \/ KsleepDone
  \/ KsyncHandled \/ Iretd
InWrapper == MoveId \/ Int80 \/ Again \/ Tested \/ Done \/ CmosDone

Next ==
  \/ Boot \/ Shutdown
  \/ \E l \in Lines : Raise(l) \/ Deliver(l) \/ Spurious(l)
  \/ \E n \in Exceptions : Exception(n)
  \/ Handler \/ Wrapper \/ InWrapper \/ CMOS_read \/ Ksync \/ KsyncDone \/ Spin

\* The processor runs whatever code it is in, and the PIT ticks.  A line may
\* drop before it is acknowledged, but not every time; ksync reads ticks many
\* times a tick, so it does not miss every multiple of VSYNC_MS.
Fairness ==
  /\ WF_vars(Boot) /\ WF_vars(Handler) /\ WF_vars(InWrapper)
  /\ WF_vars(Raise(0)) /\ SF_vars(Deliver(0)) /\ SF_vars(KsyncDone)

Spec == Init /\ [][Next]_vars /\ Fairness

-----------------------------------------------------------------------------
Registers == [eax : Int, ebx : Int, ecx : Int]
Frame ==
  [num : 0 .. 255, regs : Registers, eflags_if : BOOLEAN, buffer : Int, goal : 0 .. TICKS - 1,
   at : {"interrupt_handler", "haltdump", "send_EOI", "ksleep", "ksync", "iretd"}]

\* Every variable has its type.
TypeOK ==
  /\ boot \in {"interrupts_init", "memory_init", "graphics_init", "PIC_init", "timer_init",
               "terminal", "shutdown"}
  /\ idt \in BOOLEAN /\ eflags_if \in BOOLEAN
  /\ regs \in Registers /\ stack \in Seq(Frame) /\ BUFFER \in Int
  /\ offset \in {8, MASTER_PIC_OFFSET} /\ masked \subseteq 0 .. 7
  /\ irr \subseteq Lines /\ isr \subseteq Lines
  /\ ticks \in 0 .. TICKS - 1
  /\ allocated \subseteq Pointers /\ owned \subseteq Pointers \cup {NULL}
  /\ pc \in {"code", "wrapper", "loaded", "answered", "tested", "ksync", "cmos"}
  /\ call \in [fn : Functions \cup {"none"}, ebx : Int, ecx : {0, 1}]

\* Interrupts are off until the IDT is loaded and the PIC moved away from the
\* exceptions' vectors, although system calls are made, and return with
\* iretd, before that.
OnlyWhenReady ==
  eflags_if \/ (\E i \in DOMAIN stack : stack[i].eflags_if) =>
    idt /\ offset = MASTER_PIC_OFFSET /\ boot \in {"terminal", "shutdown"}

\* The PIC holds a line in service exactly while the handler of its IRQ is
\* still to acknowledge it, so no line is blocked when no handler runs; a
\* spurious interrupt is never acknowledged for another line.
InServiceMatches ==
  LET unacknowledged == {i \in DOMAIN stack : /\ stack[i].num \in 32 .. 38
                                              /\ stack[i].at \in {"interrupt_handler", "send_EOI"}}
  IN  boot \in {"terminal", "shutdown"} =>
        isr = {stack[i].num - MASTER_PIC_OFFSET : i \in unacknowledged}

\* Interrupts are off in every handler, so only an exception comes on top of
\* one and BUFFER is never used by two handlers at once.
HandlersAlone ==
  /\ stack # <<>> => ~eflags_if
  /\ \A i \in DOMAIN stack : i < Len(stack) => stack[i].num < 32

\* The arguments of a wrapper are still in ebx and ecx when int $0x80 comes,
\* the second time round the loop of malloc and realloc too.
ArgumentsKept ==
  call # NONE /\ stack = <<>> => regs.ebx = call.ebx /\ regs.ecx = call.ecx

\* Whatever an interrupt did to eax, the kernel runs the call the wrapper
\* asked for or sleep, never another one.
AskedOrSleep ==
  \A i \in DOMAIN stack :
    stack[i].num = 128 => stack[i].regs.eax \in {Id[call.fn], Id["sleep"]}

\* A pointer the program holds is NULL, or of a block the kernel counts as used,
\* although a lost answer makes realloc ask again for a block it has moved.
OwnedAllocated == owned \ {NULL} \subseteq allocated

\* malloc and realloc "Allocate a chunk of memory from the heap" (system.h), and
\* loop until they have one: they never hand NULL to the program.
NeverNull == NULL \notin owned

\* ksync, called with interrupts on, comes back at a multiple of VSYNC_MS,
\* unless an exception has put an end to everything.
KsyncReturns ==
  pc = "ksync" ~> pc = "code" \/ \E i \in DOMAIN stack : stack[i].num < 32

\* The stub "saves all registers" and "restores registers" (isr.asm), but puts
\* its answer into one: an interrupt that is no system call leaves them as they
\* were but for eax, which it makes 0, NULL and the number of sleep.
InterruptReturn == Iretd /\ Head(stack).num # 128
OnlyEaxLost ==
  [][InterruptReturn => regs' = [Head(stack).regs EXCEPT !.eax = NULL]]_vars

\* sleep sleeps for x milliseconds (system.h) and then returns.
SleepReturns == pc = "answered" /\ call.fn = "sleep" ~> pc = "code"
=============================================================================
