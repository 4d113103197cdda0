-------------------------- MODULE InterruptsProofs --------------------------
(***************************************************************************)
(* Interrupts and system calls, proved for any lines, numbers, blocks and  *)
(* exceptions, and whatever line rises between which two instructions.     *)
(***************************************************************************)
EXTENDS Interrupts, TLAPS

\* What kernel_main has done so far: an IDT before anything can use it, and the
\* PIC moved, all but the timer and the keyboard masked, before interrupts are on.
Started ==
  /\ boot # "interrupts_init" => idt
  /\ boot \in {"timer_init", "terminal", "shutdown"} =>
       offset = MASTER_PIC_OFFSET /\ masked = 2 .. 7
  /\ eflags_if => boot \in {"terminal", "shutdown"}
  /\ pc = "cmos" => boot = "terminal"

\* The arguments of the call the program is in, if it is in one.
Kept(r) == call # NONE => r.ebx = call.ebx /\ r.ecx = call.ecx

\* What eax may hold when int $0x80 comes ...
AskedFor(eax) == eax \in {Id[call.fn], Id["sleep"]}
\* ... and when the wrapper looks at the answer, and returns it.
Answered(eax) == Allocates => eax \in allocated \cup {NULL}

\* The call the program is in: a block it gives away is not its own any more,
\* and is still the kernel's, or NULL, unless it may move.
Calling ==
  /\ call # NONE <=> pc \in {"wrapper", "loaded", "answered", "tested"}
  /\ call # NONE => call.fn \in Functions
  /\ call.fn \in {"free", "realloc"} => call.ebx \notin owned
  /\ call.fn = "realloc" /\ call.ecx = 0 => call.ebx \in allocated \cup {NULL}
  /\ stack = <<>> => /\ Kept(regs)
                     /\ pc = "loaded" => AskedFor(regs.eax)
                     /\ pc \in {"answered", "tested"} => Answered(regs.eax)

\* What holds of the handler of an exception, of an IRQ and of a system call.
OfException(f) == f.num < 32 /\ f.at \in {"interrupt_handler", "haltdump"}
OfIrq(f) ==
  /\ f.num \in 32 .. 39 /\ f.at \in {"interrupt_handler", "send_EOI", "iretd"}
  /\ Kept(f.regs) /\ (f.at = "iretd" => BUFFER = NULL)
OfSyscall(f) ==
  /\ f.num = 128 /\ f.at \in {"interrupt_handler", "ksleep", "ksync", "haltdump", "iretd"}
  /\ pc = "answered" /\ Kept(f.regs) /\ AskedFor(f.regs.eax)
  /\ f.at = "iretd" => Answered(BUFFER)

Handled(f) ==
  /\ f.eflags_if => boot \in {"terminal", "shutdown"}
  /\ OfException(f) \/ OfIrq(f) \/ OfSyscall(f)

Handlers == \A i \in DOMAIN stack : Handled(stack[i])

\* The line the handler at the bottom has to acknowledge.
Unacknowledged(f) ==
  {l \in 0 .. 6 : f.num = MASTER_PIC_OFFSET + l /\ f.at \in {"interrupt_handler", "send_EOI"}}
InService ==
  IF stack = <<>> THEN isr = {}
  ELSE isr = Unacknowledged(stack[Len(stack)]) /\ isr \subseteq {0, 1}

\* What holds in every state.
IInv ==
  /\ TypeOK /\ Started /\ Calling /\ Handlers /\ HandlersAlone /\ InService
  /\ OwnedAllocated

-----------------------------------------------------------------------------
(* The stack of frames.                                                      *)

LEMMA Frames ==
  ASSUME NEW S, NEW s \in Seq(S)
  PROVE  /\ s = <<>> <=> Len(s) = 0
         /\ DOMAIN s = 1 .. Len(s)
         /\ s # <<>> => /\ Head(s) = s[1] /\ Head(s) \in S /\ Len(s) \in Nat \ {0}
                        /\ Tail(s) \in Seq(S) /\ Len(Tail(s)) = Len(s) - 1
                        /\ \A i \in 1 .. Len(s) - 1 : Tail(s)[i] = s[i + 1]
OBVIOUS

LEMMA Pushed ==
  ASSUME NEW S, NEW s \in Seq(S), NEW f \in S
  PROVE  /\ <<f>> \o s \in Seq(S) /\ Len(<<f>> \o s) = Len(s) + 1
         /\ (<<f>> \o s)[1] = f /\ <<f>> \o s # <<>>
         /\ \A i \in 1 .. Len(s) : (<<f>> \o s)[i + 1] = s[i]
<1>1. \A n \in Nat : n + 1 # 0
  OBVIOUS
<1> QED  BY <1>1

LEMMA Replaced ==
  ASSUME NEW S, NEW s \in Seq(S), s # <<>>, NEW f \in S
  PROVE  LET t == <<f>> \o Tail(s)
         IN  /\ t \in Seq(S) /\ t # <<>> /\ Len(t) = Len(s) /\ DOMAIN t = DOMAIN s
             /\ t[1] = f /\ \A i \in DOMAIN s : i # 1 => t[i] = s[i]
<1> DEFINE t == <<f>> \o Tail(s)
<1>1. /\ Len(s) \in Nat \ {0} /\ DOMAIN s = 1 .. Len(s)
      /\ Tail(s) \in Seq(S) /\ Len(Tail(s)) = Len(s) - 1
      /\ \A i \in 1 .. Len(s) - 1 : Tail(s)[i] = s[i + 1]
  BY Frames
<1>2. PICK n \in Nat \ {0} : n = Len(s)
  BY <1>1
<1>3. /\ t \in Seq(S) /\ Len(t) = (n - 1) + 1 /\ t[1] = f /\ t # <<>>
      /\ \A i \in 1 .. n - 1 : t[i + 1] = Tail(s)[i]
  BY <1>1, <1>2, Pushed
<1> HIDE DEF t
<1>4. Len(t) = n /\ DOMAIN t = 1 .. n
  <2>1. Len(t) = n
    BY <1>3
  <2> QED  BY <1>3, <2>1, Frames
<1>5. ASSUME NEW i \in 1 .. n, i # 1 PROVE t[i] = s[i]
  <2>1. PICK j \in 1 .. n - 1 : i = j + 1
    <3>1. i - 1 \in 1 .. n - 1 /\ i = (i - 1) + 1
      BY <1>5
    <3> QED  BY <3>1
  <2> QED  BY <1>1, <1>2, <1>3, <2>1
<1>6. /\ t \in Seq(S) /\ t # <<>> /\ Len(t) = Len(s) /\ DOMAIN t = DOMAIN s
      /\ t[1] = f /\ \A i \in DOMAIN s : i # 1 => t[i] = s[i]
  BY <1>1, <1>2, <1>3, <1>4, <1>5
<1> QED  BY <1>6 DEF t

\* What the processor and the stub push.
LEMMA Taken ==
  ASSUME TypeOK, NEW num \in 0 .. 255, Take(num)
  PROVE  \E f \in Frame :
           /\ f.num = num /\ f.regs = regs /\ f.eflags_if = eflags_if
           /\ f.at = "interrupt_handler"
           /\ stack' \in Seq(Frame) /\ Len(stack') = Len(stack) + 1
           /\ stack'[1] = f /\ stack' # <<>>
           /\ \A i \in 1 .. Len(stack) : stack'[i + 1] = stack[i]
<1> DEFINE f == [num |-> num, regs |-> regs, eflags_if |-> eflags_if, buffer |-> BUFFER,
                 at |-> "interrupt_handler", goal |-> 0]
<1>1. f \in Frame
  BY InterruptsConstants DEF TypeOK, Frame
<1>2. stack \in Seq(Frame) /\ stack' = <<f>> \o stack
  BY DEF Take, TypeOK
<1>3. f.num = num /\ f.regs = regs /\ f.eflags_if = eflags_if /\ f.at = "interrupt_handler"
  OBVIOUS
<1> HIDE DEF f
<1>4. /\ stack' \in Seq(Frame) /\ Len(stack') = Len(stack) + 1
      /\ stack'[1] = f /\ stack' # <<>>
      /\ \A i \in 1 .. Len(stack) : stack'[i + 1] = stack[i]
  BY <1>1, <1>2, Pushed
<1> QED  BY <1>1, <1>3, <1>4

\* A handler other than an exception's is alone, and a step of it stays alone.
LEMMA Alone ==
  ASSUME IInv, stack # <<>>, Head(stack).num >= 32
  PROVE  /\ Len(stack) = 1 /\ stack[1] = Head(stack) /\ Tail(stack) = <<>>
         /\ Tail(stack) \in Seq(Frame) /\ Len(Tail(stack)) = 0
         /\ Head(stack) \in Frame /\ Handled(Head(stack)) /\ ~eflags_if
         /\ isr = Unacknowledged(Head(stack)) /\ isr \subseteq {0, 1}
<1>1. /\ stack \in Seq(Frame) /\ HandlersAlone /\ Handlers /\ InService
  BY DEF IInv, TypeOK
<1>2. Head(stack) = stack[1] /\ Head(stack) \in Frame /\ Len(stack) \in Nat \ {0}
  BY <1>1, Frames
<1>3. stack[1].num \in 0 .. 255
  BY <1>2 DEF Frame
<1>4. Len(stack) = 1
  <2>1. PICK n \in Nat \ {0} : n = Len(stack)
    BY <1>2
  <2>2. DOMAIN stack = 1 .. n
    BY <1>1, <2>1
  <2>3. 1 < n => stack[1].num < 32
    BY <1>1, <2>1, <2>2 DEF HandlersAlone
  <2>4. PICK m \in 0 .. 255 : m = stack[1].num /\ m >= 32
    BY <1>2, <1>3
  <2>5. ~ 1 < n
    BY <2>3, <2>4
  <2>6. n = 1
    BY <2>5
  <2> QED  BY <2>1, <2>6
<1>5. Tail(stack) = <<>> /\ Tail(stack) \in Seq(Frame) /\ Len(Tail(stack)) = 0
  <2>1. Tail(stack) \in Seq(Frame) /\ Len(Tail(stack)) = 0
    BY <1>1, <1>4, Frames
  <2> QED  BY <2>1, Frames
<1> QED  BY <1>1, <1>2, <1>4, <1>5 DEF Handlers, HandlersAlone, InService

LEMMA HandlerStep ==
  ASSUME IInv, stack # <<>>, Head(stack).num >= 32,
         NEW g \in Frame, g.num = Head(stack).num, stack' = <<g>> \o Tail(stack),
         eflags_if' = eflags_if, Handled(g)'
  PROVE  /\ stack' \in Seq(Frame) /\ stack' # <<>> /\ stack'[Len(stack')] = g
         /\ Handlers' /\ HandlersAlone'
<1>1. Len(stack) = 1 /\ Tail(stack) = <<>> /\ ~eflags_if
  BY Alone
<1>2. stack' \in Seq(Frame) /\ stack' # <<>> /\ Len(stack') = 1 /\ stack'[1] = g
  BY Alone, Pushed
<1>3. DOMAIN stack' = {1}
  <2>1. DOMAIN stack' = 1 .. Len(stack')
    BY <1>2, Frames
  <2>2. 1 .. 1 = {1}
    OBVIOUS
  <2> QED  BY <1>2, <2>1, <2>2
<1>4. Handlers'
  BY <1>2, <1>3 DEF Handlers
<1>5. HandlersAlone'
  BY <1>1, <1>2, <1>3 DEF HandlersAlone
<1> QED  BY <1>2, <1>4, <1>5

\* What a program step leaves to show: no handler runs before or after it.
LEMMA NoHandler ==
  ASSUME IInv, stack = <<>>, stack' = stack, isr' = isr
  PROVE  Handlers' /\ HandlersAlone' /\ InService'
BY DEF IInv, Handlers, HandlersAlone, InService

-----------------------------------------------------------------------------
(* kernel_main and the program: no handler runs.                             *)

LEMMA InitIInv == Init => IInv
<1> SUFFICES ASSUME Init PROVE IInv
  OBVIOUS
<1>1. TypeOK
  <2>1. regs \in Registers /\ stack \in Seq(Frame)
    BY DEF Init, Registers
  <2>2. ticks \in 0 .. TICKS - 1
    BY InterruptsConstants DEF Init
  <2>3. call \in [fn : Functions \cup {"none"}, ebx : Int, ecx : {0, 1}]
    BY DEF Init, NONE
  <2>4. /\ boot = "interrupts_init" /\ idt = FALSE /\ eflags_if = FALSE /\ BUFFER = 0
        /\ offset = 8 /\ masked = {} /\ irr = {} /\ isr = {}
        /\ allocated = {} /\ pc = "code" /\ owned = {}
    BY DEF Init
  <2>5. idt \in BOOLEAN /\ eflags_if \in BOOLEAN
    BY <2>4, Zenon
  <2>6. /\ BUFFER \in Int /\ offset \in {8, MASTER_PIC_OFFSET} /\ masked \subseteq 0 .. 7
        /\ irr \subseteq Lines /\ isr \subseteq Lines /\ allocated \subseteq Pointers
        /\ owned \subseteq Pointers \cup {NULL}
    BY <2>4
  <2> QED  BY <2>1, <2>2, <2>3, <2>4, <2>5, <2>6 DEF TypeOK
<1>2. Started /\ Calling /\ InService /\ OwnedAllocated
  BY DEF Init, Started, Calling, Kept, NONE, InService, OwnedAllocated
<1>3. Handlers /\ HandlersAlone
  BY DEF Init, Handlers, HandlersAlone
<1> QED  BY <1>1, <1>2, <1>3 DEF IInv

LEMMA BootKeeps ==
  ASSUME IInv, Boot \/ Shutdown
  PROVE  IInv'
<1> USE DEF Boot, Shutdown, interrupts_init, memory_init, graphics_init, PIC_init, timer_init,
            Then, cpu, program
<1>1. /\ stack = <<>> /\ stack' = stack /\ pc = "code"
      /\ UNCHANGED <<pc, call, regs, allocated, owned>>
  BY DEF pic
<1>2. isr' = isr
  <2>1. CASE PIC_init
    BY <2>1, <1>1 DEF IInv, InService, Started
  <2> QED  BY <2>1 DEF pic
<1>3. TypeOK'
  <2>1. 2 .. 7 \subseteq 0 .. 7
    OBVIOUS
  <2>2. UNCHANGED <<stack, BUFFER, ticks, pc, call, regs, allocated, owned, isr>>
    BY <1>1, <1>2
  <2>3. /\ boot' \in {"memory_init", "graphics_init", "PIC_init", "timer_init",
                      "terminal", "shutdown"}
        /\ idt' \in BOOLEAN /\ eflags_if' \in BOOLEAN /\ irr' \subseteq Lines
        /\ offset' \in {8, MASTER_PIC_OFFSET} /\ masked' \subseteq 0 .. 7
    BY <2>1 DEF IInv, TypeOK, pic
  <2> QED  BY <2>2, <2>3 DEF IInv, TypeOK
<1>4. Started'
  BY <1>1 DEF IInv, Started, pic
<1>5. Calling' /\ OwnedAllocated'
  BY <1>1 DEF IInv, Calling, Kept, AskedFor, Answered, Allocates, OwnedAllocated
<1> QED  BY <1>1, <1>2, <1>3, <1>4, <1>5, NoHandler DEF IInv

LEMMA IdTyped == \A fn \in Functions : Id[fn] \in Nat
<1>1. Functions \subseteq {"sleep", "system", "malloc", "realloc", "free", "sync"}
  BY InterruptsConstants
<1>2. \A fn \in {"sleep", "system", "malloc", "realloc", "free", "sync"} : Id[fn] \in Nat
  BY DEF Id
<1> QED  BY <1>1, <1>2

LEMMA CallKeeps ==
  ASSUME IInv, NEW fn, NEW arg \in Int, NEW more \in {0, 1}, Call(fn, arg, more),
         fn \in {"free", "realloc"} => arg \in owned
  PROVE  IInv'
<1>1. regs' \in Registers /\ regs'.ebx = arg /\ regs'.ecx = more
  <2>1. regs \in Registers /\ regs' = [regs EXCEPT !.ebx = arg, !.ecx = more]
    BY DEF IInv, TypeOK, Call
  <2>2. regs' = [[regs EXCEPT !.ebx = arg] EXCEPT !.ecx = more] /\ more \in Int
    BY <2>1
  <2>3. [regs EXCEPT !.ebx = arg] \in Registers /\ [regs EXCEPT !.ebx = arg].ebx = arg
    BY <2>1 DEF Registers
  <2> QED  BY <2>2, <2>3 DEF Registers
<1> USE DEF Call, Running, Allowed
<1>2. stack = <<>> /\ stack' = stack /\ isr' = isr
  BY DEF pic
<1>3. fn \in Functions /\ fn # "none"
  BY InterruptsConstants
<1>4. call' = [fn |-> fn, ebx |-> arg, ecx |-> more]
      /\ call'.fn = fn /\ call'.ebx = arg /\ call'.ecx = more
  OBVIOUS
<1>5. owned' \subseteq owned /\ (fn \in {"free", "realloc"} => arg \notin owned')
  OBVIOUS
<1>6. TypeOK'
  BY <1>3, <1>4, <1>1, <1>5 DEF IInv, TypeOK, pic
<1>7. Started'
  BY DEF IInv, Started, pic
<1>8. Calling' /\ OwnedAllocated'
  BY <1>2, <1>3, <1>4, <1>1, <1>5 DEF IInv, Calling, Kept, OwnedAllocated, NONE
<1> QED  BY <1>2, <1>6, <1>7, <1>8, NoHandler DEF IInv

LEMMA WrapperKeeps ==
  ASSUME IInv, Wrapper
  PROVE  IInv'
<1>1. Numbers \subseteq Int /\ owned \subseteq Int
  BY InterruptsConstants DEF IInv, TypeOK, NULL
<1>2. ASSUME NEW n \in Numbers, Call("sleep", n, 0) \/ Call("malloc", n, 0) PROVE IInv'
  BY <1>1, <1>2, CallKeeps
<1>3. CASE Call("sync", 0, 0) \/ Call("system", 0, 0)
  BY <1>3, CallKeeps
<1>4. ASSUME NEW p \in owned, NEW grows \in {0, 1},
             Call("free", p, 0) \/ Call("realloc", p, grows) PROVE IInv'
  BY <1>1, <1>4, CallKeeps
<1> QED  BY <1>2, <1>3, <1>4 DEF Wrapper

LEMMA InWrapperKeeps ==
  ASSUME IInv, InWrapper \/ CMOS_read \/ Ksync \/ KsyncDone, ~Int80
  PROVE  IInv'
<1> USE DEF InWrapper, MoveId, Again, Tested, Done, CmosDone, CMOS_read, Ksync, KsyncDone, Running, cpu
<1>1. stack = <<>> /\ stack' = stack /\ isr' = isr
  BY DEF pic
<1>2. UNCHANGED <<boot, idt, BUFFER, pic, ticks, allocated>>
  OBVIOUS
<1>3. Started'
  BY <1>2 DEF IInv, Started, pic
<1>4. CASE MoveId
  <2>1. call.fn \in Functions /\ pc = "wrapper"
    BY <1>4 DEF IInv, Calling
  <2>2. regs' = [regs EXCEPT !.eax = Id[call.fn]] /\ regs \in Registers
    BY <1>4 DEF IInv, TypeOK
  <2>3. regs' \in Registers /\ regs'.eax = Id[call.fn]
        /\ regs'.ebx = regs.ebx /\ regs'.ecx = regs.ecx
    BY <2>1, <2>2, IdTyped DEF Registers
  <2>4. TypeOK'
    BY <1>2, <1>4, <2>3 DEF IInv, TypeOK, pic
  <2>5. Calling' /\ OwnedAllocated'
    BY <1>1, <1>4, <2>1, <2>3 DEF IInv, Calling, Kept, AskedFor, OwnedAllocated
  <2> QED  BY <1>1, <1>3, <2>4, <2>5, NoHandler DEF IInv
<1>5. CASE Again
  <2>1. TypeOK'
    BY <1>2, <1>5 DEF IInv, TypeOK, pic
  <2>2. Calling' /\ OwnedAllocated'
    BY <1>1, <1>5 DEF IInv, Calling, Kept, OwnedAllocated
  <2> QED  BY <1>1, <1>3, <2>1, <2>2, NoHandler DEF IInv
<1>6. CASE Done
  <2>1. pc \in {"answered", "tested"} /\ Answered(regs.eax)
    BY <1>1, <1>6 DEF IInv, Calling
  <2>2. owned' \ {NULL} \subseteq allocated /\ owned' \subseteq Pointers \cup {NULL}
    BY <1>6, <2>1 DEF IInv, OwnedAllocated, TypeOK, Answered
  <2>3. call' \in [fn : Functions \cup {"none"}, ebx : Int, ecx : {0, 1}]
    BY <1>6 DEF NONE
  <2>4. TypeOK'
    BY <1>2, <1>6, <2>2, <2>3 DEF IInv, TypeOK, pic
  <2>5. call'.fn = "none" /\ call' = NONE /\ pc' = "code"
    BY <1>6 DEF NONE
  <2>6. Calling' /\ OwnedAllocated'
    BY <1>1, <1>2, <1>6, <2>2, <2>5 DEF IInv, Calling, Kept, OwnedAllocated, NONE
  <2> QED  BY <1>1, <1>3, <2>4, <2>6, NoHandler DEF IInv
<1>7. CASE CmosDone \/ CMOS_read \/ Ksync \/ KsyncDone
  <2>1. TypeOK'
    BY <1>2, <1>7 DEF IInv, TypeOK, pic
  <2>2. Calling' /\ OwnedAllocated'
    BY <1>1, <1>2, <1>7 DEF IInv, Calling, Kept, OwnedAllocated
  <2> QED  BY <1>1, <1>3, <2>1, <2>2, NoHandler DEF IInv
<1>8. CASE Tested
  <2>1. TypeOK'
    BY <1>2, <1>8 DEF IInv, TypeOK, pic
  <2>2. Calling' /\ OwnedAllocated'
    BY <1>1, <1>2, <1>8 DEF IInv, Calling, Kept, Answered, Allocates, OwnedAllocated
  <2> QED  BY <1>1, <1>3, <2>1, <2>2, NoHandler DEF IInv
<1> QED  BY <1>4, <1>5, <1>6, <1>7, <1>8

-----------------------------------------------------------------------------
(* Interrupts come.                                                          *)

LEMMA RaiseKeeps ==
  ASSUME IInv, NEW l \in Lines, Raise(l)
  PROVE  IInv'
<1>1. UNCHANGED <<boot, idt, eflags_if, regs, stack, BUFFER, offset, masked, isr, ticks, allocated,
                  pc, call, owned>> /\ irr' = irr \cup {l}
  BY DEF Raise, cpu, program
<1>2. TypeOK'
  BY <1>1 DEF IInv, TypeOK
<1> QED  BY <1>1, <1>2 DEF IInv, Started, Calling, Kept, AskedFor, Answered, Allocates, Handlers,
            Handled, OfException, OfIrq, OfSyscall, HandlersAlone, InService, OwnedAllocated

\* The first handler.
LEMMA TakenFirst ==
  ASSUME IInv, stack = <<>>, NEW num \in 0 .. 255, Take(num)
  PROVE  \E f \in Frame :
           /\ f.num = num /\ f.at = "interrupt_handler" /\ f.regs = regs
           /\ f.eflags_if => boot \in {"terminal", "shutdown"}
           /\ stack' \in Seq(Frame) /\ stack' # <<>> /\ stack'[Len(stack')] = f
           /\ HandlersAlone' /\ (Handled(f)' => Handlers')
<1>1. TypeOK /\ Started
  BY DEF IInv
<1>2. PICK f \in Frame :
        /\ f.num = num /\ f.regs = regs /\ f.eflags_if = eflags_if
        /\ f.at = "interrupt_handler"
        /\ stack' \in Seq(Frame) /\ Len(stack') = Len(stack) + 1
        /\ stack'[1] = f /\ stack' # <<>>
  BY <1>1, Taken
<1>3. Len(stack') = 1
  BY <1>2
<1>4. DOMAIN stack' = {1}
  <2>1. DOMAIN stack' = 1 .. Len(stack')
    BY <1>2, Frames
  <2>2. 1 .. 1 = {1}
    OBVIOUS
  <2> QED  BY <1>3, <2>1, <2>2
<1>5. HandlersAlone'
  BY <1>3, <1>4 DEF HandlersAlone, Take
<1>6. Handled(f)' => Handlers'
  BY <1>2, <1>4 DEF Handlers
<1>7. f.eflags_if => boot \in {"terminal", "shutdown"}
  BY <1>1, <1>2 DEF Started
<1> QED  BY <1>2, <1>3, <1>5, <1>6, <1>7

LEMMA Int80Keeps ==
  ASSUME IInv, Int80
  PROVE  IInv'
<1>1. /\ stack = <<>> /\ pc = "loaded" /\ pc' = "answered" /\ Take(128)
      /\ UNCHANGED <<boot, idt, regs, BUFFER, offset, masked, irr, isr, ticks, allocated, call,
                     owned>>
  BY DEF Int80, Running, pic
<1>2. PICK f \in Frame :
           /\ f.num = 128 /\ f.at = "interrupt_handler" /\ f.regs = regs
           /\ f.eflags_if => boot \in {"terminal", "shutdown"}
           /\ stack' \in Seq(Frame) /\ stack' # <<>> /\ stack'[Len(stack')] = f
           /\ HandlersAlone' /\ (Handled(f)' => Handlers')
  BY <1>1, TakenFirst
<1>3. eflags_if' = FALSE
  BY <1>1 DEF Take
<1>4. Kept(regs) /\ AskedFor(regs.eax)
  BY <1>1 DEF IInv, Calling
<1>5. Handlers'
  BY <1>1, <1>2, <1>4 DEF Handled, OfSyscall, Kept, AskedFor
<1>6. InService'
  BY <1>1, <1>2 DEF IInv, InService, Unacknowledged, MASTER_PIC_OFFSET
<1>7. TypeOK'
  <2>1. eflags_if' \in BOOLEAN
    BY <1>3, Zenon
  <2> QED  BY <1>1, <1>2, <2>1 DEF IInv, TypeOK
<1>8. Started' /\ Calling' /\ OwnedAllocated'
  BY <1>1, <1>2, <1>3 DEF IInv, Started, Calling, OwnedAllocated
<1> QED  BY <1>2, <1>5, <1>6, <1>7, <1>8 DEF IInv

\* An IRQ comes only to a program, and only from the timer or the keyboard.
LEMMA IrqComes ==
  ASSUME IInv, NEW l \in Lines, eflags_if, Pending(l)
  PROVE  /\ stack = <<>> /\ isr = {} /\ l \in {0, 1} /\ offset = 32
         /\ boot \in {"terminal", "shutdown"}
<1>1. stack = <<>> /\ isr = {}
  BY DEF IInv, HandlersAlone, InService
<1>2. masked = 2 .. 7 /\ offset = 32 /\ boot \in {"terminal", "shutdown"}
  BY DEF IInv, Started, MASTER_PIC_OFFSET
<1>3. l \in 0 .. 7 /\ l \notin 2 .. 7
  BY <1>2, InterruptsConstants DEF Pending
<1> QED  BY <1>1, <1>2, <1>3

LEMMA IrqKeeps ==
  ASSUME IInv, NEW l \in Lines, Deliver(l) \/ Spurious(l)
  PROVE  IInv'
<1>1. /\ stack = <<>> /\ isr = {} /\ l \in {0, 1} /\ offset = 32
      /\ boot \in {"terminal", "shutdown"}
  BY IrqComes DEF Deliver, Spurious
<1>2. UNCHANGED <<boot, idt, regs, BUFFER, offset, masked, ticks, allocated, pc, call, owned>>
      /\ irr' = irr \ {l}
  BY DEF Deliver, Spurious, program
<1>3. PICK num \in {32, 33, 39} :
        Take(num) /\ ((num = 39 /\ isr' = {}) \/ (num = 32 + l /\ isr' = {l}))
  BY <1>1 DEF Deliver, Spurious
<1>4. num \in 0 .. 255 /\ num \in 32 .. 39
  OBVIOUS
<1>5. PICK f \in Frame :
           /\ f.num = num /\ f.at = "interrupt_handler" /\ f.regs = regs
           /\ f.eflags_if => boot \in {"terminal", "shutdown"}
           /\ stack' \in Seq(Frame) /\ stack' # <<>> /\ stack'[Len(stack')] = f
           /\ HandlersAlone' /\ (Handled(f)' => Handlers')
  BY <1>1, <1>3, <1>4, TakenFirst
<1>6. eflags_if' = FALSE
  BY <1>3 DEF Take
<1>7. Kept(regs)
  BY <1>1 DEF IInv, Calling
<1>8. Handlers'
  BY <1>2, <1>4, <1>5, <1>7 DEF Handled, OfIrq, Kept
<1>9. InService'
  <2>1. isr' = Unacknowledged(f) /\ isr' \subseteq {0, 1}
    BY <1>1, <1>3, <1>5 DEF Unacknowledged, MASTER_PIC_OFFSET
  <2> QED  BY <1>5, <2>1 DEF InService
<1>10. TypeOK'
  <2>1. eflags_if' \in BOOLEAN
    BY <1>6, Zenon
  <2>2. isr' \subseteq Lines /\ irr' \subseteq Lines
    BY <1>2, <1>3 DEF IInv, TypeOK
  <2> QED  BY <1>2, <1>5, <2>1, <2>2 DEF IInv, TypeOK
<1>11. Started' /\ Calling' /\ OwnedAllocated'
  BY <1>2, <1>5, <1>6 DEF IInv, Started, Calling, OwnedAllocated
<1> QED  BY <1>5, <1>8, <1>9, <1>10, <1>11 DEF IInv

LEMMA ExceptionKeeps ==
  ASSUME IInv, NEW n \in Exceptions, Exception(n)
  PROVE  IInv'
<1>1. /\ Take(n) /\ eflags_if' = FALSE /\ n \in 0 .. 31
      /\ UNCHANGED <<boot, idt, regs, BUFFER, offset, masked, irr, isr, ticks, allocated,
                     pc, call, owned>>
  BY InterruptsConstants DEF Exception, Take, pic, program
<1>2. TypeOK /\ stack \in Seq(Frame) /\ n \in 0 .. 255
  BY <1>1 DEF IInv, TypeOK
<1>3. PICK f \in Frame :
        /\ f.num = n /\ f.regs = regs /\ f.eflags_if = eflags_if
        /\ f.at = "interrupt_handler"
        /\ stack' \in Seq(Frame) /\ Len(stack') = Len(stack) + 1
        /\ stack'[1] = f /\ stack' # <<>>
        /\ \A i \in 1 .. Len(stack) : stack'[i + 1] = stack[i]
  BY <1>1, <1>2, Taken
<1>4. Handled(f)'
  BY <1>1, <1>3 DEF IInv, Started, Handled, OfException
<1>5. TypeOK'
  <2>1. eflags_if' \in BOOLEAN
    BY <1>1, Zenon
  <2> QED  BY <1>1, <1>3, <2>1 DEF IInv, TypeOK
<1>6. Started' /\ Calling' /\ OwnedAllocated'
  BY <1>1, <1>3 DEF IInv, Started, Calling, Kept, OwnedAllocated
<1>7. Handlers' /\ HandlersAlone' /\ InService'
  <2>0. DOMAIN stack' = 1 .. Len(stack')
    BY <1>3, Frames
  <2>1. CASE stack = <<>>
    <3>1. Len(stack') = 1 /\ DOMAIN stack' = {1}
      <4>1. 1 .. 1 = {1}
        OBVIOUS
      <4>2. Len(stack') = 1
        BY <1>3, <2>1
      <4> QED  BY <2>0, <4>1, <4>2
    <3>2. Handlers' /\ HandlersAlone'
      <4>1. Handlers'
        BY <1>3, <1>4, <3>1 DEF Handlers
      <4>2. HandlersAlone'
        BY <1>1, <3>1 DEF HandlersAlone
      <4> QED  BY <4>1, <4>2
    <3>3. InService'
      BY <1>1, <1>3, <2>1, <3>1 DEF IInv, InService, Unacknowledged, MASTER_PIC_OFFSET
    <3> QED  BY <3>2, <3>3
  <2>2. CASE stack # <<>>
    <3>1. Head(stack).num >= 32
      BY <2>2 DEF Exception
    <3>2. PICK h \in Frame :
            /\ Len(stack) = 1 /\ stack[1] = h /\ Handled(h)
            /\ isr = Unacknowledged(h) /\ isr \subseteq {0, 1}
      BY <2>2, <3>1, Alone
    <3>3. Len(stack') = 2 /\ DOMAIN stack' = {1, 2} /\ stack'[2] = h
      <4>1. 1 .. 2 = {1, 2}
        OBVIOUS
      <4>2. Len(stack') = 2
        BY <1>3, <3>2
      <4>3. 1 \in 1 .. Len(stack)
        BY <3>2
      <4>4. stack'[1 + 1] = stack[1]
        BY <1>3, <4>3
      <4> QED  BY <2>0, <3>2, <4>1, <4>2, <4>4
    <3>4. Handled(h)'
      BY <1>1, <3>2 DEF Handled, OfException, OfIrq, OfSyscall, Kept, AskedFor, Answered, Allocates
    <3>5. Handlers'
      BY <1>3, <1>4, <3>3, <3>4 DEF Handlers
    <3>6. HandlersAlone'
      BY <1>1, <1>3, <3>3 DEF HandlersAlone
    <3>7. InService'
      BY <1>1, <1>3, <3>2, <3>3 DEF InService, Unacknowledged
    <3> QED  BY <3>5, <3>6, <3>7
  <2> QED  BY <2>1, <2>2
<1> QED  BY <1>5, <1>6, <1>7 DEF IInv

-----------------------------------------------------------------------------
(* Handlers run.                                                             *)

\* Only an interrupt that is no exception gets further than its handler's start.
LEMMA NoException ==
  ASSUME IInv, stack # <<>>, Head(stack).at \notin {"interrupt_handler", "haltdump"}
  PROVE  Head(stack).num >= 32
<1>1. stack \in Seq(Frame) /\ Handlers
  BY DEF IInv, TypeOK
<1>2. Head(stack) = stack[1] /\ 1 \in DOMAIN stack
  <2>1. Len(stack) \in Nat \ {0}
    BY <1>1, Frames
  <2>2. 1 \in 1 .. Len(stack)
    BY <2>1
  <2> QED  BY <1>1, <2>2, Frames
<1>3. Handled(stack[1])
  BY <1>1, <1>2 DEF Handlers
<1> QED  BY <1>2, <1>3 DEF Handled, OfException, OfIrq, OfSyscall

LEMMA HandleExceptionKeeps ==
  ASSUME IInv, HandleException
  PROVE  IInv'
<1>1. /\ stack # <<>> /\ Head(stack).num < 32
      /\ stack' = <<[Head(stack) EXCEPT !.at = "haltdump"]>> \o Tail(stack)
      /\ UNCHANGED <<boot, idt, eflags_if, regs, BUFFER, offset, masked, irr, isr, ticks, allocated,
                     pc, call, owned>>
  BY DEF HandleException, Handling, GoTo, pic, program
<1>2. stack \in Seq(Frame) /\ Handlers /\ HandlersAlone /\ InService /\ Started
  BY DEF IInv, TypeOK
<1>3. PICK f \in Frame : f = Head(stack) /\ f = stack[1] /\ f.num \in 0 .. 31
  <2>1. PICK f \in Frame : f = Head(stack) /\ f = stack[1]
    BY <1>1, <1>2, Frames
  <2>2. f.num \in 0 .. 255 /\ f.num < 32
    BY <1>1, <2>1 DEF Frame
  <2>3. f.num \in 0 .. 31
    BY <2>2
  <2> QED  BY <2>1, <2>3
<1>4. PICK g \in Frame : g = [f EXCEPT !.at = "haltdump"]
  BY DEF Frame
<1>5. g.num = f.num /\ g.at = "haltdump" /\ g.eflags_if = f.eflags_if
  BY <1>4 DEF Frame
<1>6. PICK n \in Nat \ {0} : Len(stack) = n /\ DOMAIN stack = 1 .. n
  BY <1>1, <1>2, Frames
<1>7. /\ stack' \in Seq(Frame) /\ stack' # <<>> /\ Len(stack') = n /\ DOMAIN stack' = 1 .. n
      /\ stack'[1] = g /\ \A i \in 1 .. n : i # 1 => stack'[i] = stack[i]
  BY <1>1, <1>2, <1>3, <1>4, <1>6, Replaced
<1>9. 1 \in DOMAIN stack /\ n \in DOMAIN stack
  BY <1>6
<1>10. TypeOK'
  BY <1>1, <1>7 DEF IInv, TypeOK
<1>11. Started' /\ Calling' /\ OwnedAllocated'
  BY <1>1, <1>7 DEF IInv, Started, Calling, OwnedAllocated
<1>12. Handlers'
  <2>1. Handled(f)
    BY <1>2, <1>3, <1>9 DEF Handlers
  <2>2. Handled(g)'
    BY <1>1, <1>3, <1>5, <2>1 DEF Handled, OfException
  <2>3. ASSUME NEW i \in DOMAIN stack, NEW k, k = stack'[i] PROVE Handled(k)'
    <3>1. CASE i = 1
      BY <1>7, <2>2, <2>3, <3>1
    <3>2. CASE i # 1
      <4>1. k = stack[i]
        BY <1>6, <1>7, <2>3, <3>2
      <4>2. Handled(k)
        BY <1>2, <4>1 DEF Handlers
      <4> QED  BY <1>1, <4>2 DEF Handled, OfException, OfIrq, OfSyscall, Kept, AskedFor,
               Answered, Allocates
    <3> QED  BY <3>1, <3>2
  <2> QED  BY <1>6, <1>7, <2>3 DEF Handlers
<1>13. HandlersAlone'
  <2>1. ~eflags_if'
    BY <1>1, <1>2 DEF HandlersAlone
  <2>2. ASSUME NEW i \in 1 .. n, i < n PROVE stack'[i].num < 32
    <3>1. CASE i = 1
      <4>1. stack'[i].num = f.num
        BY <1>5, <1>7, <3>1
      <4>2. \A m \in 0 .. 31 : m < 32
        OBVIOUS
      <4> QED  BY <1>3, <4>1, <4>2
    <3>2. CASE i # 1
      <4>1. stack[i].num < 32
        BY <1>2, <1>6, <2>2 DEF HandlersAlone
      <4> QED  BY <1>7, <3>2, <4>1
    <3> QED  BY <3>1, <3>2
  <2> QED  BY <1>7, <2>1, <2>2 DEF HandlersAlone
<1>14. InService'
  <2>1. PICK h : h = stack[n] /\ isr = Unacknowledged(h) /\ isr \subseteq {0, 1}
    BY <1>1, <1>2, <1>6 DEF InService
  <2>2. PICK k : k = stack'[n]
    OBVIOUS
  <2>3. Unacknowledged(k) = Unacknowledged(h)
    <3>1. k = h \/ (k = g /\ h = f)
      BY <1>3, <1>6, <1>7, <1>9, <2>1, <2>2
    <3>2. Unacknowledged(g) = {} /\ Unacknowledged(f) = {}
      BY <1>3, <1>5 DEF Unacknowledged, MASTER_PIC_OFFSET
    <3> QED  BY <3>1, <3>2
  <2> QED  BY <1>1, <1>7, <2>1, <2>2, <2>3 DEF InService
<1> QED  BY <1>10, <1>11, <1>12, <1>13, <1>14 DEF IInv

\* What a step of a handler that is no exception's leaves to show.
LEMMA Handling32 ==
  ASSUME IInv, stack # <<>>, Head(stack).num >= 32,
         NEW g \in Frame, g.num = Head(stack).num, stack' = <<g>> \o Tail(stack),
         UNCHANGED <<boot, idt, eflags_if, offset, masked, irr, pc, call, owned>>,
         Handled(g)', isr' = Unacknowledged(g), isr' \subseteq isr,
         regs' \in Registers, BUFFER' \in Int, ticks' \in 0 .. TICKS - 1,
         allocated' \subseteq Pointers, owned \ {NULL} \subseteq allocated',
         call.fn = "realloc" /\ call.ecx = 0 => call.ebx \in allocated' \cup {NULL}
  PROVE  IInv'
<1>1. /\ stack' \in Seq(Frame) /\ stack' # <<>> /\ stack'[Len(stack')] = g
      /\ Handlers' /\ HandlersAlone'
  BY HandlerStep
<1>2. isr \subseteq {0, 1} /\ isr \subseteq Lines
  BY Alone DEF IInv, TypeOK
<1>3. TypeOK'
  BY <1>1, <1>2 DEF IInv, TypeOK
<1>4. Started' /\ Calling' /\ OwnedAllocated'
  BY <1>1 DEF IInv, Started, Calling, OwnedAllocated
<1>5. InService'
  BY <1>1, <1>2 DEF InService
<1> QED  BY <1>1, <1>3, <1>4, <1>5 DEF IInv

\* A frame moved on, whatever else of it changes with that.
LEMMA MovedOn ==
  ASSUME NEW f \in Frame, NEW at \in {"interrupt_handler", "haltdump", "send_EOI", "ksleep",
                                      "ksync", "iretd"}
  PROVE  LET g == [f EXCEPT !.at = at]
         IN  /\ g \in Frame /\ g.at = at /\ g.num = f.num /\ g.regs = f.regs
             /\ g.eflags_if = f.eflags_if
BY DEF Frame

\* The registers by the time a handler has its answer.
LEMMA Returned == \A r \in Registers, v \in Int : [r EXCEPT !.eax = v, !.ecx = 0] \in Registers
<1> TAKE r \in Registers, v \in Int
<1>1. PICK w \in Int : w = 0
  OBVIOUS
<1>2. PICK q \in Registers : q = [r EXCEPT !.eax = v]
  BY DEF Registers
<1>3. [q EXCEPT !.ecx = w] \in Registers
  BY DEF Registers
<1>4. [r EXCEPT !.eax = v, !.ecx = 0] = [q EXCEPT !.ecx = w]
  BY <1>1, <1>2 DEF Registers
<1> QED  BY <1>3, <1>4

LEMMA Asleep ==
  ASSUME NEW f \in Frame, NEW goal \in 0 .. TICKS - 1
  PROVE  LET g == [f EXCEPT !.at = "ksleep", !.goal = goal]
         IN  /\ g \in Frame /\ g.at = "ksleep" /\ g.num = f.num /\ g.regs = f.regs
             /\ g.eflags_if = f.eflags_if
<1>1. PICK h \in Frame : h = [f EXCEPT !.at = "ksleep"] /\ h.at = "ksleep" /\ h.num = f.num
                         /\ h.regs = f.regs /\ h.eflags_if = f.eflags_if
  BY MovedOn
<1>2. PICK g \in Frame : g = [h EXCEPT !.goal = goal]
  BY DEF Frame
<1>3. /\ g.at = "ksleep" /\ g.num = f.num /\ g.regs = f.regs /\ g.eflags_if = f.eflags_if
  BY <1>1, <1>2 DEF Frame
<1>4. g = [f EXCEPT !.at = "ksleep", !.goal = goal]
  BY <1>1, <1>2 DEF Frame
<1> QED  BY <1>3, <1>4

LEMMA IrqHandled ==
  ASSUME IInv, process_irq \/ send_EOI
  PROVE  \E f \in Frame :
           /\ f = Head(stack) /\ stack # <<>> /\ f.num \in 32 .. 39 /\ f.num >= 32
           /\ Handled(f) /\ OfIrq(f)
           /\ isr = Unacknowledged(f) /\ isr \subseteq {0, 1}
<1>1. /\ Handling("interrupt_handler") \/ Handling("send_EOI")
      /\ Handling("interrupt_handler") => Irq \in 0 .. 15
  BY DEF process_irq, send_EOI, Handling
<1>2. stack # <<>>
  BY <1>1 DEF Handling
<1>3. Head(stack) \in Frame
  BY <1>2, Frames DEF IInv, TypeOK
<1>4. PICK f \in Frame : f = Head(stack) /\ f.num \in 0 .. 255
  BY <1>3 DEF Frame
<1>5. f.num >= 32 /\ (f.at = "send_EOI" \/ f.num \in 32 .. 47)
  <2>1. CASE Handling("send_EOI")
    BY <1>4, <2>1, NoException DEF Handling
  <2>2. CASE Handling("interrupt_handler")
    <3>1. f.num - 32 \in 0 .. 15
      BY <1>1, <1>4, <2>2 DEF Irq, MASTER_PIC_OFFSET
    <3> QED  BY <1>4, <3>1
  <2> QED  BY <1>1, <2>1, <2>2
<1>6. Handled(f) /\ isr = Unacknowledged(f) /\ isr \subseteq {0, 1}
  BY <1>2, <1>4, <1>5, Alone
<1>7. OfIrq(f)
  BY <1>4, <1>5, <1>6 DEF Handled, OfException, OfSyscall
<1>8. f.num \in 32 .. 39
  BY <1>7 DEF OfIrq
<1> QED  BY <1>2, <1>4, <1>5, <1>6, <1>7, <1>8

LEMMA ProcessIrqKeeps ==
  ASSUME IInv, process_irq
  PROVE  IInv'
<1>1. PICK f \in Frame :
           /\ f = Head(stack) /\ stack # <<>> /\ f.num \in 32 .. 39 /\ f.num >= 32
           /\ Handled(f) /\ OfIrq(f)
           /\ isr = Unacknowledged(f) /\ isr \subseteq {0, 1}
  BY IrqHandled
<1>2. /\ f.at = "interrupt_handler" /\ stack' = <<[f EXCEPT !.at = "send_EOI"]>> \o Tail(stack)
      /\ UNCHANGED <<boot, idt, eflags_if, regs, BUFFER, offset, masked, irr, isr, allocated,
                     pc, call, owned>>
  BY <1>1 DEF process_irq, Handling, GoTo, pic, program
<1>3. PICK g \in Frame : g = [f EXCEPT !.at = "send_EOI"] /\ g.at = "send_EOI" /\ g.num = f.num
                         /\ g.regs = f.regs /\ g.eflags_if = f.eflags_if
  BY MovedOn
<1>4. Handled(g)'
  BY <1>1, <1>2, <1>3 DEF Handled, OfIrq, Kept
<1>5. isr' = Unacknowledged(g)
  BY <1>1, <1>2, <1>3 DEF Unacknowledged
<1>6. ticks' \in 0 .. TICKS - 1
  <2>1. ticks \in 0 .. TICKS - 1 /\ TICKS \in Nat \ {0}
    BY InterruptsConstants DEF IInv, TypeOK
  <2>2. ((ticks + 1) % TICKS) \in 0 .. TICKS - 1
    BY <2>1
  <2> QED  BY <2>1, <2>2 DEF process_irq
<1>7. /\ regs \in Registers /\ BUFFER \in Int
      /\ allocated \subseteq Pointers /\ owned \ {NULL} \subseteq allocated
      /\ (call.fn = "realloc" /\ call.ecx = 0 => call.ebx \in allocated \cup {NULL})
  BY DEF IInv, TypeOK, OwnedAllocated, Calling
<1> QED  BY <1>1, <1>2, <1>3, <1>4, <1>5, <1>6, <1>7, Handling32

LEMMA SendEOIKeeps ==
  ASSUME IInv, send_EOI
  PROVE  IInv'
<1>1. PICK f \in Frame :
           /\ f = Head(stack) /\ stack # <<>> /\ f.num \in 32 .. 39 /\ f.num >= 32
           /\ Handled(f) /\ OfIrq(f)
           /\ isr = Unacknowledged(f) /\ isr \subseteq {0, 1}
  BY IrqHandled
<1>2. /\ f.at = "send_EOI" /\ stack' = <<[f EXCEPT !.at = "iretd"]>> \o Tail(stack)
      /\ BUFFER' = 0 /\ regs' = [regs EXCEPT !.eax = 0, !.ecx = 0]
      /\ isr' = IF Irq = 7 /\ 7 \notin irr THEN isr ELSE {l \in isr : \E k \in isr : k < l}
      /\ UNCHANGED <<boot, idt, eflags_if, offset, masked, irr, ticks, allocated, pc, call, owned>>
  BY <1>1 DEF send_EOI, Handling, Answer, GoTo, program
<1>3. PICK g \in Frame : g = [f EXCEPT !.at = "iretd"] /\ g.at = "iretd" /\ g.num = f.num
                         /\ g.regs = f.regs /\ g.eflags_if = f.eflags_if
  BY MovedOn
<1>4. Handled(g)'
  BY <1>1, <1>2, <1>3 DEF Handled, OfIrq, Kept, NULL
<1>5. isr' = {}
  <2>1. CASE f.num = 39
    BY <1>1, <1>2, <2>1 DEF Unacknowledged, MASTER_PIC_OFFSET
  <2>2. CASE f.num # 39
    <3>1. Irq # 7
      BY <1>1, <2>2 DEF Irq, MASTER_PIC_OFFSET
    <3>2. \A k, l \in isr : k = l
      BY <1>1 DEF Unacknowledged, MASTER_PIC_OFFSET
    <3>3. \A k, l \in isr : ~ k < l
      BY <1>1, <3>2
    <3> QED  BY <1>2, <3>1, <3>3
  <2> QED  BY <2>1, <2>2
<1>6. Unacknowledged(g) = {}
  BY <1>3 DEF Unacknowledged
<1>7. regs' \in Registers
  <2>1. regs \in Registers /\ 0 \in Int
    BY DEF IInv, TypeOK
  <2> QED  BY <1>2, <2>1, Returned, Zenon
<1>8. /\ allocated \subseteq Pointers /\ owned \ {NULL} \subseteq allocated /\ ticks \in 0 .. TICKS - 1
      /\ (call.fn = "realloc" /\ call.ecx = 0 => call.ebx \in allocated \cup {NULL})
  BY DEF IInv, TypeOK, OwnedAllocated, Calling
<1>9. BUFFER' \in Int /\ isr' = Unacknowledged(g) /\ isr' \subseteq isr /\ ticks' = ticks
      /\ allocated' = allocated
  BY <1>2, <1>5, <1>6
<1>10. /\ Head(stack).num >= 32 /\ g.num = Head(stack).num /\ stack' = <<g>> \o Tail(stack)
       /\ UNCHANGED <<boot, idt, eflags_if, offset, masked, irr, pc, call, owned>>
  BY <1>1, <1>2, <1>3
<1> QED  BY <1>1, <1>4, <1>7, <1>8, <1>9, <1>10, Handling32

-----------------------------------------------------------------------------
(* System calls.                                                             *)

LEMMA Calls ==
  ASSUME IInv, stack # <<>>, Head(stack).num = 128
  PROVE  \E f \in Frame :
           /\ f = Head(stack) /\ f.num = 128 /\ OfSyscall(f)
           /\ f.eflags_if => boot \in {"terminal", "shutdown"}
           /\ call.fn \in Functions /\ isr = {}
<1>1. PICK f \in Frame : f = Head(stack) /\ f.num = 128 /\ Handled(f) /\ isr = Unacknowledged(f)
  BY Alone
<1>2. OfSyscall(f)
  BY <1>1 DEF Handled, OfException, OfIrq
<1>3. call.fn \in Functions
  BY <1>2 DEF IInv, Calling, OfSyscall
<1>4. isr = {}
  BY <1>1 DEF Unacknowledged, MASTER_PIC_OFFSET
<1> QED  BY <1>1, <1>2, <1>3, <1>4 DEF Handled

\* Whichever way it goes on from here, once the heap is as it should be ...
LEMMA CallGoesOn ==
  ASSUME IInv, stack # <<>>, Head(stack).num = 128,
         NEW g \in Frame, stack' = <<g>> \o Tail(stack),
         g.num = 128, g.regs = Head(stack).regs, g.eflags_if = Head(stack).eflags_if,
         g.at \in {"ksleep", "ksync", "haltdump", "iretd"},
         UNCHANGED <<boot, idt, eflags_if, offset, masked, irr, isr, ticks, pc, call, owned>>,
         regs' \in Registers, BUFFER' \in Int,
         g.at = "iretd" /\ Allocates => BUFFER' \in allocated' \cup {NULL},
         allocated' \subseteq Pointers, owned \ {NULL} \subseteq allocated',
         call.fn = "realloc" /\ call.ecx = 0 => call.ebx \in allocated' \cup {NULL}
  PROVE  IInv'
<1>1. PICK f \in Frame :
        /\ f = Head(stack) /\ f.num = 128 /\ OfSyscall(f)
        /\ f.eflags_if => boot \in {"terminal", "shutdown"}
        /\ call.fn \in Functions /\ isr = {}
  BY Calls
<1>2. Handled(g)'
  BY <1>1 DEF Handled, OfSyscall, Kept, AskedFor, Answered, Allocates
<1>3. isr' = Unacknowledged(g) /\ isr' \subseteq isr
  BY <1>1 DEF Unacknowledged, MASTER_PIC_OFFSET
<1>4. Head(stack).num >= 32 /\ ticks' \in 0 .. TICKS - 1
  BY DEF IInv, TypeOK
<1> QED  BY <1>2, <1>3, <1>4, Handling32

\* ... it answers ...
LEMMA AnswerKeeps ==
  ASSUME IInv, stack # <<>>, Head(stack).num = 128, NEW v \in Int, Answer(v),
         UNCHANGED <<boot, idt, eflags_if, pic, ticks, program>>,
         Allocates => v \in allocated' \cup {NULL},
         allocated' \subseteq Pointers, owned \ {NULL} \subseteq allocated',
         call.fn = "realloc" /\ call.ecx = 0 => call.ebx \in allocated' \cup {NULL}
  PROVE  IInv'
<1>1. PICK f \in Frame : f = Head(stack) /\ f.num = 128
  BY Calls
<1>2. PICK g \in Frame : /\ g = [f EXCEPT !.at = "iretd"] /\ g.at = "iretd" /\ g.num = f.num
                         /\ g.regs = f.regs /\ g.eflags_if = f.eflags_if
  BY MovedOn
<1>3. stack' = <<g>> \o Tail(stack) /\ BUFFER' = v
  BY <1>1, <1>2 DEF Answer, GoTo
<1>4. regs' \in Registers
  <2>1. regs \in Registers /\ regs' = [regs EXCEPT !.eax = v, !.ecx = 0]
    BY DEF IInv, TypeOK, Answer
  <2> QED  BY <2>1, Returned, Zenon
<1>5. UNCHANGED <<boot, idt, eflags_if, offset, masked, irr, isr, ticks, pc, call, owned>>
  BY DEF pic, program
<1> QED  BY <1>1, <1>2, <1>3, <1>4, <1>5, CallGoesOn

\* ... or waits, for ever if it has called haltdump.
LEMMA WaitKeeps ==
  ASSUME IInv, stack # <<>>, Head(stack).num = 128, NEW g \in Frame,
         stack' = <<g>> \o Tail(stack),
         g.num = 128, g.regs = Head(stack).regs, g.eflags_if = Head(stack).eflags_if,
         g.at \in {"ksleep", "ksync", "haltdump"},
         UNCHANGED <<boot, idt, eflags_if, regs, BUFFER, pic, ticks, allocated, program>>
  PROVE  IInv'
<1>1. UNCHANGED <<boot, idt, eflags_if, offset, masked, irr, isr, ticks, allocated, regs, BUFFER,
                  pc, call, owned>>
  BY DEF pic, program
<1>2. /\ regs \in Registers /\ BUFFER \in Int /\ allocated \subseteq Pointers
      /\ owned \ {NULL} \subseteq allocated
      /\ (call.fn = "realloc" /\ call.ecx = 0 => call.ebx \in allocated \cup {NULL})
  BY DEF IInv, TypeOK, OwnedAllocated, Calling
<1>3. g.at \in {"ksleep", "ksync", "haltdump", "iretd"} /\ g.at # "iretd"
  OBVIOUS
<1> QED  BY <1>1, <1>2, <1>3, CallGoesOn

\* A call that gives a block away is the one the program made, with its block.
LEMMA TheCall ==
  ASSUME IInv, NEW fn \in {"realloc", "free"}, Syscall(fn)
  PROVE  call.fn = fn /\ ebx = call.ebx /\ ecx = call.ecx
<1>1. stack # <<>> /\ Head(stack).num = 128 /\ Head(stack).regs.eax = Id[fn]
  BY DEF Syscall, Handling
<1>2. PICK f \in Frame : /\ f = Head(stack) /\ OfSyscall(f) /\ call.fn \in Functions
  BY <1>1, Calls
<1>3. Kept(f.regs) /\ call # NONE /\ f.regs.eax \in {Id[call.fn], Id["sleep"]}
  BY <1>2 DEF OfSyscall, AskedFor, IInv, Calling
<1>4. Id[fn] # Id["sleep"] /\ \A other \in Functions : Id[other] = Id[fn] => other = fn
  BY InterruptsConstants DEF Id
<1>5. call.fn = fn
  BY <1>1, <1>2, <1>3, <1>4
<1> QED  BY <1>2, <1>3, <1>5 DEF Kept, ebx, ecx

LEMMA SyscallKeeps ==
  ASSUME IInv, process_syscall
  PROVE  IInv'
<1>1. /\ stack # <<>> /\ Head(stack).num = 128
      /\ UNCHANGED <<boot, idt, eflags_if, pic, ticks, program>>
  BY DEF process_syscall, ksleep, ksync, system, kmalloc, krealloc, kfree, Syscall, Handling
<1>2. /\ allocated \subseteq Pointers /\ owned \ {NULL} \subseteq allocated /\ Pointers \subseteq Nat
      /\ (call.fn = "realloc" /\ call.ecx = 0 => call.ebx \in allocated \cup {NULL})
      /\ (call.fn \in {"free", "realloc"} => call.ebx \notin owned)
      /\ NULL \in Int
  BY InterruptsConstants DEF IInv, TypeOK, OwnedAllocated, Calling, NULL
<1>3. PICK f \in Frame : f = Head(stack) /\ f.num = 128 /\ call.fn \in Functions
  BY <1>1, Calls
<1>4. ASSUME Answer(NULL), allocated' = allocated PROVE IInv'
  BY <1>1, <1>2, <1>4, AnswerKeeps
<1>5. ASSUME NEW at \in {"ksync", "haltdump"}, GoTo(at),
             UNCHANGED <<regs, BUFFER, allocated>>
      PROVE  IInv'
  <2>1. at \in {"interrupt_handler", "haltdump", "send_EOI", "ksleep", "ksync", "iretd"}
    OBVIOUS
  <2>2. PICK g \in Frame : /\ g = [f EXCEPT !.at = at] /\ g.at = at /\ g.num = f.num
                           /\ g.regs = f.regs /\ g.eflags_if = f.eflags_if
    <3>1. PICK g : g = [f EXCEPT !.at = at]
      OBVIOUS
    <3>2. /\ [f EXCEPT !.at = at] \in Frame /\ [f EXCEPT !.at = at].at = at
          /\ [f EXCEPT !.at = at].num = f.num /\ [f EXCEPT !.at = at].regs = f.regs
          /\ [f EXCEPT !.at = at].eflags_if = f.eflags_if
      BY <2>1, MovedOn
    <3> QED  BY <3>1, <3>2
  <2>3. stack' = <<g>> \o Tail(stack)
    BY <1>3, <1>5, <2>2 DEF GoTo
  <2> QED  BY <1>1, <1>3, <1>5, <2>2, <2>3, WaitKeeps
<1>6. CASE ksleep
  <2>1. CASE Answer(NULL)
    BY <1>4, <1>6, <2>1 DEF ksleep
  <2>2. CASE stack' = <<[Head(stack) EXCEPT !.at = "ksleep", !.goal = (ticks + ebx) % TICKS]>>
                      \o Tail(stack) /\ UNCHANGED <<regs, BUFFER>>
    <3>1. ebx \in Int /\ ticks \in Int /\ TICKS \in Nat \ {0}
      BY <1>3, InterruptsConstants DEF ebx, Frame, Registers, IInv, TypeOK
    <3>2. PICK goal \in 0 .. TICKS - 1 : goal = ((ticks + ebx) % TICKS)
      BY <3>1
    <3>4. PICK h \in Frame : /\ h = [f EXCEPT !.at = "ksleep", !.goal = goal]
                             /\ h.at = "ksleep" /\ h.num = f.num
                             /\ h.regs = f.regs /\ h.eflags_if = f.eflags_if
      BY Asleep
    <3>6. stack' = <<h>> \o Tail(stack)
      BY <1>3, <2>2, <3>2, <3>4
    <3> QED  BY <1>1, <1>3, <1>6, <2>2, <3>4, <3>6, WaitKeeps DEF ksleep
  <2> QED  BY <1>6, <2>1, <2>2 DEF ksleep
<1>7. CASE ksync
  BY <1>5, <1>7 DEF ksync
<1>8. CASE system
  BY <1>4, <1>8 DEF system
<1>9. CASE kmalloc
  <2>1. ASSUME NEW p \in Pointers \ allocated, Answer(p), allocated' = allocated \cup {p}
        PROVE  IInv'
    BY <1>1, <1>2, <2>1, AnswerKeeps
  <2> QED  BY <1>5, <1>9, <2>1 DEF kmalloc
<1>10. CASE krealloc
  <2>1. call.fn = "realloc" /\ ebx = call.ebx /\ ecx = call.ecx
    BY <1>10, TheCall DEF krealloc
  <2>2. CASE ecx = 0 /\ Answer(ebx) /\ UNCHANGED allocated
    <3>1. call.ecx = 0
      BY <2>1, <2>2
    <3>2. call.ebx \in allocated \cup {NULL}
      BY <1>2, <2>1, <3>1
    <3>3. ebx \in allocated \cup {NULL}
      BY <2>1, <3>2
    <3>4. ebx \in Pointers \cup {NULL}
      BY <1>2, <3>3
    <3>5. ebx \in Int
      BY <1>2, <3>4
    <3> QED  BY <1>1, <1>2, <2>2, <3>3, <3>5, AnswerKeeps
  <2>3. ASSUME NEW p \in Pointers \ (allocated \cup {ebx}), ecx = 1,
               Answer(p), allocated' = (allocated \cup {p}) \ {ebx}
        PROVE  IInv'
    <3>1. ebx \notin owned
      BY <1>2, <2>1
    <3>2. p \in allocated' /\ allocated' \subseteq Pointers /\ owned \ {NULL} \subseteq allocated'
      BY <1>2, <2>3, <3>1
    <3>3. p \in Int
      BY <1>2
    <3>4. ~(call.fn = "realloc" /\ call.ecx = 0)
      BY <2>1, <2>3
    <3> QED  BY <1>1, <2>3, <3>2, <3>4, <3>3, AnswerKeeps
  <2> QED  BY <1>5, <1>10, <2>2, <2>3 DEF krealloc
<1>11. CASE kfree
  <2>1. call.fn = "free" /\ ebx = call.ebx
    BY <1>11, TheCall DEF kfree
  <2>2. Answer(NULL) /\ allocated' = allocated \ {ebx}
    BY <1>11 DEF kfree
  <2>3. ebx \notin owned
    BY <1>2, <2>1
  <2>4. allocated' \subseteq Pointers /\ owned \ {NULL} \subseteq allocated'
    BY <1>2, <2>2, <2>3
  <2>5. ~Allocates /\ ~(call.fn = "realloc" /\ call.ecx = 0)
    BY <2>1 DEF Allocates
  <2>6. Allocates => NULL \in allocated' \cup {NULL}
    BY <2>5
  <2>7. call.fn = "realloc" /\ call.ecx = 0 => call.ebx \in allocated' \cup {NULL}
    BY <2>5
  <2> QED  BY <1>1, <1>2, <2>2, <2>4, <2>6, <2>7, AnswerKeeps
<1> QED  BY <1>6, <1>7, <1>8, <1>9, <1>10, <1>11 DEF process_syscall

\* Waiting that ends.
LEMMA WaitEnds ==
  ASSUME IInv, KsleepDone \/ KsyncHandled
  PROVE  IInv'
<1>1. /\ stack # <<>> /\ Head(stack).at \in {"ksleep", "ksync"} /\ Answer(NULL)
      /\ UNCHANGED <<boot, idt, eflags_if, pic, ticks, allocated, program>>
  BY DEF KsleepDone, KsyncHandled, Handling
<1>2. Head(stack).num >= 32
  BY <1>1, NoException
<1>3. Handled(Head(stack))
  BY <1>1, <1>2, Alone
<1>4. Head(stack).num = 128
  BY <1>1, <1>3 DEF Handled, OfException, OfIrq, OfSyscall
<1>5. /\ allocated \subseteq Pointers /\ owned \ {NULL} \subseteq allocated /\ NULL \in Int
      /\ (call.fn = "realloc" /\ call.ecx = 0 => call.ebx \in allocated \cup {NULL})
  BY DEF IInv, TypeOK, OwnedAllocated, Calling, NULL
<1> QED  BY <1>1, <1>4, <1>5, AnswerKeeps

\* iretd, which only an interrupt that was alone gets to.
LEMMA Returning ==
  ASSUME IInv, Iretd
  PROVE  \E f \in Frame :
           /\ f = Head(stack) /\ stack' = <<>> /\ isr = {}
           /\ OfIrq(f) \/ OfSyscall(f)
           /\ f.at = "iretd"
           /\ f.eflags_if => boot \in {"terminal", "shutdown"}
           /\ regs' \in Registers /\ regs' = [f.regs EXCEPT !.eax = BUFFER]
           /\ regs'.eax = BUFFER /\ regs'.ebx = f.regs.ebx /\ regs'.ecx = f.regs.ecx
<1>1. stack # <<>> /\ Head(stack).at = "iretd"
  BY DEF Iretd, Handling
<1>2. Head(stack).num >= 32
  BY <1>1, NoException
<1>3. PICK f \in Frame : /\ f = Head(stack) /\ Handled(f) /\ isr = Unacknowledged(f)
                         /\ Tail(stack) = <<>>
  BY <1>1, <1>2, Alone
<1>4. f.at = "iretd" /\ (OfIrq(f) \/ OfSyscall(f)) /\ isr = {}
  BY <1>1, <1>3 DEF Handled, OfException, Unacknowledged
<1>5. f.regs \in Registers /\ BUFFER \in Int
  BY DEF Frame, IInv, TypeOK
<1>6. PICK r \in Registers : r = f.regs
  BY <1>5
<1>7. regs' = [r EXCEPT !.eax = BUFFER]
  BY <1>3, <1>6 DEF Iretd
<1>8. /\ regs' \in Registers /\ regs'.eax = BUFFER /\ regs'.ebx = f.regs.ebx
      /\ regs'.ecx = f.regs.ecx
  BY <1>5, <1>6, <1>7 DEF Registers
<1>9. stack' = <<>>
  BY <1>3 DEF Iretd
<1> QED  BY <1>3, <1>4, <1>6, <1>7, <1>8, <1>9 DEF Handled

LEMMA IretdKeeps ==
  ASSUME IInv, Iretd
  PROVE  IInv'
<1>1. PICK f \in Frame :
           /\ f = Head(stack) /\ stack' = <<>> /\ isr = {}
           /\ OfIrq(f) \/ OfSyscall(f)
           /\ f.at = "iretd"
           /\ f.eflags_if => boot \in {"terminal", "shutdown"}
           /\ regs' \in Registers /\ regs' = [f.regs EXCEPT !.eax = BUFFER]
           /\ regs'.eax = BUFFER /\ regs'.ebx = f.regs.ebx /\ regs'.ecx = f.regs.ecx
  BY Returning
<1>2. /\ BUFFER' = f.buffer /\ eflags_if' = f.eflags_if
      /\ UNCHANGED <<boot, idt, offset, masked, irr, isr, ticks, allocated, pc, call, owned>>
  BY <1>1 DEF Iretd, pic, program
<1>3. TypeOK'
  <2>1. BUFFER' \in Int /\ eflags_if' \in BOOLEAN
    BY <1>2 DEF Frame
  <2>2. stack' \in Seq(Frame)
    BY <1>1
  <2> QED  BY <1>1, <1>2, <2>1, <2>2 DEF IInv, TypeOK
<1>4. Started' /\ OwnedAllocated'
  BY <1>1, <1>2 DEF IInv, Started, OwnedAllocated
<1>5. Calling'
  <2>1. Kept(f.regs)
    BY <1>1 DEF OfIrq, OfSyscall
  <2>2. pc = "loaded" => AskedFor(BUFFER)
    BY <1>1 DEF OfIrq, OfSyscall, AskedFor, Id, NULL
  <2>3. pc \in {"answered", "tested"} => Answered(BUFFER)
    BY <1>1 DEF OfIrq, OfSyscall, Answered, NULL
  <2> QED  BY <1>1, <1>2, <2>1, <2>2, <2>3 DEF IInv, Calling, Kept, AskedFor, Answered, Allocates
<1>6. Handlers' /\ HandlersAlone' /\ InService'
  BY <1>1, <1>2 DEF Handlers, HandlersAlone, InService
<1> QED  BY <1>3, <1>4, <1>5, <1>6 DEF IInv

LEMMA StutterKeeps ==
  ASSUME IInv, UNCHANGED vars
  PROVE  IInv'
<1>1. UNCHANGED <<boot, idt, eflags_if, regs, stack, BUFFER, offset, masked, irr, isr, ticks,
                  allocated, pc, call, owned>>
  BY DEF vars, cpu, pic, program
<1>2. TypeOK'
  BY <1>1 DEF IInv, TypeOK
<1> QED  BY <1>1, <1>2 DEF IInv, Started, Calling, Kept, AskedFor, Answered, Allocates, Handlers,
            Handled, OfException, OfIrq, OfSyscall, HandlersAlone, InService, OwnedAllocated

LEMMA NextIInv == IInv /\ [Next]_vars => IInv'
<1> SUFFICES ASSUME IInv, [Next]_vars PROVE IInv'
  OBVIOUS
<1>1. CASE Boot \/ Shutdown
  BY <1>1, BootKeeps
<1>2. ASSUME NEW l \in Lines, Raise(l) \/ Deliver(l) \/ Spurious(l) PROVE IInv'
  BY <1>2, RaiseKeeps, IrqKeeps
<1>3. ASSUME NEW n \in Exceptions, Exception(n) PROVE IInv'
  BY <1>3, ExceptionKeeps
<1>4. CASE Handler
  BY <1>4, HandleExceptionKeeps, ProcessIrqKeeps, SendEOIKeeps, SyscallKeeps, WaitEnds, IretdKeeps
     DEF Handler
<1>5. CASE Wrapper
  BY <1>5, WrapperKeeps
<1>6. CASE InWrapper \/ CMOS_read \/ Ksync \/ KsyncDone
  BY <1>6, Int80Keeps, InWrapperKeeps
<1>7. CASE Spin \/ UNCHANGED vars
  BY <1>7, StutterKeeps DEF Spin
<1> QED  BY <1>1, <1>2, <1>3, <1>4, <1>5, <1>6, <1>7 DEF Next

-----------------------------------------------------------------------------
\* What the handlers, the PIC, the program and the heap know of each other
\* agrees in every reachable state.
THEOREM InterruptsInductive == Spec => []IInv
<1> QED  BY InitIInv, NextIInv, PTL DEF Spec

\* Every variable keeps its type.
THEOREM InterruptsTyped == Spec => []TypeOK
<1>1. IInv => TypeOK
  BY DEF IInv
<1> QED  BY <1>1, InterruptsInductive, PTL

\* No interrupt is let in before the IDT is loaded and the PIC moved, and none
\* returns to code that would let one in.
THEOREM OnlyThenReady == Spec => []OnlyWhenReady
<1>1. IInv => OnlyWhenReady
  BY DEF IInv, Started, Handlers, Handled, OnlyWhenReady
<1> QED  BY <1>1, InterruptsInductive, PTL

\* A line is in service exactly while its handler is still to acknowledge it.
THEOREM InServiceStays == Spec => []InServiceMatches
<1>1. ASSUME IInv PROVE InServiceMatches
  <2> DEFINE unacknowledged == {i \in DOMAIN stack :
                                  /\ stack[i].num \in 32 .. 38
                                  /\ stack[i].at \in {"interrupt_handler", "send_EOI"}}
             numbers == {stack[i].num - MASTER_PIC_OFFSET : i \in unacknowledged}
  <2>1. /\ stack \in Seq(Frame) /\ DOMAIN stack = 1 .. Len(stack) /\ InService /\ HandlersAlone
    BY <1>1, Frames DEF IInv, TypeOK
  <2>2. isr = numbers
    <3>1. CASE stack = <<>>
      BY <2>1, <3>1 DEF InService
    <3>2. CASE stack # <<>>
      <4>1. PICK n \in Nat \ {0} : n = Len(stack)
        BY <2>1, <3>2, Frames
      <4>2. PICK f \in Frame : f = stack[n]
        BY <2>1, <4>1
      <4>3. isr = Unacknowledged(f)
        BY <2>1, <3>2, <4>1, <4>2 DEF InService
      <4>4. ASSUME NEW i \in unacknowledged PROVE i = n
        <5>1. i \in 1 .. n /\ stack[i].num \in 32 .. 38
          BY <2>1, <4>1
        <5>2. ~ i < n
          BY <2>1, <4>1, <5>1 DEF HandlersAlone
        <5> QED  BY <5>1, <5>2
      <4>5. n \in DOMAIN stack
        BY <2>1, <4>1
      <4>6. ASSUME NEW l \in isr PROVE l \in numbers
        <5>1. /\ l \in 0 .. 6 /\ f.num = 32 + l /\ f.at \in {"interrupt_handler", "send_EOI"}
          BY <4>3 DEF Unacknowledged, MASTER_PIC_OFFSET
        <5>2. n \in unacknowledged /\ l = stack[n].num - MASTER_PIC_OFFSET
          BY <4>2, <4>5, <5>1 DEF MASTER_PIC_OFFSET
        <5> QED  BY <5>2
      <4>7. ASSUME NEW l \in numbers PROVE l \in isr
        <5>1. PICK i \in unacknowledged : l = stack[i].num - MASTER_PIC_OFFSET
          OBVIOUS
        <5>2. /\ f.num \in 32 .. 38 /\ f.at \in {"interrupt_handler", "send_EOI"} /\ l = f.num - 32
          BY <4>2, <4>4, <5>1 DEF MASTER_PIC_OFFSET
        <5> QED  BY <4>3, <5>2 DEF Unacknowledged, MASTER_PIC_OFFSET
      <4> QED  BY <4>6, <4>7
    <3> QED  BY <3>1, <3>2
  <2> QED  BY <2>2 DEF InServiceMatches
<1> QED  BY <1>1, InterruptsInductive, PTL

\* Handlers run with interrupts off, so one of them at a time.
THEOREM HandlersStayAlone == Spec => []HandlersAlone
<1>1. IInv => HandlersAlone
  BY DEF IInv
<1> QED  BY <1>1, InterruptsInductive, PTL

\* However often malloc and realloc ask, int $0x80 comes with their arguments.
THEOREM ArgumentsStay == Spec => []ArgumentsKept
<1>1. IInv => ArgumentsKept
  BY DEF IInv, Calling, Kept, ArgumentsKept
<1> QED  BY <1>1, InterruptsInductive, PTL

\* The kernel runs the call the program made, or sleep.
THEOREM AskedStays == Spec => []AskedOrSleep
<1>1. IInv => AskedOrSleep
  BY DEF IInv, Handlers, Handled, OfException, OfIrq, OfSyscall, AskedFor, AskedOrSleep
<1> QED  BY <1>1, InterruptsInductive, PTL

\* A pointer the program holds is NULL or a block the kernel counts as used,
\* although an answer may be lost to an interrupt, before the wrapper tests it
\* and is asked for again, or after, and is gone for good.
THEOREM OwnedStays == Spec => []OwnedAllocated
<1>1. IInv => OwnedAllocated
  BY DEF IInv
<1> QED  BY <1>1, InterruptsInductive, PTL

\* An interrupt that is no system call leaves every register as it was but
\* eax, which it makes 0: NULL to the loops of malloc and realloc, sleep to int $0x80.
THEOREM OthersRestored == Spec => OnlyEaxLost
<1> DEFINE Restored == regs' = [Head(stack).regs EXCEPT !.eax = NULL]
<1>1. ASSUME IInv, InterruptReturn PROVE Restored
  <2>1. Iretd /\ Head(stack).num # 128
    BY <1>1 DEF InterruptReturn
  <2>2. PICK f \in Frame :
           /\ f = Head(stack)
           /\ OfIrq(f) \/ OfSyscall(f)
           /\ f.at = "iretd" /\ regs' = [f.regs EXCEPT !.eax = BUFFER]
    BY <1>1, <2>1, Returning
  <2>3. BUFFER = NULL
    BY <2>1, <2>2 DEF OfIrq, OfSyscall
  <2> QED  BY <2>2, <2>3
<1>2. IInv /\ [Next]_vars => [InterruptReturn => Restored]_vars
  BY <1>1
<1> QED  BY <1>2, InterruptsInductive, PTL DEF Spec, OnlyEaxLost
=============================================================================
