-------------------------------- MODULE Intr --------------------------------
(***************************************************************************)
(* Interrupts, from kentry to the running system: the segment and the      *)
(* interrupt table (kernel/x86/<arch>/gdt.cpp, idt.cpp), the two interrupt *)
(* controllers (pic.cpp), the timer (pit.cpp), the keyboard (kbd.cpp), the *)
(* system call vector (sys/call.cpp), the entry code (isr.s, exception.s)  *)
(* and the exception handler (exception.cpp).  What the threads do is in   *)
(* Sched, what the keys are in Console: here a key is a byte in the        *)
(* keyboard's buffer.                                                      *)
(***************************************************************************)
EXTENDS Integers, Sequences, SequencesExt, FiniteSets

CONSTANTS Lines,        \* interrupt lines that devices raise; 0 is the timer's, 1 the keyboard's
          MaxBytes      \* bound: bytes the keyboard keeps

PIC_REMAP_OFFSET == 32
CALL_IRQ == 128
Irqs == 0 .. 15

ASSUME IntrAssumption == Lines \subseteq Irqs /\ MaxBytes \in Nat

Exceptions == 0 .. 18
Gates == Exceptions \cup {PIC_REMAP_OFFSET + i : i \in Irqs} \cup {CALL_IRQ}   \* the vectors in use

VARIABLES gdt,          \* the bytes of each segment descriptor
          idt,          \* vector -> its gate
          pic,          \* the controllers: vector offset, mask, requests, in service
          cpu,          \* the interrupt flag and the interrupts being served
          keyboard,     \* bytes that wait in the keyboard controller
          boot,         \* where boot is; if a byte was waiting in pic_init
          report        \* what exception_handle was told last, and about what

intr_vars == <<gdt, idt, pic, cpu, keyboard, boot, report>>

NoReport == [vector |-> 0, pushed |-> "none", arch |-> "none", code |-> 0, error |-> "none"]

\* Flags of descriptors and gates.
READABLE == 2
WRITABLE == 2
CONFORMING == 4
EXECUTE == 8
ONE == 16
PRESENT == 128
LONG_64 == 2
PROTECTED_32 == 4
PAGE == 8
GATE_INT == 14

\* gdt_set_entry: the fields of a descriptor, split as the processor wants them.
gdt_set_entry(offset, size, access_flags, granularity_flags) ==
    [offset_lo |-> offset % 2^16, offset_mid |-> (offset \div 2^16) % 2^8,
     offset_hi |-> (offset \div 2^24) % 2^8, size_lo |-> size % 2^16,
     granularity_flags |-> ((size \div 2^16) % 16) + ((16 * granularity_flags) % 256),
     access_flags |-> access_flags]

NullSegment == gdt_set_entry(0, 0, 0, 0)
NoGate == [routine |-> "none", selector |-> 0, type_attr |-> 0]

\* Before the tables are written.  The loader leaves the controllers as the
\* firmware set them up.
intr_init ==
    /\ gdt = [n \in 0 .. 2 |-> NullSegment]
    /\ idt = [v \in Gates |-> NoGate]
    /\ pic = [offset |-> 8, imr |-> {}, irr |-> {}, isr |-> {}]
    /\ cpu = [enabled |-> FALSE, frames |-> <<>>]
    /\ keyboard = 0
    /\ boot = [at |-> "gdt_init", arch |-> "none", stale |-> FALSE]
    /\ report = NoReport

-----------------------------------------------------------------------------
(* The devices and the controllers. *)

\* A line goes up.  The keyboard's does when its buffer is no longer empty.
raise(i) ==
    /\ i # 1
    /\ pic' = [pic EXCEPT !.irr = @ \cup {i}]
    /\ UNCHANGED <<gdt, idt, cpu, keyboard, boot, report>>

key ==
    /\ keyboard < MaxBytes
    /\ keyboard' = keyboard + 1
    /\ pic' = [pic EXCEPT !.irr = IF keyboard = 0 THEN @ \cup {1} ELSE @]
    /\ UNCHANGED <<gdt, idt, cpu, boot, report>>

\* The timer's line goes down before the request was served: the tick is lost.
timer_low ==
    /\ pic' = [pic EXCEPT !.irr = @ \ {0}]
    /\ UNCHANGED <<gdt, idt, cpu, keyboard, boot, report>>

\* The second controller hangs on line 2 of the first.
Rank(i) == IF i < 2 THEN i ELSE IF i >= 8 THEN i ELSE i + 16
Requests == {i \in pic.irr \ pic.imr :
                /\ i >= 8 => 2 \notin pic.imr
                /\ \A j \in pic.isr : Rank(i) < Rank(j)}
Urgent(s) == {i \in s : \A j \in s : Rank(i) <= Rank(j)}

\* What the processor makes of a descriptor.
Bit(x, b) == (x \div b) % 2 = 1
Segment(d) ==
    [base |-> d.offset_lo + 2^16 * d.offset_mid + 2^24 * d.offset_hi,
     limit |-> d.size_lo + 2^16 * (d.granularity_flags % 16),
     pages |-> Bit(d.granularity_flags, 128),
     code |-> Bit(d.access_flags, PRESENT) /\ Bit(d.access_flags, ONE) /\ Bit(d.access_flags, EXECUTE),
     mode |-> IF Bit(d.granularity_flags, 64) = Bit(d.granularity_flags, 32) THEN "none"
              ELSE IF Bit(d.granularity_flags, 64) THEN "i386" ELSE "amd64"]

\* A gate leads to its routine if it is one for interrupts and selects a
\* segment of code for the processor's mode that covers all memory.
Routine(vector) ==
    LET gate == idt[vector]
        s == Segment(gdt[gate.selector \div 8])
    IN  IF /\ gate.type_attr = GATE_INT + PRESENT
           /\ s.code /\ s.mode = boot.arch /\ s.base = 0 /\ s.limit = 2^20 - 1 /\ s.pages
        THEN gate.routine ELSE "fault"

Frame(vector) == [routine |-> Routine(vector), at |-> "entry"]
Enter(vector) == cpu' = [enabled |-> FALSE, frames |-> Append(cpu.frames, Frame(vector))]

\* The processor takes a request: all entries are interrupt gates.
accept ==
    /\ cpu.enabled
    /\ \E i \in Urgent(Requests) :
          /\ pic' = [pic EXCEPT !.irr = @ \ {i},
                                !.isr = @ \cup {i} \cup (IF i >= 8 THEN {2} ELSE {})]
          /\ Enter(pic.offset + i)
    /\ UNCHANGED <<gdt, idt, keyboard, boot, report>>

\* The request is gone when the processor asks for its number.
accept_spurious ==
    /\ cpu.enabled
    /\ Requests = {0}
    /\ pic' = [pic EXCEPT !.irr = @ \ {0}]
    /\ Enter(pic.offset + 7)
    /\ UNCHANGED <<gdt, idt, keyboard, boot, report>>

-----------------------------------------------------------------------------
(* kentry, arch_init and main. *)

\* idt_set_entry, with the selector of the second segment.
Gate(routine) == [routine |-> routine, selector |-> 1 * 8, type_attr |-> GATE_INT + PRESENT]
idt_set_entry(table, vector, routine) == [table EXCEPT ![vector] = Gate(routine)]
interrupt_bind(irq, routine, hardware) ==
    idt' = idt_set_entry(idt, IF hardware THEN PIC_REMAP_OFFSET + irq ELSE irq, routine)

pic_mask(p, irq, enable) == [p EXCEPT !.imr = IF enable THEN @ \ {irq} ELSE @ \cup {irq}]

\* The steps of arch_init, and of boot around it.
arch_init == <<"pic_init", "pit_bind", "pit_init", "kbd_bind", "kbd_init">>
BootSteps == <<"gdt_init", "idt_init">> \o arch_init \o <<"call_init", "main", "up">>
Boot(step) ==
    \E n \in 1 .. Len(BootSteps) - 1 :
        /\ BootSteps[n] = step /\ boot.at = step
        /\ boot' = [boot EXCEPT !.at = BootSteps[n + 1]]

\* No segment, code, data, over all of memory in pages.
Segments(code_access_flags, granularity_flags) ==
    [n \in 0 .. 2 |->
        CASE n = 0 -> NullSegment
          [] n = 1 -> gdt_set_entry(0, 1048575, code_access_flags, granularity_flags)
          [] n = 2 -> gdt_set_entry(0, 1048575, WRITABLE + ONE + PRESENT, granularity_flags)]

gdt_init_i386 == Segments(READABLE + EXECUTE + ONE + PRESENT, PAGE + PROTECTED_32)
gdt_init_amd64 == Segments(READABLE + EXECUTE + ONE + CONFORMING + PRESENT, PAGE + LONG_64)

kentry(arch) ==
    /\ boot.at = "gdt_init"
    /\ boot' = [boot EXCEPT !.at = "idt_init", !.arch = arch]
    /\ gdt' = IF arch = "i386" THEN gdt_init_i386 ELSE gdt_init_amd64
    /\ UNCHANGED <<idt, pic, cpu, keyboard, report>>

idt_init ==
    /\ Boot("idt_init")
    /\ idt' = [v \in Gates |-> Gate(IF v \in Exceptions THEN "isr_exception"
                                      ELSE IF v = PIC_REMAP_OFFSET + 7 THEN "isr_spurious"
                                      ELSE "isr_stub")]
    /\ UNCHANGED <<gdt, pic, cpu, keyboard, report>>

\* ICW1 to ICW4, which forget every request, and all lines masked.
pic_init ==
    /\ boot.at = "pic_init"
    /\ boot' = [boot EXCEPT !.at = "pit_bind", !.stale = keyboard > 0]
    /\ pic' = [offset |-> PIC_REMAP_OFFSET, imr |-> Irqs, irr |-> {}, isr |-> {}]
    /\ UNCHANGED <<gdt, idt, cpu, keyboard, report>>

pit_bind == /\ Boot("pit_bind")
            /\ interrupt_bind(0, "isr_pit", TRUE)
            /\ UNCHANGED <<gdt, pic, cpu, keyboard, report>>

pit_init == /\ Boot("pit_init")
            /\ pic' = pic_mask(pic, 0, TRUE)
            /\ UNCHANGED <<gdt, idt, cpu, keyboard, report>>

kbd_bind == /\ Boot("kbd_bind")
            /\ interrupt_bind(1, "isr_kbd", TRUE)
            /\ UNCHANGED <<gdt, pic, cpu, keyboard, report>>

\* ps2_8042_open_port finds no controller initiated and does nothing.
kbd_init == /\ Boot("kbd_init")
            /\ pic' = pic_mask(pic, 1, TRUE)
            /\ UNCHANGED <<gdt, idt, cpu, keyboard, report>>

call_init == /\ Boot("call_init")
             /\ interrupt_bind(CALL_IRQ, "isr_syscall", FALSE)
             /\ UNCHANGED <<gdt, pic, cpu, keyboard, report>>

main == /\ Boot("main")
        /\ cpu' = [cpu EXCEPT !.enabled = TRUE]
        /\ UNCHANGED <<gdt, idt, pic, keyboard, report>>

-----------------------------------------------------------------------------
(* The routines. *)

\* A non-specific end of interrupt ends the most urgent one.
pic_ack(p, irq) ==
    LET slave == {i \in p.isr : i >= 8}
        ended == IF irq >= 8 THEN Urgent(slave) ELSE {}
    IN  [p EXCEPT !.isr = (@ \ ended) \ Urgent({i \in @ : i < 8})]

Top == Last(cpu.frames)
Serving(routine, at) == cpu.frames # <<>> /\ Top.routine = routine /\ Top.at = at
At(at) == [cpu EXCEPT !.frames[Len(cpu.frames)].at = at]

\* iret: interrupts were on when the interrupt came.
Iret == [enabled |-> TRUE, frames |-> Front(cpu.frames)]

\* scheduler_preempt and iret: some thread goes on, in its code or in a system call.
Preempt == {[enabled |-> TRUE, frames |-> <<>>],
            [enabled |-> TRUE, frames |-> <<[routine |-> "isr_syscall", at |-> "call"]>>]}

pit_isr_main ==
    /\ Serving("isr_pit", "entry")
    /\ pic' = pic_ack(pic, 0)
    /\ cpu' \in Preempt
    /\ UNCHANGED <<gdt, idt, keyboard, boot, report>>

\* Mutant of kbd_ack: the interrupt is not acknowledged.
kbd_unacked ==
    /\ Serving("isr_kbd", "entry")
    /\ cpu' = At("loop")
    /\ UNCHANGED <<gdt, idt, pic, keyboard, boot, report>>

kbd_ack ==
    /\ Serving("isr_kbd", "entry")
    /\ pic' = pic_ack(pic, 1)
    /\ cpu' = At("loop")
    /\ UNCHANGED <<gdt, idt, keyboard, boot, report>>

\* Read one byte: the line goes down, and up again for the next byte.  An
\* unknown code ends the loop.
kbd_byte ==
    /\ Serving("isr_kbd", "loop") /\ keyboard > 0
    /\ keyboard' = keyboard - 1
    /\ pic' = [pic EXCEPT !.irr = IF keyboard > 1 THEN @ \cup {1} ELSE @ \ {1}]
    /\ cpu' \in {cpu, Iret}
    /\ UNCHANGED <<gdt, idt, boot, report>>

kbd_empty ==
    /\ Serving("isr_kbd", "loop") /\ keyboard = 0
    /\ cpu' = Iret
    /\ UNCHANGED <<gdt, idt, pic, keyboard, boot, report>>

spurious_isr_main ==
    /\ Serving("isr_spurious", "entry")
    /\ cpu' = Iret
    /\ UNCHANGED <<gdt, idt, pic, keyboard, boot, report>>

\* A thread holds an interrupt lock.
interrupt_enable(enable) ==
    /\ boot.at = "up" /\ cpu.frames = <<>>
    /\ cpu' = [cpu EXCEPT !.enabled = enable]
    /\ UNCHANGED <<gdt, idt, pic, keyboard, boot, report>>

\* call() does nothing when interrupts are off.
call_enter ==
    /\ boot.at = "up" /\ cpu.frames = <<>> /\ cpu.enabled
    /\ Enter(CALL_IRQ)
    /\ UNCHANGED <<gdt, idt, pic, keyboard, boot, report>>

\* syscall_isr_main: the kernel is re-entrant.
syscall_isr_main ==
    /\ Serving("isr_syscall", "entry")
    /\ cpu' = [At("call") EXCEPT !.enabled = TRUE]
    /\ UNCHANGED <<gdt, idt, pic, keyboard, boot, report>>

call_return ==
    /\ Serving("isr_syscall", "call")
    /\ cpu' \in {Iret} \cup Preempt
    /\ UNCHANGED <<gdt, idt, pic, keyboard, boot, report>>

-----------------------------------------------------------------------------
(* Exceptions. *)

\* The processor pushes an error code for some exceptions, and isr_<v> a
\* dummy for those that are said to have none, then its own number.
CpuError(v) == IF v \in {8, 10, 11, 12, 13, 14, 17} THEN <<"error">> ELSE <<>>
Dummy(v) == IF v \in {8} \cup (10 .. 14) THEN <<>> ELSE <<"dummy">>
isr_push(v) == CpuError(v) \o Dummy(v) \o <<v>>

\* isr_common reads the two topmost words.  On amd64 the two variables have
\* no room of their own and share one address, which keeps the number.
isr_common(v) ==
    LET stack == isr_push(v)
    IN  [vector |-> v, arch |-> boot.arch,
         pushed |-> IF CpuError(v) = <<>> THEN "dummy" ELSE "error",
         code |-> stack[Len(stack)],
         error |-> IF boot.arch = "amd64" THEN "code" ELSE stack[Len(stack) - 1]]

exception_panic(code) == code \in {2, 4, 8, 9, 10, 15, 18}

\* A thread, also one in a system call, raises an exception; its handler
\* stops the kernel, or kills the thread and goes on with another.
exception_handle(v) ==
    /\ boot.at = "up"
    /\ cpu.frames = <<>> \/ Serving("isr_syscall", "call")
    /\ Routine(v) = "isr_exception"
    /\ report' = isr_common(v)
    /\ IF exception_panic(report'.code)
       THEN /\ boot' = [boot EXCEPT !.at = "hung"]
            /\ cpu' = [cpu EXCEPT !.enabled = FALSE]
       ELSE /\ cpu' \in Preempt
            /\ UNCHANGED boot
    /\ UNCHANGED <<gdt, idt, pic, keyboard>>

intr_next ==
    /\ boot.at # "hung"
    /\ \/ \E i \in Lines : raise(i)
       \/ key \/ timer_low \/ accept \/ accept_spurious
       \/ \E arch \in {"i386", "amd64"} : kentry(arch)
       \/ idt_init \/ pic_init \/ pit_bind \/ pit_init \/ kbd_bind \/ kbd_init
       \/ call_init \/ main
       \/ pit_isr_main \/ kbd_ack \/ kbd_byte \/ kbd_empty \/ spurious_isr_main
       \/ \E b \in BOOLEAN : interrupt_enable(b)
       \/ call_enter \/ syscall_isr_main \/ call_return
       \/ \E v \in Exceptions : exception_handle(v)

intr_spec == intr_init /\ [][intr_next]_intr_vars

-----------------------------------------------------------------------------
\* Whatever the devices do, also before the controllers are set up and with
\* ticks that vanish: no interrupt meets a gate without a handler of its
\* own or one that the processor cannot pass, in either mode; while interrupts
\* are on nothing is in service that would hold one back; and a byte that waits
\* in the keyboard has a request pending or the handler still to look, unless
\* it waited since before pic_init, which forgets it.  An exception is reported
\* as what it was, its error code too, except exception 17, for which two error
\* codes are pushed, and on amd64.
InterruptsHandled ==
    /\ \A n \in 1 .. Len(cpu.frames) :
          cpu.frames[n].routine \in {"isr_pit", "isr_kbd", "isr_spurious", "isr_syscall"}
    /\ cpu.enabled => pic.isr = {}
    /\ keyboard > 0 /\ ~boot.stale =>
          1 \in pic.irr \/ Serving("isr_kbd", "entry") \/ Serving("isr_kbd", "loop")
    /\ report # NoReport =>
          /\ report.code = report.vector
          /\ report.arch = "i386" /\ report.vector # 17 => report.error = report.pushed
=============================================================================
