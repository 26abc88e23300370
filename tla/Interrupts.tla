----------------------------- MODULE Interrupts -----------------------------
(***************************************************************************)
(* Interrupts from the boot of the kernel on: the descriptor table and its *)
(* routines, the interrupt controllers, the stubs of interrupt.s, and the  *)
(* system calls.  One CPU runs the kernel and its programs, all in kernel  *)
(* mode; devices raise their lines at any time.                            *)
(*                                                                         *)
(* What runs is the routine of the topmost frame of `stack', and the       *)
(* kernel's own code, at `pc', under the last one.  A pending interrupt is *)
(* taken before the next instruction, if the interrupt flag is set.        *)
(***************************************************************************)
EXTENDS Descriptors, FiniteSets

CONSTANTS
  Lines,        (* lines that devices raise, of 0 .. 15                    *)
  Exceptions,   (* exceptions that programs run into                       *)
  MaxRaised,    (* bound: number of times lines are raised                 *)
  MaxCalls      (* bound: number of system calls and exceptions            *)

(* The CPU does not check alignment (exception 17) in kernel mode.         *)
ASSUME InterruptsAssumption ==
  /\ Lines \subseteq 0 .. 15
  /\ Exceptions \subseteq (0 .. 31) \ {17}
  /\ MaxRaised \in Nat /\ MaxCalls \in Nat

VARIABLES
  pc,           (* the next step of kernel_main and init_system            *)
  flag,         (* the CPU's interrupt flag                                *)
  stack,        (* the frames of interrupts being handled                  *)
  isr,          (* the table of routines, isr_                             *)
  pic,          (* the controllers: remapped, mask, pending, inService     *)
  stdin,        (* kernel->in() is set                                     *)
  codes,        (* scan codes in the keyboard's buffer                     *)
  raised, calls (* bounds                                                  *)

intVars == <<pc, flag, stack, isr, pic, stdin, codes, raised, calls>>

Timer == 0
KeyboardLine == 1
Cascade == 2
PageFault == 14
DoubleFault == 8
SystemCall == 128

(* The vectors of a line: as the firmware left them, and as init_pics puts *)
(* them.                                                                   *)
FirmwareVector(line) == IF line < 8 THEN 8 + line ELSE 112 + line - 8
KernelVector(line) == 32 + line
Vectors == Exceptions \cup {DoubleFault, PageFault, SystemCall}
           \cup {FirmwareVector(l) : l \in Lines}
           \cup {KernelVector(l) : l \in Lines}

(* boot.s jumps to kernel_main with interrupts off.                        *)
IntInit ==
  /\ pc = "construct"
  /\ flag = FALSE
  /\ stack = <<>>
  /\ isr = [v \in Vectors |-> "none"]
  /\ pic = [remapped |-> FALSE, mask |-> {}, pending |-> {}, inService |-> {}]
  /\ stdin = FALSE
  /\ codes = 0
  /\ raised = 0
  /\ calls = 0

-----------------------------------------------------------------------------
(* The controllers. *)

(* A device raises its line.                                               *)
Raise(line) ==
  /\ raised < MaxRaised
  /\ line \notin pic.pending
  /\ pic' = [pic EXCEPT !.pending = @ \cup {line}]
  /\ raised' = raised + 1
  /\ UNCHANGED <<pc, flag, stack, isr, stdin, codes, calls>>

(* Lines the controllers would interrupt for: not masked, the second       *)
(* controller's line neither, and not below one that is in service.        *)
Offered ==
  {l \in pic.pending \ pic.mask :
     /\ l >= 8 => Cascade \notin pic.mask
     /\ \A s \in pic.inService : l < s}

(* X86::CPU::unmaskIRQ: a line of the second controller is not unmasked,   *)
(* as its number becomes 8, which is no bit of the mask.                   *)
UnmaskIRQ(mask, irq) == IF irq < 8 THEN mask \ {irq} ELSE mask

(* Mutant of EndOfInterrupt: it is not sent.                               *)
EndOfInterruptLost(p) == p

(* outb(0x20, 0x20): ends the interrupt of the first controller that has   *)
(* the highest priority.                                                   *)
EndOfInterrupt(p) ==
  [p EXCEPT !.inService =
     @ \ {l \in @ : l < 8 /\ \A s \in @ : l <= s}]

-----------------------------------------------------------------------------
(* The CPU. *)

Halted == pc = "halted"
Idle == stack = <<>>
Top == stack[Len(stack)]
Popped == SubSeq(stack, 1, Len(stack) - 1)
Interrupted == flag /\ Offered # {}

(* Vectors for which the CPU pushes an error code, and those whose stub,   *)
(* ISR_ERRCODE, expects one; the others' stub pushes a dummy.              *)
CpuPushesCode == {8, 10, 11, 12, 13, 14, 17}

StubExpectsCode == {8} \cup (10 .. 14)

(* An interrupt gate clears the flag; the stub makes the frame alike for   *)
(* all vectors, and the routine is called.                                 *)
Frame(vector, cause) ==
  [vector |-> vector, cause |-> cause, flagWas |-> flag, step |-> "start",
   words |-> (IF vector \in CpuPushesCode THEN 1 ELSE 0)
             + (IF vector \in StubExpectsCode THEN 1 ELSE 2)]

(* An interrupt is taken. *)
Deliver ==
  /\ ~Halted
  /\ Interrupted
  /\ \E line \in Offered :
       /\ \A l \in Offered : line <= l
       /\ LET vector == IF pic.remapped THEN KernelVector(line)
                                        ELSE FirmwareVector(line)
          IN stack' = Append(stack, Frame(vector, line))
       /\ pic' = [pic EXCEPT !.pending = @ \ {line}, !.inService = @ \cup {line}]
  /\ flag' = FALSE
  /\ UNCHANGED <<pc, isr, stdin, codes, raised, calls>>

Running(routines, step) ==
  /\ ~Halted
  /\ ~Interrupted
  /\ ~Idle
  /\ Top.step = step
  /\ isr[Top.vector] \in routines

Stepped(step) == [stack EXCEPT ![Len(stack)].step = step]

(* The end of isr_common_stub: add $8, sti, iret.  No interrupt is taken   *)
(* between the last two.                                                   *)
Return ==
  /\ ~Halted
  /\ ~Interrupted
  /\ ~Idle
  /\ Top.step = "return"
  /\ stack' = Popped
  /\ flag' = Top.flagWas
  /\ UNCHANGED <<pc, isr, pic, stdin, codes, raised, calls>>

-----------------------------------------------------------------------------
(* Routines. *)

(* PS2KeyboardISR *)
KeyboardRoutine ==
  /\ Running({"keyboard"}, "start")
  /\ codes' = codes + 1
  /\ stack' = Stepped("return")
  /\ pic' = EndOfInterrupt(pic)
  /\ UNCHANGED <<pc, flag, isr, stdin, raised, calls>>

(* PITIRQ, and IRQHandler of the lines without a driver                    *)
LineRoutine ==
  /\ Running({"pit", "irq"}, "start")
  /\ stack' = Stepped("return")
  /\ pic' = EndOfInterrupt(pic)
  /\ UNCHANGED <<pc, flag, isr, stdin, codes, raised, calls>>

(* StubISR: a message, and on with the instruction that failed             *)
StubRoutine ==
  /\ Running({"stub"}, "start")
  /\ stack' = Stepped("return")
  /\ UNCHANGED <<pc, flag, isr, pic, stdin, codes, raised, calls>>

(* Kernel::panic: cli, hlt                                                 *)
Panic ==
  /\ pc' = "halted"
  /\ flag' = FALSE

(* PanicISR and PageFaultISR; without a routine the CPU resets.            *)
PanicRoutine ==
  /\ Running({"panic", "pageFault", "none"}, "start")
  /\ Panic
  /\ UNCHANGED <<stack, isr, pic, stdin, codes, raised, calls>>

(* Mutant of SyscallRoutine: read does not enable interrupts.              *)
SyscallRoutineDeaf ==
  /\ Running({"syscall"}, "start")
  /\ stack' = Stepped(IF Top.cause \in {"read", "readOther"} THEN "reading" ELSE "return")
  /\ UNCHANGED <<pc, flag, isr, pic, stdin, codes, raised, calls>>

(* SyscallHandler.  All but read and die do their work and return; read    *)
(* enables interrupts, waits for a key and disables them again.            *)
SyscallRoutine ==
  /\ Running({"syscall"}, "start")
  /\ \/ /\ Top.cause \in {"read", "readOther"}
        /\ stack' = Stepped("reading")
        /\ flag' = TRUE
        /\ UNCHANGED pc
     \/ /\ Top.cause = "die"
        /\ Panic
        /\ UNCHANGED stack
     \/ /\ Top.cause \notin {"read", "readOther", "die"}
        /\ stack' = Stepped("return")
        /\ UNCHANGED <<pc, flag>>
  /\ UNCHANGED <<isr, pic, stdin, codes, raised, calls>>

(* Syscall::read returns: with a key, or at once if the descriptor is not  *)
(* that of the standard input.                                             *)
ReadReturns ==
  /\ Running({"syscall"}, "reading")
  /\ \/ Top.cause = "read" /\ codes > 0 /\ codes' = codes - 1
     \/ Top.cause = "readOther" /\ UNCHANGED codes
  /\ stack' = Stepped("return")
  /\ flag' = FALSE
  /\ UNCHANGED <<pc, isr, pic, stdin, raised, calls>>

-----------------------------------------------------------------------------
(* kernel_main and init_system. *)

Kernel(step) == pc = step /\ ~Interrupted /\ Idle

(* X86Kernel is constructed; without the magic number of a boot loader, or *)
(* without a map of the memory, the kernel panics.                         *)
ReadMultiboot ==
  /\ Kernel("construct")
  /\ \/ pc' = "install" /\ UNCHANGED flag
     \/ Panic
  /\ UNCHANGED <<stack, isr, pic, stdin, codes, raised, calls>>

encodeISRs == [v \in Vectors |-> IF v = DoubleFault THEN "panic" ELSE "stub"]

(* X86::CPU::install; then the MMU *)
InstallTables ==
  /\ Kernel("install")
  /\ isr' = encodeISRs
  /\ pc' = "handlers"
  /\ UNCHANGED <<flag, stack, pic, stdin, codes, raised, calls>>

InstallHandlers ==
  /\ Kernel("handlers")
  /\ isr' = [isr EXCEPT ![PageFault] = "pageFault", ![SystemCall] = "syscall"]
  /\ pc' = "pics"
  /\ UNCHANGED <<flag, stack, pic, stdin, codes, raised, calls>>

(* init_pics; its first command makes the controllers forget what is       *)
(* pending.                                                                *)
InitPics ==
  /\ Kernel("pics")
  /\ isr' = [v \in Vectors |-> IF v \in {KernelVector(l) : l \in Lines}
                               THEN "irq" ELSE isr[v]]
  /\ pic' = [remapped |-> TRUE, mask |-> 0 .. 15, pending |-> {}, inService |-> {}]
  /\ pc' = "enable"
  /\ UNCHANGED <<flag, stack, stdin, codes, raised, calls>>

(* sti, the end of enableInterrupts *)
EnableInterrupts ==
  /\ Kernel("enable")
  /\ flag' = TRUE
  /\ pc' = "keyboard"
  /\ UNCHANGED <<stack, isr, pic, stdin, codes, raised, calls>>

(* Mutant of SetRoutine: the line is unmasked before its routine is set.   *)
SetRoutineLate(at, vector, routine, next) ==
  /\ Kernel(at)
  /\ pc' = next
  /\ pic' = [pic EXCEPT !.mask = UnmaskIRQ(@, vector - 32)]
  /\ UNCHANGED <<flag, stack, isr, stdin, codes, raised, calls>>

(* PS2KeyboardISR::install and PITIRQ::install: the routine is set, and    *)
(* then the line is unmasked.                                              *)
SetRoutine(at, vector, routine, next) ==
  /\ Kernel(at)
  /\ isr' = [isr EXCEPT ![vector] = routine]
  /\ pc' = next
  /\ UNCHANGED <<flag, stack, pic, stdin, codes, raised, calls>>

UnmaskLine(at, line, next) ==
  /\ Kernel(at)
  /\ pic' = [pic EXCEPT !.mask = UnmaskIRQ(@, line)]
  /\ pc' = next
  /\ UNCHANGED <<flag, stack, isr, stdin, codes, raised, calls>>

InstallDrivers ==
  \/ SetRoutine("keyboard", KernelVector(KeyboardLine), "keyboard", "unmaskKeyboard")
  \/ UnmaskLine("unmaskKeyboard", KeyboardLine, "timer")
  \/ SetRoutine("timer", KernelVector(Timer), "pit", "unmaskTimer")
  \/ UnmaskLine("unmaskTimer", Timer, "setIn")

(* kernel->setIn; from here on disks are read and programs run.            *)
SetIn ==
  /\ Kernel("setIn")
  /\ stdin' = TRUE
  /\ pc' = "program"
  /\ UNCHANGED <<flag, stack, isr, pic, codes, raised, calls>>

(* A program makes a system call: int $0x80.                               *)
Call(call) ==
  /\ Kernel("program")
  /\ calls < MaxCalls
  /\ stack' = Append(stack, Frame(SystemCall, call))
  /\ flag' = FALSE
  /\ calls' = calls + 1
  /\ UNCHANGED <<pc, isr, pic, stdin, codes, raised>>

(* A program runs into an exception, and again when its routine returns.   *)
Fault(exception) ==
  /\ \/ Kernel("program") /\ calls < MaxCalls /\ calls' = calls + 1
     \/ Kernel("faulting") /\ UNCHANGED calls
  /\ pc' = "faulting"
  /\ stack' = Append(stack, Frame(exception, "exception"))
  /\ flag' = FALSE
  /\ UNCHANGED <<isr, pic, stdin, codes, raised>>

(* The programs end, and the kernel reads keys for ever.                   *)
ProgramsEnd ==
  /\ Kernel("program")
  /\ pc' = "idle"
  /\ UNCHANGED <<flag, stack, isr, pic, stdin, codes, raised, calls>>

IdleRead ==
  /\ Kernel("idle")
  /\ codes > 0
  /\ codes' = codes - 1
  /\ UNCHANGED <<pc, flag, stack, isr, pic, stdin, raised, calls>>

Calls == {"read", "readOther", "write", "exit", "sleep", "die", "unknown"}

CpuStep ==
  \/ Deliver \/ Return
  \/ KeyboardRoutine \/ LineRoutine \/ StubRoutine \/ PanicRoutine
  \/ SyscallRoutine \/ ReadReturns
  \/ ReadMultiboot \/ InstallTables \/ InstallHandlers \/ InitPics
  \/ EnableInterrupts \/ InstallDrivers \/ SetIn
  \/ \E call \in Calls : Call(call)
  \/ \E exception \in Exceptions : Fault(exception)
  \/ ProgramsEnd \/ IdleRead

IntNext == CpuStep \/ \E line \in Lines : Raise(line)

-----------------------------------------------------------------------------
(* From the moment interrupts are enabled on, whatever interrupts the CPU  *)
(* finds its routine: the controllers do not send a line to the vector of  *)
(* an exception, a line is unmasked only when its driver's routine is set, *)
(* lines of the second controller never come through, and a read finds a   *)
(* standard input.  Every stub hands iret the frame the CPU pushed, with   *)
(* or without an error code, and every gate leads to its stub.             *)
HandlersReady ==
  /\ pc = "handlers" => GatesLeadToStubs
  /\ (flag /\ ~Halted) =>
       /\ pic.remapped
       /\ \A line \in Lines \ pic.mask :
            isr[KernelVector(line)] =
              CASE line = KeyboardLine -> "keyboard"
                [] line = Timer -> "pit"
                [] OTHER -> "none"
  /\ \A i \in DOMAIN stack :
       /\ stack[i].words = 2
       /\ isr[stack[i].vector] # "none"
       /\ (stack[i].step = "reading" /\ stack[i].cause = "read") => stdin

OfLine(frame) == isr[frame.vector] \in {"keyboard", "pit", "irq"}

(* Interrupt routines do not pile up: nothing interrupts them, they        *)
(* interrupt nothing but the kernel and a read, and the controllers hold   *)
(* in service exactly the line whose routine has not ended its interrupt.  *)
HandlersNest ==
  /\ Len(stack) <= 2
  /\ \A i \in 1 .. Len(stack) - 1 : stack[i].step = "reading"
  /\ pic.inService = {stack[i].cause : i \in {j \in DOMAIN stack :
                         OfLine(stack[j]) /\ stack[j].step = "start"}}
  /\ (Idle /\ pc \in {"program", "faulting", "idle"}) => flag

(* An interrupt of a line that has a driver is served: its routine runs    *)
(* and ends it, unless the kernel panics.  Neither a program that faults   *)
(* for ever nor one that waits for a key can keep it from that.            *)
InterruptsAreServed ==
  \A line \in Lines :
    (line \in pic.pending \ pic.mask)
      ~> (Halted \/ line \notin pic.pending \cup pic.inService)
=============================================================================
