------------------------------- MODULE Kernel -------------------------------
(***************************************************************************)
(* The parts of the kernel around its memory and its files: interrupts and *)
(* system calls, the console, and the clock.  They share no state that     *)
(* their properties are about, so their behaviours are checked side by     *)
(* side: one part, chosen at the start, takes steps and the others rest.   *)
(***************************************************************************)
EXTENDS Interrupts, Console, Clock

VARIABLE part

kernelVars == <<part, intVars, consoleVars, clockVars>>

(* The second before a new year, and the two seconds after it.             *)
NewYear == << <<59, 59, 23, 6, 31, 12, 99, 19>>,
              <<0, 0, 0, 7, 1, 1, 0, 20>>,
              <<1, 0, 0, 7, 1, 1, 0, 20>> >>

Init ==
  /\ part \in {"interrupts", "console", "clock", "panic"}
  /\ IF part = "panic" THEN message \in Messages ELSE message = <<>>
  /\ IntInit
  /\ ConsoleInit
  /\ IF part = "clock" THEN ClockInit ELSE ClockRests

Next ==
  /\ UNCHANGED part
  /\ \/ part = "interrupts" /\ IntNext /\ UNCHANGED <<consoleVars, clockVars>>
     \/ part = "console" /\ ConsoleNext /\ UNCHANGED <<intVars, clockVars>>
     \/ part = "clock" /\ ClockNext /\ UNCHANGED <<intVars, consoleVars>>

(* The CPU goes on as long as it can.                                      *)
Spec ==
  /\ Init /\ [][Next]_kernelVars
  /\ WF_kernelVars(/\ part = "interrupts" /\ CpuStep
                   /\ UNCHANGED <<part, consoleVars, clockVars>>)
=============================================================================
