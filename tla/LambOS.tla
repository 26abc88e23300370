------------------------------- MODULE LambOS -------------------------------
(***************************************************************************)
(* The kernel's own parts, its library, the program loader and the driver  *)
(* of the drives, side by side.  What one of them uses of another is part  *)
(* of its module; they share no state that their properties are about.  So *)
(* one component, chosen at the start, takes steps and the others rest.    *)
(***************************************************************************)
EXTENDS Kernel, Library, MCExecutable, AtaDevice

VARIABLE component

allVars == <<component, kernelVars, libraryVars, loaderVars, ataVars>>

KernelRests ==
  /\ part = "interrupts"
  /\ message = <<>>
  /\ IntInit /\ ConsoleInit /\ ClockRests

LibraryRests ==
  /\ libraryPart = "list"
  /\ ListInit /\ ArrayRests /\ StringInit /\ ShellInit
  /\ input = [kind |-> "none"]
  /\ format = <<>>

AtaRests == AtaInit /\ drive.type = CHOOSE type \in Drives : TRUE

Starts ==
  /\ component \in {"kernel", "library", "loader", "ata"}
  /\ IF component = "kernel" THEN Init ELSE KernelRests
  /\ IF component = "library" THEN LibraryInit ELSE LibraryRests
  /\ LoaderInit
  /\ IF component = "ata" THEN AtaInit ELSE AtaRests

OnlyKernel == component = "kernel" /\ UNCHANGED <<component, libraryVars, loaderVars, ataVars>>
OnlyLibrary == component = "library" /\ UNCHANGED <<component, kernelVars, loaderVars, ataVars>>
OnlyLoader == component = "loader" /\ UNCHANGED <<component, kernelVars, libraryVars, ataVars>>
OnlyAta == component = "ata" /\ UNCHANGED <<component, kernelVars, libraryVars, loaderVars>>

Steps ==
  \/ OnlyKernel /\ Next
  \/ OnlyLibrary /\ LibraryNext
  \/ OnlyLoader /\ LoaderNext
  \/ OnlyAta /\ AtaNext

(* The fairness of Kernel's and of AtaDevice's specifications.             *)
System ==
  /\ Starts /\ [][Steps]_allVars
  /\ WF_kernelVars(/\ component = "kernel" /\ part = "interrupts" /\ CpuStep
                   /\ UNCHANGED <<part, consoleVars, clockVars>>)
  /\ WF_ataVars(component = "ata" /\ DriverStep)
  /\ WF_ataVars(component = "ata" /\ DriveStep)
=============================================================================
