------------------------------ MODULE Library -------------------------------
(***************************************************************************)
(* The library under the kernel and the programs: containers and counted   *)
(* pointers, strings, text, formatted output, and the shell that uses them.*)
(* These share no state, so their behaviours are checked side by side: one *)
(* part, chosen at the start, takes steps and the others rest.             *)
(***************************************************************************)
EXTENDS LinkedList, ArrayList, BasicString, Text, Format, Shell

VARIABLE libraryPart

libraryVars == <<libraryPart, listVars, arrayVars, stringVars, input, format, shellVars>>

ArrayRests ==
  /\ block = Intact(<<>>)
  /\ used = 0
  /\ held = <<>>
  /\ unsupported = FALSE

LibraryInit ==
  /\ libraryPart \in {"list", "array", "string", "text", "format", "shell"}
  /\ ListInit
  /\ IF libraryPart = "array" THEN ArrayInit ELSE ArrayRests
  /\ StringInit
  /\ IF libraryPart = "text" THEN TextInit ELSE input = [kind |-> "none"]
  /\ IF libraryPart = "format" THEN FormatInit ELSE format = <<>>
  /\ ShellInit

LibraryNext ==
  /\ UNCHANGED <<libraryPart, input, format>>
  /\ \/ /\ libraryPart = "list" /\ ListNext
        /\ UNCHANGED <<arrayVars, stringVars, shellVars>>
     \/ /\ libraryPart = "array" /\ ArrayNext
        /\ UNCHANGED <<listVars, stringVars, shellVars>>
     \/ /\ libraryPart = "string" /\ StringNext
        /\ UNCHANGED <<listVars, arrayVars, shellVars>>
     \/ /\ libraryPart = "shell" /\ ShellNext
        /\ UNCHANGED <<listVars, arrayVars, stringVars>>

LibrarySpec == LibraryInit /\ [][LibraryNext]_libraryVars
=============================================================================
