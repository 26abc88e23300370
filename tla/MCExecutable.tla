---------------------------- MODULE MCExecutable ----------------------------
(* Five pages, two units each.  The binaries overlap one another and the   *)
(* pages the heap takes, so that loads fail at any of their segments.      *)
EXTENDS Executable

Load(p, n) ==
  [known |-> TRUE, page |-> p, onPage |-> TRUE, aligned |-> TRUE, size |-> n]

(* A segment whose address is not the beginning of a page. *)
OffPage(p, n) == [Load(p, n) EXCEPT !.onPage = FALSE]

(* An unused entry of the table (type Null): empty, at address 0, with     *)
(* another alignment.                                                      *)
NullHeader == [known |-> TRUE, page |-> 0, onPage |-> TRUE, aligned |-> FALSE, size |-> 0]

(* A type the loader does not know, such as GNU_STACK.                     *)
Unknown == [NullHeader EXCEPT !.known = FALSE]

MCImages ==
  { << Load(1, 3), Load(3, 1) >>,
    << Load(2, 2), Load(4, 3) >>,
    << Load(1, 2), Load(4, 1), OffPage(5, 1) >>,
    << Load(5, 1), NullHeader >>,
    << Load(3, 0), Load(2, 1) >>,
    << Unknown >> }
=============================================================================
