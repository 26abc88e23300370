--------------------------- MODULE VirtualMemory ----------------------------
(***************************************************************************)
(* What the memory management unit promises the kernel's clients (the heap *)
(* and the program loader): runs of pages that do not overlap, each page   *)
(* with a content of its own that nothing but a store to that page         *)
(* changes.  MMU implements this specification.                            *)
(***************************************************************************)
EXTENDS Integers

CONSTANTS
  ClientPages  (* the virtual pages a client can be given                  *)

VARIABLES
  blocks,      (* the runs of pages that clients hold: <<first, length>>   *)
  content      (* what a load from a held page returns                     *)

PagesOf(block) == block[1] .. block[1] + block[2] - 1

Held == UNION {PagesOf(b) : b \in blocks}

Init == blocks = {} /\ content = [p \in {} |-> 0]

(* A run of free pages is given out.  Its content is not specified. *)
Give(block) ==
  /\ PagesOf(block) # {}
  /\ PagesOf(block) \subseteq ClientPages \ Held
  /\ blocks' = blocks \cup {block}
  /\ DOMAIN content' = Held \cup PagesOf(block)
  /\ \A p \in Held : content'[p] = content[p]

(* A held run is given back. *)
Return(block) ==
  /\ blocks' = blocks \ {block}
  /\ content' = [p \in Held \ PagesOf(block) |-> content[p]]

(* A store to one held page. *)
Store(page) ==
  /\ UNCHANGED blocks
  /\ DOMAIN content' = Held
  /\ \A p \in Held \ {page} : content'[p] = content[p]

Next ==
  \/ \E block \in blocks' \ blocks : Give(block)
  \/ \E block \in blocks \ blocks' : Return(block)
  \/ \E page \in Held : Store(page)

Spec == Init /\ [][Next]_<<blocks, content>>

=============================================================================
