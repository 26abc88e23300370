---------------------------- MODULE DynamicArray ----------------------------
(***************************************************************************)
(* sys::DynamicArray, the block of memory under ArrayList and BasicString. *)
(* A block is the sequence of its cells: [0] in the code is [1] here, the  *)
(* capacity is the length.  A write outside of the block is the fault of a *)
(* caller; `cells' then stops describing the memory.                       *)
(***************************************************************************)
EXTENDS Integers, Sequences

CONSTANT KDefaultSize     (* capacity when none is given (8)               *)

ASSUME DynamicArrayAssumption == KDefaultSize \in Nat \ {0}

Blank == "blank"          (* a cell that was default-constructed           *)
Raw == "raw"              (* a cell without an object                      *)

NewBlock(n) == [i \in 1 .. n |-> Blank]

(* A block and whether it was overrun.                                     *)
Intact(cells) == [cells |-> cells, over |-> FALSE]

(* operator[] on the left of an assignment                                 *)
Put(block, i, v) ==
  IF block.over \/ i \notin DOMAIN block.cells
  THEN [block EXCEPT !.over = TRUE]
  ELSE [block EXCEPT !.cells[i] = v]

(* nextCapacity: a block of no cells stays one.                            *)
NextCapacity(cells) == 2 * Len(cells)

(* resize, with DefaultResizer: the old cells follow `offset' blank ones.  *)
Resize(cells, newSize, offset) ==
  LET n == IF newSize = 0 THEN NextCapacity(cells) ELSE newSize
  IN [i \in 1 .. n |->
        IF i - offset \in DOMAIN cells THEN cells[i - offset] ELSE Blank]

(* shift to the left *)
MoveLeft(cells, offset) ==
  [i \in DOMAIN cells |->
     IF i + offset \in DOMAIN cells THEN cells[i + offset] ELSE cells[i]]

(* shift to the right: all the cells are moved, the last ones out of the   *)
(* block.                                                                  *)
MoveRight(cells, offset) ==
  [cells |-> [i \in DOMAIN cells |->
                IF i > offset THEN cells[i - offset] ELSE cells[i]],
   over |-> offset > 0 /\ cells # <<>>]
=============================================================================
