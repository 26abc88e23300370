----------------------------- MODULE ArrayList ------------------------------
(***************************************************************************)
(* sys::ArrayList: a DynamicArray of which the first `size' cells are in   *)
(* use.                                                                    *)
(***************************************************************************)
EXTENDS DynamicArray, FiniteSets

CONSTANTS
  ArrayValues,    (* elements                                              *)
  MaxElements     (* bound: number of elements of a list                   *)

ASSUME ArrayListAssumption == MaxElements \in Nat /\ Raw \notin ArrayValues

VARIABLES
  block,          (* _data                                                 *)
  used,           (* _size                                                 *)
  held,           (* history: the elements the list should hold            *)
  unsupported     (* history: a call was made that the class gets wrong    *)

arrayVars == <<block, used, held, unsupported>>

cap == Len(block.cells)

(* ArrayList(reserve), and ArrayList(il) with as many cells as elements    *)
ArrayInit ==
  /\ \/ \E reserve \in 0 .. KDefaultSize :
          block = Intact(NewBlock(reserve)) /\ used = 0 /\ held = <<>>
     \/ \E v \in ArrayValues :
          block = Intact(<<v>>) /\ used = 1 /\ held = <<v>>
  /\ unsupported = FALSE

ArrayCall == ~unsupported
Growing == Len(held) < MaxElements

(* The block has cells without objects: to assign to one, or to move from  *)
(* one, as every call that adds or makes room does, is undefined.          *)
Unconstructed == \E i \in DOMAIN block.cells : block.cells[i] = Raw

(* reserve *)
Reserve(reserve) ==
  /\ ArrayCall
  /\ reserve > cap
  /\ block' = Intact(Resize(block.cells, reserve, 0))
  /\ unsupported' = Unconstructed
  /\ UNCHANGED <<used, held>>

-----------------------------------------------------------------------------
(* Elements are added. *)

(* shiftOrResize: the block with room for one element at the front         *)
ShiftOrResize ==
  IF used = 0 THEN block
  ELSE IF 1 + used > cap
  THEN Intact(Resize(block.cells, IF cap + 1 < 2 * cap THEN 2 * cap
                                                       ELSE cap + 1, 1))
  ELSE MoveRight(block.cells, 1)

(* push *)
ArrayPush(v) ==
  /\ ArrayCall /\ Growing
  /\ block' = Put(ShiftOrResize, 1, v)
  /\ used' = used + 1
  /\ held' = <<v>> \o held
  /\ unsupported' = (cap = 0 \/ (0 < used /\ used < cap) \/ Unconstructed)

Grown == IF used = cap THEN Intact(Resize(block.cells, 0, 0)) ELSE block

(* enqueue, and insert without an index *)
ArrayEnqueue(v) ==
  /\ ArrayCall /\ Growing
  /\ block' = Put(Grown, used + 1, v)
  /\ used' = used + 1
  /\ held' = Append(held, v)
  /\ unsupported' = (cap = 0 \/ Unconstructed)

(* insert with an index that is neither the front nor the back; with these *)
(* it is push and enqueue.                                                 *)
ArrayInsert(v, idx) ==
  /\ ArrayCall /\ Growing
  /\ 0 < idx /\ idx < used
  /\ LET old == Grown.cells
     IN block' = Intact([i \in DOMAIN old |->
                           IF i = idx + 1 THEN v
                           ELSE IF idx + 1 < i /\ i <= used + 1 THEN old[i - 1]
                           ELSE old[i]])
  /\ used' = used + 1
  /\ held' = SubSeq(held, 1, idx) \o <<v>> \o SubSeq(held, idx + 1, Len(held))
  /\ UNCHANGED unsupported

-----------------------------------------------------------------------------
(* Elements are removed. *)

(* pop *)
ArrayPop ==
  /\ ArrayCall
  /\ used > 0
  /\ block' = Intact(MoveLeft(block.cells, 1))
  /\ used' = used - 1
  /\ held' = Tail(held)
  /\ UNCHANGED unsupported

(* popBack *)
ArrayPopBack ==
  /\ ArrayCall
  /\ used > 0
  /\ used' = used - 1
  /\ held' = SubSeq(held, 1, Len(held) - 1)
  /\ UNCHANGED <<block, unsupported>>

(* Mutant of ArrayRemoveAt: the last element is not moved.                 *)
ArrayRemoveAtShort(idx) ==
  /\ ArrayCall
  /\ idx < used
  /\ block' = Intact([i \in DOMAIN block.cells |->
                        IF idx < i /\ i < used - 1 THEN block.cells[i + 1]
                                                   ELSE block.cells[i]])
  /\ used' = used - 1
  /\ held' = SubSeq(held, 1, idx) \o SubSeq(held, idx + 2, Len(held))
  /\ UNCHANGED unsupported

(* remove with an index *)
ArrayRemoveAt(idx) ==
  /\ ArrayCall
  /\ idx < used
  /\ block' = Intact([i \in DOMAIN block.cells |->
                        IF idx < i /\ i < used THEN block.cells[i + 1]
                                               ELSE block.cells[i]])
  /\ used' = used - 1
  /\ held' = SubSeq(held, 1, idx) \o SubSeq(held, idx + 2, Len(held))
  /\ UNCHANGED unsupported

(* remove of an object: of the first cell in use that is equal to it       *)
ArrayRemove(v) ==
  /\ ArrayCall
  /\ \E idx \in 0 .. used - 1 :
       /\ block.cells[idx + 1] = v
       /\ \A j \in 1 .. idx : block.cells[j] # v
       /\ ArrayRemoveAt(idx)

(* clear: the block is replaced by bytes for the default size.  Cells of a *)
(* type that needs no construction are as good as constructed; those of    *)
(* any other type hold no objects.                                         *)
ArrayClear ==
  /\ ArrayCall
  /\ \E cell \in {Blank, Raw} : block' = Intact([i \in 1 .. KDefaultSize |-> cell])
  /\ used' = 0
  /\ held' = <<>>
  /\ UNCHANGED unsupported

(* The list is moved from by a constructor: its block and its size are     *)
(* swapped with those of a list that has none.                             *)
ArrayMovedFrom ==
  /\ ArrayCall
  /\ block' = Intact(<<>>)
  /\ used' = 0
  /\ held' = <<>>
  /\ UNCHANGED unsupported

(* Move assignment from a list that holds one element: the test for        *)
(* self-assignment is inverted, and nothing is assigned.                   *)
ArrayMoveAssign(v) ==
  /\ ArrayCall
  /\ held' = <<v>>
  /\ unsupported' = (held # <<v>>)
  /\ UNCHANGED <<block, used>>

ArrayNext ==
  \/ \E v \in ArrayValues :
       \/ ArrayPush(v) \/ ArrayEnqueue(v) \/ ArrayRemove(v) \/ ArrayMoveAssign(v)
       \/ \E idx \in 0 .. MaxElements : ArrayInsert(v, idx)
  \/ \E idx \in 0 .. MaxElements : ArrayRemoveAt(idx)
  \/ \E reserve \in 1 .. MaxElements + 1 : Reserve(reserve)
  \/ ArrayPop \/ ArrayPopBack
  \/ ArrayClear
  \/ ArrayMovedFrom

-----------------------------------------------------------------------------
(* The list holds the elements it was given, in order, inside of its       *)
(* block.                                                                  *)
ArrayHoldsElements ==
  /\ ~block.over
  /\ used = Len(held)
  /\ used <= cap
  /\ SubSeq(block.cells, 1, used) = held

(* It does so after any sequence of enqueue, insert, pop, popBack, remove, *)
(* reserve, clear and moves, and of push into a list that is empty or      *)
(* full: the loops that shift cells by one, one position after the other,  *)
(* and the resizing lose and double nothing.  Not covered are push into a  *)
(* list with elements and room for more, adding to a list without a block, *)
(* as one that was moved from, or to one that was cleared and whose        *)
(* elements need construction, and move assignment.                        *)
ArrayIsSequence == ~unsupported => ArrayHoldsElements

(* ArrayList promises it of push without a condition: the array is resized *)
(* as needed.  In a list with elements and room for more all the cells are *)
(* moved, the last one out of the block.                                   *)
PushAdds ==
  [][\A v \in ArrayValues : (cap > 0 /\ ArrayPush(v)) => ArrayHoldsElements']_arrayVars

(* ... and of insert, that the list grows.  One without a block does not:  *)
(* twice no capacity is none.                                              *)
InsertGrows == [][\A v \in ArrayValues : ArrayEnqueue(v) => ArrayHoldsElements']_arrayVars
=============================================================================
