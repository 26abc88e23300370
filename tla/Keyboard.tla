------------------------------ MODULE Keyboard ------------------------------
(***************************************************************************)
(* Keyboard input, from the interrupt to the character a program reads:    *)
(* PS2KeyboardISR puts scan codes into the RingBuffer of PS2Keyboard, and  *)
(* KeyboardInputStream::read, with interrupts enabled, takes them out.     *)
(*                                                                         *)
(* The handler runs to its end between two instructions of the reader, so  *)
(* the reader's accesses to the buffer's fields are steps of their own.    *)
(* A scan code is the position at which it was typed; what it means is     *)
(* looked up in `typed'.                                                   *)
(***************************************************************************)
EXTENDS Integers, Sequences

CONSTANTS
  Capacity,    (* of the ring buffer (128)                                 *)
  PlainKeys,   (* keys with a character                                    *)
  ShiftKeys,   (* kKeyLeftShift, kKeyRightShift                            *)
  Decrements,  (* how `--_size' is compiled: as "loadSize", a load and a   *)
               (* store, without optimisation, which is the default build; *)
               (* as "decrement", one instruction, with it                 *)
  MaxTyped     (* bound: number of scan codes typed                        *)

ASSUME KeyboardAssumption ==
  /\ Capacity \in Nat \ {0, 1}
  /\ PlainKeys \cap ShiftKeys = {}
  /\ Decrements \subseteq {"loadSize", "decrement"}
  /\ MaxTyped \in Nat

VARIABLES
  typed,       (* the scan codes the keyboard has sent                     *)
  buffer, front, back, size,                \* RingBuffer's fields
  pc,          (* the reader's next instruction                            *)
  retIndex, oldFront, oldSize,              \* the reader's registers
  keysPressed, (* _keysPressed, of the shift keys                          *)
  taken,       (* history: the scan codes pop has returned                 *)
  chars,       (* history: the characters read, <<scan code, shifted>>     *)
  collided     (* history: within a pop, a key was typed into a full       *)
               (* buffer: enqueue and pop have both moved `front'          *)

ring == <<buffer, front, back, size>>
registers == <<retIndex, oldFront, oldSize>>
vars == <<typed, buffer, front, back, size, pc, retIndex, oldFront, oldSize,
          keysPressed, taken, chars, collided>>

Slots == 0 .. Capacity - 1

NextSlot(i) == (i + 1) % Capacity         \* RingBuffer::_next
Keys == PlainKeys \cup ShiftKeys

Init ==
  /\ typed = <<>>
  /\ buffer = [i \in Slots |-> 0]
  /\ front = 0 /\ back = 0 /\ size = 0
  /\ pc = "client"
  /\ retIndex = 0 /\ oldFront = 0 /\ oldSize = 0
  /\ keysPressed = {}
  /\ taken = <<>>
  /\ chars = <<>>
  /\ collided = FALSE

-----------------------------------------------------------------------------
(* Interrupts. *)

(* Mutant of Enqueue: a full buffer does not give up its oldest element.   *)
EnqueueOverrun(item) ==
  /\ buffer' = [buffer EXCEPT ![back] = item]
  /\ back' = NextSlot(back)
  /\ size' = size + 1
  /\ UNCHANGED front

(* RingBuffer::enqueue *)
Enqueue(item) ==
  /\ buffer' = [buffer EXCEPT ![back] = item]
  /\ back' = NextSlot(back)
  /\ IF front = back'
     THEN front' = NextSlot(front) /\ UNCHANGED size
     ELSE size' = size + 1 /\ UNCHANGED front

(* An interrupt ends the hlt instruction. *)
WokenUp == IF pc = "halted" THEN "check" ELSE pc

(* The reader is inside pop; the number of scan codes between the two      *)
(* indices; and whether there is no slot for another one.                  *)
InPop == pc \in {"loadFront", "storeFront", "decrement", "loadSize", "storeSize", "return"}
Count == (back - front) % Capacity
Full == NextSlot(back) = front

(* A key goes down or up: PS2KeyboardISR reads its scan code and calls     *)
(* pushScanCode.                                                           *)
KeyInterrupt(key, down) ==
  /\ Len(typed) < MaxTyped
  /\ typed' = Append(typed, [key |-> key, down |-> down])
  /\ Enqueue(Len(typed'))
  /\ pc' = WokenUp
  /\ collided' = (collided \/ (InPop /\ Full))
  /\ UNCHANGED <<retIndex, oldFront, oldSize, keysPressed, taken, chars>>

(* Mutant of TimerInterrupt: IRQ 0 stays masked.                           *)
NoTimer == FALSE /\ UNCHANGED vars

(* PITIRQ: nothing but the end of interrupt. *)
TimerInterrupt ==
  /\ pc = "halted"
  /\ pc' = WokenUp
  /\ UNCHANGED <<typed, ring, registers, keysPressed, taken, chars, collided>>

-----------------------------------------------------------------------------
(* The reader. *)

Goto(label) == pc' = label

(* A program asks for a character: KeyboardInputStream::read.              *)
ReadCall ==
  /\ pc = "client"
  /\ Goto("check")
  /\ UNCHANGED <<typed, ring, registers, keysPressed, taken, chars, collided>>

(* while (_buffer.isEmpty()) *)
CheckEmpty ==
  /\ pc = "check"
  /\ Goto(IF size = 0 THEN "halt" ELSE "pop")
  /\ UNCHANGED <<typed, ring, registers, keysPressed, taken, chars, collided>>

(* halt(): a scan code that came since the test does not prevent it.       *)
Halt ==
  /\ pc = "halt"
  /\ Goto("halted")
  /\ UNCHANGED <<typed, ring, registers, keysPressed, taken, chars, collided>>

(* RingBuffer::pop: its own test, which no one but the reader can spoil,   *)
(* and retIndex = _front.                                                  *)
PopIndex ==
  /\ pc = "pop"
  /\ retIndex' = front
  /\ Goto("loadFront")
  /\ UNCHANGED <<typed, ring, oldFront, oldSize, keysPressed, taken, chars, collided>>

(* _front = _next(_front), a load and a store.                             *)
LoadFront ==
  /\ pc = "loadFront"
  /\ oldFront' = front
  /\ Goto("storeFront")
  /\ UNCHANGED <<typed, ring, retIndex, oldSize, keysPressed, taken, chars, collided>>

StoreFront ==
  /\ pc = "storeFront"
  /\ front' = NextSlot(oldFront)
  /\ \E code \in Decrements : Goto(code)
  /\ UNCHANGED <<typed, buffer, back, size, registers, keysPressed, taken, chars, collided>>

(* --_size *)
Decrement ==
  /\ pc = "decrement"
  /\ size' = size - 1
  /\ Goto("return")
  /\ UNCHANGED <<typed, buffer, front, back, registers, keysPressed, taken, chars, collided>>

LoadSize ==
  /\ pc = "loadSize"
  /\ oldSize' = size
  /\ Goto("storeSize")
  /\ UNCHANGED <<typed, ring, retIndex, oldFront, keysPressed, taken, chars, collided>>

StoreSize ==
  /\ pc = "storeSize"
  /\ size' = oldSize - 1
  /\ Goto("return")
  /\ UNCHANGED <<typed, buffer, front, back, registers, keysPressed, taken, chars, collided>>

(* Mutant of Return: a shift key that goes up is not recorded.             *)
ReturnIgnoringReleases ==
  /\ pc = "return"
  /\ LET code  == buffer[retIndex]
         event == typed[code]
     IN  /\ taken' = Append(taken, code)
         /\ keysPressed' = IF event.down
                           THEN keysPressed \cup ({event.key} \cap ShiftKeys)
                           ELSE keysPressed
         /\ IF event.down /\ event.key \in PlainKeys
            THEN Goto("client") /\ chars' = Append(chars, <<code, keysPressed # {}>>)
            ELSE Goto("check") /\ UNCHANGED chars
  /\ UNCHANGED <<typed, ring, registers, collided>>

(* pop returns; PS2Keyboard::read decodes the scan code and records which  *)
(* keys are down; KeyboardInputStream::read starts over unless a key with  *)
(* a character went down, and otherwise returns it, shifted if a shift key *)
(* is down.                                                                *)
Return ==
  /\ pc = "return"
  /\ LET code  == buffer[retIndex]
         event == typed[code]
     IN  /\ taken' = Append(taken, code)
         /\ keysPressed' = IF event.down
                           THEN keysPressed \cup ({event.key} \cap ShiftKeys)
                           ELSE keysPressed \ {event.key}
         /\ IF event.down /\ event.key \in PlainKeys
            THEN Goto("client") /\ chars' = Append(chars, <<code, keysPressed # {}>>)
            ELSE Goto("check") /\ UNCHANGED chars
  /\ UNCHANGED <<typed, ring, registers, collided>>

ReaderStep ==
  \/ ReadCall \/ CheckEmpty \/ Halt \/ PopIndex \/ LoadFront \/ StoreFront
  \/ Decrement \/ LoadSize \/ StoreSize \/ Return

Next ==
  \/ \E key \in Keys, down \in BOOLEAN : KeyInterrupt(key, down)
  \/ TimerInterrupt
  \/ ReaderStep

(* The processor executes the reader's instructions, and the timer ticks;  *)
(* nobody has to type.                                                     *)
Spec == Init /\ [][Next]_vars /\ WF_vars(ReaderStep) /\ WF_vars(TimerInterrupt)

-----------------------------------------------------------------------------

(* Types of the state.  After a collision the indices may pass each other, *)
(* and size count more codes than there are slots.                         *)
TypeOK ==
  /\ typed \in Seq([key : Keys, down : BOOLEAN])
  /\ buffer \in [Slots -> 0 .. MaxTyped]
  /\ front \in Slots /\ back \in Slots /\ size \in Nat
  /\ pc \in {"client", "check", "halt", "halted", "pop", "loadFront", "storeFront",
             "decrement", "loadSize", "storeSize", "return"}
  /\ retIndex \in Slots /\ oldFront \in Slots /\ oldSize \in Nat
  /\ keysPressed \subseteq ShiftKeys
  /\ taken \in Seq(Nat)
  /\ chars \in Seq(Nat \X BOOLEAN)
  /\ collided \in BOOLEAN

(* Between two calls of pop, size() is the number of elements in the       *)
(* buffer.                                                                 *)
SizeIsCount == ~InPop => size = Count

(* Scan codes typed after the last one that was read.                      *)
Unread == Len(typed) - (IF taken = <<>> THEN 0 ELSE taken[Len(taken)])

(* The buffer holds the unread scan codes, or as many of the newest of     *)
(* them as fit, in the order in which they were typed.                     *)
NewestBuffered ==
  /\ Count = IF Unread < Capacity THEN Unread ELSE Capacity - 1
  /\ \A k \in 0 .. Count - 1 :
       buffer[(front + k) % Capacity] = Len(typed) - Count + 1 + k

InOrder == \A i \in 1 .. Len(taken) - 1 : taken[i] < taken[i + 1]

(* Interrupts may fall between any two instructions of pop.  As long as    *)
(* none of them met a full buffer there, the buffer holds the newest       *)
(* unread codes between two calls of pop, and codes are read in the order  *)
(* typed, none twice: enqueue on a full buffer erases the oldest and       *)
(* nothing else, and a pop that was interrupted loses none.  Whatever was  *)
(* met, pop returns codes that were typed, never a slot not yet written.   *)
CodesInOrder ==
  /\ TypeOK
  /\ \A i \in DOMAIN taken : taken[i] \in 1 .. Len(typed)
  /\ ~collided => (~InPop => NewestBuffered) /\ InOrder

(* RingBuffer promises it without a condition: an enqueue on a full buffer *)
(* erases the oldest code.  A key typed within a pop of a full buffer      *)
(* moves the index that pop is moving, and a second one overwrites the     *)
(* code pop is about to return: the newest code is read before older ones, *)
(* and once more in its turn.                                              *)
OldestMakesRoom == InOrder

(* Is a shift key down when the code at position i is typed?               *)
ShiftedAt(i) ==
  \E key \in ShiftKeys : \E j \in 1 .. i :
    /\ typed[j] = [key |-> key, down |-> TRUE]
    /\ \A k \in j + 1 .. i : typed[k].key # key

(* However long after it was typed a character is read, it is shifted if   *)
(* and only if a shift key was down when it was typed (as long as no scan  *)
(* code was lost to a full buffer).                                        *)
ShiftAsTyped ==
  (\A i \in 1 .. Len(taken) : taken[i] = i) =>
    \A i \in 1 .. Len(chars) : chars[i][2] = ShiftedAt(chars[i][1])

(* What the buffer counts is read in the end, by a program that goes on    *)
(* reading: a key that arrives between the test and hlt does not leave the *)
(* reader asleep.                                                          *)
CountedCodesAreRead == (size > 0) ~> (size = 0)

=============================================================================
