---------------------------- MODULE LibraryProofs ----------------------------
(***************************************************************************)
(* Proofs about the library: the ring buffer, as the keyboard driver and   *)
(* its readers share it, ArrayList and BasicString, comparison and memset, *)
(* and formatted output.                                                   *)
(***************************************************************************)
EXTENDS Keyboard, ArrayList, BasicString, Text, Format, WellFoundedInduction,
        FiniteSetTheorems, SequenceTheorems, TLAPS

-----------------------------------------------------------------------------
(* The keyboard's ring buffer and the characters read from it: scan codes  *)
(* are read in the order in which they were typed, until a key meets a     *)
(* full buffer within pop, and a character is shifted if a shift key was   *)
(* down when it was typed, for every capacity and every interleaving of    *)
(* interrupts with the reader.                                             *)

Events == [key : Keys, down : BOOLEAN]
LastTaken == IF taken = <<>> THEN 0 ELSE taken[Len(taken)]

(* The instructions of pop after the one that moves `front'.               *)
FrontMoved == pc \in {"decrement", "loadSize", "storeSize", "return"}

(* What lies between the indices are the newest codes typed.               *)
Codes == \A k \in 0 .. Count - 1 : buffer[(front + k) % Capacity] = Len(typed) - Count + 1 + k

(* Within pop the code that is being taken lies before `front', where no   *)
(* interrupt writes.                                                       *)
RingInv ==
  /\ Codes
  /\ ~FrontMoved => Count = IF Unread < Capacity THEN Unread ELSE Capacity - 1
  /\ FrontMoved => /\ buffer[retIndex] = Len(typed) - Count
              /\ Count < Unread
              /\ NextSlot(retIndex) = front
  /\ pc \in {"loadFront", "storeFront"} => retIndex = front
  /\ pc = "storeFront" => oldFront = front

(* `size' may fall behind the number of codes, but never exceeds it.       *)
SizeInv ==
  /\ size <= Count + (IF pc \in {"decrement", "loadSize", "storeSize"} THEN 1 ELSE 0)
  /\ pc = "storeSize" => oldSize <= size

TakenInv ==
  /\ LastTaken \in 0 .. Len(typed)
  /\ InOrder

(* What holds as long as no key met a full buffer within pop.              *)
Ordered == RingInv /\ SizeInv /\ TakenInv

(* What holds whatever was met.  Before the first key that collides with a *)
(* pop the codes fill all slots but the one it goes to: from then on every *)
(* slot holds a code that was typed.                                       *)
TypedInv ==
  /\ Len(typed) <= MaxTyped
  /\ pc \in {"pop", "loadFront", "storeFront", "decrement", "loadSize", "storeSize"} => size >= 1
  /\ pc = "storeSize" => oldSize >= 1
  /\ \A i \in DOMAIN taken : taken[i] \in 1 .. Len(typed)
  /\ collided => \A s \in Slots : buffer[s] \in 1 .. Len(typed)

Inv == TypeOK /\ TypedInv /\ (~collided => Ordered)

(* Is `key' down after the first i of the codes of a log?                  *)
DownAt(log, key, i) ==
  \E j \in 1 .. i : /\ log[j] = [key |-> key, down |-> TRUE]
                    /\ \A k \in j + 1 .. i : log[k].key # key

NoneLost == \A i \in 1 .. Len(taken) : taken[i] = i

ShiftInv ==
  NoneLost =>
    /\ keysPressed = {key \in ShiftKeys : DownAt(typed, key, Len(taken))}
    /\ \A i \in 1 .. Len(chars) :
         /\ chars[i][1] \in 1 .. Len(typed)
         /\ chars[i][2] = \E key \in ShiftKeys : DownAt(typed, key, chars[i][1])

-----------------------------------------------------------------------------
(* Arithmetic of the ring.                                                 *)

LEMMA Remainder ==
  /\ \A x \in 0 .. 2 * Capacity - 1 : x % Capacity = IF x < Capacity THEN x ELSE x - Capacity
  /\ \A x \in 1 - Capacity .. 0 - 1 : x % Capacity = x + Capacity
  BY KeyboardAssumption

LEMMA NextSlotIs ==
  \A i \in Slots : NextSlot(i) = (IF i = Capacity - 1 THEN 0 ELSE i + 1) /\ NextSlot(i) \in Slots
  BY KeyboardAssumption, Remainder DEF NextSlot, Slots

LEMMA Distance ==
  \A f, b \in Slots : (b - f) % Capacity = (IF f <= b THEN b - f ELSE b - f + Capacity)
  BY KeyboardAssumption, Remainder DEF Slots

LEMMA SlotAt ==
  \A f, k \in Slots : /\ (f + k) % Capacity = (IF f + k < Capacity THEN f + k ELSE f + k - Capacity)
                      /\ (f + k) % Capacity \in Slots
  BY KeyboardAssumption, Remainder DEF Slots

(* What enqueue and pop do to the indices.                                 *)
LEMMA RingSteps ==
  ASSUME NEW f \in Slots, NEW b \in Slots
  PROVE  LET c == (b - f) % Capacity
         IN /\ c \in Slots /\ (f + c) % Capacity = b
            /\ f = NextSlot(b) <=> c = Capacity - 1
            /\ c < Capacity - 1 => (NextSlot(b) - f) % Capacity = c + 1
            /\ c >= 1 => (b - NextSlot(f)) % Capacity = c - 1
            /\ c = Capacity - 1 => (NextSlot(b) - NextSlot(f)) % Capacity = c
            /\ \A k \in Slots : k # c => (f + k) % Capacity # b
            /\ \A k \in 0 .. Capacity - 2 : (NextSlot(f) + k) % Capacity = (f + (k + 1)) % Capacity
  <1> DEFINE c == (b - f) % Capacity
  <1>1. c = (IF f <= b THEN b - f ELSE b - f + Capacity)
    BY Distance
  <1> HIDE DEF c
  <1>2. Capacity \in Nat \ {0, 1} /\ f \in 0 .. Capacity - 1 /\ b \in 0 .. Capacity - 1
    BY KeyboardAssumption DEF Slots
  <1>3. c \in Slots
    BY <1>1, <1>2 DEF Slots
  <1>4. /\ NextSlot(b) = (IF b = Capacity - 1 THEN 0 ELSE b + 1) /\ NextSlot(b) \in Slots
        /\ NextSlot(f) = (IF f = Capacity - 1 THEN 0 ELSE f + 1) /\ NextSlot(f) \in Slots
    BY NextSlotIs
  <1> HIDE DEF NextSlot
  <1>5. (f + c) % Capacity = b
    <2>1. (f + c) % Capacity = (IF f + c < Capacity THEN f + c ELSE f + c - Capacity)
      BY <1>3, SlotAt
    <2>2. QED
      BY <1>1, <1>2, <2>1
  <1>6. f = NextSlot(b) <=> c = Capacity - 1
    BY <1>1, <1>2, <1>4
  <1>7. c < Capacity - 1 => (NextSlot(b) - f) % Capacity = c + 1
    <2>1. (NextSlot(b) - f) % Capacity = (IF f <= NextSlot(b) THEN NextSlot(b) - f ELSE NextSlot(b) - f + Capacity)
      BY <1>4, Distance
    <2>2. QED
      BY <1>1, <1>2, <1>4, <2>1
  <1>8. c >= 1 => (b - NextSlot(f)) % Capacity = c - 1
    <2>1. (b - NextSlot(f)) % Capacity = (IF NextSlot(f) <= b THEN b - NextSlot(f) ELSE b - NextSlot(f) + Capacity)
      BY <1>4, Distance
    <2>2. QED
      BY <1>1, <1>2, <1>4, <2>1
  <1>9. c = Capacity - 1 => (NextSlot(b) - NextSlot(f)) % Capacity = c
    <2>1. (NextSlot(b) - NextSlot(f)) % Capacity = (IF NextSlot(f) <= NextSlot(b) THEN NextSlot(b) - NextSlot(f)
                                                  ELSE NextSlot(b) - NextSlot(f) + Capacity)
      BY <1>4, Distance
    <2>2. QED
      BY <1>1, <1>2, <1>4, <2>1
  <1>10. ASSUME NEW k \in Slots, k # c PROVE (f + k) % Capacity # b
    <2>1. (f + k) % Capacity = (IF f + k < Capacity THEN f + k ELSE f + k - Capacity)
      BY SlotAt
    <2>2. QED
      BY <1>1, <1>2, <1>10, <2>1 DEF Slots
  <1>11. ASSUME NEW k \in 0 .. Capacity - 2 PROVE (NextSlot(f) + k) % Capacity = (f + (k + 1)) % Capacity
    <2>1. k \in Slots /\ k + 1 \in Slots
      BY <1>2 DEF Slots
    <2>2. /\ (NextSlot(f) + k) % Capacity = (IF NextSlot(f) + k < Capacity THEN NextSlot(f) + k ELSE NextSlot(f) + k - Capacity)
          /\ (f + (k + 1)) % Capacity = (IF f + (k + 1) < Capacity THEN f + (k + 1) ELSE f + (k + 1) - Capacity)
      BY <1>4, <2>1, SlotAt
    <2>3. QED
      BY <1>2, <1>4, <2>2
  <1>12. QED
    BY <1>3, <1>5, <1>6, <1>7, <1>8, <1>9, <1>10, <1>11 DEF c

LEMMA LastIs ==
  ASSUME taken \in Seq(Nat), NEW code \in Nat
  PROVE  LET s == Append(taken, code)
         IN /\ s \in Seq(Nat) /\ s # <<>> /\ s[Len(s)] = code /\ Len(s) = Len(taken) + 1
            /\ \A i \in 1 .. Len(taken) : s[i] = taken[i]
            /\ taken # <<>> => Len(taken) \in Nat \ {0} /\ taken[Len(taken)] = LastTaken
  BY DEF LastTaken

-----------------------------------------------------------------------------
(* The buffer and the reader.                                              *)

LEMMA InvInit == Init => Inv
  <1> SUFFICES ASSUME Init PROVE Inv
    OBVIOUS
  <1>1. 0 \in Slots /\ Capacity \in Nat \ {0, 1} /\ MaxTyped \in Nat
    BY KeyboardAssumption DEF Slots
  <1>2. Count = 0
    BY <1>1, Distance DEF Init, Count
  <1>3. Len(typed) = 0 /\ Len(taken) = 0 /\ Unread = 0 /\ LastTaken = 0
    BY DEF Init, Unread, LastTaken
  <1>4. TypeOK
    BY <1>1 DEF Init, TypeOK
  <1>5. RingInv
    BY <1>1, <1>2, <1>3 DEF Init, RingInv, Codes, FrontMoved
  <1>6. SizeInv /\ TakenInv
    BY <1>2, <1>3 DEF Init, SizeInv, TakenInv, InOrder
  <1>7. TypedInv
    BY <1>1, <1>3 DEF Init, TypedInv
  <1>8. QED
    BY <1>4, <1>5, <1>6, <1>7 DEF Inv, Ordered

(* A key is typed, between any two instructions of the reader, but not     *)
(* into a full buffer within pop.                                          *)
LEMMA OrderedKeyInterrupt ==
  ASSUME TypeOK, TypedInv, Ordered, NEW key \in Keys, NEW down \in BOOLEAN, KeyInterrupt(key, down),
         ~collided'
  PROVE  Ordered'
  <1> DEFINE n == Len(typed)
             c == Count
  <1>1. /\ n < MaxTyped /\ ~(InPop /\ Full) /\ pc' = WokenUp
        /\ typed' = Append(typed, [key |-> key, down |-> down]) /\ Enqueue(Len(typed'))
        /\ UNCHANGED <<retIndex, oldFront, oldSize, keysPressed, taken, chars>>
    BY DEF KeyInterrupt
  <1>2. /\ typed \in Seq(Events) /\ buffer \in [Slots -> 0 .. MaxTyped] /\ front \in Slots /\ back \in Slots
        /\ size \in Nat /\ retIndex \in Slots
    BY DEF TypeOK, Events
  <1>3. typed' \in Seq(Events) /\ Len(typed') = n + 1 /\ n \in Nat
    BY <1>1, <1>2 DEF Events
  <1>4. Capacity \in Nat \ {0, 1} /\ MaxTyped \in Nat
    BY KeyboardAssumption
  <1>5. /\ c \in Slots /\ (front + c) % Capacity = back
        /\ front = NextSlot(back) <=> c = Capacity - 1
        /\ c < Capacity - 1 => (NextSlot(back) - front) % Capacity = c + 1
        /\ c = Capacity - 1 => (NextSlot(back) - NextSlot(front)) % Capacity = c
        /\ \A k \in Slots : k # c => (front + k) % Capacity # back
        /\ \A k \in 0 .. Capacity - 2 : (NextSlot(front) + k) % Capacity = (front + (k + 1)) % Capacity
    BY <1>2, RingSteps DEF Count
  <1>6. NextSlot(back) \in Slots /\ NextSlot(front) \in Slots
    BY <1>2, NextSlotIs
  <1>7. /\ buffer' = [buffer EXCEPT ![back] = n + 1] /\ back' = NextSlot(back)
        /\ c = Capacity - 1 => front' = NextSlot(front) /\ size' = size
        /\ c # Capacity - 1 => front' = front /\ size' = size + 1
    BY <1>1, <1>3, <1>5 DEF Enqueue
  <1>8. buffer'[back] = n + 1 /\ \A s \in Slots : s # back => buffer'[s] = buffer[s]
    BY <1>2, <1>7
  <1>9. /\ pc' \in {"client", "check", "halt", "halted", "pop", "loadFront", "storeFront",
                     "decrement", "loadSize", "storeSize", "return"}
        /\ pc' # pc => pc = "halted" /\ pc' = "check"
    BY <1>1 DEF WokenUp, TypeOK
  <1>10. Unread' = Unread + 1 /\ LastTaken' = LastTaken /\ Unread = n - LastTaken /\ LastTaken \in 0 .. n
    BY <1>1, <1>3 DEF Unread, LastTaken, Ordered, TakenInv
  <1>11. c \in 0 .. Capacity - 1 /\ \A k \in 0 .. c - 1 : buffer[(front + k) % Capacity] = n - c + 1 + k
    BY <1>4, <1>5 DEF Ordered, RingInv, Codes, Slots
  <1>12. FrontMoved' <=> FrontMoved
    BY <1>9 DEF FrontMoved
  <1>13. size <= c + 1 /\ (InPop \/ size <= c)
    BY <1>2, <1>4, <1>11 DEF Ordered, SizeInv, InPop
  <1>14. c = Capacity - 1 => ~InPop
    BY <1>1, <1>5 DEF Full
  <1>15. TakenInv'
    BY <1>1, <1>3, <1>10 DEF Ordered, TakenInv, InOrder
  <1> HIDE DEF n, c
  <1>16. CASE c = Capacity - 1
    <2>1. front' = NextSlot(front) /\ size' = size /\ Count' = c
      BY <1>5, <1>7, <1>16 DEF Count
    <2>2. ASSUME NEW k \in 0 .. c - 1
          PROVE  buffer'[(front' + k) % Capacity] = n + 1 - c + 1 + k
      <3>1. (front' + k) % Capacity = (front + (k + 1)) % Capacity /\ k + 1 \in 0 .. c /\ k + 1 \in Slots
        BY <1>4, <1>5, <1>16, <2>1 DEF Slots
      <3>2. CASE k + 1 = c
        <4>1. (front + (k + 1)) % Capacity = back
          BY <1>5, <3>2
        <4>2. QED
          BY <1>3, <1>8, <1>11, <3>1, <3>2, <4>1
      <3>3. CASE k + 1 # c
        <4>1. (front + (k + 1)) % Capacity # back /\ (front + (k + 1)) % Capacity \in Slots /\ k + 1 \in 0 .. c - 1
          BY <1>2, <1>5, <1>11, <3>1, <3>3, SlotAt
        <4>2. buffer[(front + (k + 1)) % Capacity] = n - c + 1 + (k + 1)
          BY <1>11, <4>1
        <4>3. QED
          BY <1>3, <1>8, <1>11, <3>1, <4>1, <4>2
      <3>4. QED
        BY <3>2, <3>3
    <2>3. Codes'
      <3>1. 0 .. Count' - 1 = 0 .. c - 1 /\ Len(typed') - Count' + 1 = n + 1 - c + 1
        BY <1>3, <1>11, <2>1
      <3>2. QED
        BY <2>2, <3>1 DEF Codes
    <2>4. ~FrontMoved /\ pc \notin {"loadFront", "storeFront", "storeSize", "decrement", "loadSize"}
      BY <1>14, <1>16 DEF InPop, FrontMoved
    <2>5. Unread' >= Capacity
      BY <1>3, <1>4, <1>10, <1>16, <2>4 DEF Ordered, RingInv, c
    <2>6. RingInv'
      BY <1>1, <1>3, <1>4, <1>9, <1>10, <1>12, <1>16, <2>1, <2>3, <2>4, <2>5 DEF RingInv, n
    <2>7. SizeInv'
      BY <1>9, <1>13, <1>14, <1>16, <2>1, <2>4 DEF Ordered, SizeInv
    <2>8. QED
      BY <1>15, <2>6, <2>7 DEF Ordered
  <1>17. CASE c # Capacity - 1
    <2>1. front' = front /\ size' = size + 1 /\ Count' = c + 1 /\ c < Capacity - 1
      BY <1>4, <1>5, <1>7, <1>11, <1>17 DEF Count
    <2>2. ASSUME NEW k \in 0 .. c
          PROVE  buffer'[(front' + k) % Capacity] = n + 1 - (c + 1) + 1 + k
      <3>1. k \in Slots
        BY <1>4, <1>11, <2>1 DEF Slots
      <3>2. CASE k = c
        BY <1>3, <1>5, <1>8, <1>11, <2>1, <3>2
      <3>3. CASE k # c
        <4>1. (front + k) % Capacity # back /\ (front + k) % Capacity \in Slots /\ k \in 0 .. c - 1
          BY <1>2, <1>5, <1>11, <3>1, <3>3, SlotAt
        <4>2. buffer[(front + k) % Capacity] = n - c + 1 + k
          BY <1>11, <4>1
        <4>3. QED
          BY <1>3, <1>8, <1>11, <2>1, <4>1, <4>2
      <3>4. QED
        BY <3>2, <3>3
    <2>3. Codes'
      <3>1. 0 .. Count' - 1 = 0 .. c /\ Len(typed') - Count' + 1 = n + 1 - (c + 1) + 1
        BY <1>3, <1>11, <2>1
      <3>2. QED
        BY <2>2, <3>1 DEF Codes
    <2>4. ~FrontMoved' => Count' = IF Unread' < Capacity THEN Unread' ELSE Capacity - 1
      BY <1>3, <1>4, <1>10, <1>12, <1>17, <2>1 DEF Ordered, RingInv, c
    <2>5. ASSUME FrontMoved'
          PROVE  buffer'[retIndex'] = Len(typed') - Count' /\ Count' < Unread' /\ NextSlot(retIndex)' = front'
      <3>1. NextSlot(retIndex) = front /\ buffer[retIndex] = n - c /\ c < Unread
        BY <1>12, <2>5 DEF Ordered, RingInv, n, c
      <3>2. retIndex # back
        BY <1>5, <1>17, <3>1
      <3>3. buffer'[retIndex'] = n - c /\ retIndex' = retIndex
        BY <1>1, <1>2, <1>8, <3>1, <3>2
      <3>4. QED
        BY <1>3, <1>10, <1>11, <2>1, <3>1, <3>3 DEF NextSlot
    <2>6. RingInv'
      BY <1>1, <1>3, <1>4, <1>9, <2>1, <2>3, <2>4, <2>5 DEF Ordered, RingInv, n
    <2>7. SizeInv'
      BY <1>1, <1>2, <1>9, <1>11, <2>1 DEF TypeOK, Ordered, SizeInv, c
    <2>8. QED
      BY <1>15, <2>6, <2>7 DEF Ordered
  <1>18. QED
    BY <1>16, <1>17

(* Instructions of the reader that write no field of the buffer.            *)
LEMMA OrderedQuiet ==
  ASSUME TypeOK, Ordered, \/ ReadCall \/ CheckEmpty \/ Halt \/ PopIndex \/ LoadFront \/ LoadSize
                          \/ TimerInterrupt
  PROVE  Ordered'
  <1>1. UNCHANGED <<typed, buffer, front, back, size, keysPressed, taken, chars, collided>>
    BY DEF ReadCall, CheckEmpty, Halt, PopIndex, LoadFront, LoadSize, TimerInterrupt, ring
  <1>2. Count' = Count /\ Unread' = Unread /\ LastTaken' = LastTaken /\ (Codes <=> Codes')
    BY <1>1 DEF Count, Unread, LastTaken, Codes
  <1>3. front \in Slots /\ back \in Slots /\ size \in Nat /\ Capacity \in Nat
    BY KeyboardAssumption DEF TypeOK
  <1>5. RingInv'
    BY <1>1, <1>2 DEF Ordered, RingInv, FrontMoved, NextSlot, ReadCall, CheckEmpty, Halt, PopIndex, LoadFront, LoadSize,
           TimerInterrupt, Goto, WokenUp, registers
  <1>6. SizeInv'
    BY <1>1, <1>2, <1>3 DEF Ordered, SizeInv, ReadCall, CheckEmpty, Halt, PopIndex, LoadFront, LoadSize,
           TimerInterrupt, Goto, WokenUp, registers
  <1>7. TakenInv'
    BY <1>1, <1>2 DEF Ordered, TakenInv, InOrder
  <1>8. QED
    BY <1>5, <1>6, <1>7 DEF Ordered

(* pop moves `front': the oldest code is no longer between the indices.    *)
LEMMA OrderedStoreFront ==
  ASSUME TypeOK, TypedInv, Ordered, StoreFront
  PROVE  Ordered'
  <1> DEFINE n == Len(typed)
             c == Count
  <1>1. /\ pc = "storeFront" /\ front' = NextSlot(oldFront) /\ pc' \in Decrements
        /\ UNCHANGED <<typed, buffer, back, size, retIndex, oldFront, oldSize, keysPressed, taken, chars>>
    BY DEF StoreFront, Goto, registers
  <1>2. /\ front \in Slots /\ back \in Slots /\ size \in Nat /\ n \in Nat
        /\ Capacity \in Nat \ {0, 1} /\ pc' \in {"loadSize", "decrement"}
    BY <1>1, KeyboardAssumption DEF TypeOK
  <1>3. /\ oldFront = front /\ retIndex = front
        /\ c = IF Unread < Capacity THEN Unread ELSE Capacity - 1
        /\ \A k \in 0 .. c - 1 : buffer[(front + k) % Capacity] = n - c + 1 + k
        /\ size >= 1 /\ size <= c
    <2>1. c \in Int
      BY <1>2, RingSteps DEF Count, Slots
    <2>2. QED
      BY <1>1, <1>2, <2>1 DEF Ordered, RingInv, SizeInv, TypedInv, FrontMoved, Codes
  <1>4. c \in Slots /\ (c >= 1 => (back - NextSlot(front)) % Capacity = c - 1)
        /\ \A k \in 0 .. Capacity - 2 : (NextSlot(front) + k) % Capacity = (front + (k + 1)) % Capacity
    BY <1>2, RingSteps DEF Count
  <1>5. c \in 1 .. Capacity - 1
    BY <1>2, <1>3, <1>4 DEF Slots
  <1>6. front' = NextSlot(front) /\ Count' = c - 1 /\ NextSlot(front) \in Slots
    BY <1>1, <1>2, <1>3, <1>4, <1>5, NextSlotIs DEF Count
  <1>7. Unread' = Unread /\ LastTaken' = LastTaken /\ Unread \in Int
    BY <1>1, <1>2 DEF Unread, LastTaken, Ordered, TakenInv
  <1> HIDE DEF n, c
  <1>8. ASSUME NEW k \in 0 .. c - 2
        PROVE  buffer[(front' + k) % Capacity] = n - (c - 1) + 1 + k
    <2>1. k \in 0 .. Capacity - 2 /\ k + 1 \in 0 .. c - 1
      BY <1>2, <1>5
    <2>2. (front' + k) % Capacity = (front + (k + 1)) % Capacity
      BY <1>4, <1>6, <2>1
    <2>3. buffer[(front + (k + 1)) % Capacity] = n - c + 1 + (k + 1)
      BY <1>3, <2>1
    <2>4. QED
      BY <1>2, <1>5, <2>1, <2>2, <2>3
  <1>9. Codes'
    <2>1. 0 .. Count' - 1 = 0 .. c - 2 /\ Len(typed') - Count' + 1 = n - (c - 1) + 1
      BY <1>1, <1>2, <1>5, <1>6 DEF n
    <2>2. QED
      BY <1>1, <1>8, <2>1 DEF Codes
  <1>10. buffer[retIndex] = n - (c - 1)
    <2>1. (front + 0) % Capacity = front
      BY <1>2, Remainder DEF Slots
    <2>2. buffer[(front + 0) % Capacity] = n - c + 1 + 0
      BY <1>3, <1>5
    <2>3. QED
      BY <1>2, <1>3, <1>5, <2>1, <2>2
  <1>11. Count' < Unread'
    BY <1>2, <1>3, <1>5, <1>6, <1>7
  <1>12. RingInv'
    <2>1. FrontMoved' /\ pc' \notin {"loadFront", "storeFront"}
      BY <1>2 DEF FrontMoved
    <2>2. buffer'[retIndex'] = Len(typed') - Count' /\ NextSlot(retIndex)' = front'
      BY <1>1, <1>3, <1>6, <1>10 DEF n, NextSlot
    <2>3. QED
      BY <1>9, <1>11, <2>1, <2>2 DEF RingInv
  <1>13. SizeInv'
    BY <1>1, <1>2, <1>3, <1>5, <1>6 DEF SizeInv
  <1>14. TakenInv'
    BY <1>1, <1>7 DEF Ordered, TakenInv, InOrder
  <1>15. QED
    BY <1>12, <1>13, <1>14 DEF Ordered

(* --_size, as one instruction or as two: it never exceeds the number of   *)
(* codes.                                                                  *)
LEMMA OrderedSizeStored ==
  ASSUME TypeOK, TypedInv, Ordered, Decrement \/ StoreSize
  PROVE  Ordered'
  <1>1. /\ pc \in {"decrement", "storeSize"} /\ pc' = "return"
        /\ UNCHANGED <<typed, buffer, front, back, retIndex, oldFront, oldSize, keysPressed, taken, chars>>
    BY DEF Decrement, StoreSize, Goto, registers
  <1>2. Count' = Count /\ Unread' = Unread /\ LastTaken' = LastTaken /\ (Codes <=> Codes')
    BY <1>1 DEF Count, Unread, LastTaken, Codes
  <1>3. Count \in Slots /\ size \in Nat /\ oldSize \in Nat /\ Capacity \in Nat
    BY RingSteps, KeyboardAssumption DEF TypeOK, Count
  <1>4. size' <= Count
    BY <1>1, <1>3 DEF Ordered, SizeInv, TypedInv, Decrement, StoreSize, Slots
  <1>5. RingInv'
    BY <1>1, <1>2 DEF Ordered, RingInv, FrontMoved, NextSlot
  <1>6. SizeInv'
    BY <1>1, <1>2, <1>3, <1>4 DEF SizeInv, Slots
  <1>7. TakenInv'
    BY <1>1, <1>2 DEF Ordered, TakenInv, InOrder
  <1>8. QED
    BY <1>5, <1>6, <1>7 DEF Ordered

(* What pop returns: the code after which those in the buffer were typed.  *)
LEMMA Popped ==
  ASSUME TypeOK, Ordered, pc = "return"
  PROVE  LET code == buffer[retIndex]
         IN /\ code \in 1 .. Len(typed) /\ code > LastTaken /\ Count = Len(typed) - code
            /\ typed[code] \in Events
  <1>1. /\ buffer[retIndex] = Len(typed) - Count /\ Count < Unread /\ Unread = Len(typed) - LastTaken
        /\ LastTaken \in 0 .. Len(typed) /\ typed \in Seq(Events)
    BY DEF Ordered, RingInv, FrontMoved, TakenInv, Unread, LastTaken, TypeOK, Events
  <1>2. Count \in Slots /\ Capacity \in Nat
    BY RingSteps, KeyboardAssumption DEF TypeOK, Count
  <1>3. buffer[retIndex] \in 1 .. Len(typed) /\ buffer[retIndex] > LastTaken /\ Count = Len(typed) - buffer[retIndex]
    BY <1>1, <1>2 DEF Slots
  <1>4. QED
    BY <1>1, <1>3

LEMMA OrderedReturn ==
  ASSUME TypeOK, Ordered, Return
  PROVE  Ordered'
  <1> DEFINE code == buffer[retIndex]
  <1>1. /\ pc = "return" /\ taken' = Append(taken, code) /\ pc' \in {"client", "check"}
        /\ UNCHANGED <<typed, buffer, front, back, size, retIndex, oldFront, oldSize>>
    BY DEF Return, Goto, ring, registers
  <1>2. code \in 1 .. Len(typed) /\ code > LastTaken /\ Count = Len(typed) - code
    BY <1>1, Popped
  <1> HIDE DEF code
  <1>3. code \in Nat /\ taken \in Seq(Nat)
    BY <1>2 DEF TypeOK
  <1>4. /\ taken' \in Seq(Nat) /\ taken' # <<>> /\ Len(taken') = Len(taken) + 1
        /\ taken'[Len(taken) + 1] = code
        /\ \A i \in 1 .. Len(taken) : taken'[i] = taken[i]
        /\ taken # <<>> => Len(taken) \in Nat \ {0} /\ taken[Len(taken)] = LastTaken
    BY <1>1, <1>3, LastIs
  <1>5. LastTaken' = code /\ Unread' = Count /\ Count' = Count /\ (Codes <=> Codes')
    BY <1>1, <1>2, <1>4 DEF LastTaken, Unread, Count, Codes
  <1>6. Count \in Slots /\ Capacity \in Nat
    BY RingSteps, KeyboardAssumption DEF TypeOK, Count
  <1>7. RingInv'
    <2>1. ~FrontMoved' /\ pc' \notin {"loadFront", "storeFront"}
      BY <1>1 DEF FrontMoved
    <2>2. Count' = IF Unread' < Capacity THEN Unread' ELSE Capacity - 1
      BY <1>5, <1>6 DEF Slots
    <2>3. QED
      BY <1>1, <1>5, <2>1, <2>2 DEF Ordered, RingInv
  <1>8. SizeInv'
    BY <1>1, <1>5 DEF Ordered, SizeInv
  <1>9. TakenInv'
    <2>1. LastTaken' \in 0 .. Len(typed')
      BY <1>1, <1>2, <1>5
    <2>2. ASSUME NEW i \in 1 .. Len(taken') - 1 PROVE taken'[i] < taken'[i + 1]
      <3>1. i \in 1 .. Len(taken) /\ taken # <<>> /\ Len(taken) \in Nat
        BY <1>3, <1>4
      <3>2. CASE i = Len(taken)
        BY <1>2, <1>4, <3>1, <3>2
      <3>3. CASE i # Len(taken)
        <4>1. i \in 1 .. Len(taken) - 1 /\ i + 1 \in 1 .. Len(taken)
          BY <3>1, <3>3
        <4>2. taken[i] < taken[i + 1]
          BY <4>1 DEF Ordered, TakenInv, InOrder
        <4>3. QED
          BY <1>4, <3>1, <4>1, <4>2
      <3>4. QED
        BY <3>2, <3>3
    <2>3. QED
      BY <2>1, <2>2 DEF TakenInv, InOrder
  <1>10. QED
    BY <1>7, <1>8, <1>9 DEF Ordered

LEMMA OrderedStep ==
  ASSUME TypeOK, TypedInv, Ordered, [Next]_vars, ~collided'
  PROVE  Ordered'
  <1>1. CASE UNCHANGED vars
    BY <1>1 DEF vars, Ordered, RingInv, SizeInv, TakenInv, InOrder, Codes, FrontMoved, Count, Unread, LastTaken,
           NextSlot
  <1>2. CASE Next
    BY <1>2, OrderedKeyInterrupt, OrderedQuiet, OrderedStoreFront, OrderedSizeStored, OrderedReturn
       DEF Next, ReaderStep
  <1>3. QED
    BY <1>1, <1>2

-----------------------------------------------------------------------------
(* Whatever is met, what pop returns was typed.                            *)

(* A full buffer and the slot behind it: all slots.                        *)
LEMMA FullIsFull ==
  ASSUME TypeOK, Ordered, Full
  PROVE  \A s \in Slots : s = back \/ buffer[s] \in 1 .. Len(typed)
  <1> DEFINE c == Count
  <1>1. Capacity \in Nat \ {0, 1} /\ front \in Slots /\ back \in Slots /\ Len(typed) \in Nat
    BY KeyboardAssumption DEF TypeOK
  <1>2. c = Capacity - 1
    BY <1>1, RingSteps DEF Full, Count
  <1>3. c = (IF front <= back THEN back - front ELSE back - front + Capacity)
    BY <1>1, Distance DEF Count
  <1>4. /\ \A k \in 0 .. c - 1 : buffer[(front + k) % Capacity] = Len(typed) - c + 1 + k
        /\ c <= Len(typed)
    <2>1. c <= Unread
      BY <1>1, <1>2 DEF Ordered, RingInv, Unread, LastTaken, TakenInv
    <2>2. Unread = Len(typed) - LastTaken /\ LastTaken \in 0 .. Len(typed)
      BY DEF Unread, LastTaken, Ordered, TakenInv
    <2>3. QED
      BY <1>1, <1>2, <2>1, <2>2 DEF Ordered, RingInv, Codes
  <1> HIDE DEF c
  <1>5. SUFFICES ASSUME NEW s \in Slots, s # back PROVE buffer[s] \in 1 .. Len(typed)
    OBVIOUS
  <1> DEFINE k == IF front <= s THEN s - front ELSE s - front + Capacity
  <1>6. k = (IF front <= s THEN s - front ELSE s - front + Capacity) /\ k \in Slots
    BY <1>1, <1>5 DEF Slots
  <1> HIDE DEF k
  <1>7. (front + k) % Capacity = s
    <2>1. (front + k) % Capacity = (IF front + k < Capacity THEN front + k ELSE front + k - Capacity)
      BY <1>1, <1>6, SlotAt
    <2>2. QED
      BY <1>1, <1>5, <1>6, <2>1 DEF Slots
  <1>8. k \in 0 .. c - 1
    BY <1>1, <1>2, <1>3, <1>5, <1>6 DEF Slots
  <1>9. QED
    BY <1>1, <1>2, <1>4, <1>7, <1>8

(* The code pop returns *)
LEMMA ReturnedIsTyped ==
  ASSUME Inv, pc = "return"
  PROVE  LET code == buffer[retIndex] IN code \in 1 .. Len(typed) /\ code \in Nat /\ typed[code] \in Events
  <1>1. buffer[retIndex] \in 1 .. Len(typed)
    <2>1. CASE collided
      BY <2>1 DEF Inv, TypedInv, TypeOK
    <2>2. CASE ~collided
      BY <2>2, Popped DEF Inv
    <2>3. QED
      BY <2>1, <2>2
  <1>2. typed \in Seq(Events)
    BY DEF Inv, TypeOK, Events
  <1>3. QED
    BY <1>1, <1>2

LEMMA TypedKeyInterrupt ==
  ASSUME Inv, NEW key \in Keys, NEW down \in BOOLEAN, KeyInterrupt(key, down)
  PROVE  TypeOK' /\ TypedInv'
  <1> DEFINE n == Len(typed)
  <1>1. /\ n < MaxTyped /\ pc' = WokenUp
        /\ typed' = Append(typed, [key |-> key, down |-> down]) /\ Enqueue(Len(typed'))
        /\ collided' = (collided \/ (InPop /\ Full))
        /\ UNCHANGED <<retIndex, oldFront, oldSize, keysPressed, taken, chars>>
    BY DEF KeyInterrupt
  <1>2. /\ typed \in Seq(Events) /\ buffer \in [Slots -> 0 .. MaxTyped] /\ front \in Slots /\ back \in Slots
        /\ size \in Nat /\ collided \in BOOLEAN /\ MaxTyped \in Nat
    BY KeyboardAssumption DEF Inv, TypeOK, Events
  <1>3. typed' \in Seq(Events) /\ Len(typed') = n + 1 /\ n \in Nat
    BY <1>1, <1>2 DEF Events
  <1>4. NextSlot(back) \in Slots /\ NextSlot(front) \in Slots
    BY <1>2, NextSlotIs
  <1>5. /\ buffer' = [buffer EXCEPT ![back] = n + 1] /\ back' \in Slots /\ front' \in Slots
        /\ size' \in {size, size + 1}
    BY <1>1, <1>2, <1>3, <1>4 DEF Enqueue
  <1>6. buffer' \in [Slots -> 0 .. MaxTyped] /\ buffer'[back] = n + 1
        /\ \A s \in Slots : s # back => buffer'[s] = buffer[s]
    BY <1>1, <1>2, <1>3, <1>5
  <1>7. /\ pc' \in {"client", "check", "halt", "halted", "pop", "loadFront", "storeFront",
                     "decrement", "loadSize", "storeSize", "return"}
        /\ pc' # pc => pc = "halted" /\ pc' = "check"
    BY <1>1 DEF WokenUp, Inv, TypeOK
  <1>8. TypeOK'
    BY <1>1, <1>2, <1>3, <1>5, <1>6, <1>7 DEF Inv, TypeOK, Events, n
  <1>9. ASSUME collided', NEW s \in Slots PROVE buffer'[s] \in 1 .. n + 1
    <2>1. CASE s = back
      BY <1>3, <1>6, <2>1
    <2>2. CASE s # back
      <3>1. buffer[s] \in 1 .. n
        <4>1. CASE collided
          BY <4>1 DEF Inv, TypedInv
        <4>2. CASE ~collided
          <5>1. Full /\ Ordered /\ TypeOK
            BY <1>1, <1>9, <4>2 DEF Inv
          <5>2. QED
            BY <2>2, <5>1, FullIsFull
        <4>3. QED
          BY <4>1, <4>2
      <3>2. QED
        BY <1>3, <1>6, <2>2, <3>1
    <2>3. QED
      BY <2>1, <2>2
  <1>10. TypedInv'
    <2>1. pc' \in {"pop", "loadFront", "storeFront", "decrement", "loadSize", "storeSize"} => size' >= 1
      BY <1>2, <1>5, <1>7 DEF Inv, TypedInv
    <2>2. \A i \in DOMAIN taken' : taken'[i] \in 1 .. Len(typed')
      BY <1>1, <1>3 DEF Inv, TypedInv
    <2>3. QED
      BY <1>1, <1>2, <1>3, <1>7, <1>9, <2>1, <2>2 DEF Inv, TypedInv
  <1>11. QED
    BY <1>8, <1>10

LEMMA TypedQuiet ==
  ASSUME Inv, \/ ReadCall \/ CheckEmpty \/ Halt \/ PopIndex \/ LoadFront \/ LoadSize \/ TimerInterrupt
              \/ StoreFront \/ Decrement \/ StoreSize
  PROVE  TypeOK' /\ TypedInv' /\ collided' = collided
  <1>1. UNCHANGED <<typed, buffer, back, keysPressed, taken, chars, collided>>
    BY DEF ReadCall, CheckEmpty, Halt, PopIndex, LoadFront, LoadSize, TimerInterrupt, StoreFront, Decrement,
           StoreSize, ring, registers
  <1>2. NextSlot(oldFront) \in Slots
    BY NextSlotIs DEF Inv, TypeOK
  <1>3. Decrements \subseteq {"loadSize", "decrement"}
    BY KeyboardAssumption
  <1>4. front' \in Slots /\ size' \in Nat /\ retIndex' \in Slots /\ oldFront' \in Slots /\ oldSize' \in Nat
    <2>1. CASE StoreFront
      BY <1>2, <2>1 DEF Inv, TypeOK, StoreFront, registers
    <2>2. CASE Decrement \/ StoreSize
      <3>1. size \in Nat /\ oldSize \in Nat /\ size' \in {size - 1, oldSize - 1}
            /\ (size' = size - 1 => size >= 1) /\ (size' = oldSize - 1 => oldSize >= 1)
        BY <2>2 DEF Inv, TypeOK, TypedInv, Decrement, StoreSize
      <3>2. size' \in Nat
        BY <3>1
      <3>3. QED
        BY <2>2, <3>2 DEF Inv, TypeOK, Decrement, StoreSize, registers
    <2>3. CASE ReadCall \/ CheckEmpty \/ Halt \/ PopIndex \/ LoadFront \/ LoadSize \/ TimerInterrupt
      BY <2>3 DEF Inv, TypeOK, ReadCall, CheckEmpty, Halt, PopIndex, LoadFront, LoadSize, TimerInterrupt, ring,
             registers
    <2>4. QED
      BY <2>1, <2>2, <2>3
  <1>5. pc' \in {"client", "check", "halt", "halted", "pop", "loadFront", "storeFront",
                 "decrement", "loadSize", "storeSize", "return"}
    BY <1>3 DEF Inv, TypeOK, ReadCall, CheckEmpty, Halt, PopIndex, LoadFront, LoadSize, TimerInterrupt,
           StoreFront, Decrement, StoreSize, Goto, WokenUp
  <1>6. TypeOK'
    BY <1>1, <1>4, <1>5 DEF Inv, TypeOK
  <1>7. /\ pc' \in {"pop", "loadFront", "storeFront", "decrement", "loadSize", "storeSize"} => size' >= 1
        /\ pc' = "storeSize" => oldSize' >= 1
    BY <1>3 DEF Inv, TypeOK, TypedInv, ReadCall, CheckEmpty, Halt, PopIndex, LoadFront, LoadSize, TimerInterrupt,
           StoreFront, Decrement, StoreSize, Goto, WokenUp, ring, registers
  <1>8. TypedInv'
    BY <1>1, <1>7 DEF Inv, TypedInv
  <1>9. QED
    BY <1>1, <1>6, <1>8

LEMMA TypedReturn ==
  ASSUME Inv, Return
  PROVE  TypeOK' /\ TypedInv' /\ collided' = collided
  <1> DEFINE code == buffer[retIndex]
             event == typed[code]
  <1>1. /\ pc = "return" /\ taken' = Append(taken, code) /\ pc' \in {"client", "check"}
        /\ UNCHANGED <<typed, buffer, front, back, size, retIndex, oldFront, oldSize, collided>>
        /\ keysPressed' = (IF event.down THEN keysPressed \cup ({event.key} \cap ShiftKeys)
                                         ELSE keysPressed \ {event.key})
        /\ \/ chars' = chars
           \/ chars' = Append(chars, <<code, keysPressed # {}>>)
    BY DEF Return, Goto, ring, registers
  <1>2. code \in 1 .. Len(typed) /\ code \in Nat
    BY <1>1, ReturnedIsTyped
  <1> HIDE DEF code
  <1>3. taken \in Seq(Nat) /\ taken' \in Seq(Nat)
    BY <1>1, <1>2 DEF Inv, TypeOK
  <1>4. keysPressed' \subseteq ShiftKeys
    BY <1>1 DEF Inv, TypeOK
  <1>5. chars' \in Seq(Nat \X BOOLEAN)
    <2>1. <<code, keysPressed # {}>> \in Nat \X BOOLEAN
      BY <1>2
    <2>2. chars \in Seq(Nat \X BOOLEAN)
      BY DEF Inv, TypeOK
    <2>3. Append(chars, <<code, keysPressed # {}>>) \in Seq(Nat \X BOOLEAN)
      BY <2>1, <2>2, AppendProperties, Zenon
    <2>4. QED
      BY <1>1, <2>2, <2>3, Zenon
  <1>6. TypeOK'
    BY <1>1, <1>3, <1>4, <1>5 DEF Inv, TypeOK
  <1>7. \A i \in DOMAIN taken' : taken'[i] \in 1 .. Len(typed')
    <2>1. ASSUME NEW i \in DOMAIN taken' PROVE taken'[i] \in 1 .. Len(typed)
      <3>1. i \in 1 .. Len(taken) + 1 /\ Len(taken) \in Nat
        BY <1>1, <1>3, <2>1
      <3>2. CASE i = Len(taken) + 1
        BY <1>1, <1>2, <1>3, <3>2
      <3>3. CASE i # Len(taken) + 1
        <4>1. i \in 1 .. Len(taken) /\ i \in DOMAIN taken
          BY <1>3, <3>1, <3>3
        <4>2. taken'[i] = taken[i]
          BY <1>1, <1>3, <4>1
        <4>3. QED
          BY <4>1, <4>2 DEF Inv, TypedInv
      <3>4. QED
        BY <3>2, <3>3
    <2>2. QED
      BY <1>1, <2>1
  <1>8. TypedInv'
    BY <1>1, <1>7 DEF Inv, TypedInv
  <1>9. QED
    BY <1>1, <1>6, <1>8

LEMMA InvStep == Inv /\ [Next]_vars => Inv'
  <1> SUFFICES ASSUME Inv, [Next]_vars PROVE Inv'
    OBVIOUS
  <1>1. TypeOK' /\ TypedInv' /\ (collided => collided')
    <2>1. CASE UNCHANGED vars
      BY <2>1 DEF vars, Inv, TypeOK, TypedInv
    <2>2. CASE \E key \in Keys, down \in BOOLEAN : KeyInterrupt(key, down)
      BY <2>2, TypedKeyInterrupt DEF KeyInterrupt
    <2>3. CASE ReaderStep \/ TimerInterrupt
      BY <2>3, TypedQuiet, TypedReturn DEF ReaderStep
    <2>4. QED
      BY <2>1, <2>2, <2>3 DEF Next
  <1>2. ~collided' => Ordered'
    BY <1>1, OrderedStep DEF Inv
  <1>3. QED
    BY <1>1, <1>2 DEF Inv

(* Scan codes are read in the order in which they were typed, none twice   *)
(* and none lost unless the buffer was full, between whichever of pop's    *)
(* instructions keys are typed, up to the first that meets a full buffer   *)
(* there; and every code read was typed, whatever was met.                 *)
THEOREM CodesAreReadInOrder == Spec => []CodesInOrder
  <1>1. Inv => CodesInOrder
    BY DEF Inv, Ordered, CodesInOrder, NewestBuffered, RingInv, TakenInv, TypedInv, Codes, FrontMoved, InPop
  <1>2. QED
    BY <1>1, InvInit, InvStep, PTL DEF Spec

-----------------------------------------------------------------------------
(* Shift keys.                                                             *)

(* Whether a key is down depends on what was typed up to there, and on the *)
(* last code if that is of the key.                                        *)
LEMMA DownAtPrefix ==
  ASSUME NEW S, NEW log \in Seq(S), NEW e \in S, NEW i \in 0 .. Len(log), NEW key
  PROVE  DownAt(Append(log, e), key, i) <=> DownAt(log, key, i)
  <1> DEFINE longer == Append(log, e)
  <1>1. \A j \in 1 .. i : longer[j] = log[j]
    OBVIOUS
  <1>2. \A j \in 1 .. i : \A k \in j + 1 .. i : k \in 1 .. i
    OBVIOUS
  <1> HIDE DEF longer
  <1>3. DownAt(longer, key, i) <=> DownAt(log, key, i)
    <2>1. \A j \in 1 .. i : (\A k \in j + 1 .. i : longer[k].key # key) <=> \A k \in j + 1 .. i : log[k].key # key
      BY <1>1, <1>2
    <2>2. QED
      BY <1>1, <2>1, Zenon DEF DownAt
  <1>4. QED
    BY <1>3 DEF longer

LEMMA DownAtNext ==
  ASSUME NEW log \in Seq(Events), NEW i \in Nat, i + 1 \in 1 .. Len(log), NEW key
  PROVE  DownAt(log, key, i + 1) <=> IF log[i + 1].key = key THEN log[i + 1].down
                                                          ELSE DownAt(log, key, i)
  <1>1. log[i + 1] \in Events
    OBVIOUS
  <1>2. CASE log[i + 1].key = key
    <2>1. ASSUME log[i + 1].down PROVE DownAt(log, key, i + 1)
      <3>1. log[i + 1] = [key |-> key, down |-> TRUE]
        BY <1>1, <1>2, <2>1 DEF Events
      <3>2. i + 1 \in 1 .. i + 1 /\ \A k \in i + 1 + 1 .. i + 1 : log[k].key # key
        OBVIOUS
      <3>3. QED
        BY <3>1, <3>2 DEF DownAt
    <2>2. ASSUME DownAt(log, key, i + 1) PROVE log[i + 1].down
      <3>1. PICK j \in 1 .. i + 1 : /\ log[j] = [key |-> key, down |-> TRUE]
                                    /\ \A k \in j + 1 .. i + 1 : log[k].key # key
        BY <2>2 DEF DownAt
      <3>2. j = i + 1
        <4>1. j # i + 1 => i + 1 \in j + 1 .. i + 1
          OBVIOUS
        <4>2. QED
          BY <1>2, <3>1, <4>1
      <3>3. QED
        BY <3>1, <3>2
    <2>3. QED
      BY <1>2, <2>1, <2>2
  <1>3. CASE log[i + 1].key # key
    <2>1. ASSUME DownAt(log, key, i) PROVE DownAt(log, key, i + 1)
      <3>1. PICK j \in 1 .. i : /\ log[j] = [key |-> key, down |-> TRUE]
                                /\ \A k \in j + 1 .. i : log[k].key # key
        BY <2>1 DEF DownAt
      <3>2. j \in 1 .. i + 1 /\ \A k \in j + 1 .. i + 1 : k = i + 1 \/ k \in j + 1 .. i
        OBVIOUS
      <3>3. QED
        BY <1>3, <3>1, <3>2, Zenon DEF DownAt
    <2>2. ASSUME DownAt(log, key, i + 1) PROVE DownAt(log, key, i)
      <3>1. PICK j \in 1 .. i + 1 : /\ log[j] = [key |-> key, down |-> TRUE]
                                    /\ \A k \in j + 1 .. i + 1 : log[k].key # key
        BY <2>2 DEF DownAt
      <3>2. j # i + 1
        BY <1>3, <3>1
      <3>3. j \in 1 .. i /\ \A k \in j + 1 .. i : k \in j + 1 .. i + 1
        BY <3>2
      <3>4. QED
        BY <3>1, <3>3, Zenon DEF DownAt
    <2>3. QED
      BY <1>3, <2>1, <2>2
  <1>4. QED
    BY <1>2, <1>3

LEMMA ShiftInvInit == Init => ShiftInv
  <1> SUFFICES ASSUME Init PROVE ShiftInv
    OBVIOUS
  <1>1. Len(taken) = 0 /\ Len(chars) = 0 /\ keysPressed = {}
    BY DEF Init
  <1>2. 1 .. 0 = {}
    OBVIOUS
  <1>3. QED
    BY <1>1, <1>2 DEF ShiftInv, DownAt

(* What is typed later does not change which keys were down.               *)
LEMMA ShiftInvTyped ==
  ASSUME Inv, ShiftInv, NEW e \in Events, typed' = Append(typed, e), UNCHANGED <<keysPressed, taken, chars>>,
         NoneLost => Len(taken) <= Len(typed)
  PROVE  ShiftInv'
  <1> SUFFICES ASSUME NoneLost'
               PROVE  /\ keysPressed' = {key \in ShiftKeys : DownAt(typed', key, Len(taken'))}
                      /\ \A i \in 1 .. Len(chars') :
                           /\ chars'[i][1] \in 1 .. Len(typed')
                           /\ chars'[i][2] = \E key \in ShiftKeys : DownAt(typed', key, chars'[i][1])
    BY DEF ShiftInv
  <1>1. typed \in Seq(Events) /\ Len(typed') = Len(typed) + 1 /\ Len(taken) \in Nat
    BY DEF Inv, TypeOK, Events
  <1>2. NoneLost
    BY DEF NoneLost
  <1>3. \A i \in 0 .. Len(typed), key \in ShiftKeys : DownAt(typed', key, i) <=> DownAt(typed, key, i)
    BY <1>1, DownAtPrefix
  <1>4. keysPressed' = {key \in ShiftKeys : DownAt(typed', key, Len(taken'))}
    <2>1. Len(taken) \in 0 .. Len(typed)
      BY <1>1, <1>2
    <2>2. keysPressed = {key \in ShiftKeys : DownAt(typed, key, Len(taken))}
      BY <1>2 DEF ShiftInv
    <2>3. QED
      BY <1>3, <2>1, <2>2
  <1>5. ASSUME NEW i \in 1 .. Len(chars)
        PROVE  /\ chars[i][1] \in 1 .. Len(typed')
               /\ chars[i][2] = \E key \in ShiftKeys : DownAt(typed', key, chars[i][1])
    <2>1. /\ chars[i][1] \in 1 .. Len(typed)
          /\ chars[i][2] = \E key \in ShiftKeys : DownAt(typed, key, chars[i][1])
      BY <1>2 DEF ShiftInv
    <2>2. chars[i][1] \in 0 .. Len(typed) /\ chars[i][1] \in 1 .. Len(typed')
      BY <1>1, <2>1
    <2>3. (\E key \in ShiftKeys : DownAt(typed', key, chars[i][1]))
            <=> (\E key \in ShiftKeys : DownAt(typed, key, chars[i][1]))
      BY <1>3, <2>2
    <2>4. QED
      BY <2>1, <2>2, <2>3
  <1>6. QED
    BY <1>4, <1>5

(* If none was lost, the last code taken is the number of those taken.     *)
LEMMA NoneLostLast ==
  ASSUME Inv, NoneLost
  PROVE  Len(taken) = LastTaken /\ Len(taken) <= Len(typed)
  <1>1. taken \in Seq(Nat) /\ Len(typed) \in Nat /\ \A i \in DOMAIN taken : taken[i] \in 1 .. Len(typed)
    BY DEF Inv, TypeOK, TypedInv
  <1>2. CASE taken = <<>>
    BY <1>1, <1>2 DEF LastTaken
  <1>3. CASE taken # <<>>
    <2>1. Len(taken) \in 1 .. Len(taken)
      BY <1>1, <1>3
    <2>2. QED
      BY <1>1, <1>3, <2>1 DEF LastTaken, NoneLost
  <1>4. QED
    BY <1>2, <1>3

(* A code is taken: the keys that are down follow it.                      *)
LEMMA ShiftInvReturn ==
  ASSUME Inv, ShiftInv, Return
  PROVE  ShiftInv'
  <1> DEFINE code == buffer[retIndex]
             event == typed[code]
  <1>1. /\ pc = "return" /\ taken' = Append(taken, code) /\ typed' = typed
        /\ keysPressed' = (IF event.down THEN keysPressed \cup ({event.key} \cap ShiftKeys)
                                         ELSE keysPressed \ {event.key})
        /\ \/ chars' = chars
           \/ event.down /\ event.key \in PlainKeys /\ chars' = Append(chars, <<code, keysPressed # {}>>)
    BY DEF Return, Goto
  <1>2. code \in 1 .. Len(typed) /\ event \in Events /\ typed \in Seq(Events) /\ code \in Nat
    BY <1>1, ReturnedIsTyped DEF Inv, TypeOK, Events
  <1> HIDE DEF code
  <1> SUFFICES ASSUME NoneLost'
               PROVE  /\ keysPressed' = {key \in ShiftKeys : DownAt(typed, key, Len(taken'))}
                      /\ \A i \in 1 .. Len(chars') :
                           /\ chars'[i][1] \in 1 .. Len(typed)
                           /\ chars'[i][2] = \E key \in ShiftKeys : DownAt(typed, key, chars'[i][1])
    BY <1>1 DEF ShiftInv
  <1>3. /\ Len(taken') = Len(taken) + 1 /\ taken'[Len(taken) + 1] = code /\ Len(taken) \in Nat
        /\ \A i \in 1 .. Len(taken) : taken'[i] = taken[i]
    BY <1>1, <1>2, LastIs DEF Inv, TypeOK
  <1>4. code = Len(taken) + 1
    BY <1>3 DEF NoneLost
  <1>5. NoneLost
    BY <1>3 DEF NoneLost
  <1>6. \A key \in ShiftKeys : DownAt(typed, key, code) <=> IF event.key = key THEN event.down
                                                          ELSE DownAt(typed, key, Len(taken))
    BY <1>2, <1>3, <1>4, DownAtNext
  <1>7. /\ keysPressed = {key \in ShiftKeys : DownAt(typed, key, Len(taken))}
        /\ \A i \in 1 .. Len(chars) :
             /\ chars[i][1] \in 1 .. Len(typed)
             /\ chars[i][2] = \E key \in ShiftKeys : DownAt(typed, key, chars[i][1])
    BY <1>5 DEF ShiftInv
  <1>8. keysPressed' = {key \in ShiftKeys : DownAt(typed, key, Len(taken'))}
    BY <1>1, <1>3, <1>4, <1>6, <1>7
  <1>9. CASE chars' = chars
    BY <1>7, <1>8, <1>9
  <1>10. CASE event.down /\ event.key \in PlainKeys /\ chars' = Append(chars, <<code, keysPressed # {}>>)
    <2>1. (keysPressed # {}) = \E key \in ShiftKeys : DownAt(typed, key, code)
      <3>1. event.key \notin ShiftKeys
        BY <1>10, KeyboardAssumption
      <3>2. \A key \in ShiftKeys : DownAt(typed, key, code) <=> DownAt(typed, key, Len(taken))
        BY <1>6, <3>1
      <3>3. QED
        BY <1>7, <3>2
    <2> DEFINE read == <<code, keysPressed # {}>>
    <2>2. read[1] = code /\ read[2] = (keysPressed # {}) /\ read \in Nat \X BOOLEAN
      BY <1>2
    <2> HIDE DEF read
    <2>3. chars \in Seq(Nat \X BOOLEAN) /\ chars' = Append(chars, read)
      BY <1>10 DEF Inv, TypeOK, read
    <2>4. /\ Len(chars') = Len(chars) + 1 /\ chars'[Len(chars) + 1] = read /\ Len(chars) \in Nat
          /\ \A i \in 1 .. Len(chars) : chars'[i] = chars[i]
      BY <2>2, <2>3, AppendProperties
    <2>5. ASSUME NEW i \in 1 .. Len(chars')
          PROVE  /\ chars'[i][1] \in 1 .. Len(typed)
                 /\ chars'[i][2] = \E key \in ShiftKeys : DownAt(typed, key, chars'[i][1])
      <3>1. i = Len(chars) + 1 \/ i \in 1 .. Len(chars)
        BY <2>4
      <3>2. CASE i = Len(chars) + 1
        BY <1>2, <2>1, <2>2, <2>4, <3>2, Zenon
      <3>3. CASE i \in 1 .. Len(chars)
        BY <1>7, <2>4, <3>3, Zenon
      <3>4. QED
        BY <3>1, <3>2, <3>3
    <2>6. QED
      BY <1>8, <2>5
  <1>11. QED
    BY <1>1, <1>9, <1>10

LEMMA ShiftInvStep == Inv /\ ShiftInv /\ [Next]_vars => ShiftInv'
  <1> SUFFICES ASSUME Inv, ShiftInv, [Next]_vars PROVE ShiftInv'
    OBVIOUS
  <1>1. CASE UNCHANGED <<typed, keysPressed, taken, chars>>
    BY <1>1 DEF ShiftInv, NoneLost
  <1>2. CASE \E key \in Keys, down \in BOOLEAN : KeyInterrupt(key, down)
    <2>1. PICK key \in Keys, down \in BOOLEAN : KeyInterrupt(key, down)
      BY <1>2
    <2>2. [key |-> key, down |-> down] \in Events
      BY DEF Events
    <2>3. QED
      BY <2>1, <2>2, ShiftInvTyped, NoneLostLast DEF KeyInterrupt
  <1>3. CASE Return
    BY <1>3, ShiftInvReturn
  <1>4. QED
    BY <1>1, <1>2, <1>3 DEF Next, ReaderStep, vars, TimerInterrupt, ReadCall, CheckEmpty, Halt, PopIndex,
          LoadFront, StoreFront, Decrement, LoadSize, StoreSize

(* A character is shifted if and only if a shift key was down when it was  *)
(* typed, however many keys were typed between that and its being read.    *)
THEOREM CharactersAreShiftedAsTyped == Spec => []ShiftAsTyped
  <1>1. Spec => [](Inv /\ ShiftInv)
    BY InvInit, InvStep, ShiftInvInit, ShiftInvStep, PTL DEF Spec
  <1>2. ShiftInv => ShiftAsTyped
    <2> SUFFICES ASSUME ShiftInv, NoneLost, NEW i \in 1 .. Len(chars)
                 PROVE  chars[i][2] = ShiftedAt(chars[i][1])
      BY DEF ShiftAsTyped, NoneLost
    <2>1. chars[i][2] = \E key \in ShiftKeys : DownAt(typed, key, chars[i][1])
      BY DEF ShiftInv
    <2>2. QED
      BY <2>1 DEF ShiftedAt, DownAt
  <1>3. QED
    BY <1>1, <1>2, PTL

-----------------------------------------------------------------------------
(* sys::ArrayList is the sequence of the elements it was given, until one  *)
(* of the calls its class gets wrong.  The cells in use and the elements   *)
(* are compared one by one (Shows), which is what the copying loops of the *)
(* class and of DynamicArray preserve.  The cells behind those in use may  *)
(* hold no objects (Raw), as clear leaves them.                            *)

Cell == ArrayValues \cup {Blank, Raw}

IsBlock(b) ==
  /\ b = [cells |-> b.cells, over |-> b.over]
  /\ b.cells \in Seq(Cell)
  /\ b.over \in BOOLEAN

(* The first n cells are the elements s. *)
Shows(cells, n, s) ==
  /\ n = Len(s)
  /\ n <= Len(cells)
  /\ \A i \in 1 .. n : cells[i] = s[i]

Right(b, n, s) == ~b.over /\ Shows(b.cells, n, s)

Types(b, n, s) == IsBlock(b) /\ n \in Nat /\ s \in Seq(ArrayValues)

ArrayInv ==
  /\ unsupported \in BOOLEAN
  /\ ~unsupported => Types(block, used, held) /\ Right(block, used, held)

-----------------------------------------------------------------------------
(* Sequences of cells. *)

Joins(S, a, c, t) ==
  /\ t \in Seq(S) /\ Len(t) = Len(a) + Len(c)
  /\ \A i \in 1 .. Len(a) + Len(c) : t[i] = IF i <= Len(a) THEN a[i] ELSE c[i - Len(a)]

LEMMA JoinedSeq ==
  ASSUME NEW S, NEW a \in Seq(S), NEW c \in Seq(S)
  PROVE  Joins(S, a, c, a \o c)
  BY ConcatProperties, Zenon DEF Joins

LEMMA FunctionIsSeq ==
  ASSUME NEW S, NEW n \in Nat, NEW f \in [1 .. n -> S]
  PROVE  f \in Seq(S) /\ Len(f) = n
  <1>1. f \in Seq(S)
    BY SeqDef
  <1>2. Len(f) \in Nat /\ DOMAIN f = 1 .. Len(f) /\ DOMAIN f = 1 .. n
    BY <1>1, LenProperties
  <1>3. QED
    BY <1>1, <1>2

LEMMA CellsAre ==
  ASSUME NEW b, IsBlock(b)
  PROVE  /\ Len(b.cells) \in Nat
         /\ DOMAIN b.cells = 1 .. Len(b.cells)
         /\ \A i \in 1 .. Len(b.cells) : b.cells[i] \in Cell
  BY LenProperties DEF IsBlock

LEMMA IntactIsBlock ==
  ASSUME NEW n \in Nat, NEW f \in [1 .. n -> Cell], NEW b, b = Intact(f)
  PROVE  IsBlock(b) /\ ~b.over /\ b.cells = f /\ Len(b.cells) = n
  BY FunctionIsSeq DEF IsBlock, Intact

(* Writing a cell of the block. *)
LEMMA PutInside ==
  ASSUME NEW b, IsBlock(b), ~b.over, NEW i \in 1 .. Len(b.cells), NEW v \in Cell, NEW c, c = Put(b, i, v)
  PROVE  /\ IsBlock(c) /\ ~c.over /\ Len(c.cells) = Len(b.cells) /\ c.cells[i] = v
         /\ \A j \in 1 .. Len(b.cells) : j # i => c.cells[j] = b.cells[j]
  <1>1. Len(b.cells) \in Nat /\ DOMAIN b.cells = 1 .. Len(b.cells) /\ b.cells \in Seq(Cell)
    BY CellsAre DEF IsBlock
  <1>2. c = [b EXCEPT !.cells[i] = v]
    BY <1>1 DEF Put
  <1>3. PICK f : f = [b.cells EXCEPT ![i] = v]
    OBVIOUS
  <1>4. c = [cells |-> f, over |-> b.over]
    BY <1>2, <1>3 DEF IsBlock
  <1>5. f \in Seq(Cell) /\ Len(f) = Len(b.cells) /\ f[i] = v
        /\ \A j \in 1 .. Len(b.cells) : j # i => f[j] = b.cells[j]
    BY <1>1, <1>3, ExceptSeq
  <1>6. c.cells = f /\ c.over = b.over /\ c = [cells |-> c.cells, over |-> c.over]
    BY <1>4
  <1>7. QED
    BY <1>5, <1>6 DEF IsBlock

(* c has n cells, of which the first after `offset' ones are those of b. *)
Extends(b, c, n, offset) ==
  /\ IsBlock(c) /\ ~c.over /\ Len(c.cells) = n
  /\ \A i \in 1 .. Len(b.cells) : i + offset <= n => c.cells[i + offset] = b.cells[i]

(* resize keeps the cells, behind `offset' blank ones. *)
LEMMA Resized ==
  ASSUME NEW b, IsBlock(b), NEW newSize \in Nat, NEW offset \in {0, 1},
         NEW n, n = (IF newSize = 0 THEN 2 * Len(b.cells) ELSE newSize),
         NEW c, c = Intact(Resize(b.cells, newSize, offset))
  PROVE  n \in Nat /\ Extends(b, c, n, offset)
  <1>1. /\ Len(b.cells) \in Nat
        /\ DOMAIN b.cells = 1 .. Len(b.cells)
        /\ \A i \in 1 .. Len(b.cells) : b.cells[i] \in Cell
    BY CellsAre
  <1>2. n \in Nat
    BY <1>1
  <1>3. PICK f : f = [i \in 1 .. n |-> IF i - offset \in DOMAIN b.cells THEN b.cells[i - offset] ELSE Blank]
    OBVIOUS
  <1>4. Resize(b.cells, newSize, offset) = f
    BY <1>3 DEF Resize, NextCapacity
  <1>5. f \in [1 .. n -> Cell]
    BY <1>1, <1>3 DEF Cell
  <1>6. IsBlock(c) /\ ~c.over /\ c.cells = f /\ Len(c.cells) = n
    BY <1>2, <1>4, <1>5, IntactIsBlock
  <1>7. ASSUME NEW i \in 1 .. Len(b.cells), i + offset <= n PROVE f[i + offset] = b.cells[i]
    <2>1. i + offset \in 1 .. n /\ (i + offset) - offset = i
      BY <1>1, <1>2, <1>7
    <2>2. QED
      BY <1>1, <1>3, <2>1
  <1>8. QED
    BY <1>2, <1>6, <1>7 DEF Extends

-----------------------------------------------------------------------------
(* The sequences that the list should hold. *)

LEMMA ElementsAre ==
  ASSUME NEW s \in Seq(ArrayValues)
  PROVE  Len(s) \in Nat /\ \A i \in 1 .. Len(s) : s[i] \in ArrayValues
  BY LenProperties

LEMMA OneElement ==
  ASSUME NEW v \in ArrayValues
  PROVE  <<v>> \in Seq(ArrayValues) /\ Len(<<v>>) = 1 /\ <<v>>[1] = v
  OBVIOUS

LEMMA Prefixed ==
  ASSUME NEW s \in Seq(ArrayValues), NEW v \in ArrayValues, NEW t, t = <<v>> \o s
  PROVE  /\ t \in Seq(ArrayValues) /\ Len(t) = Len(s) + 1 /\ t[1] = v
         /\ \A i \in 1 .. Len(s) : t[i + 1] = s[i]
  <1>1. Len(s) \in Nat
    BY ElementsAre
  <1>2. /\ t \in Seq(ArrayValues) /\ Len(t) = 1 + Len(s)
        /\ \A i \in 1 .. 1 + Len(s) : t[i] = IF i <= 1 THEN <<v>>[i] ELSE s[i - 1]
    BY OneElement, ConcatProperties
  <1>3. t[1] = v
    BY <1>1, <1>2, OneElement
  <1>4. ASSUME NEW i \in 1 .. Len(s) PROVE t[i + 1] = s[i]
    <2>1. i + 1 \in 1 .. 1 + Len(s) /\ ~(i + 1 <= 1) /\ (i + 1) - 1 = i
      BY <1>1
    <2>2. QED
      BY <1>2, <2>1
  <1>5. QED
    BY <1>1, <1>2, <1>3, <1>4

LEMMA Part ==
  ASSUME NEW s \in Seq(ArrayValues), NEW m \in Nat \ {0}, NEW n \in 0 .. Len(s), m <= n + 1,
         NEW t, t = SubSeq(s, m, n)
  PROVE  /\ t \in Seq(ArrayValues) /\ Len(t) = n - m + 1
         /\ \A i \in 1 .. n - m + 1 : t[i] = s[m + i - 1]
  <1>1. Len(s) \in Nat /\ \A i \in 1 .. Len(s) : s[i] \in ArrayValues
    BY ElementsAre
  <1>2. m \in Int /\ n \in Int /\ \A i \in m .. n : s[i] \in ArrayValues
    BY <1>1
  <1>3. /\ t \in Seq(ArrayValues) /\ Len(t) = IF m <= n THEN n - m + 1 ELSE 0
        /\ \A i \in 1 .. n - m + 1 : t[i] = s[m + i - 1]
    BY <1>2, SubSeqProperties
  <1>4. QED
    BY <1>2, <1>3

(* t is s with v behind its first idx elements. *)
InsertedAt(s, t, idx, v) ==
  /\ t \in Seq(ArrayValues) /\ Len(t) = Len(s) + 1 /\ t[idx + 1] = v
  /\ \A i \in 1 .. idx : t[i] = s[i]
  /\ \A i \in idx + 2 .. Len(s) + 1 : t[i] = s[i - 1]

LEMMA Inserted ==
  ASSUME NEW s \in Seq(ArrayValues), NEW v \in ArrayValues, NEW idx \in Nat, idx < Len(s),
         NEW t, t = SubSeq(s, 1, idx) \o <<v>> \o SubSeq(s, idx + 1, Len(s))
  PROVE  InsertedAt(s, t, idx, v)
  <1>1. Len(s) \in Nat
    BY ElementsAre
  <1>2. PICK a : a = SubSeq(s, 1, idx)
    OBVIOUS
  <1>3. PICK c : c = SubSeq(s, idx + 1, Len(s))
    OBVIOUS
  <1>4. PICK b : b = a \o <<v>>
    OBVIOUS
  <1>5. a \in Seq(ArrayValues) /\ Len(a) = idx /\ \A i \in 1 .. idx : a[i] = s[i]
    <2>1. /\ a \in Seq(ArrayValues) /\ Len(a) = idx - 1 + 1
          /\ \A i \in 1 .. idx - 1 + 1 : a[i] = s[1 + i - 1]
      BY <1>1, <1>2, Part
    <2>2. QED
      BY <2>1
  <1>6. c \in Seq(ArrayValues) /\ Len(c) = Len(s) - idx /\ \A i \in 1 .. Len(s) - idx : c[i] = s[idx + i]
    <2>1. /\ c \in Seq(ArrayValues) /\ Len(c) = Len(s) - (idx + 1) + 1
          /\ \A i \in 1 .. Len(s) - (idx + 1) + 1 : c[i] = s[(idx + 1) + i - 1]
      BY <1>1, <1>3, Part
    <2>2. Len(s) - (idx + 1) + 1 = Len(s) - idx /\ \A i \in Int : (idx + 1) + i - 1 = idx + i
      BY <1>1
    <2>3. QED
      BY <2>1, <2>2
  <1>7. /\ b \in Seq(ArrayValues) /\ Len(b) = idx + 1
        /\ \A i \in 1 .. idx + 1 : b[i] = IF i <= idx THEN a[i] ELSE <<v>>[i - idx]
    BY <1>4, <1>5, OneElement, ConcatProperties
  <1>8. b[idx + 1] = v /\ \A i \in 1 .. idx : b[i] = s[i]
    <2>1. idx + 1 \in 1 .. idx + 1 /\ ~(idx + 1 <= idx) /\ (idx + 1) - idx = 1
      OBVIOUS
    <2>2. b[idx + 1] = v
      BY <1>7, <2>1, OneElement
    <2>3. QED
      BY <1>5, <1>7, <2>2
  <1>9. t = b \o c
    BY <1>2, <1>3, <1>4
  <1>10. /\ t \in Seq(ArrayValues) /\ Len(t) = Len(s) + 1
         /\ \A i \in 1 .. Len(s) + 1 : t[i] = IF i <= idx + 1 THEN b[i] ELSE c[i - (idx + 1)]
    <2>1. /\ t \in Seq(ArrayValues) /\ Len(t) = Len(b) + Len(c)
          /\ \A i \in 1 .. Len(b) + Len(c) : t[i] = IF i <= Len(b) THEN b[i] ELSE c[i - Len(b)]
      <3>1. b \in Seq(ArrayValues) /\ c \in Seq(ArrayValues)
        BY <1>6, <1>7
      <3>2. Joins(ArrayValues, b, c, t)
        BY <1>9, <3>1, JoinedSeq
      <3>3. QED
        BY <3>2, Zenon DEF Joins
    <2>2. Len(b) + Len(c) = Len(s) + 1
      BY <1>1, <1>6, <1>7
    <2>3. QED
      BY <1>7, <2>1, <2>2
  <1>11. Len(t) = Len(s) + 1 /\ t[idx + 1] = v /\ \A i \in 1 .. idx : t[i] = s[i]
    <2>1. \A i \in 1 .. idx + 1 : i \in 1 .. Len(s) + 1 /\ i <= idx + 1
      BY <1>1
    <2>2. \A i \in 1 .. idx + 1 : t[i] = b[i]
      BY <1>10, <2>1
    <2>3. t[idx + 1] = v
      <3>1. idx + 1 \in 1 .. idx + 1
        OBVIOUS
      <3>2. QED
        BY <1>8, <2>2, <3>1
    <2>4. \A i \in 1 .. idx : t[i] = s[i]
      <3>1. \A i \in 1 .. idx : i \in 1 .. idx + 1
        OBVIOUS
      <3>2. QED
        BY <1>8, <2>2, <3>1
    <2>5. QED
      BY <1>10, <2>3, <2>4
  <1>12. ASSUME NEW i \in idx + 2 .. Len(s) + 1 PROVE t[i] = s[i - 1]
    <2>1. /\ i \in 1 .. Len(s) + 1 /\ ~(i <= idx + 1)
          /\ i - (idx + 1) \in 1 .. Len(s) - idx /\ idx + (i - (idx + 1)) = i - 1
      BY <1>1
    <2>2. t[i] = c[i - (idx + 1)]
      BY <1>10, <2>1
    <2>3. c[i - (idx + 1)] = s[idx + (i - (idx + 1))]
      BY <1>6, <2>1
    <2>4. QED
      BY <2>1, <2>2, <2>3
  <1>13. QED
    BY <1>10, <1>11, <1>12 DEF InsertedAt

LEMMA Removed ==
  ASSUME NEW s \in Seq(ArrayValues), NEW idx \in Nat, idx < Len(s),
         NEW t, t = SubSeq(s, 1, idx) \o SubSeq(s, idx + 2, Len(s))
  PROVE  /\ t \in Seq(ArrayValues) /\ Len(t) = Len(s) - 1
         /\ \A i \in 1 .. Len(s) - 1 : t[i] = IF i <= idx THEN s[i] ELSE s[i + 1]
  <1>1. Len(s) \in Nat
    BY ElementsAre
  <1>2. PICK a : a = SubSeq(s, 1, idx)
    OBVIOUS
  <1>3. PICK c : c = SubSeq(s, idx + 2, Len(s))
    OBVIOUS
  <1>4. a \in Seq(ArrayValues) /\ Len(a) = idx /\ \A i \in 1 .. idx : a[i] = s[i]
    <2>1. /\ a \in Seq(ArrayValues) /\ Len(a) = idx - 1 + 1
          /\ \A i \in 1 .. idx - 1 + 1 : a[i] = s[1 + i - 1]
      BY <1>1, <1>2, Part
    <2>2. QED
      BY <2>1
  <1>5. c \in Seq(ArrayValues) /\ Len(c) = Len(s) - idx - 1 /\ \A i \in 1 .. Len(s) - idx - 1 : c[i] = s[idx + 1 + i]
    <2>1. /\ c \in Seq(ArrayValues) /\ Len(c) = Len(s) - (idx + 2) + 1
          /\ \A i \in 1 .. Len(s) - (idx + 2) + 1 : c[i] = s[(idx + 2) + i - 1]
      BY <1>1, <1>3, Part
    <2>2. Len(s) - (idx + 2) + 1 = Len(s) - idx - 1 /\ \A i \in Int : (idx + 2) + i - 1 = idx + 1 + i
      BY <1>1
    <2>3. QED
      BY <2>1, <2>2
  <1>6. t = a \o c
    BY <1>2, <1>3
  <1>7. /\ t \in Seq(ArrayValues) /\ Len(t) = Len(s) - 1
        /\ \A i \in 1 .. Len(s) - 1 : t[i] = IF i <= idx THEN a[i] ELSE c[i - idx]
    <2>1. /\ t \in Seq(ArrayValues) /\ Len(t) = Len(a) + Len(c)
          /\ \A i \in 1 .. Len(a) + Len(c) : t[i] = IF i <= Len(a) THEN a[i] ELSE c[i - Len(a)]
      <3>1. a \in Seq(ArrayValues) /\ c \in Seq(ArrayValues)
        BY <1>4, <1>5
      <3>2. Joins(ArrayValues, a, c, t)
        BY <1>6, <3>1, JoinedSeq
      <3>3. QED
        BY <3>2, Zenon DEF Joins
    <2>2. Len(a) + Len(c) = Len(s) - 1
      BY <1>1, <1>4, <1>5
    <2>3. QED
      BY <1>4, <2>1, <2>2
  <1>8. ASSUME NEW i \in 1 .. Len(s) - 1 PROVE t[i] = IF i <= idx THEN s[i] ELSE s[i + 1]
    <2>1. t[i] = IF i <= idx THEN a[i] ELSE c[i - idx]
      BY <1>1, <1>7
    <2>2. CASE i <= idx
      <3>1. i \in 1 .. idx
        BY <2>2
      <3>2. a[i] = s[i]
        BY <1>4, <3>1
      <3>3. QED
        BY <2>1, <2>2, <3>2
    <2>3. CASE ~(i <= idx)
      <3>1. i - idx \in 1 .. Len(s) - idx - 1 /\ idx + 1 + (i - idx) = i + 1
        BY <1>1, <2>3
      <3>2. c[i - idx] = s[idx + 1 + (i - idx)]
        BY <1>5, <3>1
      <3>3. QED
        BY <2>1, <2>3, <3>1, <3>2
    <2>4. QED
      BY <2>2, <2>3
  <1>9. QED
    BY <1>1, <1>7, <1>8

-----------------------------------------------------------------------------
(* The calls. *)

(* A call that the class gets right. *)
LEMMA Supported ==
  ASSUME Types(block', used', held'), unsupported' \in BOOLEAN, Right(block', used', held')
  PROVE  ArrayInv'
  BY DEF ArrayInv

(* A call that it gets wrong. *)
LEMMA Unsupported ==
  ASSUME unsupported' = TRUE
  PROVE  ArrayInv'
  BY DEF ArrayInv

LEMMA CallFacts ==
  ASSUME ArrayInv, ArrayCall
  PROVE  /\ unsupported = FALSE
         /\ IsBlock(block) /\ ~block.over /\ block.cells \in Seq(Cell)
         /\ used \in Nat /\ cap \in Nat /\ used <= cap /\ used = Len(held)
         /\ DOMAIN block.cells = 1 .. cap
         /\ \A i \in 1 .. cap : block.cells[i] \in Cell
         /\ \A i \in 1 .. used : block.cells[i] = held[i]
         /\ held \in Seq(ArrayValues)
  <1>1. unsupported = FALSE /\ Right(block, used, held) /\ Types(block, used, held)
    BY DEF ArrayInv, ArrayCall
  <1>2. IsBlock(block) /\ ~block.over /\ used \in Nat /\ held \in Seq(ArrayValues)
        /\ Shows(block.cells, used, held)
    BY <1>1 DEF Right, Types
  <1>3. QED
    BY <1>1, <1>2, CellsAre DEF Shows, cap, IsBlock

LEMMA ReserveStep ==
  ASSUME ArrayInv, NEW reserve \in Nat, Reserve(reserve)
  PROVE  ArrayInv'
  <1>1. /\ ArrayCall /\ reserve > cap /\ block' = Intact(Resize(block.cells, reserve, 0))
        /\ used' = used /\ held' = held /\ unsupported' \in BOOLEAN
    BY DEF Reserve, Unconstructed
  <1>2. /\ unsupported = FALSE /\ IsBlock(block)
        /\ used \in Nat /\ cap \in Nat /\ used <= cap /\ used = Len(held)
        /\ \A i \in 1 .. used : block.cells[i] = held[i]
        /\ held \in Seq(ArrayValues)
    BY <1>1, CallFacts
  <1>3. /\ IsBlock(block') /\ ~block'.over /\ Len(block'.cells) = reserve
        /\ \A i \in 1 .. cap : i + 0 <= reserve => block'.cells[i + 0] = block.cells[i]
    <2>1. cap = Len(block.cells)
      BY DEF cap
    <2>2. reserve = IF reserve = 0 THEN 2 * Len(block.cells) ELSE reserve
      BY <1>1, <1>2
    <2>3. Extends(block, block', reserve, 0)
      BY <1>1, <1>2, <2>2, Resized
    <2>4. QED
      BY <2>1, <2>3 DEF Extends
  <1>4. ASSUME NEW i \in 1 .. used PROVE block'.cells[i] = held[i]
    <2>1. i \in 1 .. cap /\ i + 0 = i /\ i + 0 <= reserve
      BY <1>1, <1>2
    <2>2. QED
      BY <1>2, <1>3, <2>1
  <1>5. Shows(block'.cells, used', held')
    BY <1>1, <1>2, <1>3, <1>4 DEF Shows
  <1>6. QED
    BY <1>1, <1>2, <1>3, <1>5, Supported DEF Types, Right

LEMMA PushStep ==
  ASSUME ArrayInv, NEW v \in ArrayValues, ArrayPush(v)
  PROVE  ArrayInv'
  <1>1. /\ ArrayCall /\ block' = Put(ShiftOrResize, 1, v) /\ used' = used + 1 /\ held' = <<v>> \o held
        /\ unsupported' \in BOOLEAN
        /\ (cap = 0 \/ (0 < used /\ used < cap)) => unsupported' = TRUE
    BY DEF ArrayPush, Unconstructed
  <1>2. /\ unsupported = FALSE /\ IsBlock(block) /\ ~block.over
        /\ used \in Nat /\ cap \in Nat /\ used <= cap /\ used = Len(held)
        /\ DOMAIN block.cells = 1 .. cap
        /\ \A i \in 1 .. cap : block.cells[i] \in Cell
        /\ \A i \in 1 .. used : block.cells[i] = held[i]
        /\ held \in Seq(ArrayValues)
    BY <1>1, CallFacts
  <1>3. /\ held' \in Seq(ArrayValues) /\ Len(held') = used + 1 /\ held'[1] = v
        /\ \A i \in 1 .. used : held'[i + 1] = held[i]
    BY <1>1, <1>2, Prefixed
  <1>4. v \in Cell /\ used' \in Nat
    BY <1>1, <1>2 DEF Cell
  <1>5. cap = Len(block.cells)
    BY DEF cap
  <1>6. CASE cap = 0
    BY <1>1, <1>6, Unsupported
  <1>7. CASE cap > 0 /\ used = 0
    <2>1. ShiftOrResize = block /\ 1 \in 1 .. Len(block.cells)
      BY <1>2, <1>5, <1>7 DEF ShiftOrResize
    <2>2. IsBlock(block') /\ ~block'.over /\ Len(block'.cells) = cap /\ block'.cells[1] = v
      BY <1>1, <1>2, <1>4, <1>5, <2>1, PutInside, SMTT(30)
    <2>3. Shows(block'.cells, used', held')
      BY <1>1, <1>2, <1>3, <1>7, <2>2 DEF Shows
    <2>4. QED
      BY <1>1, <1>3, <1>4, <2>2, <2>3, Supported DEF Types, Right
  <1>8. CASE used > 0 /\ used = cap
    <2>1. PICK n : n = IF cap + 1 < 2 * cap THEN 2 * cap ELSE cap + 1
      OBVIOUS
    <2>2. n \in Nat /\ n >= cap + 1 /\ n # 0
      BY <1>2, <2>1
    <2>3. PICK b : b = Intact(Resize(block.cells, n, 1))
      OBVIOUS
    <2>4. ShiftOrResize = b
      BY <1>2, <1>8, <2>1, <2>3 DEF ShiftOrResize
    <2>5. /\ IsBlock(b) /\ ~b.over /\ Len(b.cells) = n
          /\ \A i \in 1 .. cap : i + 1 <= n => b.cells[i + 1] = block.cells[i]
      <3>1. n = IF n = 0 THEN 2 * Len(block.cells) ELSE n
        BY <2>2
      <3>2. Extends(block, b, n, 1)
        BY <1>2, <2>2, <2>3, <3>1, Resized
      <3>3. QED
        BY <1>5, <3>2 DEF Extends
    <2>6. 1 \in 1 .. Len(b.cells)
      BY <1>2, <2>2, <2>5
    <2>7. /\ IsBlock(block') /\ ~block'.over /\ Len(block'.cells) = n /\ block'.cells[1] = v
          /\ \A j \in 1 .. n : j # 1 => block'.cells[j] = b.cells[j]
      BY <1>1, <1>4, <2>4, <2>5, <2>6, PutInside
    <2>8. ASSUME NEW i \in 1 .. used + 1 PROVE block'.cells[i] = held'[i]
      <3>1. CASE i = 1
        BY <1>3, <2>7, <3>1
      <3>2. CASE i # 1
        <4>1. PICK k \in 1 .. used : i = k + 1
          <5>1. i - 1 \in 1 .. used /\ i = (i - 1) + 1
            BY <1>2, <3>2
          <5>2. QED
            BY <5>1
        <4>2. k \in 1 .. cap /\ k + 1 <= n /\ k + 1 \in 1 .. n
          BY <1>2, <1>8, <2>2, <4>1
        <4>3. QED
          BY <1>2, <1>3, <2>5, <2>7, <3>2, <4>1, <4>2
      <3>3. QED
        BY <3>1, <3>2
    <2>9. Shows(block'.cells, used', held')
      BY <1>1, <1>2, <1>3, <1>8, <2>2, <2>7, <2>8 DEF Shows
    <2>10. QED
      BY <1>1, <1>3, <1>4, <2>7, <2>9, Supported DEF Types, Right
  <1>9. CASE 0 < used /\ used < cap
    BY <1>1, <1>9, Unsupported
  <1>10. QED
    BY <1>2, <1>6, <1>7, <1>8, <1>9

(* A full block that has cells doubles; one without cells stays one. *)
LEMMA GrownFacts ==
  ASSUME ArrayInv, ArrayCall, NEW b, b = Grown
  PROVE  /\ IsBlock(b) /\ ~b.over
         /\ cap > 0 => used + 1 <= Len(b.cells)
         /\ cap = 0 => Len(b.cells) = 0
         /\ \A i \in 1 .. used : b.cells[i] = held[i]
  <1>1. /\ IsBlock(block) /\ ~block.over
        /\ used \in Nat /\ cap \in Nat /\ used <= cap
        /\ \A i \in 1 .. used : block.cells[i] = held[i]
    BY CallFacts
  <1>2. cap = Len(block.cells)
    BY DEF cap
  <1>3. CASE used = cap
    <2>1. PICK n : n = 2 * cap
      OBVIOUS
    <2>2. b = Intact(Resize(block.cells, 0, 0))
      BY <1>3 DEF Grown
    <2>3. n = IF 0 = 0 THEN 2 * Len(block.cells) ELSE 0
      BY <1>2, <2>1
    <2>4. Extends(block, b, n, 0)
      BY <1>1, <2>2, <2>3, Resized
    <2>5. /\ IsBlock(b) /\ ~b.over /\ Len(b.cells) = n
          /\ \A i \in 1 .. cap : i + 0 <= n => b.cells[i + 0] = block.cells[i]
      BY <1>2, <2>4 DEF Extends
    <2>6. ASSUME NEW i \in 1 .. used PROVE b.cells[i] = held[i]
      <3>1. i \in 1 .. cap /\ i + 0 = i /\ i + 0 <= n
        BY <1>1, <1>3, <2>1
      <3>2. QED
        BY <1>1, <2>5, <3>1
    <2>7. QED
      BY <1>1, <1>3, <2>1, <2>5, <2>6
  <1>4. CASE used # cap
    <2>1. b = block
      BY <1>4 DEF Grown
    <2>2. QED
      BY <1>1, <1>2, <1>4, <2>1
  <1>5. QED
    BY <1>3, <1>4

LEMMA EnqueueStep ==
  ASSUME ArrayInv, NEW v \in ArrayValues, ArrayEnqueue(v)
  PROVE  ArrayInv'
  <1>1. /\ ArrayCall /\ block' = Put(Grown, used + 1, v) /\ used' = used + 1 /\ held' = Append(held, v)
        /\ unsupported' \in BOOLEAN
        /\ cap = 0 => unsupported' = TRUE
    BY DEF ArrayEnqueue, Unconstructed
  <1>2. /\ used \in Nat /\ cap \in Nat /\ used <= cap /\ used = Len(held)
        /\ held \in Seq(ArrayValues)
    BY <1>1, CallFacts
  <1>3. PICK b : b = Grown
    OBVIOUS
  <1>4. /\ IsBlock(b) /\ ~b.over
        /\ cap > 0 => used + 1 <= Len(b.cells)
        /\ cap = 0 => Len(b.cells) = 0
        /\ \A i \in 1 .. used : b.cells[i] = held[i]
    BY <1>1, <1>3, GrownFacts
  <1>5. Len(b.cells) \in Nat
    BY <1>4, CellsAre
  <1>6. /\ held' \in Seq(ArrayValues) /\ Len(held') = used + 1 /\ held'[used + 1] = v
        /\ \A i \in 1 .. used : held'[i] = held[i]
    BY <1>1, <1>2, AppendProperties
  <1>7. v \in Cell /\ used' \in Nat
    BY <1>1, <1>2 DEF Cell
  <1>8. CASE cap = 0
    BY <1>1, <1>8, Unsupported
  <1>9. CASE cap > 0
    <2>1. used + 1 \in 1 .. Len(b.cells)
      BY <1>2, <1>4, <1>5, <1>9
    <2>2. /\ IsBlock(block') /\ ~block'.over /\ Len(block'.cells) = Len(b.cells)
          /\ block'.cells[used + 1] = v
          /\ \A j \in 1 .. Len(b.cells) : j # used + 1 => block'.cells[j] = b.cells[j]
      BY <1>1, <1>3, <1>4, <1>7, <2>1, PutInside
    <2>3. ASSUME NEW i \in 1 .. used + 1 PROVE block'.cells[i] = held'[i]
      <3>1. CASE i = used + 1
        BY <1>6, <2>2, <3>1
      <3>2. CASE i # used + 1
        <4>1. i \in 1 .. used /\ i \in 1 .. Len(b.cells)
          BY <1>2, <1>5, <2>1, <3>2
        <4>2. QED
          BY <1>4, <1>6, <2>2, <3>2, <4>1
      <3>3. QED
        BY <3>1, <3>2
    <2>4. Shows(block'.cells, used', held')
      BY <1>1, <1>2, <1>5, <1>6, <2>1, <2>2, <2>3 DEF Shows
    <2>5. QED
      BY <1>1, <1>6, <1>7, <2>2, <2>4, Supported DEF Types, Right
  <1>10. QED
    BY <1>2, <1>8, <1>9

LEMMA InsertStep ==
  ASSUME ArrayInv, NEW v \in ArrayValues, NEW idx \in Nat, ArrayInsert(v, idx)
  PROVE  ArrayInv'
  <1>1. /\ ArrayCall /\ 0 < idx /\ idx < used /\ used' = used + 1 /\ unsupported' = unsupported
        /\ held' = SubSeq(held, 1, idx) \o <<v>> \o SubSeq(held, idx + 1, Len(held))
    BY DEF ArrayInsert
  <1>2. /\ unsupported = FALSE
        /\ used \in Nat /\ cap \in Nat /\ used <= cap /\ used = Len(held)
        /\ held \in Seq(ArrayValues)
    BY <1>1, CallFacts
  <1>3. PICK b : b = Grown
    OBVIOUS
  <1>4. PICK old : old = b.cells
    OBVIOUS
  <1>5. PICK n : n = Len(old)
    OBVIOUS
  <1>6. IsBlock(b) /\ used + 1 <= n /\ \A i \in 1 .. used : old[i] = held[i]
    BY <1>1, <1>2, <1>3, <1>4, <1>5, GrownFacts
  <1>7. n \in Nat /\ DOMAIN old = 1 .. n /\ \A i \in 1 .. n : old[i] \in Cell
    BY <1>4, <1>5, <1>6, CellsAre
  <1>8. PICK f : f = [i \in 1 .. n |-> IF i = idx + 1 THEN v
                                       ELSE IF idx + 1 < i /\ i <= used + 1 THEN old[i - 1]
                                       ELSE old[i]]
    OBVIOUS
  <1>9. block' = Intact(f)
    BY <1>3, <1>4, <1>7, <1>8 DEF ArrayInsert
  <1>10. f \in [1 .. n -> Cell]
    <2>1. \A i \in 1 .. n : idx + 1 < i => i - 1 \in 1 .. n
      BY <1>7
    <2>2. v \in Cell
      BY DEF Cell
    <2>3. QED
      BY <1>7, <1>8, <2>1, <2>2
  <1>11. IsBlock(block') /\ ~block'.over /\ block'.cells = f /\ Len(block'.cells) = n
    BY <1>7, <1>9, <1>10, IntactIsBlock
  <1>12. /\ held' \in Seq(ArrayValues) /\ Len(held') = used + 1 /\ held'[idx + 1] = v
         /\ \A i \in 1 .. idx : held'[i] = held[i]
         /\ \A i \in idx + 2 .. used + 1 : held'[i] = held[i - 1]
    <2>1. idx < Len(held)
      BY <1>1, <1>2
    <2>2. InsertedAt(held, held', idx, v)
      BY <1>1, <1>2, <2>1, Inserted
    <2>3. QED
      BY <1>2, <2>2 DEF InsertedAt
  <1>13. ASSUME NEW i \in 1 .. used + 1 PROVE f[i] = held'[i]
    <2>1. i \in 1 .. n /\ i \in Int /\ i <= used + 1
      BY <1>2, <1>6, <1>7
    <2>2. CASE i <= idx
      <3>1. f[i] = old[i]
        BY <1>8, <2>1, <2>2
      <3>2. i \in 1 .. idx /\ i \in 1 .. used
        BY <1>1, <1>2, <2>2
      <3>3. QED
        BY <1>6, <1>12, <3>1, <3>2
    <2>3. CASE i = idx + 1
      BY <1>8, <1>12, <2>1, <2>3
    <2>4. CASE i > idx + 1
      <3>1. f[i] = old[i - 1]
        BY <1>8, <2>1, <2>4
      <3>2. i \in idx + 2 .. used + 1 /\ i - 1 \in 1 .. used
        BY <1>1, <1>2, <2>1, <2>4
      <3>3. QED
        BY <1>6, <1>12, <3>1, <3>2
    <2>5. QED
      BY <2>1, <2>2, <2>3, <2>4
  <1>14. Shows(block'.cells, used', held')
    BY <1>1, <1>6, <1>11, <1>12, <1>13 DEF Shows
  <1>15. used' \in Nat /\ unsupported' = FALSE
    BY <1>1, <1>2
  <1>16. QED
    BY <1>11, <1>12, <1>14, <1>15, Supported DEF Types, Right

LEMMA PopStep ==
  ASSUME ArrayInv, ArrayPop
  PROVE  ArrayInv'
  <1>1. /\ ArrayCall /\ used > 0 /\ block' = Intact(MoveLeft(block.cells, 1)) /\ used' = used - 1
        /\ held' = Tail(held) /\ unsupported' = unsupported
    BY DEF ArrayPop
  <1>2. /\ unsupported = FALSE
        /\ used \in Nat /\ cap \in Nat /\ used <= cap /\ used = Len(held)
        /\ DOMAIN block.cells = 1 .. cap
        /\ \A i \in 1 .. cap : block.cells[i] \in Cell
        /\ \A i \in 1 .. used : block.cells[i] = held[i]
        /\ held \in Seq(ArrayValues)
    BY <1>1, CallFacts
  <1>3. PICK f : f = [i \in 1 .. cap |-> IF i + 1 \in 1 .. cap THEN block.cells[i + 1] ELSE block.cells[i]]
    OBVIOUS
  <1>4. MoveLeft(block.cells, 1) = f
    BY <1>2, <1>3 DEF MoveLeft
  <1>5. f \in [1 .. cap -> Cell]
    BY <1>2, <1>3
  <1>6. IsBlock(block') /\ ~block'.over /\ block'.cells = f /\ Len(block'.cells) = cap
    BY <1>1, <1>2, <1>4, <1>5, IntactIsBlock
  <1>7. /\ held' \in Seq(ArrayValues) /\ Len(held') = used - 1
        /\ \A i \in 1 .. used - 1 : held'[i] = held[i + 1]
    <2>1. held # <<>>
      BY <1>1, <1>2
    <2>2. QED
      BY <1>1, <1>2, <2>1, HeadTailProperties
  <1>8. ASSUME NEW i \in 1 .. used - 1 PROVE f[i] = held'[i]
    <2>1. i \in 1 .. cap /\ i + 1 \in 1 .. cap /\ i + 1 \in 1 .. used
      BY <1>2
    <2>2. QED
      BY <1>2, <1>3, <1>7, <2>1
  <1>9. used' \in Nat /\ Shows(block'.cells, used', held')
    BY <1>1, <1>2, <1>6, <1>7, <1>8 DEF Shows
  <1>10. QED
    BY <1>1, <1>2, <1>6, <1>7, <1>9, Supported DEF Types, Right

LEMMA PopBackStep ==
  ASSUME ArrayInv, ArrayPopBack
  PROVE  ArrayInv'
  <1>1. /\ ArrayCall /\ used > 0 /\ block' = block /\ used' = used - 1
        /\ held' = SubSeq(held, 1, Len(held) - 1) /\ unsupported' = unsupported
    BY DEF ArrayPopBack
  <1>2. /\ unsupported = FALSE /\ IsBlock(block) /\ ~block.over
        /\ used \in Nat /\ cap \in Nat /\ used <= cap /\ used = Len(held)
        /\ \A i \in 1 .. used : block.cells[i] = held[i]
        /\ held \in Seq(ArrayValues)
    BY <1>1, CallFacts
  <1>3. PICK n \in 0 .. Len(held) : n = used - 1
    BY <1>1, <1>2
  <1>4. held' = SubSeq(held, 1, n) /\ 1 <= n + 1 /\ 1 \in Nat \ {0}
    BY <1>1, <1>2, <1>3
  <1>5. /\ held' \in Seq(ArrayValues) /\ Len(held') = n - 1 + 1
        /\ \A i \in 1 .. n - 1 + 1 : held'[i] = held[1 + i - 1]
    BY <1>2, <1>4, Part
  <1>6. Len(held') = n /\ \A i \in 1 .. n : held'[i] = held[i]
    BY <1>5
  <1>7. \A i \in 1 .. n : i \in 1 .. used
    BY <1>2, <1>3
  <1>8. used' = n /\ n \in Nat /\ n <= cap
    BY <1>1, <1>2, <1>3
  <1>9. Shows(block'.cells, used', held')
    BY <1>1, <1>2, <1>6, <1>7, <1>8 DEF Shows, cap
  <1>10. QED
    BY <1>1, <1>2, <1>5, <1>8, <1>9, Supported DEF Types, Right

LEMMA RemoveAtStep ==
  ASSUME ArrayInv, NEW idx \in Nat, ArrayRemoveAt(idx)
  PROVE  ArrayInv'
  <1>1. /\ ArrayCall /\ idx < used /\ used' = used - 1
        /\ block' = Intact([i \in DOMAIN block.cells |->
                              IF idx < i /\ i < used THEN block.cells[i + 1] ELSE block.cells[i]])
        /\ held' = SubSeq(held, 1, idx) \o SubSeq(held, idx + 2, Len(held))
        /\ unsupported' = unsupported
    BY DEF ArrayRemoveAt
  <1>2. /\ unsupported = FALSE
        /\ used \in Nat /\ cap \in Nat /\ used <= cap /\ used = Len(held)
        /\ DOMAIN block.cells = 1 .. cap
        /\ \A i \in 1 .. cap : block.cells[i] \in Cell
        /\ \A i \in 1 .. used : block.cells[i] = held[i]
        /\ held \in Seq(ArrayValues)
    BY <1>1, CallFacts
  <1>3. PICK f : f = [i \in 1 .. cap |-> IF idx < i /\ i < used THEN block.cells[i + 1] ELSE block.cells[i]]
    OBVIOUS
  <1>4. block' = Intact(f)
    BY <1>1, <1>2, <1>3
  <1>5. f \in [1 .. cap -> Cell]
    <2>1. \A i \in 1 .. cap : i < used => i + 1 \in 1 .. cap
      BY <1>2
    <2>2. QED
      BY <1>2, <1>3, <2>1
  <1>6. IsBlock(block') /\ ~block'.over /\ block'.cells = f /\ Len(block'.cells) = cap
    BY <1>2, <1>4, <1>5, IntactIsBlock
  <1>7. /\ held' \in Seq(ArrayValues) /\ Len(held') = used - 1
        /\ \A i \in 1 .. used - 1 : held'[i] = IF i <= idx THEN held[i] ELSE held[i + 1]
    BY <1>1, <1>2, Removed, ZenonT(40)
  <1>8. ASSUME NEW i \in 1 .. used - 1 PROVE f[i] = held'[i]
    <2>1. i \in 1 .. cap /\ i \in 1 .. used /\ i + 1 \in 1 .. used /\ i < used /\ (idx < i <=> ~(i <= idx))
      BY <1>2
    <2>2. CASE idx < i
      <3>1. f[i] = block.cells[i + 1]
        BY <1>3, <2>1, <2>2
      <3>2. QED
        BY <1>2, <1>7, <2>1, <2>2, <3>1
    <2>3. CASE ~(idx < i)
      <3>1. f[i] = block.cells[i]
        BY <1>3, <2>1, <2>3
      <3>2. QED
        BY <1>2, <1>7, <2>1, <2>3, <3>1
    <2>4. QED
      BY <2>2, <2>3
  <1>9. used' \in Nat /\ Shows(block'.cells, used', held')
    <2>1. used' \in Nat /\ used' <= cap
      BY <1>1, <1>2
    <2>2. QED
      BY <1>1, <1>6, <1>7, <1>8, <2>1 DEF Shows
  <1>10. QED
    BY <1>1, <1>2, <1>6, <1>7, <1>9, Supported DEF Types, Right

LEMMA EmptyStep ==
  ASSUME ArrayInv, ArrayCall, NEW n \in Nat, NEW f \in [1 .. n -> Cell], block' = Intact(f), used' = 0, held' = <<>>,
         UNCHANGED unsupported
  PROVE  ArrayInv'
  <1>1. IsBlock(block') /\ ~block'.over /\ Len(block'.cells) = n
    BY IntactIsBlock
  <1>2. held' \in Seq(ArrayValues) /\ Len(held') = 0
    BY EmptySeq
  <1>3. Shows(block'.cells, used', held')
    BY <1>1, <1>2 DEF Shows
  <1>4. unsupported' = FALSE
    BY CallFacts
  <1>5. QED
    BY <1>1, <1>2, <1>3, <1>4, Supported DEF Types, Right

LEMMA MoveAssignStep ==
  ASSUME ArrayInv, NEW v \in ArrayValues, ArrayMoveAssign(v)
  PROVE  ArrayInv'
  <1>1. /\ ArrayCall /\ held' = <<v>> /\ unsupported' = (held # <<v>>) /\ block' = block /\ used' = used
    BY DEF ArrayMoveAssign
  <1>2. /\ IsBlock(block) /\ ~block.over
        /\ used \in Nat /\ used = Len(held)
        /\ \A i \in 1 .. used : block.cells[i] = held[i]
        /\ held \in Seq(ArrayValues)
    BY <1>1, CallFacts
  <1>3. Right(block, used, held)
    BY <1>1 DEF ArrayInv, ArrayCall
  <1>4. held' \in Seq(ArrayValues) /\ Types(block', used', held')
    BY <1>1, <1>2, OneElement DEF Types
  <1>5. CASE held = <<v>>
    <2>1. unsupported' = FALSE
      BY <1>1, <1>5, Zenon
    <2>2. Right(block', used', held')
      BY <1>1, <1>3, <1>5
    <2>3. QED
      BY <1>4, <2>1, <2>2, Supported
  <1>6. CASE held # <<v>>
    BY <1>1, <1>6, Unsupported
  <1>7. QED
    BY <1>5, <1>6

-----------------------------------------------------------------------------
(* The invariant, and what it says. *)

LEMMA ArrayInitInv ==
  ASSUME ArrayInit
  PROVE  ArrayInv
  <1>1. KDefaultSize \in Nat
    BY DynamicArrayAssumption
  <1>2. ASSUME NEW reserve \in 0 .. KDefaultSize, block = Intact(NewBlock(reserve)), used = 0, held = <<>>
        PROVE  Types(block, used, held) /\ Right(block, used, held)
    <2>1. reserve \in Nat /\ NewBlock(reserve) \in [1 .. reserve -> Cell]
      BY <1>1 DEF NewBlock, Cell
    <2>2. IsBlock(block) /\ ~block.over /\ Len(block.cells) = reserve
      BY <1>2, <2>1, IntactIsBlock
    <2>3. held \in Seq(ArrayValues) /\ Len(held) = 0
      BY <1>2, EmptySeq
    <2>4. QED
      BY <1>2, <2>1, <2>2, <2>3 DEF Types, Right, Shows
  <1>3. ASSUME NEW v \in ArrayValues, block = Intact(<<v>>), used = 1, held = <<v>>
        PROVE  Types(block, used, held) /\ Right(block, used, held)
    <2>1. <<v>> \in [1 .. 1 -> Cell]
      BY DEF Cell
    <2>2. IsBlock(block) /\ ~block.over /\ block.cells = <<v>> /\ Len(block.cells) = 1
      BY <1>3, <2>1, IntactIsBlock
    <2>3. held \in Seq(ArrayValues) /\ Len(held) = 1
      BY <1>3, OneElement
    <2>4. QED
      BY <1>3, <2>2, <2>3 DEF Types, Right, Shows
  <1>4. Types(block, used, held) /\ Right(block, used, held) /\ unsupported = FALSE
    BY <1>2, <1>3 DEF ArrayInit
  <1>5. QED
    BY <1>4 DEF ArrayInv

LEMMA ArrayNextInv ==
  ASSUME ArrayInv, [ArrayNext]_arrayVars
  PROVE  ArrayInv'
  <1>1. KDefaultSize \in Nat /\ MaxElements \in Nat
    BY DynamicArrayAssumption, ArrayListAssumption
  <1>2. ASSUME NEW v \in ArrayValues, ArrayPush(v) PROVE ArrayInv'
    BY <1>2, PushStep
  <1>3. ASSUME NEW v \in ArrayValues, ArrayEnqueue(v) PROVE ArrayInv'
    BY <1>3, EnqueueStep
  <1>4. ASSUME NEW v \in ArrayValues, ArrayRemove(v) PROVE ArrayInv'
    <2>1. PICK idx \in 0 .. used - 1 : ArrayRemoveAt(idx)
      BY <1>4 DEF ArrayRemove
    <2>2. used \in Nat
      BY <1>4 DEF ArrayInv, Types, ArrayRemove, ArrayCall
    <2>3. idx \in Nat
      BY <2>2
    <2>4. QED
      BY <2>1, <2>3, RemoveAtStep
  <1>5. ASSUME NEW v \in ArrayValues, ArrayMoveAssign(v) PROVE ArrayInv'
    BY <1>5, MoveAssignStep
  <1>6. ASSUME NEW v \in ArrayValues, NEW idx \in 0 .. MaxElements, ArrayInsert(v, idx) PROVE ArrayInv'
    <2>1. idx \in Nat
      BY <1>1
    <2>2. QED
      BY <1>6, <2>1, InsertStep
  <1>7. ASSUME NEW idx \in 0 .. MaxElements, ArrayRemoveAt(idx) PROVE ArrayInv'
    <2>1. idx \in Nat
      BY <1>1
    <2>2. QED
      BY <1>7, <2>1, RemoveAtStep
  <1>8. ASSUME NEW reserve \in 1 .. MaxElements + 1, Reserve(reserve) PROVE ArrayInv'
    <2>1. reserve \in Nat
      BY <1>1
    <2>2. QED
      BY <1>8, <2>1, ReserveStep
  <1>9. CASE ArrayPop
    BY <1>9, PopStep
  <1>10. CASE ArrayPopBack
    BY <1>10, PopBackStep
  <1>11. CASE ArrayClear
    <2>1. PICK cell \in {Blank, Raw} : block' = Intact([i \in 1 .. KDefaultSize |-> cell])
      BY <1>11 DEF ArrayClear
    <2>2. PICK f : f = [i \in 1 .. KDefaultSize |-> cell]
      OBVIOUS
    <2>3. f \in [1 .. KDefaultSize -> Cell]
      BY <2>1, <2>2 DEF Cell
    <2>4. ArrayCall /\ used' = 0 /\ held' = <<>> /\ UNCHANGED unsupported
      BY <1>11 DEF ArrayClear
    <2>5. QED
      BY <1>1, <2>1, <2>2, <2>3, <2>4, EmptyStep
  <1>12. CASE ArrayMovedFrom
    <2>1. PICK f : f = <<>>
      OBVIOUS
    <2>2. f \in [1 .. 0 -> Cell] /\ 0 \in Nat
      BY <2>1
    <2>3. block' = Intact(f) /\ ArrayCall /\ used' = 0 /\ held' = <<>> /\ UNCHANGED unsupported
      BY <1>12, <2>1 DEF ArrayMovedFrom
    <2>4. QED
      BY <2>2, <2>3, EmptyStep
  <1>13. CASE UNCHANGED arrayVars
    BY <1>13 DEF arrayVars, ArrayInv
  <1>14. QED
    BY <1>2, <1>3, <1>4, <1>5, <1>6, <1>7, <1>8, <1>9, <1>10, <1>11, <1>12, <1>13 DEF ArrayNext

(* A list holds the elements it was given, in order and inside of its      *)
(* block, as long as none of these was called: push into a list with       *)
(* elements and room for more, push and enqueue on a list without a block, *)
(* push, enqueue and reserve on a list of which a cell holds no object,    *)
(* and a move assignment that would change something.  For any elements,   *)
(* lengths and default capacity.                                           *)
THEOREM ArrayListIsSequence == ArrayInit /\ [][ArrayNext]_arrayVars => []ArrayIsSequence
  <1>1. ArrayInit => ArrayInv
    BY ArrayInitInv
  <1>2. ArrayInv /\ [ArrayNext]_arrayVars => ArrayInv'
    BY ArrayNextInv
  <1>3. ArrayInv => ArrayIsSequence
    <2>1. SUFFICES ASSUME ArrayInv, ~unsupported PROVE ArrayHoldsElements
      BY DEF ArrayIsSequence
    <2>2. IsBlock(block) /\ used \in Nat /\ held \in Seq(ArrayValues) /\ cap \in Nat
          /\ \A i \in 1 .. cap : block.cells[i] \in Cell
      BY <2>1, CellsAre DEF ArrayInv, Types, cap
    <2>3. Len(held) \in Nat /\ held \in Seq(Cell)
      BY <2>2, ElementsAre, SeqMonotonic DEF Cell
    <2>4. /\ ~block.over /\ used = Len(held) /\ used <= cap
          /\ \A i \in 1 .. used : block.cells[i] = held[i]
      BY <2>1 DEF ArrayInv, Right, Shows, cap
    <2>5. PICK t : t = SubSeq(block.cells, 1, used)
      OBVIOUS
    <2>6. 1 \in Int /\ used \in Int /\ \A i \in 1 .. used : block.cells[i] \in Cell
      BY <2>2, <2>4
    <2>7. /\ t \in Seq(Cell) /\ Len(t) = IF 1 <= used THEN used - 1 + 1 ELSE 0
          /\ \A i \in 1 .. used - 1 + 1 : t[i] = block.cells[1 + i - 1]
      BY <2>5, <2>6, SubSeqProperties
    <2>8. Len(t) = used /\ \A i \in 1 .. used : t[i] = block.cells[i]
      BY <2>2, <2>7
    <2>9. t = held
      BY <2>3, <2>4, <2>7, <2>8, SeqEqual
    <2>10. QED
      BY <2>4, <2>5, <2>9 DEF ArrayHoldsElements
  <1>4. QED
    BY <1>1, <1>2, <1>3, PTL

-----------------------------------------------------------------------------
(* Strings: what the calls do to the characters in a block, and from it    *)
(* that each string holds its text for every sequence of calls.            *)

(* A set of numbers has a least one: the form in which the proofs below    *)
(* use induction.                                                          *)
LEMMA Least ==
  ASSUME NEW T \in SUBSET Nat, T # {}
  PROVE  \E n \in T : \A k \in T : n <= k
  <1>1. IsWellFoundedOn(OpToRel(<, Nat), Nat)
    BY NatLessThanWellFounded
  <1>2. PICK n \in T : \A k \in T : ~(<<k, n>> \in OpToRel(<, Nat))
    BY <1>1, WFMin
  <1>3. ASSUME NEW k \in T PROVE n <= k
    <2>1. k \in Nat /\ n \in Nat
      OBVIOUS
    <2>2. <<k, n>> \notin OpToRel(<, Nat)
      BY <1>2
    <2>3. ~(k < n)
      BY <2>1, <2>2 DEF OpToRel
    <2>4. QED
      BY <2>1, <2>3
  <1>4. QED
    BY <1>3


Glyphs == Chars \cup {Nul, Blank}

(* Doubling a capacity. *)
DoubledStep(c, g, k) == IF k = 0 THEN c ELSE 2 * g[k - 1]
IsDoubled(c, n, g) == g = [k \in 0 .. n |-> DoubledStep(c, g, k)]

LEMMA DoubledExists ==
  ASSUME NEW c, NEW n \in Nat
  PROVE  \E g : IsDoubled(c, n, g)
  <1> DEFINE Failing == {m \in Nat : ~\E g : IsDoubled(c, m, g)}
  <1>1. SUFFICES ASSUME Failing # {} PROVE FALSE
    OBVIOUS
  <1>2. PICK m \in Failing : \A l \in Failing : m <= l
    <2>1. Failing \in SUBSET Nat
      OBVIOUS
    <2>2. QED
      BY <1>1, <2>1, Least
  <1>3. CASE m = 0
    <2>1. PICK g : g = [i \in 0 .. 0 |-> c]
      OBVIOUS
    <2>2. \A i \in 0 .. 0 : DoubledStep(c, g, i) = c
      BY DEF DoubledStep
    <2>3. IsDoubled(c, 0, g)
      BY <2>1, <2>2 DEF IsDoubled
    <2>4. QED
      BY <1>2, <1>3, <2>3
  <1>4. CASE m # 0
    <2>1. PICK l : l = m - 1
      OBVIOUS
    <2>2. l \in Nat /\ m = l + 1 /\ l < m
      BY <1>4, <2>1
    <2>3. l \notin Failing
      BY <1>2, <2>2
    <2>4. PICK g : IsDoubled(c, l, g)
      BY <2>2, <2>3
    <2>5. PICK h : h = [i \in 0 .. l + 1 |-> IF i <= l THEN g[i] ELSE DoubledStep(c, g, i)]
      OBVIOUS
    <2>6. \A i \in 0 .. l : g[i] = DoubledStep(c, g, i)
      BY <2>4 DEF IsDoubled
    <2>7. ASSUME NEW i \in 0 .. l + 1 PROVE h[i] = DoubledStep(c, h, i)
      <3>1. CASE i = 0
        BY <2>2, <2>5, <2>6, <3>1 DEF DoubledStep
      <3>2. CASE i # 0
        <4>1. i - 1 \in 0 .. l + 1 /\ i - 1 <= l
          BY <2>2, <3>2
        <4>2. h[i - 1] = g[i - 1]
          BY <2>5, <4>1
        <4>3. DoubledStep(c, h, i) = DoubledStep(c, g, i)
          BY <4>2 DEF DoubledStep
        <4>4. h[i] = DoubledStep(c, g, i)
          BY <2>2, <2>5, <2>6
        <4>5. QED
          BY <4>3, <4>4
      <3>3. QED
        BY <3>1, <3>2
    <2>8. IsDoubled(c, l + 1, h)
      <3>1. h = [i \in 0 .. l + 1 |-> h[i]]
        BY <2>5
      <3>2. QED
        BY <2>7, <3>1 DEF IsDoubled
    <2>9. QED
      BY <1>2, <2>2, <2>8
  <1>5. QED
    BY <1>3, <1>4

LEMMA DoubledIs ==
  ASSUME NEW c
  PROVE  /\ Doubled(c, 0) = c
         /\ \A k \in 1 .. MaxText : Doubled(c, k) = 2 * Doubled(c, k - 1)
  <1>0. MaxText \in Nat
    BY BasicStringAssumption
  <1>1. PICK g : g = CHOOSE h : IsDoubled(c, MaxText, h)
    OBVIOUS
  <1>2. IsDoubled(c, MaxText, g)
    BY <1>0, <1>1, DoubledExists, Zenon
  <1>3. ASSUME NEW k PROVE Doubled(c, k) = (CHOOSE h : IsDoubled(c, MaxText, h))[k]
    BY Zenon DEF Doubled, IsDoubled, DoubledStep
  <1>4. \A k : Doubled(c, k) = g[k]
    BY <1>1, <1>3
  <1>5. \A i \in 0 .. MaxText : g[i] = DoubledStep(c, g, i)
    BY <1>2 DEF IsDoubled
  <1>6. g[0] = c
    BY <1>0, <1>5 DEF DoubledStep
  <1>7. ASSUME NEW k \in 1 .. MaxText PROVE g[k] = 2 * g[k - 1]
    BY <1>0, <1>5 DEF DoubledStep
  <1>8. QED
    BY <1>4, <1>6, <1>7

LEMMA DoubledNat ==
  ASSUME NEW c \in Nat, NEW n \in 0 .. MaxText
  PROVE  Doubled(c, n) \in Nat
  <1>0. MaxText \in Nat
    BY BasicStringAssumption
  <1> DEFINE Failing == {m \in 0 .. MaxText : Doubled(c, m) \notin Nat}
  <1>1. SUFFICES ASSUME Failing # {} PROVE FALSE
    OBVIOUS
  <1>2. PICK m \in Failing : \A l \in Failing : m <= l
    <2>1. Failing \in SUBSET Nat
      OBVIOUS
    <2>2. QED
      BY <1>1, <2>1, Least
  <1>3. m # 0
    BY DoubledIs
  <1>4. PICK l : l = m - 1
    OBVIOUS
  <1>5. l \in 0 .. MaxText /\ l < m /\ m \in 1 .. MaxText
    BY <1>0, <1>3, <1>4
  <1>6. Doubled(c, l) \in Nat
    BY <1>2, <1>5
  <1>7. Doubled(c, m) = 2 * Doubled(c, l)
    BY <1>4, <1>5, DoubledIs
  <1>8. QED
    BY <1>2, <1>6, <1>7

(* A capacity that is doubled more often is at least twice as large.       *)
LEMMA DoubledGrows ==
  ASSUME NEW c \in Nat, NEW n \in 0 .. MaxText, NEW m \in 0 .. MaxText, n < m
  PROVE  2 * Doubled(c, n) <= Doubled(c, m)
  <1>0. MaxText \in Nat
    BY BasicStringAssumption
  <1> DEFINE Failing == {k \in n + 1 .. MaxText : ~(2 * Doubled(c, n) <= Doubled(c, k))}
  <1>1. SUFFICES ASSUME Failing # {} PROVE FALSE
    <2>1. m \in n + 1 .. MaxText
      BY <1>0
    <2>2. QED
      BY <2>1
  <1>2. PICK k \in Failing : \A l \in Failing : k <= l
    <2>1. Failing \in SUBSET Nat
      BY <1>0
    <2>2. QED
      BY <1>1, <2>1, Least
  <1>3. PICK l : l = k - 1
    OBVIOUS
  <1>4. l \in 0 .. MaxText /\ l < k /\ k \in 1 .. MaxText /\ (l = n \/ l \in n + 1 .. MaxText)
    BY <1>0, <1>3
  <1>5. Doubled(c, k) = 2 * Doubled(c, l)
    BY <1>3, <1>4, DoubledIs
  <1>6. Doubled(c, l) \in Nat /\ Doubled(c, n) \in Nat
    BY <1>4, DoubledNat
  <1>7. l = n \/ 2 * Doubled(c, n) <= Doubled(c, l)
    BY <1>2, <1>4
  <1>8. QED
    BY <1>2, <1>5, <1>6, <1>7

-----------------------------------------------------------------------------
(* The blocks of strings. *)

IsCells(cells) == cells \in Seq(Glyphs) /\ Len(cells) \in Nat /\ cells = [i \in 1 .. Len(cells) |-> cells[i]]

LEMMA CellsMade ==
  ASSUME NEW n \in Nat, NEW f \in [1 .. n -> Glyphs]
  PROVE  IsCells(f) /\ Len(f) = n
  BY DEF IsCells

LEMMA CellsOfSeq ==
  ASSUME NEW s \in Seq(Glyphs)
  PROVE  IsCells(s)
  BY LenProperties DEF IsCells

LEMMA IntactIs ==
  ASSUME NEW cells, NEW b, b = Intact(cells)
  PROVE  b.cells = cells /\ b.over = FALSE /\ b = Intact(b.cells)
  BY DEF Intact

LEMMA StringPut ==
  ASSUME NEW cells, IsCells(cells), NEW i \in 1 .. Len(cells), NEW v \in Glyphs, NEW b, b = Put(Intact(cells), i, v)
  PROVE  /\ b = Intact(b.cells) /\ IsCells(b.cells) /\ Len(b.cells) = Len(cells) /\ b.cells[i] = v
         /\ \A j \in 1 .. Len(cells) : j # i => b.cells[j] = cells[j]
  <1>1. Len(cells) \in Nat /\ DOMAIN cells = 1 .. Len(cells) /\ cells \in Seq(Glyphs)
    BY LenProperties DEF IsCells
  <1>2. PICK a : a = Intact(cells)
    OBVIOUS
  <1>3. a.cells = cells /\ a.over = FALSE /\ a = [cells |-> cells, over |-> FALSE]
    BY <1>2 DEF Intact
  <1>4. PICK f : f = [cells EXCEPT ![i] = v]
    OBVIOUS
  <1>5. b = [a EXCEPT !.cells[i] = v]
    BY <1>1, <1>2, <1>3 DEF Put
  <1>6. b = [cells |-> f, over |-> FALSE]
    BY <1>3, <1>4, <1>5
  <1>7. f \in Seq(Glyphs) /\ Len(f) = Len(cells) /\ f[i] = v
        /\ \A j \in 1 .. Len(cells) : j # i => f[j] = cells[j]
    BY <1>1, <1>4, ExceptSeq
  <1>8. b.cells = f
    BY <1>6
  <1>9. b = Intact(b.cells)
    BY <1>6, <1>8 DEF Intact
  <1>10. QED
    BY <1>7, <1>8, <1>9, CellsOfSeq

LEMMA StringPutBehind ==
  ASSUME NEW cells, IsCells(cells), NEW i, i \notin 1 .. Len(cells), NEW v, NEW b, b = Put(Intact(cells), i, v)
  PROVE  b.over = TRUE
  <1>1. DOMAIN cells = 1 .. Len(cells)
    BY LenProperties DEF IsCells
  <1>2. PICK a : a = Intact(cells)
    OBVIOUS
  <1>3. a.cells = cells /\ a = [cells |-> cells, over |-> FALSE]
    BY <1>2 DEF Intact
  <1>4. b = [a EXCEPT !.over = TRUE]
    BY <1>1, <1>2, <1>3 DEF Put
  <1>5. QED
    BY <1>3, <1>4

IsResize(cells, newSize, n, f) ==
  n = (IF newSize = 0 THEN 2 * Len(cells) ELSE newSize) /\ f = Resize(cells, newSize, 0)
BlockResized(cells, n, f) ==
  /\ n \in Nat /\ IsCells(f) /\ Len(f) = n
  /\ \A i \in 1 .. n : i <= Len(cells) => f[i] = cells[i]

LEMMA StringResize ==
  ASSUME NEW cells, IsCells(cells), NEW newSize \in Nat, NEW n, NEW f, IsResize(cells, newSize, n, f)
  PROVE  BlockResized(cells, n, f)
  <1>0. n = (IF newSize = 0 THEN 2 * Len(cells) ELSE newSize) /\ f = Resize(cells, newSize, 0)
    BY DEF IsResize
  <1>1. Len(cells) \in Nat /\ DOMAIN cells = 1 .. Len(cells) /\ \A i \in 1 .. Len(cells) : cells[i] \in Glyphs
    BY LenProperties DEF IsCells
  <1>2. n \in Nat
    BY <1>0, <1>1
  <1>3. f = [i \in 1 .. n |-> IF i - 0 \in 1 .. Len(cells) THEN cells[i - 0] ELSE Blank]
    BY <1>0, <1>1 DEF Resize, NextCapacity
  <1>4. \A i \in 1 .. n : f[i] = IF i <= Len(cells) THEN cells[i] ELSE Blank
    BY <1>1, <1>2, <1>3
  <1>5. f \in [1 .. n -> Glyphs]
    BY <1>1, <1>3 DEF Glyphs
  <1>6. IsCells(f) /\ Len(f) = n
    BY <1>2, <1>5, CellsMade
  <1>7. QED
    BY <1>2, <1>4, <1>6 DEF BlockResized

(* The loop that writes characters one at a time. *)
StringRoom(b, n) == IF n = Len(b.cells) THEN [b EXCEPT !.cells = Resize(@, 0, 0)] ELSE b
LoopStep(s, n, t, g, k) == IF k = 0 THEN s ELSE Put(StringRoom(g[k - 1], n + k - 1), n + k, t[k])
IsLoop(s, n, t, m, g) == g = [k \in 0 .. m |-> LoopStep(s, n, t, g, k)]

LEMMA LoopExists ==
  ASSUME NEW s, NEW n, NEW t, NEW end \in Nat
  PROVE  \E g : IsLoop(s, n, t, end, g)
  <1> DEFINE Failing == {m \in Nat : ~\E g : IsLoop(s, n, t, m, g)}
  <1>1. SUFFICES ASSUME Failing # {} PROVE FALSE
    OBVIOUS
  <1>2. PICK m \in Failing : \A l \in Failing : m <= l
    <2>1. Failing \in SUBSET Nat
      OBVIOUS
    <2>2. QED
      BY <1>1, <2>1, Least
  <1>3. CASE m = 0
    <2>1. PICK g : g = [i \in 0 .. 0 |-> s]
      OBVIOUS
    <2>2. \A i \in 0 .. 0 : LoopStep(s, n, t, g, i) = s
      BY DEF LoopStep
    <2>3. IsLoop(s, n, t, 0, g)
      BY <2>1, <2>2 DEF IsLoop
    <2>4. QED
      BY <1>2, <1>3, <2>3
  <1>4. CASE m # 0
    <2>1. PICK l : l = m - 1
      OBVIOUS
    <2>2. l \in Nat /\ m = l + 1 /\ l < m
      BY <1>4, <2>1
    <2>3. l \notin Failing
      BY <1>2, <2>2
    <2>4. PICK g : IsLoop(s, n, t, l, g)
      BY <2>2, <2>3
    <2>5. PICK h : h = [i \in 0 .. l + 1 |-> IF i <= l THEN g[i] ELSE LoopStep(s, n, t, g, i)]
      OBVIOUS
    <2>6. \A i \in 0 .. l : g[i] = LoopStep(s, n, t, g, i)
      BY <2>4 DEF IsLoop
    <2>7. ASSUME NEW i \in 0 .. l + 1 PROVE h[i] = LoopStep(s, n, t, h, i)
      <3>1. CASE i = 0
        BY <2>2, <2>5, <2>6, <3>1 DEF LoopStep
      <3>2. CASE i # 0
        <4>1. i - 1 \in 0 .. l + 1 /\ i - 1 <= l
          BY <2>2, <3>2
        <4>2. h[i - 1] = g[i - 1]
          BY <2>5, <4>1
        <4>3. LoopStep(s, n, t, h, i) = LoopStep(s, n, t, g, i)
          BY <4>2 DEF LoopStep
        <4>4. h[i] = LoopStep(s, n, t, g, i)
          BY <2>2, <2>5, <2>6
        <4>5. QED
          BY <4>3, <4>4
      <3>3. QED
        BY <3>1, <3>2
    <2>8. IsLoop(s, n, t, l + 1, h)
      <3>1. h = [i \in 0 .. l + 1 |-> h[i]]
        BY <2>5
      <3>2. QED
        BY <2>7, <3>1 DEF IsLoop
    <2>9. QED
      BY <1>2, <2>2, <2>8
  <1>5. QED
    BY <1>3, <1>4

LEMMA OneByOneIs ==
  ASSUME NEW s, NEW n, NEW t, Len(t) \in Nat
  PROVE  \E g : /\ g[0] = s
                /\ \A k \in 1 .. Len(t) : g[k] = Put(StringRoom(g[k - 1], n + k - 1), n + k, t[k])
                /\ OneByOne(s, n, t) = Put(g[Len(t)], n + Len(t) + 1, Nul)
  <1>1. PICK g : g = CHOOSE h : IsLoop(s, n, t, Len(t), h)
    OBVIOUS
  <1>2. IsLoop(s, n, t, Len(t), g)
    BY <1>1, LoopExists, Zenon
  <1>3. OneByOne(s, n, t) = Put((CHOOSE h : IsLoop(s, n, t, Len(t), h))[Len(t)], n + Len(t) + 1, Nul)
    BY Zenon DEF OneByOne, IsLoop, LoopStep, StringRoom
  <1>4. OneByOne(s, n, t) = Put(g[Len(t)], n + Len(t) + 1, Nul)
    BY <1>1, <1>3
  <1>5. \A i \in 0 .. Len(t) : g[i] = LoopStep(s, n, t, g, i)
    BY <1>2 DEF IsLoop
  <1>6. g[0] = s
    BY <1>5 DEF LoopStep
  <1>7. ASSUME NEW k \in 1 .. Len(t) PROVE g[k] = Put(StringRoom(g[k - 1], n + k - 1), n + k, t[k])
    BY <1>5 DEF LoopStep
  <1>8. QED
    BY <1>4, <1>6, <1>7

(* The block b, of first c cells, with the text t and k of the characters  *)
(* u behind it.                                                            *)
Wrote(b, c, t, u, k) ==
  /\ b = Intact(b.cells) /\ IsCells(b.cells)
  /\ Len(t) + k <= Len(b.cells)
  /\ \A i \in 1 .. Len(t) : b.cells[i] = t[i]
  /\ \A i \in 1 .. k : b.cells[Len(t) + i] = u[i]
  /\ \E m \in 0 .. k : /\ Len(b.cells) = Doubled(c, m)
                       /\ m = 0 \/ Doubled(c, m - 1) < Len(t) + k

LEMMA WroteNext ==
  ASSUME NEW t \in Seq(Chars), NEW u \in Seq(Chars), NEW c \in Nat, c >= 1, NEW k \in Nat, k < Len(u), Len(u) <= MaxText,
         NEW b, Wrote(b, c, t, u, k), NEW d, d = Put(StringRoom(b, Len(t) + k), Len(t) + k + 1, u[k + 1])
  PROVE  Wrote(d, c, t, u, k + 1)
  <1>1. Len(t) \in Nat /\ Len(u) \in Nat /\ MaxText \in Nat /\ u[k + 1] \in Glyphs
    <2>1. Len(u) \in Nat /\ Len(t) \in Nat
      BY LenProperties
    <2>2. k + 1 \in 1 .. Len(u)
      BY <2>1
    <2>3. u[k + 1] \in Chars
      BY <2>2, LenProperties
    <2>4. QED
      BY <2>1, <2>3, BasicStringAssumption DEF Glyphs
  <1>2. PICK n \in Nat : n = Len(t) + k
    BY <1>1
  <1>3. /\ b = Intact(b.cells) /\ IsCells(b.cells) /\ Len(b.cells) \in Nat /\ n <= Len(b.cells)
        /\ \A i \in 1 .. Len(t) : b.cells[i] = t[i]
        /\ \A i \in 1 .. k : b.cells[Len(t) + i] = u[i]
    BY <1>2 DEF Wrote, IsCells
  <1>4. PICK m \in 0 .. k : Len(b.cells) = Doubled(c, m) /\ (m = 0 \/ Doubled(c, m - 1) < n)
    BY <1>2 DEF Wrote
  <1>5. PICK r : r = StringRoom(b, n)
    OBVIOUS
  <1>6. /\ r = Intact(r.cells) /\ IsCells(r.cells) /\ Len(r.cells) \in Nat /\ n + 1 <= Len(r.cells)
        /\ \A i \in 1 .. n : r.cells[i] = b.cells[i]
        /\ \E l \in 0 .. k + 1 : Len(r.cells) = Doubled(c, l) /\ (l = 0 \/ Doubled(c, l - 1) < n + 1)
    <2>1. CASE n = Len(b.cells)
      <3>1. PICK f : f = Resize(b.cells, 0, 0)
        OBVIOUS
      <3>2. IsCells(f) /\ Len(f) = 2 * Len(b.cells) /\ \A i \in 1 .. 2 * Len(b.cells) : i <= Len(b.cells) => f[i] = b.cells[i]
        <4>1. PICK zero \in Nat : zero = 0
          OBVIOUS
        <4>2. PICK old, w : old = b.cells /\ w = 2 * Len(old)
          OBVIOUS
        <4>3. IsCells(old) /\ w = (IF zero = 0 THEN 2 * Len(old) ELSE zero) /\ f = Resize(old, zero, 0)
          BY <1>3, <3>1, <4>1, <4>2
        <4>4. BlockResized(old, w, f)
          <5>1. IsResize(old, zero, w, f)
            BY <4>3 DEF IsResize
          <5>2. QED
            BY <4>1, <4>3, <5>1, StringResize
        <4>5. QED
          BY <4>2, <4>4 DEF BlockResized
      <3>3. b = [cells |-> b.cells, over |-> FALSE]
        BY <1>3 DEF Intact
      <3>4. r = [cells |-> f, over |-> FALSE]
        <4>1. r = [b EXCEPT !.cells = Resize(b.cells, 0, 0)]
          BY <1>5, <2>1 DEF StringRoom
        <4>2. r = [b EXCEPT !.cells = f]
          BY <3>1, <4>1
        <4>3. PICK old : old = b.cells
          OBVIOUS
        <4>4. b = [cells |-> old, over |-> FALSE]
          BY <3>3, <4>3
        <4>5. QED
          BY <4>2, <4>4
      <3>5. r.cells = f
        BY <3>4
      <3>6. r = Intact(r.cells)
        BY <3>4, <3>5 DEF Intact
      <3>7. n >= 1
        <4>1. CASE m = 0
          BY <1>4, <2>1, <4>1, DoubledIs
        <4>2. CASE m # 0
          <5>1. m \in 0 .. MaxText /\ 0 \in 0 .. MaxText /\ 0 < m
            BY <1>1, <4>2
          <5>2. 2 * Doubled(c, 0) <= Doubled(c, m) /\ Doubled(c, 0) = c /\ Doubled(c, m) \in Nat
            BY <5>1, DoubledGrows, DoubledIs, DoubledNat
          <5>3. QED
            BY <1>4, <2>1, <5>2
        <4>3. QED
          BY <4>1, <4>2
      <3>8. PICK l : l = m + 1
        OBVIOUS
      <3>9. l \in 0 .. k + 1 /\ l \in 1 .. MaxText /\ l - 1 = m /\ l # 0
        BY <1>1, <3>8
      <3>10. Doubled(c, l) = 2 * n /\ Doubled(c, l - 1) = n
        <4>1. Doubled(c, l) = 2 * Doubled(c, l - 1)
          BY <3>9, DoubledIs
        <4>2. Doubled(c, l - 1) = Doubled(c, m)
          BY <3>9
        <4>3. QED
          BY <1>4, <2>1, <4>1, <4>2
      <3>11. Len(r.cells) = Doubled(c, l) /\ Doubled(c, l - 1) < n + 1 /\ n + 1 <= Len(r.cells) /\ Len(r.cells) \in Nat
        BY <2>1, <3>2, <3>5, <3>7, <3>10
      <3>12. ASSUME NEW i \in 1 .. n PROVE r.cells[i] = b.cells[i]
        <4>1. i \in 1 .. 2 * Len(b.cells) /\ i <= Len(b.cells)
          BY <1>3, <2>1
        <4>2. QED
          BY <3>2, <3>5, <4>1
      <3>13. QED
        BY <3>2, <3>5, <3>6, <3>9, <3>11, <3>12
    <2>2. CASE n # Len(b.cells)
      <3>1. r = b
        BY <1>5, <2>2 DEF StringRoom
      <3>2. m \in 0 .. k + 1 /\ (m = 0 \/ Doubled(c, m - 1) < n + 1)
        <4>1. CASE m = 0
          BY <4>1
        <4>2. CASE m # 0
          <5>1. m - 1 \in 0 .. MaxText
            BY <1>1, <4>2
          <5>2. Doubled(c, m - 1) \in Nat
            BY <5>1, DoubledNat
          <5>3. QED
            BY <1>4, <4>2, <5>2
        <4>3. QED
          BY <4>1, <4>2
      <3>3. n + 1 <= Len(b.cells)
        BY <1>3, <2>2
      <3>4. QED
        BY <1>3, <1>4, <3>1, <3>2, <3>3
    <2>3. QED
      BY <2>1, <2>2
  <1>7. PICK cells, i : cells = r.cells /\ i = n + 1
    OBVIOUS
  <1>8. IsCells(cells) /\ i \in 1 .. Len(cells) /\ d = Put(Intact(cells), i, u[k + 1])
    BY <1>2, <1>5, <1>6, <1>7
  <1>9. /\ d = Intact(d.cells) /\ IsCells(d.cells) /\ Len(d.cells) = Len(cells) /\ d.cells[n + 1] = u[k + 1]
        /\ \A j \in 1 .. Len(cells) : j # n + 1 => d.cells[j] = cells[j]
    <2>1. PICK v \in Glyphs : v = u[k + 1]
      BY <1>1
    <2>2. d = Put(Intact(cells), i, v)
      BY <1>8, <2>1
    <2>3. /\ d = Intact(d.cells) /\ IsCells(d.cells) /\ Len(d.cells) = Len(cells) /\ d.cells[i] = v
          /\ \A j \in 1 .. Len(cells) : j # i => d.cells[j] = cells[j]
      BY <1>8, <2>2, StringPut
    <2>4. QED
      BY <1>7, <2>1, <2>3
  <1>10. \A j \in 1 .. n : d.cells[j] = b.cells[j]
    <2>1. SUFFICES ASSUME NEW j \in 1 .. n PROVE d.cells[j] = b.cells[j]
      OBVIOUS
    <2>2. j \in 1 .. Len(cells) /\ j # n + 1
      BY <1>6, <1>7
    <2>3. d.cells[j] = cells[j]
      BY <1>9, <2>2
    <2>4. QED
      BY <1>6, <1>7, <2>3
  <1>11. ASSUME NEW j \in 1 .. Len(t) PROVE d.cells[j] = t[j]
    <2>1. j \in 1 .. n
      BY <1>1, <1>2
    <2>2. QED
      BY <1>3, <1>10, <2>1
  <1>12. ASSUME NEW j \in 1 .. k + 1 PROVE d.cells[Len(t) + j] = u[j]
    <2>1. CASE j = k + 1
      <3>1. Len(t) + j = n + 1
        BY <1>1, <1>2, <2>1
      <3>2. QED
        BY <1>9, <2>1, <3>1
    <2>2. CASE j # k + 1
      <3>1. j \in 1 .. k /\ Len(t) + j \in 1 .. n
        BY <1>1, <1>2, <2>2
      <3>2. QED
        BY <1>3, <1>10, <3>1
    <2>3. QED
      BY <2>1, <2>2
  <1>13. Len(t) + (k + 1) = n + 1
    BY <1>1, <1>2
  <1>14. QED
    BY <1>6, <1>7, <1>9, <1>11, <1>12, <1>13 DEF Wrote

(* The text t in its cells, with the null character behind it.             *)
CellsHold(cells, t) ==
  /\ IsCells(cells) /\ Len(t) < Len(cells)
  /\ \A i \in 1 .. Len(t) : cells[i] = t[i]
  /\ cells[Len(t) + 1] = Nul

Fills(n, c) == \E m \in 0 .. MaxText : n = Doubled(c, m)

(* insert is right unless the characters fill the block. *)
LEMMA InsertsText ==
  ASSUME NEW t \in Seq(Chars), NEW u \in Seq(Chars), Len(u) <= MaxText, NEW cells, CellsHold(cells, t),
         NEW d, d = OneByOne(Intact(cells), Len(t), u)
  PROVE  IF Fills(Len(t) + Len(u), Len(cells)) THEN d.over = TRUE
         ELSE d = Intact(d.cells) /\ CellsHold(d.cells, t \o u)
  <1>1. Len(t) \in Nat /\ Len(u) \in Nat /\ MaxText \in Nat /\ IsCells(cells) /\ Len(cells) \in Nat
    BY LenProperties, BasicStringAssumption DEF CellsHold, IsCells
  <1>2. PICK c \in Nat : c = Len(cells) /\ c >= 1
    BY <1>1 DEF CellsHold
  <1>3. PICK g : /\ g[0] = Intact(cells)
                 /\ \A k \in 1 .. Len(u) : g[k] = Put(StringRoom(g[k - 1], Len(t) + k - 1), Len(t) + k, u[k])
                 /\ d = Put(g[Len(u)], Len(t) + Len(u) + 1, Nul)
    BY <1>1, OneByOneIs
  <1>4. Wrote(g[0], c, t, u, 0)
    <2>1. PICK b : b = g[0]
      OBVIOUS
    <2>2. b.cells = cells /\ b = Intact(b.cells)
      BY <1>3, <2>1 DEF Intact
    <2>3. Len(b.cells) = Doubled(c, 0) /\ 0 \in 0 .. 0
      BY <1>2, <2>2, DoubledIs
    <2>4. Len(t) + 0 <= Len(b.cells) /\ \A i \in 1 .. Len(t) : b.cells[i] = t[i]
      BY <1>1, <2>2 DEF CellsHold
    <2>5. QED
      BY <1>1, <2>1, <2>2, <2>3, <2>4 DEF Wrote
  <1>5. ASSUME NEW k \in 0 .. Len(u) PROVE Wrote(g[k], c, t, u, k)
    <2> DEFINE Failing == {l \in 0 .. Len(u) : ~Wrote(g[l], c, t, u, l)}
    <2>1. SUFFICES ASSUME Failing # {} PROVE FALSE
      OBVIOUS
    <2>2. PICK m \in Failing : \A l \in Failing : m <= l
      <3>1. Failing \in SUBSET Nat
        BY <1>1
      <3>2. QED
        BY <2>1, <3>1, Least
    <2>3. m # 0
      BY <1>4
    <2>4. PICK l : l = m - 1
      OBVIOUS
    <2>5. l \in 0 .. Len(u) /\ l \in Nat /\ l < m /\ l < Len(u) /\ m = l + 1 /\ m \in 1 .. Len(u)
      BY <1>1, <2>3, <2>4
    <2>6. Wrote(g[l], c, t, u, l)
      BY <2>2, <2>5
    <2>7. g[l + 1] = Put(StringRoom(g[l], Len(t) + l), Len(t) + l + 1, u[l + 1])
      <3>1. m - 1 = l /\ Len(t) + m - 1 = Len(t) + l /\ Len(t) + m = Len(t) + l + 1
        BY <1>1, <2>5
      <3>2. g[m] = Put(StringRoom(g[m - 1], Len(t) + m - 1), Len(t) + m, u[m])
        BY <1>3, <2>5
      <3>3. QED
        BY <2>5, <3>1, <3>2
    <2>8. Wrote(g[l + 1], c, t, u, l + 1)
      BY <1>2, <2>5, <2>6, <2>7, WroteNext
    <2>9. QED
      BY <2>2, <2>5, <2>8
  <1>6. PICK b, full : b = g[Len(u)] /\ full = b.cells
    OBVIOUS
  <1>7. Wrote(b, c, t, u, Len(u))
    BY <1>1, <1>5, <1>6
  <1>8. PICK n \in Nat : n = Len(t) + Len(u)
    BY <1>1
  <1>9. /\ b = Intact(full) /\ IsCells(full) /\ n <= Len(full) /\ Len(full) \in Nat
        /\ \A i \in 1 .. Len(t) : full[i] = t[i]
        /\ \A i \in 1 .. Len(u) : full[Len(t) + i] = u[i]
    BY <1>6, <1>7, <1>8 DEF Wrote, IsCells
  <1>10. PICK m \in 0 .. Len(u) : Len(full) = Doubled(c, m) /\ (m = 0 \/ Doubled(c, m - 1) < n)
    BY <1>6, <1>7, <1>8 DEF Wrote
  <1>11. Fills(n, c) <=> n = Len(full)
    <2>1. m \in 0 .. MaxText
      BY <1>1
    <2>2. n = Len(full) => Fills(n, c)
      BY <1>10, <2>1 DEF Fills
    <2>3. ASSUME NEW l \in 0 .. MaxText, n = Doubled(c, l) PROVE n = Len(full)
      <3>1. CASE l = m
        BY <1>10, <2>3, <3>1
      <3>2. CASE l < m
        <4>1. m - 1 \in 0 .. MaxText /\ (l = m - 1 \/ l < m - 1) /\ m # 0
          BY <1>1, <2>1, <3>2
        <4>2. Doubled(c, m - 1) \in Nat /\ Doubled(c, l) \in Nat
          BY <4>1, DoubledNat
        <4>3. Doubled(c, l) <= Doubled(c, m - 1)
          <5>1. CASE l = m - 1
            BY <4>2, <5>1
          <5>2. CASE l < m - 1
            <6>1. 2 * Doubled(c, l) <= Doubled(c, m - 1)
              BY <4>1, <5>2, DoubledGrows
            <6>2. QED
              BY <4>2, <6>1
          <5>3. QED
            BY <4>1, <5>1, <5>2
        <4>4. QED
          BY <1>10, <2>3, <4>1, <4>2, <4>3
      <3>3. CASE m < l
        <4>1. 2 * Doubled(c, m) <= Doubled(c, l) /\ Doubled(c, m) \in Nat
          BY <2>1, <3>3, DoubledGrows, DoubledNat
        <4>2. Len(full) = 0
          BY <1>9, <1>10, <2>3, <4>1
        <4>3. n = 0
          BY <1>9, <4>2
        <4>4. QED
          BY <4>2, <4>3
      <3>4. QED
        BY <1>1, <2>1, <3>1, <3>2, <3>3
    <2>4. QED
      BY <2>2, <2>3 DEF Fills
  <1>12. d = Put(Intact(full), n + 1, Nul)
    BY <1>3, <1>6, <1>8, <1>9
  <1>13. CASE n = Len(full)
    <2>1. n + 1 \notin 1 .. Len(full)
      BY <1>13
    <2>2. d.over = TRUE
      BY <1>9, <1>12, <2>1, StringPutBehind
    <2>3. QED
      BY <1>2, <1>8, <1>11, <1>13, <2>2
  <1>14. CASE n # Len(full)
    <2>1. PICK i : i = n + 1 /\ i \in 1 .. Len(full)
      BY <1>9, <1>14
    <2>2. Nul \in Glyphs
      BY DEF Glyphs
    <2>3. /\ d = Intact(d.cells) /\ IsCells(d.cells) /\ Len(d.cells) = Len(full) /\ d.cells[n + 1] = Nul
          /\ \A j \in 1 .. Len(full) : j # n + 1 => d.cells[j] = full[j]
      BY <1>9, <1>12, <2>1, <2>2, StringPut
    <2>4. PICK w : w = t \o u
      OBVIOUS
    <2>5. Len(w) = n /\ \A j \in 1 .. n : w[j] = IF j <= Len(t) THEN t[j] ELSE u[j - Len(t)]
      BY <1>8, <2>4, ConcatProperties
    <2>6. ASSUME NEW j \in 1 .. n PROVE d.cells[j] = w[j]
      <3>1. d.cells[j] = full[j]
        <4>1. j \in 1 .. Len(full) /\ j # n + 1
          BY <1>9
        <4>2. QED
          BY <2>3, <4>1
      <3>2. CASE j <= Len(t)
        BY <1>1, <1>9, <2>5, <3>1, <3>2
      <3>3. CASE ~(j <= Len(t))
        <4>1. PICK l : l = j - Len(t)
          OBVIOUS
        <4>2. l \in 1 .. Len(u) /\ Len(t) + l = j
          BY <1>1, <1>8, <3>3, <4>1
        <4>3. full[j] = u[l]
          BY <1>9, <4>2
        <4>4. QED
          BY <2>5, <3>1, <3>3, <4>1, <4>3
      <3>4. QED
        BY <3>2, <3>3
    <2>7. CellsHold(d.cells, w)
      BY <1>9, <1>14, <2>3, <2>5, <2>6 DEF CellsHold
    <2>8. QED
      BY <1>2, <1>8, <1>11, <1>14, <2>3, <2>4, <2>7
  <1>15. QED
    BY <1>13, <1>14

-----------------------------------------------------------------------------
(* What a string that is not moved from is.                                *)

LEMMA TextsAre ==
  ASSUME NEW t \in StringTexts
  PROVE  t \in Seq(Chars) /\ Len(t) \in Nat /\ Len(t) <= MaxText
  <1>1. PICK n \in 0 .. MaxText : t \in [1 .. n -> Chars]
    BY DEF StringTexts
  <1>2. n \in Nat /\ n <= MaxText
    BY <1>1, BasicStringAssumption
  <1>3. QED
    BY <1>1, <1>2

LEMMA TextNotMoved ==
  ASSUME NEW t \in Seq(Chars)
  PROVE  t # Moved
  <1>1. SUFFICES ASSUME t = Moved PROVE FALSE
    OBVIOUS
  <1>2. Len(t) = 1 /\ t[1] = "moved"
    BY <1>1 DEF Moved
  <1>3. t[1] \in Chars
    BY <1>2, LenProperties
  <1>4. QED
    BY <1>2, <1>3, BasicStringAssumption

LEMMA HoldsIs ==
  ASSUME NEW t \in Seq(Chars), NEW cells, CellsHold(cells, t)
  PROVE  /\ Len(t) < Len(cells) /\ SubSeq(cells, 1, Len(t) + 1) = Append(t, Nul)
  <1>1. Len(t) \in Nat /\ Len(cells) \in Nat /\ Len(t) < Len(cells) /\ cells \in Seq(Glyphs) /\ t = [i \in 1 .. Len(t) |-> t[i]]
    BY LenProperties DEF CellsHold, IsCells
  <1>2. PICK n \in Nat : n = Len(t) + 1
    BY <1>1
  <1>3. PICK a, b : a = SubSeq(cells, 1, n) /\ b = Append(t, Nul)
    OBVIOUS
  <1>4. a = [i \in 1 .. n |-> cells[i]]
    BY <1>1, <1>2, <1>3
  <1>5. t \in Seq(Glyphs) /\ Nul \in Glyphs
    BY DEF Glyphs
  <1>6. b \in Seq(Glyphs) /\ Len(b) = n /\ b[n] = Nul /\ \A i \in 1 .. Len(t) : b[i] = t[i]
    BY <1>1, <1>2, <1>3, <1>5, AppendProperties
  <1>7. ASSUME NEW i \in 1 .. n PROVE b[i] = cells[i]
    <2>1. CASE i = n
      BY <1>2, <1>6, <2>1 DEF CellsHold
    <2>2. CASE i # n
      <3>1. i \in 1 .. Len(t)
        BY <1>1, <1>2, <2>2
      <3>2. QED
        BY <1>6, <3>1 DEF CellsHold
    <2>3. QED
      BY <2>1, <2>2
  <1>8. b = [i \in 1 .. n |-> b[i]]
    BY <1>6, LenProperties
  <1>9. a = b
    BY <1>4, <1>7, <1>8
  <1>10. QED
    BY <1>1, <1>2, <1>3, <1>9

(* A string constructed from a text.                                       *)
LEMMA HoldsAppended ==
  ASSUME NEW t \in Seq(Chars)
  PROVE  CellsHold(Append(t, Nul), t)
  <1>1. Len(t) \in Nat /\ t \in Seq(Glyphs) /\ Nul \in Glyphs
    BY LenProperties DEF Glyphs
  <1>2. PICK b : b = Append(t, Nul)
    OBVIOUS
  <1>3. b \in Seq(Glyphs) /\ Len(b) = Len(t) + 1 /\ b[Len(t) + 1] = Nul /\ \A i \in 1 .. Len(t) : b[i] = t[i]
    BY <1>1, <1>2, AppendProperties
  <1>4. IsCells(b)
    BY <1>3, CellsOfSeq
  <1>5. QED
    BY <1>1, <1>2, <1>3, <1>4 DEF CellsHold

LEMMA HoldsFilled ==
  ASSUME NEW n \in Nat, NEW t, t = <<>>
  PROVE  CellsHold(Filled(n), t)
  <1>1. PICK f : f = Filled(n)
    OBVIOUS
  <1>2. f = [i \in 1 .. n + 1 |-> Nul]
    BY <1>1 DEF Filled
  <1>3. PICK m \in Nat : m = n + 1
    OBVIOUS
  <1>4. f \in [1 .. m -> Glyphs]
    BY <1>2, <1>3 DEF Glyphs
  <1>5. IsCells(f) /\ Len(f) = m
    BY <1>4, CellsMade
  <1>6. f[1] = Nul
    BY <1>2
  <1>7. Len(t) = 0
    OBVIOUS
  <1>8. QED
    BY <1>1, <1>3, <1>5, <1>6, <1>7 DEF CellsHold

Rewritten(s, n, t, room, required) ==
  [s EXCEPT !.size = n + Len(t),
            !.block = Intact([i \in DOMAIN room |->
               CASE n < i /\ i <= n + Len(t) -> t[i - n]
                 [] i = required -> Nul
                 [] OTHER -> room[i]])]
AppendedTo(s, n, t, old, required) ==
  Rewritten(s, n, t, IF ~(required > Len(old)) THEN old
                   ELSE Resize(old, IF required > 2 * Len(old) THEN required ELSE 0, 0), required)

(* append(str, len): the first Len(t) cells stay, u follows.               *)
StartsWith(s, t) ==
  /\ s.block = Intact(s.block.cells) /\ IsCells(s.block.cells) /\ Len(t) <= Len(s.block.cells)
  /\ \A i \in 1 .. Len(t) : s.block.cells[i] = t[i]
NowHolds(a, s, n, cells, t) ==
  /\ a = [s EXCEPT !.size = n, !.block = Intact(cells)]
  /\ CellsHold(cells, t)

LEMMA AppendsText ==
  ASSUME NEW s, NEW t \in Seq(Chars), NEW u \in Seq(Chars), StartsWith(s, t), NEW a, a = Appended(s, Len(t), u)
  PROVE  \E cells : NowHolds(a, s, Len(t) + Len(u), cells, t \o u)
  <1>1. Len(t) \in Nat /\ Len(u) \in Nat
    BY LenProperties
  <1>2. PICK n \in Nat : n = Len(t) + Len(u) + 1
    BY <1>1
  <1>3. PICK old : old = s.block.cells
    OBVIOUS
  <1>4. IsCells(old) /\ Len(old) \in Nat /\ Len(t) <= Len(old) /\ \A i \in 1 .. Len(t) : old[i] = t[i]
    BY <1>3 DEF IsCells, StartsWith
  <1>5. PICK room : room = IF ~(n > Len(old)) THEN old ELSE Resize(old, IF n > 2 * Len(old) THEN n ELSE 0, 0)
    OBVIOUS
  <1>6. IsCells(room) /\ n <= Len(room) /\ Len(room) \in Nat /\ \A i \in 1 .. Len(t) : room[i] = t[i]
    <2>1. CASE ~(n > Len(old))
      BY <1>4, <1>5, <2>1
    <2>2. CASE n > Len(old)
      <3>1. PICK z \in Nat : z = IF n > 2 * Len(old) THEN n ELSE 0
        OBVIOUS
      <3>2. PICK w : w = IF z = 0 THEN 2 * Len(old) ELSE z
        OBVIOUS
      <3>3. room = Resize(old, z, 0)
        BY <1>5, <2>2, <3>1
      <3>4. w \in Nat /\ IsCells(room) /\ Len(room) = w /\ \A i \in 1 .. w : i <= Len(old) => room[i] = old[i]
        <4>1. IsResize(old, z, w, room)
          BY <3>2, <3>3 DEF IsResize
        <4>2. BlockResized(old, w, room)
          BY <1>4, <3>1, <4>1, StringResize
        <4>3. QED
          BY <4>2 DEF BlockResized
      <3>5. n <= w
        BY <1>4, <2>2, <3>1, <3>2
      <3>6. ASSUME NEW i \in 1 .. Len(t) PROVE room[i] = t[i]
        <4>1. i \in 1 .. w /\ i <= Len(old)
          BY <1>1, <1>2, <1>4, <3>4, <3>5
        <4>2. QED
          BY <1>4, <3>4, <4>1
      <3>7. QED
        BY <3>4, <3>5, <3>6
    <2>3. QED
      BY <2>1, <2>2
  <1>7. DOMAIN room = 1 .. Len(room) /\ \A i \in 1 .. Len(room) : room[i] \in Glyphs
    BY <1>6, LenProperties DEF IsCells
  <1>8. PICK cells : cells = [i \in DOMAIN room |->
                  CASE Len(t) < i /\ i <= Len(t) + Len(u) -> u[i - Len(t)]
                    [] i = n -> Nul
                    [] OTHER -> room[i]]
    OBVIOUS
  <1>9. a = [s EXCEPT !.size = Len(t) + Len(u), !.block = Intact(cells)]
    <2>1. a = AppendedTo(s, Len(t), u, s.block.cells, Len(t) + Len(u) + 1)
      BY Zenon DEF Appended, Grows, AppendedTo, Rewritten
    <2>2. a = AppendedTo(s, Len(t), u, old, n)
      BY <1>2, <1>3, <2>1
    <2>3. a = Rewritten(s, Len(t), u, IF ~(n > Len(old)) THEN old ELSE Resize(old, IF n > 2 * Len(old) THEN n ELSE 0, 0), n)
      BY <2>2 DEF AppendedTo
    <2>4. a = Rewritten(s, Len(t), u, room, n)
      BY <1>5, <2>3
    <2>5. QED
      BY <1>8, <2>4 DEF Rewritten
  <1>10. cells = [i \in 1 .. Len(room) |-> IF Len(t) < i /\ i <= Len(t) + Len(u) THEN u[i - Len(t)]
                                          ELSE IF i = n THEN Nul ELSE room[i]]
    <2>1. ASSUME NEW i \in 1 .. Len(room)
          PROVE  (CASE Len(t) < i /\ i <= Len(t) + Len(u) -> u[i - Len(t)]
                    [] i = n -> Nul
                    [] OTHER -> room[i])
                 = (IF Len(t) < i /\ i <= Len(t) + Len(u) THEN u[i - Len(t)] ELSE IF i = n THEN Nul ELSE room[i])
      <3>1. CASE i = n
        BY <1>1, <1>2, <3>1
      <3>2. CASE i # n
        BY <3>2
      <3>3. QED
        BY <3>1, <3>2
    <2>2. QED
      BY <1>7, <1>8, <2>1
  <1>11. ASSUME NEW i \in 1 .. Len(room) PROVE cells[i] \in Glyphs
    <2>1. CASE Len(t) < i /\ i <= Len(t) + Len(u)
      <3>1. i - Len(t) \in 1 .. Len(u)
        BY <1>1, <1>6, <2>1
      <3>2. u[i - Len(t)] \in Chars
        BY <3>1, LenProperties
      <3>3. QED
        BY <1>10, <2>1, <3>2 DEF Glyphs
    <2>2. CASE ~(Len(t) < i /\ i <= Len(t) + Len(u))
      BY <1>7, <1>10, <2>2 DEF Glyphs
    <2>3. QED
      BY <2>1, <2>2
  <1>12. IsCells(cells) /\ Len(cells) = Len(room)
    <2>1. cells \in [1 .. Len(room) -> Glyphs]
      BY <1>10, <1>11
    <2>2. QED
      BY <1>6, <2>1, CellsMade
  <1>13. PICK w : w = t \o u
    OBVIOUS
  <1>14. Len(w) = Len(t) + Len(u) /\ \A j \in 1 .. Len(t) + Len(u) : w[j] = IF j <= Len(t) THEN t[j] ELSE u[j - Len(t)]
    BY <1>13, ConcatProperties
  <1>15. ASSUME NEW j \in 1 .. Len(w) PROVE cells[j] = w[j]
    <2>1. j \in 1 .. Len(room) /\ j # n /\ j <= Len(t) + Len(u) /\ j \in 1 .. Len(t) + Len(u)
      BY <1>1, <1>2, <1>6, <1>14
    <2>2. CASE j <= Len(t)
      <3>1. cells[j] = room[j]
        BY <1>1, <1>10, <2>1, <2>2
      <3>2. j \in 1 .. Len(t)
        BY <1>1, <2>2
      <3>3. QED
        BY <1>6, <1>14, <2>1, <2>2, <3>1, <3>2
    <2>3. CASE ~(j <= Len(t))
      <3>1. cells[j] = u[j - Len(t)]
        BY <1>1, <1>10, <2>1, <2>3
      <3>2. QED
        BY <1>14, <2>1, <2>3, <3>1
    <2>4. QED
      BY <2>2, <2>3
  <1>16. cells[Len(w) + 1] = Nul
    <2>1. Len(w) + 1 = n /\ n \in 1 .. Len(room) /\ ~(n <= Len(t) + Len(u))
      BY <1>1, <1>2, <1>6, <1>14
    <2>2. QED
      BY <1>10, <2>1
  <1>17. Len(w) < Len(cells)
    BY <1>1, <1>2, <1>6, <1>12, <1>14
  <1>18. CellsHold(cells, w)
    BY <1>12, <1>15, <1>16, <1>17 DEF CellsHold
  <1>19. NowHolds(a, s, Len(t) + Len(u), cells, t \o u)
    BY <1>9, <1>13, <1>18 DEF NowHolds
  <1>20. QED
    BY <1>19

LEMMA TextMade ==
  ASSUME NEW k \in Nat, NEW f \in [1 .. k -> Chars]
  PROVE  f \in Seq(Chars) /\ Len(f) = k
  OBVIOUS

LEMMA SliceIs ==
  ASSUME NEW S, NEW s \in Seq(S), NEW lo \in Nat, lo >= 1, NEW hi \in Nat, hi <= Len(s), lo <= hi + 1
  PROVE  SubSeq(s, lo, hi) = [i \in 1 .. hi - lo + 1 |-> s[lo + i - 1]]
  OBVIOUS

IsSlice(u, t, start, length) == u = [i \in {j \in 1 .. length : start + j <= Len(t)} |-> t[start + i]]

(* substring takes the part of the text that its arguments name.           *)
LEMMA SubstringIs ==
  ASSUME NEW y, NEW t \in Seq(Chars), str[y].size = Len(t), CellsHold(str[y].block.cells, t),
         NEW start \in Nat, NEW length \in Nat,
         NEW u, IsSlice(u, t, start, length)
  PROVE  Substring(y, start, length) = u /\ u \in Seq(Chars)
  <1>1. PICK end \in Nat : end = Len(t)
    BY LenProperties
  <1>2. PICK cells : cells = str[y].block.cells
    OBVIOUS
  <1>3. Len(cells) \in Nat /\ end < Len(cells) /\ \A i \in 1 .. end : cells[i] = t[i]
    BY <1>1, <1>2 DEF CellsHold, IsCells
  <1>4. PICK from \in Nat : from = IF start > end THEN end ELSE start
    OBVIOUS
  <1>5. PICK len \in Nat : len = IF length > end - from THEN end - from ELSE length
    <2>1. from <= end
      BY <1>1, <1>4
    <2>2. (IF length > end - from THEN end - from ELSE length) \in Nat
      BY <1>1, <1>4, <2>1
    <2>3. QED
      BY <2>2
  <1>6. PICK r : r = Substring(y, start, length)
    OBVIOUS
  <1>7. r = SubSeq(cells, from + 1, from + len)
    BY <1>1, <1>2, <1>4, <1>5, <1>6 DEF Substring
  <1>8. from + len <= end
    BY <1>4, <1>5
  <1>9. r = [i \in 1 .. len |-> cells[from + i]]
    <2>1. cells \in Seq(Glyphs)
      BY <1>2 DEF CellsHold, IsCells
    <2>2. PICK lo \in Nat, hi \in Nat : lo = from + 1 /\ hi = from + len
      BY <1>4, <1>5
    <2>3. lo >= 1 /\ hi <= Len(cells) /\ lo <= hi + 1
      <3>1. from \in Nat /\ len \in Nat /\ end \in Nat /\ Len(cells) \in Nat /\ end < Len(cells)
        BY <1>1, <1>3, <1>4, <1>5
      <3>2. QED
        BY <1>8, <2>2, <3>1
    <2>4. r = [i \in 1 .. hi - lo + 1 |-> cells[lo + i - 1]]
      BY <1>7, <2>1, <2>2, <2>3, SliceIs
    <2>5. hi - lo + 1 = len /\ \A i \in 1 .. len : lo + i - 1 = from + i
      BY <1>4, <1>5, <2>2
    <2>6. QED
      BY <2>4, <2>5
  <1>10. {j \in 1 .. length : start + j <= Len(t)} = 1 .. len
    BY <1>1, <1>4, <1>5
  <1>11. ASSUME NEW i \in 1 .. len PROVE cells[from + i] = t[start + i] /\ t[start + i] \in Chars
    <2>1. from = start /\ start + i \in 1 .. end
      BY <1>4, <1>5, <1>8
    <2>2. t[start + i] \in Chars
      BY <1>1, <2>1, LenProperties
    <2>3. QED
      BY <1>3, <2>1, <2>2
  <1>12. u = [i \in 1 .. len |-> t[start + i]]
    BY <1>10 DEF IsSlice
  <1>13. u \in [1 .. len -> Chars]
    BY <1>11, <1>12
  <1>14. QED
    <2>1. r = u
      BY <1>9, <1>11, <1>12
    <2>2. u \in Seq(Chars)
      BY <1>5, <1>13, TextMade
    <2>3. QED
      BY <1>6, <2>1, <2>2

IsShifted(cells, old, last, idx) ==
  cells = [i \in DOMAIN old |->
             CASE idx < i /\ i < last -> old[i + 1]
               [] i = last -> Nul
               [] OTHER -> old[i]]
IsWithout(u, t, idx) == u = SubSeq(t, 1, idx) \o SubSeq(t, idx + 2, Len(t))

(* remove moves the characters behind the one removed, and the null one.   *)
LEMMA RemovesText ==
  ASSUME NEW t \in Seq(Chars), NEW old, CellsHold(old, t), NEW idx \in Nat, idx < Len(t),
         NEW cells, IsShifted(cells, old, Len(t), idx), NEW u, IsWithout(u, t, idx)
  PROVE  u \in Seq(Chars) /\ Len(u) = Len(t) - 1 /\ CellsHold(cells, u)
  <1>1. PICK end \in Nat : end = Len(t)
    BY LenProperties
  <1>2. Len(old) \in Nat /\ end < Len(old) /\ \A i \in 1 .. end : old[i] = t[i]
    BY <1>1 DEF CellsHold, IsCells
  <1>3. DOMAIN old = 1 .. Len(old) /\ \A i \in 1 .. Len(old) : old[i] \in Glyphs
    BY LenProperties DEF CellsHold, IsCells
  <1>4. cells = [i \in 1 .. Len(old) |-> IF idx < i /\ i < end THEN old[i + 1] ELSE IF i = end THEN Nul ELSE old[i]]
    <2>1. ASSUME NEW i \in 1 .. Len(old)
          PROVE  (CASE idx < i /\ i < Len(t) -> old[i + 1] [] i = Len(t) -> Nul [] OTHER -> old[i])
                 = (IF idx < i /\ i < end THEN old[i + 1] ELSE IF i = end THEN Nul ELSE old[i])
      <3>1. CASE i = end
        BY <1>1, <3>1
      <3>2. CASE i # end
        BY <1>1, <3>2
      <3>3. QED
        BY <3>1, <3>2
    <2>2. QED
      BY <1>3, <2>1 DEF IsShifted
  <1>5. ASSUME NEW i \in 1 .. Len(old) PROVE cells[i] \in Glyphs
    <2>1. i < end => i + 1 \in 1 .. Len(old)
      BY <1>2
    <2>2. QED
      BY <1>3, <1>4, <2>1 DEF Glyphs
  <1>6. IsCells(cells) /\ Len(cells) = Len(old)
    <2>1. cells \in [1 .. Len(old) -> Glyphs]
      BY <1>4, <1>5
    <2>2. QED
      BY <1>2, <2>1, CellsMade
  <1>7. PICK a, b : a = SubSeq(t, 1, idx) /\ b = SubSeq(t, idx + 2, end)
    OBVIOUS
  <1>8. a = [i \in 1 .. idx |-> t[i]] /\ b = [i \in 1 .. end - idx - 1 |-> t[idx + 1 + i]]
    <2>1. t \in Seq(Chars) /\ Len(t) = end /\ idx + 2 \in Nat /\ end - (idx + 2) + 1 = end - idx - 1
      BY <1>1
    <2>2. a = [i \in 1 .. idx |-> t[i]]
      BY <1>1, <1>7, <2>1
    <2>3. PICK lo \in Nat : lo = idx + 2
      OBVIOUS
    <2>4. b = [i \in 1 .. end - lo + 1 |-> t[lo + i - 1]]
      BY <1>1, <1>7, <2>1, <2>3, SliceIs
    <2>5. \A i \in 1 .. end - idx - 1 : lo + i - 1 = idx + 1 + i
      BY <1>1, <2>3
    <2>6. end - lo + 1 = end - idx - 1
      BY <1>1, <2>3
    <2>7. b = [i \in 1 .. end - idx - 1 |-> t[idx + 1 + i]]
      BY <2>4, <2>5, <2>6
    <2>8. QED
      BY <2>2, <2>7
  <1>9. PICK m \in Nat : m = end - idx - 1
    <2>1. idx < end
      BY <1>1
    <2>2. end - idx - 1 \in Nat
      BY <1>1, <2>1
    <2>3. QED
      BY <2>2
  <1>10. a \in Seq(Chars) /\ Len(a) = idx /\ b \in Seq(Chars) /\ Len(b) = m
    <2>1. ASSUME NEW i \in 1 .. idx PROVE t[i] \in Chars
      <3>1. i \in 1 .. Len(t)
        BY <1>1
      <3>2. QED
        BY <3>1, LenProperties
    <2>2. ASSUME NEW i \in 1 .. m PROVE t[idx + 1 + i] \in Chars
      <3>1. idx + 1 + i \in 1 .. Len(t)
        <4>1. i \in Nat /\ i <= m /\ i >= 1
          BY <1>9
        <4>2. idx + 1 + i >= 1 /\ idx + 1 + i <= idx + 1 + m /\ idx + 1 + i \in Nat
          BY <1>9, <4>1
        <4>3. idx + 1 + m = Len(t)
          BY <1>1, <1>9
        <4>4. QED
          BY <1>1, <4>2, <4>3
      <3>2. QED
        BY <3>1, LenProperties
    <2>3. a \in [1 .. idx -> Chars] /\ b \in [1 .. m -> Chars]
      BY <1>8, <1>9, <2>1, <2>2
    <2>4. QED
      BY <1>9, <2>3, TextMade
  <1>11. u = a \o b
    BY <1>1, <1>7 DEF IsWithout
  <1>12. u \in Seq(Chars) /\ Len(u) = end - 1 /\ \A j \in 1 .. end - 1 : u[j] = IF j <= idx THEN a[j] ELSE b[j - idx]
    <2>1. idx + m = end - 1
      BY <1>1, <1>9
    <2>2. QED
      <3>1. Len(a \o b) = Len(a) + Len(b) /\ a \o b \in Seq(Chars)
            /\ \A j \in 1 .. Len(a) + Len(b) : (a \o b)[j] = IF j <= Len(a) THEN a[j] ELSE b[j - Len(a)]
        BY <1>10, ConcatProperties
      <3>2. QED
        BY <1>10, <1>11, <2>1, <3>1
  <1>13. ASSUME NEW j \in 1 .. end - 1 PROVE cells[j] = u[j]
    <2>1. j \in 1 .. Len(old) /\ j < end /\ j \in 1 .. end /\ j + 1 \in 1 .. end
      BY <1>1, <1>2
    <2>2. CASE j <= idx
      <3>1. cells[j] = old[j]
        BY <1>4, <2>1, <2>2
      <3>2. u[j] = t[j]
        <4>1. j \in 1 .. idx /\ j \in 1 .. end - 1
          BY <2>1, <2>2
        <4>2. u[j] = a[j]
          BY <1>12, <2>2, <4>1
        <4>3. QED
          BY <1>8, <4>1, <4>2
      <3>3. QED
        BY <1>2, <2>1, <3>1, <3>2
    <2>3. CASE ~(j <= idx)
      <3>1. cells[j] = old[j + 1]
        BY <1>4, <2>1, <2>3
      <3>2. PICK i : i = j - idx
        OBVIOUS
      <3>3. i \in 1 .. end - idx - 1 /\ idx + 1 + i = j + 1
        BY <1>1, <2>1, <2>3, <3>2
      <3>4. u[j] = b[i]
        BY <1>12, <2>3, <3>2
      <3>5. b[i] = t[j + 1]
        BY <1>8, <3>3
      <3>6. QED
        BY <1>2, <2>1, <3>1, <3>4, <3>5
    <2>4. QED
      BY <2>2, <2>3
  <1>14. cells[end] = Nul
    <2>1. end \in 1 .. Len(old)
      BY <1>1, <1>2
    <2>2. QED
      BY <1>4, <2>1
  <1>15. PICK k \in Nat : k = end - 1
    BY <1>1
  <1>16. Len(u) = k /\ k + 1 = end /\ k < Len(cells)
    BY <1>1, <1>2, <1>6, <1>12, <1>15
  <1>17. CellsHold(cells, u)
    BY <1>6, <1>13, <1>14, <1>15, <1>16 DEF CellsHold
  <1>18. QED
    BY <1>1, <1>12, <1>17

(* clear writes the null character into the first cell. *)
LEMMA ClearsText ==
  ASSUME NEW cells, IsCells(cells), Len(cells) >= 1, NEW b, b = Put(Intact(cells), 1, Nul), NEW t, t = <<>>
  PROVE  b = Intact(b.cells) /\ CellsHold(b.cells, t)
  <1>1. Len(cells) \in Nat /\ Nul \in Glyphs
    BY DEF IsCells, Glyphs
  <1>2. PICK i : i = 1 /\ i \in 1 .. Len(cells)
    BY <1>1
  <1>3. PICK v \in Glyphs : v = Nul
    BY <1>1
  <1>4. b = Put(Intact(cells), i, v)
    BY <1>2, <1>3
  <1>5. b = Intact(b.cells) /\ IsCells(b.cells) /\ Len(b.cells) = Len(cells) /\ b.cells[i] = v
    BY <1>2, <1>3, <1>4, StringPut
  <1>6. Len(t) = 0
    OBVIOUS
  <1>7. QED
    BY <1>1, <1>2, <1>3, <1>5, <1>6 DEF CellsHold

-----------------------------------------------------------------------------
(* The invariant of the strings.                                           *)

IsString(s) ==
  /\ s = [alive |-> s.alive, block |-> s.block, size |-> s.size, freed |-> s.freed]
  /\ s.alive \in BOOLEAN /\ s.freed \in BOOLEAN
  /\ s.block = Intact(s.block.cells)

(* The string s is right for the text t. *)
StringOK(s, t) ==
  /\ IsString(s)
  /\ IF t = Moved THEN s.alive /\ s.block.cells = <<>>
     ELSE ~s.freed /\ t \in Seq(Chars)
  /\ (s.alive /\ t # Moved) => s.size = Len(t) /\ CellsHold(s.block.cells, t)

StringsOK ==
  /\ ~corrupt
  /\ DOMAIN str = StringNames /\ DOMAIN text = StringNames
  /\ \A x \in StringNames : StringOK(str[x], text[x])

(* A string is as the property StringIsSequence wants it. *)
TextRight(x) ==
  /\ ~str[x].block.over
  /\ (str[x].alive /\ text[x] # Moved) =>
       /\ str[x].size = Len(text[x])
       /\ str[x].size < capacity(x)
       /\ SubSeq(str[x].block.cells, 1, str[x].size + 1) = Append(text[x], Nul)
StringsRight == ~corrupt /\ \A x \in StringNames : TextRight(x)

(* The strings are right until a call that the class gets wrong. *)
StringInv == ~misused => StringsOK

LEMMA StringsOKRight ==
  ASSUME StringsOK
  PROVE  StringsRight
  <1>1. SUFFICES ASSUME NEW x \in StringNames PROVE TextRight(x)
    BY DEF StringsOK, StringsRight
  <1>2. PICK s, t : s = str[x] /\ t = text[x]
    OBVIOUS
  <1>3. StringOK(s, t)
    BY <1>2 DEF StringsOK
  <1>4. ~s.block.over
    BY <1>3, IntactIs DEF StringOK, IsString
  <1>5. ASSUME s.alive, t # Moved
        PROVE  s.size = Len(t) /\ s.size < Len(s.block.cells) /\ SubSeq(s.block.cells, 1, s.size + 1) = Append(t, Nul)
    <2>1. t \in Seq(Chars) /\ s.size = Len(t) /\ CellsHold(s.block.cells, t)
      BY <1>3, <1>5 DEF StringOK
    <2>2. Len(t) < Len(s.block.cells) /\ SubSeq(s.block.cells, 1, Len(t) + 1) = Append(t, Nul)
      BY <2>1, HoldsIs
    <2>3. QED
      BY <2>1, <2>2
  <1>6. QED
    BY <1>2, <1>4, <1>5 DEF TextRight, capacity

LEMMA StringInvIs ==
  ASSUME StringInv
  PROVE  StringIsSequence
  BY StringsOKRight DEF StringInv, StringIsSequence, HoldsText, StringsRight, TextRight

(* Only the string x changes. *)
OnlyString(x) ==
  /\ DOMAIN str' = StringNames /\ DOMAIN text' = StringNames
  /\ \A z \in StringNames : z # x => str'[z] = str[z] /\ text'[z] = text[z]

LEMMA StringKept ==
  ASSUME StringsOK, NEW x \in StringNames, OnlyString(x), ~misused', ~corrupt', NEW s, NEW t, StringOK(s, t),
         str'[x] = s, text'[x] = t
  PROVE  StringInv'
  <1>1. ASSUME NEW z \in StringNames PROVE StringOK(str'[z], text'[z])
    BY DEF StringsOK, OnlyString
  <1>2. StringsOK'
    BY <1>1 DEF StringsOK, OnlyString
  <1>3. QED
    BY <1>2 DEF StringInv

LEMMA StringsKept ==
  ASSUME StringsOK, NEW x \in StringNames, NEW y \in StringNames, x # y, ~misused', ~corrupt',
         NEW s, NEW t, StringOK(s, t), NEW r, NEW u, StringOK(r, u),
         str' = [str EXCEPT ![x] = s, ![y] = r], text' = [text EXCEPT ![x] = t, ![y] = u]
  PROVE  StringInv'
  <1>1. ASSUME NEW z \in StringNames PROVE StringOK(str'[z], text'[z])
    <2>1. CASE z = x
      BY <2>1 DEF StringsOK
    <2>2. CASE z = y
      BY <2>2 DEF StringsOK
    <2>3. CASE z # x /\ z # y
      <3>1. str'[z] = str[z] /\ text'[z] = text[z]
        BY <2>3 DEF StringsOK
      <3>2. QED
        BY <3>1 DEF StringsOK
    <2>4. QED
      BY <2>1, <2>2, <2>3
  <1>2. StringsOK'
    BY <1>1 DEF StringsOK
  <1>3. QED
    BY <1>2 DEF StringInv

LEMMA StringMisused ==
  ASSUME misused'
  PROVE  StringInv'
  BY DEF StringInv

LEMMA OneStringChanged ==
  ASSUME StringsOK, NEW x \in StringNames, NEW s, NEW t, str' = [str EXCEPT ![x] = s], text' = [text EXCEPT ![x] = t]
  PROVE  OnlyString(x) /\ str'[x] = s /\ text'[x] = t
  BY DEF StringsOK, OnlyString

LEMMA DeadOK ==
  ASSUME NEW t, t = <<>>
  PROVE  StringOK(Dead, t)
  <1>1. PICK d : d = Dead
    OBVIOUS
  <1>2. d = [alive |-> FALSE, block |-> Intact(<<>>), size |-> 0, freed |-> FALSE]
    BY <1>1 DEF Dead
  <1>3. t \in Seq(Chars)
    OBVIOUS
  <1>4. t # Moved
    BY <1>3, TextNotMoved
  <1>5. IsString(d)
    BY <1>2 DEF IsString, Intact
  <1>6. QED
    BY <1>1, <1>2, <1>3, <1>4, <1>5 DEF StringOK

(* A string that holds the text t. *)
LEMMA HoldingOK ==
  ASSUME NEW t \in Seq(Chars), NEW cells, CellsHold(cells, t), NEW s,
         s = [alive |-> TRUE, block |-> Intact(cells), size |-> Len(t), freed |-> FALSE]
  PROVE  StringOK(s, t)
  <1>1. t # Moved
    BY TextNotMoved
  <1>2. s.alive = TRUE /\ s.block = Intact(cells) /\ s.size = Len(t) /\ s.freed = FALSE
    OBVIOUS
  <1>3. s.block.cells = cells
    BY <1>2 DEF Intact
  <1>4. s = [alive |-> s.alive, block |-> s.block, size |-> s.size, freed |-> s.freed]
    BY <1>2
  <1>5. IsString(s)
    BY <1>2, <1>3, <1>4 DEF IsString
  <1>6. QED
    BY <1>1, <1>2, <1>3, <1>5 DEF StringOK

LEMMA ConstructRight ==
  ASSUME StringsOK, ~misused, NEW x \in StringNames, NEW s, NEW t, StringOK(s, t), Construct(x, s, t)
  PROVE  StringInv'
  <1>1. str' = [str EXCEPT ![x] = s] /\ text' = [text EXCEPT ![x] = t] /\ misused' = misused /\ corrupt' = corrupt
    BY DEF Construct
  <1>2. ~misused' /\ ~corrupt'
    BY <1>1 DEF StringsOK
  <1>3. OnlyString(x) /\ str'[x] = s /\ text'[x] = t
    BY <1>1, OneStringChanged
  <1>4. QED
    BY <1>2, <1>3, StringKept

LEMMA EmptyOK ==
  ASSUME NEW n \in Nat, NEW t, t = <<>>
  PROVE  StringOK([Dead EXCEPT !.alive = TRUE, !.block = Intact(Filled(n))], t)
  <1>1. PICK s, cells : s = [Dead EXCEPT !.alive = TRUE, !.block = Intact(Filled(n))] /\ cells = Filled(n)
    OBVIOUS
  <1>2. s = [alive |-> TRUE, block |-> Intact(cells), size |-> 0, freed |-> FALSE]
    BY <1>1 DEF Dead
  <1>3. t \in Seq(Chars) /\ Len(t) = 0
    OBVIOUS
  <1>4. CellsHold(cells, t)
    BY <1>1, HoldsFilled
  <1>5. QED
    BY <1>1, <1>2, <1>3, <1>4, HoldingOK

LEMMA FromTextOK ==
  ASSUME NEW t \in Seq(Chars)
  PROVE  StringOK(FromText(t), t)
  <1>1. PICK s, cells : s = FromText(t) /\ cells = Append(t, Nul)
    OBVIOUS
  <1>2. s = [alive |-> TRUE, block |-> Intact(cells), size |-> Len(t), freed |-> FALSE]
    BY <1>1 DEF FromText, Dead
  <1>3. CellsHold(cells, t)
    BY <1>1, HoldsAppended
  <1>4. QED
    BY <1>1, <1>2, <1>3, HoldingOK

-----------------------------------------------------------------------------
(* One lemma per call.                                                     *)

LEMMA ConstructSubstringRight ==
  ASSUME StringsOK, ~misused, NEW x \in StringNames, NEW y \in StringNames, NEW start \in Nat, NEW length \in Nat,
         ConstructSubstring(x, y, start, length)
  PROVE  StringInv'
  <1>1. PICK t : t = text[y]
    OBVIOUS
  <1>2. t \in Seq(Chars) /\ str[y].size = Len(t) /\ CellsHold(str[y].block.cells, t)
    BY <1>1 DEF ConstructSubstring, StringsOK, StringOK
  <1>3. PICK u : u = [i \in {j \in 1 .. length : start + j <= Len(t)} |-> t[start + i]]
    OBVIOUS
  <1>4. Substring(y, start, length) = u /\ u \in Seq(Chars)
    <2>1. IsSlice(u, t, start, length)
      BY <1>3 DEF IsSlice
    <2>2. QED
      BY <1>2, <2>1, SubstringIs
  <1>5. PICK s : s = IF u = <<>> THEN [Dead EXCEPT !.alive = TRUE, !.block = Intact(Filled(KDefaultSize))] ELSE FromText(u)
    OBVIOUS
  <1>6. Construct(x, s, u)
    <2>1. Construct(x, IF Substring(y, start, length) = <<>>
                  THEN [Dead EXCEPT !.alive = TRUE, !.block = Intact(Filled(KDefaultSize))]
                  ELSE FromText(Substring(y, start, length)),
               [i \in {j \in 1 .. length : start + j <= Len(text[y])} |-> text[y][start + i]])
      BY Zenon DEF ConstructSubstring
    <2>2. QED
      BY <1>1, <1>3, <1>4, <1>5, <2>1
  <1>7. StringOK(s, u)
    <2>1. CASE u = <<>>
      <3>1. KDefaultSize \in Nat
        BY DynamicArrayAssumption
      <3>2. QED
        BY <1>5, <2>1, <3>1, EmptyOK
    <2>2. CASE u # <<>>
      BY <1>4, <1>5, <2>2, FromTextOK
    <2>3. QED
      BY <2>1, <2>2
  <1>8. QED
    BY <1>6, <1>7, ConstructRight

(* What is left of a string that is moved from. *)
LEMMA MovedOK ==
  ASSUME NEW s, NEW t, StringOK(s, t), s.alive, NEW f \in BOOLEAN,
         NEW r, r = [s EXCEPT !.block = Intact(<<>>), !.freed = f]
  PROVE  StringOK(r, Moved)
  <1>1. r = [alive |-> s.alive, block |-> Intact(<<>>), size |-> s.size, freed |-> f]
    BY DEF StringOK, IsString
  <1>2. r.alive = s.alive /\ r.block = Intact(<<>>) /\ r.size = s.size /\ r.freed = f
    BY <1>1
  <1>3. r.block.cells = <<>>
    BY <1>2 DEF Intact
  <1>4. IsString(r)
    BY <1>1, <1>2, <1>3 DEF StringOK, IsString
  <1>5. QED
    BY <1>2, <1>3, <1>4 DEF StringOK

LEMMA ConstructMovedRight ==
  ASSUME StringsOK, ~misused, NEW x \in StringNames, NEW y \in StringNames, ConstructMoved(x, y)
  PROVE  StringInv'
  <1>1. /\ x # y /\ str[y].alive /\ text[y] # Moved /\ ~str[y].freed /\ StringOK(str[y], text[y])
        /\ ~misused' /\ ~corrupt'
    BY DEF ConstructMoved, StringsOK, StringOK
  <1>2. PICK s, t, r, u : s = str[y] /\ t = text[y] /\ u = Moved /\ r = [s EXCEPT !.block = Intact(<<>>), !.freed = FALSE]
    OBVIOUS
  <1>3. StringOK(r, u) /\ StringOK(s, t)
    BY <1>1, <1>2, MovedOK
  <1>4. r = [s EXCEPT !.block = Intact(<<>>)]
    BY <1>1, <1>2 DEF StringOK, IsString
  <1>5. str' = [str EXCEPT ![x] = s, ![y] = r]
    <2>1. str' = [str EXCEPT ![x] = str[y], ![y].block = Intact(<<>>)]
      BY DEF ConstructMoved
    <2>2. str' = [str EXCEPT ![x] = s, ![y] = [s EXCEPT !.block = Intact(<<>>)]]
      BY <1>1, <1>2, <2>1 DEF StringsOK
    <2>3. QED
      BY <1>4, <2>2
  <1>6. text' = [text EXCEPT ![x] = t, ![y] = u]
    BY <1>2 DEF ConstructMoved
  <1>7. QED
    BY <1>1, <1>3, <1>5, <1>6, StringsKept

LEMMA StringMoveRight ==
  ASSUME StringsOK, ~misused, NEW x \in StringNames, NEW y \in StringNames, StringMove(x, y)
  PROVE  StringInv'
  <1>1. /\ x # y /\ str[y].alive /\ text[y] # Moved /\ StringOK(str[y], text[y]) /\ StringOK(str[x], text[x])
        /\ corrupt' = str[x].freed /\ misused' = str[x].freed
    BY DEF StringMove, StringsOK
  <1>2. PICK s, t, f, r, u : /\ s = str[y] /\ t = text[y] /\ u = Moved /\ f = (str[x].block.cells # <<>>)
                             /\ r = [s EXCEPT !.block = Intact(<<>>), !.freed = f]
    OBVIOUS
  <1>3. StringOK(r, u) /\ StringOK(s, t)
    <2>1. f \in BOOLEAN
      BY <1>2
    <2>2. QED
      BY <1>1, <1>2, <2>1, MovedOK
  <1>4. str' = [str EXCEPT ![x] = s, ![y] = r]
    <2>1. str' = [str EXCEPT ![x] = str[y],
                             ![y] = [str[y] EXCEPT !.block = Intact(<<>>), !.freed = str[x].block.cells # <<>>]]
      BY <1>1 DEF StringMove, StringsOK
    <2>2. QED
      BY <1>2, <2>1
  <1>5. text' = [text EXCEPT ![x] = t, ![y] = u]
    BY <1>2 DEF StringMove
  <1>6. CASE str[x].freed
    BY <1>1, <1>6, StringMisused
  <1>7. CASE ~str[x].freed
    BY <1>1, <1>3, <1>4, <1>5, <1>7, StringsKept
  <1>8. QED
    BY <1>6, <1>7

LEMMA DestroyRight ==
  ASSUME StringsOK, ~misused, NEW x \in StringNames, Destroy(x)
  PROVE  StringInv'
  <1>1. CASE str[x].freed
    BY <1>1, StringMisused DEF Destroy
  <1>2. CASE ~str[x].freed
    <2>1. PICK t : t = <<>>
      OBVIOUS
    <2>2. ~misused' /\ ~corrupt' /\ str' = [str EXCEPT ![x] = Dead] /\ text' = [text EXCEPT ![x] = t]
      BY <1>2, <2>1 DEF Destroy
    <2>3. OnlyString(x) /\ str'[x] = Dead /\ text'[x] = t
      BY <2>2, OneStringChanged
    <2>4. StringOK(Dead, t)
      BY <2>1, DeadOK
    <2>5. QED
      BY <2>2, <2>3, <2>4, StringKept
  <1>3. QED
    BY <1>1, <1>2

(* A string that is alive and not moved from. *)
LEMMA InUse ==
  ASSUME StringsOK, NEW x \in StringNames, str[x].alive, text[x] # Moved
  PROVE  \E cells : /\ str[x] = [alive |-> TRUE, block |-> Intact(cells), size |-> Len(text[x]), freed |-> FALSE]
                    /\ str[x].block = Intact(cells) /\ str[x].block.cells = cells
                    /\ str[x].size = Len(text[x]) /\ CellsHold(cells, text[x]) /\ text[x] \in Seq(Chars)
  <1>1. PICK s, t, cells : s = str[x] /\ t = text[x] /\ cells = s.block.cells
    OBVIOUS
  <1>2. StringOK(s, t) /\ s.alive /\ t # Moved
    BY <1>1 DEF StringsOK
  <1>3. s = [alive |-> s.alive, block |-> s.block, size |-> s.size, freed |-> s.freed]
        /\ s.alive = TRUE /\ s.freed = FALSE /\ s.block = Intact(cells) /\ s.size = Len(t)
        /\ CellsHold(cells, t) /\ t \in Seq(Chars)
    BY <1>1, <1>2 DEF StringOK, IsString
  <1>4. s = [alive |-> TRUE, block |-> Intact(cells), size |-> Len(t), freed |-> FALSE]
    BY <1>3
  <1>5. QED
    BY <1>1, <1>3, <1>4

LEMMA StringRemoveRight ==
  ASSUME StringsOK, ~misused, NEW x \in StringNames, NEW idx \in Nat, StringRemove(x, idx)
  PROVE  StringInv'
  <1>1. PICK s, t : s = str[x] /\ t = text[x]
    OBVIOUS
  <1>2. PICK old : /\ s = [alive |-> TRUE, block |-> Intact(old), size |-> Len(t), freed |-> FALSE]
                   /\ s.block = Intact(old) /\ s.block.cells = old
                   /\ s.size = Len(t) /\ CellsHold(old, t) /\ t \in Seq(Chars)
    BY <1>1, InUse DEF StringRemove
  <1>3. idx < Len(t)
    BY <1>1, <1>2 DEF StringRemove
  <1>4. PICK u : u = SubSeq(t, 1, idx) \o SubSeq(t, idx + 2, Len(t))
    OBVIOUS
  <1>5. PICK cells : cells = [i \in DOMAIN str[x].block.cells |->
             CASE idx < i /\ i < str[x].size -> str[x].block.cells[i + 1]
               [] i = str[x].size -> Nul
               [] OTHER -> str[x].block.cells[i]]
    OBVIOUS
  <1>6. u \in Seq(Chars) /\ Len(u) = Len(t) - 1 /\ CellsHold(cells, u)
    <2>1. IsShifted(cells, old, Len(t), idx) /\ IsWithout(u, t, idx)
      <3>1. IsShifted(cells, str[x].block.cells, str[x].size, idx)
        BY <1>5, Zenon DEF IsShifted
      <3>2. QED
        BY <1>1, <1>2, <1>4, <3>1 DEF IsWithout
    <2>2. QED
      BY <1>2, <1>3, <2>1, RemovesText
  <1>7. PICK r : r = [alive |-> TRUE, block |-> Intact(cells), size |-> Len(u), freed |-> FALSE]
    OBVIOUS
  <1>8. StringOK(r, u)
    BY <1>6, <1>7, HoldingOK
  <1>9. OnlyString(x) /\ str'[x] = r /\ text'[x] = u
    <2>1. str' = [str EXCEPT ![x].size = str[x].size - 1,
          ![x].block = Intact([i \in DOMAIN str[x].block.cells |->
             CASE idx < i /\ i < str[x].size -> str[x].block.cells[i + 1]
               [] i = str[x].size -> Nul
               [] OTHER -> str[x].block.cells[i]])]
      BY Zenon DEF StringRemove
    <2>2. str' = [str EXCEPT ![x].size = Len(u), ![x].block = Intact(cells)]
      <3>1. str' = [str EXCEPT ![x].size = str[x].size - 1, ![x].block = Intact(cells)]
        BY <1>5, <2>1, Zenon
      <3>2. str[x].size - 1 = Len(u)
        BY <1>1, <1>2, <1>6
      <3>3. QED
        BY <3>1, <3>2
    <2>3. str'[x] = [s EXCEPT !.size = Len(u), !.block = Intact(cells)]
          /\ DOMAIN str' = StringNames /\ \A z \in StringNames : z # x => str'[z] = str[z]
      BY <1>1, <2>2 DEF StringsOK
    <2>4. str'[x] = r
      BY <1>2, <1>7, <2>3
    <2>5. text' = [text EXCEPT ![x] = u]
      BY <1>1, <1>4 DEF StringRemove, StringsOK
    <2>6. QED
      BY <2>3, <2>4, <2>5 DEF StringsOK, OnlyString
  <1>10. ~misused' /\ ~corrupt'
    BY DEF StringRemove, StringsOK
  <1>11. QED
    BY <1>8, <1>9, <1>10, StringKept

LEMMA StringRemoveCharRight ==
  ASSUME StringsOK, ~misused, NEW x \in StringNames, NEW c \in Chars, StringRemoveChar(x, c)
  PROVE  StringInv'
  <1>1. str[x].size \in Nat
    <2>1. text[x] \in Seq(Chars) /\ str[x].size = Len(text[x])
      BY DEF StringRemoveChar, StringsOK, StringOK
    <2>2. QED
      BY <2>1, LenProperties
  <1>2. PICK idx \in 0 .. str[x].size - 1 : StringRemove(x, idx)
    BY DEF StringRemoveChar
  <1>3. idx \in Nat
    BY <1>1, <1>2
  <1>4. QED
    BY <1>2, <1>3, StringRemoveRight

LEMMA StringClearRight ==
  ASSUME StringsOK, ~misused, NEW x \in StringNames, StringClear(x)
  PROVE  StringInv'
  <1>1. PICK s, old : s = str[x] /\ old = s.block.cells
    OBVIOUS
  <1>2. StringOK(s, text[x]) /\ s.alive /\ misused' = (text[x] = Moved) /\ ~corrupt'
    BY <1>1 DEF StringsOK, StringClear
  <1>3. s = [alive |-> s.alive, block |-> Intact(old), size |-> s.size, freed |-> s.freed] /\ s.alive = TRUE
        /\ s.block = Intact(old)
    BY <1>1, <1>2 DEF StringOK, IsString
  <1>4. PICK b : b = Put(Intact(old), 1, Nul)
    OBVIOUS
  <1>5. PICK t : t = <<>>
    OBVIOUS
  <1>6. /\ str'[x] = [s EXCEPT !.size = 0, !.block = b] /\ text'[x] = t /\ OnlyString(x)
    <2>1. str' = [str EXCEPT ![x].size = 0, ![x].block = Put(str[x].block, 1, Nul)]
      BY DEF StringClear, StringsOK
    <2>2. str' = [str EXCEPT ![x].size = 0, ![x].block = b]
      BY <1>1, <1>3, <1>4, <2>1
    <2>3. text' = [text EXCEPT ![x] = t]
      BY <1>5 DEF StringClear
    <2>4. QED
      BY <1>1, <2>2, <2>3 DEF StringsOK, OnlyString
  <1>7. str'[x] = [alive |-> TRUE, block |-> b, size |-> 0, freed |-> s.freed]
    BY <1>3, <1>6
  <1>8. CASE text[x] = Moved
    BY <1>2, <1>8, StringMisused
  <1>9. CASE text[x] # Moved
    <2>1. ~s.freed /\ CellsHold(old, text[x]) /\ text[x] \in Seq(Chars)
      BY <1>1, <1>2, <1>9 DEF StringOK
    <2>2. IsCells(old) /\ Len(old) >= 1
      <3>1. Len(text[x]) \in Nat
        BY <2>1, LenProperties
      <3>2. QED
        BY <2>1, <3>1 DEF CellsHold, IsCells
    <2>3. b = Intact(b.cells) /\ CellsHold(b.cells, t)
      BY <1>4, <1>5, <2>2, ClearsText
    <2>4. t \in Seq(Chars) /\ Len(t) = 0
      BY <1>5
    <2>5. PICK r, cells : r = str'[x] /\ cells = b.cells
      OBVIOUS
    <2>6. r = [alive |-> TRUE, block |-> Intact(cells), size |-> Len(t), freed |-> FALSE]
      <3>1. s.freed = FALSE
        BY <1>2, <2>1 DEF StringOK, IsString
      <3>2. QED
        BY <1>7, <2>3, <2>4, <2>5, <3>1
    <2>7. StringOK(r, t)
      BY <2>3, <2>4, <2>5, <2>6, HoldingOK
    <2>8. ~misused'
      BY <1>2, <1>9
    <2>9. QED
      BY <1>2, <1>6, <2>5, <2>7, <2>8, StringKept
  <1>10. QED
    BY <1>8, <1>9

LEMMA StringInsertRight ==
  ASSUME StringsOK, ~misused, NEW x \in StringNames, NEW u \in StringTexts, StringInsert(x, u)
  PROVE  StringInv'
  <1>1. PICK s, t : s = str[x] /\ t = text[x]
    OBVIOUS
  <1>2. PICK old : /\ s = [alive |-> TRUE, block |-> Intact(old), size |-> Len(t), freed |-> FALSE]
                   /\ s.block = Intact(old) /\ s.block.cells = old
                   /\ s.size = Len(t) /\ CellsHold(old, t) /\ t \in Seq(Chars)
    BY <1>1, InUse DEF StringInsert
  <1>3. u \in Seq(Chars) /\ Len(u) <= MaxText /\ Len(u) \in Nat
    BY TextsAre
  <1>4. PICK d, w : d = OneByOne(Intact(old), Len(t), u) /\ w = t \o u
    OBVIOUS
  <1>5. IF Fills(Len(t) + Len(u), Len(old)) THEN d.over = TRUE ELSE d = Intact(d.cells) /\ CellsHold(d.cells, w)
    BY <1>2, <1>3, <1>4, InsertsText
  <1>6. misused' = Fills(Len(t) + Len(u), Len(old))
    <2>1. misused' = (\E n \in 0 .. MaxText : str[x].size + Len(u) = Doubled(Len(str[x].block.cells), n))
      BY DEF StringInsert, capacity
    <2>2. misused' = (\E n \in 0 .. MaxText : Len(t) + Len(u) = Doubled(Len(old), n))
      BY <1>1, <1>2, <2>1
    <2>3. QED
      BY <2>2 DEF Fills
  <1>7. str'[x] = [s EXCEPT !.size = Len(t) + Len(u), !.block = d] /\ text'[x] = w /\ OnlyString(x) /\ ~corrupt'
    <2>1. str' = [str EXCEPT ![x].size = str[x].size + Len(u), ![x].block = OneByOne(str[x].block, str[x].size, u)]
      BY DEF StringInsert, StringsOK
    <2>2. str' = [str EXCEPT ![x].size = Len(t) + Len(u), ![x].block = d]
      BY <1>1, <1>2, <1>4, <2>1
    <2>3. text' = [text EXCEPT ![x] = w]
      BY <1>1, <1>4 DEF StringInsert, StringsOK
    <2>4. ~corrupt'
      BY DEF StringInsert, StringsOK
    <2>5. QED
      BY <1>1, <2>2, <2>3, <2>4 DEF StringsOK, OnlyString
  <1>8. str'[x] = [alive |-> TRUE, block |-> d, size |-> Len(t) + Len(u), freed |-> FALSE]
    BY <1>2, <1>7
  <1>9. CASE Fills(Len(t) + Len(u), Len(old))
    BY <1>6, <1>9, StringMisused
  <1>10. CASE ~Fills(Len(t) + Len(u), Len(old))
    <2>1. w \in Seq(Chars) /\ Len(w) = Len(t) + Len(u)
      BY <1>2, <1>3, <1>4, ConcatProperties
    <2>2. PICK r, cells : r = str'[x] /\ cells = d.cells
      OBVIOUS
    <2>3. CellsHold(cells, w) /\ r = [alive |-> TRUE, block |-> Intact(cells), size |-> Len(w), freed |-> FALSE]
      BY <1>5, <1>8, <1>10, <2>1, <2>2
    <2>4. StringOK(r, w)
      BY <2>1, <2>3, HoldingOK
    <2>5. QED
      BY <1>6, <1>7, <1>10, <2>2, <2>4, StringKept
  <1>11. QED
    BY <1>9, <1>10

(* append to a string in use. *)
Appending(x, u) ==
  /\ str' = [str EXCEPT ![x] = Appended(str[x], str[x].size, u)]
  /\ text' = [text EXCEPT ![x] = text[x] \o u]

LEMMA AppendsRight ==
  ASSUME StringsOK, NEW x \in StringNames, str[x].alive, text[x] # Moved, NEW u \in Seq(Chars),
         Appending(x, u), ~misused', ~corrupt'
  PROVE  StringInv'
  <1>1. PICK s, t : s = str[x] /\ t = text[x]
    OBVIOUS
  <1>2. PICK old : /\ s = [alive |-> TRUE, block |-> Intact(old), size |-> Len(t), freed |-> FALSE]
                   /\ s.block = Intact(old) /\ s.block.cells = old
                   /\ s.size = Len(t) /\ CellsHold(old, t) /\ t \in Seq(Chars)
    BY <1>1, InUse
  <1>3. PICK a, w : a = Appended(s, Len(t), u) /\ w = t \o u
    OBVIOUS
  <1>4. StartsWith(s, t)
    <2>1. Len(t) \in Nat
      BY <1>2, LenProperties
    <2>2. IsCells(old) /\ Len(t) <= Len(old) /\ \A i \in 1 .. Len(t) : old[i] = t[i]
      BY <1>2, <2>1 DEF CellsHold, IsCells
    <2>3. QED
      BY <1>2, <2>2 DEF StartsWith
  <1>5. PICK cells : a = [s EXCEPT !.size = Len(t) + Len(u), !.block = Intact(cells)] /\ CellsHold(cells, w)
    <2>1. PICK cells : NowHolds(a, s, Len(t) + Len(u), cells, t \o u)
      BY <1>2, <1>3, <1>4, AppendsText
    <2>2. QED
      BY <1>3, <2>1 DEF NowHolds
  <1>6. w \in Seq(Chars) /\ Len(w) = Len(t) + Len(u)
    BY <1>2, <1>3, ConcatProperties
  <1>7. a = [alive |-> TRUE, block |-> Intact(cells), size |-> Len(w), freed |-> FALSE]
    BY <1>2, <1>5, <1>6
  <1>8. StringOK(a, w)
    BY <1>5, <1>6, <1>7, HoldingOK
  <1>9. str' = [str EXCEPT ![x] = a] /\ text' = [text EXCEPT ![x] = w]
    BY <1>1, <1>2, <1>3 DEF Appending
  <1>10. OnlyString(x) /\ str'[x] = a /\ text'[x] = w
    BY <1>9, OneStringChanged
  <1>11. QED
    BY <1>8, <1>10, StringKept

LEMMA StringAppendRight ==
  ASSUME StringsOK, ~misused, NEW x \in StringNames, NEW u \in StringTexts, StringAppend(x, u)
  PROVE  StringInv'
  <1>1. u \in Seq(Chars)
    BY TextsAre
  <1>2. /\ str[x].alive /\ text[x] # Moved /\ ~misused' /\ ~corrupt'
        /\ Appending(x, u)
    BY DEF StringAppend, StringsOK, Appending
  <1>3. QED
    BY <1>1, <1>2, AppendsRight

LEMMA StringAppendSelfRight ==
  ASSUME StringsOK, ~misused, NEW x \in StringNames, StringAppendSelf(x)
  PROVE  StringInv'
  <1>1. PICK u : u = text[x]
    OBVIOUS
  <1>2. /\ str[x].alive /\ text[x] # Moved
        /\ Appending(x, u)
    BY <1>1 DEF StringAppendSelf, StringsOK, Appending
  <1>3. u \in Seq(Chars)
    BY <1>1, <1>2 DEF StringsOK, StringOK
  <1>4. misused' = Grows(str[x], str[x].size, text[x]) /\ corrupt' = Grows(str[x], str[x].size, text[x])
    BY DEF StringAppendSelf
  <1>5. CASE Grows(str[x], str[x].size, text[x])
    BY <1>4, <1>5, StringMisused
  <1>6. CASE ~Grows(str[x], str[x].size, text[x])
    BY <1>2, <1>3, <1>4, <1>6, AppendsRight
  <1>7. QED
    BY <1>5, <1>6

(* A text assigned to a string whose block was not freed.                  *)
LEMMA Assigned ==
  ASSUME StringsOK, NEW x \in StringNames, str[x].alive, ~str[x].freed, NEW u \in Seq(Chars)
  PROVE  \E cells : /\ Appended(str[x], 0, u) = [alive |-> TRUE, block |-> Intact(cells), size |-> Len(u), freed |-> FALSE]
                    /\ CellsHold(cells, u)
  <1>1. PICK s, t : s = str[x] /\ t = text[x]
    OBVIOUS
  <1>2. StringOK(s, t)
    BY <1>1 DEF StringsOK
  <1>3. s.block = Intact(s.block.cells) /\ s.alive = TRUE /\ s.freed = FALSE
        /\ s = [alive |-> s.alive, block |-> s.block, size |-> s.size, freed |-> s.freed]
    BY <1>1, <1>2 DEF StringOK, IsString
  <1>4. IsCells(s.block.cells)
    <2>1. CASE t = Moved
      <3>1. s.block.cells = <<>>
        BY <1>2, <2>1 DEF StringOK
      <3>2. QED
        BY <3>1 DEF IsCells
    <2>2. CASE t # Moved
      BY <1>2, <1>3, <2>2 DEF StringOK, CellsHold
    <2>3. QED
      BY <2>1, <2>2
  <1>5. PICK e, a : e = <<>> /\ a = Appended(s, Len(e), u)
    OBVIOUS
  <1>6. e \in Seq(Chars) /\ Len(e) = 0
    BY <1>5
  <1>7. Len(e) <= Len(s.block.cells) /\ \A i \in 1 .. Len(e) : s.block.cells[i] = e[i]
    BY <1>4, <1>6 DEF IsCells
  <1>8. PICK cells : a = [s EXCEPT !.size = Len(e) + Len(u), !.block = Intact(cells)] /\ CellsHold(cells, e \o u)
    <2>1. StartsWith(s, e)
      BY <1>3, <1>4, <1>7 DEF StartsWith
    <2>2. PICK cells : NowHolds(a, s, Len(e) + Len(u), cells, e \o u)
      BY <1>5, <1>6, <2>1, AppendsText
    <2>3. QED
      BY <2>2 DEF NowHolds
  <1>9. e \o u = u /\ Len(e) + Len(u) = Len(u)
    <2>1. Len(u) \in Nat
      BY LenProperties
    <2>2. QED
      BY <1>5, <1>6, <2>1
  <1>10. a = [s EXCEPT !.size = Len(u), !.block = Intact(cells)] /\ CellsHold(cells, u)
    BY <1>8, <1>9
  <1>11. a = [alive |-> TRUE, block |-> Intact(cells), size |-> Len(u), freed |-> FALSE]
    BY <1>3, <1>10
  <1>12. a = Appended(str[x], 0, u)
    BY <1>1, <1>5, <1>6
  <1>13. QED
    BY <1>10, <1>11, <1>12

LEMMA StringAssignRight ==
  ASSUME StringsOK, ~misused, NEW x \in StringNames, NEW u \in StringTexts, StringAssign(x, u)
  PROVE  StringInv'
  <1>1. u \in Seq(Chars) /\ Len(u) \in Nat
    BY TextsAre
  <1>2. str[x].alive /\ corrupt' = (str[x].freed /\ Grows(str[x], 0, u)) /\ misused' = (str[x].freed /\ Grows(str[x], 0, u))
    BY DEF StringAssign
  <1>3. CASE str[x].freed
    <2>1. str[x].block.cells = <<>>
      BY <1>3 DEF StringsOK, StringOK
    <2>2. Grows(str[x], 0, u)
      BY <1>1, <2>1 DEF Grows
    <2>3. QED
      BY <1>2, <1>3, <2>2, StringMisused
  <1>4. CASE ~str[x].freed
    <2>1. PICK cells, a : /\ a = Appended(str[x], 0, u) /\ CellsHold(cells, u)
                          /\ a = [alive |-> TRUE, block |-> Intact(cells), size |-> Len(u), freed |-> FALSE]
      BY <1>1, <1>2, <1>4, Assigned
    <2>2. StringOK(a, u)
      BY <1>1, <2>1, HoldingOK
    <2>3. str' = [str EXCEPT ![x] = a] /\ text' = [text EXCEPT ![x] = u]
      BY <2>1 DEF StringAssign, StringsOK
    <2>4. OnlyString(x) /\ str'[x] = a /\ text'[x] = u
      BY <2>3, OneStringChanged
    <2>5. QED
      BY <1>2, <1>4, <2>2, <2>4, StringKept
  <1>5. QED
    BY <1>3, <1>4

LEMMA StringAssignSelfRight ==
  ASSUME StringsOK, ~misused, NEW x \in StringNames, StringAssignSelf(x)
  PROVE  StringInv'
  <1>1. PICK t, e : t = text[x] /\ e = <<>>
    OBVIOUS
  <1>2. str[x].alive /\ ~str[x].freed /\ t \in Seq(Chars) /\ t # Moved /\ e \in Seq(Chars) /\ Len(e) = 0
    BY <1>1 DEF StringAssignSelf, StringsOK, StringOK
  <1>3. PICK cells, a : /\ a = Appended(str[x], 0, e) /\ CellsHold(cells, e)
                        /\ a = [alive |-> TRUE, block |-> Intact(cells), size |-> Len(e), freed |-> FALSE]
    BY <1>2, Assigned
  <1>4. /\ str' = [str EXCEPT ![x] = a] /\ text' = text /\ misused' = (t # e) /\ ~corrupt'
    <2>1. str' = [str EXCEPT ![x] = Appended(str[x], 0, <<>>)] /\ text' = text /\ misused' = (text[x] # <<>>) /\ ~corrupt'
      BY DEF StringAssignSelf, StringsOK
    <2>2. QED
      BY <1>1, <1>3, <2>1
  <1>5. OnlyString(x) /\ str'[x] = a /\ text'[x] = t
    BY <1>1, <1>4 DEF StringsOK, OnlyString
  <1>6. CASE t = e
    <2>1. StringOK(a, t)
      BY <1>2, <1>3, <1>6, HoldingOK
    <2>2. QED
      BY <1>4, <1>5, <1>6, <2>1, StringKept
  <1>7. CASE t # e
    BY <1>4, <1>7, StringMisused
  <1>8. QED
    BY <1>6, <1>7

LEMMA StringInvInit ==
  ASSUME StringInit
  PROVE  StringInv
  <1>1. PICK e : e = <<>>
    OBVIOUS
  <1>2. StringOK(Dead, e)
    BY <1>1, DeadOK
  <1>3. ~misused /\ ~corrupt /\ str = [x \in StringNames |-> Dead] /\ text = [x \in StringNames |-> e]
    BY <1>1 DEF StringInit
  <1>4. StringsOK
    BY <1>2, <1>3 DEF StringsOK
  <1>5. QED
    BY <1>3, <1>4 DEF StringInv

LEMMA StringInvNext ==
  ASSUME StringInv, [StringNext]_stringVars
  PROVE  StringInv'
  <1>1. CASE UNCHANGED stringVars
    BY <1>1 DEF stringVars, StringInv, StringsOK
  <1>2. CASE StringNext
    <2>1. PICK x \in StringNames :
      \/ \E reserve \in 0 .. KDefaultSize : ConstructEmpty(x, reserve)
      \/ \E t \in StringTexts : \/ ConstructFrom(x, t)
                          \/ StringInsert(x, t)
                          \/ StringAppend(x, t)
                          \/ StringAssign(x, t)
      \/ \E y \in StringNames : \/ ConstructMoved(x, y)
                                \/ StringMove(x, y)
                                \/ \E start, length \in 0 .. MaxText :
                                     ConstructSubstring(x, y, start, length)
      \/ Destroy(x)
      \/ StringClear(x)
      \/ StringAppendSelf(x)
      \/ StringAssignSelf(x)
      \/ \E idx \in 0 .. MaxText : StringRemove(x, idx)
      \/ \E c \in Chars : StringRemoveChar(x, c)
      BY <1>2, Zenon DEF StringNext
    <2>2. ~misused
      BY <2>1 DEF ConstructEmpty, ConstructFrom, Construct, StringInsert, StringAppend, StringAssign, ConstructMoved,
                  StringMove, ConstructSubstring, Destroy, StringClear, StringAppendSelf, StringAssignSelf,
                  StringRemove, StringRemoveChar
    <2>3. StringsOK /\ MaxText \in Nat /\ KDefaultSize \in Nat
      BY <2>2, BasicStringAssumption, DynamicArrayAssumption DEF StringInv
    <2>4. ASSUME NEW reserve \in 0 .. KDefaultSize, ConstructEmpty(x, reserve) PROVE StringInv'
      <3>1. PICK e, s : e = <<>> /\ s = [Dead EXCEPT !.alive = TRUE, !.block = Intact(Filled(reserve))]
        OBVIOUS
      <3>2. StringOK(s, e)
        <4>1. reserve \in Nat
          BY <2>3
        <4>2. QED
          BY <3>1, <4>1, EmptyOK
      <3>3. Construct(x, s, e)
        BY <2>4, <3>1 DEF ConstructEmpty
      <3>4. QED
        BY <2>2, <2>3, <3>2, <3>3, ConstructRight
    <2>5. ASSUME NEW t \in StringTexts, ConstructFrom(x, t) PROVE StringInv'
      <3>1. StringOK(FromText(t), t)
        BY TextsAre, FromTextOK
      <3>2. QED
        BY <2>2, <2>3, <2>5, <3>1, ConstructRight DEF ConstructFrom
    <2>6. ASSUME NEW t \in StringTexts, StringInsert(x, t) \/ StringAppend(x, t) \/ StringAssign(x, t) PROVE StringInv'
      BY <2>2, <2>3, <2>6, StringInsertRight, StringAppendRight, StringAssignRight
    <2>7. ASSUME NEW y \in StringNames, ConstructMoved(x, y) \/ StringMove(x, y) PROVE StringInv'
      BY <2>2, <2>3, <2>7, ConstructMovedRight, StringMoveRight
    <2>8. ASSUME NEW y \in StringNames, NEW start \in 0 .. MaxText, NEW length \in 0 .. MaxText,
                 ConstructSubstring(x, y, start, length) PROVE StringInv'
      BY <2>2, <2>3, <2>8, ConstructSubstringRight
    <2>9. ASSUME Destroy(x) \/ StringClear(x) \/ StringAppendSelf(x) \/ StringAssignSelf(x) PROVE StringInv'
      BY <2>2, <2>3, <2>9, DestroyRight, StringClearRight, StringAppendSelfRight, StringAssignSelfRight
    <2>10. ASSUME NEW idx \in 0 .. MaxText, StringRemove(x, idx) PROVE StringInv'
      BY <2>2, <2>3, <2>10, StringRemoveRight
    <2>11. ASSUME NEW c \in Chars, StringRemoveChar(x, c) PROVE StringInv'
      BY <2>2, <2>3, <2>11, StringRemoveCharRight
    <2>12. QED
      BY <2>1, <2>4, <2>5, <2>6, <2>7, <2>8, <2>9, <2>10, <2>11
  <1>3. QED
    BY <1>1, <1>2

(* A string holds the text it was given, with the null character behind    *)
(* it, after every sequence of calls without one of those the class gets   *)
(* wrong: for any number of strings, characters and lengths.               *)
THEOREM StringsAreTexts == StringInit /\ [][StringNext]_stringVars => []StringIsSequence
  <1>1. StringInit => StringInv
    BY StringInvInit
  <1>2. StringInv /\ [StringNext]_stringVars => StringInv'
    BY StringInvNext
  <1>3. StringInv => StringIsSequence
    BY StringInvIs
  <1>4. QED
    BY <1>1, <1>2, <1>3, PTL


-----------------------------------------------------------------------------
(* Text: comparison and memset, for every length and every alphabet.       *)

IsText(s) == s \in Seq(Letters) /\ Len(s) \in Nat /\ \A i \in 1 .. Len(s) : s[i] \in Nat \ {0}

LEMMA TextInputs ==
  ASSUME NEW n, NEW s \in StringsOf(Letters, n)
  PROVE  IsText(s)
  <1>1. PICK k \in 0 .. n : s \in [1 .. k -> Letters]
    BY DEF StringsOf
  <1>2. k \in Nat
    BY <1>1
  <1>3. s \in Seq(Letters) /\ Len(s) = k
    BY <1>1, <1>2
  <1>4. \A i \in 1 .. k : s[i] \in Nat \ {0}
    <2>1. \A c \in Letters : c \in 1 .. 127
      BY TextAssumption
    <2>2. \A i \in 1 .. k : s[i] \in Letters
      BY <1>1
    <2>3. QED
      BY <2>1, <2>2
  <1>5. QED
    BY <1>2, <1>3, <1>4 DEF IsText

LEMMA AtIs ==
  ASSUME NEW s, IsText(s), NEW i \in Nat, i >= 1
  PROVE  /\ At(s, i) \in Nat /\ (i <= Len(s) => At(s, i) = s[i] /\ At(s, i) # 0)
         /\ (i > Len(s) => At(s, i) = 0)
  BY DEF At, IsText

Stops(s, t, i) ==
  /\ At(s, i) = 0 \/ At(s, i) # At(t, i)
  /\ \A j \in 1 .. i - 1 : At(s, j) = At(t, j)

(* The loop stops. *)
LEMMA DifferIs ==
  ASSUME NEW s, NEW t, IsText(s), IsText(t), NEW i, i = Differ(s, t)
  PROVE  i \in 1 .. Len(s) + 1 /\ i \in Nat /\ Stops(s, t, i)
  <1>1. Len(s) \in Nat
    BY DEF IsText
  <1>2. PICK n \in Nat : n = Len(s) + 1
    BY <1>1
  <1>3. PICK T : T = {k \in 1 .. n : At(s, k) = 0 \/ At(s, k) # At(t, k)}
    OBVIOUS
  <1>4. T \in SUBSET Nat /\ T # {}
    <2>1. n \in 1 .. n /\ n > Len(s)
      BY <1>1, <1>2
    <2>2. At(s, n) = 0
      BY <2>1, AtIs
    <2>3. n \in T
      BY <1>3, <2>1, <2>2
    <2>4. T \in SUBSET Nat
      BY <1>2, <1>3
    <2>5. QED
      BY <2>3, <2>4
  <1>5. PICK m \in T : \A k \in T : m <= k
    BY <1>4, Least
  <1>6. m \in 1 .. n
    BY <1>3, <1>5
  <1>7. ASSUME NEW j \in 1 .. m - 1 PROVE At(s, j) = At(t, j)
    <2>1. j \in 1 .. n /\ j < m
      BY <1>2, <1>6
    <2>2. j \notin T
      BY <1>2, <1>5, <1>6, <2>1
    <2>3. QED
      BY <1>3, <2>1, <2>2
  <1>8. Stops(s, t, m)
    BY <1>3, <1>5, <1>7 DEF Stops
  <1>9. i = CHOOSE k \in 1 .. n : Stops(s, t, k)
    BY <1>2 DEF Differ, Stops
  <1>10. i \in 1 .. n /\ Stops(s, t, i)
    BY <1>6, <1>8, <1>9
  <1>11. QED
    BY <1>2, <1>10

(* Up to where it stops the strings are the same, and they are the same    *)
(* altogether if it stops at characters that are.                          *)
LEMMA SameAtStop ==
  ASSUME NEW s, NEW t, IsText(s), IsText(t), NEW i, i = Differ(s, t)
  PROVE  (At(s, i) = At(t, i)) <=> s = t
  <1>1. i \in 1 .. Len(s) + 1 /\ i \in Nat /\ Stops(s, t, i) /\ Len(s) \in Nat /\ Len(t) \in Nat
    BY DifferIs DEF IsText
  <1>2. ASSUME At(s, i) = At(t, i) PROVE s = t
    <2>1. At(s, i) = 0 /\ At(t, i) = 0
      BY <1>1, <1>2 DEF Stops
    <2>2. i = Len(s) + 1 /\ i > Len(t)
      BY <1>1, <2>1, AtIs
    <2>3. ASSUME NEW j \in 1 .. Len(s) PROVE j <= Len(t) /\ s[j] = t[j]
      <3>1. j \in 1 .. i - 1 /\ j \in Nat /\ j >= 1 /\ j <= Len(s)
        BY <1>1, <2>2
      <3>2. At(s, j) = At(t, j)
        BY <3>1, <1>1 DEF Stops
      <3>3. At(s, j) = s[j] /\ At(s, j) # 0
        BY <3>1, AtIs
      <3>4. j <= Len(t)
        <4>1. At(t, j) # 0
          BY <3>2, <3>3
        <4>2. j > Len(t) => At(t, j) = 0
          BY <3>1, AtIs
        <4>3. QED
          BY <1>1, <3>1, <4>1, <4>2
      <3>5. At(t, j) = t[j]
        BY <3>1, <3>4, AtIs
      <3>6. QED
        BY <3>2, <3>3, <3>4, <3>5
    <2>4. Len(s) = Len(t)
      <3>1. CASE Len(s) = 0
        BY <1>1, <2>2, <3>1
      <3>2. CASE Len(s) # 0
        <4>1. Len(s) \in 1 .. Len(s)
          BY <1>1, <3>2
        <4>2. Len(s) <= Len(t)
          BY <2>3, <4>1
        <4>3. QED
          BY <1>1, <2>2, <4>2
      <3>3. QED
        BY <3>1, <3>2
    <2>5. QED
      BY <2>3, <2>4, SeqEqual DEF IsText
  <1>3. QED
    BY <1>2

(* A difference at which t is ahead is where the loop stops.               *)
LEMMA PrecedesAtStop ==
  ASSUME NEW s, NEW t, IsText(s), IsText(t), NEW d, d = Differ(s, t)
  PROVE  At(s, d) < At(t, d) <=> Precedes(s, t)
  <1>1. d \in 1 .. Len(s) + 1 /\ d \in Nat /\ d >= 1 /\ Stops(s, t, d) /\ Len(s) \in Nat /\ Len(t) \in Nat
    BY DifferIs DEF IsText
  <1>2. At(s, d) \in Nat /\ At(t, d) \in Nat
    BY <1>1, AtIs
  <1>3. ASSUME At(s, d) < At(t, d) PROVE Precedes(s, t)
    <2>1. d \in 1 .. Len(t) /\ At(t, d) = t[d]
      <3>1. At(t, d) # 0
        BY <1>2, <1>3
      <3>2. QED
        BY <1>1, <3>1, AtIs
    <2>2. ASSUME NEW j \in 1 .. d - 1 PROVE j <= Len(s) /\ s[j] = t[j]
      <3>1. j \in Nat /\ j >= 1 /\ j <= Len(s) /\ j <= Len(t)
        BY <1>1, <2>1
      <3>2. At(s, j) = s[j] /\ At(t, j) = t[j]
        BY <3>1, AtIs
      <3>3. QED
        BY <1>1, <3>1, <3>2 DEF Stops
    <2>3. d > Len(s) \/ s[d] < t[d]
      <3>1. SUFFICES ASSUME d <= Len(s) PROVE s[d] < t[d]
        BY <1>1
      <3>2. At(s, d) = s[d]
        BY <1>1, <3>1, AtIs
      <3>3. QED
        BY <1>3, <2>1, <3>2
    <2>4. QED
      BY <2>1, <2>2, <2>3 DEF Precedes
  <1>4. ASSUME Precedes(s, t) PROVE At(s, d) < At(t, d)
    <2>1. PICK i \in 1 .. Len(t) : /\ \A j \in 1 .. i - 1 : j <= Len(s) /\ s[j] = t[j]
                                   /\ i > Len(s) \/ s[i] < t[i]
      BY <1>4 DEF Precedes
    <2>2. i \in Nat /\ i >= 1 /\ i <= Len(t)
      BY <1>1, <2>1
    <2>3. At(s, i) < At(t, i)
      <3>1. At(t, i) = t[i] /\ At(t, i) \in Nat /\ At(t, i) # 0
        BY <2>2, AtIs
      <3>2. CASE i > Len(s)
        <4>1. At(s, i) = 0
          BY <2>2, <3>2, AtIs
        <4>2. QED
          BY <3>1, <4>1
      <3>3. CASE i <= Len(s)
        <4>1. At(s, i) = s[i]
          BY <2>2, <3>3, AtIs
        <4>2. s[i] < t[i]
          BY <1>1, <2>1, <2>2, <3>3
        <4>3. QED
          BY <3>1, <4>1, <4>2
      <3>4. QED
        BY <1>1, <2>2, <3>2, <3>3
    <2>4. At(s, i) \in Nat /\ At(t, i) \in Nat
      BY <2>2, AtIs
    <2>5. ASSUME NEW j \in 1 .. i - 1 PROVE At(s, j) # 0 /\ At(s, j) = At(t, j)
      <3>1. j \in Nat /\ j >= 1 /\ j <= Len(t) /\ j <= Len(s) /\ s[j] = t[j]
        BY <1>1, <2>1, <2>2
      <3>2. QED
        BY <3>1, AtIs
    <2>6. ~(d < i)
      <3>1. SUFFICES ASSUME d < i PROVE FALSE
        OBVIOUS
      <3>2. d \in 1 .. i - 1
        BY <1>1, <2>2, <3>1
      <3>3. At(s, d) # 0 /\ At(s, d) = At(t, d)
        BY <2>5, <3>2
      <3>4. QED
        BY <1>1, <3>3 DEF Stops
    <2>7. ~(i < d)
      <3>1. SUFFICES ASSUME i < d PROVE FALSE
        OBVIOUS
      <3>2. i \in 1 .. d - 1
        BY <1>1, <2>2, <3>1
      <3>3. At(s, i) = At(t, i)
        BY <1>1, <3>2 DEF Stops
      <3>4. QED
        BY <2>3, <2>4, <3>3
    <2>8. d = i
      BY <1>1, <2>2, <2>6, <2>7
    <2>9. QED
      BY <2>3, <2>8
  <1>5. QED
    BY <1>3, <1>4

LEMMA ComparisonRight ==
  ASSUME NEW s, NEW t, IsText(s), IsText(t)
  PROVE  /\ strcmp(s, t) < 0 <=> Precedes(s, t)
         /\ strcmp(s, t) = 0 <=> s = t
         /\ s = t => Equal(s, t)
  <1>1. PICK d : d = Differ(s, t)
    OBVIOUS
  <1>2. d \in Nat /\ d >= 1
    BY <1>1, DifferIs DEF IsText
  <1>3. At(s, d) \in Nat /\ At(t, d) \in Nat
    BY <1>2, AtIs
  <1>4. strcmp(s, t) = At(s, d) - At(t, d)
    BY <1>1 DEF strcmp
  <1>5. strcmp(s, t) < 0 <=> At(s, d) < At(t, d)
    BY <1>3, <1>4
  <1>6. strcmp(s, t) = 0 <=> At(s, d) = At(t, d)
    BY <1>3, <1>4
  <1>7. ASSUME s = t PROVE Equal(s, t)
    <2>1. PICK stop : stop = IF At(s, d) # 0 /\ At(t, d) # 0 THEN d + 1 ELSE d
      OBVIOUS
    <2>2. stop \in Nat /\ stop >= 1
      BY <1>2, <2>1
    <2>3. At(s, stop) \in Nat
      BY <2>2, AtIs
    <2>4. Compare(s, t) = At(s, stop) - At(t, stop)
      BY <1>1, <2>1 DEF Compare
    <2>5. QED
      BY <1>7, <2>3, <2>4 DEF Equal
  <1>8. At(s, d) < At(t, d) <=> Precedes(s, t)
    BY <1>1, PrecedesAtStop
  <1>9. At(s, d) = At(t, d) <=> s = t
    BY <1>1, SameAtStop
  <1>10. QED
    BY <1>5, <1>6, <1>7, <1>8, <1>9

(* strcmp gives the order of two strings, and String's operators take      *)
(* every string to be equal to itself: for every alphabet of characters of *)
(* 7 bits and every length.                                                *)
THEOREM StrcmpIsOrder == TextInit /\ [][FALSE]_input => []CompareIsOrder
  <1>1. ASSUME TextInit PROVE CompareIsOrder
    <2>1. SUFFICES ASSUME input.kind = "pair" PROVE CompareIsOrder
      BY DEF CompareIsOrder
    <2>2. PICK s \in StringsOf(Letters, CompareLength), t \in StringsOf(Letters, CompareLength) :
            input = [kind |-> "pair", s |-> s, t |-> t]
      BY <1>1, <2>1 DEF TextInit
    <2>3. IsText(s) /\ IsText(t) /\ input.s = s /\ input.t = t
      BY <2>2, TextInputs
    <2>4. /\ strcmp(s, t) < 0 <=> Precedes(s, t)
          /\ strcmp(s, t) = 0 <=> s = t
          /\ s = t => Equal(s, t)
      BY <2>3, ComparisonRight
    <2>5. QED
      BY <2>3, <2>4 DEF CompareIsOrder
  <1>2. CompareIsOrder /\ [FALSE]_input => CompareIsOrder'
    BY DEF CompareIsOrder
  <1>3. QED
    BY <1>1, <1>2, PTL

(* The bytes of a word are all the first byte, if there are no others.     *)
LEMMA WordIsByte ==
  ASSUME NEW value, \A m \in 2 .. 4 : value[m] = {}, NEW m \in 1 .. 4
  PROVE  WordOf(value)[m] = value[1]
  <1>1. value[2] = {} /\ value[3] = {} /\ value[4] = {}
    OBVIOUS
  <1>2. WordOf(value) = <<value[1], value[1], value[1], value[1]>>
    BY <1>1 DEF WordOf
  <1>3. m = 1 \/ m = 2 \/ m = 3 \/ m = 4
    OBVIOUS
  <1>4. QED
    BY <1>2, <1>3

LEMMA MemsetRight ==
  ASSUME NEW ptr \in Nat, NEW num \in 0 .. MaxSet, NEW value, \A m \in 2 .. 4 : value[m] = {},
         num >= HeadSize(ptr)
  PROVE  BytesSet(ptr, value, num) = [i \in 1 .. num |-> value[1]]
  <1>1. PICK space \in Nat : space = AddressSpace /\ num < space
    BY TextAssumption
  <1>2. PICK head \in 0 .. 3 : head = HeadSize(ptr)
    BY DEF HeadSize
  <1>3. num \in Nat /\ num - head \in 0 .. space - 1
    BY <1>1, <1>2, TextAssumption
  <1>4. (num - head) % space = num - head
    BY <1>1, <1>3
  <1>5. PICK body \in Nat : body = num - head
    BY <1>3
  <1>6. PICK words \in Nat : words = 4 * (body \div 4)
    BY <1>5
  <1>7. words + (body % 4) = body
    BY <1>5, <1>6
  <1>8. BytesSet(ptr, value, num) =
          [i \in 1 .. head + words + (body % 4) |->
             IF head < i /\ i <= head + words THEN WordOf(value)[((i - head - 1) % 4) + 1] ELSE value[1]]
    BY <1>1, <1>2, <1>4, <1>5, <1>6 DEF BytesSet
  <1>9. head + words + (body % 4) = num
    <2>1. PICK tail \in 0 .. 3 : tail = body % 4
      BY <1>5
    <2>2. words + tail = body
      BY <1>7, <2>1
    <2>3. head + body = num
      BY <1>2, <1>3, <1>5
    <2>4. head + words + tail = num
      BY <1>2, <1>6, <2>2, <2>3
    <2>5. QED
      BY <2>1, <2>4
  <1>10. ASSUME NEW i \in 1 .. num, head < i PROVE WordOf(value)[((i - head - 1) % 4) + 1] = value[1]
    <2>1. ((i - head - 1) % 4) + 1 \in 1 .. 4
      BY <1>2, <1>3, <1>10
    <2>2. QED
      BY <2>1, WordIsByte
  <1>11. QED
    BY <1>8, <1>9, <1>10

(* memset of a byte writes exactly what it was asked to, unless that is    *)
(* fewer bytes than the pointer is past a word boundary: for every pointer *)
(* of the inputs, every number of bytes below the address space, and every *)
(* width of a size_t.                                                      *)
THEOREM MemsetIsExactUnlessShort == TextInit /\ [][FALSE]_input => []MemsetIsExact
  <1>1. ASSUME TextInit PROVE MemsetIsExact
    <2>1. SUFFICES ASSUME input.kind = "memset", \A m \in 2 .. 4 : input.value[m] = {},
                          input.num >= HeadSize(input.ptr)
                   PROVE  BytesSet(input.ptr, input.value, input.num) = [i \in 1 .. input.num |-> input.value[1]]
      BY DEF MemsetIsExact
    <2>2. PICK ptr \in 0 .. 7, num \in 0 .. MaxSet, value \in [1 .. 4 -> SUBSET Bits] :
            input = [kind |-> "memset", ptr |-> ptr, num |-> num, value |-> value]
      BY <1>1, <2>1 DEF TextInit
    <2>3. input.ptr = ptr /\ input.num = num /\ input.value = value
      BY <2>2
    <2>4. BytesSet(ptr, value, num) = [i \in 1 .. num |-> value[1]]
      BY <2>1, <2>3, MemsetRight
    <2>5. QED
      BY <2>3, <2>4
  <1>2. MemsetIsExact /\ [FALSE]_input => MemsetIsExact'
    BY DEF MemsetIsExact
  <1>3. QED
    BY <1>1, <1>2, PTL


-----------------------------------------------------------------------------
(* Formatted output: what is printed for each conversion, for every format.*)

ArgumentStep(g, k) ==
  IF k = 0 THEN <<>>
  ELSE IF ~IsSpec(format[k]) THEN g[k - 1]
  ELSE g[k - 1] \o [w \in 1 .. Passed(format[k]) |-> <<k, w>>]
IsArguments(n, g) == g = [k \in 0 .. n |-> ArgumentStep(g, k)]

NothingPrinted == [words |-> <<>>, taken |-> 0, rejected |-> FALSE]
PrintedStep(g, k) == IF k = 0 THEN NothingPrinted ELSE AfterItem(g[k - 1], format[k])
IsPrinted(n, g) == g = [k \in 0 .. n |-> PrintedStep(g, k)]

NothingShown == [shown |-> <<>>, currentInput |-> 1]
ShownStep(inputs, g, k) == IF k = 0 THEN NothingShown ELSE SysAfterItem(inputs, g[k - 1], k)
IsShown(inputs, n, g) == g = [k \in 0 .. n |-> ShownStep(inputs, g, k)]

LEMMA ArgumentsExist ==
  ASSUME NEW end \in Nat
  PROVE  \E g : IsArguments(end, g)
  <1> DEFINE Failing == {m \in Nat : ~\E g : IsArguments(m, g)}
  <1>1. SUFFICES ASSUME Failing # {} PROVE FALSE
    OBVIOUS
  <1>2. PICK m \in Failing : \A l \in Failing : m <= l
    <2>1. Failing \in SUBSET Nat
      OBVIOUS
    <2>2. QED
      BY <1>1, <2>1, Least
  <1>3. CASE m = 0
    <2>1. PICK g : g = [i \in 0 .. 0 |-> <<>>]
      OBVIOUS
    <2>2. \A i \in 0 .. 0 : ArgumentStep(g, i) = <<>>
      BY DEF ArgumentStep
    <2>3. IsArguments(0, g)
      BY <2>1, <2>2 DEF IsArguments
    <2>4. QED
      BY <1>2, <1>3, <2>3
  <1>4. CASE m # 0
    <2>1. PICK l : l = m - 1
      OBVIOUS
    <2>2. l \in Nat /\ m = l + 1 /\ l < m
      BY <1>4, <2>1
    <2>3. l \notin Failing
      BY <1>2, <2>2
    <2>4. PICK g : IsArguments(l, g)
      BY <2>2, <2>3
    <2>5. PICK h : h = [i \in 0 .. l + 1 |-> IF i <= l THEN g[i] ELSE ArgumentStep(g, i)]
      OBVIOUS
    <2>6. \A i \in 0 .. l : g[i] = ArgumentStep(g, i)
      BY <2>4 DEF IsArguments
    <2>7. ASSUME NEW i \in 0 .. l + 1 PROVE h[i] = ArgumentStep(h, i)
      <3>1. CASE i = 0
        <4>1. ArgumentStep(h, i) = <<>> /\ ArgumentStep(g, i) = <<>>
          BY <3>1 DEF ArgumentStep
        <4>2. h[i] = g[i] /\ g[i] = ArgumentStep(g, i)
          BY <2>2, <2>5, <2>6, <3>1
        <4>3. QED
          BY <4>1, <4>2
      <3>2. CASE i # 0
        <4>1. i - 1 \in 0 .. l + 1 /\ i - 1 <= l
          BY <2>2, <3>2
        <4>2. h[i - 1] = g[i - 1]
          BY <2>5, <4>1
        <4>3. ArgumentStep(h, i) = ArgumentStep(g, i)
          BY <4>2 DEF ArgumentStep
        <4>4. h[i] = ArgumentStep(g, i)
          BY <2>2, <2>5, <2>6
        <4>5. QED
          BY <4>3, <4>4
      <3>3. QED
        BY <3>1, <3>2
    <2>8. IsArguments(l + 1, h)
      <3>1. h = [i \in 0 .. l + 1 |-> h[i]]
        BY <2>5
      <3>2. QED
        BY <2>7, <3>1 DEF IsArguments
    <2>9. QED
      BY <1>2, <2>2, <2>8
  <1>5. QED
    BY <1>3, <1>4

LEMMA ArgumentsAre ==
  ASSUME Len(format) \in Nat
  PROVE  /\ Arguments(0) = <<>>
         /\ \A k \in 1 .. Len(format) : Arguments(k) = (IF ~IsSpec(format[k]) THEN Arguments(k - 1)
                ELSE Arguments(k - 1) \o [w \in 1 .. Passed(format[k]) |-> <<k, w>>])
  <1>1. PICK g : g = CHOOSE h : IsArguments(Len(format), h)
    OBVIOUS
  <1>2. IsArguments(Len(format), g)
    BY <1>1, ArgumentsExist, Zenon
  <1>3. ASSUME NEW k PROVE Arguments(k) = (CHOOSE h : IsArguments(Len(format), h))[k]
    BY Zenon DEF Arguments, IsArguments, ArgumentStep
  <1>4. \A k : Arguments(k) = g[k]
    BY <1>1, <1>3
  <1>5. \A k \in 0 .. Len(format) : g[k] = ArgumentStep(g, k)
    BY <1>2 DEF IsArguments
  <1>6. g[0] = <<>>
    <2>1. g[0] = ArgumentStep(g, 0)
      BY <1>5
    <2>2. ArgumentStep(g, 0) = <<>>
      BY DEF ArgumentStep
    <2>3. QED
      BY <2>1, <2>2
  <1>7. ASSUME NEW k \in 1 .. Len(format) PROVE g[k] = ArgumentStep(g, k) /\ k # 0
    BY <1>5
  <1>8. ASSUME NEW k \in 1 .. Len(format) PROVE Arguments(k) = (IF ~IsSpec(format[k]) THEN Arguments(k - 1)
                ELSE Arguments(k - 1) \o [w \in 1 .. Passed(format[k]) |-> <<k, w>>])
    BY <1>4, <1>7 DEF ArgumentStep
  <1>9. QED
    BY <1>4, <1>6, <1>8

LEMMA PrintedExist ==
  ASSUME NEW end \in Nat
  PROVE  \E g : IsPrinted(end, g)
  <1> DEFINE Failing == {m \in Nat : ~\E g : IsPrinted(m, g)}
  <1>1. SUFFICES ASSUME Failing # {} PROVE FALSE
    OBVIOUS
  <1>2. PICK m \in Failing : \A l \in Failing : m <= l
    <2>1. Failing \in SUBSET Nat
      OBVIOUS
    <2>2. QED
      BY <1>1, <2>1, Least
  <1>3. CASE m = 0
    <2>1. PICK g : g = [i \in 0 .. 0 |-> NothingPrinted]
      OBVIOUS
    <2>2. \A i \in 0 .. 0 : PrintedStep(g, i) = NothingPrinted
      BY DEF PrintedStep
    <2>3. IsPrinted(0, g)
      BY <2>1, <2>2 DEF IsPrinted
    <2>4. QED
      BY <1>2, <1>3, <2>3
  <1>4. CASE m # 0
    <2>1. PICK l : l = m - 1
      OBVIOUS
    <2>2. l \in Nat /\ m = l + 1 /\ l < m
      BY <1>4, <2>1
    <2>3. l \notin Failing
      BY <1>2, <2>2
    <2>4. PICK g : IsPrinted(l, g)
      BY <2>2, <2>3
    <2>5. PICK h : h = [i \in 0 .. l + 1 |-> IF i <= l THEN g[i] ELSE PrintedStep(g, i)]
      OBVIOUS
    <2>6. \A i \in 0 .. l : g[i] = PrintedStep(g, i)
      BY <2>4 DEF IsPrinted
    <2>7. ASSUME NEW i \in 0 .. l + 1 PROVE h[i] = PrintedStep(h, i)
      <3>1. CASE i = 0
        <4>1. PrintedStep(h, i) = NothingPrinted /\ PrintedStep(g, i) = NothingPrinted
          BY <3>1 DEF PrintedStep
        <4>2. h[i] = g[i] /\ g[i] = PrintedStep(g, i)
          BY <2>2, <2>5, <2>6, <3>1
        <4>3. QED
          BY <4>1, <4>2
      <3>2. CASE i # 0
        <4>1. i - 1 \in 0 .. l + 1 /\ i - 1 <= l
          BY <2>2, <3>2
        <4>2. h[i - 1] = g[i - 1]
          BY <2>5, <4>1
        <4>3. PrintedStep(h, i) = PrintedStep(g, i)
          BY <4>2 DEF PrintedStep
        <4>4. h[i] = PrintedStep(g, i)
          BY <2>2, <2>5, <2>6
        <4>5. QED
          BY <4>3, <4>4
      <3>3. QED
        BY <3>1, <3>2
    <2>8. IsPrinted(l + 1, h)
      <3>1. h = [i \in 0 .. l + 1 |-> h[i]]
        BY <2>5
      <3>2. QED
        BY <2>7, <3>1 DEF IsPrinted
    <2>9. QED
      BY <1>2, <2>2, <2>8
  <1>5. QED
    BY <1>3, <1>4

LEMMA PrintedAre ==
  ASSUME Len(format) \in Nat
  PROVE  /\ Printed(0) = NothingPrinted
         /\ \A k \in 1 .. Len(format) : Printed(k) = AfterItem(Printed(k - 1), format[k])
  <1>1. PICK g : g = CHOOSE h : IsPrinted(Len(format), h)
    OBVIOUS
  <1>2. IsPrinted(Len(format), g)
    BY <1>1, PrintedExist, Zenon
  <1>3. ASSUME NEW k PROVE Printed(k) = (CHOOSE h : IsPrinted(Len(format), h))[k]
    BY Zenon DEF Printed, NothingPrinted, IsPrinted, PrintedStep
  <1>4. \A k : Printed(k) = g[k]
    BY <1>1, <1>3
  <1>5. \A k \in 0 .. Len(format) : g[k] = PrintedStep(g, k)
    BY <1>2 DEF IsPrinted
  <1>6. g[0] = NothingPrinted
    <2>1. g[0] = PrintedStep(g, 0)
      BY <1>5
    <2>2. PrintedStep(g, 0) = NothingPrinted
      BY DEF PrintedStep
    <2>3. QED
      BY <2>1, <2>2
  <1>7. ASSUME NEW k \in 1 .. Len(format) PROVE g[k] = PrintedStep(g, k) /\ k # 0
    BY <1>5
  <1>8. ASSUME NEW k \in 1 .. Len(format) PROVE Printed(k) = AfterItem(Printed(k - 1), format[k])
    BY <1>4, <1>7 DEF PrintedStep
  <1>9. QED
    BY <1>4, <1>6, <1>8

LEMMA ShownExist ==
  ASSUME NEW inputs, NEW end \in Nat
  PROVE  \E g : IsShown(inputs, end, g)
  <1> DEFINE Failing == {m \in Nat : ~\E g : IsShown(inputs, m, g)}
  <1>1. SUFFICES ASSUME Failing # {} PROVE FALSE
    OBVIOUS
  <1>2. PICK m \in Failing : \A l \in Failing : m <= l
    <2>1. Failing \in SUBSET Nat
      OBVIOUS
    <2>2. QED
      BY <1>1, <2>1, Least
  <1>3. CASE m = 0
    <2>1. PICK g : g = [i \in 0 .. 0 |-> NothingShown]
      OBVIOUS
    <2>2. \A i \in 0 .. 0 : ShownStep(inputs, g, i) = NothingShown
      BY DEF ShownStep
    <2>3. IsShown(inputs, 0, g)
      BY <2>1, <2>2 DEF IsShown
    <2>4. QED
      BY <1>2, <1>3, <2>3
  <1>4. CASE m # 0
    <2>1. PICK l : l = m - 1
      OBVIOUS
    <2>2. l \in Nat /\ m = l + 1 /\ l < m
      BY <1>4, <2>1
    <2>3. l \notin Failing
      BY <1>2, <2>2
    <2>4. PICK g : IsShown(inputs, l, g)
      BY <2>2, <2>3
    <2>5. PICK h : h = [i \in 0 .. l + 1 |-> IF i <= l THEN g[i] ELSE ShownStep(inputs, g, i)]
      OBVIOUS
    <2>6. \A i \in 0 .. l : g[i] = ShownStep(inputs, g, i)
      BY <2>4 DEF IsShown
    <2>7. ASSUME NEW i \in 0 .. l + 1 PROVE h[i] = ShownStep(inputs, h, i)
      <3>1. CASE i = 0
        <4>1. ShownStep(inputs, h, i) = NothingShown /\ ShownStep(inputs, g, i) = NothingShown
          BY <3>1 DEF ShownStep
        <4>2. h[i] = g[i] /\ g[i] = ShownStep(inputs, g, i)
          BY <2>2, <2>5, <2>6, <3>1
        <4>3. QED
          BY <4>1, <4>2
      <3>2. CASE i # 0
        <4>1. i - 1 \in 0 .. l + 1 /\ i - 1 <= l
          BY <2>2, <3>2
        <4>2. h[i - 1] = g[i - 1]
          BY <2>5, <4>1
        <4>3. ShownStep(inputs, h, i) = ShownStep(inputs, g, i)
          BY <4>2 DEF ShownStep
        <4>4. h[i] = ShownStep(inputs, g, i)
          BY <2>2, <2>5, <2>6
        <4>5. QED
          BY <4>3, <4>4
      <3>3. QED
        BY <3>1, <3>2
    <2>8. IsShown(inputs, l + 1, h)
      <3>1. h = [i \in 0 .. l + 1 |-> h[i]]
        BY <2>5
      <3>2. QED
        BY <2>7, <3>1 DEF IsShown
    <2>9. QED
      BY <1>2, <2>2, <2>8
  <1>5. QED
    BY <1>3, <1>4

LEMMA ShownAre ==
  ASSUME NEW inputs, Len(format) \in Nat
  PROVE  /\ SysPrinted(inputs, 0) = NothingShown
         /\ \A k \in 1 .. Len(format) : SysPrinted(inputs, k) = SysAfterItem(inputs, SysPrinted(inputs, k - 1), k)
  <1>1. PICK g : g = CHOOSE h : IsShown(inputs, Len(format), h)
    OBVIOUS
  <1>2. IsShown(inputs, Len(format), g)
    BY <1>1, ShownExist, Zenon
  <1>3. ASSUME NEW k PROVE SysPrinted(inputs, k) = (CHOOSE h : IsShown(inputs, Len(format), h))[k]
    BY Zenon DEF SysPrinted, NothingShown, IsShown, ShownStep
  <1>4. \A k : SysPrinted(inputs, k) = g[k]
    BY <1>1, <1>3
  <1>5. \A k \in 0 .. Len(format) : g[k] = ShownStep(inputs, g, k)
    BY <1>2 DEF IsShown
  <1>6. g[0] = NothingShown
    <2>1. g[0] = ShownStep(inputs, g, 0)
      BY <1>5
    <2>2. ShownStep(inputs, g, 0) = NothingShown
      BY DEF ShownStep
    <2>3. QED
      BY <2>1, <2>2
  <1>7. ASSUME NEW k \in 1 .. Len(format) PROVE g[k] = ShownStep(inputs, g, k) /\ k # 0
    BY <1>5
  <1>8. ASSUME NEW k \in 1 .. Len(format) PROVE SysPrinted(inputs, k) = SysAfterItem(inputs, SysPrinted(inputs, k - 1), k)
    BY <1>4, <1>7 DEF ShownStep
  <1>9. QED
    BY <1>4, <1>6, <1>8


-----------------------------------------------------------------------------
(* printf: the words of the arguments and the words taken for conversions. *)

Words == Nat \X Nat
Meant(i) == [w \in 1 .. Passed(format[i]) |-> <<i, w>>]
Wide(spec) == Passed(spec) = 2 /\ ~(spec[1] = "ll" /\ spec[2] \in {"d", "i"})
Upset(j) == IsSpec(format[j]) /\ (format[j][2] \notin Known \/ Wide(format[j]))
Calm(k) == \A j \in 1 .. k : ~Upset(j)

LEMMA PassedIs ==
  ASSUME NEW spec
  PROVE  /\ Passed(spec) \in 1 .. 2 /\ Taken(spec) \in 1 .. 2 /\ Taken(spec) <= Passed(spec)
         /\ Taken(spec) = Passed(spec) <=> ~Wide(spec)
  <1>1. CASE spec[1] = "ll" /\ spec[2] \in {"d", "i"}
    BY <1>1 DEF Passed, Taken, Wide
  <1>2. CASE ~(spec[1] = "ll" /\ spec[2] \in {"d", "i"})
    BY <1>2 DEF Passed, Taken, Wide
  <1>3. QED
    BY <1>1, <1>2

LEMMA MeantIs ==
  ASSUME NEW i \in Nat, NEW f, f = Meant(i)
  PROVE  f \in Seq(Words) /\ Len(f) = Passed(format[i]) /\ \A w \in 1 .. Len(f) : f[w] = <<i, w>>
  <1>1. PICK n \in 1 .. 2 : n = Passed(format[i])
    BY PassedIs
  <1>2. f = [w \in 1 .. n |-> <<i, w>>]
    BY <1>1 DEF Meant
  <1>3. n \in Nat /\ f \in [1 .. n -> Words]
    BY <1>1, <1>2 DEF Words
  <1>4. f \in Seq(Words) /\ Len(f) = n
    BY <1>3
  <1>5. QED
    BY <1>1, <1>2, <1>4

(* The words of the first k items come from these items.                   *)
ArgumentsOf(k, a) == a \in Seq(Words) /\ Len(a) \in Nat /\ \A m \in 1 .. Len(a) : a[m][1] \in 1 .. k

(* The arguments b, of a format that goes on behind one with a.            *)
Continues(a, b) == Len(a) <= Len(b) /\ \A m \in 1 .. Len(a) : b[m] = a[m]

Behind(k, a, b) ==
  /\ ArgumentsOf(k, b) /\ Continues(a, b)
  /\ Len(b) = Len(a) + (IF IsSpec(format[k]) THEN Passed(format[k]) ELSE 0)
  /\ IsSpec(format[k]) => \A w \in 1 .. Passed(format[k]) : b[Len(a) + w] = <<k, w>>

LEMMA ArgumentsNext ==
  ASSUME Len(format) \in Nat, NEW k \in 1 .. Len(format), NEW a, a = Arguments(k - 1), ArgumentsOf(k - 1, a),
         NEW b, b = Arguments(k)
  PROVE  Behind(k, a, b)
  <1>1. a \in Seq(Words) /\ Len(a) \in Nat /\ k \in Nat /\ \A m \in 1 .. Len(a) : a[m][1] \in 1 .. k
    BY DEF ArgumentsOf
  <1>2. b = IF ~IsSpec(format[k]) THEN a ELSE a \o Meant(k)
    BY ArgumentsAre DEF Meant
  <1>3. CASE ~IsSpec(format[k])
    BY <1>1, <1>2, <1>3 DEF Behind, ArgumentsOf, Continues
  <1>4. CASE IsSpec(format[k])
    <2>1. PICK f, n : f = Meant(k) /\ n = Passed(format[k])
      OBVIOUS
    <2>2. f \in Seq(Words) /\ Len(f) = n /\ n \in 1 .. 2 /\ \A w \in 1 .. n : f[w] = <<k, w>>
      BY <1>1, <2>1, MeantIs, PassedIs
    <2>3. b = a \o f
      BY <1>2, <1>4, <2>1
    <2>4. /\ b \in Seq(Words) /\ Len(b) = Len(a) + n
          /\ \A m \in 1 .. Len(a) + n : b[m] = IF m <= Len(a) THEN a[m] ELSE f[m - Len(a)]
      BY <1>1, <2>2, <2>3, ConcatProperties
    <2>5. ASSUME NEW m \in 1 .. Len(a) PROVE b[m] = a[m]
      BY <1>1, <2>2, <2>4
    <2>6. ASSUME NEW w \in 1 .. n PROVE b[Len(a) + w] = <<k, w>>
      <3>1. PICK m : m = Len(a) + w
        OBVIOUS
      <3>2. m \in 1 .. Len(a) + n /\ ~(m <= Len(a)) /\ m - Len(a) = w
        BY <1>1, <2>2, <3>1
      <3>3. b[m] = f[w]
        BY <2>4, <3>2
      <3>4. QED
        BY <2>2, <3>1, <3>3
    <2>7. ASSUME NEW m \in 1 .. Len(b) PROVE b[m][1] \in 1 .. k
      <3>1. CASE m <= Len(a)
        <4>1. m \in 1 .. Len(a)
          BY <1>1, <2>2, <2>4, <3>1
        <4>2. QED
          BY <1>1, <2>5, <4>1
      <3>2. CASE ~(m <= Len(a))
        <4>1. PICK w : w = m - Len(a)
          OBVIOUS
        <4>2. w \in 1 .. n /\ m = Len(a) + w
          BY <1>1, <2>2, <2>4, <3>2, <4>1
        <4>3. b[m] = <<k, w>>
          BY <2>6, <4>2
        <4>4. QED
          BY <1>1, <4>3
      <3>3. QED
        BY <3>1, <3>2
    <2>8. Len(b) \in Nat /\ Len(a) <= Len(b)
      BY <1>1, <2>2, <2>4
    <2>9. ArgumentsOf(k, b) /\ Continues(a, b)
      BY <2>4, <2>5, <2>7, <2>8 DEF ArgumentsOf, Continues
    <2>10. QED
      BY <1>4, <2>1, <2>4, <2>6, <2>9 DEF Behind
  <1>5. QED
    BY <1>3, <1>4

LEMMA ArgumentsSound ==
  ASSUME Len(format) \in Nat, NEW k \in 0 .. Len(format)
  PROVE  ArgumentsOf(k, Arguments(k))
  <1> DEFINE Failing == {m \in 0 .. Len(format) : ~ArgumentsOf(m, Arguments(m))}
  <1>1. SUFFICES ASSUME Failing # {} PROVE FALSE
    OBVIOUS
  <1>2. PICK m \in Failing : \A l \in Failing : m <= l
    <2>1. Failing \in SUBSET Nat
      OBVIOUS
    <2>2. QED
      BY <1>1, <2>1, Least
  <1>3. m # 0
    <2>1. PICK a : a = Arguments(0)
      OBVIOUS
    <2>2. a = <<>>
      BY <2>1, ArgumentsAre
    <2>3. a \in Seq(Words) /\ Len(a) = 0
      BY <2>2
    <2>4. ArgumentsOf(0, a)
      BY <2>3 DEF ArgumentsOf
    <2>5. QED
      BY <1>2, <2>1, <2>4
  <1>4. m \in 1 .. Len(format) /\ m - 1 \in 0 .. Len(format) /\ m - 1 < m
    BY <1>2, <1>3
  <1>5. ArgumentsOf(m - 1, Arguments(m - 1))
    BY <1>2, <1>4
  <1>6. PICK a, b : a = Arguments(m - 1) /\ b = Arguments(m)
    OBVIOUS
  <1>7. Behind(m, a, b)
    BY <1>4, <1>5, <1>6, ArgumentsNext
  <1>8. QED
    BY <1>2, <1>6, <1>7 DEF Behind

LEMMA ArgumentsContinue ==
  ASSUME Len(format) \in Nat, NEW k \in 0 .. Len(format)
  PROVE  Continues(Arguments(k), Arguments(Len(format)))
  <1> DEFINE Failing == {m \in k .. Len(format) : ~Continues(Arguments(k), Arguments(m))}
  <1>1. SUFFICES ASSUME Failing # {} PROVE FALSE
    <2>1. Len(format) \in k .. Len(format)
      OBVIOUS
    <2>2. QED
      BY <2>1
  <1>2. PICK m \in Failing : \A l \in Failing : m <= l
    <2>1. Failing \in SUBSET Nat
      OBVIOUS
    <2>2. QED
      BY <1>1, <2>1, Least
  <1>3. PICK a : a = Arguments(k)
    OBVIOUS
  <1>4. ArgumentsOf(k, a) /\ Len(a) \in Nat
    BY <1>3, ArgumentsSound DEF ArgumentsOf
  <1>5. m # k
    <2>1. Continues(a, a)
      BY <1>4 DEF Continues
    <2>2. QED
      BY <1>2, <1>3, <2>1
  <1>6. m \in 1 .. Len(format) /\ m - 1 \in k .. Len(format) /\ m - 1 \in 0 .. Len(format) /\ m - 1 < m
    BY <1>2, <1>5
  <1>7. PICK b, c : b = Arguments(m - 1) /\ c = Arguments(m)
    OBVIOUS
  <1>8. Continues(a, b)
    BY <1>2, <1>3, <1>6, <1>7
  <1>9. ArgumentsOf(m - 1, b)
    BY <1>6, <1>7, ArgumentsSound
  <1>10. Behind(m, b, c)
    BY <1>6, <1>7, <1>9, ArgumentsNext
  <1>11. Continues(b, c) /\ Len(b) \in Nat /\ Len(c) \in Nat
    BY <1>9, <1>10 DEF Behind, ArgumentsOf
  <1>12. Continues(a, c)
    <2>1. Len(a) <= Len(b) /\ Len(b) <= Len(c)
      BY <1>8, <1>11 DEF Continues
    <2>2. ASSUME NEW i \in 1 .. Len(a) PROVE c[i] = a[i]
      <3>1. i \in 1 .. Len(b)
        BY <1>4, <1>11, <2>1
      <3>2. QED
        BY <1>8, <1>11, <3>1 DEF Continues
    <2>3. QED
      BY <1>4, <1>11, <2>1, <2>2 DEF Continues
  <1>13. QED
    BY <1>2, <1>3, <1>7, <1>12


(* What vsprintf_internal has after k items with the arguments a: it has   *)
(* taken what was passed for them exactly as long as nothing upset it.     *)
IsPrintState(p) == p = [words |-> p.words, taken |-> p.taken, rejected |-> p.rejected]
PrintedOf(k, a, p) ==
  /\ IsPrintState(p)
  /\ p.words \in Seq(Seq(Words)) /\ Len(p.words) = k
  /\ p.taken \in Nat /\ p.taken <= Len(a) /\ p.rejected \in BOOLEAN
  /\ Calm(k) => ~p.rejected /\ p.taken = Len(a)
  /\ ~Calm(k) => p.rejected \/ p.taken < Len(a)

(* What item k adds. *)
PrintsNext(k, p, q) ==
  /\ \A i \in 1 .. k - 1 : q.words[i] = p.words[i]
  /\ IsSpec(format[k]) => (q.words[k] = Meant(k) <=> Calm(k))

LEMMA CalmNext ==
  ASSUME NEW k \in Nat, k >= 1
  PROVE  Calm(k) <=> Calm(k - 1) /\ ~Upset(k)
  <1>1. \A j \in 1 .. k : j = k \/ j \in 1 .. k - 1
    OBVIOUS
  <1>2. k \in 1 .. k /\ \A j \in 1 .. k - 1 : j \in 1 .. k
    OBVIOUS
  <1>3. QED
    BY <1>1, <1>2 DEF Calm

(* The words p with one entry more. *)
LEMMA WordsAppended ==
  ASSUME NEW k \in Nat, k >= 1, NEW w \in Seq(Seq(Words)), Len(w) = k - 1, NEW e \in Seq(Words), NEW v, v = Append(w, e)
  PROVE  v \in Seq(Seq(Words)) /\ Len(v) = k /\ v[k] = e /\ \A i \in 1 .. k - 1 : v[i] = w[i]
  <1>1. v \in Seq(Seq(Words)) /\ Len(v) = Len(w) + 1 /\ (\A i \in 1 .. Len(w) : v[i] = w[i]) /\ v[Len(w) + 1] = e
    BY AppendProperties
  <1>2. Len(w) + 1 = k
    OBVIOUS
  <1>3. QED
    BY <1>1, <1>2

LEMMA PrintedNext ==
  ASSUME Len(format) \in Nat, NEW k \in 1 .. Len(format), NEW a, NEW b, a = Arguments(k - 1), b = Arguments(k),
         NEW p, NEW q, p = Printed(k - 1), q = Printed(k), PrintedOf(k - 1, a, p)
  PROVE  PrintedOf(k, b, q) /\ PrintsNext(k, p, q)
  <1>1. k \in Nat /\ k >= 1 /\ k - 1 \in 0 .. Len(format) /\ k \in 0 .. Len(format)
    OBVIOUS
  <1>2. ArgumentsOf(k - 1, a) /\ Behind(k, a, b)
    BY <1>1, ArgumentsSound, ArgumentsNext
  <1>3. /\ p = [words |-> p.words, taken |-> p.taken, rejected |-> p.rejected]
        /\ p.words \in Seq(Seq(Words)) /\ Len(p.words) = k - 1
        /\ p.taken \in Nat /\ p.taken <= Len(a) /\ p.rejected \in BOOLEAN
        /\ Calm(k - 1) => ~p.rejected /\ p.taken = Len(a)
        /\ ~Calm(k - 1) => p.rejected \/ p.taken < Len(a)
    BY DEF PrintedOf, IsPrintState
  <1>4. Calm(k) <=> Calm(k - 1) /\ ~Upset(k)
    BY <1>1, CalmNext
  <1>5. q = AfterItem(p, format[k])
    BY PrintedAre
  <1>6. Len(a) \in Nat /\ Len(b) \in Nat /\ Len(b) = Len(a) + (IF IsSpec(format[k]) THEN Passed(format[k]) ELSE 0)
    BY <1>2 DEF Behind, ArgumentsOf
  <1>7. PICK n, e, words, item : n = p.taken /\ e = <<>> /\ words = p.words /\ item = format[k]
    OBVIOUS
  <1>8. e \in Seq(Words) /\ Len(e) = 0
    BY <1>7
  <1>9. Passed(item) \in 1 .. 2 /\ Taken(item) \in 1 .. 2 /\ Taken(item) <= Passed(item) /\ (Taken(item) = Passed(item) <=> ~Wide(item))
    BY PassedIs
  <1>10. PICK f : f = Meant(k)
    OBVIOUS
  <1>11. f \in Seq(Words) /\ Len(f) = Passed(item) /\ \A w \in 1 .. Len(f) : f[w] = <<k, w>>
    BY <1>1, <1>7, <1>10, MeantIs
  <1>12. CASE ~IsSpec(item)
    <2>1. q = [p EXCEPT !.words = Append(words, e)]
      BY <1>5, <1>7, <1>12 DEF AfterItem
    <2>2. PICK v : v = Append(words, e)
      OBVIOUS
    <2>3. q = [words |-> v, taken |-> p.taken, rejected |-> p.rejected]
      BY <1>3, <2>1, <2>2
    <2>4. v \in Seq(Seq(Words)) /\ Len(v) = k /\ \A i \in 1 .. k - 1 : v[i] = words[i]
      BY <1>1, <1>3, <1>7, <1>8, <2>2, WordsAppended
    <2>5. Len(b) = Len(a) /\ ~Upset(k)
      BY <1>6, <1>7, <1>12 DEF Upset
    <2>6. q.words = v /\ q.taken = p.taken /\ q.rejected = p.rejected
      BY <2>3
    <2>7. IsPrintState(q)
      BY <2>3, <2>6 DEF IsPrintState
    <2>8. PrintedOf(k, b, q)
      BY <1>3, <1>4, <2>4, <2>5, <2>6, <2>7 DEF PrintedOf
    <2>9. QED
      BY <1>7, <1>12, <2>4, <2>6, <2>8 DEF PrintsNext
  <1>13. CASE IsSpec(item) /\ (p.rejected \/ item[2] \notin Known)
    <2>1. q = [p EXCEPT !.words = Append(words, e), !.rejected = TRUE]
      BY <1>5, <1>7, <1>13 DEF AfterItem
    <2>2. PICK v : v = Append(words, e)
      OBVIOUS
    <2>3. q = [words |-> v, taken |-> p.taken, rejected |-> TRUE]
      BY <1>3, <2>1, <2>2
    <2>4. v \in Seq(Seq(Words)) /\ Len(v) = k /\ v[k] = e /\ \A i \in 1 .. k - 1 : v[i] = words[i]
      BY <1>1, <1>3, <1>7, <1>8, <2>2, WordsAppended
    <2>5. q.words = v /\ q.taken = p.taken /\ q.rejected = TRUE
      BY <2>3
    <2>6. ~Calm(k)
      <3>1. CASE p.rejected
        BY <1>3, <1>4, <3>1
      <3>2. CASE item[2] \notin Known
        BY <1>4, <1>7, <1>13, <3>2 DEF Upset
      <3>3. QED
        BY <1>13, <3>1, <3>2
    <2>7. q.taken \in Nat /\ q.taken <= Len(b)
      BY <1>3, <1>6, <1>7, <1>9, <1>13, <2>5
    <2>8. IsPrintState(q)
      BY <2>3, <2>5 DEF IsPrintState
    <2>9. PrintedOf(k, b, q)
      BY <2>4, <2>5, <2>6, <2>7, <2>8 DEF PrintedOf
    <2>10. e # f
      BY <1>8, <1>9, <1>11
    <2>11. QED
      BY <1>7, <1>10, <2>4, <2>5, <2>6, <2>9, <2>10 DEF PrintsNext
  <1>14. CASE IsSpec(item) /\ ~p.rejected /\ item[2] \in Known
    <2>1. PICK all : all = Arguments(Len(format))
      OBVIOUS
    <2>2. ArgumentsOf(Len(format), all) /\ Continues(b, all) /\ all \in Seq(Words) /\ Len(all) \in Nat /\ Len(b) <= Len(all)
      <3>1. Len(format) \in 0 .. Len(format)
        OBVIOUS
      <3>2. ArgumentsOf(Len(format), all) /\ Continues(b, all)
        BY <1>1, <2>1, <3>1, ArgumentsSound, ArgumentsContinue
      <3>3. QED
        BY <3>2 DEF ArgumentsOf, Continues
    <2>3. PICK t : t = Taken(item)
      OBVIOUS
    <2>4. t \in 1 .. 2 /\ Len(b) = Len(a) + Passed(item) /\ n \in Nat /\ n + t <= Len(b)
      BY <1>3, <1>6, <1>7, <1>9, <1>14, <2>3
    <2>5. PICK g : g = SubSeq(all, n + 1, n + t)
      OBVIOUS
    <2>6. Len(g) = t /\ g \in Seq(Words) /\ \A w \in 1 .. t : g[w] = all[n + w]
      <3>1. n + 1 \in Int /\ n + t \in Int /\ n + 1 <= n + t
        BY <2>4
      <3>2. ASSUME NEW m \in n + 1 .. n + t PROVE all[m] \in Words
        <4>1. m \in 1 .. Len(all)
          BY <1>6, <2>2, <2>4
        <4>2. QED
          BY <2>2, <4>1, LenProperties
      <3>3. /\ g \in Seq(Words) /\ Len(g) = IF n + 1 <= n + t THEN (n + t) - (n + 1) + 1 ELSE 0
            /\ \A i \in 1 .. (n + t) - (n + 1) + 1 : g[i] = all[(n + 1) + i - 1]
        BY <2>5, <3>1, <3>2, SubSeqProperties
      <3>4. (n + t) - (n + 1) + 1 = t /\ \A i \in 1 .. t : (n + 1) + i - 1 = n + i
        BY <2>4
      <3>5. QED
        BY <3>1, <3>3, <3>4
    <2>7. q = [p EXCEPT !.words = Append(words, g), !.taken = n + t]
      BY <1>5, <1>7, <1>14, <2>1, <2>3, <2>5 DEF AfterItem
    <2>8. PICK v : v = Append(words, g)
      OBVIOUS
    <2>9. q = [words |-> v, taken |-> n + t, rejected |-> p.rejected]
      BY <1>3, <2>7, <2>8
    <2>10. v \in Seq(Seq(Words)) /\ Len(v) = k /\ v[k] = g /\ \A i \in 1 .. k - 1 : v[i] = words[i]
      BY <1>1, <1>3, <1>7, <2>6, <2>8, WordsAppended
    <2>11. q.words = v /\ q.taken = n + t /\ q.rejected = FALSE
      BY <1>3, <1>14, <2>9
    <2>12. IsPrintState(q)
      BY <1>3, <1>14, <2>9, <2>11 DEF IsPrintState
    <2>13. Upset(k) <=> Wide(item)
      BY <1>7, <1>14 DEF Upset
    <2>14. Calm(k) <=> n = Len(a) /\ t = Passed(item)
      BY <1>3, <1>4, <1>6, <1>7, <1>9, <1>14, <2>3, <2>13
    <2>15. Calm(k) <=> n + t = Len(b)
      BY <1>3, <1>6, <1>7, <1>9, <2>3, <2>4, <2>14
    <2>16. PrintedOf(k, b, q)
      <3>1. q.taken \in Nat /\ q.taken <= Len(b) /\ (~Calm(k) => q.taken < Len(b)) /\ (Calm(k) => q.taken = Len(b))
        BY <1>6, <2>4, <2>11, <2>15
      <3>2. q.words \in Seq(Seq(Words)) /\ Len(q.words) = k /\ q.rejected \in BOOLEAN /\ ~q.rejected
        BY <2>10, <2>11
      <3>3. QED
        BY <2>12, <3>1, <3>2 DEF PrintedOf
    <2>17. ASSUME Calm(k) PROVE g = f
      <3>1. n = Len(a) /\ t = Passed(item)
        BY <2>14, <2>17
      <3>2. ASSUME NEW w \in 1 .. t PROVE g[w] = f[w]
        <4>1. b[Len(a) + w] = <<k, w>>
          BY <1>2, <1>7, <1>14, <3>1 DEF Behind
        <4>2. n + w \in 1 .. Len(b)
          BY <1>6, <2>4, <3>1
        <4>3. all[n + w] = b[n + w]
          BY <2>2, <4>2 DEF Continues
        <4>4. w \in 1 .. Len(f)
          BY <1>11, <3>1
        <4>5. QED
          BY <1>11, <2>6, <3>1, <4>1, <4>3, <4>4
      <3>3. QED
        BY <1>11, <2>6, <3>1, <3>2, SeqEqual
    <2>18. ASSUME ~Calm(k) PROVE g # f
      <3>1. CASE t # Passed(item)
        BY <1>11, <2>6, <3>1
      <3>2. CASE t = Passed(item)
        <4>1. n < Len(a)
          BY <1>3, <1>6, <1>7, <2>14, <2>18, <3>2
        <4>2. n + 1 \in 1 .. Len(a) /\ n + 1 \in 1 .. Len(b)
          BY <1>6, <2>4, <4>1
        <4>3. all[n + 1] = b[n + 1] /\ b[n + 1] = a[n + 1]
          BY <1>2, <2>2, <4>2 DEF Behind, Continues
        <4>4. a[n + 1][1] \in 1 .. k - 1
          BY <1>2, <4>2 DEF ArgumentsOf
        <4>5. 1 \in 1 .. t /\ 1 \in 1 .. Len(f)
          BY <1>9, <1>11, <2>4
        <4>6. g[1] = a[n + 1] /\ f[1] = <<k, 1>>
          BY <1>11, <2>6, <4>3, <4>5
        <4>7. g[1][1] # k /\ f[1][1] = k
          BY <1>1, <4>4, <4>6
        <4>8. QED
          BY <4>7
      <3>3. QED
        BY <3>1, <3>2
    <2>19. QED
      BY <1>7, <1>10, <2>10, <2>11, <2>16, <2>17, <2>18 DEF PrintsNext
  <1>15. QED
    BY <1>3, <1>12, <1>13, <1>14

LEMMA PrintedSound ==
  ASSUME Len(format) \in Nat, NEW k \in 0 .. Len(format)
  PROVE  PrintedOf(k, Arguments(k), Printed(k))
  <1> DEFINE Failing == {m \in 0 .. Len(format) : ~PrintedOf(m, Arguments(m), Printed(m))}
  <1>1. SUFFICES ASSUME Failing # {} PROVE FALSE
    OBVIOUS
  <1>2. PICK m \in Failing : \A l \in Failing : m <= l
    <2>1. Failing \in SUBSET Nat
      OBVIOUS
    <2>2. QED
      BY <1>1, <2>1, Least
  <1>3. m # 0
    <2>1. PICK a, p, e : a = Arguments(0) /\ p = Printed(0) /\ e = <<>>
      OBVIOUS
    <2>2. a = e /\ p = [words |-> e, taken |-> 0, rejected |-> FALSE]
      BY <2>1, ArgumentsAre, PrintedAre DEF NothingPrinted
    <2>3. Len(a) = 0 /\ e \in Seq(Seq(Words)) /\ Len(e) = 0
      BY <2>1, <2>2
    <2>4. Calm(0)
      BY DEF Calm
    <2>5. p.words = e /\ p.taken = 0 /\ p.rejected = FALSE
      BY <2>2
    <2>6. IsPrintState(p)
      BY <2>2, <2>5 DEF IsPrintState
    <2>7. PrintedOf(0, a, p)
      <3>1. p.words \in Seq(Seq(Words)) /\ Len(p.words) = 0
        BY <2>3, <2>5, Zenon
      <3>2. p.taken \in Nat /\ p.taken = Len(a) /\ p.taken <= Len(a)
        BY <2>3, <2>5
      <3>3. p.rejected \in BOOLEAN /\ ~p.rejected
        BY <2>5
      <3>4. QED
        BY <2>4, <2>6, <3>1, <3>2, <3>3 DEF PrintedOf
    <2>8. QED
      BY <1>2, <2>1, <2>7
  <1>4. m \in 1 .. Len(format) /\ m - 1 \in 0 .. Len(format) /\ m - 1 < m
    BY <1>2, <1>3
  <1>5. PICK a, b, p, q : a = Arguments(m - 1) /\ b = Arguments(m) /\ p = Printed(m - 1) /\ q = Printed(m)
    OBVIOUS
  <1>6. PrintedOf(m - 1, a, p)
    BY <1>2, <1>4, <1>5
  <1>7. PrintedOf(m, b, q)
    BY <1>4, <1>5, <1>6, PrintedNext
  <1>8. QED
    BY <1>2, <1>5, <1>7

(* What is printed for item i is what was passed for it exactly if nothing *)
(* up to it upset the arguments.                                           *)
LEMMA PrintfRight ==
  ASSUME Len(format) \in Nat, NEW i \in 1 .. Len(format), IsSpec(format[i])
  PROVE  Printed(Len(format)).words[i] = Meant(i) <=> Calm(i)
  <1> DEFINE Failing == {m \in i .. Len(format) : ~(Printed(m).words[i] = Meant(i) <=> Calm(i))}
  <1>1. SUFFICES ASSUME Failing # {} PROVE FALSE
    <2>1. Len(format) \in i .. Len(format)
      OBVIOUS
    <2>2. QED
      BY <2>1
  <1>2. PICK m \in Failing : \A l \in Failing : m <= l
    <2>1. Failing \in SUBSET Nat
      OBVIOUS
    <2>2. QED
      BY <1>1, <2>1, Least
  <1>3. m \in 1 .. Len(format) /\ m - 1 \in 0 .. Len(format) /\ m - 1 < m
    BY <1>2
  <1>4. PICK a, b, p, q : a = Arguments(m - 1) /\ b = Arguments(m) /\ p = Printed(m - 1) /\ q = Printed(m)
    OBVIOUS
  <1>5. PrintedOf(m - 1, a, p)
    BY <1>3, <1>4, PrintedSound
  <1>6. PrintsNext(m, p, q)
    BY <1>3, <1>4, <1>5, PrintedNext
  <1>7. CASE m = i
    BY <1>2, <1>4, <1>6, <1>7 DEF PrintsNext
  <1>8. CASE m # i
    <2>1. m - 1 \in i .. Len(format) /\ i \in 1 .. m - 1
      BY <1>2, <1>8
    <2>2. Printed(m - 1).words[i] = Meant(i) <=> Calm(i)
      BY <1>2, <1>3, <2>1
    <2>3. q.words[i] = p.words[i]
      BY <1>6, <2>1 DEF PrintsNext
    <2>4. QED
      BY <1>2, <1>4, <2>2, <2>3
  <1>9. QED
    BY <1>7, <1>8


-----------------------------------------------------------------------------
(* sys::print: the inputs and the conversions it has met.                  *)

ShowItems == {i \in DOMAIN format : HasFormatSpec(format[i])}
MetBy(k) == {j \in ShowItems : j <= k}
Before(i) == {j \in ShowItems : j < i}

LEMMA MetNext ==
  ASSUME Len(format) \in Nat, DOMAIN format = 1 .. Len(format), NEW k \in 1 .. Len(format)
  PROVE  /\ IsFiniteSet(MetBy(k)) /\ Cardinality(MetBy(k)) \in Nat /\ Cardinality(MetBy(k - 1)) \in Nat
         /\ Cardinality(MetBy(k)) = Cardinality(MetBy(k - 1)) + (IF HasFormatSpec(format[k]) THEN 1 ELSE 0)
         /\ Before(k) = MetBy(k - 1)
  <1>1. \A m : MetBy(m) \in SUBSET (1 .. Len(format))
    BY DEF MetBy, ShowItems
  <1>2. IsFiniteSet(1 .. Len(format))
    BY FS_Interval
  <1>3. \A m : IsFiniteSet(MetBy(m))
    BY <1>1, <1>2, FS_Subset
  <1>4. \A m : Cardinality(MetBy(m)) \in Nat
    BY <1>3, FS_CardinalityType
  <1>5. Before(k) = MetBy(k - 1)
    BY DEF Before, MetBy, ShowItems
  <1>6. CASE HasFormatSpec(format[k])
    <2>1. MetBy(k) = MetBy(k - 1) \cup {k} /\ k \notin MetBy(k - 1)
      BY <1>6 DEF MetBy, ShowItems
    <2>2. Cardinality(MetBy(k)) = Cardinality(MetBy(k - 1)) + 1
      BY <1>3, <2>1, FS_AddElement
    <2>3. QED
      BY <1>3, <1>4, <1>5, <1>6, <2>2
  <1>7. CASE ~HasFormatSpec(format[k])
    <2>1. MetBy(k) = MetBy(k - 1)
      BY <1>7 DEF MetBy, ShowItems
    <2>2. QED
      BY <1>3, <1>4, <1>5, <1>7, <2>1
  <1>8. QED
    BY <1>6, <1>7

Showings == Nat \X Nat \X {"address", "number", "text"}

(* The m-th input is shown at its own conversion, in its form. *)
ShowsInput(inputs, m, s) ==
  /\ s[1] = m /\ s[2] \in ShowItems /\ Cardinality(Before(s[2])) = m - 1
  /\ (s[3] = "address") <=> (inputs[m] = "number" /\ format[s[2]][2] # "@")

IsShowState(p) == p = [shown |-> p.shown, currentInput |-> p.currentInput]
ShownOf(inputs, c, p) ==
  /\ IsShowState(p) /\ p.currentInput = c + 1 /\ p.shown \in Seq(Showings)
  /\ Len(p.shown) = IF c < Len(inputs) THEN c ELSE Len(inputs)
  /\ \A m \in 1 .. Len(p.shown) : ShowsInput(inputs, m, p.shown[m])

LEMMA InputsAre ==
  ASSUME NEW inputs \in InputLists
  PROVE  Len(inputs) \in Nat /\ \A k \in 1 .. Len(inputs) : inputs[k] \in {"number", "text"}
  <1>1. PICK n \in 1 .. 2 : inputs \in [1 .. n -> {"number", "text"}]
    BY DEF InputLists
  <1>2. n \in Nat
    BY <1>1
  <1>3. Len(inputs) = n
    BY <1>1, <1>2
  <1>4. QED
    BY <1>1, <1>2, <1>3

LEMMA FormIs ==
  ASSUME NEW kind \in {"number", "text"}, NEW letter \in {"@", "x", "p"}
  PROVE  /\ Form(kind, letter) \in {"address", "number", "text"}
         /\ (Form(kind, letter) = "address") <=> (kind = "number" /\ letter # "@")
  BY DEF Form

LEMMA ShownNext ==
  ASSUME Len(format) \in Nat, DOMAIN format = 1 .. Len(format), NEW k \in 1 .. Len(format), NEW inputs \in InputLists,
         NEW p, NEW q, p = SysPrinted(inputs, k - 1), q = SysPrinted(inputs, k),
         ShownOf(inputs, Cardinality(MetBy(k - 1)), p)
  PROVE  ShownOf(inputs, Cardinality(MetBy(k)), q)
  <1>1. Len(inputs) \in Nat /\ \A i \in 1 .. Len(inputs) : inputs[i] \in {"number", "text"}
    BY InputsAre
  <1>2. q = SysAfterItem(inputs, p, k)
    BY ShownAre
  <1>3. PICK c, d : c = Cardinality(MetBy(k - 1)) /\ d = Cardinality(MetBy(k))
    OBVIOUS
  <1>4. c \in Nat /\ d \in Nat /\ d = c + (IF HasFormatSpec(format[k]) THEN 1 ELSE 0) /\ Before(k) = MetBy(k - 1)
    BY <1>3, MetNext
  <1>5. /\ IsShowState(p) /\ p.currentInput = c + 1 /\ p.shown \in Seq(Showings)
        /\ Len(p.shown) = (IF c < Len(inputs) THEN c ELSE Len(inputs))
        /\ \A m \in 1 .. Len(p.shown) : ShowsInput(inputs, m, p.shown[m])
    BY <1>3 DEF ShownOf
  <1>6. CASE ~HasFormatSpec(format[k])
    <2>1. q = p /\ d = c
      BY <1>2, <1>4, <1>6 DEF SysAfterItem
    <2>2. QED
      BY <1>3, <2>1
  <1>7. CASE HasFormatSpec(format[k])
    <2>1. PICK i, e : i = c + 1 /\ e = <<i, k, Form(inputs[i], format[k][2])>>
      OBVIOUS
    <2>2. i \in Nat /\ d = i
      BY <1>4, <1>7, <2>1
    <2>3. q = [shown |-> IF i > Len(inputs) THEN p.shown ELSE Append(p.shown, e), currentInput |-> i + 1]
      BY <1>2, <1>5, <1>7, <2>1 DEF SysAfterItem
    <2>4. q.currentInput = d + 1 /\ IsShowState(q)
      <3>1. PICK s : s = IF i > Len(inputs) THEN p.shown ELSE Append(p.shown, e)
        OBVIOUS
      <3>2. q = [shown |-> s, currentInput |-> i + 1]
        BY <2>3, <3>1
      <3>3. q.shown = s /\ q.currentInput = i + 1
        BY <3>2
      <3>4. QED
        BY <2>2, <3>2, <3>3 DEF IsShowState
    <2>5. CASE i > Len(inputs)
      <3>1. q.shown = p.shown
        BY <2>3, <2>5
      <3>2. ~(c < Len(inputs)) /\ ~(d < Len(inputs))
        BY <1>1, <1>4, <2>1, <2>2, <2>5
      <3>3. ShownOf(inputs, d, q)
        BY <1>5, <2>4, <3>1, <3>2 DEF ShownOf
      <3>4. QED
        BY <1>3, <3>3
    <2>6. CASE ~(i > Len(inputs))
      <3>1. PICK s : s = q.shown
        OBVIOUS
      <3>2. s = Append(p.shown, e)
        BY <2>3, <2>6, <3>1
      <3>3. Len(p.shown) = c /\ c < Len(inputs) /\ i \in 1 .. Len(inputs)
        BY <1>1, <1>4, <1>5, <2>1, <2>2, <2>6
      <3>4. format[k][2] \in {"@", "x", "p"} /\ inputs[i] \in {"number", "text"}
        BY <1>1, <1>7, <3>3 DEF HasFormatSpec
      <3>5. PICK f : f = Form(inputs[i], format[k][2])
        OBVIOUS
      <3>6. f \in {"address", "number", "text"} /\ ((f = "address") <=> (inputs[i] = "number" /\ format[k][2] # "@"))
        BY <3>4, <3>5, FormIs
      <3>7. e = <<i, k, f>> /\ e[1] = i /\ e[2] = k /\ e[3] = f
        BY <2>1, <3>5
      <3>8. e \in Showings
        BY <2>2, <3>6, <3>7 DEF Showings
      <3>9. s \in Seq(Showings) /\ Len(s) = c + 1 /\ (\A m \in 1 .. c : s[m] = p.shown[m]) /\ s[c + 1] = e
        BY <1>5, <3>2, <3>3, <3>8, AppendProperties
      <3>10. ShowsInput(inputs, i, e)
        <4>1. k \in ShowItems
          BY <1>7 DEF ShowItems
        <4>2. Cardinality(Before(k)) = i - 1
          BY <1>3, <1>4, <2>1
        <4>3. QED
          BY <3>6, <3>7, <4>1, <4>2 DEF ShowsInput
      <3>11. ASSUME NEW m \in 1 .. Len(s) PROVE ShowsInput(inputs, m, s[m])
        <4>1. CASE m = i
          BY <2>1, <3>9, <3>10, <4>1
        <4>2. CASE m # i
          <5>1. m \in 1 .. c
            BY <1>4, <2>1, <3>9, <4>2
          <5>2. QED
            BY <1>5, <3>3, <3>9, <5>1
        <4>3. QED
          BY <4>1, <4>2
      <3>12. Len(s) = IF d < Len(inputs) THEN d ELSE Len(inputs)
        BY <1>1, <1>4, <2>1, <2>2, <3>3, <3>9
      <3>13. ShownOf(inputs, d, q)
        BY <2>4, <3>1, <3>9, <3>11, <3>12 DEF ShownOf
      <3>14. QED
        BY <1>3, <3>13
    <2>7. QED
      BY <2>5, <2>6
  <1>8. QED
    BY <1>6, <1>7

LEMMA ShownSound ==
  ASSUME Len(format) \in Nat, DOMAIN format = 1 .. Len(format), NEW inputs \in InputLists, NEW k \in 0 .. Len(format)
  PROVE  ShownOf(inputs, Cardinality(MetBy(k)), SysPrinted(inputs, k))
  <1> DEFINE Failing == {m \in 0 .. Len(format) : ~ShownOf(inputs, Cardinality(MetBy(m)), SysPrinted(inputs, m))}
  <1>1. SUFFICES ASSUME Failing # {} PROVE FALSE
    OBVIOUS
  <1>2. PICK m \in Failing : \A l \in Failing : m <= l
    <2>1. Failing \in SUBSET Nat
      OBVIOUS
    <2>2. QED
      BY <1>1, <2>1, Least
  <1>3. m # 0
    <2>1. PICK p, e : p = SysPrinted(inputs, 0) /\ e = <<>>
      OBVIOUS
    <2>2. p = [shown |-> e, currentInput |-> 1]
      BY <2>1, ShownAre DEF NothingShown
    <2>3. p.shown = e /\ p.currentInput = 1
      BY <2>2
    <2>4. IsShowState(p)
      BY <2>2, <2>3 DEF IsShowState
    <2>5. MetBy(0) = {}
      BY DEF MetBy, ShowItems
    <2>6. Cardinality(MetBy(0)) = 0
      BY <2>5, FS_EmptySet
    <2>7. e \in Seq(Showings) /\ Len(e) = 0
      BY <2>1
    <2>8. Len(inputs) \in Nat
      BY InputsAre
    <2>9. p.shown \in Seq(Showings) /\ Len(p.shown) = 0
      BY <2>3, <2>7, Zenon
    <2>10. Len(p.shown) = (IF 0 < Len(inputs) THEN 0 ELSE Len(inputs)) /\ p.currentInput = 0 + 1
      BY <2>3, <2>8, <2>9
    <2>11. ShownOf(inputs, 0, p)
      BY <2>4, <2>9, <2>10 DEF ShownOf
    <2>12. QED
      BY <1>2, <2>1, <2>6, <2>11
  <1>4. m \in 1 .. Len(format) /\ m - 1 \in 0 .. Len(format) /\ m - 1 < m
    BY <1>2, <1>3
  <1>5. PICK p, q : p = SysPrinted(inputs, m - 1) /\ q = SysPrinted(inputs, m)
    OBVIOUS
  <1>6. ShownOf(inputs, Cardinality(MetBy(m - 1)), p)
    BY <1>2, <1>4, <1>5
  <1>7. ShownOf(inputs, Cardinality(MetBy(m)), q)
    BY <1>4, <1>5, <1>6, ShownNext
  <1>8. QED
    BY <1>2, <1>5, <1>7

(* printf gives each conversion the argument that was passed for it, as    *)
(* long as no letter is unknown and no argument of 64 bits is read as one  *)
(* of 32, and sys::print shows each input once, in order: for every set of *)
(* modifiers and letters and every length of a format.                     *)
THEOREM PrintedAsPassed == FormatInit /\ [][FALSE]_format => []ConversionsGetTheirArguments
  <1>1. ASSUME FormatInit PROVE ConversionsGetTheirArguments
    <2>1. PICK n \in 0 .. FormatLength : format \in [1 .. n -> {Literal} \cup Specs]
      BY <1>1 DEF FormatInit
    <2>2. n \in Nat
      BY <2>1
    <2>3. Len(format) = n /\ DOMAIN format = 1 .. n /\ Len(format) \in Nat
      BY <2>1, <2>2
    <2>4. ASSUME NEW i \in DOMAIN format, IsSpec(format[i])
          PROVE  Printed(Len(format)).words[i] = Meant(i) <=> Calm(i)
      <3>1. i \in 1 .. Len(format)
        BY <2>3
      <3>2. QED
        BY <2>3, <2>4, <3>1, PrintfRight
    <2>5. ASSUME NEW inputs \in InputLists
          PROVE  LET shown == SysPrinted(inputs, Len(format)).shown
                 IN /\ Len(shown) = IF Cardinality(ShowItems) < Len(inputs) THEN Cardinality(ShowItems) ELSE Len(inputs)
                    /\ \A k \in DOMAIN shown :
                         /\ shown[k][1] = k
                         /\ shown[k][2] \in ShowItems /\ Cardinality({j \in ShowItems : j < shown[k][2]}) = k - 1
                         /\ (shown[k][3] = "address") <=> (inputs[k] = "number" /\ format[shown[k][2]][2] # "@")
      <3>1. PICK shown : shown = SysPrinted(inputs, Len(format)).shown
        OBVIOUS
      <3>2. MetBy(Len(format)) = ShowItems
        BY <2>3 DEF MetBy, ShowItems
      <3>3. Len(format) \in 0 .. Len(format)
        BY <2>3
      <3>4. ShownOf(inputs, Cardinality(ShowItems), SysPrinted(inputs, Len(format)))
        BY <2>3, <3>2, <3>3, ShownSound
      <3>5. shown \in Seq(Showings) /\ (\A m \in 1 .. Len(shown) : ShowsInput(inputs, m, shown[m]))
            /\ Len(shown) = IF Cardinality(ShowItems) < Len(inputs) THEN Cardinality(ShowItems) ELSE Len(inputs)
        BY <3>1, <3>4 DEF ShownOf
      <3>6. DOMAIN shown = 1 .. Len(shown)
        BY <3>5, LenProperties
      <3>7. ASSUME NEW k \in DOMAIN shown
            PROVE  /\ shown[k][1] = k
                   /\ shown[k][2] \in ShowItems /\ Cardinality({j \in ShowItems : j < shown[k][2]}) = k - 1
                   /\ (shown[k][3] = "address") <=> (inputs[k] = "number" /\ format[shown[k][2]][2] # "@")
        BY <3>5, <3>6 DEF ShowsInput, Before
      <3>8. QED
        BY <3>1, <3>5, <3>7
    <2>6. QED
      BY <2>4, <2>5 DEF ConversionsGetTheirArguments, Meant, Calm, Upset, Wide, ShowItems
  <1>2. FormatInit /\ [FALSE]_format => FormatInit'
    BY DEF FormatInit
  <1>3. QED
    BY <1>1, <1>2, PTL
=============================================================================
