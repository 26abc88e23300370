---------------------------- MODULE KernelProofs ----------------------------
(***************************************************************************)
(* Proofs about the kernel's interrupts, its clock and its console, for    *)
(* every choice of lines, exceptions, times, texts, screen and bounds.     *)
(***************************************************************************)
EXTENDS Kernel, WellFoundedInduction, SequenceTheorems, TLAPS

-----------------------------------------------------------------------------
(* The clock.                                                              *)

(* What currentTime makes of a register that holds `value' in the code of  *)
(* `mode'.                                                                 *)
Shown(value, r, mode) ==
  IF r # Hours \/ mode.hours24 THEN value
  ELSE CASE value = 0 -> 12
         [] value \in 1 .. 11 -> value
         [] value = 12 -> IF mode.binary THEN 140 ELSE 92
         [] OTHER -> value - 12 + (IF mode.binary THEN 128 ELSE 80)

Modes == [binary : BOOLEAN, hours24 : BOOLEAN]

ClockType ==
  /\ rtc \in [at : 1 .. Len(Moments), phase : {"still", "warning", "updating"},
              left : Nat, mode : Modes]
  /\ reader \in [next : 0 .. 9, got : Seq(Int), began : 0 .. Len(Moments),
                 interrupted : BOOLEAN]

(* An undisturbed reader has the registers it has read as they were when   *)
(* it began, and while it reads, the clock has not begun to change them    *)
(* and will not before it is done.                                         *)
ReaderInv ==
  ~reader.interrupted =>
    /\ reader.next = 0 => reader.got = <<>>
    /\ reader.next >= 1 =>
         /\ reader.began \in 1 .. Len(Moments)
         /\ Len(reader.got) = reader.next - 1
         /\ \A r \in 1 .. reader.next - 1 :
              reader.got[r] = Shown(Moments[reader.began][r], r, rtc.mode)
    /\ Reading =>
         /\ rtc.phase # "updating"
         /\ rtc.at = reader.began
         /\ rtc.phase = "warning" => rtc.left >= 9 - reader.next

ClockInv == ClockType /\ ReaderInv

(* A register's code is undone, but for the hours of a clock that counts   *)
(* them to 12.                                                             *)
LEMMA CodesReadBack ==
  ASSUME NEW value \in 0 .. 99, NEW r \in 1 .. 8, r = Hours => value < 24,
         rtc.mode \in Modes
  PROVE  convert_bcd_if_needed(Coded(value, r, rtc.mode)) % 256 = Shown(value, r, rtc.mode)
  <1> DEFINE twelve == IF value % 12 = 0 THEN 12 ELSE value % 12
  <1>1. rtc.mode.binary \in BOOLEAN /\ rtc.mode.hours24 \in BOOLEAN
    BY DEF Modes
  <1>2. CASE r # Hours \/ rtc.mode.hours24
    <2>1. Coded(value, r, rtc.mode) = IF rtc.mode.binary THEN value ELSE Bcd(value)
      BY <1>2 DEF Coded
    <2>2. Shown(value, r, rtc.mode) = value
      BY <1>2 DEF Shown
    <2>3. QED
      BY <1>1, <2>1, <2>2 DEF Bcd, convert_bcd_if_needed
  <1>3. CASE r = Hours /\ ~rtc.mode.hours24
    <2>1. value \in 0 .. 23 /\ twelve \in 1 .. 12
      BY <1>3
    <2>2. CASE value < 12
      <3>1. Coded(value, r, rtc.mode) = IF rtc.mode.binary THEN twelve ELSE Bcd(twelve)
        BY <1>1, <1>3, <2>1, <2>2 DEF Coded, Bcd
      <3>2. Shown(value, r, rtc.mode) = twelve
        BY <1>3, <2>1, <2>2 DEF Shown
      <3>3. QED
        BY <1>1, <2>1, <3>1, <3>2 DEF Bcd, convert_bcd_if_needed
    <2>3. CASE value >= 12
      <3>1. Coded(value, r, rtc.mode) = 128 + IF rtc.mode.binary THEN twelve ELSE Bcd(twelve)
        BY <1>3, <2>1, <2>3 DEF Coded, Bcd
      <3>2. Shown(value, r, rtc.mode) = twelve + (IF rtc.mode.binary THEN 128 ELSE 80)
        BY <1>3, <2>1, <2>3 DEF Shown
      <3>3. QED
        BY <1>1, <2>1, <3>1, <3>2 DEF Bcd, convert_bcd_if_needed
    <2>4. QED
      BY <2>1, <2>2, <2>3
  <1>4. QED
    BY <1>2, <1>3

LEMMA ClockInvInit == Init => ClockInv
  <1> SUFFICES ASSUME Init PROVE ClockInv
    OBVIOUS
  <1>1. Moments \in Seq([1 .. 8 -> 0 .. 99]) /\ Len(Moments) \in Nat \ {0} /\ Window \in Nat
    BY ClockAssumption
  <1>2. CASE ClockInit
    BY <1>1, <1>2 DEF ClockInit, ClockInv, ClockType, ReaderInv, Modes, Reading
  <1>3. CASE ClockRests
    <2>1. Moments[1] \in [1 .. 8 -> Int]
      <3>1. Moments[1] \in [1 .. 8 -> 0 .. 99]
        BY <1>1
      <3>2. QED
        BY <3>1
    <2>2. Moments[1] \in Seq(Int) /\ Len(Moments[1]) = 8
      <3>1. 8 \in Nat
        OBVIOUS
      <3>2. Moments[1] \in Seq(Int)
        BY <2>1, <3>1, SeqDef, Zenon
      <3>3. QED
        BY <2>1, <3>2
    <2>3. ClockType
      BY <1>1, <1>3, <2>2 DEF ClockRests, ClockType, Modes
    <2>4. ReaderInv
      <3>1. /\ reader.next = 9 /\ reader.got = Moments[1] /\ reader.began = 1
            /\ rtc.mode.hours24
        BY <1>3 DEF ClockRests
      <3>2. \A r : Shown(Moments[1][r], r, rtc.mode) = Moments[1][r]
        BY <3>1 DEF Shown
      <3>3. \A r \in 1 .. reader.next - 1 :
              reader.got[r] = Shown(Moments[reader.began][r], r, rtc.mode)
        BY <3>1, <3>2
      <3>4. ~Reading /\ reader.next >= 1 /\ reader.began \in 1 .. Len(Moments)
        BY <1>1, <3>1 DEF Reading
      <3>5. Len(reader.got) = reader.next - 1
        BY <2>2, <3>1
      <3>6. reader.next # 0
        BY <3>1
      <3>7. QED
        BY <3>3, <3>4, <3>5, <3>6 DEF ReaderInv
    <2>5. QED
      BY <2>3, <2>4 DEF ClockInv
  <1>4. QED
    BY <1>2, <1>3 DEF Init

LEMMA ClockInvStep == ClockInv /\ [Next]_kernelVars => ClockInv'
  <1> SUFFICES ASSUME ClockInv, [Next]_kernelVars PROVE ClockInv'
    OBVIOUS
  <1>1. Moments \in Seq([1 .. 8 -> 0 .. 99]) /\ Len(Moments) \in Nat \ {0} /\ Window \in Nat
          /\ Window >= 8
    BY ClockAssumption
  <1>2. ClockType /\ ReaderInv
    BY DEF ClockInv
  <1>3. CASE UNCHANGED clockVars
    BY <1>2, <1>3 DEF clockVars, ClockInv, ClockType, ReaderInv, Reading
  <1>4. CASE Warn
    <2>1. ClockType'
      BY <1>1, <1>2, <1>4, Zenon DEF Warn, ClockType
    <2>2. /\ rtc'.at = rtc.at /\ rtc'.mode = rtc.mode /\ rtc'.phase = "warning"
          /\ rtc'.left = Window /\ reader' = reader
      BY <1>2, <1>4 DEF Warn, ClockType
    <2>3. ReaderInv'
      BY <1>1, <1>2, <2>2 DEF ClockType, ReaderInv, Reading
    <2>4. QED
      BY <2>1, <2>3 DEF ClockInv
  <1>5. CASE BeginUpdate
    <2>1. ClockType'
      BY <1>1, <1>2, <1>5, Zenon DEF BeginUpdate, ClockType
    <2>2. /\ rtc'.at = rtc.at /\ rtc'.mode = rtc.mode /\ reader' = reader
      BY <1>2, <1>5 DEF BeginUpdate, ClockType
    <2>3. reader.interrupted \/ ~Reading
      BY <1>2, <1>5 DEF BeginUpdate, ClockType, ReaderInv, Reading
    <2>4. ReaderInv'
      BY <1>2, <2>2, <2>3 DEF ClockType, ReaderInv, Reading
    <2>5. QED
      BY <2>1, <2>4 DEF ClockInv
  <1>6. CASE EndUpdate
    <2> DEFINE at == IF rtc.at < Len(Moments) THEN rtc.at + 1 ELSE rtc.at
    <2>1. rtc' = [rtc EXCEPT !.phase = "still", !.at = at]
      BY <1>6 DEF EndUpdate
    <2>2. at \in 1 .. Len(Moments)
      BY <1>1, <1>2 DEF ClockType
    <2>3. ClockType'
      <3> HIDE DEF at
      <3> QED
        BY <1>2, <1>6, <2>1, <2>2, Zenon DEF EndUpdate, ClockType
    <2>4. rtc'.mode = rtc.mode /\ reader' = reader
      BY <1>2, <1>6 DEF EndUpdate, ClockType
    <2>5. reader.interrupted \/ ~Reading
      BY <1>2, <1>6 DEF EndUpdate, ReaderInv
    <2>6. ReaderInv'
      BY <1>2, <2>4, <2>5 DEF ReaderInv, Reading
    <2>7. QED
      BY <2>3, <2>6 DEF ClockInv
  <1>7. CASE Interrupt
    BY <1>2, <1>7 DEF Interrupt, ClockInv, ClockType, ReaderInv
  <1>8. CASE TestUpdateFlag
    <2>1. rtc.at \in 0 .. Len(Moments) /\ 1 \in 0 .. 9
      BY <1>1, <1>2 DEF ClockType
    <2>2. ClockType'
      BY <1>2, <1>8, <2>1, Zenon DEF TestUpdateFlag, ClockType
    <2>3. /\ reader'.next = 1 /\ reader'.began = rtc.at /\ reader'.got = reader.got
          /\ reader'.interrupted = reader.interrupted /\ rtc' = rtc /\ rtc.phase = "still"
      BY <1>2, <1>8 DEF TestUpdateFlag, ClockType
    <2>4. reader.interrupted \/ reader.got = <<>>
      BY <1>2, <1>8 DEF TestUpdateFlag, ReaderInv
    <2>5. ReaderInv'
      BY <1>2, <2>3, <2>4 DEF ClockType, ReaderInv, Reading
    <2>6. QED
      BY <2>2, <2>5 DEF ClockInv
  <1>9. CASE ReadRtcRegister
    <2> DEFINE r == reader.next
               held == Coded(Moments[rtc.at][r], r, rtc.mode)
    <2>1. PICK value \in IF rtc.phase = "updating" THEN {held, Undefined} ELSE {held} :
            reader' = [reader EXCEPT !.next = r + 1,
                                     !.got = Append(@, convert_bcd_if_needed(value) % 256)]
      BY <1>9 DEF ReadRtcRegister
    <2> DEFINE shown == convert_bcd_if_needed(value) % 256
    <2>2. r \in 1 .. 8 /\ r + 1 \in 0 .. 9
      BY <1>9 DEF ReadRtcRegister, Reading
    <2>3. Moments[rtc.at][r] \in 0 .. 99 /\ (r = Hours => Moments[rtc.at][r] < 24)
      <3>1. rtc.at \in DOMAIN Moments /\ Moments[rtc.at] \in [1 .. 8 -> 0 .. 99]
        BY <1>1, <1>2 DEF ClockType
      <3>2. Moments[rtc.at][3] < 24
        BY <3>1, ClockAssumption
      <3>3. QED
        BY <2>2, <3>1, <3>2 DEF Hours
    <2>4. rtc.mode \in Modes
      BY <1>2 DEF ClockType
    <2>5. value \in Int
      BY <2>1, <2>2, <2>3, <2>4 DEF Coded, Bcd, Undefined, Modes
    <2>6. shown \in Int
      BY <2>4, <2>5 DEF convert_bcd_if_needed, Modes
    <2> HIDE DEF shown
    <2>7. Append(reader.got, shown) \in Seq(Int)
      BY <1>2, <2>6 DEF ClockType
    <2>8. reader' = [reader EXCEPT !.next = r + 1, !.got = Append(reader.got, shown)]
      BY <2>1 DEF shown
    <2>9. PICK left \in Nat : /\ rtc' = [rtc EXCEPT !.left = left]
                              /\ rtc.phase # "warning" => left = rtc.left
                              /\ rtc.phase = "warning" => left >= rtc.left - 1
      <3> DEFINE left == IF rtc.phase = "warning" /\ rtc.left > 0 THEN rtc.left - 1 ELSE rtc.left
      <3>1. rtc' = [rtc EXCEPT !.left = left]
        BY <1>9 DEF ReadRtcRegister
      <3>2. rtc.left \in Nat
        BY <1>2 DEF ClockType
      <3>3. /\ left \in Nat /\ (rtc.phase # "warning" => left = rtc.left)
            /\ (rtc.phase = "warning" => left >= rtc.left - 1)
        BY <3>2
      <3>4. QED
        BY <3>1, <3>3
    <2>10. ClockType'
      BY <1>2, <2>2, <2>7, <2>8, <2>9, Zenon DEF ClockType
    <2>11. /\ reader'.next = r + 1 /\ reader'.got = Append(reader.got, shown)
           /\ reader'.began = reader.began /\ reader'.interrupted = reader.interrupted
           /\ rtc'.at = rtc.at /\ rtc'.phase = rtc.phase /\ rtc'.mode = rtc.mode
           /\ rtc'.left = left
      BY <1>2, <2>8, <2>9 DEF ClockType
    <2>12. ASSUME ~reader.interrupted PROVE shown = Shown(Moments[reader.began][r], r, rtc.mode)
      <3>1. rtc.phase # "updating" /\ rtc.at = reader.began
        BY <1>2, <2>2, <2>12 DEF ReaderInv, Reading
      <3>2. value = held
        BY <2>1, <3>1
      <3>3. QED
        BY <2>2, <2>3, <2>4, <3>1, <3>2, CodesReadBack, SMTT(30) DEF shown
    <2>13. ASSUME ~reader.interrupted
           PROVE  \A q \in 1 .. r :
                    Append(reader.got, shown)[q] = Shown(Moments[reader.began][q], q, rtc.mode)
      <3>1. reader.got \in Seq(Int) /\ Len(reader.got) = r - 1
        BY <1>2, <2>2, <2>13 DEF ClockType, ReaderInv
      <3>2. Append(reader.got, shown)[r] = shown
        <4>1. r = Len(reader.got) + 1
          BY <2>2, <3>1
        <4>2. Append(reader.got, shown)[Len(reader.got) + 1] = shown
          BY <2>6, <3>1, AppendProperties
        <4>3. QED
          BY <4>1, <4>2
      <3>3. \A q \in 1 .. r - 1 : Append(reader.got, shown)[q] = reader.got[q]
        BY <2>2, <2>6, <3>1
      <3>4. \A q \in 1 .. r - 1 : reader.got[q] = Shown(Moments[reader.began][q], q, rtc.mode)
        BY <1>2, <2>2, <2>13 DEF ReaderInv
      <3>5. shown = Shown(Moments[reader.began][r], r, rtc.mode)
        BY <2>12, <2>13
      <3>6. TAKE q \in 1 .. r
      <3>7. q = r \/ q \in 1 .. r - 1
        BY <2>2, <3>6
      <3>8. QED
        BY <3>2, <3>3, <3>4, <3>5, <3>7
    <2>14. ReaderInv'
      <3>1. SUFFICES ASSUME ~reader'.interrupted PROVE ReaderInv'
        BY DEF ReaderInv
      <3>2. /\ reader.began \in 1 .. Len(Moments) /\ reader.got \in Seq(Int)
            /\ Len(reader.got) = r - 1
            /\ rtc.phase # "updating" /\ rtc.at = reader.began
            /\ rtc.phase = "warning" => rtc.left >= 9 - r
        BY <1>2, <2>2, <2>11, <3>1 DEF ClockType, ReaderInv, Reading
      <3>3. Len(Append(reader.got, shown)) = r
        BY <2>2, <2>6, <3>2, SMTT(30)
      <3>4. rtc'.phase = "warning" => rtc'.left >= 9 - (r + 1)
        BY <1>2, <2>2, <2>9, <2>11, <3>2 DEF ClockType
      <3>5. reader'.next # 0 /\ reader'.next - 1 = r
        BY <2>2, <2>11
      <3>6. QED
        BY <2>11, <2>13, <3>1, <3>2, <3>3, <3>4, <3>5 DEF ReaderInv, Reading
    <2>15. QED
      BY <2>10, <2>14 DEF ClockInv
  <1>10. QED
    BY <1>3, <1>4, <1>5, <1>6, <1>7, <1>8, <1>9 DEF Next, ClockNext, kernelVars

(* A time that was read undisturbed is the time of one moment.             *)
THEOREM ClockShowsOneMoment == Spec => []TimeIsOneMoment
  <1>1. ClockInv => TimeIsOneMoment
    <2> SUFFICES ASSUME ClockInv, reader.next = 9, ~reader.interrupted, NEW r \in 1 .. 8
                 PROVE  reader.got[r] = Shown(Moments[reader.began][r], r, rtc.mode)
      BY DEF TimeIsOneMoment, Shown
    <2>1. r \in 1 .. reader.next - 1 /\ reader.next >= 1
      OBVIOUS
    <2>2. QED
      BY <2>1 DEF ClockInv, ReaderInv
  <1>2. QED
    BY ClockInvInit, ClockInvStep, <1>1, PTL DEF Spec

-----------------------------------------------------------------------------
(* Descriptors.                                                            *)

LEMMA Division ==
  ASSUME NEW n \in Nat, NEW b \in Nat \ {0}
  PROVE  n \div b \in Nat /\ n % b \in Nat /\ n % b < b /\ n = (n \div b) * b + (n % b)
  BY SMT

LEMMA DivisionTwice ==
  ASSUME NEW n \in Nat, NEW b \in Nat \ {0}, NEW c \in Nat \ {0}
  PROVE  (n \div b) \div c = n \div (b * c)
  BY SMT

LEMMA SmallQuotient ==
  ASSUME NEW n \in Nat, NEW b \in Nat \ {0}, NEW c \in Nat \ {0}, n < b * c
  PROVE  n \div b < c
  BY SMT

LEMMA SmallRemainder ==
  ASSUME NEW n \in Nat, NEW b \in Nat \ {0}, n < b
  PROVE  n % b = n
  BY SMT

(* A number is made up of its two lowest digits and the rest.              *)
LEMMA TwoDigits ==
  ASSUME NEW n \in Nat, NEW b \in Nat \ {0}
  PROVE  /\ n \div (b * b) \in Nat
         /\ n = ((n % b) + ((n \div b) % b) * b) + (n \div (b * b)) * (b * b)
  <1> DEFINE q1 == n \div b
             q2 == n \div (b * b)
  <1>1. q1 \in Nat /\ n % b \in Nat /\ n = q1 * b + (n % b)
    BY Division
  <1>2. q2 = q1 \div b
    BY DivisionTwice
  <1>3. q2 \in Nat /\ q1 % b \in Nat /\ q1 = q2 * b + (q1 % b)
    BY <1>1, <1>2, Division
  <1> HIDE DEF q1, q2
  <1> DEFINE r0 == n % b
             r1 == q1 % b
  <1>4. r0 \in Nat /\ r1 \in Nat
    BY <1>1, <1>3
  <1> HIDE DEF r0, r1
  <1>5. n = q1 * b + r0 /\ q1 = q2 * b + r1
    BY <1>1, <1>3 DEF r0, r1
  <1>6. n = (r0 + r1 * b) + q2 * (b * b)
    BY <1>1, <1>3, <1>4, <1>5
  <1>7. QED
    BY <1>3, <1>6 DEF q1, q2, r0, r1

LEMMA BitsAreNumbers ==
  /\ Digit \in Nat /\ Digit >= 2
  /\ Bits8 \in Nat /\ Bits8 >= 4
  /\ Bits16 \in Nat /\ Bits16 >= 16 /\ Bits16 = Bits8 * Bits8
  /\ Bits24 \in Nat \ {0} /\ Bits24 = Bits16 * Bits8
  /\ Bits32 \in Nat /\ Bits32 > Bits16 + 1 /\ Bits32 = Bits16 * Bits16
  /\ Bits12 \in Nat \ {0}
  /\ Bits32 = Bits12 * (Bits16 * Digit)
  <1>1. Digit \in Nat /\ Digit >= 2
    BY DescriptorsAssumption
  <1>2. Bits8 \in Nat /\ Bits8 >= 4 /\ Bits8 = Digit * Digit
    BY <1>1 DEF Bits8
  <1>3. Bits16 \in Nat /\ Bits16 >= 16 /\ Bits16 = Bits8 * Bits8
    BY <1>2 DEF Bits16
  <1>4. Bits24 \in Nat \ {0} /\ Bits24 = Bits16 * Bits8
    BY <1>2, <1>3 DEF Bits24
  <1>5. Bits32 \in Nat /\ Bits32 > Bits16 + 1 /\ Bits32 = Bits16 * Bits16
    BY <1>3 DEF Bits32
  <1>6. Bits12 \in Nat \ {0} /\ Bits12 = Bits8 * Digit
    BY <1>1, <1>2 DEF Bits12
  <1>7. Bits12 * (Bits16 * Digit) = Bits8 * (Digit * Digit) * Bits16
    BY <1>1, <1>2, <1>3, <1>6
  <1>8. QED
    BY <1>1, <1>2, <1>3, <1>4, <1>5, <1>6, <1>7

(* The bytes of a number.                                                  *)
LEMMA BytesAre ==
  ASSUME NEW n \in Nat
  PROVE  /\ Byte(n, 0) = n % Bits8
         /\ Byte(n, 1) = (n \div Bits8) % Bits8
         /\ Byte(n, 2) = (n \div Bits16) % Bits8
         /\ Byte(n, 3) = ((n \div Bits16) \div Bits8) % Bits8
  <1>1. n \div 1 = n
    OBVIOUS
  <1>2. (n \div Bits16) \div Bits8 = n \div Bits24
    BY BitsAreNumbers, DivisionTwice
  <1>3. QED
    BY <1>1, <1>2 DEF Byte

LEMMA LowBytes ==
  ASSUME NEW n \in Nat
  PROVE  /\ n \div Bits16 \in Nat
         /\ n % Bits8 \in Nat /\ (n \div Bits8) % Bits8 \in Nat
         /\ n = ((n % Bits8) + ((n \div Bits8) % Bits8) * Bits8) + (n \div Bits16) * Bits16
  <1>1. Bits8 \in Nat \ {0} /\ Bits16 = Bits8 * Bits8
    BY BitsAreNumbers
  <1>2. /\ n \div (Bits8 * Bits8) \in Nat
        /\ n = ((n % Bits8) + ((n \div Bits8) % Bits8) * Bits8)
                 + (n \div (Bits8 * Bits8)) * (Bits8 * Bits8)
    BY <1>1, TwoDigits, Zenon
  <1>3. n \div Bits8 \in Nat /\ n % Bits8 \in Nat
    BY <1>1, Division, Zenon
  <1>4. (n \div Bits8) % Bits8 \in Nat
    BY <1>1, <1>3, Division, Zenon
  <1>5. QED
    BY <1>1, <1>2, <1>3, <1>4, Zenon

(* The four bytes of a number of 32 bits make it up.                       *)
LEMMA BytesJoin ==
  ASSUME NEW n \in Numbers
  PROVE  (Byte(n, 0) + Byte(n, 1) * Bits8) + (Byte(n, 2) + Byte(n, 3) * Bits8) * Bits16 = n
  <1> DEFINE q == n \div Bits16
             high == (q % Bits8) + ((q \div Bits8) % Bits8) * Bits8
  <1>1. n \in Nat /\ n < Bits16 * Bits16
    BY BitsAreNumbers DEF Numbers
  <1>2. /\ q \in Nat
        /\ n = ((n % Bits8) + ((n \div Bits8) % Bits8) * Bits8) + q * Bits16
    BY <1>1, LowBytes, Zenon
  <1>3. q < Bits16
    BY <1>1, SmallQuotient, BitsAreNumbers
  <1> HIDE DEF q
  <1>4. q % Bits8 \in Nat /\ (q \div Bits8) % Bits8 \in Nat /\ q = high + (q \div Bits16) * Bits16
    BY <1>2, LowBytes, Zenon
  <1>5. q \div Bits16 = 0
    BY <1>2, <1>3, BitsAreNumbers
  <1>6. high \in Int
    <2> DEFINE r == (q \div Bits8) % Bits8
    <2>1. r \in Nat /\ Bits8 \in Nat
      BY <1>4, BitsAreNumbers
    <2> HIDE DEF r
    <2>2. r * Bits8 \in Int
      BY <2>1
    <2>3. QED
      BY <1>4, <2>2 DEF r
  <1> HIDE DEF high
  <1>7. high = q
    BY <1>4, <1>5, <1>6, BitsAreNumbers
  <1>8. Byte(n, 2) + Byte(n, 3) * Bits8 = high
    BY <1>1, BytesAre, Zenon DEF high, q
  <1>9. Byte(n, 0) + Byte(n, 1) * Bits8 = (n % Bits8) + ((n \div Bits8) % Bits8) * Bits8
    BY <1>1, BytesAre, Zenon
  <1>10. QED
    BY <1>2, <1>7, <1>8, <1>9, Zenon

(* Two bytes and a digit make up the count of a segment's limit.           *)
LEMMA CountJoins ==
  ASSUME NEW c \in Nat, c < Bits16 * Digit
  PROVE  (Byte(c, 0) + Byte(c, 1) * Bits8) + ((c \div Bits16) % Digit) * Bits16 = c
  <1> DEFINE q == c \div Bits16
  <1>1. q \in Nat /\ c = ((c % Bits8) + ((c \div Bits8) % Bits8) * Bits8) + q * Bits16
    BY LowBytes, Zenon
  <1>2. q < Digit /\ Digit \in Nat \ {0}
    BY SmallQuotient, BitsAreNumbers
  <1> HIDE DEF q
  <1>3. q % Digit = q
    BY <1>1, <1>2, SmallRemainder, Zenon
  <1>4. Byte(c, 0) = c % Bits8 /\ Byte(c, 1) = (c \div Bits8) % Bits8
    BY BytesAre, Zenon
  <1>5. QED
    BY <1>1, <1>3, <1>4, Zenon DEF q

(* Every gate leads to its stub, and every segment is where it was put.    *)
THEOREM DescriptorsDecode == GatesLeadToStubs
  <1>1. ASSUME NEW n \in Numbers, NEW type
        PROVE  Segment(EncodeSegment(0, n, type)).limit =
                 IF n > Bits16 THEN (n \div Bits12 + 1) * Bits12 - 1 ELSE n
    <2> DEFINE pages == n > Bits16
               count == IF pages THEN n \div Bits12 ELSE n
    <2>1. n \in Nat /\ n < Bits12 * (Bits16 * Digit)
      BY BitsAreNumbers DEF Numbers
    <2>2. count \in Nat /\ count < Bits16 * Digit
      <3>1. CASE pages
        <4>1. n \div Bits12 < Bits16 * Digit /\ n \div Bits12 \in Nat
          BY <2>1, SmallQuotient, Division, BitsAreNumbers
        <4>2. QED
          BY <3>1, <4>1
      <3>2. CASE ~pages
        BY <2>1, <3>2, BitsAreNumbers
      <3>3. QED
        BY <3>1, <3>2
    <2>3. (Byte(count, 0) + Byte(count, 1) * Bits8) + ((count \div Bits16) % Digit) * Bits16
            = count
      <3> HIDE DEF count
      <3> QED
        BY <2>2, CountJoins
    <2>4. QED
      BY <2>3 DEF Segment, EncodeSegment, Joined
  <1>2. ASSUME NEW n \in Numbers, NEW limit, NEW type
        PROVE  Segment(EncodeSegment(n, limit, type)).base = n
    BY BytesJoin DEF Segment, EncodeSegment, Joined
  <1>3. ASSUME NEW stub \in Numbers
        PROVE  LET gate == Gate(StubGate(stub))
                   code == Segment(SegmentTable(<<stub, 104>>)[gate.selector \div 8 + 1])
               IN /\ gate.type = "InterruptGate"
                  /\ code.type = "KernelCode"
                  /\ code.base + gate.offset = stub
                  /\ code.limit = AllMemory
    <2> DEFINE gate == Gate(StubGate(stub))
               code == Segment(SegmentTable(<<stub, 104>>)[gate.selector \div 8 + 1])
    <2>1. gate.type = "InterruptGate"
      BY DEF Gate, StubGate, EncodeGate
    <2>2. gate.offset = stub
      BY BytesJoin DEF Gate, StubGate, EncodeGate, Joined
    <2>3. gate.selector = 8
      <3>1. 8 < Bits16 * Digit
        BY BitsAreNumbers
      <3>2. 8 \div Bits16 = 0
        BY BitsAreNumbers
      <3>3. (Byte(8, 0) + Byte(8, 1) * Bits8) + (0 % Digit) * Bits16 = 8
        BY <3>1, <3>2, CountJoins
      <3>4. 0 % Digit = 0 /\ 0 * Bits16 = 0
        BY BitsAreNumbers
      <3>5. Byte(8, 0) \in Int /\ Byte(8, 1) * Bits8 \in Int
        BY BytesAre, Division, BitsAreNumbers
      <3>6. Byte(8, 0) + Byte(8, 1) * Bits8 = 8
        BY <3>3, <3>4, <3>5
      <3>7. QED
        BY <3>6 DEF Gate, StubGate, EncodeGate, Joined, KernelCodeSelector
    <2>4. code = Segment(EncodeSegment(0, AllMemory, "KernelCode"))
      BY <2>3 DEF SegmentTable
    <2>5. code.type = "KernelCode"
      BY <2>4 DEF Segment, EncodeSegment
    <2>6. 0 \in Numbers /\ AllMemory \in Numbers
      BY BitsAreNumbers DEF Numbers, AllMemory
    <2>7. code.base = 0
      BY <1>2, <2>4, <2>6
    <2>8. code.limit = AllMemory
      <3>1. AllMemory > Bits16
        BY BitsAreNumbers DEF AllMemory
      <3>2. (AllMemory \div Bits12 + 1) * Bits12 = Bits32
        <4> DEFINE k == Bits16 * Digit
        <4>1. k \in Nat \ {0} /\ Bits32 = k * Bits12
          BY BitsAreNumbers
        <4> HIDE DEF k
        <4>2. (k * Bits12 - 1) \div Bits12 = k - 1
          BY <4>1, BitsAreNumbers
        <4>3. QED
          BY <4>1, <4>2 DEF AllMemory
      <3>3. QED
        BY <1>1, <2>4, <2>6, <3>1, <3>2 DEF AllMemory
    <2>9. QED
      BY <2>1, <2>2, <2>5, <2>7, <2>8 DEF Numbers
  <1>4. QED
    BY <1>1, <1>2, <1>3, BitsAreNumbers DEF GatesLeadToStubs, Numbers

-----------------------------------------------------------------------------
(* Interrupts.                                                             *)

BootSteps == {"construct", "install", "handlers", "pics", "enable"}
UpSteps == {"keyboard", "unmaskKeyboard", "timer", "unmaskTimer", "setIn",
            "program", "faulting", "idle"}
Steps == {"start", "reading", "return"}

Frames == [vector : Int, cause : Lines \cup Calls \cup {"exception"}, flagWas : BOOLEAN,
           step : Steps, words : Int]

IntType ==
  /\ pc \in BootSteps \cup UpSteps \cup {"halted"}
  /\ flag \in BOOLEAN
  /\ stack \in Seq(Frames)
  /\ DOMAIN isr = Vectors
  /\ pic \in [remapped : BOOLEAN, mask : SUBSET (0 .. 15), pending : SUBSET Lines,
              inService : SUBSET Lines]

(* How far the tables are filled.                                          *)
Beyond(steps) == pc \in steps \cup UpSteps \/ stack # <<>>

TablesInv ==
  /\ Beyond({"handlers", "pics", "enable"}) =>
       \A v \in Exceptions : isr[v] \in {"stub", "panic", "pageFault"}
  /\ Beyond({"pics", "enable"}) => isr[SystemCall] = "syscall"
  /\ Beyond({"enable"}) =>
       /\ pic.remapped
       /\ \A line \in Lines : isr[KernelVector(line)] \in {"irq", "keyboard", "pit"}
       /\ \A line \in Lines \ pic.mask :
            \/ line = KeyboardLine /\ isr[KernelVector(line)] = "keyboard"
            \/ line = Timer /\ isr[KernelVector(line)] = "pit"
  /\ (pc = "unmaskKeyboard" /\ KeyboardLine \in Lines) => isr[KernelVector(KeyboardLine)] = "keyboard"
  /\ (pc = "unmaskTimer" /\ Timer \in Lines) => isr[KernelVector(Timer)] = "pit"

(* The frame of a line that has a driver, and of a call or an exception.   *)
LineFrame(f, table) ==
  /\ \E line \in Lines \cap {Timer, KeyboardLine} :
       f.vector = KernelVector(line) /\ f.cause = line
  /\ table[f.vector] \in {"keyboard", "pit"}
  /\ f.step \in {"start", "return"}

ProgramFrame(f, in) ==
  \/ f.vector \in Exceptions /\ f.step \in {"start", "return"}
  \/ /\ f.vector = SystemCall /\ in
     /\ f.step = "reading" => f.cause \in {"read", "readOther"}

InService(f) == IF f.step = "start" THEN {f.cause} ELSE {}

StackInv ==
  /\ \A i \in DOMAIN stack : stack[i].words = 2 /\ stack[i].flagWas
  /\ stack = <<>> => pic.inService = {} /\ (flag <=> pc \in UpSteps)
  /\ stack # <<>> => pc \in UpSteps \cup {"halted"}
  /\ Len(stack) <= 2
  /\ Len(stack) = 1 =>
       \/ LineFrame(stack[1], isr) /\ pic.inService = InService(stack[1]) /\ ~flag
       \/ /\ ProgramFrame(stack[1], stdin) /\ pic.inService = {}
          /\ flag <=> stack[1].step = "reading"
  /\ Len(stack) = 2 =>
       /\ ProgramFrame(stack[1], stdin) /\ stack[1].step = "reading"
       /\ LineFrame(stack[2], isr) /\ pic.inService = InService(stack[2]) /\ ~flag
  /\ pc \in {"program", "faulting", "idle"} => stdin
  /\ Halted => ~flag

IntInv == IntType /\ TablesInv /\ StackInv

LEMMA IntInvInit == Init => IntInv
  <1> SUFFICES ASSUME IntInit PROVE IntInv
    BY DEF Init
  <1>1. IntType
    <2>1. pic \in [remapped : BOOLEAN, mask : SUBSET (0 .. 15), pending : SUBSET Lines,
                   inService : SUBSET Lines]
      BY Zenon DEF IntInit
    <2>2. flag \in BOOLEAN
      BY Zenon DEF IntInit
    <2>3. QED
      BY <2>1, <2>2 DEF IntInit, IntType, BootSteps
  <1>2. TablesInv
    BY DEF IntInit, TablesInv, Beyond, UpSteps
  <1>3. StackInv
    BY DEF IntInit, StackInv, UpSteps, Halted
  <1>4. QED
    BY <1>1, <1>2, <1>3 DEF IntInv

LEMMA SubSeqFront ==
  ASSUME NEW S, NEW s \in Seq(S), NEW n \in 0 .. Len(s)
  PROVE  /\ SubSeq(s, 1, n) \in Seq(S)
         /\ Len(SubSeq(s, 1, n)) = n
         /\ \A i \in 1 .. n : SubSeq(s, 1, n)[i] = s[i]
  OBVIOUS

(* The stack after a routine's step, a return and an interrupt.            *)
LEMMA StackSteps ==
  ASSUME stack \in Seq(Frames)
  PROVE  /\ stack # <<>> =>
              /\ Len(stack) \in Nat \ {0} /\ Top \in Frames
              /\ \A s \in Steps :
                   /\ Stepped(s) \in Seq(Frames) /\ Len(Stepped(s)) = Len(stack)
                   /\ \A i \in 1 .. Len(stack) - 1 : Stepped(s)[i] = stack[i]
                   /\ Stepped(s)[Len(stack)] = [Top EXCEPT !.step = s]
              /\ Popped \in Seq(Frames) /\ Len(Popped) = Len(stack) - 1
              /\ \A i \in 1 .. Len(stack) - 1 : Popped[i] = stack[i]
         /\ \A f \in Frames :
              /\ Append(stack, f) \in Seq(Frames) /\ Len(Append(stack, f)) = Len(stack) + 1
              /\ \A i \in 1 .. Len(stack) : Append(stack, f)[i] = stack[i]
              /\ Append(stack, f)[Len(stack) + 1] = f
  <1>1. ASSUME stack # <<>>
        PROVE  Len(stack) \in Nat \ {0} /\ Top \in Frames
    BY <1>1 DEF Top
  <1>2. ASSUME stack # <<>>, NEW s \in Steps
        PROVE  /\ Stepped(s) \in Seq(Frames) /\ Len(Stepped(s)) = Len(stack)
               /\ \A i \in 1 .. Len(stack) - 1 : Stepped(s)[i] = stack[i]
               /\ Stepped(s)[Len(stack)] = [Top EXCEPT !.step = s]
    <2>1. Stepped(s) = [stack EXCEPT ![Len(stack)] = [Top EXCEPT !.step = s]]
      BY DEF Stepped, Top
    <2>2. [Top EXCEPT !.step = s] \in Frames
      BY <1>1, <1>2, Zenon DEF Frames
    <2>3. QED
      BY <1>1, <1>2, <2>1, <2>2
  <1>3. ASSUME stack # <<>>
        PROVE  /\ Popped \in Seq(Frames) /\ Len(Popped) = Len(stack) - 1
               /\ \A i \in 1 .. Len(stack) - 1 : Popped[i] = stack[i]
    <2>1. 1 \in 1 .. Len(stack) + 1 /\ Len(stack) - 1 \in 0 .. Len(stack)
      BY <1>1, <1>3
    <2>2. QED
      BY <2>1, SubSeqFront DEF Popped
  <1>4. ASSUME NEW f \in Frames
        PROVE  /\ Append(stack, f) \in Seq(Frames) /\ Len(Append(stack, f)) = Len(stack) + 1
               /\ \A i \in 1 .. Len(stack) : Append(stack, f)[i] = stack[i]
               /\ Append(stack, f)[Len(stack) + 1] = f
    OBVIOUS
  <1>5. QED
    BY <1>1, <1>2, <1>3, <1>4

(* The fields of a frame whose step has changed.                           *)
LEMMA SteppedFrame ==
  ASSUME NEW f \in Frames, NEW s \in Steps
  PROVE  LET g == [f EXCEPT !.step = s]
         IN /\ g.step = s /\ g.vector = f.vector /\ g.cause = f.cause
            /\ g.words = f.words /\ g.flagWas = f.flagWas
  BY DEF Frames

(* A frame that is pushed leaves the stub with what iret expects.          *)
LEMMA PushedFrame ==
  ASSUME NEW v \in Int, NEW cause \in Lines \cup Calls \cup {"exception"}, flag \in BOOLEAN,
         v \in Exceptions \cup {SystemCall} \/ \E line \in Lines : v = KernelVector(line)
  PROVE  LET f == Frame(v, cause)
         IN /\ f \in Frames /\ f.vector = v /\ f.cause = cause /\ f.step = "start"
            /\ f.words = 2 /\ f.flagWas = flag
  <1>1. v # 17 /\ (v \in CpuPushesCode <=> v \in StubExpectsCode)
    BY InterruptsAssumption DEF SystemCall, KernelVector, CpuPushesCode, StubExpectsCode
  <1>2. (IF v \in CpuPushesCode THEN 1 ELSE 0) + (IF v \in StubExpectsCode THEN 1 ELSE 2) = 2
    BY <1>1
  <1>3. QED
    BY <1>2 DEF Frame, Frames, Steps

(* With interrupts enabled, the kernel or a read runs, and nothing else.   *)
LEMMA FlagMeans ==
  ASSUME IntInv, flag
  PROVE  /\ pc \in UpSteps /\ pic.inService = {}
         /\ stack # <<>> => Len(stack) = 1 /\ ProgramFrame(stack[1], stdin) /\ stack[1].step = "reading"
         /\ \A line \in Offered :
              /\ line \in Lines \cap {Timer, KeyboardLine} /\ pic.remapped
              /\ isr[KernelVector(line)] \in {"keyboard", "pit"}
  <1>1. Len(stack) \in {0, 1, 2} /\ (Len(stack) = 0 <=> stack = <<>>)
    <2>1. stack \in Seq(Frames) /\ Len(stack) <= 2
      BY DEF IntInv, IntType, StackInv
    <2>2. Len(stack) \in Nat /\ (stack # <<>> => Len(stack) \in Nat \ {0}) /\ Len(<<>>) = 0
      BY <2>1
    <2>3. Len(stack) \in {0, 1, 2}
      <3>1. \A n \in Nat : n <= 2 => n \in {0, 1, 2}
        OBVIOUS
      <3>2. QED
        BY <2>1, <2>2, <3>1
    <2>4. QED
      BY <2>2, <2>3
  <1>2. pc \in UpSteps /\ pic.inService = {}
    BY <1>1 DEF IntInv, StackInv, Halted, BootSteps, UpSteps
  <1>3. stack # <<>> => Len(stack) = 1 /\ ProgramFrame(stack[1], stdin) /\ stack[1].step = "reading"
    BY <1>1 DEF IntInv, StackInv
  <1>4. ASSUME NEW line \in Offered
        PROVE  /\ line \in Lines \cap {Timer, KeyboardLine} /\ pic.remapped
               /\ isr[KernelVector(line)] \in {"keyboard", "pit"}
    <2>1. line \in pic.pending \ pic.mask
      BY DEF Offered
    <2>2. line \in Lines \ pic.mask
      BY <2>1 DEF IntInv, IntType
    <2>3. QED
      BY <1>2, <2>2 DEF IntInv, TablesInv, Beyond
  <1>5. QED
    BY <1>2, <1>3, <1>4

(* Steps that leave the frames, the tables, the mask and what is in        *)
(* service alone keep the invariant.                                       *)
LEMMA IntInvRaise ==
  ASSUME IntInv, NEW line \in Lines, Raise(line)
  PROVE  IntInv'
  <1>1. pic' = [pic EXCEPT !.pending = pic.pending \cup {line}]
          /\ UNCHANGED <<pc, flag, stack, isr, stdin>>
    BY DEF Raise
  <1>2. IntType'
    <2>1. pic.pending \cup {line} \in SUBSET Lines
      BY DEF IntInv, IntType
    <2>2. QED
      BY <1>1, <2>1, Zenon DEF IntInv, IntType
  <1>3. pic'.remapped = pic.remapped /\ pic'.mask = pic.mask /\ pic'.inService = pic.inService
    BY <1>1 DEF IntInv, IntType
  <1>4. TablesInv'
    BY <1>1, <1>3 DEF IntInv, TablesInv, Beyond
  <1>5. StackInv'
    BY <1>1, <1>3 DEF IntInv, StackInv, LineFrame, ProgramFrame, InService, Halted
  <1>6. QED
    BY <1>2, <1>4, <1>5 DEF IntInv

(* What the frame on top of the stack can be.                              *)
LEMMA TopFrame ==
  ASSUME IntInv, stack # <<>>
  PROVE  /\ Len(stack) \in {1, 2} /\ Top \in Frames /\ Top.words = 2 /\ Top.flagWas
         /\ \/ /\ LineFrame(Top, isr) /\ pic.inService = InService(Top) /\ ~flag
            \/ /\ ProgramFrame(Top, stdin) /\ Len(stack) = 1 /\ pic.inService = {}
               /\ flag <=> Top.step = "reading"
               /\ isr[Top.vector] \in {"stub", "panic", "pageFault", "syscall"}
               /\ isr[Top.vector] = "syscall" <=> Top.vector = SystemCall
  <1>1. Len(stack) \in {1, 2}
    <2>1. stack \in Seq(Frames) /\ Len(stack) <= 2
      BY DEF IntInv, IntType, StackInv
    <2>2. Len(stack) \in Nat \ {0}
      BY <2>1, EmptySeq
    <2>3. \A n \in Nat \ {0} : n <= 2 => n \in {1, 2}
      OBVIOUS
    <2>4. QED
      BY <2>1, <2>2, <2>3
  <1>2. Top \in Frames /\ Top.words = 2 /\ Top.flagWas
    BY <1>1 DEF IntInv, IntType, StackInv, Top
  <1>3. \/ LineFrame(Top, isr) /\ pic.inService = InService(Top) /\ ~flag
        \/ /\ ProgramFrame(Top, stdin) /\ Len(stack) = 1 /\ pic.inService = {}
           /\ flag <=> Top.step = "reading"
    BY <1>1 DEF IntInv, StackInv, Top
  <1>4. ASSUME ProgramFrame(Top, stdin)
        PROVE  /\ isr[Top.vector] \in {"stub", "panic", "pageFault", "syscall"}
               /\ isr[Top.vector] = "syscall" <=> Top.vector = SystemCall
    <2>1. /\ \A v \in Exceptions : isr[v] \in {"stub", "panic", "pageFault"}
          /\ isr[SystemCall] = "syscall"
      BY DEF IntInv, TablesInv, Beyond
    <2>2. Top.vector \in Exceptions \/ Top.vector = SystemCall
      BY <1>4 DEF ProgramFrame
    <2>3. QED
      BY <2>1, <2>2
  <1>5. QED
    BY <1>1, <1>2, <1>3, <1>4

(* The tables are kept by steps that do not write them.                    *)
LEMMA TablesKept ==
  ASSUME IntInv, isr' = isr, pic'.mask = pic.mask, pic'.remapped = pic.remapped,
         \/ pc' = pc
         \/ pc' = "halted"
         \/ pc \in UpSteps /\ pc' \in UpSteps \ {"unmaskKeyboard", "unmaskTimer"},
         stack' # <<>> => stack # <<>> \/ pc \in UpSteps
  PROVE  TablesInv'
  <1>1. pc' \notin {"unmaskKeyboard", "unmaskTimer"} \/ pc' = pc
    OBVIOUS
  <1>2. Beyond({"handlers", "pics", "enable"})' => Beyond({"handlers", "pics", "enable"})
    BY DEF Beyond, UpSteps
  <1>3. Beyond({"pics", "enable"})' => Beyond({"pics", "enable"})
    BY DEF Beyond, UpSteps
  <1>4. Beyond({"enable"})' => Beyond({"enable"})
    BY DEF Beyond, UpSteps
  <1>5. QED
    BY <1>1, <1>2, <1>3, <1>4 DEF IntInv, TablesInv

(* A routine goes on to its next step.                                     *)
LEMMA RoutineSteps ==
  ASSUME IntInv, stack # <<>>, NEW s \in Steps, stack' = Stepped(s),
         UNCHANGED <<pc, isr, stdin>>, ~Halted, pic'.inService = {},
         \/ LineFrame(Top, isr) /\ s = "return" /\ ~flag'
         \/ /\ ProgramFrame(Top, stdin) /\ Len(stack) = 1
            /\ flag' <=> s = "reading"
            /\ s = "reading" => Top.vector = SystemCall /\ Top.cause \in {"read", "readOther"}
            /\ s # "start"
  PROVE  StackInv' /\ stack' \in Seq(Frames) /\ stack' # <<>>
  <1>1. stack \in Seq(Frames)
    BY DEF IntInv, IntType
  <1>2. Len(stack) \in {1, 2} /\ Top \in Frames /\ Top.words = 2 /\ Top.flagWas
    BY TopFrame
  <1> DEFINE top == [Top EXCEPT !.step = s]
  <1>3. /\ stack' \in Seq(Frames) /\ Len(stack') = Len(stack)
        /\ \A i \in 1 .. Len(stack) - 1 : stack'[i] = stack[i]
        /\ stack'[Len(stack)] = top
    BY <1>1, StackSteps
  <1>4. /\ top.step = s /\ top.vector = Top.vector /\ top.cause = Top.cause
        /\ top.words = 2 /\ top.flagWas
    BY <1>2, SteppedFrame
  <1> HIDE DEF top
  <1>5. stack' # <<>> /\ DOMAIN stack' = 1 .. Len(stack)
    BY <1>2, <1>3
  <1>6. \A i \in DOMAIN stack' : stack'[i].words = 2 /\ stack'[i].flagWas
    BY <1>2, <1>3, <1>4, <1>5 DEF IntInv, StackInv
  <1>7. pc \in UpSteps /\ InService(top) = {}
    BY <1>4 DEF IntInv, StackInv, Halted, InService
  <1>8. LineFrame(Top, isr) /\ s = "return" => LineFrame(top, isr)
    BY <1>4 DEF LineFrame
  <1>9. ProgramFrame(Top, stdin) /\ (s = "reading" => Top.vector = SystemCall /\ Top.cause \in {"read", "readOther"})
          /\ s # "start" => ProgramFrame(top, stdin)
    BY <1>4, InterruptsAssumption DEF ProgramFrame, Steps, SystemCall
  <1>10. CASE Len(stack) = 1
    <2>1. Len(stack') = 1 /\ stack'[1] = top
      BY <1>3, <1>10
    <2>2. \/ LineFrame(stack[1], isr)' /\ InService(stack[1])' = {} /\ ~flag'
          \/ ProgramFrame(stack[1], stdin)' /\ (flag' <=> stack'[1].step = "reading")
      BY <1>4, <1>7, <1>8, <1>9, <2>1
    <2>3. QED
      BY <1>3, <1>5, <1>6, <1>7, <2>1, <2>2 DEF IntInv, StackInv, Halted
  <1>11. CASE Len(stack) = 2
    <2>1. Len(stack') = 2 /\ stack'[1] = stack[1] /\ stack'[2] = top
      BY <1>3, <1>11
    <2>2. LineFrame(top, isr) /\ ~flag'
      BY <1>8, <1>11
    <2>3. LineFrame(stack[2], isr)' /\ InService(stack[2])' = {}
      BY <1>7, <2>1, <2>2
    <2>4. ProgramFrame(stack[1], stdin)' /\ stack'[1].step = "reading"
      BY <1>11, <2>1 DEF IntInv, StackInv
    <2>5. QED
      BY <1>3, <1>5, <1>6, <1>7, <2>1, <2>2, <2>3, <2>4 DEF IntInv, StackInv, Halted
  <1>12. QED
    BY <1>2, <1>3, <1>5, <1>10, <1>11

(* A line routine ends its interrupt.                                      *)
LEMMA LineRoutineStep ==
  ASSUME IntInv, Running({"keyboard", "pit", "irq"}, "start"), stack' = Stepped("return"),
         pic' = EndOfInterrupt(pic), UNCHANGED <<pc, flag, isr, stdin>>
  PROVE  IntInv'
  <1>1. stack # <<>> /\ Top.step = "start" /\ isr[Top.vector] \in {"keyboard", "pit", "irq"} /\ ~Halted
    BY DEF Running, Idle
  <1>2. LineFrame(Top, isr) /\ pic.inService = InService(Top) /\ ~flag
    BY <1>1, TopFrame
  <1>3. pic.inService = {Top.cause} /\ Top.cause \in {0, 1}
    BY <1>1, <1>2 DEF InService, LineFrame, Timer, KeyboardLine
  <1> DEFINE ended == pic.inService \ {l \in pic.inService : l < 8 /\ \A s \in pic.inService : l <= s}
  <1>4. ended = {}
    BY <1>3
  <1>5. pic' = [pic EXCEPT !.inService = ended]
    BY DEF EndOfInterrupt
  <1> HIDE DEF ended
  <1>6. pic'.inService = {} /\ pic'.mask = pic.mask /\ pic'.remapped = pic.remapped
    BY <1>4, <1>5 DEF IntInv, IntType
  <1>7. ended \in SUBSET Lines
    BY <1>4
  <1>8. "return" \in Steps
    BY DEF Steps
  <1>9. StackInv' /\ stack' \in Seq(Frames) /\ stack' # <<>>
    BY <1>1, <1>2, <1>6, <1>8, RoutineSteps
  <1>10. IntType'
    BY <1>5, <1>7, <1>9, Zenon DEF IntInv, IntType
  <1>11. TablesInv'
    BY <1>1, <1>6, TablesKept
  <1>12. QED
    BY <1>9, <1>10, <1>11 DEF IntInv

(* The routine of a call or an exception goes on, and a read starts.       *)
LEMMA ProgramRoutineStep ==
  ASSUME IntInv, stack # <<>>, ~Halted, isr[Top.vector] \in {"stub", "syscall"},
         NEW s \in {"reading", "return"}, stack' = Stepped(s),
         s = "reading" => isr[Top.vector] = "syscall" /\ Top.cause \in {"read", "readOther"},
         flag' = (s = "reading"), UNCHANGED <<pc, isr, pic, stdin>>
  PROVE  IntInv'
  <1>1. ProgramFrame(Top, stdin) /\ Len(stack) = 1 /\ pic.inService = {}
        /\ (isr[Top.vector] = "syscall" <=> Top.vector = SystemCall)
    BY TopFrame DEF LineFrame
  <1>2. s \in Steps /\ s # "start"
    BY DEF Steps
  <1>3. StackInv' /\ stack' \in Seq(Frames) /\ stack' # <<>>
    BY <1>1, <1>2, RoutineSteps
  <1>4. flag' \in BOOLEAN
    BY Zenon
  <1>5. IntType'
    BY <1>3, <1>4 DEF IntInv, IntType
  <1>6. TablesInv'
    BY <1>3, TablesKept
  <1>7. QED
    BY <1>3, <1>5, <1>6 DEF IntInv

(* A panic: whatever runs is left where it is.                             *)
LEMMA PanicStep ==
  ASSUME IntInv, Panic, UNCHANGED <<stack, isr, pic, stdin>>,
         stack # <<>> => Top.step = "start"
  PROVE  IntInv'
  <1>1. pc' = "halted" /\ flag' = FALSE
    BY DEF Panic
  <1>2. flag' \in BOOLEAN
    BY <1>1, Zenon
  <1>3. IntType'
    BY <1>1, <1>2 DEF IntInv, IntType
  <1>4. TablesInv'
    BY <1>1, TablesKept
  <1>5. StackInv'
    BY <1>1 DEF IntInv, StackInv, Halted, Top, BootSteps, UpSteps
  <1>6. QED
    BY <1>3, <1>4, <1>5 DEF IntInv

(* The interrupt of a line is taken, in the kernel or in a read.           *)
LEMMA DeliverStep ==
  ASSUME IntInv, Deliver
  PROVE  IntInv'
  <1>1. flag /\ ~Halted /\ flag' = FALSE /\ UNCHANGED <<pc, isr, stdin>>
    BY DEF Deliver, Interrupted
  <1>2. PICK line \in Offered :
          /\ stack' = Append(stack, Frame(IF pic.remapped THEN KernelVector(line) ELSE FirmwareVector(line), line))
          /\ pic' = [pic EXCEPT !.pending = @ \ {line}, !.inService = @ \cup {line}]
    BY Zenon DEF Deliver
  <1>3. /\ pc \in UpSteps /\ pic.inService = {}
        /\ stack # <<>> => Len(stack) = 1 /\ ProgramFrame(stack[1], stdin) /\ stack[1].step = "reading"
        /\ line \in Lines \cap {Timer, KeyboardLine} /\ pic.remapped
        /\ isr[KernelVector(line)] \in {"keyboard", "pit"}
    BY <1>1, FlagMeans
  <1> DEFINE f == Frame(KernelVector(line), line)
  <1>4. KernelVector(line) \in Int /\ line \in Lines /\ flag \in BOOLEAN
    BY <1>3, InterruptsAssumption DEF KernelVector, IntInv, IntType
  <1>5. /\ f \in Frames /\ f.vector = KernelVector(line) /\ f.cause = line /\ f.step = "start"
        /\ f.words = 2 /\ f.flagWas
    <2>1. \E l \in Lines : KernelVector(line) = KernelVector(l)
      BY <1>4
    <2>2. line \in Lines \cup Calls \cup {"exception"}
      BY <1>4
    <2>3. /\ f \in Frames /\ f.vector = KernelVector(line) /\ f.cause = line /\ f.step = "start"
          /\ f.words = 2 /\ f.flagWas = flag
      BY <1>4, <2>1, <2>2, PushedFrame, ZenonT(40)
    <2>4. QED
      BY <1>1, <2>3
  <1> HIDE DEF f
  <1>6. stack' = Append(stack, f)
    BY <1>2, <1>3 DEF f
  <1>7. LineFrame(f, isr) /\ InService(f) = {line}
    BY <1>3, <1>5 DEF LineFrame, InService
  <1>8. stack \in Seq(Frames)
    BY DEF IntInv, IntType
  <1>9. /\ stack' \in Seq(Frames) /\ Len(stack') = Len(stack) + 1
        /\ \A i \in 1 .. Len(stack) : stack'[i] = stack[i]
        /\ stack'[Len(stack) + 1] = f
    BY <1>5, <1>6, <1>8, StackSteps
  <1>10. (stack = <<>> /\ Len(stack) = 0) \/ Len(stack) = 1
    BY <1>3
  <1>11. /\ pic'.inService = {line} /\ pic'.mask = pic.mask /\ pic'.remapped = pic.remapped
    BY <1>2, <1>3 DEF IntInv, IntType
  <1>12. IntType'
    <2>1. pic.pending \ {line} \in SUBSET Lines /\ pic.inService \cup {line} \in SUBSET Lines
      BY <1>3 DEF IntInv, IntType
    <2>2. flag' \in BOOLEAN
      BY <1>1, Zenon
    <2>3. pic' \in [remapped : BOOLEAN, mask : SUBSET (0 .. 15), pending : SUBSET Lines,
                     inService : SUBSET Lines]
      BY <1>2, <2>1, Zenon DEF IntInv, IntType
    <2>4. QED
      BY <1>1, <1>9, <2>2, <2>3 DEF IntInv, IntType
  <1>13. TablesInv'
    BY <1>1, <1>3, <1>11, TablesKept
  <1>14. StackInv'
    <2>1. \A i \in DOMAIN stack' : stack'[i].words = 2 /\ stack'[i].flagWas
      BY <1>5, <1>8, <1>9 DEF IntInv, StackInv
    <2>2. stack' # <<>> /\ pc' \in UpSteps /\ ~Halted'
      BY <1>1, <1>3, <1>8, <1>9 DEF Halted
    <2>3. CASE stack = <<>> /\ Len(stack) = 0
      <3>1. Len(stack') = 1 /\ stack'[1] = f
        BY <1>9, <2>3
      <3>2. LineFrame(stack[1], isr)' /\ pic'.inService = InService(stack[1])'
        BY <1>1, <1>7, <1>11, <3>1
      <3>3. QED
        BY <1>1, <2>1, <2>2, <3>1, <3>2 DEF IntInv, StackInv
    <2>4. CASE Len(stack) = 1
      <3>1. Len(stack') = 2 /\ stack'[1] = stack[1] /\ stack'[2] = f /\ stack # <<>>
        <4>1. 1 \in 1 .. Len(stack) /\ Len(stack) + 1 = 2
          BY <2>4
        <4>2. stack # <<>>
          BY <2>4, EmptySeq
        <4>3. QED
          BY <1>9, <4>1, <4>2, Zenon
      <3>2. LineFrame(stack[2], isr)' /\ pic'.inService = InService(stack[2])'
        BY <1>1, <1>7, <1>11, <3>1
      <3>3. ProgramFrame(stack[1], stdin)' /\ stack'[1].step = "reading"
        BY <1>1, <1>3, <3>1
      <3>4. QED
        BY <1>1, <2>1, <2>2, <3>1, <3>2, <3>3 DEF IntInv, StackInv
    <2>5. QED
      BY <1>10, <2>3, <2>4
  <1>15. QED
    BY <1>12, <1>13, <1>14 DEF IntInv

(* A routine returns to what it interrupted: the kernel, or a read.          *)
LEMMA ReturnStep ==
  ASSUME IntInv, Return
  PROVE  IntInv'
  <1>1. /\ stack # <<>> /\ ~Halted /\ Top.step = "return" /\ stack' = Popped
        /\ flag' = Top.flagWas /\ UNCHANGED <<pc, isr, pic, stdin>>
    BY DEF Return, Idle
  <1>2. /\ Len(stack) \in {1, 2} /\ Top \in Frames /\ Top.flagWas /\ pic.inService = {}
    BY <1>1, TopFrame DEF InService
  <1>3. stack \in Seq(Frames) /\ flag' \in BOOLEAN /\ flag'
    BY <1>1, <1>2 DEF IntInv, IntType, Frames
  <1>4. /\ stack' \in Seq(Frames) /\ Len(stack') = Len(stack) - 1
        /\ \A i \in 1 .. Len(stack) - 1 : stack'[i] = stack[i]
    BY <1>1, <1>3, StackSteps
  <1>5. IntType'
    BY <1>1, <1>3, <1>4 DEF IntInv, IntType
  <1>6. TablesInv'
    BY <1>1, TablesKept
  <1>7. pc \in UpSteps
    BY <1>1 DEF IntInv, StackInv, Halted
  <1>8. CASE Len(stack) = 1
    <2>1. stack' = <<>> /\ Len(stack') = 0
      BY <1>4, <1>8
    <2>2. QED
      BY <1>1, <1>2, <1>3, <1>5, <1>6, <1>7, <2>1 DEF IntInv, StackInv, Halted
  <1>9. CASE Len(stack) = 2
    <2>1. Len(stack') = 1 /\ stack'[1] = stack[1]
      BY <1>4, <1>9
    <2>2. stack' # <<>> /\ DOMAIN stack' = {1} /\ 1 \in DOMAIN stack
      <3>1. DOMAIN stack' = 1 .. 1 /\ DOMAIN stack = 1 .. 2
        BY <1>3, <1>4, <1>9, <2>1
      <3>2. stack' # <<>>
        BY <2>1, EmptySeq
      <3>3. QED
        BY <3>1, <3>2
    <2>3. ProgramFrame(stack[1], stdin)' /\ stack'[1].step = "reading"
      BY <1>1, <1>9, <2>1 DEF IntInv, StackInv
    <2>4. \A i \in DOMAIN stack' : stack'[i].words = 2 /\ stack'[i].flagWas
      BY <2>1, <2>2 DEF IntInv, StackInv
    <2>5. StackInv'
      BY <1>1, <1>2, <1>3, <1>7, <2>1, <2>2, <2>3, <2>4 DEF IntInv, StackInv, Halted
    <2>6. QED
      BY <1>5, <1>6, <2>5 DEF IntInv
  <1>10. QED
    BY <1>2, <1>8, <1>9

(* A program calls the kernel or faults.                                   *)
LEMMA PushStep ==
  ASSUME IntInv, stack = <<>>, pc \in {"program", "faulting"}, pc' \in {"program", "faulting"},
         NEW v \in Exceptions \cup {SystemCall}, NEW cause \in Calls \cup {"exception"},
         stack' = Append(stack, Frame(v, cause)), flag' = FALSE, UNCHANGED <<isr, pic, stdin>>
  PROVE  IntInv'
  <1> DEFINE f == Frame(v, cause)
  <1>1. v \in Int /\ cause \in Lines \cup Calls \cup {"exception"} /\ flag \in BOOLEAN
    <2>1. v \in Int
      BY InterruptsAssumption DEF SystemCall
    <2>2. flag \in BOOLEAN
      BY DEF IntInv, IntType
    <2>3. QED
      BY <2>1, <2>2, Zenon
  <1>2. pc \in UpSteps /\ pc' \in UpSteps
    BY DEF UpSteps
  <1>3. flag /\ stdin /\ pic.inService = {}
    BY <1>2 DEF IntInv, StackInv
  <1>4. /\ f \in Frames /\ f.vector = v /\ f.cause = cause /\ f.step = "start"
        /\ f.words = 2 /\ f.flagWas = flag
    BY <1>1, PushedFrame, ZenonT(40)
  <1> HIDE DEF f
  <1>5. stack \in Seq(Frames) /\ Len(stack) = 0 /\ stack' = Append(stack, f)
    BY DEF IntInv, IntType, f
  <1>6. stack' \in Seq(Frames) /\ Len(stack') = 1 /\ stack'[1] = f /\ stack' # <<>> /\ DOMAIN stack' = {1}
    BY <1>4, <1>5
  <1>7. ProgramFrame(f, stdin)
    BY <1>3, <1>4 DEF ProgramFrame
  <1>8. ProgramFrame(stack[1], stdin)' /\ stack'[1].step = "start"
    BY <1>4, <1>6, <1>7
  <1>9. \A i \in DOMAIN stack' : stack'[i].words = 2 /\ stack'[i].flagWas
    <2>1. f.flagWas
      BY <1>3, <1>4
    <2>2. QED
      BY <1>4, <1>6, <2>1
  <1>10. StackInv'
    <2>1. ~flag' /\ ~Halted' /\ pic' = pic /\ stdin'
      BY <1>3, <1>2 DEF Halted, UpSteps
    <2>2. stack' # <<>> /\ Len(stack') = 1 /\ Len(stack') <= 2 /\ Len(stack') # 2
      BY <1>6
    <2>3. ProgramFrame(stack[1], stdin)' /\ pic'.inService = {} /\ (flag' <=> stack'[1].step = "reading")
      BY <1>3, <1>8, <2>1
    <2>4. pc' \in UpSteps \cup {"halted"}
      BY <1>2
    <2>5. QED
      BY <1>9, <2>1, <2>2, <2>3, <2>4, Zenon DEF StackInv
  <1>11. flag' \in BOOLEAN
    BY Zenon
  <1>12. IntType'
    BY <1>2, <1>6, <1>11 DEF IntInv, IntType
  <1>13. TablesInv'
    <2>1. pc' \in UpSteps \ {"unmaskKeyboard", "unmaskTimer"}
      BY <1>2
    <2>2. QED
      BY <1>2, <2>1, TablesKept
  <1>14. QED
    BY <1>10, <1>12, <1>13 DEF IntInv

(* A step of the kernel itself, outside of interrupts.                     *)
LEMMA IdleStack ==
  ASSUME stack' = <<>>, pic'.inService = {}, flag' <=> pc' \in UpSteps,
         pc' \in {"program", "faulting", "idle"} => stdin'
  PROVE  StackInv'
  BY DEF StackInv, Halted, UpSteps

(* The steps of booting, up to the interrupts being enabled.               *)
LEMMA BootStep ==
  ASSUME IntInv,
         ReadMultiboot \/ InstallTables \/ InstallHandlers \/ InitPics \/ EnableInterrupts
  PROVE  IntInv'
  <1>1. /\ stack = <<>> /\ stack' = <<>> /\ pc \in BootSteps /\ pc \notin UpSteps
    BY DEF ReadMultiboot, InstallTables, InstallHandlers, InitPics, EnableInterrupts, Kernel, Idle,
           BootSteps, UpSteps
  <1>2. pic.inService = {} /\ ~flag /\ flag \in BOOLEAN
    BY <1>1 DEF IntInv, IntType, StackInv
  <1>3. CASE ReadMultiboot
    <2>1. pc' \in {"install", "halted"} /\ ~flag' /\ UNCHANGED <<isr, pic, stdin>>
      BY <1>2, <1>3 DEF ReadMultiboot, Panic
    <2>2. flag' \in BOOLEAN
      BY <1>2, <1>3, Zenon DEF ReadMultiboot, Panic
    <2>3. StackInv'
      BY <1>1, <1>2, <2>1, IdleStack DEF UpSteps
    <2>4. QED
      BY <1>1, <2>1, <2>2, <2>3 DEF IntInv, IntType, TablesInv, Beyond, UpSteps, BootSteps
  <1>4. CASE InstallTables
    <2>1. pc' = "handlers" /\ UNCHANGED <<flag, pic, stdin>> /\ isr' = encodeISRs
      BY <1>4 DEF InstallTables
    <2>2. DOMAIN isr' = Vectors /\ \A v \in Exceptions : isr'[v] \in {"stub", "panic"}
      BY <2>1 DEF encodeISRs, Vectors
    <2>3. StackInv'
      BY <1>1, <1>2, <2>1, IdleStack DEF UpSteps
    <2>4. QED
      BY <1>1, <2>1, <2>2, <2>3 DEF IntInv, IntType, TablesInv, Beyond, UpSteps, BootSteps
  <1>5. CASE InstallHandlers
    <2>1. /\ pc = "handlers" /\ pc' = "pics" /\ UNCHANGED <<flag, pic, stdin>>
          /\ isr' = [isr EXCEPT ![PageFault] = "pageFault", ![SystemCall] = "syscall"]
      BY <1>5 DEF InstallHandlers, Kernel
    <2>2. /\ DOMAIN isr' = Vectors /\ isr'[SystemCall] = "syscall"
          /\ \A v \in Exceptions : isr'[v] \in {"stub", "panic", "pageFault"}
      BY <2>1, InterruptsAssumption
         DEF IntInv, IntType, TablesInv, Beyond, Vectors, PageFault, SystemCall
    <2>3. StackInv'
      BY <1>1, <1>2, <2>1, IdleStack DEF UpSteps
    <2>4. QED
      BY <1>1, <2>1, <2>2, <2>3 DEF IntInv, IntType, TablesInv, Beyond, UpSteps, BootSteps
  <1>6. CASE InitPics
    <2>1. /\ pc = "pics" /\ pc' = "enable" /\ UNCHANGED <<flag, stdin>>
          /\ isr' = [v \in Vectors |-> IF v \in {KernelVector(l) : l \in Lines} THEN "irq" ELSE isr[v]]
          /\ pic' = [remapped |-> TRUE, mask |-> 0 .. 15, pending |-> {}, inService |-> {}]
      BY <1>6 DEF InitPics, Kernel
    <2>2. /\ DOMAIN isr' = Vectors
          /\ \A line \in Lines : isr'[KernelVector(line)] = "irq"
      BY <2>1 DEF Vectors
    <2>3. \A v \in Exceptions \cup {SystemCall} :
            v \in Vectors /\ v \notin {KernelVector(l) : l \in Lines}
      BY InterruptsAssumption DEF Vectors, KernelVector, SystemCall
    <2>4. \A v \in Exceptions \cup {SystemCall} : isr'[v] = isr[v]
      BY <2>1, <2>3
    <2>5. /\ isr[SystemCall] = "syscall"
          /\ \A v \in Exceptions : isr[v] \in {"stub", "panic", "pageFault"}
      BY <2>1 DEF IntInv, TablesInv, Beyond
    <2>6. pic' \in [remapped : BOOLEAN, mask : SUBSET (0 .. 15), pending : SUBSET Lines,
                     inService : SUBSET Lines]
      BY <2>1, Zenon
    <2>7. pic'.remapped /\ pic'.mask = 0 .. 15 /\ pic'.inService = {} /\ Lines \ pic'.mask = {}
      BY <2>1, InterruptsAssumption
    <2>8. StackInv'
      BY <1>1, <1>2, <2>1, <2>7, IdleStack DEF UpSteps
    <2>9. IntType'
      BY <1>1, <2>1, <2>2, <2>6 DEF IntInv, IntType, BootSteps
    <2>10. TablesInv'
      BY <2>1, <2>2, <2>4, <2>5, <2>7 DEF TablesInv
    <2>11. QED
      BY <2>8, <2>9, <2>10 DEF IntInv
  <1>7. CASE EnableInterrupts
    <2>1. pc = "enable" /\ pc' = "keyboard" /\ flag' = TRUE /\ UNCHANGED <<isr, pic, stdin>>
      BY <1>7 DEF EnableInterrupts, Kernel
    <2>2. flag' \in BOOLEAN
      BY <2>1, Zenon
    <2>3. StackInv'
      BY <1>1, <1>2, <2>1, IdleStack DEF UpSteps
    <2>4. QED
      BY <1>1, <2>1, <2>2, <2>3 DEF IntInv, IntType, TablesInv, Beyond, UpSteps, BootSteps
  <1>8. QED
    BY <1>3, <1>4, <1>5, <1>6, <1>7

(* A driver sets its routine while its line is masked.                      *)
LEMMA SetRoutineStep ==
  ASSUME IntInv, NEW at \in UpSteps, NEW next \in UpSteps, NEW line \in {Timer, KeyboardLine},
         NEW routine, SetRoutine(at, KernelVector(line), routine, next),
         \/ line = KeyboardLine /\ routine = "keyboard" /\ next = "unmaskKeyboard"
         \/ line = Timer /\ routine = "pit" /\ next = "unmaskTimer",
         next \notin {"program", "faulting", "idle"}
  PROVE  IntInv'
  <1>1. /\ stack = <<>> /\ stack' = <<>> /\ pc \in UpSteps /\ pc' = next /\ UNCHANGED <<flag, pic, stdin>>
        /\ isr' = [isr EXCEPT ![KernelVector(line)] = routine]
    BY DEF SetRoutine, Kernel, Idle
  <1>2. pic.inService = {} /\ flag
    BY <1>1 DEF IntInv, StackInv
  <1>3. DOMAIN isr' = Vectors
    BY <1>1 DEF IntInv, IntType
  <1>4. \A v \in Exceptions \cup {SystemCall} : isr'[v] = isr[v]
    <2>1. KernelVector(line) \notin Exceptions \cup {SystemCall}
      BY InterruptsAssumption DEF KernelVector, SystemCall, Timer, KeyboardLine
    <2>2. \A v \in Exceptions \cup {SystemCall} : v \in Vectors
      BY DEF Vectors
    <2>3. QED
      BY <1>1, <2>1, <2>2 DEF IntInv, IntType
  <1>5. /\ line \in Lines => isr'[KernelVector(line)] = routine
        /\ \A l \in Lines : l # line => isr'[KernelVector(l)] = isr[KernelVector(l)]
    <2>1. \A l \in Lines : KernelVector(l) \in Vectors
      BY DEF Vectors
    <2>2. \A l \in Lines : l # line => KernelVector(l) # KernelVector(line)
      BY InterruptsAssumption DEF KernelVector, Timer, KeyboardLine
    <2>3. QED
      BY <1>1, <2>1, <2>2 DEF IntInv, IntType
  <1>6. IntType'
    BY <1>1, <1>3 DEF IntInv, IntType
  <1>7. TablesInv'
    <2>1. /\ \A v \in Exceptions : isr'[v] \in {"stub", "panic", "pageFault"}
          /\ isr'[SystemCall] = "syscall"
      BY <1>1, <1>4 DEF IntInv, TablesInv, Beyond
    <2>2. /\ pic'.remapped
          /\ \A l \in Lines : isr'[KernelVector(l)] \in {"irq", "keyboard", "pit"}
          /\ \A l \in Lines \ pic'.mask :
               \/ l = KeyboardLine /\ isr'[KernelVector(l)] = "keyboard"
               \/ l = Timer /\ isr'[KernelVector(l)] = "pit"
      BY <1>1, <1>5 DEF IntInv, TablesInv, Beyond, KeyboardLine, Timer
    <2>3. /\ (pc' = "unmaskKeyboard" /\ KeyboardLine \in Lines) => isr'[KernelVector(KeyboardLine)] = "keyboard"
          /\ (pc' = "unmaskTimer" /\ Timer \in Lines) => isr'[KernelVector(Timer)] = "pit"
      BY <1>1, <1>5
    <2>4. QED
      BY <2>1, <2>2, <2>3 DEF TablesInv
  <1>8. StackInv'
    BY <1>1, <1>2, IdleStack
  <1>9. QED
    BY <1>6, <1>7, <1>8 DEF IntInv

(* The line is unmasked once its routine is there.                         *)
LEMMA UnmaskLineStep ==
  ASSUME IntInv, NEW at \in UpSteps, NEW next \in UpSteps, NEW line \in {Timer, KeyboardLine},
         UnmaskLine(at, line, next),
         line \in Lines => \/ line = KeyboardLine /\ isr[KernelVector(line)] = "keyboard"
                           \/ line = Timer /\ isr[KernelVector(line)] = "pit",
         next \notin {"program", "faulting", "idle", "unmaskKeyboard", "unmaskTimer"}
  PROVE  IntInv'
  <1>1. /\ stack = <<>> /\ stack' = <<>> /\ pc \in UpSteps /\ pc' = next /\ UNCHANGED <<flag, isr, stdin>>
        /\ pic' = [pic EXCEPT !.mask = UnmaskIRQ(pic.mask, line)]
    BY DEF UnmaskLine, Kernel, Idle
  <1>2. pic.inService = {} /\ flag
    BY <1>1 DEF IntInv, StackInv
  <1>3. UnmaskIRQ(pic.mask, line) = pic.mask \ {line}
    BY DEF UnmaskIRQ, Timer, KeyboardLine
  <1>4. /\ pic'.mask = pic.mask \ {line} /\ pic'.remapped = pic.remapped
        /\ pic'.inService = pic.inService
    BY <1>1, <1>3 DEF IntInv, IntType
  <1>5. IntType'
    <2>1. UnmaskIRQ(pic.mask, line) \in SUBSET (0 .. 15)
      BY <1>3 DEF IntInv, IntType
    <2>2. pic' \in [remapped : BOOLEAN, mask : SUBSET (0 .. 15), pending : SUBSET Lines,
                     inService : SUBSET Lines]
      BY <1>1, <2>1, Zenon DEF IntInv, IntType
    <2>3. QED
      BY <1>1, <2>2 DEF IntInv, IntType
  <1>6. TablesInv'
    <2>1. /\ \A v \in Exceptions : isr'[v] \in {"stub", "panic", "pageFault"}
          /\ isr'[SystemCall] = "syscall"
      BY <1>1 DEF IntInv, TablesInv, Beyond
    <2>2. /\ pic'.remapped
          /\ \A l \in Lines : isr'[KernelVector(l)] \in {"irq", "keyboard", "pit"}
          /\ \A l \in Lines \ pic'.mask :
               \/ l = KeyboardLine /\ isr'[KernelVector(l)] = "keyboard"
               \/ l = Timer /\ isr'[KernelVector(l)] = "pit"
      BY <1>1, <1>4 DEF IntInv, TablesInv, Beyond
    <2>3. QED
      BY <1>1, <2>1, <2>2 DEF TablesInv
  <1>7. StackInv'
    BY <1>1, <1>2, <1>4, IdleStack
  <1>8. QED
    BY <1>5, <1>6, <1>7 DEF IntInv

(* Drivers are installed, programs start and end.                          *)
LEMMA UpStep ==
  ASSUME IntInv, InstallDrivers \/ SetIn \/ ProgramsEnd \/ IdleRead
  PROVE  IntInv'
  <1>1. CASE SetRoutine("keyboard", KernelVector(KeyboardLine), "keyboard", "unmaskKeyboard")
    BY <1>1, SetRoutineStep DEF UpSteps
  <1>2. CASE UnmaskLine("unmaskKeyboard", KeyboardLine, "timer")
    <2>1. KeyboardLine \in Lines => isr[KernelVector(KeyboardLine)] = "keyboard"
      BY <1>2 DEF UnmaskLine, Kernel, IntInv, TablesInv
    <2>2. QED
      <3>1. /\ {"unmaskKeyboard", "timer"} \subseteq UpSteps
            /\ "timer" \notin {"program", "faulting", "idle", "unmaskKeyboard", "unmaskTimer"}
        BY DEF UpSteps
      <3>2. "unmaskKeyboard" \in UpSteps /\ "timer" \in UpSteps
        BY <3>1
      <3>3. QED
        BY <1>2, <2>1, <3>1, <3>2, UnmaskLineStep
  <1>3. CASE SetRoutine("timer", KernelVector(Timer), "pit", "unmaskTimer")
    BY <1>3, SetRoutineStep DEF UpSteps
  <1>4. CASE UnmaskLine("unmaskTimer", Timer, "setIn")
    <2>1. Timer \in Lines => isr[KernelVector(Timer)] = "pit"
      BY <1>4 DEF UnmaskLine, Kernel, IntInv, TablesInv
    <2>2. QED
      BY <1>4, <2>1, UnmaskLineStep DEF UpSteps
  <1>5. CASE SetIn \/ ProgramsEnd \/ IdleRead
    <2>1. /\ stack = <<>> /\ stack' = <<>> /\ UNCHANGED <<flag, isr, pic>>
          /\ pc \in UpSteps /\ pc' \in UpSteps \ {"unmaskKeyboard", "unmaskTimer"} /\ stdin'
      BY <1>5 DEF SetIn, ProgramsEnd, IdleRead, Kernel, Idle, UpSteps, IntInv, StackInv
    <2>2. pic.inService = {} /\ flag
      BY <2>1 DEF IntInv, StackInv
    <2>3. StackInv'
      BY <2>1, <2>2, IdleStack
    <2>4. TablesInv'
      BY <2>1, TablesKept
    <2>5. IntType'
      BY <2>1 DEF IntInv, IntType
    <2>6. QED
      BY <2>3, <2>4, <2>5 DEF IntInv
  <1>6. QED
    BY <1>1, <1>2, <1>3, <1>4, <1>5 DEF InstallDrivers

(* The steps of routines.                                                  *)
LEMMA RoutineStep ==
  ASSUME IntInv, \/ KeyboardRoutine \/ LineRoutine \/ StubRoutine \/ PanicRoutine
                 \/ SyscallRoutine \/ ReadReturns
  PROVE  IntInv'
  <1>1. CASE KeyboardRoutine
    BY <1>1, LineRoutineStep DEF KeyboardRoutine, Running
  <1>2. CASE LineRoutine
    BY <1>2, LineRoutineStep DEF LineRoutine, Running
  <1>3. CASE StubRoutine
    <2>1. /\ stack # <<>> /\ ~Halted /\ isr[Top.vector] = "stub" /\ Top.step = "start"
          /\ stack' = Stepped("return") /\ flag' = flag /\ UNCHANGED <<pc, isr, pic, stdin>>
      BY <1>3 DEF StubRoutine, Running, Idle
    <2>2. flag' = ("return" = "reading")
      BY <2>1, TopFrame DEF LineFrame, IntInv, IntType
    <2>3. QED
      BY <2>1, <2>2, ProgramRoutineStep
  <1>4. CASE PanicRoutine
    BY <1>4, PanicStep DEF PanicRoutine, Running
  <1>5. CASE SyscallRoutine
    <2>1. /\ stack # <<>> /\ ~Halted /\ isr[Top.vector] = "syscall" /\ Top.step = "start"
          /\ UNCHANGED <<isr, pic, stdin>>
      BY <1>5 DEF SyscallRoutine, Running, Idle
    <2>2. CASE Top.cause \in {"read", "readOther"} /\ stack' = Stepped("reading") /\ flag' = TRUE /\ UNCHANGED pc
      <3>1. flag' = ("reading" = "reading")
        BY <2>2
      <3>2. QED
        BY <2>1, <2>2, <3>1, ProgramRoutineStep
    <2>3. CASE Panic /\ UNCHANGED stack
      BY <2>1, <2>3, PanicStep
    <2>4. CASE stack' = Stepped("return") /\ UNCHANGED <<pc, flag>>
      <3>1. flag' = ("return" = "reading")
        BY <2>1, <2>4, TopFrame DEF LineFrame, IntInv, IntType
      <3>2. QED
        BY <2>1, <2>4, <3>1, ProgramRoutineStep
    <2>5. QED
      BY <1>5, <2>2, <2>3, <2>4 DEF SyscallRoutine
  <1>6. CASE ReadReturns
    <2>1. /\ stack # <<>> /\ ~Halted /\ isr[Top.vector] = "syscall"
          /\ stack' = Stepped("return") /\ flag' = FALSE /\ UNCHANGED <<pc, isr, pic, stdin>>
      BY <1>6 DEF ReadReturns, Running, Idle
    <2>2. flag' = ("return" = "reading")
      BY <2>1
    <2>3. QED
      BY <2>1, <2>2, ProgramRoutineStep
  <1>7. QED
    BY <1>1, <1>2, <1>3, <1>4, <1>5, <1>6

LEMMA IntInvStep == IntInv /\ [Next]_kernelVars => IntInv'
  <1> SUFFICES ASSUME IntInv, [Next]_kernelVars PROVE IntInv'
    OBVIOUS
  <1>1. CASE UNCHANGED intVars
    BY <1>1 DEF intVars, IntInv, IntType, TablesInv, Beyond, StackInv, Halted
  <1>2. CASE IntNext
    <2>1. CASE \E line \in Lines : Raise(line)
      BY <2>1, IntInvRaise
    <2>2. CASE \E call \in Calls : Call(call)
      <3>1. PICK call \in Calls : Call(call)
        BY <2>2
      <3>2. /\ stack = <<>> /\ pc = "program" /\ pc' = pc /\ flag' = FALSE /\ UNCHANGED <<isr, pic, stdin>>
            /\ stack' = Append(stack, Frame(SystemCall, call))
        BY <3>1 DEF Call, Kernel, Idle
      <3>3. QED
        BY <3>2, PushStep
    <2>3. CASE \E exception \in Exceptions : Fault(exception)
      <3>1. PICK exception \in Exceptions : Fault(exception)
        BY <2>3
      <3>2. /\ stack = <<>> /\ pc \in {"program", "faulting"} /\ pc' = "faulting" /\ flag' = FALSE
            /\ UNCHANGED <<isr, pic, stdin>> /\ stack' = Append(stack, Frame(exception, "exception"))
        BY <3>1 DEF Fault, Kernel, Idle
      <3>3. QED
        BY <3>2, PushStep
    <2>4. QED
      BY <1>2, <2>1, <2>2, <2>3, DeliverStep, ReturnStep, RoutineStep, BootStep, UpStep
         DEF IntNext, CpuStep
  <1>3. QED
    BY <1>1, <1>2 DEF Next, kernelVars

(* Interrupts find their routines: from the invariant, what is on the stack has   *)
(* its routine, and a line that is not masked its driver's.                *)
LEMMA IntInvReady == IntInv => HandlersReady
  <1> SUFFICES ASSUME IntInv PROVE HandlersReady
    OBVIOUS
  <1>1. GatesLeadToStubs
    BY DescriptorsDecode
  <1>2. ASSUME flag
        PROVE  /\ pic.remapped
               /\ \A line \in Lines \ pic.mask :
                    isr[KernelVector(line)] =
                      CASE line = KeyboardLine -> "keyboard"
                        [] line = Timer -> "pit"
                        [] OTHER -> "none"
    BY <1>2, FlagMeans DEF IntInv, TablesInv, Beyond, KeyboardLine, Timer
  <1>3. ASSUME NEW i \in DOMAIN stack
        PROVE  /\ stack[i].words = 2
               /\ isr[stack[i].vector] # "none"
               /\ (stack[i].step = "reading" /\ stack[i].cause = "read") => stdin
    <2>1. stack # <<>> /\ stack \in Seq(Frames)
      BY <1>3 DEF IntInv, IntType
    <2>2. Len(stack) \in {1, 2}
      BY <2>1, TopFrame
    <2>3. LineFrame(stack[i], isr) \/ ProgramFrame(stack[i], stdin)
      BY <1>3, <2>1, <2>2 DEF IntInv, StackInv
    <2>4. /\ \A v \in Exceptions : isr[v] \in {"stub", "panic", "pageFault"}
          /\ isr[SystemCall] = "syscall"
      BY <2>1 DEF IntInv, TablesInv, Beyond
    <2>5. QED
      BY <1>3, <2>3, <2>4 DEF LineFrame, ProgramFrame, IntInv, StackInv
  <1>4. QED
    BY <1>1, <1>2, <1>3 DEF HandlersReady

(* ... and routines do not pile up.                                        *)
LEMMA IntInvNest == IntInv => HandlersNest
  <1> SUFFICES ASSUME IntInv PROVE HandlersNest
    OBVIOUS
  <1> DEFINE served == {stack[i].cause : i \in {j \in DOMAIN stack :
                          OfLine(stack[j]) /\ stack[j].step = "start"}}
  <1>1. (Idle /\ pc \in {"program", "faulting", "idle"}) => flag
    BY DEF IntInv, StackInv, Idle, UpSteps
  <1>2. \A f : LineFrame(f, isr) => OfLine(f)
    BY DEF LineFrame, OfLine
  <1>3. ASSUME stack # <<>>
        PROVE  \A f : ProgramFrame(f, stdin) => ~OfLine(f)
    BY <1>3 DEF ProgramFrame, OfLine, IntInv, TablesInv, Beyond
  <1>4. CASE stack = <<>>
    <2>1. Len(stack) = 0 /\ DOMAIN stack = {} /\ pic.inService = {}
      BY <1>4 DEF IntInv, StackInv
    <2>2. served = {}
      BY <2>1
    <2>3. QED
      BY <1>1, <2>1, <2>2 DEF HandlersNest
  <1>5. CASE stack # <<>> /\ Len(stack) = 1
    <2>1. DOMAIN stack = {1}
      BY <1>5 DEF IntInv, IntType
    <2>2. pic.inService = served
      BY <1>2, <1>3, <1>5, <2>1 DEF IntInv, StackInv, InService
    <2>3. QED
      BY <1>1, <1>5, <2>2 DEF HandlersNest
  <1>6. CASE stack # <<>> /\ Len(stack) = 2
    <2>1. DOMAIN stack = {1, 2} /\ 1 .. Len(stack) - 1 = {1}
      BY <1>6 DEF IntInv, IntType
    <2>2. /\ ~OfLine(stack[1]) /\ OfLine(stack[2]) /\ stack[1].step = "reading"
          /\ pic.inService = InService(stack[2])
      BY <1>2, <1>3, <1>6 DEF IntInv, StackInv
    <2>3. pic.inService = served
      BY <2>1, <2>2 DEF InService
    <2>4. QED
      BY <1>1, <1>6, <2>1, <2>2, <2>3 DEF HandlersNest
  <1>7. QED
    BY <1>4, <1>5, <1>6, TopFrame

(* Whatever interrupts the kernel, from the moment it enables interrupts   *)
(* on and in every interleaving of devices, calls and exceptions, finds    *)
(* the routine meant for it and the frame iret expects.                    *)
THEOREM InterruptsFindHandlers == Spec => []HandlersReady
  <1>1. Spec => []IntInv
    BY IntInvInit, IntInvStep, PTL DEF Spec
  <1>2. QED
    BY <1>1, IntInvReady, PTL

(* At most one routine of a line runs, above nothing but the kernel or a   *)
(* read, and the controllers hold in service the line it is about.         *)
THEOREM HandlersDoNotPileUp == Spec => []HandlersNest
  <1>1. Spec => []IntInv
    BY IntInvInit, IntInvStep, PTL DEF Spec
  <1>2. QED
    BY <1>1, IntInvNest, PTL


-----------------------------------------------------------------------------
(* Texts.  What FoldLeft does with a text, one character after another:    *)
(* to a console with putChar or write, and to the paper with a pen.        *)

LEMMA Least ==
  ASSUME NEW T \in SUBSET Nat, T # {}
  PROVE  \E n \in T : \A k \in T : n <= k
  <1>1. IsWellFoundedOn(OpToRel(<, Nat), Nat)
    BY NatLessThanWellFounded
  <1>2. PICK n \in T : \A k \in T : ~(<<k, n>> \in OpToRel(<, Nat))
    BY <1>1, WFMin
  <1>3. ASSUME NEW k \in T PROVE n <= k
    <2>1. k \in Nat /\ n \in Nat
      OBVIOUS
    <2>2. <<k, n>> \notin OpToRel(<, Nat)
      BY <1>2
    <2>3. ~(k < n)
      BY <2>1, <2>2 DEF OpToRel
    <2>4. QED
      BY <2>1, <2>3
  <1>4. QED
    BY <1>3

Typed(how, color, x, c) ==
  IF how = "put" THEN putChar(x, c) ELSE IF how = "write" THEN write(x, c) ELSE Pen(color, x, c)

FoldStep(how, color, x, text, g, s) ==
  IF s = {} THEN x ELSE Typed(how, color, g[s \ {Max(s)}], text[Max(s)])

IsFold(how, color, x, text, D, g) == g = [s \in SUBSET D |-> FoldStep(how, color, x, text, g, s)]

(* A text of n characters takes a console or a paper through these.       *)
Through(how, color, x, text, n, h) ==
  /\ h[0] = x
  /\ \A k \in 0 .. n - 1 : h[k + 1] = Typed(how, color, h[k], text[k + 1])

LEMMA MaxIs ==
  ASSUME NEW n \in Nat, NEW s \in SUBSET (1 .. n + 1), n + 1 \in s
  PROVE  Max(s) = n + 1
  <1>1. \A y \in s : y \in Int /\ n + 1 >= y
    OBVIOUS
  <1>2. PICK m : m = Max(s)
    OBVIOUS
  <1>3. m \in s /\ \A y \in s : m >= y
    BY <1>1, <1>2 DEF Max
  <1>4. m >= n + 1 /\ n + 1 >= m /\ m \in Int
    BY <1>1, <1>3
  <1>5. QED
    BY <1>2, <1>4

LEMMA FoldExists ==
  ASSUME NEW how, NEW color, NEW x, NEW text, NEW n \in Nat
  PROVE  \E g : IsFold(how, color, x, text, 1 .. n, g)
  <1> DEFINE Failing == {k \in Nat : ~ \E g : IsFold(how, color, x, text, 1 .. k, g)}
  <1>1. Failing = {}
    <2>1. SUFFICES ASSUME Failing # {} PROVE FALSE
      OBVIOUS
    <2>2. PICK k \in Failing : \A j \in Failing : k <= j
      BY <2>1, Least
    <2>3. CASE k = 0
      <3> DEFINE g == [s \in SUBSET (1 .. 0) |-> x]
      <3>1. \A s \in SUBSET (1 .. 0) : s = {}
        OBVIOUS
      <3>2. \A s \in SUBSET (1 .. 0) : FoldStep(how, color, x, text, g, s) = x
        BY <3>1 DEF FoldStep
      <3>3. g = [s \in SUBSET (1 .. 0) |-> FoldStep(how, color, x, text, g, s)]
        BY <3>2
      <3>4. IsFold(how, color, x, text, 1 .. 0, g)
        BY <3>3, Zenon DEF IsFold
      <3>5. QED
        BY <2>2, <2>3, <3>4
    <2>4. CASE k # 0
      <3>1. PICK j \in Nat : k = j + 1
        BY <2>4
      <3>2. j \notin Failing
        <4> HIDE DEF Failing
        <4>1. QED
          BY <2>2, <3>1
      <3>3. PICK g : IsFold(how, color, x, text, 1 .. j, g)
        BY <3>2
      <3> DEFINE h == [s \in SUBSET (1 .. k) |-> FoldStep(how, color, x, text, g, s)]
      <3>4. \A s \in SUBSET (1 .. j) : s \in SUBSET (1 .. k) /\ h[s] = g[s]
        <4>1. \A s \in SUBSET (1 .. j) : s \in SUBSET (1 .. k)
          BY <3>1
        <4>2. \A s \in SUBSET (1 .. j) : g[s] = FoldStep(how, color, x, text, g, s)
          BY <3>3, Zenon DEF IsFold
        <4>3. QED
          BY <4>1, <4>2
      <3>5. \A s \in SUBSET (1 .. k) : FoldStep(how, color, x, text, h, s) = FoldStep(how, color, x, text, g, s)
        <4>1. TAKE s \in SUBSET (1 .. k)
        <4>2. CASE s = {}
          BY <4>2 DEF FoldStep
        <4>3. CASE s # {}
          <5>1. s \ {Max(s)} \in SUBSET (1 .. j)
            <6>0. \A i \in s : i \in 1 .. j + 1
              BY <3>1
            <6>1. CASE k \in s
              <7>1. Max(s) = j + 1
                BY <3>1, <6>1, MaxIs
              <7>2. \A i \in s \ {j + 1} : i \in 1 .. j
                BY <6>0
              <7>3. QED
                BY <7>1, <7>2
            <6>2. CASE k \notin s
              <7>1. \A i \in s : i \in 1 .. j
                BY <3>1, <6>0, <6>2
              <7>2. QED
                BY <7>1
            <6>3. QED
              BY <6>1, <6>2
          <5>2. h[s \ {Max(s)}] = g[s \ {Max(s)}]
            BY <3>4, <5>1
          <5> HIDE DEF h
          <5>3. QED
            BY <4>3, <5>2 DEF FoldStep
        <4>4. QED
          BY <4>2, <4>3
      <3>6. h = [s \in SUBSET (1 .. k) |-> FoldStep(how, color, x, text, h, s)]
        BY <3>5
      <3>7. IsFold(how, color, x, text, 1 .. k, h)
        BY <3>6, Zenon DEF IsFold
      <3>8. QED
        BY <2>2, <3>7
    <2>5. QED
      BY <2>3, <2>4
  <1>2. QED
    BY <1>1

(* Such a fold goes through the text from its beginning.                   *)
LEMMA FoldGoesThrough ==
  ASSUME NEW how, NEW color, NEW x, NEW text, NEW n \in Nat, NEW g, IsFold(how, color, x, text, 1 .. n, g)
  PROVE  \E h : Through(how, color, x, text, n, h) /\ h[n] = g[1 .. n]
  <1>1. \A s \in SUBSET (1 .. n) : g[s] = FoldStep(how, color, x, text, g, s)
    BY Zenon DEF IsFold
  <1> DEFINE h == [k \in 0 .. n |-> g[1 .. k]]
  <1>2. h[0] = x
    <2>1. h[0] = g[1 .. 0] /\ 1 .. 0 = {} /\ {} \in SUBSET (1 .. n)
      OBVIOUS
    <2>2. g[{}] = FoldStep(how, color, x, text, g, {})
      BY <1>1, <2>1
    <2>3. QED
      BY <2>1, <2>2 DEF FoldStep
  <1>3. ASSUME NEW k \in 0 .. n - 1 PROVE h[k + 1] = Typed(how, color, h[k], text[k + 1])
    <2>1. k \in Nat /\ k + 1 \in 0 .. n /\ k \in 0 .. n
      OBVIOUS
    <2>2. h[k + 1] = g[1 .. k + 1] /\ h[k] = g[1 .. k]
      BY <2>1
    <2>3. 1 .. k + 1 \in SUBSET (1 .. n) /\ 1 .. k + 1 # {} /\ k + 1 \in 1 .. k + 1
      <3>1. \A i \in 1 .. k + 1 : i \in 1 .. n
        BY <2>1
      <3>2. k + 1 \in 1 .. k + 1
        BY <2>1
      <3>3. QED
        BY <3>1, <3>2
    <2>4. Max(1 .. k + 1) = k + 1
      BY <2>1, <2>3, MaxIs
    <2>5. (1 .. k + 1) \ {k + 1} = 1 .. k
      BY <2>1
    <2>6. g[1 .. k + 1] = FoldStep(how, color, x, text, g, 1 .. k + 1)
      BY <1>1, <2>3
    <2> HIDE DEF h
    <2>7. FoldStep(how, color, x, text, g, 1 .. k + 1) = Typed(how, color, g[1 .. k], text[k + 1])
      BY <2>3, <2>4, <2>5 DEF FoldStep
    <2>8. QED
      BY <2>2, <2>6, <2>7
  <1>4. h[n] = g[1 .. n]
    OBVIOUS
  <1>5. Through(how, color, x, text, n, h)
    <2> HIDE DEF h
    <2>1. QED
      BY <1>2, <1>3 DEF Through
  <1>6. QED
    BY <1>4, <1>5

PutStep(x, text, g, s) == IF s = {} THEN x ELSE putChar(g[s \ {Max(s)}], text[Max(s)])

IsPutFold(x, text, D, g) == g = [s \in SUBSET D |-> PutStep(x, text, g, s)]

LEMMA PutGoesThrough ==
  ASSUME NEW x, NEW text, NEW n \in Nat, DOMAIN text = 1 .. n
  PROVE  \E h : Through("put", 0, x, text, n, h) /\ h[n] = FoldLeft(putChar, x, text)
  <1>1. FoldLeft(putChar, x, text) = (CHOOSE g : IsPutFold(x, text, DOMAIN text, g))[DOMAIN text]
    BY Zenon DEF FoldLeft, MapThenFoldSet, IsPutFold, PutStep
  <1>2. \A g : \A s : PutStep(x, text, g, s) = FoldStep("put", 0, x, text, g, s)
    BY DEF PutStep, FoldStep, Typed
  <1>3. \A g : IsPutFold(x, text, 1 .. n, g) <=> IsFold("put", 0, x, text, 1 .. n, g)
    BY <1>2 DEF IsPutFold, IsFold
  <1>4. \E g : IsPutFold(x, text, 1 .. n, g)
    BY <1>3, FoldExists
  <1>5. PICK g : g = CHOOSE e : IsPutFold(x, text, 1 .. n, e)
    OBVIOUS
  <1>6. IsPutFold(x, text, 1 .. n, g)
    BY <1>4, <1>5, Zenon
  <1>7. FoldLeft(putChar, x, text) = g[1 .. n]
    BY <1>1, <1>5
  <1>8. QED
    BY <1>3, <1>6, <1>7, FoldGoesThrough

WriteStep(x, text, g, s) == IF s = {} THEN x ELSE write(g[s \ {Max(s)}], text[Max(s)])

IsWriteFold(x, text, D, g) == g = [s \in SUBSET D |-> WriteStep(x, text, g, s)]

LEMMA WriteGoesThrough ==
  ASSUME NEW x, NEW text, NEW n \in Nat, DOMAIN text = 1 .. n
  PROVE  \E h : Through("write", 0, x, text, n, h) /\ h[n] = FoldLeft(write, x, text)
  <1>1. FoldLeft(write, x, text) = (CHOOSE g : IsWriteFold(x, text, DOMAIN text, g))[DOMAIN text]
    BY Zenon DEF FoldLeft, MapThenFoldSet, IsWriteFold, WriteStep
  <1>2. \A g : \A s : WriteStep(x, text, g, s) = FoldStep("write", 0, x, text, g, s)
    BY DEF WriteStep, FoldStep, Typed
  <1>3. \A g : IsWriteFold(x, text, 1 .. n, g) <=> IsFold("write", 0, x, text, 1 .. n, g)
    BY <1>2 DEF IsWriteFold, IsFold
  <1>4. \E g : IsWriteFold(x, text, 1 .. n, g)
    BY <1>3, FoldExists
  <1>5. PICK g : g = CHOOSE e : IsWriteFold(x, text, 1 .. n, e)
    OBVIOUS
  <1>6. IsWriteFold(x, text, 1 .. n, g)
    BY <1>4, <1>5, Zenon
  <1>7. FoldLeft(write, x, text) = g[1 .. n]
    BY <1>1, <1>5
  <1>8. QED
    BY <1>3, <1>6, <1>7, FoldGoesThrough

PenStep(x, text, color, g, s) == IF s = {} THEN x ELSE Pen(color, g[s \ {Max(s)}], text[Max(s)])

IsPenFold(x, text, color, D, g) == g = [s \in SUBSET D |-> PenStep(x, text, color, g, s)]

LEMMA PenGoesThrough ==
  ASSUME NEW x, NEW text, NEW n \in Nat, DOMAIN text = 1 .. n, NEW color
  PROVE  \E h : Through("pen", color, x, text, n, h) /\ h[n] = Penned(x, text, color)
  <1>1. Penned(x, text, color) = (CHOOSE g : IsPenFold(x, text, color, DOMAIN text, g))[DOMAIN text]
    BY Zenon DEF Penned, FoldLeft, MapThenFoldSet, IsPenFold, PenStep
  <1>2. \A g : \A s : PenStep(x, text, color, g, s) = FoldStep("pen", color, x, text, g, s)
    BY DEF PenStep, FoldStep, Typed
  <1>3. \A g : IsPenFold(x, text, color, 1 .. n, g) <=> IsFold("pen", color, x, text, 1 .. n, g)
    BY <1>2 DEF IsPenFold, IsFold
  <1>4. \E g : IsPenFold(x, text, color, 1 .. n, g)
    BY <1>3, FoldExists
  <1>5. PICK g : g = CHOOSE e : IsPenFold(x, text, color, 1 .. n, e)
    OBVIOUS
  <1>6. IsPenFold(x, text, color, 1 .. n, g)
    BY <1>4, <1>5, Zenon
  <1>7. Penned(x, text, color) = g[1 .. n]
    BY <1>1, <1>5
  <1>8. QED
    BY <1>3, <1>6, <1>7, FoldGoesThrough

-----------------------------------------------------------------------------
(* The cells of the screen. *)

LEMMA Sides ==
  /\ Width \in Nat /\ Width > 6 /\ Height \in Nat /\ Height > 1
  /\ Width * Height \in Nat /\ Width * (Height - 1) \in Nat /\ Width * (Height - 1) = Width * Height - Width
  BY ConsoleAssumption

LEMMA RowsBefore ==
  ASSUME NEW r \in Nat, NEW s \in Nat, r < s
  PROVE  r * Width \in Nat /\ s * Width \in Nat /\ r * Width + Width <= s * Width
  <1>1. PICK d \in Nat : s = r + 1 + d
    <2>1. s - r - 1 \in Nat /\ s = r + 1 + (s - r - 1)
      OBVIOUS
    <2>2. QED
      BY <2>1
  <1>2. (r + 1 + d) * Width = r * Width + Width + d * Width
    BY Sides
  <1>3. d * Width \in Nat /\ r * Width \in Nat
    BY Sides
  <1>4. QED
    BY <1>1, <1>2, <1>3, Sides

LEMMA PositionOnScreen ==
  ASSUME NEW row \in 0 .. Height - 1, NEW col \in 0 .. Width - 1
  PROVE  Position(row, col) \in 0 .. Width * Height - 1
  <1>1. row \in Nat /\ Height \in Nat /\ row < Height /\ col \in Nat /\ col < Width
    BY Sides
  <1>2. row * Width \in Nat /\ Height * Width \in Nat /\ row * Width + Width <= Height * Width
    BY <1>1, RowsBefore
  <1>3. Height * Width = Width * Height
    BY Sides
  <1>4. QED
    BY <1>1, <1>2, <1>3, Sides DEF Position

LEMMA PositionsDiffer ==
  ASSUME NEW r \in 0 .. Height - 1, NEW c \in 0 .. Width - 1, NEW s \in 0 .. Height - 1, NEW d \in 0 .. Width - 1,
         Position(r, c) = Position(s, d)
  PROVE  r = s /\ c = d
  <1>0. r \in Nat /\ s \in Nat /\ c \in Nat /\ c < Width /\ d \in Nat /\ d < Width /\ r * Width + c = s * Width + d
    BY Sides DEF Position
  <1>1. ~(r < s)
    <2>1. SUFFICES ASSUME r < s PROVE FALSE
      OBVIOUS
    <2>2. r * Width \in Nat /\ s * Width \in Nat /\ r * Width + Width <= s * Width
      BY <1>0, <2>1, RowsBefore
    <2>3. QED
      BY <1>0, <2>2, Sides
  <1>2. ~(s < r)
    <2>1. SUFFICES ASSUME s < r PROVE FALSE
      OBVIOUS
    <2>2. r * Width \in Nat /\ s * Width \in Nat /\ s * Width + Width <= r * Width
      BY <1>0, <2>1, RowsBefore
    <2>3. QED
      BY <1>0, <2>2, Sides
  <1>3. r = s
    BY <1>0, <1>1, <1>2
  <1>4. PICK e \in Nat : e = r * Width
    BY <1>0, Sides
  <1>5. e + c = e + d
    BY <1>0, <1>3, <1>4
  <1>6. QED
    BY <1>0, <1>3, <1>5

(* Scrolling by a row.  *)
LEMMA PositionScrolled ==
  ASSUME NEW row \in 0 .. Height - 1, NEW col \in 0 .. Width - 1
  PROVE  /\ row < Height - 1 => /\ Position(row, col) < Width * (Height - 1)
                                /\ Position(row, col) + Width * 1 = Position(row + 1, col)
         /\ row = Height - 1 => ~(Position(row, col) < Width * (Height - 1))
  <1>1. row \in Nat /\ Height - 1 \in Nat /\ col \in Nat /\ col < Width /\ row * Width \in Nat
    BY Sides
  <1>2. (Height - 1) * Width = Width * (Height - 1)
    BY Sides
  <1>3. (row + 1) * Width = row * Width + Width
    BY <1>1, Sides
  <1>4. ASSUME row < Height - 1 PROVE Position(row, col) < Width * (Height - 1)
    <2>1. row * Width + Width <= (Height - 1) * Width
      BY <1>1, <1>4, RowsBefore
    <2>2. QED
      BY <1>1, <1>2, <2>1, Sides DEF Position
  <1>5. Position(row, col) + Width * 1 = Position(row + 1, col)
    BY <1>1, <1>3, Sides DEF Position
  <1>6. ASSUME row = Height - 1 PROVE ~(Position(row, col) < Width * (Height - 1))
    BY <1>1, <1>2, <1>6, Sides DEF Position
  <1>7. QED
    BY <1>4, <1>5, <1>6

-----------------------------------------------------------------------------
(* The screen is a window on the paper, after each character. *)

Glyphs == {"blank", "newline", "backspace", "high", "x", "t", "[", "]", "D", "O", "N", "E", "F", "A", "I", "L"}
Cells == [char : Glyphs, color : Int]
Strip == [0 .. Width - 1 -> Cells]

IsConsole(con) ==
  con = [buffer |-> con.buffer, row |-> con.row, col |-> con.col, color |-> con.color,
         visible |-> con.visible, cursor |-> con.cursor]

ConsoleOK(con) ==
  /\ IsConsole(con)
  /\ con.buffer \in [0 .. Width * Height - 1 -> Cells]
  /\ con.row \in 0 .. Height - 1 /\ con.col \in 0 .. Width - 1
  /\ con.color \in 0 .. 15 /\ con.visible \in BOOLEAN
  /\ con.cursor = IF con.visible THEN Position(con.row, con.col) ELSE HiddenCursor

IsPaper(p) == p = [lines |-> p.lines, row |-> p.row, col |-> p.col]

PaperOK(p) ==
  /\ IsPaper(p)
  /\ p.lines \in Seq(Strip) /\ Len(p.lines) >= Height
  /\ p.row \in FirstShown(p) .. Len(p.lines) /\ p.col \in 0 .. Width - 1

(* What the video memory holds of a character written in a colour.         *)
Displayed(ink) == make_vgaentry(ink.char, ink.color)

SameCells(buffer, lines) ==
  \A row \in 0 .. Height - 1, col \in 0 .. Width - 1 :
    buffer[Position(row, col)] = Displayed(lines[Len(lines) - Height + 1 + row][col])

Shows(con, p) ==
  /\ ConsoleOK(con) /\ PaperOK(p)
  /\ SameCells(con.buffer, p.lines)
  /\ con.row = p.row - FirstShown(p) /\ con.col = p.col

Keeps(con, con2) == con2.color = con.color /\ con2.visible = con.visible

LEMMA ShowsFacts ==
  ASSUME NEW con, NEW p, Shows(con, p)
  PROVE  /\ IsConsole(con) /\ con.buffer \in [0 .. Width * Height - 1 -> Cells]
         /\ con.row \in 0 .. Height - 1 /\ con.col \in 0 .. Width - 1
         /\ con.color \in 0 .. 15 /\ con.color \in Int /\ con.visible \in BOOLEAN
         /\ con.row = p.row - FirstShown(p) /\ con.col = p.col
  <1>1. ConsoleOK(con) /\ con.row = p.row - FirstShown(p) /\ con.col = p.col
    BY DEF Shows
  <1>2. QED
    BY <1>1 DEF ConsoleOK

LEMMA MoveToIs ==
  ASSUME NEW con, IsConsole(con), NEW r, NEW c, NEW m, m = moveTo(con, r, c)
  PROVE  m = [buffer |-> con.buffer, row |-> r, col |-> c, color |-> con.color, visible |-> con.visible,
              cursor |-> IF con.visible THEN Position(r, c) ELSE con.cursor]
  BY DEF IsConsole, moveTo

LEMMA MoveToShows ==
  ASSUME NEW con, NEW p, Shows(con, p), NEW r \in 0 .. Height - 1, NEW c \in 0 .. Width - 1
  PROVE  /\ Shows(moveTo(con, r, c), [lines |-> p.lines, row |-> FirstShown(p) + r, col |-> c])
         /\ Keeps(con, moveTo(con, r, c))
  <1>1. PICK q : q = [lines |-> p.lines, row |-> FirstShown(p) + r, col |-> c]
    OBVIOUS
  <1>2. PICK m : m = moveTo(con, r, c)
    OBVIOUS
  <1>3. m = [buffer |-> con.buffer, row |-> r, col |-> c, color |-> con.color, visible |-> con.visible,
             cursor |-> IF con.visible THEN Position(r, c) ELSE con.cursor]
    BY <1>2, MoveToIs DEF Shows, ConsoleOK
  <1>4. ConsoleOK(m)
    BY <1>3 DEF Shows, ConsoleOK, IsConsole
  <1>5. q.lines = p.lines /\ q.row = FirstShown(p) + r /\ q.col = c /\ FirstShown(q) = FirstShown(p) /\ IsPaper(q)
    BY <1>1 DEF FirstShown, IsPaper
  <1>6. Len(p.lines) \in Nat /\ FirstShown(p) \in Int /\ FirstShown(p) + r \in FirstShown(p) .. Len(p.lines)
    BY Sides DEF Shows, PaperOK, FirstShown
  <1>7. PaperOK(q)
    BY <1>5, <1>6 DEF Shows, PaperOK
  <1>8. Shows(m, q)
    BY <1>3, <1>4, <1>5, <1>6, <1>7 DEF Shows
  <1>9. QED
    BY <1>1, <1>2, <1>3, <1>8 DEF Keeps

LEMMA EntryIsCell ==
  ASSUME NEW c \in Glyphs, NEW color \in Int
  PROVE  /\ Ink(c, color) \in Cells /\ make_vgaentry(c, color) \in Cells
         /\ Displayed(Ink(c, color)) = make_vgaentry(c, color)
  BY DEF Ink, Displayed, make_vgaentry, Cells

LEMMA BlankLineIsStrip ==
  ASSUME NEW color \in Int
  PROVE  BlankLine(color) \in Strip /\ \A i \in 0 .. Width - 1 : BlankLine(color)[i] = Ink("blank", color)
  <1>1. PICK blank : blank = Ink("blank", color)
    OBVIOUS
  <1>2. BlankLine(color) = [i \in 0 .. Width - 1 |-> blank]
    BY <1>1 DEF BlankLine
  <1>3. blank \in Cells
    <2>1. "blank" \in Glyphs
      BY DEF Glyphs
    <2>2. QED
      BY <1>1, <2>1, EntryIsCell
  <1>4. QED
    BY <1>1, <1>2, <1>3 DEF Strip

(* A row of the screen scrolls out of view, and a new line in. *)
LEMMA ScrollShows ==
  ASSUME NEW con, NEW p, Shows(con, p), con.row + 1 = Height,
         NEW q, q = [lines |-> Append(p.lines, BlankLine(con.color)), row |-> p.row + 1, col |-> p.col]
  PROVE  Shows(scroll(con, 1), q) /\ Keeps(con, scroll(con, 1))
  <1>1. PICK blank : blank = make_vgaentry("blank", con.color)
    OBVIOUS
  <1>2. blank \in Cells /\ BlankLine(con.color) \in Strip /\ \A i \in 0 .. Width - 1 : Displayed(BlankLine(con.color)[i]) = blank
    <2>1. con.color \in Int
      BY ShowsFacts
    <2>2. "blank" \in Glyphs
      BY DEF Glyphs
    <2>3. QED
      BY <1>1, <2>1, <2>2, EntryIsCell, BlankLineIsStrip
  <1>3. PICK buffer : buffer = [i \in 0 .. Width * Height - 1 |-> IF i < Width * (Height - 1) THEN con.buffer[i + Width * 1]
                                                                                     ELSE blank]
    OBVIOUS
  <1>4. PICK up : up = scroll(con, 1)
    OBVIOUS
  <1>41. up = [buffer |-> buffer, row |-> con.row, col |-> con.col, color |-> con.color,
               visible |-> con.visible, cursor |-> con.cursor]
    <2>1. DOMAIN con.buffer = 0 .. Width * Height - 1 /\ IsConsole(con)
      BY DEF Shows, ConsoleOK
    <2>2. up = [con EXCEPT !.buffer = buffer]
      BY <1>1, <1>3, <1>4, <2>1 DEF scroll
    <2>3. QED
      BY <2>1, <2>2 DEF IsConsole
  <1>5. buffer \in [0 .. Width * Height - 1 -> Cells]
    <2>1. ASSUME NEW i \in 0 .. Width * Height - 1, i < Width * (Height - 1) PROVE con.buffer[i + Width * 1] \in Cells
      <3>1. i + Width * 1 \in 0 .. Width * Height - 1
        BY <2>1, Sides
      <3>2. QED
        BY <3>1 DEF Shows, ConsoleOK
    <2>2. QED
      BY <1>2, <1>3, <2>1
  <1>6. ConsoleOK(up)
    BY <1>41, <1>5 DEF Shows, ConsoleOK, IsConsole
  <1>7. PICK n \in Nat : n = Len(p.lines)
    BY DEF Shows, PaperOK
  <1>8. /\ Len(q.lines) = n + 1 /\ q.lines \in Seq(Strip) /\ q.lines[n + 1] = BlankLine(con.color)
        /\ \A i \in 1 .. n : q.lines[i] = p.lines[i]
    BY <1>2, <1>7 DEF Shows, PaperOK
  <1>9. q.row = p.row + 1 /\ q.col = p.col /\ IsPaper(q) /\ FirstShown(q) = n + 1 - Height + 1
    <2>1. q.row = p.row + 1 /\ q.col = p.col /\ IsPaper(q)
      BY DEF IsPaper
    <2>2. Len(q.lines) = n + 1
      BY <1>8
    <2>3. FirstShown(q) = n + 1 - Height + 1
      BY <2>2, Sides DEF FirstShown
    <2>4. QED
      BY <2>1, <2>3
  <1>10. FirstShown(p) = n - Height + 1 /\ n >= Height /\ p.row \in FirstShown(p) .. n /\ con.row = p.row - FirstShown(p)
    BY <1>7 DEF FirstShown, Shows, PaperOK
  <1>11. PaperOK(q)
    BY <1>8, <1>9, <1>10, Sides DEF Shows, PaperOK
  <1>12. ASSUME NEW row \in 0 .. Height - 1, NEW col \in 0 .. Width - 1
         PROVE  buffer[Position(row, col)] = Displayed(q.lines[Len(q.lines) - Height + 1 + row][col])
    <2>1. Position(row, col) \in 0 .. Width * Height - 1
      BY PositionOnScreen
    <2>2. CASE row = Height - 1
      <3>1. buffer[Position(row, col)] = blank
        BY <1>3, <2>1, <2>2, PositionScrolled
      <3>2. Len(q.lines) - Height + 1 + row = n + 1
        BY <1>8, <2>2, Sides
      <3>3. QED
        BY <1>2, <1>8, <3>1, <3>2
    <2>3. CASE row < Height - 1
      <3>1. buffer[Position(row, col)] = con.buffer[Position(row + 1, col)]
        BY <1>3, <2>1, <2>3, PositionScrolled
      <3>2. row + 1 \in 0 .. Height - 1
        BY <2>3, Sides
      <3>3. con.buffer[Position(row + 1, col)] = Displayed(p.lines[n - Height + 1 + (row + 1)][col])
        BY <1>7, <3>2 DEF Shows, SameCells
      <3>4. Len(q.lines) - Height + 1 + row = n - Height + 1 + (row + 1) /\ n - Height + 1 + (row + 1) \in 1 .. n
        <4>1. row \in Nat /\ n \in Nat /\ Height \in Nat /\ n >= Height /\ row + 1 < Height
          BY <1>10, <2>3, Sides
        <4>2. Len(q.lines) = n + 1
          BY <1>8
        <4>3. QED
          BY ONLY <4>1, <4>2
      <3>5. QED
        BY <1>8, <3>1, <3>3, <3>4
    <2>4. row = Height - 1 \/ row < Height - 1
      BY Sides
    <2>5. QED
      BY <2>2, <2>3, <2>4
  <1>13. SameCells(buffer, q.lines)
    BY <1>12 DEF SameCells
  <1>14. con.row = q.row - FirstShown(q)
    BY <1>9, <1>10, Sides
  <1>15. QED
    BY <1>4, <1>41, <1>6, <1>9, <1>11, <1>13, <1>14 DEF Shows, Keeps

LEMMA NextRowShows ==
  ASSUME NEW con, NEW p, Shows(con, p)
  PROVE  Shows(NextRow(con), Feed(p, con.color)) /\ Keeps(con, NextRow(con))
  <1>1. PICK n \in Nat : n = Len(p.lines)
    BY DEF Shows, PaperOK
  <1>2. /\ FirstShown(p) = n - Height + 1 /\ n >= Height /\ p.row \in FirstShown(p) .. n
        /\ con.row = p.row - FirstShown(p) /\ con.row \in 0 .. Height - 1
    BY <1>1 DEF FirstShown, Shows, PaperOK, ConsoleOK
  <1>3. Feed(p, con.color) = [lines |-> IF p.row = n THEN Append(p.lines, BlankLine(con.color)) ELSE p.lines,
                              row |-> p.row + 1, col |-> 0]
    <2>1. PICK q : q = Feed(p, con.color)
      OBVIOUS
    <2>2. IsPaper(p)
      BY DEF Shows, PaperOK
    <2>3. q = [lines |-> IF p.row = n THEN Append(p.lines, BlankLine(con.color)) ELSE p.lines,
               row |-> p.row + 1, col |-> 0]
      BY <1>1, <2>1, <2>2 DEF Feed, IsPaper
    <2>4. QED
      BY <2>1, <2>3
  <1>4. 0 \in 0 .. Width - 1
    BY Sides
  <1>5. CASE con.row + 1 = Height
    <2>1. p.row = n
      BY <1>2, <1>5, Sides
    <2>2. PICK q : q = [lines |-> Append(p.lines, BlankLine(con.color)), row |-> p.row + 1, col |-> p.col]
      OBVIOUS
    <2>3. PICK up : up = scroll(con, 1)
      OBVIOUS
    <2>4. Shows(up, q) /\ Keeps(con, up)
      BY <1>5, <2>2, <2>3, ScrollShows
    <2>5. Height - 1 \in 0 .. Height - 1
      BY Sides
    <2>6. /\ Shows(moveTo(up, Height - 1, 0), [lines |-> q.lines, row |-> FirstShown(q) + (Height - 1), col |-> 0])
          /\ Keeps(up, moveTo(up, Height - 1, 0))
      BY <1>4, <2>4, <2>5, MoveToShows
    <2>7. Len(q.lines) = n + 1 /\ q.lines = Append(p.lines, BlankLine(con.color))
      BY <1>1, <2>2 DEF Shows, PaperOK
    <2>8. FirstShown(q) + (Height - 1) = p.row + 1
      BY <2>1, <2>7, Sides DEF FirstShown
    <2>9. NextRow(con) = moveTo(up, Height - 1, 0)
      BY <1>5, <2>3 DEF NextRow
    <2>10. QED
      BY <1>3, <2>1, <2>4, <2>6, <2>7, <2>8, <2>9 DEF Keeps
  <1>6. CASE con.row + 1 # Height
    <2>1. p.row # n /\ con.row + 1 \in 0 .. Height - 1 /\ FirstShown(p) + (con.row + 1) = p.row + 1
      BY <1>2, <1>6, Sides
    <2>2. NextRow(con) = moveTo(con, con.row + 1, 0)
      BY <1>6 DEF NextRow
    <2>3. /\ Shows(moveTo(con, con.row + 1, 0), [lines |-> p.lines, row |-> FirstShown(p) + (con.row + 1), col |-> 0])
          /\ Keeps(con, moveTo(con, con.row + 1, 0))
      BY <1>4, <2>1, MoveToShows
    <2>4. QED
      BY <1>3, <2>1, <2>2, <2>3
  <1>7. QED
    BY <1>5, <1>6

(* A character goes where the cursor is, on the screen and on the paper. *)
LEMMA PutAtShows ==
  ASSUME NEW con, NEW p, Shows(con, p), NEW c \in Glyphs,
         NEW put, put = putCharAt(con, c, con.row, con.col), NEW q, q = Inked(p, Ink(c, con.color))
  PROVE  Shows(put, q) /\ Keeps(con, put) /\ put.row = con.row /\ put.col = con.col /\ q.row = p.row /\ q.col = p.col
  <1>1. PICK cell : cell = make_vgaentry(c, con.color)
    OBVIOUS
  <1>2. cell \in Cells /\ Ink(c, con.color) \in Cells /\ Displayed(Ink(c, con.color)) = cell
    BY <1>1, EntryIsCell DEF Shows, ConsoleOK
  <1>3. PICK at : at = Position(con.row, con.col)
    OBVIOUS
  <1>4. PICK buffer : buffer = [con.buffer EXCEPT ![at] = cell]
    OBVIOUS
  <1>5. put = [buffer |-> buffer, row |-> con.row, col |-> con.col, color |-> con.color,
               visible |-> con.visible, cursor |-> con.cursor]
    <2>1. IsConsole(con)
      BY DEF Shows, ConsoleOK
    <2>2. put = [con EXCEPT !.buffer = buffer]
      BY <1>1, <1>3, <1>4 DEF putCharAt
    <2>3. QED
      BY <2>1, <2>2 DEF IsConsole
  <1>6. /\ con.row \in 0 .. Height - 1 /\ con.col \in 0 .. Width - 1 /\ con.buffer \in [0 .. Width * Height - 1 -> Cells]
        /\ con.row = p.row - FirstShown(p) /\ con.col = p.col
    BY DEF Shows, ConsoleOK
  <1>7. at \in 0 .. Width * Height - 1
    BY <1>3, <1>6, PositionOnScreen
  <1>8. buffer \in [0 .. Width * Height - 1 -> Cells] /\ buffer[at] = cell
    BY <1>2, <1>4, <1>6, <1>7
  <1>9. ConsoleOK(put)
    BY <1>5, <1>8 DEF Shows, ConsoleOK, IsConsole
  <1>10. PICK n \in Nat : n = Len(p.lines)
    BY DEF Shows, PaperOK
  <1>11. FirstShown(p) = n - Height + 1 /\ n >= Height /\ p.row \in FirstShown(p) .. n /\ p.lines \in Seq(Strip)
    BY <1>10 DEF FirstShown, Shows, PaperOK
  <1>12. p.row \in 1 .. n
    BY <1>11, Sides
  <1>13. PICK line : line = [p.lines[p.row] EXCEPT ![p.col] = Ink(c, con.color)]
    OBVIOUS
  <1>14. PICK lines : lines = [p.lines EXCEPT ![p.row] = line]
    OBVIOUS
  <1>15. q = [lines |-> lines, row |-> p.row, col |-> p.col]
    <2>1. IsPaper(p)
      BY DEF Shows, PaperOK
    <2>2. q = [p EXCEPT !.lines = lines]
      BY <1>13, <1>14 DEF Inked
    <2>3. QED
      BY <2>1, <2>2 DEF IsPaper
  <1>16. p.lines[p.row] \in Strip
    BY <1>10, <1>11, <1>12
  <1>17. line \in Strip /\ line[p.col] = Ink(c, con.color) /\ \A i \in 0 .. Width - 1 : i # p.col => line[i] = p.lines[p.row][i]
    BY <1>2, <1>6, <1>13, <1>16 DEF Strip
  <1>18. /\ lines \in Seq(Strip) /\ Len(lines) = n /\ lines[p.row] = line
         /\ \A i \in 1 .. n : i # p.row => lines[i] = p.lines[i]
    BY <1>10, <1>11, <1>12, <1>14, <1>17
  <1>19. FirstShown(q) = n - Height + 1 /\ q.lines = lines /\ q.row = p.row /\ q.col = p.col /\ IsPaper(q)
    <2>1. q.lines = lines /\ q.row = p.row /\ q.col = p.col /\ IsPaper(q)
      BY <1>15 DEF IsPaper
    <2>2. Len(q.lines) = n
      BY <1>18, <2>1
    <2>3. FirstShown(q) = n - Height + 1
      BY <2>2 DEF FirstShown
    <2>4. QED
      BY <2>1, <2>3
  <1>20. PaperOK(q)
    BY <1>6, <1>11, <1>18, <1>19 DEF PaperOK
  <1>21. ASSUME NEW row \in 0 .. Height - 1, NEW col \in 0 .. Width - 1
         PROVE  buffer[Position(row, col)] = Displayed(lines[Len(lines) - Height + 1 + row][col])
    <2>1. Position(row, col) \in 0 .. Width * Height - 1
      BY PositionOnScreen
    <2>2. PICK i : i = n - Height + 1 + row
      OBVIOUS
    <2>3. Len(lines) - Height + 1 + row = i /\ i \in 1 .. n
      BY <1>11, <1>18, <2>2, Sides
    <2>4. con.buffer[Position(row, col)] = Displayed(p.lines[i][col])
      BY <1>10, <2>2 DEF Shows, SameCells
    <2>5. CASE row = con.row /\ col = con.col
      <3>1. Position(row, col) = at /\ col = p.col
        BY <1>3, <1>6, <2>5
      <3>2. i = p.row
        <4>1. p.row \in Int /\ FirstShown(p) = n - Height + 1 /\ row = p.row - FirstShown(p)
          BY <1>6, <1>11, <2>5, Sides
        <4>2. QED
          BY <2>2, <4>1, Sides
      <3>3. QED
        BY <1>2, <1>8, <1>17, <1>18, <2>3, <3>1, <3>2
    <2>6. CASE ~(row = con.row /\ col = con.col)
      <3>1. Position(row, col) # at
        BY <1>3, <1>6, <2>6, PositionsDiffer
      <3>2. buffer[Position(row, col)] = Displayed(p.lines[i][col])
        BY <1>4, <1>6, <2>1, <2>4, <3>1
      <3>3. CASE i = p.row
        <4>1. row = con.row
          BY <1>6, <1>11, <2>2, <3>3, Sides
        <4>2. col # p.col
          BY <1>6, <2>6, <4>1
        <4>3. QED
          BY <1>17, <1>18, <2>3, <3>2, <3>3, <4>2
      <3>4. CASE i # p.row
        BY <1>18, <2>3, <3>2, <3>4
      <3>5. QED
        BY <3>3, <3>4
    <2>7. QED
      BY <2>5, <2>6
  <1>22. SameCells(buffer, lines)
    BY <1>21 DEF SameCells
  <1>23. QED
    BY <1>5, <1>6, <1>9, <1>11, <1>19, <1>20, <1>22 DEF Shows, Keeps

LEMMA PutCharShows ==
  ASSUME NEW con, NEW p, Shows(con, p), NEW c \in Glyphs, c # "backspace"
  PROVE  Shows(putChar(con, c), Pen(con.color, p, c)) /\ Keeps(con, putChar(con, c))
  <1>1. CASE c = "newline"
    <2>1. putChar(con, c) = NextRow(con) /\ Pen(con.color, p, c) = Feed(p, con.color)
      BY <1>1 DEF putChar, Pen
    <2>2. QED
      BY <2>1, NextRowShows
  <1>2. CASE c # "newline"
    <2>1. PICK put : put = putCharAt(con, c, con.row, con.col)
      OBVIOUS
    <2>2. PICK q : q = Inked(p, Ink(c, con.color))
      OBVIOUS
    <2>3. /\ Shows(put, q) /\ Keeps(con, put) /\ put.row = con.row /\ put.col = con.col
          /\ q.row = p.row /\ q.col = p.col
      BY <2>1, <2>2, PutAtShows
    <2>4. putChar(con, c) = IF con.col + 1 = Width THEN NextRow(put) ELSE moveTo(put, con.row, con.col + 1)
      BY <1>2, <2>1 DEF putChar
    <2>5. Pen(con.color, p, c) = IF p.col = Width - 1 THEN Feed(q, con.color) ELSE [q EXCEPT !.col = @ + 1]
      BY <1>2, <2>2 DEF Pen
    <2>6. con.col = p.col /\ p.col \in 0 .. Width - 1
      BY DEF Shows, ConsoleOK
    <2>7. CASE con.col + 1 = Width
      <3>1. p.col = Width - 1
        BY <2>6, <2>7, Sides
      <3>2. Shows(NextRow(put), Feed(q, put.color)) /\ Keeps(put, NextRow(put))
        BY <2>3, NextRowShows
      <3>3. QED
        BY <2>3, <2>4, <2>5, <2>7, <3>1, <3>2 DEF Keeps
    <2>8. CASE con.col + 1 # Width
      <3>1. p.col # Width - 1 /\ con.col + 1 \in 0 .. Width - 1
        BY <2>6, <2>8, Sides
      <3>2. con.row \in 0 .. Height - 1 /\ q.row = FirstShown(q) + con.row /\ IsPaper(q)
        BY <2>3, Sides DEF Shows, ConsoleOK, PaperOK, FirstShown
      <3>3. /\ Shows(moveTo(put, con.row, con.col + 1),
                     [lines |-> q.lines, row |-> FirstShown(q) + con.row, col |-> con.col + 1])
            /\ Keeps(put, moveTo(put, con.row, con.col + 1))
        BY <2>3, <3>1, <3>2, MoveToShows
      <3>4. PICK e : e = [q EXCEPT !.col = @ + 1]
        OBVIOUS
      <3>5. e = [lines |-> q.lines, row |-> q.row, col |-> q.col + 1]
        BY <3>2, <3>4 DEF IsPaper
      <3>6. QED
        BY <2>3, <2>4, <2>5, <2>6, <2>8, <3>1, <3>2, <3>3, <3>4, <3>5 DEF Keeps
    <2>9. QED
      BY <2>7, <2>8
  <1>3. QED
    BY <1>1, <1>2

LEMMA BackspaceShows ==
  ASSUME NEW con, NEW p, Shows(con, p)
  PROVE  Shows(doBackspace(con), Pen(con.color, p, "backspace")) /\ Keeps(con, doBackspace(con))
  <1>1. PICK n \in Nat : n = Len(p.lines)
    BY DEF Shows, PaperOK
  <1>2. /\ FirstShown(p) = n - Height + 1 /\ n >= Height /\ p.row \in FirstShown(p) .. n
        /\ con.row = p.row - FirstShown(p) /\ con.row \in 0 .. Height - 1
        /\ con.col = p.col /\ con.col \in 0 .. Width - 1 /\ IsPaper(p)
    BY <1>1 DEF FirstShown, Shows, PaperOK, ConsoleOK
  <1>3. "blank" \in Glyphs
    BY DEF Glyphs
  <1>4. ASSUME NEW back, NEW q, Shows(back, q), Keeps(con, back),
               NEW put, put = putCharAt(back, "blank", back.row, back.col)
        PROVE  Shows(put, Inked(q, Ink("blank", con.color))) /\ Keeps(con, put)
    BY <1>3, <1>4, PutAtShows DEF Keeps
  <1>5. CASE con.row = 0 /\ con.col = 0
    <2>1. doBackspace(con) = putCharAt(con, "blank", con.row, con.col)
      BY <1>5 DEF doBackspace
    <2>2. ~(p.col > 0) /\ ~(p.col = 0 /\ p.row > FirstShown(p))
      BY <1>2, <1>5, Sides
    <2>3. Pen(con.color, p, "backspace") = Inked(p, Ink("blank", con.color))
      BY <2>2 DEF Pen
    <2>4. Keeps(con, con)
      BY DEF Keeps
    <2>5. QED
      BY <1>4, <2>1, <2>3, <2>4
  <1>6. CASE con.row # 0 /\ con.col = 0
    <2>1. PICK back : back = moveTo(con, con.row - 1, Width - 1)
      OBVIOUS
    <2>2. doBackspace(con) = putCharAt(back, "blank", back.row, back.col)
      BY <1>6, <2>1 DEF doBackspace
    <2>3. ~(p.col > 0) /\ p.col = 0 /\ p.row > FirstShown(p)
      BY <1>2, <1>6, Sides
    <2>4. PICK q : q = [p EXCEPT !.row = @ - 1, !.col = Width - 1]
      OBVIOUS
    <2>5. Pen(con.color, p, "backspace") = Inked(q, Ink("blank", con.color))
      BY <2>3, <2>4 DEF Pen
    <2>6. q = [lines |-> p.lines, row |-> p.row - 1, col |-> Width - 1]
      BY <1>2, <2>4 DEF IsPaper
    <2>7. con.row - 1 \in 0 .. Height - 1 /\ Width - 1 \in 0 .. Width - 1 /\ FirstShown(p) + (con.row - 1) = p.row - 1
      BY <1>2, <1>6, Sides
    <2>8. Shows(back, q) /\ Keeps(con, back)
      BY <2>1, <2>6, <2>7, MoveToShows
    <2>9. QED
      BY <1>4, <2>2, <2>5, <2>8
  <1>7. CASE con.col # 0
    <2>1. PICK back : back = moveTo(con, con.row, con.col - 1)
      OBVIOUS
    <2>2. doBackspace(con) = putCharAt(back, "blank", back.row, back.col)
      BY <1>7, <2>1 DEF doBackspace
    <2>3. p.col > 0
      BY <1>2, <1>7
    <2>4. PICK q : q = [p EXCEPT !.col = @ - 1]
      OBVIOUS
    <2>5. Pen(con.color, p, "backspace") = Inked(q, Ink("blank", con.color))
      BY <2>3, <2>4 DEF Pen
    <2>6. q = [lines |-> p.lines, row |-> p.row, col |-> p.col - 1]
      BY <1>2, <2>4 DEF IsPaper
    <2>7. con.col - 1 \in 0 .. Width - 1 /\ FirstShown(p) + con.row = p.row
      BY <1>2, <1>7, Sides
    <2>8. Shows(back, q) /\ Keeps(con, back)
      BY <1>2, <2>1, <2>6, <2>7, MoveToShows
    <2>9. QED
      BY <1>4, <2>2, <2>5, <2>8
  <1>8. QED
    BY <1>5, <1>6, <1>7

LEMMA TypedShows ==
  ASSUME NEW con, NEW p, Shows(con, p), NEW how \in {"put", "write"}, NEW c \in Glyphs,
         c = "backspace" => how = "write"
  PROVE  /\ Shows(Typed(how, 0, con, c), Typed("pen", con.color, p, c))
         /\ Keeps(con, Typed(how, 0, con, c))
  <1>1. Typed("pen", con.color, p, c) = Pen(con.color, p, c)
    BY DEF Typed
  <1>2. CASE c = "backspace"
    <2>1. Typed(how, 0, con, c) = doBackspace(con)
      BY <1>2 DEF Typed, write
    <2>2. QED
      BY <1>1, <1>2, <2>1, BackspaceShows
  <1>3. CASE c # "backspace"
    <2>1. Typed(how, 0, con, c) = putChar(con, c)
      BY <1>3 DEF Typed, write
    <2>2. QED
      BY <1>1, <1>3, <2>1, PutCharShows
  <1>4. QED
    BY <1>2, <1>3

(* A text on the screen is the text on the paper. *)
LEMMA TextShows ==
  ASSUME NEW con, NEW p, Shows(con, p), NEW how \in {"put", "write"}, NEW text, NEW n \in Nat,
         \A i \in 1 .. n : text[i] \in Glyphs /\ (text[i] = "backspace" => how = "write"),
         NEW f, Through(how, 0, con, text, n, f), NEW g, Through("pen", con.color, p, text, n, g)
  PROVE  Shows(f[n], g[n]) /\ Keeps(con, f[n])
  <1> DEFINE Good(k) == Shows(f[k], g[k]) /\ Keeps(con, f[k])
             Failing == {k \in Nat : k <= n /\ ~Good(k)}
  <1>1. Failing = {}
    <2>1. SUFFICES ASSUME Failing # {} PROVE FALSE
      OBVIOUS
    <2>2. PICK k \in Failing : \A j \in Failing : k <= j
      BY <2>1, Least
    <2>3. k \in Nat /\ k <= n /\ ~Good(k)
      BY <2>2
    <2>4. CASE k = 0
      BY <2>3, <2>4 DEF Through, Keeps
    <2>5. CASE k # 0
      <3>1. PICK j \in Nat : k = j + 1
        BY <2>3, <2>5
      <3>2. Good(j)
        <4>1. j \notin Failing /\ j <= n
          <5> HIDE DEF Failing
          <5>1. QED
            BY <2>2, <2>3, <3>1
        <4>2. QED
          BY <4>1
      <3>3. j \in 0 .. n - 1 /\ j + 1 \in 1 .. n
        BY <2>3, <3>1
      <3>4. f[k] = Typed(how, 0, f[j], text[k]) /\ g[k] = Typed("pen", con.color, g[j], text[k])
        BY <3>1, <3>3 DEF Through
      <3>5. /\ Shows(Typed(how, 0, f[j], text[k]), Typed("pen", f[j].color, g[j], text[k]))
            /\ Keeps(f[j], Typed(how, 0, f[j], text[k]))
        BY <3>1, <3>2, <3>3, TypedShows
      <3>6. Good(k)
        BY <3>2, <3>4, <3>5 DEF Keeps
      <3>7. QED
        BY <2>3, <3>6
    <2>6. QED
      BY <2>4, <2>5
  <1>2. QED
    BY <1>1

LEMMA WriteShows ==
  ASSUME NEW con, NEW p, Shows(con, p), NEW text, NEW n \in Nat, DOMAIN text = 1 .. n,
         \A i \in 1 .. n : text[i] \in Glyphs
  PROVE  Shows(FoldLeft(write, con, text), Penned(p, text, con.color)) /\ Keeps(con, FoldLeft(write, con, text))
  <1>1. PICK f : Through("write", 0, con, text, n, f) /\ f[n] = FoldLeft(write, con, text)
    BY WriteGoesThrough
  <1>2. PICK g : Through("pen", con.color, p, text, n, g) /\ g[n] = Penned(p, text, con.color)
    BY PenGoesThrough
  <1>3. Shows(f[n], g[n]) /\ Keeps(con, f[n])
    BY <1>1, <1>2, TextShows
  <1>4. QED
    BY <1>1, <1>2, <1>3

LEMMA PutShows ==
  ASSUME NEW con, NEW p, Shows(con, p), NEW text, NEW n \in Nat, DOMAIN text = 1 .. n,
         \A i \in 1 .. n : text[i] \in Glyphs /\ text[i] # "backspace"
  PROVE  Shows(FoldLeft(putChar, con, text), Penned(p, text, con.color)) /\ Keeps(con, FoldLeft(putChar, con, text))
  <1>1. PICK f : Through("put", 0, con, text, n, f) /\ f[n] = FoldLeft(putChar, con, text)
    BY PutGoesThrough
  <1>2. PICK g : Through("pen", con.color, p, text, n, g) /\ g[n] = Penned(p, text, con.color)
    BY PenGoesThrough
  <1>3. Shows(f[n], g[n]) /\ Keeps(con, f[n])
    BY <1>1, <1>2, TextShows
  <1>4. QED
    BY <1>1, <1>2, <1>3

LEMMA CursorShows ==
  ASSUME NEW con, NEW p, Shows(con, p), NEW v \in BOOLEAN, NEW m, m = setCursorVisible(con, v)
  PROVE  Shows(m, p) /\ m.color = con.color /\ m.visible = v
  <1>1. m = [buffer |-> con.buffer, row |-> con.row, col |-> con.col, color |-> con.color, visible |-> v,
             cursor |-> IF v THEN Position(con.row, con.col) ELSE HiddenCursor]
    BY DEF setCursorVisible, Shows, ConsoleOK, IsConsole
  <1>2. QED
    BY <1>1 DEF Shows, ConsoleOK, IsConsole

LEMMA ColorShows ==
  ASSUME NEW con, NEW p, Shows(con, p), NEW fg \in 0 .. 15, NEW m, m = setForegroundColor(con, fg)
  PROVE  Shows(m, p) /\ m.color = fg /\ m.visible = con.visible
  <1>1. con.color \in 0 .. 15 /\ IsConsole(con)
    BY DEF Shows, ConsoleOK
  <1>2. con.color \div 16 = 0
    BY <1>1
  <1>3. (con.color \div 16) * 16 + fg = fg
    BY <1>2
  <1>4. m = [con EXCEPT !.color = fg]
    BY <1>3 DEF setForegroundColor
  <1>5. m = [buffer |-> con.buffer, row |-> con.row, col |-> con.col, color |-> fg, visible |-> con.visible,
             cursor |-> con.cursor]
    BY <1>1, <1>4 DEF IsConsole
  <1>6. QED
    BY <1>5 DEF Shows, ConsoleOK, IsConsole

LEMMA StringShows ==
  ASSUME NEW con, NEW p, Shows(con, p), NEW text, NEW n \in Nat, DOMAIN text = 1 .. n,
         \A i \in 1 .. n : text[i] \in Glyphs /\ text[i] # "backspace"
  PROVE  Shows(writeString(con, text), Penned(p, text, con.color)) /\ Keeps(con, writeString(con, text))
  <1>1. CASE con.visible
    <2>1. PICK hid : hid = setCursorVisible(con, FALSE)
      OBVIOUS
    <2>2. PICK written : written = FoldLeft(putChar, hid, text)
      OBVIOUS
    <2>3. writeString(con, text) = setCursorVisible(written, TRUE)
      BY <1>1, <2>1, <2>2, Zenon DEF writeString
    <2>4. Shows(hid, p) /\ hid.color = con.color
      BY <2>1, CursorShows
    <2>5. Shows(written, Penned(p, text, hid.color)) /\ Keeps(hid, written)
      BY <2>2, <2>4, PutShows
    <2>6. PICK m : m = setCursorVisible(written, TRUE)
      OBVIOUS
    <2>7. Shows(m, Penned(p, text, hid.color)) /\ m.color = written.color /\ m.visible = TRUE
      BY <2>5, <2>6, CursorShows
    <2>8. con.visible = TRUE
      BY <1>1 DEF Shows, ConsoleOK
    <2>9. QED
      BY <2>3, <2>4, <2>5, <2>6, <2>7, <2>8 DEF Keeps
  <1>2. CASE ~con.visible
    <2>1. writeString(con, text) = FoldLeft(putChar, con, text)
      BY <1>2, Zenon DEF writeString
    <2>2. QED
      BY <2>1, PutShows
  <1>3. QED
    BY <1>1, <1>2

-----------------------------------------------------------------------------
(* A text that stays on its line.                                          *)

Struck(line, col, text, color, k) ==
  [i \in 0 .. Width - 1 |-> IF i \in col .. col + k - 1 THEN Ink(text[i - col + 1], color) ELSE line[i]]

OnLine(p, text, color, k) ==
  [lines |-> [p.lines EXCEPT ![p.row] = Struck(p.lines[p.row], p.col, text, color, k)],
   row |-> p.row, col |-> p.col + k]

Letters == Glyphs \ {"newline", "backspace"}

LEMMA PaperRow ==
  ASSUME NEW p, PaperOK(p)
  PROVE  /\ Len(p.lines) \in Nat /\ p.row \in 1 .. Len(p.lines) /\ p.lines[p.row] \in Strip
         /\ p.col \in 0 .. Width - 1 /\ IsPaper(p)
  <1>1. Len(p.lines) \in Nat /\ Len(p.lines) >= Height /\ p.row \in FirstShown(p) .. Len(p.lines)
    BY DEF PaperOK
  <1>2. p.row \in 1 .. Len(p.lines)
    BY <1>1, Sides DEF FirstShown
  <1>3. QED
    BY <1>1, <1>2 DEF PaperOK

LEMMA StruckIsStrip ==
  ASSUME NEW line \in Strip, NEW col \in 0 .. Width - 1, NEW text, NEW color \in Int, NEW k \in Nat,
         \A i \in 1 .. k : text[i] \in Glyphs
  PROVE  Struck(line, col, text, color, k) \in Strip
  <1>1. ASSUME NEW i \in 0 .. Width - 1, i \in col .. col + k - 1 PROVE Ink(text[i - col + 1], color) \in Cells
    <2>1. i - col + 1 \in 1 .. k
      BY <1>1, Sides
    <2>2. QED
      BY <2>1, EntryIsCell
  <1>2. \A i \in 0 .. Width - 1 : line[i] \in Cells
    BY DEF Strip
  <1>3. \A i \in 0 .. Width - 1 : (IF i \in col .. col + k - 1 THEN Ink(text[i - col + 1], color) ELSE line[i]) \in Cells
    BY <1>1, <1>2
  <1>4. QED
    BY <1>3 DEF Struck, Strip

(* One character more. *)
LEMMA StruckOneMore ==
  ASSUME NEW line \in Strip, NEW col \in 0 .. Width - 1, NEW text, NEW color \in Int, NEW k \in Nat,
         \A i \in 1 .. k : text[i] \in Glyphs, col + k \in 0 .. Width - 1,
         NEW a, a = Struck(line, col, text, color, k), NEW b, b = Struck(line, col, text, color, k + 1),
         NEW cell, cell = Ink(text[k + 1], color), NEW at, at = col + k
  PROVE  [a EXCEPT ![at] = cell] = b
  <1>1. a \in Strip
    BY StruckIsStrip
  <1>2. DOMAIN b = 0 .. Width - 1 /\ b = [i \in 0 .. Width - 1 |-> b[i]]
    BY DEF Struck
  <1>5. ASSUME NEW i \in 0 .. Width - 1 PROVE b[i] = IF i = col + k THEN cell ELSE a[i]
    <2>1. a[i] = IF i \in col .. col + k - 1 THEN Ink(text[i - col + 1], color) ELSE line[i]
      BY DEF Struck
    <2>2. b[i] = IF i \in col .. col + (k + 1) - 1 THEN Ink(text[i - col + 1], color) ELSE line[i]
      BY DEF Struck
    <2>3. CASE i = col + k
      <3>1. i \in col .. col + (k + 1) - 1 /\ i - col + 1 = k + 1
        BY <2>3, Sides
      <3>2. QED
        BY <2>2, <2>3, <3>1
    <2>4. CASE i # col + k
      <3>1. i \in col .. col + (k + 1) - 1 <=> i \in col .. col + k - 1
        BY <2>4, Sides
      <3>2. QED
        BY <2>1, <2>2, <2>4, <3>1
    <2>5. QED
      BY <2>3, <2>4
  <1>6. [a EXCEPT ![at] = cell] = [i \in 0 .. Width - 1 |-> IF i = at THEN cell ELSE a[i]]
    BY <1>1 DEF Strip
  <1>7. QED
    BY <1>2, <1>5, <1>6

LEMMA InkedOnLine ==
  ASSUME NEW p, PaperOK(p), NEW text, NEW color \in Int, NEW k \in Nat, \A i \in 1 .. k : text[i] \in Glyphs,
         p.col + k \in 0 .. Width - 1, NEW q, q = Inked(OnLine(p, text, color, k), Ink(text[k + 1], color))
  PROVE  q = [lines |-> OnLine(p, text, color, k + 1).lines, row |-> p.row, col |-> p.col + k]
  <1>1. PICK a : a = Struck(p.lines[p.row], p.col, text, color, k)
    OBVIOUS
  <1>2. PICK b : b = Struck(p.lines[p.row], p.col, text, color, k + 1)
    OBVIOUS
  <1>3. PICK cell : cell = Ink(text[k + 1], color)
    OBVIOUS
  <1>4. p.row \in 1 .. Len(p.lines) /\ p.lines[p.row] \in Strip /\ p.col \in 0 .. Width - 1 /\ p.lines \in Seq(Strip)
    BY PaperRow DEF PaperOK
  <1>5. PICK at : at = p.col + k
    OBVIOUS
  <1>51. [a EXCEPT ![at] = cell] = b
    <2>1. PICK line \in Strip : line = p.lines[p.row]
      BY <1>4
    <2>2. PICK col \in 0 .. Width - 1 : col = p.col
      BY <1>4
    <2>3. /\ a = Struck(line, col, text, color, k) /\ b = Struck(line, col, text, color, k + 1)
          /\ cell = Ink(text[k + 1], color) /\ at = col + k /\ col + k \in 0 .. Width - 1
      BY <1>1, <1>2, <1>3, <1>5, <2>1, <2>2
    <2>4. QED
      BY <2>3, StruckOneMore
  <1>6. PICK lines : lines = [p.lines EXCEPT ![p.row] = a]
    OBVIOUS
  <1>7. PICK o : o = OnLine(p, text, color, k)
    OBVIOUS
  <1>8. o = [lines |-> lines, row |-> p.row, col |-> p.col + k]
    BY <1>1, <1>6, <1>7 DEF OnLine
  <1>9. q = [o EXCEPT !.lines[o.row][o.col] = cell]
    BY <1>3, <1>7 DEF Inked
  <1>10. o.row = p.row /\ o.col = p.col + k /\ o.lines = lines
    BY <1>8
  <1>11. PICK lines2 : lines2 = [lines EXCEPT ![p.row] = [lines[p.row] EXCEPT ![p.col + k] = cell]]
    OBVIOUS
  <1>12. q = [o EXCEPT !.lines = lines2]
    BY <1>9, <1>10, <1>11
  <1>13. q = [lines |-> lines2, row |-> p.row, col |-> p.col + k]
    BY <1>8, <1>12
  <1>14. lines[p.row] = a
    BY <1>4, <1>6
  <1>15. lines2 = [p.lines EXCEPT ![p.row] = b]
    BY <1>4, <1>5, <1>51, <1>6, <1>11, <1>14
  <1>16. OnLine(p, text, color, k + 1).lines = [p.lines EXCEPT ![p.row] = b]
    BY <1>2 DEF OnLine
  <1>17. QED
    BY <1>13, <1>15, <1>16

LEMMA PenLetter ==
  ASSUME NEW p, NEW c \in Letters, NEW color
  PROVE  LET q == Inked(p, Ink(c, color))
         IN  Pen(color, p, c) = IF p.col = Width - 1 THEN Feed(q, color) ELSE [q EXCEPT !.col = @ + 1]
  BY DEF Pen, Letters, Glyphs

LEMMA PenOnLine ==
  ASSUME NEW p, PaperOK(p), NEW text, NEW color \in Int, NEW n \in Nat, NEW g, Through("pen", color, p, text, n, g),
         NEW m \in 0 .. n, p.col + m <= Width - 1, \A i \in 1 .. m : text[i] \in Letters
  PROVE  g[m] = OnLine(p, text, color, m)
  <1> DEFINE Failing == {k \in Nat : k <= m /\ g[k] # OnLine(p, text, color, k)}
  <1>0. p.row \in 1 .. Len(p.lines) /\ p.lines[p.row] \in Strip /\ p.col \in 0 .. Width - 1 /\ IsPaper(p)
        /\ p.lines \in Seq(Strip)
    BY PaperRow DEF PaperOK
  <1>1. Failing = {}
    <2>1. SUFFICES ASSUME Failing # {} PROVE FALSE
      OBVIOUS
    <2>2. PICK k \in Failing : \A j \in Failing : k <= j
      BY <2>1, Least
    <2>3. k \in Nat /\ k <= m /\ g[k] # OnLine(p, text, color, k)
      BY <2>2
    <2>4. CASE k = 0
      <3>1. PICK line : line = p.lines[p.row]
        OBVIOUS
      <3>2. \A i \in 0 .. Width - 1 : i \notin p.col .. p.col + 0 - 1
        BY <1>0, Sides
      <3>3. Struck(line, p.col, text, color, 0) = [i \in 0 .. Width - 1 |-> line[i]]
        BY <3>2 DEF Struck
      <3>4. [i \in 0 .. Width - 1 |-> line[i]] = line
        BY <1>0, <3>1 DEF Strip
      <3>5. [p.lines EXCEPT ![p.row] = p.lines[p.row]] = p.lines
        BY <1>0
      <3>6. p.col + 0 = p.col
        BY <1>0
      <3>7. OnLine(p, text, color, 0) = [lines |-> p.lines, row |-> p.row, col |-> p.col]
        BY <3>1, <3>3, <3>4, <3>5, <3>6 DEF OnLine
      <3>8. OnLine(p, text, color, 0) = p
        BY <1>0, <3>7 DEF IsPaper
      <3>9. g[0] = p
        BY DEF Through
      <3>10. QED
        BY <2>3, <2>4, <3>8, <3>9
    <2>5. CASE k # 0
      <3>1. PICK j \in Nat : k = j + 1
        BY <2>3, <2>5
      <3>2. g[j] = OnLine(p, text, color, j)
        <4>1. j \notin Failing /\ j <= m
          <5> HIDE DEF Failing
          <5>1. QED
            BY <2>2, <2>3, <3>1
        <4>2. QED
          BY <4>1
      <3>3. j \in 0 .. n - 1 /\ j + 1 \in 1 .. m /\ \A i \in 1 .. j : text[i] \in Glyphs
        BY <2>3, <3>1 DEF Letters
      <3>4. p.col + j \in 0 .. Width - 1 /\ p.col + j # Width - 1
        BY <1>0, <2>3, <3>1, Sides
      <3>5. g[k] = Pen(color, g[j], text[k])
        BY <3>1, <3>3 DEF Through, Typed
      <3>6. PICK q : q = Inked(g[j], Ink(text[k], color))
        OBVIOUS
      <3>7. q = [lines |-> OnLine(p, text, color, k).lines, row |-> p.row, col |-> p.col + j]
        BY <3>1, <3>2, <3>3, <3>4, <3>6, InkedOnLine
      <3>8. g[j].col = p.col + j
        BY <3>2 DEF OnLine
      <3>9. g[k] = [q EXCEPT !.col = @ + 1]
        BY <3>1, <3>3, <3>4, <3>5, <3>6, <3>8, PenLetter
      <3>10. g[k] = [lines |-> OnLine(p, text, color, k).lines, row |-> p.row, col |-> p.col + j + 1]
        BY <3>7, <3>9
      <3>11. p.col + j + 1 = p.col + k
        BY <1>0, <3>1
      <3>12. OnLine(p, text, color, k) = [lines |-> OnLine(p, text, color, k).lines, row |-> p.row, col |-> p.col + k]
        BY DEF OnLine
      <3>13. QED
        BY <2>3, <3>10, <3>11, <3>12
    <2>6. QED
      BY <2>4, <2>5
  <1>2. QED
    BY <1>1

LEMMA FeedIs ==
  ASSUME NEW p, IsPaper(p), NEW color, NEW q, q = Feed(p, color)
  PROVE  q = [lines |-> IF p.row = Len(p.lines) THEN Append(p.lines, BlankLine(color)) ELSE p.lines,
              row |-> p.row + 1, col |-> 0]
  BY DEF Feed, IsPaper

(* A line that is cleared to its end: a line of blanks, and the next one.  *)
LEMMA BlanksPenned ==
  ASSUME NEW p, PaperOK(p), NEW color \in Int, NEW p0, p0 = [lines |-> p.lines, row |-> p.row, col |-> 0]
  PROVE  Penned(p0, Text("blank", Width), color) =
           [lines |-> [Feed(p, color).lines EXCEPT ![p.row] = BlankLine(color)], row |-> p.row + 1, col |-> 0]
  <1>1. PICK text : text = Text("blank", Width)
    OBVIOUS
  <1>2. DOMAIN text = 1 .. Width /\ (\A i \in 1 .. Width : text[i] = "blank") /\ Width \in Nat
    BY <1>1, Sides DEF Text
  <1>3. PICK g : Through("pen", color, p0, text, Width, g) /\ g[Width] = Penned(p0, text, color)
    BY <1>2, PenGoesThrough
  <1>4. p0.lines = p.lines /\ p0.row = p.row /\ p0.col = 0 /\ IsPaper(p0) /\ FirstShown(p0) = FirstShown(p)
    BY DEF IsPaper, FirstShown
  <1>5. PaperOK(p0)
    BY <1>4, Sides DEF PaperOK
  <1>6. PICK n \in Nat : n = Len(p.lines)
    BY DEF PaperOK
  <1>7. p.row \in 1 .. n /\ p.lines[p.row] \in Strip /\ p.lines \in Seq(Strip) /\ IsPaper(p)
    BY <1>6, PaperRow DEF PaperOK
  <1>8. "blank" \in Letters /\ "blank" \in Glyphs
    BY DEF Letters, Glyphs
  <1>9. PICK k \in Nat : Width = k + 1
    BY Sides
  <1>10. k \in 0 .. Width - 1 /\ k \in 0 .. Width /\ p0.col + k <= Width - 1 /\ p0.col + k \in 0 .. Width - 1
         /\ p0.col + k = k /\ k = Width - 1 /\ k + 1 \in 1 .. Width
    BY <1>4, <1>9, Sides
  <1>11. \A i \in 1 .. k : text[i] \in Letters /\ text[i] \in Glyphs
    BY <1>2, <1>8, <1>9
  <1>12. g[k] = OnLine(p0, text, color, k)
    BY <1>2, <1>3, <1>5, <1>10, <1>11, PenOnLine
  <1>13. g[Width] = Pen(color, g[k], "blank")
    <2>1. g[k + 1] = Typed("pen", color, g[k], text[k + 1])
      BY <1>3, <1>10 DEF Through
    <2>2. text[k + 1] = "blank"
      BY <1>2, <1>10
    <2>3. QED
      BY <1>9, <2>1, <2>2 DEF Typed
  <1>14. PICK q : q = Inked(g[k], Ink("blank", color))
    OBVIOUS
  <1>15. q = [lines |-> OnLine(p0, text, color, k + 1).lines, row |-> p.row, col |-> k]
    <2>1. text[k + 1] = "blank"
      BY <1>2, <1>10
    <2>2. q = [lines |-> OnLine(p0, text, color, k + 1).lines, row |-> p0.row, col |-> p0.col + k]
      BY <1>5, <1>10, <1>11, <1>12, <1>14, <2>1, InkedOnLine
    <2>3. QED
      BY <1>4, <1>10, <2>2
  <1>16. g[k].col = Width - 1
    BY <1>10, <1>12 DEF OnLine
  <1>17. g[Width] = Feed(q, color)
    BY <1>8, <1>13, <1>14, <1>16, PenLetter
  <1>18. Struck(p.lines[p.row], 0, text, color, Width) = BlankLine(color)
    <2>1. ASSUME NEW i \in 0 .. Width - 1
          PROVE  i \in 0 .. 0 + Width - 1 /\ text[i - 0 + 1] = "blank"
      <3>1. i - 0 + 1 \in 1 .. Width /\ i \in 0 .. 0 + Width - 1
        BY Sides
      <3>2. QED
        BY <1>2, <3>1
    <2>2. QED
      BY <2>1 DEF Struck, BlankLine
  <1>19. q.lines = [p.lines EXCEPT ![p.row] = BlankLine(color)] /\ q.row = p.row /\ q.col = k /\ IsPaper(q)
    <2>1. q.lines = OnLine(p0, text, color, k + 1).lines /\ q.row = p.row /\ q.col = k /\ IsPaper(q)
      BY <1>15 DEF IsPaper
    <2>2. OnLine(p0, text, color, k + 1).lines = [p.lines EXCEPT ![p.row] = BlankLine(color)]
      BY <1>4, <1>9, <1>18 DEF OnLine
    <2>3. QED
      BY <2>1, <2>2
  <1>20. PICK fed : fed = Feed(q, color)
    OBVIOUS
  <1>21. PICK blank : blank = BlankLine(color)
    OBVIOUS
  <1>22. blank \in Strip
    BY <1>21, BlankLineIsStrip
  <1>23. Len(q.lines) = n /\ q.lines \in Seq(Strip) /\ \A i \in 1 .. n : q.lines[i] = IF i = p.row THEN blank ELSE p.lines[i]
    BY <1>6, <1>7, <1>19, <1>21, <1>22
  <1>24. fed = [lines |-> IF p.row = n THEN Append(q.lines, blank) ELSE q.lines, row |-> p.row + 1, col |-> 0]
    BY <1>19, <1>20, <1>21, <1>23, FeedIs
  <1>25. PICK below : below = Feed(p, color)
    OBVIOUS
  <1>26. below.lines = IF p.row = n THEN Append(p.lines, blank) ELSE p.lines
    <2>1. below = [lines |-> IF p.row = Len(p.lines) THEN Append(p.lines, BlankLine(color)) ELSE p.lines,
                   row |-> p.row + 1, col |-> 0]
      BY <1>7, <1>25, FeedIs
    <2>2. QED
      BY <1>6, <1>21, <2>1
  <1>27. [below.lines EXCEPT ![p.row] = blank] = IF p.row = n THEN Append(q.lines, blank) ELSE q.lines
    <2>1. CASE p.row = n
      <3>1. PICK x : x = Append(p.lines, blank)
        OBVIOUS
      <3>2. PICK y : y = Append(q.lines, blank)
        OBVIOUS
      <3>3. /\ x \in Seq(Strip) /\ Len(x) = n + 1 /\ x[n + 1] = blank /\ DOMAIN x = 1 .. n + 1
            /\ \A i \in 1 .. n : x[i] = p.lines[i]
        BY <1>6, <1>7, <1>22, <3>1
      <3>4. /\ y \in Seq(Strip) /\ Len(y) = n + 1 /\ y[n + 1] = blank /\ DOMAIN y = 1 .. n + 1
            /\ \A i \in 1 .. n : y[i] = q.lines[i]
        BY <1>22, <1>23, <3>2
      <3>5. PICK z : z = [x EXCEPT ![p.row] = blank]
        OBVIOUS
      <3>6. /\ z \in Seq(Strip) /\ Len(z) = n + 1 /\ \A i \in 1 .. n + 1 : z[i] = IF i = p.row THEN blank ELSE x[i]
        BY <1>7, <1>22, <3>3, <3>5
      <3>7. ASSUME NEW i \in 1 .. n + 1 PROVE z[i] = y[i]
        <4>1. CASE i \in 1 .. n
          BY <1>23, <3>3, <3>4, <3>6, <4>1
        <4>2. CASE i = n + 1
          BY <3>3, <3>4, <3>6, <4>2
        <4>3. QED
          BY <4>1, <4>2
      <3>8. z = y
        BY <3>4, <3>6, <3>7, SeqEqual
      <3>9. QED
        BY <1>26, <2>1, <3>1, <3>2, <3>5, <3>8
    <2>2. CASE p.row # n
      BY <1>19, <1>21, <1>26, <2>2
    <2>3. QED
      BY <2>1, <2>2
  <1>28. QED
    BY <1>1, <1>3, <1>17, <1>20, <1>21, <1>24, <1>25, <1>27

(* A task's line. *)
LEMMA TaskShows ==
  ASSUME NEW con, NEW p, Shows(con, p), NEW text, NEW n \in Nat, DOMAIN text = 1 .. n,
         \A i \in 1 .. n : text[i] \in Glyphs /\ text[i] # "backspace"
  PROVE  Shows(log_task_begin(con, text), TaskPenned(p, text, con.color))
  <1>1. PICK color : color = con.color
    OBVIOUS
  <1>2. color \in Int /\ con.row \in 0 .. Height - 1 /\ PaperOK(p) /\ con.row = p.row - FirstShown(p) /\ 0 \in 0 .. Width - 1
    BY <1>1, Sides DEF Shows, ConsoleOK
  <1>3. p.row \in 1 .. Len(p.lines) /\ IsPaper(p) /\ p.lines \in Seq(Strip) /\ Len(p.lines) \in Nat
    BY <1>2, PaperRow DEF PaperOK
  <1>4. PICK start : start = moveTo(con, con.row, 0)
    OBVIOUS
  <1>5. PICK p0 : p0 = [lines |-> p.lines, row |-> p.row, col |-> 0]
    OBVIOUS
  <1>6. Shows(start, p0) /\ start.color = color
    <2>1. FirstShown(p) + con.row = p.row
      BY <1>2, <1>3, Sides DEF FirstShown
    <2>2. QED
      BY <1>1, <1>2, <1>4, <1>5, <2>1, MoveToShows DEF Keeps
  <1>7. PICK cleared : cleared = FoldLeft(putChar, start, Text("blank", Width))
    OBVIOUS
  <1>8. PICK q : q = Penned(p0, Text("blank", Width), color)
    OBVIOUS
  <1>9. Shows(cleared, q) /\ Keeps(start, cleared)
    <2>1. DOMAIN Text("blank", Width) = 1 .. Width /\ Width \in Nat
      BY Sides DEF Text
    <2>2. \A i \in 1 .. Width : Text("blank", Width)[i] \in Glyphs /\ Text("blank", Width)[i] # "backspace"
      BY DEF Text, Glyphs
    <2>3. QED
      BY <1>6, <1>7, <1>8, <2>1, <2>2, PutShows
  <1>10. PICK below : below = Feed(p, color)
    OBVIOUS
  <1>11. below = [lines |-> IF p.row = Len(p.lines) THEN Append(p.lines, BlankLine(color)) ELSE p.lines,
                  row |-> p.row + 1, col |-> 0]
    BY <1>3, <1>10, FeedIs
  <1>12. PICK lines : lines = [below.lines EXCEPT ![p.row] = BlankLine(color)]
    OBVIOUS
  <1>13. q = [lines |-> lines, row |-> p.row + 1, col |-> 0]
    BY <1>2, <1>5, <1>8, <1>10, <1>12, BlanksPenned
  <1>14. PICK line : line = [below EXCEPT !.row = p.row, !.lines[p.row] = BlankLine(color)]
    OBVIOUS
  <1>15. line = [lines |-> lines, row |-> p.row, col |-> 0]
    <2>1. below.row = p.row + 1 /\ below.col = 0 /\ below = [lines |-> below.lines, row |-> below.row, col |-> below.col]
      BY <1>11
    <2>2. line = [below EXCEPT !.row = p.row, !.lines = lines]
      BY <1>12, <1>14
    <2>3. QED
      BY <2>1, <2>2
  <1>16. PICK back : back = moveTo(cleared, cleared.row - 1, 0)
    OBVIOUS
  <1>17. cleared.row - 1 \in 0 .. Height - 1 /\ FirstShown(q) + (cleared.row - 1) = p.row /\ q.lines = lines
    <2>1. q.row = p.row + 1 /\ q.lines = lines
      BY <1>13
    <2>2. BlankLine(color) \in Strip
      BY <1>2, BlankLineIsStrip
    <2>3. below.lines = IF p.row = Len(p.lines) THEN Append(p.lines, BlankLine(color)) ELSE p.lines
      BY <1>11
    <2>4. Len(lines) = IF p.row = Len(p.lines) THEN Len(p.lines) + 1 ELSE Len(p.lines)
      BY <1>3, <1>12, <2>2, <2>3
    <2>5. PICK m \in Nat : m = Len(p.lines)
      BY <1>3
    <2>6. cleared.row = q.row - FirstShown(q) /\ cleared.row \in 0 .. Height - 1
      BY <1>9 DEF Shows, ConsoleOK
    <2>7. FirstShown(q) = Len(lines) - Height + 1
      BY <2>1 DEF FirstShown
    <2>8. p.row \in Nat /\ m - Height + 1 <= p.row /\ p.row <= m
      BY <1>2, <1>3, <2>5, Sides DEF PaperOK, FirstShown
    <2>9. CASE p.row = m
      <3>1. FirstShown(q) = m + 1 - Height + 1
        BY <2>4, <2>5, <2>7, <2>9, Sides
      <3>2. QED
        BY <2>1, <2>6, <2>8, <2>9, <3>1, Sides
    <2>10. CASE p.row # m
      <3>1. FirstShown(q) = m - Height + 1
        BY <2>4, <2>5, <2>7, <2>10, Sides
      <3>2. QED
        BY <2>1, <2>6, <2>8, <2>10, <3>1, Sides
    <2>11. QED
      BY <2>9, <2>10
  <1>18. Shows(back, line) /\ Keeps(cleared, back)
    BY <1>2, <1>9, <1>15, <1>16, <1>17, MoveToShows
  <1>19. PICK bright : bright = setForegroundColor(back, White)
    OBVIOUS
  <1>20. Shows(bright, line) /\ bright.color = White
    BY <1>18, <1>19, ColorShows DEF White
  <1>21. PICK shown : shown = writeString(bright, text)
    OBVIOUS
  <1>22. PICK penned : penned = Penned(line, text, White)
    OBVIOUS
  <1>23. Shows(shown, penned) /\ shown.color = White
    BY <1>20, <1>21, <1>22, StringShows DEF Keeps
  <1>24. PICK fed : fed = writeString(shown, <<"newline">>)
    OBVIOUS
  <1>25. Shows(fed, Feed(penned, White))
    <2>1. PICK nl : nl = <<"newline">>
      OBVIOUS
    <2>2. DOMAIN nl = 1 .. 1 /\ 1 \in Nat /\ nl[1] = "newline" /\ \A i \in 1 .. 1 : nl[i] \in Glyphs /\ nl[i] # "backspace"
      BY <2>1 DEF Glyphs
    <2>3. Shows(fed, Penned(penned, nl, White))
      BY <1>23, <1>24, <2>1, <2>2, StringShows
    <2>4. PICK g : Through("pen", White, penned, nl, 1, g) /\ g[1] = Penned(penned, nl, White)
      BY <2>2, PenGoesThrough
    <2>5. g[0 + 1] = Typed("pen", White, g[0], nl[0 + 1]) /\ g[0] = penned
      BY <2>4 DEF Through
    <2>6. g[1] = Feed(penned, White)
      BY <2>2, <2>5 DEF Typed, Pen
    <2>7. QED
      BY <2>3, <2>4, <2>6
  <1>26. PICK ended : ended = IF shown.col > Width - 6 THEN fed ELSE shown
    OBVIOUS
  <1>27. shown.col = penned.col
    BY <1>23 DEF Shows
  <1>28. TaskPenned(p, text, con.color) = IF penned.col > Width - 6 THEN Feed(penned, White) ELSE penned
    <2>1. TaskPenned(p, text, color) = IF penned.col > Width - 6 THEN Feed(penned, White) ELSE penned
      BY <1>10, <1>14, <1>22 DEF TaskPenned
    <2>2. QED
      BY <1>1, <2>1
  <1>29. Shows(ended, TaskPenned(p, text, con.color))
    BY <1>23, <1>25, <1>26, <1>27, <1>28
  <1>30. PICK last : last = setForegroundColor(ended, Grey)
    OBVIOUS
  <1>31. Shows(last, TaskPenned(p, text, con.color))
    BY <1>29, <1>30, ColorShows DEF Grey
  <1>32. log_task_begin(con, text) = last
    BY <1>4, <1>7, <1>16, <1>19, <1>21, <1>24, <1>26, <1>30, Zenon DEF log_task_begin
  <1>33. QED
    BY <1>31, <1>32

(* A text on its line, on the screen. *)
LEMMA StringOnLine ==
  ASSUME NEW con, NEW p, Shows(con, p), NEW text, NEW n \in Nat, DOMAIN text = 1 .. n,
         \A i \in 1 .. n : text[i] \in Letters, p.col + n <= Width - 1
  PROVE  Shows(writeString(con, text), OnLine(p, text, con.color, n))
  <1>1. \A i \in 1 .. n : text[i] \in Glyphs /\ text[i] # "backspace"
    BY DEF Letters
  <1>2. Shows(writeString(con, text), Penned(p, text, con.color))
    BY <1>1, StringShows
  <1>3. PICK g : Through("pen", con.color, p, text, n, g) /\ g[n] = Penned(p, text, con.color)
    BY PenGoesThrough
  <1>4. PaperOK(p) /\ con.color \in Int /\ n \in 0 .. n
    BY DEF Shows, ConsoleOK
  <1>5. g[n] = OnLine(p, text, con.color, n)
    BY <1>3, <1>4, PenOnLine
  <1>6. QED
    BY <1>2, <1>3, <1>5

(* A result at the end of its line. *)
LEMMA ResultShows ==
  ASSUME NEW con, NEW p, Shows(con, p), NEW answer \in Seq(Letters), Len(answer) = 4, NEW color \in 0 .. 15
  PROVE  Shows(log_result(con, answer, color), ResultPenned(p, answer, con.color, color))
  <1>1. PICK ink : ink = con.color
    OBVIOUS
  <1>2. ink \in Int /\ con.row \in 0 .. Height - 1 /\ PaperOK(p) /\ con.row = p.row - FirstShown(p)
    BY <1>1 DEF Shows, ConsoleOK
  <1>3. PICK n \in Nat : n = Len(p.lines)
    BY <1>2, PaperRow
  <1>4. p.row \in 1 .. n /\ IsPaper(p) /\ p.lines \in Seq(Strip) /\ p.lines[p.row] \in Strip
    BY <1>2, <1>3, PaperRow DEF PaperOK
  <1>5. PICK c \in Nat : c = Width - 7
    BY Sides
  <1>6. c \in 0 .. Width - 1 /\ c = Width - (Len(answer) + 3) /\ c = Width - 3 - Len(answer) /\ Width = c + 7
    BY <1>5, Sides
  <1>7. PICK p1 : p1 = [lines |-> p.lines, row |-> p.row, col |-> c]
    OBVIOUS
  <1>8. PICK at : at = moveTo(con, con.row, c)
    OBVIOUS
  <1>9. Shows(at, p1) /\ at.color = ink
    <2>1. FirstShown(p) \in Int /\ p.row \in Int
      BY <1>3, <1>4, Sides DEF FirstShown
    <2>2. FirstShown(p) + con.row = p.row
      BY <1>2, <2>1
    <2>3. QED
      BY <1>1, <1>2, <1>6, <1>7, <1>8, <2>2, MoveToShows DEF Keeps
  <1>10. PICK b1 : b1 = <<"[">>
    OBVIOUS
  <1>11. PICK b2 : b2 = <<"]", "newline">>
    OBVIOUS
  <1>12. /\ DOMAIN b1 = 1 .. 1 /\ b1[1] = "[" /\ \A i \in 1 .. 1 : b1[i] \in Letters
         /\ DOMAIN b2 = 1 .. 2 /\ b2[1] = "]" /\ b2[2] = "newline" /\ 1 \in Nat /\ 2 \in Nat /\ 4 \in Nat
         /\ \A i \in 1 .. 2 : b2[i] \in Glyphs /\ b2[i] # "backspace"
    BY <1>10, <1>11 DEF Letters, Glyphs
  <1>13. PICK open : open = writeString(at, b1)
    OBVIOUS
  <1>14. PICK p2 : p2 = OnLine(p1, b1, ink, 1)
    OBVIOUS
  <1>15. Shows(open, p2)
    <2>1. p1.col + 1 <= Width - 1
      BY <1>6, <1>7
    <2>2. QED
      BY <1>9, <1>12, <1>13, <1>14, <2>1, StringOnLine
  <1>16. PICK lit : lit = setForegroundColor(open, color)
    OBVIOUS
  <1>17. Shows(lit, p2) /\ lit.color = color
    BY <1>15, <1>16, ColorShows
  <1>18. PICK said : said = writeString(lit, answer)
    OBVIOUS
  <1>19. PICK p3 : p3 = OnLine(p2, answer, color, 4)
    OBVIOUS
  <1>20. Shows(said, p3)
    <2>1. p2.col = p1.col + 1 /\ p1.col = c
      BY <1>7, <1>14 DEF OnLine
    <2>2. p2.col + 4 <= Width - 1
      BY <1>6, <2>1
    <2>3. DOMAIN answer = 1 .. 4 /\ \A i \in 1 .. 4 : answer[i] \in Letters
      <3>1. DOMAIN answer = 1 .. Len(answer)
        OBVIOUS
      <3>2. \A i \in 1 .. Len(answer) : answer[i] \in Letters
        OBVIOUS
      <3>3. QED
        BY <3>1, <3>2
    <2>4. QED
      BY <1>12, <1>17, <1>18, <1>19, <2>2, <2>3, StringOnLine
  <1>21. PICK white : white = setForegroundColor(said, White)
    OBVIOUS
  <1>22. Shows(white, p3) /\ white.color = White
    BY <1>20, <1>21, ColorShows DEF White
  <1>23. PICK done : done = writeString(white, b2)
    OBVIOUS
  <1>24. Shows(done, Penned(p3, b2, White))
    BY <1>12, <1>22, <1>23, StringShows
  <1>25. PICK last : last = setForegroundColor(done, Grey)
    OBVIOUS
  <1>26. Shows(last, Penned(p3, b2, White))
    BY <1>24, <1>25, ColorShows DEF Grey
  <1>27. log_result(con, answer, color) = last
    BY <1>6, <1>8, <1>10, <1>11, <1>13, <1>16, <1>18, <1>21, <1>23, <1>25, Zenon DEF log_result
  <1>28. PICK p4 : p4 = OnLine(p3, b2, White, 1)
    OBVIOUS
  <1>29. Penned(p3, b2, White) = Feed(p4, White)
    <2>1. PICK g : Through("pen", White, p3, b2, 2, g) /\ g[2] = Penned(p3, b2, White)
      <3>1. DOMAIN b2 = 1 .. 2 /\ 2 \in Nat
        BY <1>12
      <3>2. PICK two \in Nat : two = 2
        OBVIOUS
      <3>3. DOMAIN b2 = 1 .. two
        BY <3>1, <3>2
      <3>4. \E g : Through("pen", White, p3, b2, two, g) /\ g[two] = Penned(p3, b2, White)
        BY <3>3, PenGoesThrough
      <3>5. QED
        BY <3>2, <3>4
    <2>2. p3.col = p2.col + 4 /\ p2.col = p1.col + 1 /\ p1.col = c
      BY <1>7, <1>14, <1>19 DEF OnLine
    <2>3. p3.col + 1 <= Width - 1 /\ 1 \in 0 .. 2 /\ White \in Int
      BY <1>6, <2>2 DEF White
    <2>4. \A i \in 1 .. 1 : b2[i] \in Letters
      BY <1>12 DEF Letters, Glyphs
    <2>5. PaperOK(p3)
      BY <1>20 DEF Shows
    <2>6. g[1] = p4
      BY <1>12, <1>28, <2>1, <2>3, <2>4, <2>5, PenOnLine
    <2>7. g[1 + 1] = Typed("pen", White, g[1], b2[1 + 1])
      BY <2>1 DEF Through
    <2>8. g[2] = Feed(p4, White)
      BY <1>12, <2>6, <2>7 DEF Typed, Pen
    <2>9. QED
      BY <2>1, <2>8
  <1>30. p1.lines = p.lines /\ p1.row = p.row /\ p1.col = c
    BY <1>7
  <1>31. PICK l2 : l2 = Struck(p.lines[p.row], c, b1, ink, 1)
    OBVIOUS
  <1>32. p2.lines = [p.lines EXCEPT ![p.row] = l2] /\ p2.row = p.row /\ p2.col = c + 1 /\ l2 \in Strip /\ p2.lines[p.row] = l2
    <2>1. l2 \in Strip
      <3>1. \A i \in 1 .. 1 : b1[i] \in Glyphs
        BY <1>12 DEF Letters
      <3>2. QED
        BY <1>2, <1>4, <1>6, <1>12, <1>31, <3>1, StruckIsStrip
    <2>2. p2.lines = [p.lines EXCEPT ![p.row] = l2] /\ p2.row = p.row /\ p2.col = c + 1
      BY <1>14, <1>30, <1>31 DEF OnLine
    <2>3. p2.lines[p.row] = l2
      BY <1>3, <1>4, <2>1, <2>2
    <2>4. QED
      BY <2>1, <2>2, <2>3
  <1>33. PICK l3 : l3 = Struck(l2, c + 1, answer, color, 4)
    OBVIOUS
  <1>34. p3.lines = [p.lines EXCEPT ![p.row] = l3] /\ p3.row = p.row /\ p3.col = c + 5 /\ l3 \in Strip /\ p3.lines[p.row] = l3
    <2>1. l3 \in Strip
      <3>1. \A i \in 1 .. 4 : answer[i] \in Glyphs
        BY DEF Letters
      <3>2. c + 1 \in 0 .. Width - 1 /\ color \in Int
        BY <1>6
      <3>3. QED
        BY <1>12, <1>32, <1>33, <3>1, <3>2, StruckIsStrip
    <2>2. p3.lines = [p2.lines EXCEPT ![p.row] = l3] /\ p3.row = p.row /\ p3.col = c + 5
      BY <1>19, <1>32, <1>33 DEF OnLine
    <2>3. p3.lines = [p.lines EXCEPT ![p.row] = l3]
      BY <1>4, <1>32, <2>2
    <2>4. p3.lines[p.row] = l3
      BY <1>3, <1>4, <2>1, <2>3
    <2>5. QED
      BY <2>1, <2>2, <2>3, <2>4
  <1>35. PICK l4 : l4 = Struck(l3, c + 5, b2, White, 1)
    OBVIOUS
  <1>36. p4 = [lines |-> [p.lines EXCEPT ![p.row] = l4], row |-> p.row, col |-> c + 6]
    <2>1. p4 = [lines |-> [p3.lines EXCEPT ![p.row] = l4], row |-> p.row, col |-> c + 5 + 1]
      BY <1>28, <1>34, <1>35 DEF OnLine
    <2>2. [p3.lines EXCEPT ![p.row] = l4] = [p.lines EXCEPT ![p.row] = l4]
      BY <1>4, <1>34
    <2>3. c + 5 + 1 = c + 6
      OBVIOUS
    <2>4. QED
      BY <2>1, <2>2, <2>3
  <1>37. ASSUME NEW i \in 0 .. Width - 1 PROVE l4[i] = ResultCell(p, answer, ink, color, i)
    <2>0. i \in Int /\ Width - 3 - Len(answer) = c
      BY <1>6
    <2>1. l4[i] = IF i \in c + 5 .. c + 5 + 1 - 1 THEN Ink(b2[i - (c + 5) + 1], White) ELSE l3[i]
      BY <1>35 DEF Struck
    <2>2. l3[i] = IF i \in c + 1 .. c + 1 + 4 - 1 THEN Ink(answer[i - (c + 1) + 1], color) ELSE l2[i]
      BY <1>33 DEF Struck
    <2>3. l2[i] = IF i \in c .. c + 1 - 1 THEN Ink(b1[i - c + 1], ink) ELSE p.lines[p.row][i]
      BY <1>31 DEF Struck
    <2>4. CASE i = c
      <3>1. ~(i \in c + 5 .. c + 5 + 1 - 1) /\ ~(i \in c + 1 .. c + 1 + 4 - 1) /\ i \in c .. c + 1 - 1 /\ i - c + 1 = 1
        BY <2>4
      <3>2. l4[i] = Ink("[", ink)
        BY <1>12, <2>1, <2>2, <2>3, <3>1
      <3>3. ResultCell(p, answer, ink, color, i) = Ink("[", ink)
        BY <1>6, <2>0, <2>4 DEF ResultCell
      <3>4. QED
        BY <3>2, <3>3
    <2>5. CASE i > c /\ i < Width - 2
      <3>1. ~(i \in c + 5 .. c + 5 + 1 - 1) /\ i \in c + 1 .. c + 1 + 4 - 1 /\ i - (c + 1) + 1 = i - c /\ i # c /\ i # Width - 2
        BY <1>6, <2>5
      <3>2. QED
        BY <2>0, <2>1, <2>2, <2>5, <3>1 DEF ResultCell
    <2>6. CASE i = Width - 2
      <3>1. i \in c + 5 .. c + 5 + 1 - 1 /\ i - (c + 5) + 1 = 1 /\ i # c /\ ~(i > c /\ i < Width - 2)
        BY <1>6, <2>6
      <3>2. QED
        BY <1>12, <2>0, <2>1, <2>6, <3>1 DEF ResultCell
    <2>7. CASE ~(i = c) /\ ~(i > c /\ i < Width - 2) /\ ~(i = Width - 2)
      <3>1. ~(i \in c + 5 .. c + 5 + 1 - 1) /\ ~(i \in c + 1 .. c + 1 + 4 - 1) /\ ~(i \in c .. c + 1 - 1)
        BY <1>6, <2>7
      <3>2. QED
        BY <2>0, <2>1, <2>2, <2>3, <2>7, <3>1 DEF ResultCell
    <2>8. QED
      BY <2>4, <2>5, <2>6, <2>7
  <1>38. l4 = [i \in 0 .. Width - 1 |-> ResultCell(p, answer, ink, color, i)]
    <2>1. l4 = [i \in 0 .. Width - 1 |-> l4[i]]
      BY <1>35 DEF Struck
    <2>2. QED
      BY <1>37, <2>1
  <1>39. PICK p5 : p5 = [p EXCEPT !.lines[p.row] = l4]
    OBVIOUS
  <1>40. p5 = [lines |-> [p.lines EXCEPT ![p.row] = l4], row |-> p.row, col |-> p.col]
    BY <1>4, <1>39 DEF IsPaper
  <1>41. Feed(p5, White) = Feed(p4, White)
    <2>1. IsPaper(p4) /\ IsPaper(p5) /\ p5.lines = p4.lines /\ p5.row = p4.row
      BY <1>36, <1>40 DEF IsPaper
    <2>2. PICK f4 : f4 = Feed(p4, White)
      OBVIOUS
    <2>3. PICK f5 : f5 = Feed(p5, White)
      OBVIOUS
    <2>4. f4 = [lines |-> IF p4.row = Len(p4.lines) THEN Append(p4.lines, BlankLine(White)) ELSE p4.lines,
                row |-> p4.row + 1, col |-> 0]
      BY <2>1, <2>2, FeedIs
    <2>5. f5 = [lines |-> IF p5.row = Len(p5.lines) THEN Append(p5.lines, BlankLine(White)) ELSE p5.lines,
                row |-> p5.row + 1, col |-> 0]
      BY <2>1, <2>3, FeedIs
    <2>6. f4 = f5
      BY <2>1, <2>4, <2>5
    <2>7. QED
      BY <2>2, <2>3, <2>6
  <1>42. ResultPenned(p, answer, ink, color) = Feed(p5, White)
    BY <1>38, <1>39 DEF ResultPenned
  <1>43. QED
    BY <1>1, <1>26, <1>27, <1>29, <1>41, <1>42

(* A cleared screen, and the one the console starts with. *)
LEMMA FreshIs ==
  ASSUME NEW color \in Int, NEW r \in 0 .. Height - 1, NEW c \in 0 .. Width - 1, NEW buffer,
         buffer = [i \in 0 .. Width * Height - 1 |-> make_vgaentry("blank", color)],
         NEW p, p = [lines |-> Fresh(color).lines, row |-> r + 1, col |-> c]
  PROVE  /\ buffer \in [0 .. Width * Height - 1 -> Cells] /\ PaperOK(p) /\ SameCells(buffer, p.lines)
         /\ r = p.row - FirstShown(p) /\ c = p.col /\ FirstShown(p) = 1
  <1>1. PICK blank : blank = make_vgaentry("blank", color)
    OBVIOUS
  <1>2. blank \in Cells /\ Displayed(Ink("blank", color)) = blank
    <2>1. "blank" \in Glyphs
      BY DEF Glyphs
    <2>2. QED
      BY <1>1, <2>1, EntryIsCell
  <1>3. buffer = [i \in 0 .. Width * Height - 1 |-> blank]
    BY <1>1
  <1>4. PICK line : line = BlankLine(color)
    OBVIOUS
  <1>5. line \in Strip /\ \A i \in 0 .. Width - 1 : Displayed(line[i]) = blank
    BY <1>2, <1>4, BlankLineIsStrip
  <1>6. p.lines = [i \in 1 .. Height |-> line] /\ p.row = r + 1 /\ p.col = c /\ IsPaper(p)
    BY <1>4 DEF Fresh, IsPaper
  <1>7. Len(p.lines) = Height /\ p.lines \in Seq(Strip) /\ \A i \in 1 .. Height : p.lines[i] = line
    BY <1>5, <1>6, Sides
  <1>8. FirstShown(p) = 1
    BY <1>7, Sides DEF FirstShown
  <1>9. PaperOK(p)
    BY <1>6, <1>7, <1>8, Sides DEF PaperOK
  <1>10. ASSUME NEW row \in 0 .. Height - 1, NEW col \in 0 .. Width - 1
         PROVE  buffer[Position(row, col)] = Displayed(p.lines[Len(p.lines) - Height + 1 + row][col])
    <2>1. buffer[Position(row, col)] = blank
      BY <1>3, PositionOnScreen
    <2>2. Len(p.lines) - Height + 1 + row = 1 + row /\ 1 + row \in 1 .. Height
      <3>1. row \in Int /\ 0 <= row /\ row <= Height - 1 /\ Height \in Int
        BY Sides
      <3>2. Len(p.lines) = Height
        BY <1>7
      <3>3. QED
        BY ONLY <3>1, <3>2
    <2>3. QED
      BY <1>5, <1>7, <2>1, <2>2
  <1>11. SameCells(buffer, p.lines)
    BY <1>10 DEF SameCells
  <1>12. QED
    BY <1>2, <1>3, <1>6, <1>8, <1>9, <1>11

LEMMA ClearShows ==
  ASSUME NEW con, NEW p, Shows(con, p)
  PROVE  Shows(clear(con), Fresh(con.color))
  <1>1. /\ con.color \in Int /\ con.row \in 0 .. Height - 1 /\ con.col \in 0 .. Width - 1 /\ IsConsole(con)
        /\ DOMAIN con.buffer = 0 .. Width * Height - 1
    BY DEF Shows, ConsoleOK
  <1>2. PICK buffer : buffer = [i \in 0 .. Width * Height - 1 |-> make_vgaentry("blank", con.color)]
    OBVIOUS
  <1>3. PICK wiped : wiped = [con EXCEPT !.buffer = buffer]
    OBVIOUS
  <1>4. wiped = [buffer |-> buffer, row |-> con.row, col |-> con.col, color |-> con.color,
                 visible |-> con.visible, cursor |-> con.cursor]
    BY <1>1, <1>3 DEF IsConsole
  <1>5. PICK q : q = [lines |-> Fresh(con.color).lines, row |-> con.row + 1, col |-> con.col]
    OBVIOUS
  <1>6. /\ buffer \in [0 .. Width * Height - 1 -> Cells] /\ PaperOK(q) /\ SameCells(buffer, q.lines)
        /\ con.row = q.row - FirstShown(q) /\ con.col = q.col /\ FirstShown(q) = 1
    BY <1>1, <1>2, <1>5, FreshIs
  <1>7. Shows(wiped, q)
    BY <1>4, <1>6 DEF Shows, ConsoleOK, IsConsole
  <1>8. 0 \in 0 .. Height - 1 /\ 0 \in 0 .. Width - 1 /\ FirstShown(q) + 0 = 1
    BY <1>6, Sides
  <1>9. Shows(moveTo(wiped, 0, 0), [lines |-> q.lines, row |-> 1, col |-> 0])
    BY <1>7, <1>8, MoveToShows
  <1>10. Fresh(con.color) = [lines |-> q.lines, row |-> 1, col |-> 0]
    BY <1>5 DEF Fresh
  <1>11. clear(con) = moveTo(wiped, 0, 0)
    <2>1. [i \in DOMAIN con.buffer |-> make_vgaentry("blank", con.color)] = buffer
      BY <1>1, <1>2
    <2>2. QED
      BY <1>3, <2>1 DEF clear
  <1>12. QED
    BY <1>9, <1>10, <1>11

LEMMA ConsoleInitShows == Init => Shows(console, paper)
  <1>1. SUFFICES ASSUME Init PROVE Shows(console, paper)
    OBVIOUS
  <1>2. PICK buffer : buffer = [i \in 0 .. Width * Height - 1 |-> make_vgaentry("blank", Grey)]
    OBVIOUS
  <1>3. /\ console = [buffer |-> buffer, row |-> 0, col |-> 0, color |-> Grey, visible |-> FALSE,
                      cursor |-> HiddenCursor]
        /\ paper = Fresh(Grey)
    BY <1>1, <1>2 DEF Init, ConsoleInit
  <1>4. PICK p : p = [lines |-> Fresh(Grey).lines, row |-> 0 + 1, col |-> 0]
    OBVIOUS
  <1>5. 0 \in 0 .. Height - 1 /\ 0 \in 0 .. Width - 1 /\ Grey \in Int /\ Grey \in 0 .. 15
    BY Sides DEF Grey
  <1>6. /\ buffer \in [0 .. Width * Height - 1 -> Cells] /\ PaperOK(p) /\ SameCells(buffer, p.lines)
        /\ 0 = p.row - FirstShown(p) /\ 0 = p.col
    BY <1>2, <1>4, <1>5, FreshIs
  <1>7. paper = p
    BY <1>3, <1>4 DEF Fresh
  <1>8. QED
    BY <1>3, <1>5, <1>6, <1>7 DEF Shows, ConsoleOK, IsConsole

LEMMA ShowsStep == Shows(console, paper) /\ [Next]_kernelVars => Shows(console, paper)'
  <1>1. SUFFICES ASSUME Shows(console, paper), [Next]_kernelVars PROVE Shows(console', paper')
    OBVIOUS
  <1>2. CASE UNCHANGED <<console, paper>>
    BY <1>1, <1>2
  <1>3. CASE ConsoleNext
    <2>1. ASSUME NEW text \in Texts, Write(text) PROVE Shows(console', paper')
      <3>1. \E n \in Nat : DOMAIN text = 1 .. n /\ \A i \in 1 .. n : text[i] \in Glyphs
        <4>1. CASE text = <<"high">>
          <5>1. DOMAIN text = 1 .. 1 /\ 1 \in Nat /\ \A i \in 1 .. 1 : text[i] \in Glyphs
            BY <4>1 DEF Glyphs
          <5>2. QED
            BY <5>1
        <4>2. ASSUME NEW c \in {"x", "newline", "backspace"}, NEW n \in Runs, text = Text(c, n)
              PROVE  n \in Nat /\ DOMAIN text = 1 .. n /\ \A i \in 1 .. n : text[i] \in Glyphs
          BY <4>2, ConsoleAssumption DEF Text, Glyphs
        <4>3. QED
          BY <2>1, <4>1, <4>2 DEF Texts
      <3>2. Shows(FoldLeft(write, console, text), Penned(paper, text, console.color))
        BY <1>1, <3>1, WriteShows
      <3>3. QED
        BY <2>1, <3>2 DEF Write
    <2>2. ASSUME Clear PROVE Shows(console', paper')
      BY <1>1, <2>2, ClearShows DEF Clear
    <2>3. ASSUME NEW fg \in {Grey, White}, SetForegroundColor(fg) PROVE Shows(console', paper')
      <3>1. fg \in 0 .. 15
        BY <2>3 DEF Grey, White
      <3>2. QED
        BY <1>1, <2>3, <3>1, ColorShows DEF SetForegroundColor
    <2>4. ASSUME NEW v \in BOOLEAN, SetCursorVisible(v) PROVE Shows(console', paper')
      BY <1>1, <2>4, CursorShows DEF SetCursorVisible
    <2>5. ASSUME NEW n \in Runs, LogTaskBegin(Text("t", n)) PROVE Shows(console', paper')
      <3>1. PICK text : text = Text("t", n)
        OBVIOUS
      <3>2. n \in Nat /\ DOMAIN text = 1 .. n /\ \A i \in 1 .. n : text[i] \in Glyphs /\ text[i] # "backspace"
        BY <3>1, ConsoleAssumption DEF Text, Glyphs
      <3>3. QED
        BY <1>1, <2>5, <3>1, <3>2, TaskShows DEF LogTaskBegin
    <2>6. ASSUME NEW answer, answer = <<"D", "O", "N", "E">> \/ answer = <<"F", "A", "I", "L">>, NEW color \in {Green, Red},
                 LogResult(answer, color)
          PROVE  Shows(console', paper')
      <3>1. answer \in Seq(Letters) /\ Len(answer) = 4
        <4>1. {"D", "O", "N", "E", "F", "A", "I", "L"} \subseteq Letters
          BY DEF Letters, Glyphs
        <4>2. CASE answer = <<"D", "O", "N", "E">>
          BY <4>1, <4>2
        <4>3. CASE answer = <<"F", "A", "I", "L">>
          BY <4>1, <4>3
        <4>4. QED
          BY <2>6, <4>2, <4>3
      <3>2. color \in 0 .. 15
        BY <2>6 DEF Green, Red
      <3>3. QED
        BY <1>1, <2>6, <3>1, <3>2, ResultShows DEF LogResult
    <2>7. QED
      BY <1>3, <2>1, <2>2, <2>3, <2>4, <2>5, <2>6 DEF ConsoleNext
  <1>4. QED
    BY <1>1, <1>2, <1>3 DEF Next, kernelVars, consoleVars

(* Whatever is written, backspaced, cleared or logged, and however often   *)
(* that scrolls, the video memory holds the last lines of what was written *)
(* since the screen was cleared, and a visible cursor is at its end: for   *)
(* every screen that has room for a result of the log and a row below it.  *)
THEOREM ScreenShowsLastLines == Spec => []ScreenIsWindow
  <1>1. Shows(console, paper) => ScreenIsWindow
    <2>1. SUFFICES ASSUME Shows(console, paper) PROVE ScreenIsWindow
      OBVIOUS
    <2>2. SameCells(console.buffer, paper.lines)
      BY <2>1 DEF Shows
    <2>3. ASSUME NEW ink PROVE Agree(Displayed(ink), ink)
      BY DEF Agree, Displayed, make_vgaentry
    <2>4. ASSUME NEW row \in 0 .. Height - 1, NEW col \in 0 .. Width - 1
          PROVE  Agree(console.buffer[Position(row, col)], paper.lines[FirstShown(paper) + row][col])
      BY <2>2, <2>3 DEF SameCells, FirstShown
    <2>5. QED
      BY <2>1, <2>4 DEF ScreenIsWindow, Shows, ConsoleOK
  <1>2. QED
    BY <1>1, ConsoleInitShows, ShowsStep, PTL DEF Spec

-----------------------------------------------------------------------------
(* The layout of a panic: after m lines, which end at the positions o of   *)
(* the message, the rest of it is left.                                    *)

Marks == {"x", "space"}
NoSpaces(text) == \A j \in 1 .. Len(text) : text[j] # "space"
RestOf(text, a) == SubSeq(text, a + 1, Len(text))
PartOf(text, a, b) == SubSeq(text, a + 1, b)
WordsKept(text, a, b) == text[b] # "space" => \A j \in a + 1 .. b : text[j] # "space"

LineIs(text, first, i, line, a, b) ==
  /\ a < b /\ b - a <= MaxLineWidth
  /\ line = [row |-> first + i - 1, col |-> (PanicWidth - (b - a)) \div 2, text |-> PartOf(text, a, b)]
  /\ WordsKept(text, a, b)

LinesAre(text, first, m, lines, o) ==
  /\ lines \in Seq([row : Int, col : Int, text : Seq(Marks)]) /\ Len(lines) = m
  /\ \A i \in 1 .. m : LineIs(text, first, i, lines[i], o[i - 1], o[i])

EndsAre(text, m, o) ==
  /\ o \in [0 .. m -> 0 .. Len(text)] /\ o[0] = 0
  /\ NoSpaces(text) => o[m] = Len(text) \/ o[m] = m * MaxLineWidth

LaidOut(text, first, m, done, o) ==
  /\ EndsAre(text, m, o)
  /\ done.rest = RestOf(text, o[m])
  /\ LinesAre(text, first, m, done.lines, o)

LEMMA MaxLineWidthIs == MaxLineWidth \in Nat /\ MaxLineWidth > 0 /\ MaxLineWidth <= PanicWidth /\ PanicWidth \in Nat
  BY ConsoleAssumption DEF MaxLineWidth

LEMMA Most ==
  ASSUME NEW n \in Nat, NEW T \in SUBSET (1 .. n), T # {}
  PROVE  \E j \in T : \A k \in T : k <= j
  <1>1. PICK U : U = {n - j : j \in T}
    OBVIOUS
  <1>2. U \in SUBSET Nat /\ U # {}
    <2>1. \A j \in T : n - j \in Nat
      OBVIOUS
    <2>2. PICK j : j \in T
      OBVIOUS
    <2>3. n - j \in U
      BY <1>1, <2>2
    <2>4. QED
      BY <1>1, <2>1, <2>3
  <1>3. PICK u \in U : \A v \in U : u <= v
    BY <1>2, Least
  <1>4. PICK j \in T : u = n - j
    BY <1>1, <1>3
  <1>5. ASSUME NEW k \in T PROVE k <= j
    <2>1. n - k \in U
      BY <1>1
    <2>2. n - j <= n - k
      BY <1>3, <1>4, <2>1
    <2>3. QED
      BY <2>2
  <1>6. QED
    BY <1>4, <1>5

Cut(r) == IF Len(r) < MaxLineWidth THEN Len(r) ELSE MaxLineWidth

LEMMA LineLengthIs ==
  ASSUME NEW r \in Seq(Marks), Len(r) > 0
  PROVE  /\ LineLength(r) \in 1 .. Len(r) /\ LineLength(r) <= MaxLineWidth
         /\ WordsKept(r, 0, LineLength(r))
         /\ NoSpaces(r) => LineLength(r) = Cut(r)
  <1>1. Len(r) \in Nat /\ Cut(r) \in 1 .. Len(r) /\ Cut(r) <= MaxLineWidth /\ Cut(r) \in Nat
    BY MaxLineWidthIs DEF Cut
  <1>2. PICK T : T = {j \in 1 .. Cut(r) : r[j] = "space"}
    OBVIOUS
  <1>3. LineLength(r) = IF T = {} THEN Cut(r) ELSE CHOOSE j \in T : \A k \in T : k <= j
    BY <1>2 DEF LineLength, Cut
  <1>4. CASE T = {}
    <2>1. LineLength(r) = Cut(r)
      BY <1>3, <1>4
    <2>2. \A j \in 1 .. Cut(r) : r[j] # "space"
      BY <1>2, <1>4
    <2>3. WordsKept(r, 0, Cut(r))
      BY <1>1, <2>2 DEF WordsKept
    <2>4. QED
      BY <1>1, <2>1, <2>3
  <1>5. CASE T # {}
    <2>1. T \in SUBSET (1 .. Cut(r))
      BY <1>2
    <2>2. \E j \in T : \A k \in T : k <= j
      BY <1>1, <1>5, <2>1, Most
    <2>3. LineLength(r) \in T
      BY <1>3, <1>5, <2>2
    <2>4. PICK n : n = LineLength(r)
      OBVIOUS
    <2>5. n \in 1 .. Cut(r) /\ r[n] = "space"
      BY <1>2, <2>3, <2>4
    <2>6. n \in 1 .. Len(r) /\ n <= MaxLineWidth
      BY <1>1, <2>5, MaxLineWidthIs
    <2>7. WordsKept(r, 0, n)
      BY <2>5 DEF WordsKept
    <2>8. ~NoSpaces(r)
      BY <2>5, <2>6 DEF NoSpaces
    <2>9. QED
      BY <2>4, <2>6, <2>7, <2>8
  <1>6. QED
    BY <1>4, <1>5

IsPart(p, text, a, b) ==
  p \in Seq(Marks) /\ Len(p) = b - a /\ \A j \in 1 .. b - a : p[j] = text[a + j]

LEMMA PartIs ==
  ASSUME NEW text \in Seq(Marks), NEW a \in Nat, NEW b \in Nat, a <= b, b <= Len(text)
  PROVE  IsPart(PartOf(text, a, b), text, a, b)
  BY DEF PartOf, IsPart

LEMMA PartOfRest ==
  ASSUME NEW text \in Seq(Marks), NEW a \in 0 .. Len(text), NEW n \in 0 .. Len(text) - a
  PROVE  /\ IsPart(RestOf(text, a), text, a, Len(text))
         /\ SubSeq(RestOf(text, a), 1, n) = PartOf(text, a, a + n)
         /\ SubSeq(RestOf(text, a), n + 1, Len(text) - a) = RestOf(text, a + n)
  <1>1. Len(text) \in Nat /\ a \in Nat /\ n \in Nat /\ a + n \in Nat /\ a + n <= Len(text)
    OBVIOUS
  <1>2. PICK r, b, z, m : r = RestOf(text, a) /\ b = a + n /\ z = Len(text) /\ m = z - b
    OBVIOUS
  <1>3. b \in Nat /\ z \in Nat /\ m \in Nat /\ a <= b /\ b <= z /\ a <= z /\ b - a = n /\ z - a = n + m
    BY <1>1, <1>2
  <1>4. RestOf(text, a) = PartOf(text, a, z) /\ RestOf(text, b) = PartOf(text, b, z)
    BY <1>2 DEF RestOf, PartOf
  <1>5. IsPart(r, text, a, z)
    BY <1>2, <1>3, <1>4, PartIs
  <1>6. SubSeq(r, 1, n) = PartOf(text, a, b)
    <2>1. PICK u, v : u = SubSeq(r, 1, n) /\ v = PartOf(text, a, b)
      OBVIOUS
    <2>2. u \in Seq(Marks) /\ Len(u) = n /\ \A j \in 1 .. n : u[j] = r[j]
      BY <1>1, <1>3, <1>5, <2>1 DEF IsPart
    <2>3. IsPart(v, text, a, b)
      BY <1>2, <1>3, <2>1, PartIs
    <2>4. ASSUME NEW j \in 1 .. n PROVE u[j] = v[j]
      <3>1. j \in 1 .. z - a /\ j \in 1 .. b - a
        BY <1>1, <1>3
      <3>2. QED
        BY <1>5, <2>2, <2>3, <3>1 DEF IsPart
    <2>5. u = v
      BY <1>3, <2>2, <2>3, <2>4, SeqEqual DEF IsPart
    <2>6. QED
      BY <2>1, <2>5
  <1>7. SubSeq(r, n + 1, z - a) = RestOf(text, b)
    <2>1. PICK u, v : u = SubSeq(r, n + 1, z - a) /\ v = RestOf(text, b)
      OBVIOUS
    <2>2. u \in Seq(Marks) /\ Len(u) = m /\ \A j \in 1 .. m : u[j] = r[n + j]
      BY <1>1, <1>3, <1>5, <2>1 DEF IsPart
    <2>3. IsPart(v, text, b, z)
      BY <1>2, <1>3, <1>4, <2>1, PartIs
    <2>4. ASSUME NEW j \in 1 .. m PROVE u[j] = v[j]
      <3>1. n + j \in 1 .. z - a /\ a + (n + j) = b + j /\ j \in 1 .. z - b
        BY <1>1, <1>2, <1>3
      <3>2. u[j] = r[n + j] /\ r[n + j] = text[a + (n + j)] /\ v[j] = text[b + j]
        BY <1>5, <2>2, <2>3, <3>1 DEF IsPart
      <3>3. QED
        BY <3>1, <3>2
    <2>5. u = v
      BY <1>2, <2>2, <2>3, <2>4, SeqEqual DEF IsPart
    <2>6. QED
      BY <2>1, <2>5
  <1>8. QED
    BY <1>2, <1>5, <1>6, <1>7

LEMMA NothingLaid ==
  ASSUME NEW text \in Seq(Marks), NEW first \in Int
  PROVE  LaidOut(text, first, 0, [rest |-> text, lines |-> <<>>], [j \in 0 .. 0 |-> 0])
  <1>1. PICK o, done : o = [j \in 0 .. 0 |-> 0] /\ done = [rest |-> text, lines |-> <<>>]
    OBVIOUS
  <1>2. Len(text) \in Nat /\ 0 * MaxLineWidth = 0
    BY MaxLineWidthIs
  <1>3. EndsAre(text, 0, o) /\ o[0] = 0
    BY <1>1, <1>2 DEF EndsAre
  <1>4. RestOf(text, 0) = text
    <2>1. Len(text) \in 0 .. Len(text) - 0 /\ 0 \in 0 .. Len(text)
      BY <1>2
    <2>2. IsPart(RestOf(text, 0), text, 0, Len(text))
      BY <2>1, PartOfRest
    <2>3. QED
      BY <1>2, <2>2, SeqEqual DEF IsPart
  <1>5. LinesAre(text, first, 0, <<>>, o)
    BY DEF LinesAre
  <1>6. QED
    BY <1>1, <1>3, <1>4, <1>5 DEF LaidOut

LEMMA LineLaid ==
  ASSUME NEW text \in Seq(Marks), NEW first \in Int, NEW m \in Nat, NEW done, NEW o,
         LaidOut(text, first, m, done, o), o[m] # Len(text)
  PROVE  \E e : LaidOut(text, first, m + 1, PanicLine(first, done, m), e)
  <1>1. PICK a, z, r, n, b : a = o[m] /\ z = Len(text) /\ r = done.rest /\ n = LineLength(r) /\ b = a + n
    OBVIOUS
  <1>2. o \in [0 .. m -> 0 .. z] /\ o[0] = 0 /\ r = RestOf(text, a) /\ z \in Nat
    BY <1>1 DEF LaidOut, EndsAre
  <1>3. a \in Nat /\ a < z /\ a \in 0 .. z
    BY <1>1, <1>2
  <1>4. IsPart(r, text, a, z)
    <2>1. 0 \in 0 .. z - a
      BY <1>2, <1>3
    <2>2. QED
      BY <1>1, <1>2, <1>3, <2>1, PartOfRest
  <1>5. r \in Seq(Marks) /\ Len(r) = z - a /\ Len(r) > 0
    BY <1>2, <1>3, <1>4 DEF IsPart
  <1>6. n \in 1 .. Len(r) /\ n <= MaxLineWidth /\ WordsKept(r, 0, n) /\ (NoSpaces(r) => n = Cut(r))
    BY <1>1, <1>5, LineLengthIs
  <1>7. n \in Nat /\ n > 0 /\ n \in 0 .. z - a /\ b \in Nat /\ a < b /\ b <= z /\ b - a = n /\ b \in 0 .. z
    <2>1. n \in Nat /\ n > 0 /\ n <= z - a
      BY <1>2, <1>3, <1>5, <1>6
    <2>2. b = a + n
      BY <1>1
    <2>3. QED
      BY <1>2, <1>3, <2>1, <2>2
  <1>8. SubSeq(r, 1, n) = PartOf(text, a, b) /\ SubSeq(r, n + 1, Len(r)) = RestOf(text, b)
    BY <1>1, <1>2, <1>3, <1>5, <1>7, PartOfRest
  <1>9. PICK line, lines : /\ line = [row |-> first + m, col |-> (PanicWidth - n) \div 2, text |-> SubSeq(r, 1, n)]
                           /\ lines = Append(done.lines, line)
    OBVIOUS
  <1>10. PanicLine(first, done, m) = [rest |-> RestOf(text, b), lines |-> lines]
    <2>1. done.rest # <<>>
      BY <1>1, <1>5
    <2>2. PanicLine(first, done, m) = [rest |-> SubSeq(r, n + 1, Len(r)), lines |-> lines]
      BY <1>1, <1>9, <2>1, Zenon DEF PanicLine
    <2>3. QED
      BY <1>8, <2>2
  <1>11. LineIs(text, first, m + 1, line, a, b)
    <2>1. WordsKept(text, a, b)
      <3>1. SUFFICES ASSUME text[b] # "space", NEW j \in a + 1 .. b PROVE text[j] # "space"
        BY DEF WordsKept
      <3>2. j - a \in 1 .. n /\ j - a \in 1 .. z - a /\ a + (j - a) = j /\ a + n = b /\ n \in 1 .. z - a
        BY <1>3, <1>7, <1>2
      <3>3. r[j - a] = text[j] /\ r[n] = text[b]
        BY <1>4, <3>2 DEF IsPart
      <3>4. j - a \in 0 + 1 .. n
        BY <3>2, <1>7
      <3>5. QED
        BY <1>6, <3>1, <3>3, <3>4 DEF WordsKept
    <2>2. first + (m + 1) - 1 = first + m
      OBVIOUS
    <2>3. QED
      BY <1>6, <1>7, <1>8, <1>9, <2>1, <2>2 DEF LineIs
  <1>12. PICK e : e = [j \in 0 .. m + 1 |-> IF j = m + 1 THEN b ELSE o[j]]
    OBVIOUS
  <1>13. /\ e \in [0 .. m + 1 -> 0 .. z] /\ e[0] = 0 /\ e[m] = a /\ e[m + 1] = b
         /\ \A i \in 0 .. m : e[i] = o[i]
    <2>1. ASSUME NEW i \in 0 .. m PROVE i \in 0 .. m + 1 /\ i # m + 1 /\ o[i] \in 0 .. z
      BY <1>2
    <2>2. \A i \in 0 .. m : e[i] = o[i]
      BY <1>12, <2>1
    <2>3. m + 1 \in 0 .. m + 1 /\ 0 \in 0 .. m /\ m \in 0 .. m
      OBVIOUS
    <2>4. e[m + 1] = b /\ e[0] = 0 /\ e[m] = a
      BY <1>1, <1>2, <1>12, <2>2, <2>3
    <2>5. \A i \in 0 .. m + 1 : i \in 0 .. m \/ i = m + 1
      OBVIOUS
    <2>6. \A i \in 0 .. m + 1 : e[i] \in 0 .. z
      BY <1>7, <2>1, <2>2, <2>4, <2>5
    <2>7. QED
      BY <1>12, <2>2, <2>4, <2>6
  <1>14. EndsAre(text, m + 1, e)
    <2>1. ASSUME NoSpaces(text) PROVE b = z \/ b = (m + 1) * MaxLineWidth
      <3>1. a = m * MaxLineWidth
        BY <1>1, <1>3, <2>1 DEF LaidOut, EndsAre
      <3>2. ASSUME NEW j \in 1 .. Len(r) PROVE r[j] # "space"
        <4>1. j \in 1 .. z - a /\ a + j \in 1 .. z
          BY <1>2, <1>3, <1>5
        <4>2. r[j] = text[a + j]
          BY <1>4, <4>1 DEF IsPart
        <4>3. QED
          BY <1>1, <2>1, <4>1, <4>2 DEF NoSpaces
      <3>3. n = Cut(r)
        BY <1>6, <3>2 DEF NoSpaces
      <3>4. (m + 1) * MaxLineWidth = m * MaxLineWidth + MaxLineWidth
        BY MaxLineWidthIs
      <3>5. n = z - a \/ n = MaxLineWidth
        BY <1>5, <3>3 DEF Cut
      <3>6. QED
        BY <1>1, <1>2, <1>3, <3>1, <3>4, <3>5, MaxLineWidthIs
    <2>2. QED
      BY <1>1, <1>13, <2>1 DEF EndsAre
  <1>15. LinesAre(text, first, m + 1, lines, e)
    <2>1. PICK L : L = [row : Int, col : Int, text : Seq(Marks)]
      OBVIOUS
    <2>2. done.lines \in Seq(L) /\ Len(done.lines) = m /\ \A i \in 1 .. m : LineIs(text, first, i, done.lines[i], o[i - 1], o[i])
      BY <2>1 DEF LaidOut, LinesAre
    <2>3. line \in L
      <3>1. PartOf(text, a, b) \in Seq(Marks)
        <4>1. IsPart(PartOf(text, a, b), text, a, b)
          BY <1>1, <1>3, <1>7, PartIs
        <4>2. QED
          BY <4>1 DEF IsPart
      <3>2. (PanicWidth - n) \div 2 \in Int /\ first + m \in Int
        BY <1>7, MaxLineWidthIs
      <3>3. QED
        BY <1>8, <1>9, <2>1, <3>1, <3>2
    <2>4. lines \in Seq(L) /\ Len(lines) = m + 1 /\ lines[m + 1] = line /\ \A i \in 1 .. m : lines[i] = done.lines[i]
      BY <1>9, <2>2, <2>3
    <2>5. ASSUME NEW i \in 1 .. m + 1 PROVE LineIs(text, first, i, lines[i], e[i - 1], e[i])
      <3>1. CASE i = m + 1
        <4>1. i - 1 = m
          BY <3>1
        <4>2. QED
          BY <1>11, <1>13, <2>4, <3>1, <4>1
      <3>2. CASE i # m + 1
        <4>1. i \in 1 .. m /\ i - 1 \in 0 .. m /\ i \in 0 .. m
          BY <3>2
        <4>2. e[i - 1] = o[i - 1] /\ e[i] = o[i] /\ lines[i] = done.lines[i]
          BY <1>13, <2>4, <4>1
        <4>3. QED
          BY <2>2, <4>1, <4>2
      <3>3. QED
        BY <3>1, <3>2
    <2>6. QED
      BY <2>1, <2>4, <2>5 DEF LinesAre
  <1>16. LaidOut(text, first, m + 1, PanicLine(first, done, m), e)
    BY <1>10, <1>13, <1>14, <1>15 DEF LaidOut
  <1>17. QED
    BY <1>16

Unlaid(text) == [rest |-> text, lines |-> <<>>]
LayoutStep(text, first, g, k) == IF k = 0 THEN Unlaid(text) ELSE PanicLine(first, g[k - 1], k - 1)
IsLayout(text, first, n, g) == g = [k \in 0 .. n |-> LayoutStep(text, first, g, k)]

LEMMA LayoutExists ==
  ASSUME NEW text, NEW first, NEW end \in Nat
  PROVE  \E g : IsLayout(text, first, end, g)
  <1> DEFINE Failing == {m \in Nat : ~\E g : IsLayout(text, first, m, g)}
  <1>1. SUFFICES ASSUME Failing # {} PROVE FALSE
    OBVIOUS
  <1>2. PICK m \in Failing : \A l \in Failing : m <= l
    <2>1. Failing \in SUBSET Nat
      OBVIOUS
    <2>2. QED
      BY <1>1, <2>1, Least
  <1>3. CASE m = 0
    <2>1. PICK g : g = [i \in 0 .. 0 |-> Unlaid(text)]
      OBVIOUS
    <2>2. \A i \in 0 .. 0 : LayoutStep(text, first, g, i) = Unlaid(text)
      BY DEF LayoutStep
    <2>3. IsLayout(text, first, 0, g)
      BY <2>1, <2>2 DEF IsLayout
    <2>4. QED
      BY <1>2, <1>3, <2>3
  <1>4. CASE m # 0
    <2>1. PICK l : l = m - 1
      OBVIOUS
    <2>2. l \in Nat /\ m = l + 1 /\ l < m
      BY <1>4, <2>1
    <2>3. l \notin Failing
      BY <1>2, <2>2
    <2>4. PICK g : IsLayout(text, first, l, g)
      BY <2>2, <2>3
    <2>5. PICK h : h = [i \in 0 .. l + 1 |-> IF i <= l THEN g[i] ELSE LayoutStep(text, first, g, i)]
      OBVIOUS
    <2>6. \A i \in 0 .. l : g[i] = LayoutStep(text, first, g, i)
      BY <2>4 DEF IsLayout
    <2>7. ASSUME NEW i \in 0 .. l + 1 PROVE h[i] = LayoutStep(text, first, h, i)
      <3>1. CASE i = 0
        <4>1. LayoutStep(text, first, h, i) = Unlaid(text) /\ LayoutStep(text, first, g, i) = Unlaid(text)
          BY <3>1 DEF LayoutStep
        <4>2. h[i] = g[i] /\ g[i] = LayoutStep(text, first, g, i)
          BY <2>2, <2>5, <2>6, <3>1
        <4>3. QED
          BY <4>1, <4>2
      <3>2. CASE i # 0
        <4>1. i - 1 \in 0 .. l + 1 /\ i - 1 <= l
          BY <2>2, <3>2
        <4>2. h[i - 1] = g[i - 1]
          BY <2>5, <4>1
        <4>3. LayoutStep(text, first, h, i) = LayoutStep(text, first, g, i)
          BY <4>2 DEF LayoutStep
        <4>4. h[i] = LayoutStep(text, first, g, i)
          BY <2>2, <2>5, <2>6
        <4>5. QED
          BY <4>3, <4>4
      <3>3. QED
        BY <3>1, <3>2
    <2>8. IsLayout(text, first, l + 1, h)
      <3>1. h = [i \in 0 .. l + 1 |-> h[i]]
        BY <2>5
      <3>2. QED
        BY <2>7, <3>1 DEF IsLayout
    <2>9. QED
      BY <1>2, <2>2, <2>8
  <1>5. QED
    BY <1>3, <1>4

(* A layout of k lines has k lines, or all of the message.                 *)
Reaches(text, first, k, done) ==
  \E m \in 0 .. k : \E o : LaidOut(text, first, m, done, o) /\ (m = k \/ o[m] = Len(text))

LEMMA LayoutReaches ==
  ASSUME NEW text \in Seq(Marks), NEW first \in Int, NEW end \in Nat, NEW g, IsLayout(text, first, end, g)
  PROVE  Reaches(text, first, end, g[end])
  <1> DEFINE Failing == {k \in Nat : k <= end /\ ~Reaches(text, first, k, g[k])}
  <1>1. SUFFICES ASSUME Failing # {} PROVE FALSE
    OBVIOUS
  <1>2. PICK k \in Failing : \A l \in Failing : k <= l
    <2>1. Failing \in SUBSET Nat
      OBVIOUS
    <2>2. QED
      BY <1>1, <2>1, Least
  <1>3. k \in Nat /\ k <= end /\ ~Reaches(text, first, k, g[k])
    BY <1>2
  <1>4. g[k] = LayoutStep(text, first, g, k)
    BY <1>3 DEF IsLayout
  <1>5. CASE k = 0
    <2>1. g[k] = Unlaid(text)
      BY <1>4, <1>5 DEF LayoutStep
    <2>2. LaidOut(text, first, 0, Unlaid(text), [j \in 0 .. 0 |-> 0])
      BY NothingLaid DEF Unlaid
    <2>3. 0 \in 0 .. 0
      OBVIOUS
    <2>4. QED
      BY <1>3, <1>5, <2>1, <2>2, <2>3 DEF Reaches
  <1>6. CASE k # 0
    <2>1. PICK l : l = k - 1
      OBVIOUS
    <2>2. l \in Nat /\ l + 1 = k /\ l <= end /\ l < k
      BY <1>3, <1>6, <2>1
    <2>3. Reaches(text, first, l, g[l])
      BY <1>2, <2>2
    <2>4. PICK done : done = g[l]
      OBVIOUS
    <2>5. g[k] = PanicLine(first, done, l)
      BY <1>4, <1>6, <2>1, <2>4 DEF LayoutStep
    <2>6. PICK m \in 0 .. l : \E o : LaidOut(text, first, m, done, o) /\ (m = l \/ o[m] = Len(text))
      BY <2>3, <2>4 DEF Reaches
    <2>7. PICK o : LaidOut(text, first, m, done, o) /\ (m = l \/ o[m] = Len(text))
      BY <2>6
    <2>8. m \in Nat /\ m \in 0 .. k
      BY <2>2, <2>6
    <2>9. CASE o[m] = Len(text)
      <3>1. Len(text) \in Nat
        OBVIOUS
      <3>2. done.rest = <<>>
        <4>1. done.rest = RestOf(text, Len(text))
          BY <2>7, <2>9 DEF LaidOut
        <4>2. QED
          BY <3>1, <4>1 DEF RestOf
      <3>3. PanicLine(first, done, l) = done
        BY <3>2 DEF PanicLine
      <3>4. QED
        BY <1>3, <2>5, <2>7, <2>8, <2>9, <3>3 DEF Reaches
    <2>10. CASE o[m] # Len(text)
      <3>1. m = l
        BY <2>7, <2>10
      <3>2. PICK e : LaidOut(text, first, l + 1, PanicLine(first, done, l), e)
        BY <2>2, <2>7, <2>10, <3>1, LineLaid
      <3>3. k \in 0 .. k
        BY <1>3
      <3>4. QED
        BY <1>3, <2>2, <2>5, <3>2, <3>3 DEF Reaches
    <2>11. QED
      BY <2>9, <2>10
  <1>7. QED
    BY <1>5, <1>6

Estimated(text) == EstimatedLines(Len(text))
FirstRow(text) == PanicHeight \div 2 - Estimated(text) \div 2

LEMMA PanicLinesReach ==
  ASSUME NEW text \in Seq(Marks), Len(text) > MaxLineWidth, Estimated(text) \in Nat
  PROVE  \E done : PanicLines(text) = done.lines /\ Reaches(text, FirstRow(text), Estimated(text), done)
  <1>1. PICK n, first : n = Estimated(text) /\ first = FirstRow(text)
    OBVIOUS
  <1>2. first \in Int /\ n \in Nat
    BY <1>1, ConsoleAssumption DEF FirstRow
  <1>3. PICK g : g = CHOOSE h : IsLayout(text, first, n, h)
    OBVIOUS
  <1>4. IsLayout(text, first, n, g)
    BY <1>2, <1>3, LayoutExists, Zenon
  <1>5. ~(Len(text) <= MaxLineWidth)
    BY MaxLineWidthIs
  <1>6. PanicLines(text) = (CHOOSE h : IsLayout(text, first, n, h))[n].lines
    BY <1>1, <1>5, Zenon DEF PanicLines, IsLayout, LayoutStep, Unlaid, FirstRow, Estimated
  <1>7. Reaches(text, first, n, g[n])
    BY <1>2, <1>4, LayoutReaches
  <1>8. QED
    BY <1>1, <1>3, <1>6, <1>7

LEMMA PartsJoin ==
  ASSUME NEW text \in Seq(Marks), NEW c \in Nat, NEW a \in Nat, NEW b \in Nat, c <= a, a <= b, b <= Len(text)
  PROVE  PartOf(text, c, a) \o PartOf(text, a, b) = PartOf(text, c, b)
  <1>1. PICK p, q, w, u : p = PartOf(text, c, a) /\ q = PartOf(text, a, b) /\ w = PartOf(text, c, b) /\ u = p \o q
    OBVIOUS
  <1>2. a <= Len(text) /\ c <= b /\ Len(text) \in Nat
    OBVIOUS
  <1>3. IsPart(p, text, c, a)
    BY <1>1, <1>2, PartIs
  <1>4. IsPart(q, text, a, b)
    BY <1>1, <1>2, PartIs
  <1>5. IsPart(w, text, c, b)
    BY <1>1, <1>2, PartIs
  <1>6. /\ p \in Seq(Marks) /\ Len(p) = a - c /\ q \in Seq(Marks) /\ Len(q) = b - a
        /\ w \in Seq(Marks) /\ Len(w) = b - c
    BY <1>3, <1>4, <1>5 DEF IsPart
  <1>7. u \in Seq(Marks) /\ Len(u) = b - c /\ Len(u) = Len(w)
    BY <1>1, <1>6
  <1>8. ASSUME NEW i \in 1 .. Len(u) PROVE u[i] = w[i]
    <2>1. i \in 1 .. b - c /\ w[i] = text[c + i]
      BY <1>5, <1>7 DEF IsPart
    <2>2. CASE i <= a - c
      <3>1. i \in 1 .. a - c
        BY <1>7, <2>2
      <3>2. u[i] = p[i]
        BY <1>1, <1>6, <2>1, <2>2
      <3>3. p[i] = text[c + i]
        BY <1>3, <3>1 DEF IsPart
      <3>4. QED
        BY <2>1, <3>2, <3>3
    <2>3. CASE i > a - c
      <3>1. PICK j : j = i - (a - c)
        OBVIOUS
      <3>2. j \in 1 .. b - a /\ a + j = c + i
        BY <2>1, <2>3, <3>1
      <3>3. u[i] = q[j]
        <4>1. Len(p) = a - c /\ i > Len(p) /\ i <= Len(p) + Len(q) /\ j = i - Len(p) /\ i \in Nat
          BY <1>6, <2>1, <2>3, <3>1
        <4>2. i \in 1 .. Len(p) + Len(q)
          BY <1>6, <2>1, <4>1
        <4>3. (p \o q)[i] = q[i - Len(p)]
          BY <1>6, <4>1, <4>2, ConcatProperties
        <4>4. QED
          BY <1>1, <4>1, <4>3
      <3>4. q[j] = text[a + j]
        BY <1>4, <3>2 DEF IsPart
      <3>5. QED
        BY <2>1, <3>2, <3>3, <3>4
    <2>4. QED
      BY <2>1, <2>2, <2>3
  <1>9. u = w
    BY <1>6, <1>7, <1>8, SeqEqual
  <1>10. QED
    BY <1>1, <1>9

(* A text in pieces, and what FlattenSeq makes of them.                    *)
Pieces(text, m, o, s) ==
  /\ o \in [0 .. m -> 0 .. Len(text)] /\ o[0] = 0
  /\ DOMAIN s = 1 .. m
  /\ \A i \in 1 .. m : o[i - 1] <= o[i] /\ s[i] = PartOf(text, o[i - 1], o[i])

FlatStep(s, g, i) == IF i = 1 THEN s[i] ELSE g[i - 1] \o s[i]
IsFlat(s, n, g) == g = [i \in 1 .. n |-> FlatStep(s, g, i)]

LEMMA FlattenIs ==
  ASSUME NEW text \in Seq(Marks), NEW m \in Nat, m # 0, NEW o, NEW s \in Seq(Seq(Marks)), Pieces(text, m, o, s)
  PROVE  FlattenSeq(s) = PartOf(text, 0, o[m])
  <1>1. /\ o \in [0 .. m -> 0 .. Len(text)] /\ o[0] = 0 /\ Len(text) \in Nat /\ Len(s) = m
        /\ \A i \in 1 .. m : o[i - 1] <= o[i] /\ s[i] = PartOf(text, o[i - 1], o[i])
    BY DEF Pieces
  <1>2. ASSUME NEW i \in 1 .. m, i # 1
        PROVE  PartOf(text, 0, o[i - 1]) \o s[i] = PartOf(text, 0, o[i])
    <2>1. PICK a, b, c : a = o[i - 1] /\ b = o[i] /\ c = 0
      OBVIOUS
    <2>2. i \in 0 .. m /\ i - 1 \in 0 .. m
      OBVIOUS
    <2>3. a \in Nat /\ b \in Nat /\ c \in Nat /\ c <= a /\ a <= b /\ b <= Len(text)
      BY <1>1, <2>1, <2>2
    <2>4. PartOf(text, c, a) \o PartOf(text, a, b) = PartOf(text, c, b)
      BY <2>3, PartsJoin
    <2>5. QED
      BY <1>1, <2>1, <2>4
  <1>3. ASSUME NEW i \in 1 .. m, i = 1 PROVE s[i] = PartOf(text, 0, o[i])
    BY <1>1, <1>3
  <1>4. PICK f : f = [i \in 1 .. m |-> PartOf(text, 0, o[i])]
    OBVIOUS
  <1>5. IsFlat(s, m, f)
    <2>1. ASSUME NEW i \in 1 .. m PROVE PartOf(text, 0, o[i]) = FlatStep(s, f, i)
      <3>1. CASE i = 1
        BY <1>3, <3>1 DEF FlatStep
      <3>2. CASE i # 1
        <4>1. i - 1 \in 1 .. m
          BY <3>2
        <4>2. f[i - 1] = PartOf(text, 0, o[i - 1])
          BY <1>4, <4>1
        <4>3. QED
          BY <1>2, <3>2, <4>2 DEF FlatStep
      <3>3. QED
        BY <3>1, <3>2
    <2>2. QED
      BY <1>4, <2>1 DEF IsFlat
  <1>6. PICK g : g = CHOOSE h : IsFlat(s, m, h)
    OBVIOUS
  <1>7. IsFlat(s, m, g)
    BY <1>5, <1>6, Zenon
  <1>8. FlattenSeq(s) = (CHOOSE h : IsFlat(s, m, h))[m]
    <2>1. ~(Len(s) = 0)
      BY <1>1
    <2>2. FlattenSeq(s) = (CHOOSE h : IsFlat(s, Len(s), h))[Len(s)]
      BY <2>1, Zenon DEF FlattenSeq, IsFlat, FlatStep
    <2>3. QED
      BY <1>1, <2>2
  <1>9. g[m] = PartOf(text, 0, o[m])
    <2> DEFINE Failing == {i \in Nat : i \in 1 .. m /\ g[i] # PartOf(text, 0, o[i])}
    <2>1. SUFFICES ASSUME Failing # {} PROVE FALSE
      OBVIOUS
    <2>2. PICK i \in Failing : \A l \in Failing : i <= l
      <3>1. Failing \in SUBSET Nat
        OBVIOUS
      <3>2. QED
        BY <2>1, <3>1, Least
    <2>3. i \in 1 .. m /\ g[i] # PartOf(text, 0, o[i])
      BY <2>2
    <2>4. g[i] = FlatStep(s, g, i)
      BY <1>7, <2>3 DEF IsFlat
    <2>5. i # 1
      BY <1>3, <2>3, <2>4 DEF FlatStep
    <2>6. i - 1 \in 1 .. m /\ i - 1 \in Nat /\ i - 1 < i
      BY <2>3, <2>5
    <2>7. g[i - 1] = PartOf(text, 0, o[i - 1])
      BY <2>2, <2>3, <2>6
    <2>8. g[i] = g[i - 1] \o s[i]
      BY <2>4, <2>5 DEF FlatStep
    <2>9. QED
      BY <1>2, <2>3, <2>5, <2>7, <2>8
  <1>10. QED
    BY <1>6, <1>8, <1>9

LEMMA EstimateIs ==
  ASSUME NEW n \in 0 .. MaxMessage, n > MaxLineWidth
  PROVE  /\ EstimatedLines(n) \in Nat /\ EstimatedLines(n) <= PanicHeight - 8
         /\ (n % PanicWidth # 0 \/ n % MaxLineWidth = 0) => EstimatedLines(n) * MaxLineWidth >= n
  <1>1. PICK w, q, r, e, h : w = MaxLineWidth /\ q = n \div w /\ r = n % w /\ e = EstimatedLines(n) /\ h = PanicHeight - 9
    OBVIOUS
  <1>2. w \in Nat \ {0} /\ n \in Nat /\ h \in Nat /\ n <= w * h
    BY <1>1, MaxLineWidthIs, ConsoleAssumption DEF MaxLineWidth
  <1>3. q \in Nat /\ r \in Nat /\ r < w /\ n = q * w + r
    BY <1>1, <1>2, Division
  <1>4. q <= h
    <2>1. h + 1 \in Nat \ {0} /\ w * (h + 1) = w * h + w
      BY <1>2
    <2>2. n < w * (h + 1)
      BY <1>2, <2>1
    <2>3. q < h + 1
      BY <1>1, <1>2, <2>1, <2>2, SmallQuotient
    <2>4. QED
      BY <1>2, <1>3, <2>3
  <1>5. (e = q \/ e = q + 1) /\ (n % PanicWidth # 0 => e = q + 1)
    BY <1>1, <1>3 DEF EstimatedLines
  <1>6. (q + 1) * w = q * w + w
    BY <1>2, <1>3
  <1>7. (n % PanicWidth # 0 \/ r = 0) => e * w >= n
    BY <1>2, <1>3, <1>5, <1>6
  <1>8. e \in Nat /\ e <= PanicHeight - 8
    BY <1>1, <1>2, <1>3, <1>4, <1>5, ConsoleAssumption
  <1>9. QED
    BY <1>1, <1>7, <1>8

LEMMA EstimatePositive ==
  ASSUME NEW n \in 0 .. MaxMessage, n > MaxLineWidth
  PROVE  EstimatedLines(n) # 0
  <1>1. PICK w, q : w = MaxLineWidth /\ q = n \div w
    OBVIOUS
  <1>2. w \in Nat \ {0} /\ n \in Nat
    BY <1>1, MaxLineWidthIs, ConsoleAssumption
  <1>3. q \in Nat /\ n = q * w + (n % w) /\ n % w < w
    BY <1>1, <1>2, Division
  <1>4. q # 0
    <2>1. ASSUME q = 0 PROVE FALSE
      <3>1. q * w = 0
        BY <1>2, <2>1
      <3>2. QED
        BY <1>1, <1>2, <1>3, <3>1
    <2>2. QED
      BY <2>1
  <1>5. QED
    BY <1>1, <1>3, <1>4 DEF EstimatedLines

Together(lines) == FlattenSeq([i \in DOMAIN lines |-> lines[i].text])

(* What a panic shows of a text, and the place of a line.                  *)
Placed(lines, i) ==
  /\ lines[i].row \in 4 .. PanicHeight - 3
  /\ lines[i].row = lines[1].row + i - 1
  /\ Len(lines[i].text) <= MaxLineWidth
  /\ lines[i].col - (PanicWidth - lines[i].col - Len(lines[i].text)) \in {-1, 0}
Unbroken(line) ==
  line[Len(line)] # "space" => \A j \in DOMAIN line : line[j] # "space"
MustFit(text) ==
  \/ Len(text) <= MaxLineWidth
  \/ NoSpaces(text) /\ (Len(text) % PanicWidth # 0 \/ Len(text) % MaxLineWidth = 0)
ShowsText(text, lines) ==
  /\ Together(lines) = SubSeq(text, 1, Len(Together(lines)))
  /\ \A i \in DOMAIN lines : Placed(lines, i)
  /\ \A i \in 1 .. Len(lines) - 1 : Unbroken(lines[i].text)
  /\ MustFit(text) => Together(lines) = text

LEMMA Centred ==
  ASSUME NEW n \in Nat, n <= MaxLineWidth, NEW col, col = (PanicWidth - n) \div 2
  PROVE  col \in Int /\ col - (PanicWidth - col - n) \in {-1, 0}
  BY MaxLineWidthIs

LEMMA OneLine ==
  ASSUME NEW text \in Seq(Marks), Len(text) <= MaxLineWidth
  PROVE  ShowsText(text, PanicLines(text))
  <1>1. PICK n, line, lines : /\ n = Len(text) /\ lines = PanicLines(text)
                           /\ line = [row |-> PanicHeight \div 2, col |-> (PanicWidth - n) \div 2, text |-> text]
    OBVIOUS
  <1>2. n \in Nat /\ lines = <<line>>
    BY <1>1 DEF PanicLines
  <1>3. DOMAIN lines = 1 .. 1 /\ Len(lines) = 1 /\ lines[1] = line /\ line.text = text /\ line.row = PanicHeight \div 2
    BY <1>1, <1>2
  <1>4. PICK zero \in Nat : zero = 0
    OBVIOUS
  <1>5. PICK s, o, one : /\ s = [i \in DOMAIN lines |-> lines[i].text]
                         /\ o = [j \in 0 .. 1 |-> IF j = 0 THEN 0 ELSE n] /\ one = 1
    OBVIOUS
  <1>6. s \in Seq(Seq(Marks)) /\ DOMAIN s = 1 .. one /\ s[1] = text /\ one \in Nat /\ one # 0
    BY <1>3, <1>5
  <1>7. PartOf(text, 0, n) = text
    <2>1. IsPart(PartOf(text, zero, n), text, zero, n)
      BY <1>1, <1>2, <1>4, PartIs
    <2>2. QED
      BY <1>1, <1>2, <1>4, <2>1, SeqEqual DEF IsPart
  <1>8. Pieces(text, one, o, s)
    BY <1>1, <1>2, <1>5, <1>6, <1>7 DEF Pieces
  <1>9. FlattenSeq(s) = PartOf(text, 0, o[one])
    BY <1>6, <1>8, FlattenIs
  <1>10. Together(lines) = text
    BY <1>5, <1>7, <1>9, <1>2 DEF Together
  <1>11. SubSeq(text, 1, Len(text)) = text
    BY <1>7, <1>1 DEF PartOf
  <1>12. Placed(lines, 1)
    <2>1. (PanicHeight \div 2) \in 4 .. PanicHeight - 3
      BY ConsoleAssumption
    <2>2. line.col - (PanicWidth - line.col - n) \in {-1, 0}
      BY <1>1, <1>2, Centred
    <2>3. line.row = line.row + 1 - 1
      BY <1>3, <2>1
    <2>4. QED
      BY <1>1, <1>3, <2>1, <2>2, <2>3 DEF Placed
  <1>13. \A i \in 1 .. Len(lines) - 1 : Unbroken(lines[i].text)
    BY <1>3
  <1>14. QED
    BY <1>1, <1>3, <1>10, <1>11, <1>12, <1>13 DEF ShowsText

LEMMA SeveralLines ==
  ASSUME NEW text \in Seq(Marks), Len(text) > MaxLineWidth, Len(text) \in 0 .. MaxMessage
  PROVE  ShowsText(text, PanicLines(text))
  <1>1. PICK z, w, k, first, lines : /\ z = Len(text) /\ w = MaxLineWidth /\ k = Estimated(text)
                                     /\ first = FirstRow(text) /\ lines = PanicLines(text)
    OBVIOUS
  <1>2. /\ k \in Nat /\ k <= PanicHeight - 8
        /\ (z % PanicWidth # 0 \/ z % w = 0) => k * w >= z
    BY <1>1, EstimateIs DEF Estimated
  <1>3. z \in Nat /\ z > 0 /\ w \in Nat
    BY <1>1, MaxLineWidthIs
  <1>4. PICK done : lines = done.lines /\ Reaches(text, first, k, done)
    BY <1>1, <1>2, PanicLinesReach
  <1>5. PICK m \in 0 .. k : \E o : LaidOut(text, first, m, done, o) /\ (m = k \/ o[m] = Len(text))
    BY <1>4 DEF Reaches
  <1>6. PICK o : LaidOut(text, first, m, done, o) /\ (m = k \/ o[m] = Len(text))
    BY <1>5
  <1>7. /\ o \in [0 .. m -> 0 .. z] /\ o[0] = 0 /\ (NoSpaces(text) => o[m] = z \/ o[m] = m * w)
        /\ lines \in Seq([row : Int, col : Int, text : Seq(Marks)]) /\ Len(lines) = m
        /\ \A i \in 1 .. m : LineIs(text, first, i, lines[i], o[i - 1], o[i])
    BY <1>1, <1>4, <1>6 DEF LaidOut, EndsAre, LinesAre
  <1>8. m \in Nat /\ m <= k
    BY <1>2, <1>5
  <1>9. m # 0
    <2>1. ASSUME m = 0 PROVE FALSE
      <3>1. o[m] # z
        BY <1>3, <1>7, <2>1
      <3>2. k = 0
        BY <1>1, <1>6, <2>1, <3>1
      <3>3. QED
        BY <1>1, <1>3, <3>2, EstimatePositive DEF Estimated
    <2>2. QED
      BY <2>1
  <1>10. ASSUME NEW i \in 1 .. m
         PROVE  /\ o[i - 1] \in Nat /\ o[i] \in Nat /\ o[i - 1] < o[i] /\ o[i] <= z /\ o[i] - o[i - 1] <= w
                /\ lines[i].row = first + i - 1 /\ lines[i].col = (PanicWidth - (o[i] - o[i - 1])) \div 2
                /\ lines[i].text = PartOf(text, o[i - 1], o[i])
                /\ WordsKept(text, o[i - 1], o[i])
    <2>1. i \in 0 .. m /\ i - 1 \in 0 .. m
      BY <1>8
    <2>2. LineIs(text, first, i, lines[i], o[i - 1], o[i])
      BY <1>7
    <2>3. o[i] \in 0 .. z /\ o[i - 1] \in 0 .. z
      BY <1>7, <2>1
    <2>4. QED
      BY <1>1, <1>3, <2>2, <2>3 DEF LineIs
  <1>11. ASSUME NEW i \in 1 .. m PROVE IsPart(lines[i].text, text, o[i - 1], o[i])
    BY <1>1, <1>10, PartIs
  <1>12. DOMAIN lines = 1 .. m
    BY <1>7
  <1>13. PICK s : s = [i \in DOMAIN lines |-> lines[i].text]
    OBVIOUS
  <1>14. s \in Seq(Seq(Marks)) /\ DOMAIN s = 1 .. m
    <2>1. \A i \in 1 .. m : lines[i].text \in Seq(Marks)
      BY <1>11 DEF IsPart
    <2>2. QED
      BY <1>8, <1>12, <1>13, <2>1
  <1>15. Pieces(text, m, o, s)
    <2>1. ASSUME NEW i \in 1 .. m PROVE o[i - 1] <= o[i] /\ s[i] = PartOf(text, o[i - 1], o[i])
      BY <1>10, <1>12, <1>13
    <2>2. QED
      BY <1>1, <1>7, <1>14, <2>1 DEF Pieces
  <1>16. Together(lines) = PartOf(text, 0, o[m])
    BY <1>8, <1>9, <1>13, <1>14, <1>15, FlattenIs DEF Together
  <1>17. PICK end : end = o[m]
    OBVIOUS
  <1>18. end \in 0 .. z /\ end \in Nat
    BY <1>7, <1>8, <1>17
  <1>19. IsPart(PartOf(text, 0, end), text, 0, end)
    <2>1. PICK zero \in Nat : zero = 0
      OBVIOUS
    <2>2. IsPart(PartOf(text, zero, end), text, zero, end)
      BY <1>1, <1>18, <2>1, PartIs
    <2>3. QED
      BY <2>1, <2>2
  <1>20. Together(lines) = SubSeq(text, 1, Len(Together(lines)))
    <2>1. Len(Together(lines)) = end
      BY <1>16, <1>17, <1>18, <1>19 DEF IsPart
    <2>2. PartOf(text, 0, end) = SubSeq(text, 1, end)
      BY DEF PartOf
    <2>3. QED
      BY <1>16, <1>17, <2>1, <2>2
  <1>21. ASSUME NEW i \in DOMAIN lines PROVE Placed(lines, i)
    <2>1. i \in 1 .. m /\ 1 \in 1 .. m
      BY <1>8, <1>12
    <2>2. PICK n : n = o[i] - o[i - 1]
      OBVIOUS
    <2>3. n \in Nat /\ n <= MaxLineWidth /\ lines[i].col = (PanicWidth - n) \div 2
      BY <1>1, <1>10, <2>1, <2>2
    <2>4. Len(lines[i].text) = n
      BY <1>11, <2>1, <2>2 DEF IsPart
    <2>5. lines[i].col - (PanicWidth - lines[i].col - n) \in {-1, 0}
      BY <2>3, Centred
    <2>6. lines[i].row = first + i - 1 /\ lines[1].row = first + 1 - 1
      BY <1>10, <2>1
    <2>7. first = PanicHeight \div 2 - k \div 2 /\ first \in Int
      BY <1>1, <1>2, ConsoleAssumption DEF FirstRow
    <2>8. first + i - 1 \in 4 .. PanicHeight - 3
      BY <1>2, <1>8, <2>1, <2>7, ConsoleAssumption
    <2>9. QED
      BY <2>1, <2>3, <2>4, <2>5, <2>6, <2>7, <2>8 DEF Placed
  <1>22. ASSUME NEW i \in 1 .. Len(lines) - 1 PROVE Unbroken(lines[i].text)
    <2>1. i \in 1 .. m
      BY <1>7, <1>8
    <2>2. PICK a, b, line : a = o[i - 1] /\ b = o[i] /\ line = lines[i].text
      OBVIOUS
    <2>3. a \in Nat /\ b \in Nat /\ a < b /\ WordsKept(text, a, b) /\ IsPart(line, text, a, b)
      BY <1>10, <1>11, <2>1, <2>2
    <2>4. SUFFICES ASSUME line[Len(line)] # "space", NEW j \in DOMAIN line PROVE line[j] # "space"
      BY <2>2 DEF Unbroken
    <2>5. Len(line) = b - a /\ DOMAIN line = 1 .. b - a
      BY <2>3 DEF IsPart
    <2>6. b - a \in 1 .. b - a /\ j \in 1 .. b - a /\ a + (b - a) = b /\ a + j \in a + 1 .. b
      BY <2>3, <2>4, <2>5
    <2>7. line[b - a] = text[b] /\ line[j] = text[a + j]
      BY <2>3, <2>6 DEF IsPart
    <2>8. text[b] # "space"
      BY <2>4, <2>5, <2>7
    <2>9. text[a + j] # "space"
      BY <2>3, <2>6, <2>8 DEF WordsKept
    <2>10. QED
      BY <2>7, <2>9
  <1>23. ASSUME MustFit(text) PROVE Together(lines) = text
    <2>1. NoSpaces(text) /\ (z % PanicWidth # 0 \/ z % w = 0)
      BY <1>1, <1>3, <1>23 DEF MustFit
    <2>2. end = z
      <3>1. k * w >= z
        BY <1>2, <2>1
      <3>2. end = z \/ end = m * w
        BY <1>7, <1>17, <2>1
      <3>3. m = k \/ end = z
        BY <1>1, <1>6, <1>17
      <3>4. QED
        BY <1>2, <1>3, <1>18, <3>1, <3>2, <3>3
    <2>3. IsPart(Together(lines), text, 0, z)
      BY <1>16, <1>17, <1>19, <2>2
    <2>4. QED
      BY <1>1, <1>3, <2>3, SeqEqual DEF IsPart
  <1>24. QED
    BY <1>1, <1>20, <1>21, <1>22, <1>23 DEF ShowsText

(* A panic shows its message in whole words, line below centred line, on   *)
(* the rows between the banner and the last words, and all of it where the *)
(* number of lines is estimated right: for every screen and every message  *)
(* that the screen has room for.                                           *)
THEOREM PanicsAreReadable == Spec => []PanicShowsMessage
  <1>1. Init => message \in Messages
    <2>1. 0 \in 0 .. MaxMessage /\ <<>> \in [1 .. 0 -> {"x", "space"}]
      BY ConsoleAssumption
    <2>2. <<>> \in Messages
      BY <2>1 DEF Messages
    <2>3. QED
      BY <2>2 DEF Init
  <1>2. message \in Messages /\ [Next]_kernelVars => (message \in Messages)'
    BY DEF Next, kernelVars, consoleVars, ConsoleNext, Messages
  <1>3. ASSUME message \in Messages PROVE PanicShowsMessage
    <2>1. PICK n \in 0 .. MaxMessage : message \in [1 .. n -> {"x", "space"}]
      BY <1>3 DEF Messages
    <2>2. message \in Seq(Marks) /\ Len(message) = n /\ DOMAIN message = 1 .. Len(message)
      BY <2>1 DEF Marks
    <2>3. ShowsText(message, PanicLines(message))
      <3>1. CASE Len(message) <= MaxLineWidth
        BY <2>2, <3>1, OneLine
      <3>2. CASE Len(message) > MaxLineWidth
        BY <2>1, <2>2, <3>2, SeveralLines
      <3>3. QED
        BY <2>1, <2>2, <3>1, <3>2, MaxLineWidthIs
    <2>4. ({i \in DOMAIN message : message[i] = "space"} = {}) <=> NoSpaces(message)
      BY <2>2 DEF NoSpaces
    <2>5. QED
      BY <2>3, <2>4 DEF PanicShowsMessage, ShowsText, Placed, Unbroken, MustFit, Together
  <1>4. QED
    BY <1>1, <1>2, <1>3, PTL DEF Spec
=============================================================================
