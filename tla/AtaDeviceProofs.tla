-------------------------- MODULE AtaDeviceProofs ---------------------------
(***************************************************************************)
(* Proofs about the ATA driver: a read that succeeds has filled the        *)
(* client's buffer with the sectors asked for, and no read writes behind   *)
(* it, for every sector size, length of a chunk, disk and delay of the     *)
(* drive.                                                                  *)
(***************************************************************************)
EXTENDS AtaDevice, TLAPS

W == Words(SectorSize)

States == {"absent", "idle", "resetting", "command", "packet", "working", "data", "error"}
Limits == 0 .. LimitModulus - 1

DriveType ==
  [type : Drives, state : States, cmd : {"none", "identify", "packet"}, limit : Limits,
   ready : BOOLEAN, xfer : [from : Nat, left : Nat, block : Nat]]

DriveOK(d) ==
  /\ d \in DriveType
  /\ d.xfer.block <= d.xfer.left
  /\ d.state = "absent" => d.type = "none"

Labels == {"idle", "panic", "reset", "attach", "attachStatus", "signature", "descriptor", "identity",
           "size", "increment", "chunk", "command", "pollReady", "pollData"}

CallFields ==
  [pc : Labels, next : {"idle", "attach", "client", "identify", "capacity", "read"},
   back : {"idle", "size", "increment", "chunk"}, op : {"none", "capacity", "read"},
   addr : Nat, n : 0 .. MaxSectors, off : 0 .. MaxSectors, len : Nat, incr : Nat, limit : Limits,
   ret : {"none", "true", "false"}]

CallOK(c) ==
  /\ c \in CallFields
  /\ c.off = 0 \/ c.off < c.n
  /\ c.n > 0 => c.addr + MaxSectors < LongValues
  /\ c.n = 0 => /\ c.back = "idle" /\ c.next # "read" /\ c.op # "read" /\ c.ret # "true"
                /\ c.pc \notin {"size", "increment", "chunk"}

(* Sectors of the chunk that begins at sector `off' of n.                  *)
Part(n, off) == IF Chunk < n - off THEN Chunk ELSE n - off

(* What the drive does about the command that the driver waits for: one    *)
(* that was sent during a reset was not heard, another one leads to an     *)
(* error or to the transfer of the chunk.                                  *)
Phase(c, d, lt) ==
  /\ c.pc \in {"signature", "command"} => d.state \in {"absent", "idle", "resetting"}
  /\ c.pc = "command" => d.state # "absent"
  /\ c.pc = "pollReady" =>
       /\ d.state \in {"command", "packet", "error"} \/ (lt /\ d.state \in {"idle", "resetting"})
       /\ d.state = "command" => d.cmd = "packet"
       /\ d.state \in {"command", "packet"} => d.limit = c.limit
  /\ c.pc = "pollData" =>
       /\ d.state \in {"working", "data", "error"} \/ (lt /\ d.state = "idle")
       /\ (c.op = "read" /\ d.state \in {"working", "data"}) =>
            /\ d.limit = c.limit
            /\ d.xfer.from = (c.addr + c.off) * W
            /\ d.xfer.left = Part(c.n, c.off) * W
            /\ (d.state = "data" /\ c.limit = SectorSize * Part(c.n, c.off)) => d.xfer.block = d.xfer.left

(* A sector size other than 0 was read from the drive.                     *)
SizeOK(c, id, sz) ==
  /\ id \in BOOLEAN
  /\ sz \in 0 .. 2 * SectorSize
  /\ ~id => sz = 0
  /\ (c.next = "capacity" \/ c.op = "capacity") => id

(* A read that has not asked for the sector size has not begun.            *)
BeforeSize(c, buf) ==
  /\ c.pc = "size" => c.back = "size"
  /\ c.back = "size" =>
       /\ buf = NewBuffer
       /\ c.n > 0 /\ c.off = 0 /\ c.incr = 0 /\ c.len = 0
       /\ c.pc # "chunk" /\ c.next # "read" /\ c.op # "read"

(* A read that knows the sector size.                                      *)
Whole(c) == c.n > 0 /\ c.len = SectorSize * c.n
Over(c) == c.pc \in {"idle", "panic"}

Reading(c) ==
  \/ c.pc \in {"increment", "chunk"}
  \/ c.pc = "descriptor" /\ c.back \in {"increment", "chunk"}
  \/ c.pc \in {"reset", "signature"} /\ c.next = "read"
  \/ c.pc \in {"command", "pollReady", "pollData"} /\ c.op = "read"

Filled(addr, buf, k) == \A i \in BufferWords : i < k * W => buf[i] = addr * W + i
Untouched(buf, k) == \A i \in BufferWords : i >= k * W => buf[i] = Unset

ReadOK(c, d, id, sz, buf, lt) ==
  Whole(c) =>
    /\ Over(c) \/ Reading(c)
    /\ Reading(c) =>
         /\ id /\ sz = SectorSize
         /\ c.off < c.n
         /\ \/ c.incr = W
            \/ c.off = 0 /\ (c.n <= Chunk \/ c.pc = "increment" \/ (c.pc = "descriptor" /\ c.back = "increment"))
         /\ c.pc \in {"reset", "signature", "command", "pollReady", "pollData"} =>
              c.limit = SectorSize * Part(c.n, c.off)
         /\ Untouched(buf, c.off)
         /\ ~lt => Filled(c.addr, buf, c.off)
    /\ Over(c) => Untouched(buf, c.n)
    /\ (c.pc = "idle" /\ c.ret = "true" /\ ~lt) => Filled(c.addr, buf, c.n) /\ d.state = "idle"

Inv ==
  /\ DriveOK(drive)
  /\ CallOK(call)
  /\ kind \in Types \cup {"none"} /\ attached \in BOOLEAN /\ late \in BOOLEAN
  /\ buffer \in [BufferWords -> Int]
  /\ Phase(call, drive, late)
  /\ SizeOK(call, identified, sectorSize)
  /\ BeforeSize(call, buffer)
  /\ ReadOK(call, drive, identified, sectorSize, buffer, late)

-----------------------------------------------------------------------------
(* Arithmetic. *)

LEMMA Constants ==
  /\ W \in Nat /\ W >= 1 /\ SectorSize = 2 * W /\ SectorSize \in Nat
  /\ Words(2 * SectorSize) = SectorSize
  /\ Chunk \in Nat /\ Chunk >= 1
  /\ MaxSectors \in Nat /\ MaxSectors >= 1
  /\ LimitModulus \in Nat /\ LimitModulus >= 1 /\ SectorSize * Chunk < LimitModulus
  /\ ByteValues \in Nat /\ ByteValues >= 2
  /\ LongValues \in Nat /\ SectorSize < LongValues
  /\ AtaSectorSize \in 0 .. 2 * SectorSize
  /\ GarbageSizes \subseteq 0 .. 2 * SectorSize
  /\ CapacitySize \in Nat /\ CapacitySize < LimitModulus
  <1>1. /\ SectorSize \in Nat /\ SectorSize # 0 /\ SectorSize % 2 = 0
        /\ Chunk \in Nat /\ Chunk >= 1
        /\ MaxSectors \in Nat /\ MaxSectors >= 1
        /\ LimitModulus \in Nat /\ LimitModulus >= 1 /\ SectorSize * Chunk < LimitModulus
        /\ ByteValues \in Nat /\ ByteValues >= 2
        /\ SectorSize < LongValues
        /\ AtaSectorSize \in Nat /\ AtaSectorSize <= 2 * SectorSize
        /\ GarbageSizes \subseteq 0 .. 2 * SectorSize
        /\ CapacitySize < LimitModulus
    BY AtaAssumption
  <1>2. W \in Nat /\ W >= 1 /\ SectorSize = 2 * W /\ Words(2 * SectorSize) = SectorSize
    BY <1>1 DEF W, Words
  <1>3. ByteValues * ByteValues \in Nat
    BY <1>1
  <1>4. ByteValues * (ByteValues * ByteValues) \in Nat
    BY <1>1, <1>3
  <1>5. LongValues \in Nat
    BY <1>1, <1>4 DEF LongValues
  <1>6. CapacitySize \in Nat
    BY DEF CapacitySize
  <1>7. QED
    BY <1>1, <1>2, <1>5, <1>6

LEMMA Product ==
  \A a, b \in Nat : a * b \in Nat
  OBVIOUS

LEMMA Cancel ==
  ASSUME NEW a \in Nat, NEW b \in Nat, NEW c \in Nat, c > 0, a * c = b * c
  PROVE  a = b
  OBVIOUS

LEMMA Division ==
  ASSUME NEW n \in Nat, NEW b \in Nat \ {0}
  PROVE  n \div b \in Nat /\ n % b \in 0 .. b - 1 /\ n = (n \div b) * b + (n % b)
  OBVIOUS

LEMMA Digit ==
  ASSUME NEW q \in Nat, NEW b \in Nat \ {0}, NEW r \in 0 .. b - 1
  PROVE  (q * b + r) \div b = q /\ (q * b + r) % b = r
  OBVIOUS

LEMMA Quotient ==
  ASSUME NEW n \in Nat, NEW b \in Nat \ {0}, NEW k \in Nat, n < b * k
  PROVE  n \div b < k
  <1>1. n \div b \in Nat /\ n % b \in Nat /\ n = (n \div b) * b + (n % b)
    BY Division
  <1> DEFINE q == n \div b
  <1> HIDE DEF q
  <1>2. q \in Nat /\ q * b <= n
    <2>1. \A x \in Nat : \A y \in Nat : x * b + y >= x * b
      OBVIOUS
    <2>2. QED
      BY <1>1, <2>1 DEF q
  <1>3. q >= k => q * b >= b * k
    BY <1>2
  <1>4. q * b \in Nat /\ b * k \in Nat
    BY <1>2
  <1>5. q < k
    BY <1>2, <1>3, <1>4
  <1>6. QED
    BY <1>5 DEF q

LEMMA MinOfTwo ==
  ASSUME NEW a \in Int, NEW b \in Int
  PROVE  Min({a, b}) = IF a < b THEN a ELSE b
  <1> DEFINE m == IF a < b THEN a ELSE b
  <1>1. m \in {a, b} /\ \A y \in {a, b} : m <= y
    OBVIOUS
  <1>2. \A x \in {a, b} : (\A y \in {a, b} : x <= y) => x = m
    OBVIOUS
  <1>3. QED
    BY <1>1, <1>2 DEF Min

(* The bytes of a number make it up, and a number has the bytes it was     *)
(* made of.                                                                *)
Byte == 0 .. ByteValues - 1

LEMMA LastByte ==
  ASSUME NEW x \in Nat
  PROVE  /\ x \div ByteValues \in Nat
         /\ x % ByteValues \in Byte /\ x % ByteValues \in Nat
         /\ x = (x \div ByteValues) * ByteValues + (x % ByteValues)
  <1>1. ByteValues \in Nat \ {0}
    BY Constants
  <1>2. /\ x \div ByteValues \in Nat
        /\ x % ByteValues \in 0 .. ByteValues - 1
        /\ x = (x \div ByteValues) * ByteValues + (x % ByteValues)
    BY <1>1, Division, Zenon
  <1>3. \A y \in 0 .. ByteValues - 1 : y \in Nat
    BY <1>1
  <1>4. QED
    BY <1>2, <1>3, Zenon DEF Byte

LEMMA BytesOf ==
  ASSUME NEW x \in Nat
  PROVE  \E a, b, c, d \in Byte : BigEndian(x) = <<a, b, c, d>>
  <1> DEFINE by8 == x \div ByteValues
             by16 == by8 \div ByteValues
             by24 == by16 \div ByteValues
  <1>1. by8 \in Nat /\ x % ByteValues \in Byte
    BY LastByte, Zenon
  <1>2. by16 \in Nat /\ by8 % ByteValues \in Byte
    BY <1>1, LastByte, Zenon
  <1>3. by24 \in Nat /\ by16 % ByteValues \in Byte
    BY <1>2, LastByte, Zenon
  <1>4. by24 % ByteValues \in Byte
    BY <1>3, LastByte, Zenon
  <1>5. BigEndian(x) = <<by24 % ByteValues, by16 % ByteValues, by8 % ByteValues, x % ByteValues>>
    BY DEF BigEndian
  <1>6. QED
    BY <1>1, <1>2, <1>3, <1>4, <1>5

LEMMA NumberIsNat ==
  ASSUME NEW a \in Byte, NEW b \in Byte, NEW c \in Byte, NEW d \in Byte
  PROVE  Number(<<a, b, c, d>>) \in Nat
  <1> DEFINE x == a * ByteValues + b
             y == x * ByteValues + c
  <1>1. ByteValues \in Nat /\ Byte \subseteq Nat
    BY Constants DEF Byte
  <1>2. x \in Nat
    BY <1>1
  <1>3. y \in Nat
    <2> HIDE DEF x
    <2> QED
      BY <1>1, <1>2
  <1>4. y * ByteValues + d \in Nat
    <2> HIDE DEF y
    <2> QED
      BY <1>1, <1>3
  <1>5. QED
    BY <1>4 DEF Number

LEMMA NumberReadsBack ==
  ASSUME NEW x \in Nat, x < LongValues
  PROVE  Number(BigEndian(x)) = x
  <1> DEFINE by8 == x \div ByteValues
             by16 == by8 \div ByteValues
             by24 == by16 \div ByteValues
  <1>0. ByteValues \in Nat \ {0} /\ ByteValues * ByteValues \in Nat
          /\ ByteValues * (ByteValues * ByteValues) \in Nat
    <2>1. ByteValues \in Nat \ {0}
      BY Constants
    <2>2. ByteValues * ByteValues \in Nat
      BY <2>1, Product
    <2>3. QED
      BY <2>1, <2>2, Product
  <1>1. by8 \in Nat /\ x % ByteValues \in Nat /\ x = by8 * ByteValues + (x % ByteValues)
          /\ by8 < ByteValues * (ByteValues * ByteValues)
    BY <1>0, LastByte, Quotient, Zenon DEF LongValues
  <1>2. by16 \in Nat /\ by8 % ByteValues \in Nat /\ by8 = by16 * ByteValues + (by8 % ByteValues)
          /\ by16 < ByteValues * ByteValues
    <2> HIDE DEF by8
    <2> QED
      BY <1>0, <1>1, LastByte, Quotient, Zenon
  <1>3. by24 \in Nat /\ by16 % ByteValues \in Nat /\ by16 = by24 * ByteValues + (by16 % ByteValues)
          /\ by24 < ByteValues
    <2> HIDE DEF by8, by16
    <2> QED
      BY <1>0, <1>2, LastByte, Quotient, Zenon
  <1>4. by24 % ByteValues = by24
    <2> HIDE DEF by8, by16, by24
    <2> QED
      BY <1>0, <1>3
  <1>5. BigEndian(x) = <<by24, by16 % ByteValues, by8 % ByteValues, x % ByteValues>>
    BY <1>4 DEF BigEndian
  <1>6. Number(BigEndian(x)) =
          ((by24 * ByteValues + (by16 % ByteValues)) * ByteValues + (by8 % ByteValues)) * ByteValues
            + (x % ByteValues)
    <2> HIDE DEF by8, by16, by24
    <2> QED
      BY <1>5 DEF Number
  <1>7. QED
    <2> HIDE DEF by8, by16, by24
    <2> QED
      BY <1>1, <1>2, <1>3, <1>6

LEMMA NumberHasItsBytes ==
  ASSUME NEW a \in Byte, NEW b \in Byte, NEW c \in Byte, NEW d \in Byte
  PROVE  BigEndian(Number(<<a, b, c, d>>)) = <<a, b, c, d>>
  <1> DEFINE x3 == a * ByteValues + b
             x2 == x3 * ByteValues + c
             x1 == x2 * ByteValues + d
  <1>0. ByteValues \in Nat \ {0} /\ Byte = 0 .. ByteValues - 1
    BY Constants DEF Byte
  <1>1. x3 \in Nat /\ x3 \div ByteValues = a /\ x3 % ByteValues = b
    BY <1>0, Digit
  <1>2. x2 \in Nat /\ x2 \div ByteValues = x3 /\ x2 % ByteValues = c
    <2> HIDE DEF x3
    <2> QED
      BY <1>0, <1>1, Digit
  <1>3. x1 \div ByteValues = x2 /\ x1 % ByteValues = d
    <2> HIDE DEF x2
    <2> QED
      BY <1>0, <1>2, Digit
  <1>4. a % ByteValues = a
    BY <1>0
  <1>5. Number(<<a, b, c, d>>) = x1
    BY DEF Number
  <1>6. QED
    <2> HIDE DEF x1, x2, x3
    <2> QED
      BY <1>1, <1>2, <1>3, <1>4, <1>5 DEF BigEndian

(* The sector size that the drive sends is the one the driver takes.       *)
LEMMA CapacityReadsBack ==
  readAtapiCapacity(BigEndian(SectorSize)) = SectorSize
  <1>1. SectorSize \in Nat /\ SectorSize < LongValues
    BY Constants
  <1>2. PICK a \in Byte, b \in Byte, c \in Byte, d \in Byte :
          BigEndian(SectorSize) = <<a, b, c, d>>
    BY <1>1, BytesOf
  <1>3. Number(<<a, b, c, d>>) = SectorSize
    BY <1>1, <1>2, NumberReadsBack
  <1>4. BigEndian(Number(<<d, c, b, a>>)) = <<d, c, b, a>>
    BY NumberHasItsBytes
  <1>5. Swapped(<<a, b, c, d>>) = <<d, c, b, a>> /\ Swapped(<<d, c, b, a>>) = <<a, b, c, d>>
    BY DEF Swapped
  <1>6. QED
    BY <1>2, <1>3, <1>4, <1>5 DEF readAtapiCapacity, endianSwap, LoadedWord

(* What the drive makes of the packet of a read.                           *)
LEMMA PacketIsUnderstood ==
  ASSUME NEW lba \in Nat, NEW length \in Nat, lba < LongValues, length < LongValues
  PROVE  Requested(read12Command(lba, length)) = [from |-> lba * W, left |-> length * W, block |-> 0]
  <1>1. PICK a \in Byte, b \in Byte, c \in Byte, d \in Byte : BigEndian(lba) = <<a, b, c, d>>
    BY BytesOf
  <1>2. PICK e \in Byte, f \in Byte, g \in Byte, h \in Byte : BigEndian(length) = <<e, f, g, h>>
    BY BytesOf
  <1>3. read12Command(lba, length) = <<"READ(12)", 0, a, b, c, d, e, f, g, h, 0, 0>>
    BY <1>1, <1>2 DEF read12Command
  <1>4. Requested(read12Command(lba, length)) =
          [from |-> Number(<<a, b, c, d>>) * W, left |-> Number(<<e, f, g, h>>) * W, block |-> 0]
    BY <1>3 DEF Requested, W
  <1>5. QED
    BY <1>1, <1>2, <1>4, NumberReadsBack

LEMMA CapacityPacket ==
  Requested(readCapacityCommand) = [from |-> 0, left |-> 4, block |-> 0]
  BY DEF Requested, readCapacityCommand, Words, CapacitySize

-----------------------------------------------------------------------------
(* The initial state, and the steps of the drive. *)

LEMMA IdleCall ==
  /\ NoCall \in CallFields /\ CallOK(NoCall) /\ ~Whole(NoCall)
  /\ NoCall.pc = "idle" /\ NoCall.next = "idle" /\ NoCall.back = "idle" /\ NoCall.op = "none"
  /\ NoCall.n = 0 /\ NoCall.off = 0 /\ NoCall.len = 0 /\ NoCall.incr = 0 /\ NoCall.ret = "none"
  <1>1. 0 \in Limits /\ 0 \in 0 .. MaxSectors
    BY Constants DEF Limits
  <1>2. QED
    BY <1>1 DEF NoCall, CallFields, CallOK, Whole, Labels

LEMMA InitInv == AtaInit => Inv
  <1> SUFFICES ASSUME AtaInit PROVE Inv
    OBVIOUS
  <1>1. DriveOK(drive)
    <2>1. 0 \in Limits
      BY Constants DEF Limits
    <2>2. QED
      BY <2>1 DEF AtaInit, DriveOK, DriveType, States, NoTransfer
  <1>2. call = NoCall /\ CallOK(call) /\ ~Whole(call)
    BY IdleCall DEF AtaInit
  <1>3. buffer \in [BufferWords -> Int]
    BY DEF AtaInit, NewBuffer, Unset
  <1>4. attached \in BOOLEAN /\ late \in BOOLEAN /\ identified \in BOOLEAN
    BY Zenon DEF AtaInit
  <1>5. Phase(call, drive, late) /\ BeforeSize(call, buffer)
    BY <1>2 DEF Phase, BeforeSize, NoCall
  <1>6. SizeOK(call, identified, sectorSize)
    <2>1. sectorSize \in 0 .. 2 * SectorSize /\ sectorSize = 0
      BY Constants DEF AtaInit
    <2>2. QED
      BY <1>2, <1>4, <2>1 DEF SizeOK, NoCall
  <1>7. QED
    BY <1>1, <1>2, <1>3, <1>4, <1>5, <1>6 DEF Inv, ReadOK, AtaInit, Types


LEMMA FailOK ==
  ASSUME Inv
  PROVE  DriveOK(Fail)
  <1>1. DriveOK(drive)
    BY DEF Inv
  <1>2. NoTransfer \in [from : Nat, left : Nat, block : Nat] /\ NoTransfer.block <= NoTransfer.left
    BY DEF NoTransfer
  <1>3. QED
    BY <1>1, <1>2 DEF Fail, DriveOK, DriveType, States

LEMMA DriveInv ==
  ASSUME Inv, DriveStep
  PROVE  Inv'
  <1>1. DriveOK(drive) /\ CallOK(call) /\ Phase(call, drive, late)
    BY DEF Inv
  <1>2. UNCHANGED <<attached, kind, identified, sectorSize, buffer, late, call>>
    BY DEF DriveStep
  <1>3. SUFFICES /\ DriveOK(drive') /\ Phase(call, drive', late)
                 /\ drive.state # "idle"
    <2>1. SizeOK(call, identified, sectorSize)' /\ BeforeSize(call, buffer)'
      BY <1>2 DEF Inv
    <2>2. ReadOK(call, drive, identified, sectorSize, buffer, late)'
      BY <1>2, <1>3 DEF Inv, ReadOK
    <2>3. QED
      BY <1>2, <1>3, <2>1, <2>2 DEF Inv
  <1>4. CASE ResetDone
    <2>1. PICK r \in BOOLEAN : drive' = [drive EXCEPT !.state = "idle", !.ready = r]
      BY <1>4 DEF ResetDone
    <2>2. drive.state = "resetting"
      BY <1>4 DEF ResetDone
    <2>3. DriveOK(drive')
      BY <1>1, <2>1 DEF DriveOK, DriveType, States
    <2>4. Phase(call, drive', late)
      BY <1>1, <2>1, <2>2 DEF DriveOK, DriveType, Phase
    <2>5. QED
      BY <2>2, <2>3, <2>4
  <1>5. CASE CommandDone
    <2>2. drive.state = "command"
      BY <1>5 DEF CommandDone
    <2>3. DriveOK(drive')
      <3>1. CASE drive' = [drive EXCEPT !.state = "packet", !.ready = TRUE]
        BY <1>1, <3>1 DEF DriveOK, DriveType, States
      <3>2. CASE drive' = Announce(0)
        <4>1. drive.xfer.left \in Nat /\ 0 <= drive.xfer.left
          BY <1>1 DEF DriveOK, DriveType
        <4>2. QED
          BY <1>1, <3>2, <4>1 DEF Announce, DriveOK, DriveType, States
      <3>3. QED
        BY <1>5, <3>1, <3>2, FailOK DEF CommandDone
    <2>4. Phase(call, drive', late)
      BY <1>1, <1>5, <2>2 DEF CommandDone, Announce, Fail, NoTransfer, DriveOK, DriveType, Phase
    <2>5. QED
      BY <2>2, <2>3, <2>4
  <1>6. CASE PacketDone
    <2> DEFINE left == drive.xfer.left
               fit == IF drive.limit = 0 THEN left ELSE Min({Words(drive.limit), left})
    <2>1. drive.state = "working" /\ (drive' = Announce(fit) \/ drive' = Fail)
      BY <1>6 DEF PacketDone
    <2>2. left \in Nat /\ drive.limit \in Nat /\ Words(drive.limit) \in Nat
      BY <1>1, Constants DEF DriveOK, DriveType, Limits, Words
    <2>3. fit = IF drive.limit = 0 \/ ~(Words(drive.limit) < left) THEN left ELSE Words(drive.limit)
      BY <2>2, MinOfTwo
    <2>4. fit \in Nat /\ fit <= left
      BY <2>2, <2>3
    <2>5. ASSUME NEW m \in Nat, drive.limit = SectorSize * m, left = m * W
          PROVE  fit = left
      <3>1. drive.limit = 2 * (m * W) /\ m * W \in Nat
        BY <2>5, Constants
      <3>2. Words(drive.limit) = m * W
        BY <3>1 DEF Words
      <3>3. QED
        BY <2>2, <2>3, <2>5, <3>2
    <2> HIDE DEF fit
    <2>6. CASE drive' = Announce(fit)
      <3>1. DriveOK(drive')
        BY <1>1, <2>4, <2>6 DEF Announce, DriveOK, DriveType, States
      <3>2. Part(call.n, call.off) \in Nat
        BY <1>1, Constants DEF CallOK, CallFields, Part
      <3>3. /\ drive'.state = "data" /\ drive'.limit = drive.limit
            /\ drive'.xfer.from = drive.xfer.from /\ drive'.xfer.left = left
            /\ drive'.xfer.block = fit
        BY <1>1, <2>6 DEF Announce, DriveOK, DriveType
      <3>4. Phase(call, drive', late)
        BY <1>1, <2>1, <2>5, <3>2, <3>3 DEF Phase
      <3>5. QED
        BY <2>1, <3>1, <3>4
    <2>7. CASE drive' = Fail
      <3>1. DriveOK(drive')
        BY <2>7, FailOK
      <3>2. Phase(call, drive', late)
        BY <1>1, <2>1, <2>7 DEF Fail, NoTransfer, DriveOK, DriveType, Phase
      <3>3. QED
        BY <2>1, <3>1, <3>2
    <2>8. QED
      BY <2>1, <2>6, <2>7
  <1>7. QED
    BY <1>4, <1>5, <1>6 DEF DriveStep

-----------------------------------------------------------------------------
(* The steps of the driver. *)

LEMMA ResetInv ==
  ASSUME Inv, SoftReset
  PROVE  Inv'
  <1>1. /\ DriveOK(drive) /\ CallOK(call) /\ SizeOK(call, identified, sectorSize)
        /\ BeforeSize(call, buffer) /\ ReadOK(call, drive, identified, sectorSize, buffer, late)
    BY DEF Inv
  <1>2. /\ call.pc = "reset"
        /\ UNCHANGED <<attached, kind, identified, sectorSize, buffer, late>>
    BY DEF SoftReset, client, descriptor
  <1>3. PICK l \in {"attach", "signature"} :
          /\ call' = [call EXCEPT !.pc = l]
          /\ l = "attach" <=> call.next = "attach"
    BY DEF SoftReset, Goto
  <1>4. DriveOK(drive') /\ drive'.state \in {"absent", "resetting"}
    <2>1. NoTransfer \in [from : Nat, left : Nat, block : Nat] /\ NoTransfer.block <= NoTransfer.left
      BY DEF NoTransfer
    <2>2. QED
      BY <1>1, <2>1 DEF SoftReset, DriveOK, DriveType, States
  <1>5. CallOK(call')
    BY <1>1, <1>2, <1>3 DEF CallOK, CallFields, Labels
  <1>6. Phase(call', drive', late)
    BY <1>1, <1>3, <1>4 DEF Phase, CallOK, CallFields
  <1>7. SizeOK(call', identified, sectorSize) /\ BeforeSize(call', buffer)
    BY <1>1, <1>2, <1>3 DEF SizeOK, BeforeSize, CallOK, CallFields
  <1>8. ReadOK(call', drive', identified, sectorSize, buffer, late)
    BY <1>1, <1>2, <1>3 DEF ReadOK, Whole, Over, Reading, CallOK, CallFields
  <1>9. QED
    BY <1>2, <1>4, <1>5, <1>6, <1>7, <1>8 DEF Inv

LEMMA CommandedOK ==
  ASSUME Inv, NEW cmd \in {"identify", "packet"}, NEW limit \in Limits
  PROVE  DriveOK(Commanded(cmd, limit))
  <1>1. DriveOK(drive)
    BY DEF Inv
  <1>2. QED
    BY <1>1 DEF Commanded, DriveOK, DriveType, States

(* isAttached, type and the getters begin.                                 *)
LEMMA StartInv ==
  ASSUME Inv, CallIsAttached \/ CallType \/ CallDescriptor
  PROVE  Inv'
  <1>1. DriveOK(drive) /\ SizeOK(call, identified, sectorSize)
    BY DEF Inv
  <1>2. /\ late' = FALSE
        /\ UNCHANGED <<drive, attached, kind, identified, sectorSize, buffer>>
    BY DEF CallIsAttached, CallType, CallDescriptor, client, descriptor
  <1>3. \/ \E x \in {"attach", "client"} : call' = [NoCall EXCEPT !.pc = "reset", !.next = x]
        \/ call' = [NoCall EXCEPT !.pc = "descriptor", !.back = "idle"]
    BY DEF CallIsAttached, CallType, CallDescriptor
  <1>4. /\ CallOK(call') /\ ~Whole(call')
        /\ call'.pc \in {"reset", "descriptor"} /\ call'.next \in {"idle", "attach", "client"}
        /\ call'.back = "idle" /\ call'.op = "none"
    <2>1. CASE call' = [NoCall EXCEPT !.pc = "descriptor", !.back = "idle"]
      BY <2>1, IdleCall DEF CallOK, CallFields, Labels, Whole
    <2>2. ASSUME NEW x \in {"attach", "client"}, call' = [NoCall EXCEPT !.pc = "reset", !.next = x]
          PROVE  /\ CallOK(call') /\ ~Whole(call') /\ call'.pc = "reset"
                 /\ call'.next \in {"attach", "client"} /\ call'.back = "idle" /\ call'.op = "none"
      BY <2>2, IdleCall DEF CallOK, CallFields, Labels, Whole
    <2>3. QED
      BY <1>3, <2>1, <2>2
  <1>5. Phase(call', drive', late') /\ BeforeSize(call', buffer')
    BY <1>4 DEF Phase, BeforeSize
  <1>6. SizeOK(call', identified', sectorSize')
    BY <1>1, <1>2, <1>4 DEF SizeOK
  <1>7. ReadOK(call', drive', identified', sectorSize', buffer', late')
    BY <1>4 DEF ReadOK
  <1>8. late' \in BOOLEAN
    BY <1>2, Zenon
  <1>9. QED
    BY <1>1, <1>2, <1>4, <1>5, <1>6, <1>7, <1>8 DEF Inv

(* A step of a call that is not a read whose sector size is known, and     *)
(* that leads to one of a few labels.                                      *)
LEMMA PassingInv ==
  ASSUME Inv, ~Over(call), ~Reading(call),
         UNCHANGED <<identified, sectorSize, buffer, late>>,
         NEW l \in {"idle", "size", "increment", "chunk", "attachStatus", "identity"},
         call' = [call EXCEPT !.pc = l],
         l \in {"size", "increment", "chunk"} => call.back = l,
         DriveOK(drive'), kind' \in Types \cup {"none"}, attached' \in BOOLEAN
  PROVE  Inv'
  <1>1. /\ CallOK(call) /\ SizeOK(call, identified, sectorSize)
        /\ BeforeSize(call, buffer) /\ ReadOK(call, drive, identified, sectorSize, buffer, late)
    BY DEF Inv
  <1>2. ~Whole(call)
    BY <1>1 DEF ReadOK
  <1>3. CallOK(call')
    BY <1>1 DEF CallOK, CallFields, Labels
  <1>4. Phase(call', drive', late)
    BY <1>1 DEF Phase, CallOK, CallFields
  <1>5. SizeOK(call', identified, sectorSize) /\ BeforeSize(call', buffer)
    BY <1>1 DEF SizeOK, BeforeSize, CallOK, CallFields
  <1>6. ReadOK(call', drive', identified, sectorSize, buffer, late)
    BY <1>1, <1>2 DEF ReadOK, Whole, CallOK, CallFields
  <1>7. QED
    BY <1>3, <1>4, <1>5, <1>6 DEF Inv

LEMMA AttachInv ==
  ASSUME Inv, SendAttachIdentify \/ AttachStatus \/ TypeReturns
  PROVE  Inv'
  <1>1. DriveOK(drive) /\ kind \in Types \cup {"none"} /\ attached \in BOOLEAN
    BY DEF Inv
  <1>2. UNCHANGED <<identified, sectorSize, buffer, late>>
    BY DEF SendAttachIdentify, AttachStatus, TypeReturns, client, descriptor
  <1>3. ~Over(call) /\ ~Reading(call)
    BY DEF SendAttachIdentify, AttachStatus, TypeReturns, Over, Reading
  <1>4. PICK l \in {"idle", "attachStatus"} : call' = [call EXCEPT !.pc = l]
    BY DEF SendAttachIdentify, AttachStatus, TypeReturns, Goto
  <1>5. DriveOK(drive')
    <2>1. 0 \in Limits
      BY Constants DEF Limits
    <2>2. QED
      BY <1>1, <2>1, CommandedOK DEF SendAttachIdentify, AttachStatus, TypeReturns
  <1>6. kind' \in Types \cup {"none"}
    <2>1. Signature \subseteq Types \cup {"none"}
      BY <1>1, AtaAssumption DEF Signature, DriveOK, DriveType, Types
    <2>2. QED
      BY <1>1, <2>1 DEF SendAttachIdentify, AttachStatus, TypeReturns, client
  <1>7. attached' \in BOOLEAN
    BY <1>1, Zenon DEF SendAttachIdentify, AttachStatus, TypeReturns, client
  <1>8. QED
    BY <1>2, <1>3, <1>4, <1>5, <1>6, <1>7, PassingInv

(* descriptor() finds the sector size there, or begins to identify.        *)
LEMMA DescriptorInv ==
  ASSUME Inv, Descriptor
  PROVE  Inv'
  <1>1. /\ DriveOK(drive) /\ CallOK(call) /\ SizeOK(call, identified, sectorSize)
        /\ BeforeSize(call, buffer) /\ ReadOK(call, drive, identified, sectorSize, buffer, late)
    BY DEF Inv
  <1>2. /\ call.pc = "descriptor"
        /\ UNCHANGED <<drive, attached, kind, identified, sectorSize, buffer, late>>
    BY DEF Descriptor, client, descriptor
  <1>3. \/ identified /\ call' = [call EXCEPT !.pc = call.back]
        \/ ~identified /\ call' = [call EXCEPT !.pc = "reset", !.next = "identify"]
    BY DEF Descriptor
  <1>4. CallOK(call')
    <2>1. CASE call' = [call EXCEPT !.pc = call.back]
      BY <1>1, <1>2, <2>1 DEF CallOK, CallFields, Labels
    <2>2. CASE call' = [call EXCEPT !.pc = "reset", !.next = "identify"]
      BY <1>1, <1>2, <2>2 DEF CallOK, CallFields, Labels
    <2>3. QED
      BY <1>3, <2>1, <2>2
  <1>5. Phase(call', drive, late)
    BY <1>1, <1>2, <1>3 DEF Phase, CallOK, CallFields
  <1>6. SizeOK(call', identified, sectorSize) /\ BeforeSize(call', buffer)
    BY <1>1, <1>2, <1>3 DEF SizeOK, BeforeSize, CallOK, CallFields
  <1>7. ReadOK(call', drive, identified, sectorSize, buffer, late)
    BY <1>1, <1>2, <1>3 DEF ReadOK, Whole, Over, Reading, CallOK, CallFields
  <1>8. QED
    BY <1>2, <1>4, <1>5, <1>6, <1>7 DEF Inv

LEMMA IdentifyTypeInv ==
  ASSUME Inv, IdentifyType
  PROVE  Inv'
  <1>1. DriveOK(drive) /\ CallOK(call)
    BY DEF Inv
  <1>2. UNCHANGED <<attached, kind, identified, sectorSize, buffer, late>>
    BY DEF IdentifyType, client, descriptor
  <1>3. ~Over(call) /\ ~Reading(call)
    BY DEF IdentifyType, Over, Reading
  <1>4. PICK l \in {call.back, "identity"} : call' = [call EXCEPT !.pc = l]
    BY DEF IdentifyType, Goto
  <1>5. DriveOK(drive')
    <2>1. 0 \in Limits
      BY Constants DEF Limits
    <2>2. QED
      BY <1>1, <2>1, CommandedOK DEF IdentifyType
  <1>6. kind' \in Types \cup {"none"} /\ attached' \in BOOLEAN
    BY <1>2 DEF Inv
  <1>7. /\ l \in {"idle", "size", "increment", "chunk", "attachStatus", "identity"}
        /\ l \in {"size", "increment", "chunk"} => call.back = l
    BY <1>1, <1>4 DEF CallOK, CallFields
  <1>8. QED
    BY <1>2, <1>3, <1>4, <1>5, <1>6, <1>7, PassingInv

LEMMA ReadIdentityInv ==
  ASSUME Inv, ReadIdentity
  PROVE  Inv'
  <1>1. /\ DriveOK(drive) /\ CallOK(call) /\ SizeOK(call, identified, sectorSize)
        /\ BeforeSize(call, buffer) /\ ReadOK(call, drive, identified, sectorSize, buffer, late)
    BY DEF Inv
  <1>2. /\ call.pc = "identity"
        /\ UNCHANGED <<drive, attached, kind, buffer, late>>
        /\ identified' = TRUE
        /\ call' = [call EXCEPT !.pc = "reset", !.next = "capacity"]
    BY DEF ReadIdentity, client
  <1>3. sectorSize' \in 0 .. 2 * SectorSize
    BY <1>1, Constants DEF ReadIdentity, IdentitySizes, SizeOK
  <1>4. CallOK(call')
    BY <1>1, <1>2 DEF CallOK, CallFields, Labels
  <1>5. Phase(call', drive, late)
    BY <1>1, <1>2 DEF Phase, CallOK, CallFields
  <1>6. SizeOK(call', identified', sectorSize') /\ BeforeSize(call', buffer)
    <2>1. identified' \in BOOLEAN /\ identified'
      BY <1>2, Zenon
    <2>2. QED
      BY <1>1, <1>2, <1>3, <2>1 DEF SizeOK, BeforeSize, CallOK, CallFields
  <1>7. ~Whole(call')
    BY <1>1, <1>2 DEF ReadOK, Whole, Over, Reading, CallOK, CallFields
  <1>8. QED
    BY <1>2, <1>4, <1>5, <1>6, <1>7 DEF Inv, ReadOK

LEMMA CapacityTypeInv ==
  ASSUME Inv, CapacityType
  PROVE  Inv'
  <1>1. /\ DriveOK(drive) /\ CallOK(call) /\ SizeOK(call, identified, sectorSize)
        /\ BeforeSize(call, buffer) /\ ReadOK(call, drive, identified, sectorSize, buffer, late)
        /\ Phase(call, drive, late)
    BY DEF Inv
  <1>2. /\ call.pc = "signature" /\ call.next = "capacity"
        /\ UNCHANGED <<drive, attached, kind, identified, sectorSize, buffer, late>>
    BY DEF CapacityType, client, descriptor
  <1>3. \/ /\ drive.type = "PATAPI"
           /\ call' = [call EXCEPT !.pc = "command", !.op = "capacity", !.limit = CapacitySize]
        \/ call' = [call EXCEPT !.pc = call.back]
    BY DEF CapacityType, Signature
  <1>4. CapacitySize \in Limits
    BY Constants DEF Limits
  <1>5. CallOK(call')
    <2>1. CASE call' = [call EXCEPT !.pc = "command", !.op = "capacity", !.limit = CapacitySize]
      BY <1>1, <1>2, <1>4, <2>1 DEF CallOK, CallFields, Labels
    <2>2. CASE call' = [call EXCEPT !.pc = call.back]
      BY <1>1, <1>2, <2>2 DEF CallOK, CallFields, Labels
    <2>3. QED
      BY <1>3, <2>1, <2>2
  <1>6. Phase(call', drive, late)
    BY <1>1, <1>2, <1>3 DEF Phase, CallOK, CallFields, DriveOK
  <1>7. SizeOK(call', identified, sectorSize) /\ BeforeSize(call', buffer)
    BY <1>1, <1>2, <1>3 DEF SizeOK, BeforeSize, CallOK, CallFields
  <1>8. ~Whole(call')
    BY <1>1, <1>2, <1>3 DEF ReadOK, Whole, Over, Reading, CallOK, CallFields
  <1>9. QED
    BY <1>2, <1>5, <1>6, <1>7, <1>8 DEF Inv, ReadOK

-----------------------------------------------------------------------------
(* A read, to its packet. *)

LEMMA NothingRead ==
  ASSUME NEW addr
  PROVE  NewBuffer \in [BufferWords -> Int] /\ Untouched(NewBuffer, 0) /\ Filled(addr, NewBuffer, 0)
  <1>1. 0 * W = 0 /\ \A i \in BufferWords : i \in Nat
    BY Constants DEF BufferWords
  <1>2. QED
    BY <1>1 DEF NewBuffer, Unset, Untouched, Filled

LEMMA UntouchedBehind ==
  ASSUME NEW buf, NEW k \in Nat, NEW m \in Nat, k <= m, Untouched(buf, k)
  PROVE  Untouched(buf, m)
  <1>1. k * W \in Nat /\ m * W \in Nat /\ k * W <= m * W
    BY Constants
  <1>2. \A i \in BufferWords : i \in Int
    BY DEF BufferWords
  <1>3. QED
    BY <1>1, <1>2 DEF Untouched

LEMMA Positive ==
  ASSUME NEW n \in Nat, n > 0
  PROVE  SectorSize * n > 0
  BY Constants

LEMMA CallReadInv ==
  ASSUME Inv, NEW addr \in Addresses, NEW n \in 0 .. MaxSectors, CallRead(addr, n)
  PROVE  Inv'
  <1>1. DriveOK(drive) /\ SizeOK(call, identified, sectorSize)
    BY DEF Inv
  <1>2. /\ late' = FALSE /\ buffer' = NewBuffer
        /\ UNCHANGED <<drive, attached, kind, identified, sectorSize>>
    BY DEF CallRead, client, descriptor
  <1>3. n \in Nat /\ addr \in Nat /\ addr + MaxSectors < LongValues
    BY AtaAssumption, Constants
  <1>4. late' \in BOOLEAN
    BY <1>2, Zenon
  <1>5. CASE n = 0
    <2>1. call' = [NoCall EXCEPT !.ret = "false"]
      BY <1>5 DEF CallRead
    <2>2. CallOK(call') /\ ~Whole(call') /\ call'.pc = "idle" /\ call'.back = "idle"
            /\ call'.next = "idle" /\ call'.op = "none"
      BY <2>1, IdleCall DEF CallOK, CallFields, Whole
    <2>3. Phase(call', drive', late') /\ BeforeSize(call', buffer')
      BY <2>2 DEF Phase, BeforeSize
    <2>4. SizeOK(call', identified', sectorSize')
      BY <1>1, <1>2, <2>2 DEF SizeOK
    <2>5. QED
      BY <1>1, <1>2, <1>4, <2>2, <2>3, <2>4, NothingRead DEF Inv, ReadOK
  <1>6. CASE n # 0
    <2>1. call' = [NoCall EXCEPT !.pc = "descriptor", !.back = "size", !.addr = addr, !.n = n]
      BY <1>6 DEF CallRead
    <2>2. /\ call'.pc = "descriptor" /\ call'.back = "size" /\ call'.next = "idle"
          /\ call'.op = "none" /\ call'.addr = addr /\ call'.n = n /\ call'.off = 0
          /\ call'.len = 0 /\ call'.incr = 0
      BY <2>1, IdleCall DEF CallFields
    <2>3. call' \in CallFields
      BY <1>3, <2>1, IdleCall DEF CallFields, Labels
    <2>4. CallOK(call') /\ n > 0
      BY <1>3, <1>6, <2>2, <2>3 DEF CallOK
    <2>5. ~Whole(call')
      BY <1>3, <2>2, <2>4, Positive DEF Whole
    <2>6. Phase(call', drive', late') /\ BeforeSize(call', buffer')
      BY <1>2, <2>2, <2>4 DEF Phase, BeforeSize
    <2>7. SizeOK(call', identified', sectorSize')
      BY <1>1, <1>2, <2>2 DEF SizeOK
    <2>8. QED
      BY <1>1, <1>2, <1>4, <2>4, <2>5, <2>6, <2>7, NothingRead DEF Inv, ReadOK
  <1>7. QED
    BY <1>5, <1>6

LEMMA BufferSizeInv ==
  ASSUME Inv, BufferSize
  PROVE  Inv'
  <1>1. /\ DriveOK(drive) /\ CallOK(call) /\ SizeOK(call, identified, sectorSize)
        /\ BeforeSize(call, buffer)
    BY DEF Inv
  <1>2. /\ call.pc = "size"
        /\ UNCHANGED <<drive, attached, kind, identified, sectorSize, buffer, late>>
    BY DEF BufferSize, client, descriptor
  <1>3. PICK b \in {"increment", "chunk"} :
          /\ b = "chunk" => ~(call.n > Chunk)
          /\ call' = [call EXCEPT !.pc = "descriptor", !.len = sectorSize * call.n, !.back = b]
    BY DEF BufferSize
  <1>4. /\ buffer = NewBuffer
        /\ call.n > 0 /\ call.off = 0 /\ call.incr = 0
    BY <1>1, <1>2 DEF BeforeSize
  <1>5. call.n \in Nat /\ sectorSize \in Nat /\ sectorSize * call.n \in Nat
    <2>1. call.n \in Nat /\ sectorSize \in Nat
      BY <1>1, Constants DEF CallOK, CallFields, SizeOK
    <2>2. QED
      BY <2>1, Product
  <1>6. /\ call' \in CallFields
        /\ call'.pc = "descriptor" /\ call'.back = b /\ call'.len = sectorSize * call.n
        /\ call'.next = call.next /\ call'.op = call.op /\ call'.n = call.n /\ call'.addr = call.addr
        /\ call'.off = 0 /\ call'.incr = 0 /\ call'.ret = call.ret
    BY <1>1, <1>3, <1>4, <1>5 DEF CallOK, CallFields, Labels
  <1>7. CallOK(call')
    BY <1>1, <1>4, <1>6 DEF CallOK
  <1>8. Phase(call', drive, late) /\ SizeOK(call', identified, sectorSize) /\ BeforeSize(call', buffer)
    BY <1>1, <1>6 DEF Phase, SizeOK, BeforeSize
  <1>9. ReadOK(call', drive, identified, sectorSize, buffer, late)
    <2> SUFFICES ASSUME Whole(call') PROVE ReadOK(call', drive, identified, sectorSize, buffer, late)
      BY DEF ReadOK
    <2>1. sectorSize * call.n = SectorSize * call.n
      BY <1>6 DEF Whole
    <2>2. sectorSize = SectorSize /\ SectorSize # 0
      BY <1>4, <1>5, <2>1, Constants, Cancel
    <2>3. identified
      BY <1>1, <2>2 DEF SizeOK
    <2>4. Untouched(buffer, 0) /\ Filled(call.addr, buffer, 0)
      BY <1>4, NothingRead
    <2>5. call.n <= Chunk \/ b = "increment"
      BY <1>3, <1>5, Constants
    <2>6. QED
      BY <1>4, <1>5, <1>6, <2>2, <2>3, <2>4, <2>5 DEF ReadOK, Over, Reading
  <1>10. QED
    BY <1>1, <1>2, <1>7, <1>8, <1>9 DEF Inv

LEMMA BufferIncrementInv ==
  ASSUME Inv, BufferIncrement
  PROVE  Inv'
  <1>1. /\ DriveOK(drive) /\ CallOK(call) /\ SizeOK(call, identified, sectorSize)
        /\ BeforeSize(call, buffer) /\ ReadOK(call, drive, identified, sectorSize, buffer, late)
    BY DEF Inv
  <1>2. /\ call.pc = "increment"
        /\ UNCHANGED <<drive, attached, kind, identified, sectorSize, buffer, late>>
        /\ call' = [call EXCEPT !.pc = "descriptor", !.back = "chunk", !.incr = Words(sectorSize)]
    BY DEF BufferIncrement, client, descriptor
  <1>3. Words(sectorSize) \in Nat
    BY <1>1, Constants DEF SizeOK, Words
  <1>4. CallOK(call')
    BY <1>1, <1>2, <1>3 DEF CallOK, CallFields, Labels
  <1>5. Phase(call', drive, late) /\ SizeOK(call', identified, sectorSize) /\ BeforeSize(call', buffer)
    BY <1>1, <1>2 DEF Phase, SizeOK, BeforeSize, CallOK, CallFields
  <1>6. ReadOK(call', drive, identified, sectorSize, buffer, late)
    BY <1>1, <1>2 DEF ReadOK, Whole, Over, Reading, CallOK, CallFields, W
  <1>7. QED
    BY <1>1, <1>2, <1>4, <1>5, <1>6 DEF Inv

LEMMA PartIs ==
  ASSUME CallOK(call)
  PROVE  /\ SectorsToRead = Part(call.n, call.off)
         /\ Part(call.n, call.off) \in Nat /\ Part(call.n, call.off) <= call.n
         /\ call.off + Part(call.n, call.off) <= call.n
         /\ call.off + Chunk >= call.n => call.off + Part(call.n, call.off) = call.n
         /\ call.off + Chunk < call.n => Part(call.n, call.off) = Chunk
         /\ call.n \in Nat /\ call.off \in Nat /\ call.off <= call.n
  <1>1. call.n \in Nat /\ call.off \in Nat /\ call.off <= call.n
    BY Constants DEF CallOK, CallFields
  <1>2. SectorsToRead = Part(call.n, call.off)
    <2>1. Chunk \in Int /\ call.n - call.off \in Int
      BY <1>1, Constants
    <2>2. QED
      BY <2>1, MinOfTwo DEF SectorsToRead, Part
  <1>3. QED
    BY <1>1, <1>2, Constants DEF Part

LEMMA LimitIs ==
  ASSUME CallOK(call), SizeOK(call, identified, sectorSize)
  PROVE  Limit \in Limits /\ (sectorSize = SectorSize => Limit = SectorSize * Part(call.n, call.off))
  <1> DEFINE p == Part(call.n, call.off)
  <1>1. p \in Nat /\ SectorsToRead = p /\ p <= Chunk
    BY PartIs, Constants DEF Part
  <1>2. sectorSize \in Nat
    BY Constants DEF SizeOK
  <1> HIDE DEF p
  <1>3. sectorSize * p \in Nat
    BY <1>1, <1>2, Product
  <1>4. Limit = (sectorSize * p) % LimitModulus
    BY <1>1 DEF Limit
  <1>5. Limit \in Limits
    BY <1>3, <1>4, Constants DEF Limits
  <1>6. SectorSize * p \in Nat /\ SectorSize * p <= SectorSize * Chunk /\ SectorSize * Chunk \in Nat
    BY <1>1, Constants
  <1>7. (SectorSize * p) % LimitModulus = SectorSize * p
    BY <1>6, Constants
  <1>8. QED
    BY <1>4, <1>5, <1>7 DEF p

LEMMA ReadChunkInv ==
  ASSUME Inv, ReadChunk
  PROVE  Inv'
  <1>1. /\ DriveOK(drive) /\ CallOK(call) /\ SizeOK(call, identified, sectorSize)
        /\ BeforeSize(call, buffer) /\ ReadOK(call, drive, identified, sectorSize, buffer, late)
    BY DEF Inv
  <1>2. /\ call.pc = "chunk"
        /\ UNCHANGED <<drive, attached, kind, identified, sectorSize, buffer, late>>
        /\ call' = [call EXCEPT !.pc = "reset", !.next = "read", !.limit = Limit]
    BY DEF ReadChunk, client, descriptor
  <1>3. Limit \in Limits /\ (sectorSize = SectorSize => Limit = SectorSize * Part(call.n, call.off))
    BY <1>1, LimitIs
  <1>4. CallOK(call')
    BY <1>1, <1>2, <1>3 DEF CallOK, CallFields, Labels
  <1>5. Phase(call', drive, late) /\ SizeOK(call', identified, sectorSize) /\ BeforeSize(call', buffer)
    BY <1>1, <1>2 DEF Phase, SizeOK, BeforeSize, CallOK, CallFields
  <1>6. ReadOK(call', drive, identified, sectorSize, buffer, late)
    BY <1>1, <1>2, <1>3 DEF ReadOK, Whole, Over, Reading, CallOK, CallFields
  <1>7. QED
    BY <1>1, <1>2, <1>4, <1>5, <1>6 DEF Inv

LEMMA ReadTypeInv ==
  ASSUME Inv, ReadType
  PROVE  Inv'
  <1>1. /\ DriveOK(drive) /\ CallOK(call) /\ SizeOK(call, identified, sectorSize)
        /\ BeforeSize(call, buffer) /\ ReadOK(call, drive, identified, sectorSize, buffer, late)
        /\ Phase(call, drive, late)
    BY DEF Inv
  <1>2. /\ call.pc = "signature" /\ call.next = "read"
        /\ UNCHANGED <<drive, attached, kind, identified, sectorSize, buffer, late>>
    BY DEF ReadType, client, descriptor
  <1>3. \/ /\ drive.type \in Atapi
           /\ call' = [call EXCEPT !.pc = "command", !.op = "read"]
        \/ call' = [call EXCEPT !.pc = "panic"]
        \/ call' = [call EXCEPT !.pc = "idle", !.ret = "false"]
    BY DEF ReadType, Signature, Atapi, Goto, EndRead
  <1>4. drive.type \in Atapi => drive.state # "absent"
    BY <1>1 DEF DriveOK, Atapi
  <1>5. CallOK(call')
    BY <1>1, <1>2, <1>3 DEF CallOK, CallFields, Labels
  <1>6. Phase(call', drive, late)
    BY <1>1, <1>2, <1>3, <1>4 DEF Phase, CallOK, CallFields
  <1>7. SizeOK(call', identified, sectorSize) /\ BeforeSize(call', buffer)
    BY <1>1, <1>2, <1>3 DEF SizeOK, BeforeSize, CallOK, CallFields
  <1>8. Untouched(buffer, call.off) => Untouched(buffer, call.n)
    BY <1>1, PartIs, UntouchedBehind
  <1>9. ReadOK(call', drive, identified, sectorSize, buffer, late)
    <2>1. CASE call' = [call EXCEPT !.pc = "command", !.op = "read"]
      BY <1>1, <1>2, <2>1 DEF ReadOK, Whole, Over, Reading, CallOK, CallFields
    <2>2. CASE call' = [call EXCEPT !.pc = "panic"]
      BY <1>1, <1>2, <1>8, <2>2 DEF ReadOK, Whole, Over, Reading, CallOK, CallFields
    <2>3. CASE call' = [call EXCEPT !.pc = "idle", !.ret = "false"]
      BY <1>1, <1>2, <1>8, <2>3 DEF ReadOK, Whole, Over, Reading, CallOK, CallFields
    <2>4. QED
      BY <1>3, <2>1, <2>2, <2>3
  <1>10. QED
    BY <1>1, <1>2, <1>5, <1>6, <1>7, <1>9 DEF Inv

LEMMA SendCommandInv ==
  ASSUME Inv, SendCommand
  PROVE  Inv'
  <1>1. /\ DriveOK(drive) /\ CallOK(call) /\ SizeOK(call, identified, sectorSize)
        /\ BeforeSize(call, buffer) /\ ReadOK(call, drive, identified, sectorSize, buffer, late)
        /\ Phase(call, drive, late)
    BY DEF Inv
  <1>2. /\ call.pc = "command"
        /\ drive' = Commanded("packet", call.limit)
        /\ call' = [call EXCEPT !.pc = "pollReady"]
        /\ UNCHANGED <<attached, kind, identified, sectorSize, buffer>>
    BY DEF SendCommand, Goto, client, descriptor
  <1>3. late' \in BOOLEAN /\ (late => late') /\ (drive.state = "resetting" => late')
    BY Zenon DEF SendCommand
  <1>4. DriveOK(drive')
    BY <1>1, <1>2, CommandedOK DEF CallOK, CallFields
  <1>5. CallOK(call')
    BY <1>1, <1>2 DEF CallOK, CallFields, Labels
  <1>6. \/ drive.state = "resetting" /\ drive' = drive
        \/ /\ drive.state = "idle"
           /\ drive'.state = "command" /\ drive'.cmd = "packet" /\ drive'.limit = call.limit
    BY <1>1, <1>2 DEF Phase, Commanded, DriveOK, DriveType
  <1>7. Phase(call', drive', late')
    BY <1>1, <1>2, <1>3, <1>6 DEF Phase, CallOK, CallFields
  <1>8. SizeOK(call', identified, sectorSize) /\ BeforeSize(call', buffer)
    BY <1>1, <1>2 DEF SizeOK, BeforeSize, CallOK, CallFields
  <1>9. ReadOK(call', drive', identified, sectorSize, buffer, late')
    BY <1>1, <1>2, <1>3 DEF ReadOK, Whole, Over, Reading, CallOK, CallFields
  <1>10. QED
    BY <1>2, <1>3, <1>4, <1>5, <1>7, <1>8, <1>9 DEF Inv

LEMMA SendPacketInv ==
  ASSUME Inv, SendPacket
  PROVE  Inv'
  <1>1. /\ DriveOK(drive) /\ CallOK(call) /\ SizeOK(call, identified, sectorSize)
        /\ BeforeSize(call, buffer) /\ ReadOK(call, drive, identified, sectorSize, buffer, late)
        /\ Phase(call, drive, late)
    BY DEF Inv
  <1> DEFINE p == Part(call.n, call.off)
             packet == IF call.op = "capacity" THEN readCapacityCommand
                       ELSE read12Command(call.addr + call.off, SectorsToRead)
             lba == call.addr + call.off
  <1>2. /\ call.pc = "pollReady" /\ ~Err /\ ~Busy
        /\ drive' = PacketSent(packet)
        /\ call' = [call EXCEPT !.pc = "pollData"]
        /\ UNCHANGED <<attached, kind, identified, sectorSize, buffer, late>>
    BY DEF SendPacket, Goto, client, descriptor
  <1>3. p \in Nat /\ p <= call.n /\ call.n \in Nat /\ call.n <= MaxSectors /\ SectorsToRead = p
          /\ call.addr \in Nat /\ call.off \in Nat /\ call.off <= call.n
    BY <1>1, PartIs, Constants DEF CallOK, CallFields
  <1>4. call.op = "read" =>
          Requested(packet) = [from |-> lba * W, left |-> p * W, block |-> 0]
    <2> SUFFICES ASSUME call.op = "read"
                 PROVE  Requested(packet) = [from |-> lba * W, left |-> p * W, block |-> 0]
      OBVIOUS
    <2>1. packet = read12Command(lba, p)
      BY <1>3
    <2>2. call.n > 0 /\ call.addr + MaxSectors < LongValues
      BY <1>1, <1>3 DEF CallOK
    <2> HIDE DEF p
    <2>3. lba \in Nat /\ lba < LongValues /\ p < LongValues
      BY <1>3, <2>2, Constants
    <2> HIDE DEF lba, packet
    <2>4. QED
      BY <1>3, <2>1, <2>3, PacketIsUnderstood
  <1>5. \/ drive.state = "idle" /\ late /\ drive' = drive
        \/ /\ drive.state = "packet"
           /\ drive' = [drive EXCEPT !.state = "working", !.xfer = Requested(packet)]
    <2> HIDE DEF packet
    <2> QED
      BY <1>1, <1>2 DEF Phase, PacketSent, Err, Busy
  <1>6. Requested(packet) \in [from : Nat, left : Nat, block : Nat]
          /\ Requested(packet).block <= Requested(packet).left
    <2>1. CASE call.op = "capacity"
      BY <2>1, CapacityPacket
    <2>2. CASE call.op # "capacity"
      <3>1. PICK a \in Byte, b \in Byte, c \in Byte, d \in Byte : BigEndian(lba) = <<a, b, c, d>>
        BY <1>3, BytesOf
      <3>2. PICK e \in Byte, f \in Byte, g \in Byte, h \in Byte : BigEndian(p) = <<e, f, g, h>>
        BY <1>3, BytesOf
      <3>3. packet = <<"READ(12)", 0, a, b, c, d, e, f, g, h, 0, 0>>
        BY <1>3, <2>2, <3>1, <3>2 DEF read12Command
      <3>4. Number(<<a, b, c, d>>) \in Nat /\ Number(<<e, f, g, h>>) \in Nat
        BY NumberIsNat
      <3> DEFINE x == Number(<<a, b, c, d>>)
                 y == Number(<<e, f, g, h>>)
      <3>5. Requested(packet) = [from |-> x * W, left |-> y * W, block |-> 0]
        BY <3>3 DEF Requested, W
      <3> HIDE DEF x, y, packet
      <3>6. x \in Nat /\ y \in Nat
        BY <3>4 DEF x, y
      <3>7. x * W \in Nat /\ y * W \in Nat /\ 0 <= y * W
        BY <3>6, Constants
      <3>8. QED
        BY <3>5, <3>7
    <2>3. QED
      BY <2>1, <2>2
  <1> HIDE DEF packet, p, lba
  <1>7. DriveOK(drive')
    BY <1>1, <1>5, <1>6 DEF DriveOK, DriveType, States
  <1>8. CallOK(call')
    BY <1>1, <1>2 DEF CallOK, CallFields, Labels
  <1>9. /\ call'.op = call.op /\ call'.limit = call.limit /\ call'.addr = call.addr
        /\ call'.off = call.off /\ call'.n = call.n /\ call'.pc = "pollData"
    BY <1>1, <1>2 DEF CallOK, CallFields
  <1>10. Phase(call', drive', late)
    <2>1. CASE drive' = drive /\ drive.state = "idle" /\ late
      BY <1>9, <2>1 DEF Phase
    <2>2. CASE drive.state = "packet" /\ drive' = [drive EXCEPT !.state = "working", !.xfer = Requested(packet)]
      <3>1. /\ drive'.state = "working" /\ drive'.xfer = Requested(packet)
            /\ drive'.limit = drive.limit /\ drive.limit = call.limit
        BY <1>1, <1>2, <2>2 DEF DriveOK, DriveType, Phase
      <3>2. call.op = "read" => drive'.xfer.from = lba * W /\ drive'.xfer.left = p * W
        BY <1>4, <3>1
      <3>3. QED
        BY <1>9, <3>1, <3>2 DEF Phase, lba, p
    <2>3. QED
      BY <1>5, <2>1, <2>2
  <1>11. SizeOK(call', identified, sectorSize) /\ BeforeSize(call', buffer)
    BY <1>1, <1>2 DEF SizeOK, BeforeSize, CallOK, CallFields
  <1>12. ReadOK(call', drive', identified, sectorSize, buffer, late)
    BY <1>1, <1>2 DEF ReadOK, Whole, Over, Reading, CallOK, CallFields
  <1>13. QED
    BY <1>2, <1>7, <1>8, <1>10, <1>11, <1>12 DEF Inv

-----------------------------------------------------------------------------
(* performPioAtapiOperation returns. *)

LEMMA ReturnsInv ==
  ASSUME Inv, call.pc \in {"pollReady", "pollData"},
         NEW success \in BOOLEAN, NEW sizes, sizes \subseteq 0 .. 2 * SectorSize,
         OperationReturns(success, sizes),
         UNCHANGED <<attached, kind, identified, late>>,
         DriveOK(drive'), buffer' \in [BufferWords -> Int],
         call.op # "read" => buffer' = buffer,
         (Whole(call) /\ call.op = "read") => Untouched(buffer', call.off + Part(call.n, call.off)),
         (Whole(call) /\ call.op = "read" /\ success /\ ~late) =>
           /\ Filled(call.addr, buffer', call.off + Part(call.n, call.off))
           /\ drive'.state = "idle"
  PROVE  Inv'
  <1>1. /\ CallOK(call) /\ SizeOK(call, identified, sectorSize)
        /\ BeforeSize(call, buffer) /\ ReadOK(call, drive, identified, sectorSize, buffer, late)
    BY DEF Inv
  <1>2. sectorSize' \in 0 .. 2 * SectorSize /\ (call.op = "read" => sectorSize' = sectorSize)
    BY <1>1 DEF OperationReturns, SizeOK
  <1>3. CASE call.op = "capacity"
    <2>1. call' = [call EXCEPT !.pc = call.back]
      BY <1>3 DEF OperationReturns, Goto
    <2>2. ~Whole(call)
      BY <1>1, <1>3 DEF ReadOK, Over, Reading
    <2>3. CallOK(call') /\ ~Whole(call')
      BY <1>1, <2>1, <2>2 DEF CallOK, CallFields, Labels, Whole
    <2>4. Phase(call', drive', late)
      BY <1>1, <2>1 DEF Phase, CallOK, CallFields
    <2>5. SizeOK(call', identified, sectorSize')
      BY <1>1, <1>2, <1>3, <2>1 DEF SizeOK, CallOK, CallFields
    <2>6. BeforeSize(call', buffer')
      BY <1>1, <1>3, <2>1 DEF BeforeSize, CallOK, CallFields
    <2>7. QED
      BY <2>3, <2>4, <2>5, <2>6 DEF Inv, ReadOK
  <1>4. CASE call.op = "read"
    <2> DEFINE p == Part(call.n, call.off)
    <2>1. /\ p \in Nat /\ call.n \in Nat /\ call.off \in Nat
          /\ call.off + p <= call.n
          /\ call.off + Chunk >= call.n => call.off + p = call.n
          /\ call.off + Chunk < call.n => p = Chunk
      BY <1>1, PartIs
    <2>2. call.back # "size"
      BY <1>1, <1>4 DEF BeforeSize
    <2>3. Whole(call) => Untouched(buffer', call.n)
      <3> HIDE DEF p
      <3>1. Whole(call) => Untouched(buffer', call.off + p)
        BY <1>4 DEF p
      <3>2. QED
        BY <2>1, <3>1, UntouchedBehind
    <2>4. SizeOK(call, identified, sectorSize')
      BY <1>1, <1>2, <1>4
    <2>5. CASE call' = [call EXCEPT !.pc = "idle", !.ret = "false"]
      <3>1. CallOK(call')
        BY <1>1, <2>5 DEF CallOK, CallFields, Labels
      <3>2. Phase(call', drive', late) /\ SizeOK(call', identified, sectorSize') /\ BeforeSize(call', buffer')
        BY <1>1, <2>2, <2>4, <2>5 DEF Phase, SizeOK, BeforeSize, CallOK, CallFields
      <3>3. ReadOK(call', drive', identified, sectorSize', buffer', late)
        BY <1>1, <2>3, <2>5 DEF ReadOK, Whole, Over, Reading, CallOK, CallFields
      <3>4. QED
        BY <3>1, <3>2, <3>3 DEF Inv
    <2>6. CASE success /\ call.off + Chunk >= call.n /\ call' = [call EXCEPT !.pc = "idle", !.ret = "true"]
      <3>1. CallOK(call')
        BY <1>1, <1>4, <2>6 DEF CallOK, CallFields, Labels
      <3>2. Phase(call', drive', late) /\ SizeOK(call', identified, sectorSize') /\ BeforeSize(call', buffer')
        BY <1>1, <2>2, <2>4, <2>6 DEF Phase, SizeOK, BeforeSize, CallOK, CallFields
      <3>3. (Whole(call) /\ ~late) => Filled(call.addr, buffer', call.n) /\ drive'.state = "idle"
        <4>1. (Whole(call) /\ ~late) => Filled(call.addr, buffer', call.off + p) /\ drive'.state = "idle"
          BY <1>4, <2>6
        <4> HIDE DEF p
        <4>2. call.off + p = call.n
          BY <2>1, <2>6
        <4>3. QED
          BY <4>1, <4>2
      <3>4. ReadOK(call', drive', identified, sectorSize', buffer', late)
        BY <1>1, <2>3, <2>6, <3>3 DEF ReadOK, Whole, Over, Reading, CallOK, CallFields
      <3>5. QED
        BY <3>1, <3>2, <3>4 DEF Inv
    <2>7. CASE /\ success /\ call.off + Chunk < call.n
               /\ call' = [call EXCEPT !.pc = "descriptor", !.back = "chunk", !.off = call.off + Chunk]
      <3>1. call.off + Chunk \in 0 .. MaxSectors /\ call.off + Chunk = call.off + p
        BY <1>1, <2>1, <2>7, Constants DEF CallOK, CallFields
      <3>2. /\ call' \in CallFields
            /\ call'.pc = "descriptor" /\ call'.back = "chunk" /\ call'.off = call.off + Chunk
            /\ call'.n = call.n /\ call'.len = call.len /\ call'.addr = call.addr /\ call'.incr = call.incr
            /\ call'.op = "read" /\ call'.next = call.next /\ call'.ret = call.ret
        BY <1>1, <1>4, <2>7, <3>1 DEF CallOK, CallFields, Labels
      <3>3. CallOK(call')
        BY <1>1, <2>7, <3>2 DEF CallOK
      <3>4. Phase(call', drive', late) /\ SizeOK(call', identified, sectorSize') /\ BeforeSize(call', buffer')
        BY <1>1, <2>4, <3>2 DEF Phase, SizeOK, BeforeSize
      <3>5. Whole(call) =>
              /\ Untouched(buffer', call'.off)
              /\ ~late => Filled(call.addr, buffer', call'.off)
        <4>1. Whole(call) => /\ Untouched(buffer', call.off + p)
                             /\ ~late => Filled(call.addr, buffer', call.off + p)
          BY <1>4, <2>7
        <4> HIDE DEF p
        <4>2. QED
          BY <3>1, <3>2, <4>1
      <3>6. ~(call.n <= Chunk)
        BY <2>1, <2>7, Constants
      <3>7. Whole(call) => /\ identified /\ sectorSize' = SectorSize
                           /\ call.incr = W
        <4>1. Whole(call) => Reading(call)
          BY <1>1 DEF ReadOK, Over
        <4>2. QED
          BY <1>1, <1>2, <1>4, <3>6, <4>1 DEF ReadOK
      <3>8. Whole(call') => Whole(call)
        BY <3>2 DEF Whole
      <3>9. ReadOK(call', drive', identified, sectorSize', buffer', late)
        BY <2>7, <3>2, <3>5, <3>7, <3>8 DEF ReadOK, Over, Reading
      <3>10. QED
        BY <3>3, <3>4, <3>9 DEF Inv
    <2>8. QED
      BY <1>4, <2>5, <2>6, <2>7 DEF OperationReturns, EndRead
  <1>5. QED
    BY <1>3, <1>4 DEF OperationReturns

(* The drive reports an error, or has no data: then it did not hear the    *)
(* command.                                                                *)
LEMMA ErrorInv ==
  ASSUME Inv, EarlyError \/ PacketError \/ NoData
  PROVE  Inv'
  <1>1. /\ DriveOK(drive) /\ CallOK(call) /\ buffer \in [BufferWords -> Int]
        /\ Phase(call, drive, late)
        /\ ReadOK(call, drive, identified, sectorSize, buffer, late)
    BY DEF Inv
  <1>2. /\ call.pc \in {"pollReady", "pollData"}
        /\ UNCHANGED <<drive, attached, kind, identified, buffer, late>>
    BY DEF EarlyError, PacketError, NoData, client
  <1>3. PICK success \in BOOLEAN : /\ OperationReturns(success, GarbageSizes)
                                   /\ success => late
    <2>1. CASE EarlyError \/ PacketError
      <3>1. OperationReturns(FALSE, GarbageSizes)
        BY <2>1 DEF EarlyError, PacketError
      <3>2. QED
        BY <3>1
    <2>2. CASE NoData
      <3>1. OperationReturns(TRUE, GarbageSizes)
        BY <2>2 DEF NoData
      <3>2. late
        BY <1>1, <2>2 DEF NoData, Phase, Err, Busy, Drq
      <3>3. QED
        BY <3>1, <3>2
    <2>3. QED
      BY <2>1, <2>2
  <1>4. (Whole(call) /\ call.op = "read") => Untouched(buffer, call.off + Part(call.n, call.off))
    <2>1. (Whole(call) /\ call.op = "read") => Untouched(buffer, call.off)
      BY <1>1, <1>2 DEF ReadOK, Reading
    <2> DEFINE q == call.off + Part(call.n, call.off)
    <2>2. call.off \in Nat /\ q \in Nat /\ call.off <= q
      BY <1>1, PartIs
    <2> HIDE DEF q
    <2>3. (Whole(call) /\ call.op = "read") => Untouched(buffer, q)
      BY <2>1, <2>2, UntouchedBehind
    <2>4. QED
      BY <2>3 DEF q
  <1>5. GarbageSizes \subseteq 0 .. 2 * SectorSize
    BY Constants
  <1>6. QED
    BY <1>1, <1>2, <1>3, <1>4, <1>5, ReturnsInv

(* The words of a chunk come behind those that are there.                  *)
LEMMA ChunkFits ==
  ASSUME NEW buf \in [BufferWords -> Int], NEW new, NEW addr \in Nat, NEW off \in Nat, NEW p \in Nat,
         NEW block \in Nat, block <= p * W, Untouched(buf, off),
         new = [i \in BufferWords |-> IF i \in off * W .. off * W + block - 1
                                      THEN (addr + off) * W + i - off * W ELSE buf[i]]
  PROVE  /\ Untouched(new, off + p)
         /\ (block = p * W /\ Filled(addr, buf, off)) => Filled(addr, new, off + p)
  <1> DEFINE a == off * W
             b == p * W
             c == addr * W
  <1>1. a \in Nat /\ b \in Nat /\ c \in Nat /\ (addr + off) * W = c + a /\ (off + p) * W = a + b
    BY Constants
  <1>2. \A i \in BufferWords : i \in Nat
    BY DEF BufferWords
  <1>3. /\ \A i \in BufferWords : i >= a => buf[i] = Unset
        /\ Filled(addr, buf, off) => \A i \in BufferWords : i < a => buf[i] = c + i
    BY DEF Untouched, Filled
  <1>4. \A i \in BufferWords : new[i] = IF i \in a .. a + block - 1 THEN (addr + off) * W + i - a ELSE buf[i]
    OBVIOUS
  <1> HIDE DEF a, b, c
  <1>5. \A i \in BufferWords : i >= a + b => new[i] = Unset
    <2> SUFFICES ASSUME NEW i \in BufferWords, i >= a + b PROVE new[i] = Unset
      OBVIOUS
    <2>1. ~(i \in a .. a + block - 1) /\ i >= a
      BY <1>1, <1>2 DEF b
    <2>2. QED
      BY <1>3, <1>4, <2>1
  <1>6. ASSUME block = p * W, Filled(addr, buf, off), NEW i \in BufferWords, i < a + b
        PROVE  new[i] = c + i
    <2>1. CASE i < a
      <3>1. ~(i \in a .. a + block - 1)
        BY <1>1, <1>2, <2>1
      <3>2. QED
        BY <1>3, <1>4, <1>6, <2>1, <3>1
    <2>2. CASE ~(i < a)
      <3>1. i \in a .. a + block - 1
        BY <1>1, <1>2, <1>6, <2>2 DEF b
      <3>2. new[i] = (c + a) + i - a
        BY <1>1, <1>4, <3>1
      <3>3. QED
        BY <1>1, <1>2, <3>2
    <2>3. QED
      BY <2>1, <2>2
  <1>7. QED
    BY <1>1, <1>5, <1>6 DEF Untouched, Filled, c

LEMMA ReadDataInv ==
  ASSUME Inv, ReadData
  PROVE  Inv'
  <1>1. /\ DriveOK(drive) /\ CallOK(call) /\ buffer \in [BufferWords -> Int]
        /\ Phase(call, drive, late)
        /\ ReadOK(call, drive, identified, sectorSize, buffer, late)
    BY DEF Inv
  <1>2. /\ call.pc = "pollData" /\ Drq
        /\ drive' = BlockRead
        /\ UNCHANGED <<attached, kind, identified, late>>
        /\ call.op = "capacity" => buffer' = buffer
        /\ call.op # "capacity" =>
             buffer' = [i \in BufferWords |->
                          IF i \in BufferOffset .. BufferOffset + drive.xfer.block - 1
                          THEN drive.xfer.from + i - BufferOffset ELSE buffer[i]]
    BY DEF ReadData, client
  <1>3. OperationReturns(TRUE, {SectorSize})
    BY CapacityReadsBack DEF ReadData
  <1>4. drive.state = "data"
    BY <1>1, <1>2 DEF Phase, Drq
  <1>5. call.op \in {"capacity", "read"}
    BY <1>3 DEF OperationReturns
  <1>6. DriveOK(drive') /\ (drive.xfer.block = drive.xfer.left => drive'.state = "idle")
    <2> DEFINE left == drive.xfer.left - drive.xfer.block
    <2>1. /\ drive.xfer.left \in Nat /\ drive.xfer.block \in Nat /\ drive.xfer.from \in Nat
          /\ left \in Nat /\ (drive.xfer.block = drive.xfer.left <=> left = 0)
      BY <1>1 DEF DriveOK, DriveType
    <2>2. CASE left > 0
      <3> DEFINE x == [from |-> drive.xfer.from + drive.xfer.block, left |-> left, block |-> 0]
      <3>1. drive' = [drive EXCEPT !.state = "working", !.xfer = x]
        BY <1>2, <2>2 DEF BlockRead
      <3>2. x \in [from : Nat, left : Nat, block : Nat] /\ x.block <= x.left
        BY <2>1
      <3> HIDE DEF x
      <3>3. DriveOK(drive')
        BY <1>1, <3>1, <3>2 DEF DriveOK, DriveType, States
      <3>4. drive.xfer.block # drive.xfer.left
        BY <2>1, <2>2
      <3>5. QED
        BY <3>3, <3>4
    <2>3. CASE ~(left > 0)
      <3>1. drive' = [drive EXCEPT !.state = "idle", !.xfer = NoTransfer]
        BY <1>2, <2>3 DEF BlockRead
      <3>2. NoTransfer \in [from : Nat, left : Nat, block : Nat] /\ NoTransfer.block <= NoTransfer.left
        BY DEF NoTransfer
      <3>3. QED
        BY <1>1, <3>1, <3>2 DEF DriveOK, DriveType, States
    <2>4. QED
      BY <2>2, <2>3
  <1>7. BufferOffset \in Int /\ drive.xfer.from \in Int /\ \A i \in BufferWords : i \in Int
    <2>1. call.incr \in Nat /\ call.off \in Nat
      BY <1>1, Constants DEF CallOK, CallFields
    <2>2. QED
      BY <1>1, <2>1 DEF BufferOffset, BufferWords, DriveOK, DriveType
  <1>8. buffer' \in [BufferWords -> Int]
    BY <1>1, <1>2, <1>7
  <1>9. ASSUME Whole(call), call.op = "read"
        PROVE  /\ Untouched(buffer', call.off + Part(call.n, call.off))
               /\ ~late => /\ Filled(call.addr, buffer', call.off + Part(call.n, call.off))
                           /\ drive'.state = "idle"
    <2> DEFINE p == Part(call.n, call.off)
    <2>1. Reading(call)
      BY <1>2, <1>9 DEF Reading
    <2>2. /\ Untouched(buffer, call.off) /\ (~late => Filled(call.addr, buffer, call.off))
          /\ call.limit = SectorSize * p
          /\ call.incr = W \/ call.off = 0
      BY <1>1, <1>2, <1>9, <2>1 DEF ReadOK
    <2>3. /\ drive.xfer.from = (call.addr + call.off) * W
          /\ drive.xfer.left = p * W
          /\ drive.xfer.block = p * W
      BY <1>1, <1>2, <1>4, <1>9, <2>2 DEF Phase
    <2>4. p \in Nat /\ call.off \in Nat /\ call.addr \in Nat /\ call.incr \in Nat
      BY <1>1, PartIs DEF CallOK, CallFields
    <2>5. BufferOffset = call.off * W
      BY <2>2, <2>4, Constants DEF BufferOffset
    <2> HIDE DEF p
    <2>6. p * W \in Nat /\ p * W <= p * W
      BY <2>4, Constants
    <2>7. buffer' = [i \in BufferWords |->
                       IF i \in call.off * W .. call.off * W + p * W - 1
                       THEN (call.addr + call.off) * W + i - call.off * W ELSE buffer[i]]
      BY <1>2, <1>9, <2>3, <2>5
    <2>8. /\ Untouched(buffer', call.off + p)
          /\ Filled(call.addr, buffer, call.off) => Filled(call.addr, buffer', call.off + p)
      BY <1>1, <2>2, <2>4, <2>6, <2>7, ChunkFits
    <2>9. QED
      BY <1>6, <2>2, <2>3, <2>8 DEF p
  <1>10. {SectorSize} \subseteq 0 .. 2 * SectorSize
    BY Constants
  <1>11. QED
    BY <1>1, <1>2, <1>3, <1>5, <1>6, <1>8, <1>9, <1>10, ReturnsInv

-----------------------------------------------------------------------------
(* The driver's state is as Inv says, in every state of every call.        *)
THEOREM DriverIsSound == AtaSpec => []Inv
  <1>1. Inv /\ [AtaNext]_ataVars => Inv'
    <2> SUFFICES ASSUME Inv, [AtaNext]_ataVars PROVE Inv'
      OBVIOUS
    <2>1. CASE AtaNext
      BY <2>1, DriveInv, ResetInv, StartInv, AttachInv, DescriptorInv, IdentifyTypeInv,
         ReadIdentityInv, CapacityTypeInv, CallReadInv, BufferSizeInv, BufferIncrementInv,
         ReadChunkInv, ReadTypeInv, SendCommandInv, SendPacketInv, ErrorInv, ReadDataInv
         DEF AtaNext, DriverStep
    <2>2. CASE UNCHANGED ataVars
      BY <2>2 DEF ataVars, Inv
    <2>3. QED
      BY <2>1, <2>2
  <1>2. QED
    BY <1>1, InitInv, PTL DEF AtaSpec

(* X86AtaDevice::read: when it reports success, and worked with the        *)
(* medium's sector size and commands that were heard, the buffer has all   *)
(* the sectors and the drive no data left.                                 *)
THEOREM ReadsAreComplete == AtaSpec => []ReadComplete
  <1>1. Inv => ReadComplete
    <2> SUFFICES ASSUME Inv, call.pc = "idle", call.ret = "true", Regular
                 PROVE  /\ \A i \in 0 .. Words(call.len) - 1 : buffer[i] = call.addr * Words(SectorSize) + i
                        /\ drive.state = "idle"
      BY DEF ReadComplete
    <2>1. call.n \in Nat /\ call.n > 0 /\ call.n <= MaxSectors
      BY Constants DEF Inv, CallOK, CallFields
    <2>2. Whole(call) /\ ~late
      BY <2>1 DEF Whole, Regular
    <2>3. Filled(call.addr, buffer, call.n) /\ drive.state = "idle"
      BY <2>2 DEF Inv, ReadOK
    <2>4. Words(call.len) = call.n * W /\ call.n * W \in Nat
      <3>1. call.n * W \in Nat /\ call.len = 2 * (call.n * W)
        BY <2>1, <2>2, Constants DEF Whole
      <3>2. QED
        BY <3>1 DEF Words
    <2>5. call.n * W <= Words(2 * SectorSize) * MaxSectors
      <3>1. call.n * W <= MaxSectors * W /\ MaxSectors * W <= SectorSize * MaxSectors
        BY <2>1, Constants
      <3>2. MaxSectors * W \in Nat /\ SectorSize * MaxSectors \in Nat
        BY Constants
      <3>3. QED
        BY <2>4, <3>1, <3>2, Constants
    <2>6. Words(2 * SectorSize) * MaxSectors \in Nat
      BY Constants
    <2>7. ASSUME NEW i \in 0 .. Words(call.len) - 1 PROVE i \in BufferWords /\ i < call.n * W
      BY <2>4, <2>5, <2>6 DEF BufferWords
    <2>8. QED
      BY <2>3, <2>7 DEF Filled, W
  <1>2. QED
    BY <1>1, DriverIsSound, PTL

(* No read writes behind the client's buffer, also when it fails half way. *)
THEOREM BufferIsNotOverrun == AtaSpec => []BufferNotOverrun
  <1>1. Inv => BufferNotOverrun
    <2> SUFFICES ASSUME Inv PROVE BufferNotOverrun
      OBVIOUS
    <2>1. AtaTypeOK
      <3>1. drive.xfer.block \in 0 .. drive.xfer.left
        BY DEF Inv, DriveOK, DriveType
      <3>2. identified \in BOOLEAN /\ attached \in BOOLEAN /\ late \in BOOLEAN
        BY Zenon DEF Inv, SizeOK
      <3>3. QED
        BY <3>1, <3>2 DEF Inv, AtaTypeOK, DriveOK, DriveType, CallOK, CallFields, SizeOK, States, Limits
    <2>2. ASSUME Whole(call), NEW i \in BufferWords, i >= Words(call.len) PROVE buffer[i] = Unset
      <3>1. call.n \in Nat /\ call.off \in Nat /\ call.off <= call.n
        BY PartIs DEF Inv
      <3>2. Untouched(buffer, call.n)
        <4>1. Untouched(buffer, call.n) \/ Untouched(buffer, call.off)
          BY <2>2 DEF Inv, ReadOK
        <4>2. QED
          BY <3>1, <4>1, UntouchedBehind
      <3>3. Words(call.len) = call.n * W
        <4>1. call.n * W \in Nat /\ call.len = 2 * (call.n * W)
          BY <2>2, <3>1, Constants DEF Whole
        <4>2. QED
          BY <4>1 DEF Words
      <3>4. QED
        BY <2>2, <3>2, <3>3 DEF Untouched
    <2>3. QED
      BY <2>1, <2>2 DEF BufferNotOverrun, Whole
  <1>2. QED
    BY <1>1, DriverIsSound, PTL
=============================================================================
