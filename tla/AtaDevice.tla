----------------------------- MODULE AtaDevice ------------------------------
(***************************************************************************)
(* The ATA driver (kernel/src/arch/i386/device/storage/X86AtaDevice.cpp)   *)
(* and the drive it talks to.  The driver writes registers and polls the   *)
(* status; the drive answers in its own time, with data or with an error.  *)
(* One step is one exchange between the two.                               *)
(*                                                                         *)
(* Sizes are bytes, of which two make a word.  Word w of the disk has the  *)
(* content w.  The drive is external: it reacts to a write at once, but    *)
(* may be busy with it for any time, also with a reset; a transfer that    *)
(* fits the byte count limit comes in one block.                           *)
(***************************************************************************)
EXTENDS Integers, FiniteSetsExt

CONSTANTS
  Drives,        (* what may be attached: values of Type, or "none"        *)
  SectorSize,    (* of the drive's medium (2048)                           *)
  AtaSectorSize, (* the size assumed of ATA drives (512)                   *)
  GarbageSizes,  (* bound: what an uninitialised sector size may be        *)
  Chunk,         (* sectors per command (10)                               *)
  LimitModulus,  (* the byte count limit has two registers (65536)         *)
  ByteValues,    (* values of a byte of a packet (256)                     *)
  DiskSectors,   (* bound: sectors of the disk                             *)
  Addresses,     (* bound: where reads begin                               *)
  MaxSectors     (* bound: sectors per read                                *)

Types == {"PATA", "SATA", "PATAPI", "SATAPI", "Unknown"}
Ata == {"PATA", "SATA"}
Atapi == {"PATAPI", "SATAPI"}

CapacitySize == 8                         \* sizeof(data)

(* Values of a number of four bytes.                                       *)
LongValues == ByteValues * (ByteValues * (ByteValues * ByteValues))

ASSUME AtaAssumption ==
  /\ Drives \subseteq Types \cup {"none"}
  /\ {SectorSize, AtaSectorSize, Chunk, LimitModulus, MaxSectors} \subseteq Nat \ {0}
  /\ SectorSize % 2 = 0
  /\ ByteValues \in Nat \ {0, 1}
  /\ SectorSize < LongValues
  /\ SectorSize * Chunk < LimitModulus
  /\ GarbageSizes \subseteq 0 .. 2 * SectorSize
  /\ AtaSectorSize <= 2 * SectorSize
  /\ CapacitySize < LimitModulus
  /\ DiskSectors \in Nat
  /\ \A addr \in Addresses : addr \in Nat /\ addr + MaxSectors < LongValues

VARIABLES
  drive,         (* the drive: what it is doing, and the running transfer  *)
  attached,      (* whether isAttached found a drive                       *)
  kind,          (* what type() told the client                            *)
  identified,    (* _identified                                            *)
  sectorSize,    (* _descriptor's _sectorSize                              *)
  buffer,        (* the client's buffer, in words                          *)
  late,          (* history: a command was sent during a reset             *)
  call           (* the call in progress, or the result of the last one    *)

ataVars == <<drive, attached, kind, identified, sectorSize, buffer, late, call>>
descriptor == <<identified, sectorSize>>
client == <<attached, kind>>

Words(bytes) == bytes \div 2
Unset == -1
BufferWords == 0 .. Words(2 * SectorSize) * MaxSectors - 1
NewBuffer == [i \in BufferWords |-> Unset]

(* `next' is where type() returns to, `back' where descriptor() does.      *)
NoCall == [pc |-> "idle", next |-> "idle", back |-> "idle", op |-> "none", addr |-> 0, n |-> 0,
         off |-> 0, len |-> 0, incr |-> 0, limit |-> 0, ret |-> "none"]

NoTransfer == [from |-> 0, left |-> 0, block |-> 0]

AtaInit ==
  /\ \E type \in Drives :
       drive = [type |-> type, state |-> IF type = "none" THEN "absent" ELSE "idle",
                cmd |-> "none", limit |-> 0, ready |-> TRUE, xfer |-> NoTransfer]
  /\ attached = FALSE
  /\ kind = "Unknown"
  /\ identified = FALSE
  /\ sectorSize = 0
  /\ buffer = NewBuffer
  /\ late = FALSE
  /\ call = NoCall

-----------------------------------------------------------------------------
(* The drive. *)

(* The bits of the status register. *)
Busy == drive.state \in {"resetting", "command", "working"}
Ready == drive.ready
Drq == drive.state \in {"packet", "data"}
Err == drive.state = "error"
StatusIsZero == ~Busy /\ ~Drq /\ ~Err /\ (drive.state = "absent" \/ ~Ready)

(* A write to the command register; only an idle drive takes it. *)
Commanded(cmd, limit) ==
  IF drive.state \in {"idle", "error"}
  THEN [drive EXCEPT !.state = "command", !.cmd = cmd, !.limit = limit]
  ELSE drive

(* A number whose bytes are sent with the highest first, and back.         *)
BigEndian(number) ==
  LET by8 == number \div ByteValues        \* number >> 8
      by16 == by8 \div ByteValues
      by24 == by16 \div ByteValues
  IN  <<by24 % ByteValues, by16 % ByteValues, by8 % ByteValues, number % ByteValues>>

Number(bytes) ==
  ((bytes[1] * ByteValues + bytes[2]) * ByteValues + bytes[3]) * ByteValues + bytes[4]

(* What a packet asks for, in words: READ(12) has a place and a number of  *)
(* sectors, READ CAPACITY is answered with two numbers.                    *)
Requested(packet) ==
  IF packet[1] = "READ(12)"
  THEN [from |-> Number(<<packet[3], packet[4], packet[5], packet[6]>>) * Words(SectorSize),
        left |-> Number(<<packet[7], packet[8], packet[9], packet[10]>>) * Words(SectorSize),
        block |-> 0]
  ELSE [from |-> 0, left |-> Words(CapacitySize), block |-> 0]

PacketSent(packet) ==
  IF drive.state = "packet"
  THEN [drive EXCEPT !.state = "working", !.xfer = Requested(packet)]
  ELSE drive

(* The driver has read the block that was announced. *)
BlockRead ==
  LET left == drive.xfer.left - drive.xfer.block
  IN  IF left > 0
      THEN [drive EXCEPT !.state = "working",
                         !.xfer = [from |-> drive.xfer.from + drive.xfer.block, left |-> left, block |-> 0]]
      ELSE [drive EXCEPT !.state = "idle", !.xfer = NoTransfer]

Announce(words) == [drive EXCEPT !.state = "data", !.xfer.block = words, !.ready = TRUE]
Fail == [drive EXCEPT !.state = "error", !.xfer = NoTransfer, !.ready = TRUE]

(* A reset ends; a packet device need not report itself ready then.        *)
ResetDone ==
  /\ drive.state = "resetting"
  /\ \E r \in BOOLEAN : drive' = [drive EXCEPT !.state = "idle", !.ready = r]

(* A command is carried out: the drive wants the packet, has identity data *)
(* (words that are not on the disk) or rejects it.                         *)
CommandDone ==
  /\ drive.state = "command"
  /\ \/ /\ drive.cmd = "packet"
        /\ drive' = [drive EXCEPT !.state = "packet", !.ready = TRUE]
     \/ /\ drive.cmd = "identify"
        /\ drive' = Announce(0)
     \/ drive' = Fail

(* A packet is carried out: the next block of the data, or an error; a     *)
(* read beyond the end of the disk is one.                                 *)
PacketDone ==
  LET end == drive.xfer.from + drive.xfer.left
      fit == IF drive.limit = 0 THEN drive.xfer.left
             ELSE Min({Words(drive.limit), drive.xfer.left})
  IN  /\ drive.state = "working"
      /\ \/ end <= DiskSectors * Words(SectorSize) /\ drive' = Announce(fit)
         \/ drive' = Fail

DriveStep ==
  /\ ResetDone \/ CommandDone \/ PacketDone
  /\ UNCHANGED <<attached, kind, identified, sectorSize, buffer, late, call>>

-----------------------------------------------------------------------------
(* type(), isAttached() and identify(). *)

Goto(label) == call' = [call EXCEPT !.pc = label]

(* softReset, which every call of type() and isAttached() begins with, and *)
(* which does not wait for the drive.                                      *)
SoftReset ==
  /\ call.pc = "reset"
  /\ drive' = IF drive.state = "absent" THEN drive
              ELSE [drive EXCEPT !.state = "resetting", !.xfer = NoTransfer]
  /\ Goto(IF call.next = "attach" THEN "attach" ELSE "signature")
  /\ UNCHANGED <<client, descriptor, buffer, late>>

(* What the signature registers say; before the reset is over they may     *)
(* hold anything.                                                          *)
Signature ==
  IF drive.state = "resetting" THEN {drive.type, "PATA", "Unknown"} ELSE {drive.type}

CallIsAttached ==
  /\ call.pc = "idle"
  /\ call' = [NoCall EXCEPT !.pc = "reset", !.next = "attach"]
  /\ late' = FALSE
  /\ UNCHANGED <<drive, client, descriptor, buffer>>

SendAttachIdentify ==
  /\ call.pc = "attach"
  /\ drive' = Commanded("identify", 0)
  /\ Goto("attachStatus")
  /\ UNCHANGED <<client, descriptor, buffer, late>>

(* waitForStatus(-1) != 0 *)
AttachStatus ==
  /\ call.pc = "attachStatus"
  /\ ~Busy
  /\ attached' = ~StatusIsZero
  /\ Goto("idle")
  /\ UNCHANGED <<drive, kind, descriptor, buffer, late>>

CallType ==
  /\ call.pc = "idle"
  /\ attached
  /\ call' = [NoCall EXCEPT !.pc = "reset", !.next = "client"]
  /\ late' = FALSE
  /\ UNCHANGED <<drive, client, descriptor, buffer>>

TypeReturns ==
  /\ call.pc = "signature"
  /\ call.next = "client"
  /\ kind' \in Signature
  /\ Goto("idle")
  /\ UNCHANGED <<drive, attached, descriptor, buffer, late>>

(* model(), serial(), firmware() and sectorSize() ask the descriptor.      *)
CallDescriptor ==
  /\ call.pc = "idle"
  /\ attached
  /\ call' = [NoCall EXCEPT !.pc = "descriptor", !.back = "idle"]
  /\ late' = FALSE
  /\ UNCHANGED <<drive, client, descriptor, buffer>>

Descriptor ==
  /\ call.pc = "descriptor"
  /\ call' = IF identified THEN [call EXCEPT !.pc = call.back]
             ELSE [call EXCEPT !.pc = "reset", !.next = "identify"]
  /\ UNCHANGED <<drive, client, descriptor, buffer, late>>

(* identify: "switch (type())". *)
IdentifyType ==
  /\ call.pc = "signature"
  /\ call.next = "identify"
  /\ \E t \in Signature :
       /\ drive' = IF t = "Unknown" THEN drive ELSE Commanded("identify", 0)
       /\ Goto(IF t = "Unknown" THEN call.back ELSE "identity")
  /\ UNCHANGED <<client, descriptor, buffer, late>>

(* AtaDeviceDescriptor::readIdentity: an ATA drive has a sector size if    *)
(* its identity has a 48-bit sector count.                                 *)
IdentitySizes == {sectorSize, AtaSectorSize}

(* waitUntilReady(false), the form that has callers                        *)
WaitUntilReady == ~Busy

(* Half of the identity's 256 words are read, whether or not the drive has *)
(* them: pioRead counts bytes.  The drive is left with the others until    *)
(* the next reset.                                                         *)
ReadIdentity ==
  /\ call.pc = "identity"
  /\ WaitUntilReady
  /\ sectorSize' \in IF Drq /\ drive.type \in Atapi THEN {sectorSize} ELSE IdentitySizes
  /\ identified' = TRUE
  /\ call' = [call EXCEPT !.pc = "reset", !.next = "capacity"]
  /\ UNCHANGED <<drive, client, buffer, late>>

(* "if (type() == Type::PATAPI)" *)
CapacityType ==
  /\ call.pc = "signature"
  /\ call.next = "capacity"
  /\ \E t \in Signature :
       call' = IF t = "PATAPI"
               THEN [call EXCEPT !.pc = "command", !.op = "capacity", !.limit = CapacitySize]
               ELSE [call EXCEPT !.pc = call.back]
  /\ UNCHANGED <<drive, client, descriptor, buffer, late>>

-----------------------------------------------------------------------------
(* read(). *)

EndRead(result) == call' = [call EXCEPT !.pc = "idle", !.ret = result]

(* A client that was told of an ATAPI drive reads n sectors.  It asks for  *)
(* the sector size to make its buffer.                                     *)
CallRead(addr, n) ==
  /\ call.pc = "idle"
  /\ kind \in Atapi
  /\ buffer' = NewBuffer
  /\ late' = FALSE
  /\ call' = IF n = 0 THEN [NoCall EXCEPT !.ret = "false"]
             ELSE [NoCall EXCEPT !.pc = "descriptor", !.back = "size", !.addr = addr, !.n = n]
  /\ UNCHANGED <<drive, client, descriptor>>

BufferSize ==
  /\ call.pc = "size"
  /\ call' = [call EXCEPT !.pc = "descriptor", !.len = sectorSize * call.n,
                          !.back = IF call.n > Chunk THEN "increment" ELSE "chunk"]
  /\ UNCHANGED <<drive, client, descriptor, buffer, late>>

(* bufIncr *)
BufferIncrement ==
  /\ call.pc = "increment"
  /\ call' = [call EXCEPT !.pc = "descriptor", !.back = "chunk", !.incr = Words(sectorSize)]
  /\ UNCHANGED <<drive, client, descriptor, buffer, late>>

(* Mutant of SectorsToRead: every chunk is a full one.                     *)
SectorsToReadFull == Chunk

SectorsToRead == Min({Chunk, call.n - call.off})

(* Mutant of BufferOffset: every chunk goes to the buffer's beginning.     *)
BufferOffsetZero == 0

(* bufOffset *)
BufferOffset == call.incr * call.off

(* The byte count limit, as the two registers hold it. *)
Limit == (sectorSize * SectorsToRead) % LimitModulus

(* readInternal: maxByteCount, then type(). *)
ReadChunk ==
  /\ call.pc = "chunk"
  /\ call' = [call EXCEPT !.pc = "reset", !.next = "read", !.limit = Limit]
  /\ UNCHANGED <<drive, client, descriptor, buffer, late>>

(* "switch (type())" *)
ReadType ==
  /\ call.pc = "signature"
  /\ call.next = "read"
  /\ \E t \in Signature :
       \/ t \in Atapi /\ call' = [call EXCEPT !.pc = "command", !.op = "read"]
       \/ t \in Ata /\ Goto("panic")
       \/ t = "Unknown" /\ EndRead("false")
  /\ UNCHANGED <<drive, client, descriptor, buffer, late>>

-----------------------------------------------------------------------------
(* performPioAtapiOperation. *)

SendCommand ==
  /\ call.pc = "command"
  /\ drive' = Commanded("packet", call.limit)
  /\ late' = (late \/ drive.state = "resetting")
  /\ Goto("pollReady")
  /\ UNCHANGED <<client, descriptor, buffer>>

(* The operation returns: to the next chunk, to the caller of read, or to  *)
(* identify, which does not look at the result and takes the sector size   *)
(* from the words it was to fill.                                          *)
OperationReturns(success, size) ==
  /\ sectorSize' \in IF call.op = "read" THEN {sectorSize} ELSE size
  /\ \/ call.op = "capacity" /\ Goto(call.back)
     \/ call.op = "read" /\ ~success /\ EndRead("false")
     \/ call.op = "read" /\ success /\ call.off + Chunk >= call.n /\ EndRead("true")
     \/ /\ call.op = "read" /\ success /\ call.off + Chunk < call.n
        /\ call' = [call EXCEPT !.pc = "descriptor", !.back = "chunk", !.off = @ + Chunk]

(* Mutant of EarlyError: the error bit is not looked at.                   *)
EarlyErrorIgnored == FALSE /\ UNCHANGED ataVars

(* "ATAPI early error; unsure" *)
EarlyError ==
  /\ call.pc = "pollReady"
  /\ Err
  /\ OperationReturns(FALSE, GarbageSizes)
  /\ UNCHANGED <<drive, client, identified, buffer, late>>

(* AtapiCommand: packets of 12 bytes                                       *)
read12Command(lba, length) ==
  LET a == BigEndian(lba)
      l == BigEndian(length)
  IN  <<"READ(12)", 0, a[1], a[2], a[3], a[4], l[1], l[2], l[3], l[4], 0, 0>>

readCapacityCommand == <<"READ CAPACITY", 0, 0, 0, 0, 0, 0, 0, 0, 0, 0, 0>>

SendPacket ==
  /\ call.pc = "pollReady"
  /\ ~Err /\ ~Busy /\ Ready
  /\ drive' = PacketSent(IF call.op = "capacity" THEN readCapacityCommand
                         ELSE read12Command(call.addr + call.off, SectorsToRead))
  /\ Goto("pollData")
  /\ UNCHANGED <<client, descriptor, buffer, late>>

(* "ATAPI error; no medium?" *)
PacketError ==
  /\ call.pc = "pollData"
  /\ Err
  /\ OperationReturns(FALSE, GarbageSizes)
  /\ UNCHANGED <<drive, client, identified, buffer, late>>

(* readAtapiCapacity: the answer's bytes are loaded as a number with the   *)
(* lowest first, and endianSwap turns that round.                          *)
Swapped(bytes) == <<bytes[4], bytes[3], bytes[2], bytes[1]>>
endianSwap(number) == Number(Swapped(BigEndian(number)))
LoadedWord(bytes) == Number(Swapped(bytes))
readAtapiCapacity(bytes) == endianSwap(LoadedWord(bytes))

(* The block the drive announces is read into the buffer. *)
ReadData ==
  LET base == BufferOffset
  IN  /\ call.pc = "pollData"
      /\ Drq
      /\ buffer' = IF call.op = "capacity" THEN buffer
                   ELSE [i \in BufferWords |-> IF i \in base .. base + drive.xfer.block - 1
                                               THEN drive.xfer.from + i - base ELSE buffer[i]]
      /\ drive' = BlockRead
      /\ OperationReturns(TRUE, {readAtapiCapacity(BigEndian(SectorSize))})
      /\ UNCHANGED <<client, identified, late>>

(* "No data to read but we made a buffer." *)
NoData ==
  /\ call.pc = "pollData"
  /\ ~Err /\ ~Busy /\ Ready /\ ~Drq
  /\ OperationReturns(TRUE, GarbageSizes)
  /\ UNCHANGED <<drive, client, identified, buffer, late>>

DriverStep ==
  \/ SoftReset \/ SendAttachIdentify \/ AttachStatus \/ TypeReturns
  \/ Descriptor \/ IdentifyType \/ ReadIdentity \/ CapacityType
  \/ BufferSize \/ BufferIncrement \/ ReadChunk \/ ReadType
  \/ SendCommand \/ EarlyError \/ SendPacket \/ PacketError \/ ReadData \/ NoData

AtaNext ==
  \/ DriveStep
  \/ DriverStep
  \/ CallIsAttached \/ CallType \/ CallDescriptor
  \/ \E addr \in Addresses, n \in 0 .. MaxSectors : CallRead(addr, n)

(* The processor executes the driver, and a drive does not stay busy.      *)
AtaSpec == AtaInit /\ [][AtaNext]_ataVars /\ WF_ataVars(DriverStep) /\ WF_ataVars(DriveStep)

-----------------------------------------------------------------------------

(* Types of the state. *)
AtaTypeOK ==
  /\ drive.type \in Drives
  /\ drive.state \in {"absent", "idle", "resetting", "command", "packet", "working", "data", "error"}
  /\ drive.limit \in 0 .. LimitModulus - 1
  /\ drive.xfer.block \in 0 .. drive.xfer.left
  /\ kind \in Types \cup {"none"}
  /\ identified \in BOOLEAN /\ attached \in BOOLEAN /\ late \in BOOLEAN
  /\ sectorSize \in 0 .. 2 * SectorSize
  /\ buffer \in [BufferWords -> Int]
  /\ call.off \in 0 .. MaxSectors
  /\ call.ret \in {"none", "true", "false"}

(* The driver works with the medium's sector size, and its commands were   *)
(* heard.                                                                  *)
Regular == call.len = SectorSize * call.n /\ ~late

(* X86AtaDevice.hpp on read: "true if successful".  When it is, the buffer *)
(* has all the sectors, each chunk in its place, however the drive delayed *)
(* its answers and whatever earlier commands left unfinished, and the      *)
(* drive has no data left.                                                 *)
ReadComplete ==
  (call.pc = "idle" /\ call.ret = "true" /\ Regular) =>
    /\ \A i \in 0 .. Words(call.len) - 1 : buffer[i] = call.addr * Words(SectorSize) + i
    /\ drive.state = "idle"

(* A read writes nothing behind the end of the client's buffer, also when  *)
(* it fails half way.                                                      *)
BufferNotOverrun ==
  /\ AtaTypeOK
  /\ (call.n > 0 /\ call.len = SectorSize * call.n) =>
    \A i \in BufferWords : i >= Words(call.len) => buffer[i] = Unset

(* Every call whose commands were heard returns, or panics, however long   *)
(* the drive is busy and at whichever command it fails.                    *)
HeardCallsReturn == (call.pc # "idle") ~> (call.pc \in {"idle", "panic"} \/ late)

(* X86AtaDevice.cpp at the softReset of isAttached and type: "waits until  *)
(* master drive is ready again".  A call would then return, or panic,      *)
(* without a condition on its commands.                                    *)
CallsReturn == (call.pc # "idle") ~> (call.pc \in {"idle", "panic"})

=============================================================================
