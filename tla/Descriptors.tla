---------------------------- MODULE Descriptors -----------------------------
(***************************************************************************)
(* The segment and gate descriptors of the i386, as the kernel encodes     *)
(* them and as the CPU decodes them.  A number of 32 bits has eight digits *)
(* of four bits, a byte has two; `Digit' is the number of values of one.   *)
(* Byte i of a descriptor is at index i + 1; byte 6 of a segment is a pair *)
(* of the unit of its limit and a digit.                                   *)
(***************************************************************************)
EXTENDS Integers, Sequences

CONSTANT Digit   (* 16 *)

ASSUME DescriptorsAssumption == Digit \in Nat \ {0, 1}

(* Numbers of values of so many bits.                                      *)
Bits8  == Digit * Digit
Bits12 == Bits8 * Digit
Bits16 == Bits8 * Bits8
Bits24 == Bits8 * Bits16
Bits32 == Bits16 * Bits16

Byte(number, i) == (number \div <<1, Bits8, Bits16, Bits24>>[i + 1]) % Bits8
Numbers == 0 .. Bits32 - 1
AllMemory == Bits32 - 1

(* GlobalDescriptorTable::encodeEntry: a limit of more than 65536 counts   *)
(* pages of 4096 bytes.                                                    *)
EncodeSegment(base, limit, type) ==
  LET pages == limit > Bits16
      count == IF pages THEN limit \div Bits12 ELSE limit
  IN << Byte(count, 0), Byte(count, 1), Byte(base, 0), Byte(base, 1), Byte(base, 2),
        type, <<IF pages THEN "pages" ELSE "bytes", (count \div Bits16) % Digit>>,
        Byte(base, 3) >>

(* InterruptDescriptorTable::EncodeEntry *)
EncodeGate(selector, offset, typeAttr) ==
  << Byte(offset, 0), Byte(offset, 1), Byte(selector, 0), Byte(selector, 1),
     0, typeAttr, Byte(offset, 2), Byte(offset, 3) >>

(* X86::CPU::CPU; tss is the address and size of the task state segment    *)
SegmentTable(tss) ==
  << EncodeSegment(0, 0, "None"),
     EncodeSegment(0, AllMemory, "KernelCode"), EncodeSegment(0, AllMemory, "KernelData"),
     EncodeSegment(0, AllMemory, "UserCode"), EncodeSegment(0, AllMemory, "UserData"),
     EncodeSegment(tss[1], tss[2], "TSS") >>

KernelCodeSelector == 8

(* addISR: a gate that disables interrupts, to a stub                      *)
StubGate(stub) == EncodeGate(KernelCodeSelector, stub, "InterruptGate")

-----------------------------------------------------------------------------
(* What the CPU makes of them. *)

Joined(b, places) == b[places[1]] + b[places[2]] * Bits8

Segment(b) ==
  LET count == Joined(b, <<1, 2>>) + b[7][2] * Bits16
  IN [base |-> Joined(b, <<3, 4>>) + Joined(b, <<5, 8>>) * Bits16,
      limit |-> IF b[7][1] = "pages" THEN (count + 1) * Bits12 - 1 ELSE count,
      type |-> b[6]]

Gate(b) ==
  [selector |-> Joined(b, <<3, 4>>), type |-> b[6],
   offset |-> Joined(b, <<1, 2>>) + Joined(b, <<7, 8>>) * Bits16]

(* Every gate leads to its stub, through a segment of kernel code that is  *)
(* all of memory; and a segment is where it was put and as long as it was  *)
(* to be, up to the end of a page.                                         *)
GatesLeadToStubs ==
  /\ \A stub \in Numbers :
       LET gate == Gate(StubGate(stub))
           code == Segment(SegmentTable(<<stub, 104>>)[gate.selector \div 8 + 1])
       IN /\ gate.type = "InterruptGate"
          /\ code.type = "KernelCode"
          /\ code.base + gate.offset = stub
          /\ code.limit = AllMemory
  /\ \A n \in Numbers :
       /\ Segment(EncodeSegment(n, 1, "TSS")).base = n
       /\ LET limit == Segment(EncodeSegment(0, n, "TSS")).limit
          IN limit = IF n > Bits16 THEN (n \div Bits12 + 1) * Bits12 - 1 ELSE n
=============================================================================
