----------------------------- MODULE FrameProofs ----------------------------
(***************************************************************************)
(* Proofs about the page frame allocator, for every number of frames,      *)
(* every memory map and every size of request.                             *)
(***************************************************************************)
EXTENDS PageFrameAllocator, TLAPS

-----------------------------------------------------------------------------
(* Arithmetic of the memory map. *)

(* Rounding down: the whole frames of a length fit into it. *)
LEMMA WholeFrames ==
  ASSUME NEW a \in Nat, NEW c \in Nat \ {0}
  PROVE  /\ a \div c \in Nat
         /\ (a \div c) * c <= a
         /\ a % c = 0 => a = (a \div c) * c
  BY SMT

(* Multiplying by a positive number keeps and reflects the order. *)
LEMMA ScaleOrder ==
  ASSUME NEW a \in Nat, NEW b \in Nat, NEW c \in Nat \ {0}
  PROVE  /\ a <= b => a * c <= b * c
         /\ a * c < b * c => a < b
  <1>1. ASSUME a <= b PROVE a * c <= b * c
    <2>1. PICK k \in Nat : b = a + k
      <3>1. b - a \in Nat /\ b = a + (b - a)
        BY <1>1
      <3>2. QED
        BY <3>1
    <2>2. b * c = a * c + k * c /\ k * c \in Nat /\ a * c \in Nat
      BY <2>1
    <2>3. QED
      BY <2>2
  <1>2. ASSUME a * c < b * c, ~(a < b) PROVE FALSE
    <2>1. PICK k \in Nat : a = b + k
      <3>1. a - b \in Nat /\ a = b + (a - b)
        BY <1>2
      <3>2. QED
        BY <3>1
    <2>2. a * c = b * c + k * c /\ k * c \in Nat /\ b * c \in Nat
      BY <2>1
    <2>3. QED
      BY <2>2, <1>2
  <1>3. QED
    BY <1>1, <1>2

(* The frames that loadMemoryMap derives from an aligned type 1 entry lie  *)
(* wholly inside the entry, and are frames of the bitmap.                  *)
LEMMA RegionFramesFit ==
  ASSUME NEW r \in Region, r.addr % FrameSize = 0,
         r.addr + r.len < NumFrames * FrameSize,
         NEW f \in RegionFrames(r)
  PROVE  /\ f \in Frames
         /\ r.addr <= f * FrameSize
         /\ (f + 1) * FrameSize <= r.addr + r.len
  <1> DEFINE q == r.addr \div FrameSize
             s == r.len \div FrameSize
  <1>1. FrameSize \in Nat \ {0} /\ NumFrames \in Nat \ {0} /\ r.addr \in Nat /\ r.len \in Nat
    BY FramesAssumption DEF Region
  <1>2. q \in Nat /\ s \in Nat /\ r.addr = q * FrameSize /\ s * FrameSize <= r.len
    BY <1>1, WholeFrames
  <1> HIDE DEF q, s
  <1>3. f \in Nat /\ q <= f /\ f + 1 <= q + s
    BY <1>2 DEF RegionFrames, Run, q, s
  <1>4. q * FrameSize <= f * FrameSize
    BY <1>1, <1>2, <1>3, ScaleOrder
  <1>5. (f + 1) * FrameSize <= (q + s) * FrameSize
    BY <1>1, <1>2, <1>3, ScaleOrder
  <1>6. (q + s) * FrameSize = q * FrameSize + s * FrameSize
    BY <1>1, <1>2
  <1>7. /\ q * FrameSize \in Nat /\ s * FrameSize \in Nat /\ f * FrameSize \in Nat
        /\ (f + 1) * FrameSize \in Nat /\ NumFrames * FrameSize \in Nat
    BY <1>1, <1>2, <1>3
  <1>8. (f + 1) * FrameSize <= r.addr + r.len
    BY <1>1, <1>2, <1>5, <1>6, <1>7
  <1>9. (f + 1) * FrameSize < NumFrames * FrameSize
    BY <1>1, <1>7, <1>8
  <1>10. f + 1 < NumFrames
    BY <1>1, <1>3, <1>9, ScaleOrder
  <1>11. QED
    BY <1>1, <1>2, <1>3, <1>4, <1>8, <1>10 DEF Frames

-----------------------------------------------------------------------------
(* The inductive invariant of FrameClients.  In the boot phases `used' is  *)
(* the part of the kernel image reserved so far; once the kernel is up it  *)
(* is the image and the held runs.  Memory below 1 MiB is not usable from  *)
(* the reservation on, which keeps it out of every run.                    *)

HeldFrames == UNION {Run(b[1], b[2]) : b \in blocks}

BootInv ==
  /\ phase \in {"load", "reserve"} => blocks = {}
  /\ phase = "load" => used = {} /\ cursor # 0
  /\ phase = "reserve" => /\ cursor \in LowFrames .. KernelEnd + 1
                          /\ used = LowFrames .. cursor - 1
  /\ phase \in {"reserve", "up"} => usable \cap Run(0, LowFrames) = {}

ClientsInv ==
  /\ TypeOK
  /\ BootInv
  /\ NoFrameHandedOutTwice
  /\ phase = "up" => used = KernelFrames \cup HeldFrames
  /\ UsableIsRam

(* Every index of an available run is a usable, free frame. *)
LEMMA AvailableRun ==
  ASSUME usable \subseteq Frames, NEW f \in Int, NEW n \in Nat \ {0}, Available(f, n)
  PROVE  /\ Run(f, n) \subseteq usable
         /\ Run(f, n) \cap used = {}
         /\ f \in Frames
         /\ f + n - 1 \in Frames
  <1>1. \A g \in Run(f, n) : g \in usable /\ g \notin used
    BY DEF Available, UsableAndFree
  <1>2. f \in Run(f, n) /\ f + n - 1 \in Run(f, n)
    BY DEF Run
  <1>3. QED
    BY <1>1, <1>2

LEMMA ClientsInit == Init => ClientsInv
  BY FramesAssumption
  DEF Init, ClientsInv, TypeOK, BootInv, NoFrameHandedOutTwice, UsableIsRam, Frames

(* An entry of the memory map that is in use is a region the lemma on      *)
(* regions applies to.                                                     *)
LEMMA MapEntry ==
  ASSUME mmap \in MemoryMaps, NEW i \in 1 .. Len(mmap), mmap[i].type = 1,
         NEW f \in RegionFrames(mmap[i])
  PROVE  /\ f \in Frames
         /\ mmap[i].addr <= f * FrameSize
         /\ (f + 1) * FrameSize <= mmap[i].addr + mmap[i].len
  <1>1. mmap \in Seq(Region)
    BY ClientsAssumption
  <1>2. mmap[i] \in Region
    BY <1>1
  <1>3. mmap[i].addr % FrameSize = 0 /\ mmap[i].addr + mmap[i].len < NumFrames * FrameSize
    BY ClientsAssumption
  <1>4. QED
    BY <1>2, <1>3, RegionFramesFit

LEMMA LoadPreserves ==
  ASSUME ClientsInv, LoadNextRegion
  PROVE  ClientsInv'
  <1> USE DEF LoadNextRegion, LoadRegion
  <1>1. TypeOK /\ BootInv /\ NoFrameHandedOutTwice /\ UsableIsRam
    BY DEF ClientsInv
  <1>2. cursor \in 1 .. Len(mmap) /\ mmap \in MemoryMaps
    <2>1. mmap \in Seq(Region)
      BY <1>1, ClientsAssumption DEF TypeOK
    <2>2. Len(mmap) \in Nat
      BY <2>1
    <2>3. QED
      BY <1>1, <2>2 DEF TypeOK, BootInv
  <1>3. usable' \subseteq Frames /\ UsableIsRam'
    <2>1. CASE mmap[cursor].type = 1
      <3>1. \A f \in RegionFrames(mmap[cursor]) :
              /\ f \in Frames
              /\ mmap[cursor].addr <= f * FrameSize
              /\ (f + 1) * FrameSize <= mmap[cursor].addr + mmap[cursor].len
        BY <1>2, <2>1, MapEntry
      <3>2. usable' = usable \cup RegionFrames(mmap[cursor]) /\ mmap' = mmap
        BY <2>1
      <3>3. usable' \subseteq Frames
        BY <3>1, <3>2, <1>1 DEF TypeOK
      <3>4. UsableIsRam'
        BY <3>1, <3>2, <1>1, <1>2, <2>1 DEF UsableIsRam
      <3>5. QED
        BY <3>3, <3>4
    <2>2. CASE mmap[cursor].type # 1
      BY <2>2, <1>1 DEF TypeOK, UsableIsRam
    <2>3. QED
      BY <2>1, <2>2
  <1>4. TypeOK' /\ BootInv'
    BY <1>1, <1>3 DEF TypeOK, BootInv
  <1>5. NoFrameHandedOutTwice'
    BY <1>1 DEF NoFrameHandedOutTwice
  <1>6. QED
    BY <1>3, <1>4, <1>5 DEF ClientsInv

LEMMA BootPreserves ==
  ASSUME ClientsInv, ReserveLowMemory \/ ReserveKernelFrame \/ ReserveFails \/ BootDone
  PROVE  ClientsInv'
  <1>1. TypeOK /\ BootInv /\ NoFrameHandedOutTwice /\ UsableIsRam
    BY DEF ClientsInv
  <1>2. CASE ReserveLowMemory
    <2> USE <1>2 DEF ReserveLowMemory, MarkLowFramesUnusable
    <2>1. TypeOK'
      BY <1>1, FramesAssumption DEF TypeOK
    <2>2. BootInv'
      <3>1. used' = LowFrames .. cursor' - 1
        <4>1. LowFrames .. LowFrames - 1 = {}
          BY FramesAssumption
        <4>2. used' = {} /\ cursor' = LowFrames
          BY <1>1 DEF BootInv
        <4>3. QED
          BY <4>1, <4>2
      <3>2. cursor' \in LowFrames .. KernelEnd + 1
        BY FramesAssumption
      <3>3. usable' \cap Run(0, LowFrames) = {}
        OBVIOUS
      <3>4. QED
        BY <1>1, <3>1, <3>2, <3>3 DEF BootInv
    <2>3. NoFrameHandedOutTwice' /\ UsableIsRam'
      BY <1>1 DEF NoFrameHandedOutTwice, UsableIsRam
    <2>4. QED
      BY <2>1, <2>2, <2>3 DEF ClientsInv
  <1>3. CASE ReserveKernelFrame
    <2> USE <1>3 DEF ReserveKernelFrame, RequestFrame
    <2>1. TypeOK'
      BY <1>1, FramesAssumption DEF TypeOK, UsableAndFree
    <2>2. BootInv'
      <3>1. cursor \in Int /\ LowFrames \in Int /\ LowFrames <= cursor
        BY <1>1, FramesAssumption DEF BootInv
      <3>2. (LowFrames .. cursor - 1) \cup {cursor} = LowFrames .. cursor
        BY <3>1
      <3>3. used' = LowFrames .. cursor' - 1
        BY <1>1, <3>1, <3>2 DEF BootInv
      <3>4. cursor' \in LowFrames .. KernelEnd + 1
        BY <1>1, <3>1, FramesAssumption DEF BootInv
      <3>5. QED
        BY <1>1, <3>3, <3>4 DEF BootInv
    <2>3. NoFrameHandedOutTwice' /\ UsableIsRam'
      BY <1>1 DEF NoFrameHandedOutTwice, UsableIsRam
    <2>4. QED
      BY <2>1, <2>2, <2>3 DEF ClientsInv
  <1>4. CASE ReserveFails
    BY <1>1, <1>4 DEF ReserveFails, ClientsInv, TypeOK, BootInv, NoFrameHandedOutTwice, UsableIsRam
  <1>5. CASE BootDone
    <2> USE <1>5 DEF BootDone
    <2>1. TypeOK' /\ BootInv'
      BY <1>1 DEF TypeOK, BootInv
    <2>2. NoFrameHandedOutTwice' /\ UsableIsRam'
      BY <1>1 DEF NoFrameHandedOutTwice, UsableIsRam
    <2>3. used' = (KernelFrames \cup HeldFrames)'
      <3>1. blocks' = {} /\ used = LowFrames .. KernelEnd
        BY <1>1, FramesAssumption DEF BootInv
      <3>2. QED
        BY <3>1 DEF KernelFrames, HeldFrames
    <2>4. QED
      BY <2>1, <2>2, <2>3 DEF ClientsInv
  <1>6. QED
    BY <1>2, <1>3, <1>4, <1>5

(* A run that alloc may take avoids everything that is held, the kernel    *)
(* image and the memory below 1 MiB.                                       *)
LEMMA TakePreserves ==
  ASSUME ClientsInv, phase = "up", NEW n \in 1 .. MaxRun, NEW f \in Frames,
         Available(f, n), Take(f, n), blocks' = blocks \cup {<<f, n>>},
         UNCHANGED bootVars
  PROVE  ClientsInv'
  <1> USE DEF Take, bootVars
  <1>1. TypeOK /\ BootInv /\ NoFrameHandedOutTwice /\ UsableIsRam /\ used = KernelFrames \cup HeldFrames
    BY DEF ClientsInv
  <1>2. n \in Nat \ {0} /\ f \in Int
    BY ClientsAssumption, FramesAssumption DEF Frames
  <1>3. /\ Run(f, n) \subseteq usable
        /\ Run(f, n) \cap used = {}
        /\ f + n - 1 \in Frames
    BY <1>1, <1>2, AvailableRun DEF TypeOK
  <1>4. TypeOK'
    BY <1>1, <1>3 DEF TypeOK
  <1>5. BootInv' /\ UsableIsRam'
    BY <1>1 DEF BootInv, UsableIsRam
  <1>6. used' = (KernelFrames \cup HeldFrames)'
    <2>1. HeldFrames' = HeldFrames \cup Run(f, n)
      <3>1. <<f, n>>[1] = f /\ <<f, n>>[2] = n
        OBVIOUS
      <3>2. Run(f, n) \subseteq HeldFrames'
        BY <3>1 DEF HeldFrames
      <3>3. HeldFrames \subseteq HeldFrames'
        BY DEF HeldFrames
      <3>4. ASSUME NEW x \in HeldFrames' PROVE x \in HeldFrames \cup Run(f, n)
        <4>1. PICK b \in blocks' : x \in Run(b[1], b[2])
          BY <3>4 DEF HeldFrames
        <4>2. CASE b \in blocks
          BY <4>1, <4>2 DEF HeldFrames
        <4>3. CASE b = <<f, n>>
          BY <4>1, <4>3, <3>1
        <4>4. QED
          BY <4>1, <4>2, <4>3
      <3>5. QED
        BY <3>2, <3>3, <3>4
    <2>2. QED
      BY <2>1, <1>1 DEF KernelFrames
  <1>7. Run(f, n) \cap Run(0, KernelEnd + 1) = {}
    <2>1. Run(0, KernelEnd + 1) \subseteq Run(0, LowFrames) \cup KernelFrames
      BY FramesAssumption DEF Run, KernelFrames
    <2>2. Run(f, n) \cap KernelFrames = {}
      BY <1>1, <1>3
    <2>3. Run(f, n) \cap Run(0, LowFrames) = {}
      BY <1>1, <1>3 DEF BootInv
    <2>4. QED
      BY <2>1, <2>2, <2>3
  <1>8. \A b \in blocks : Run(f, n) \cap Run(b[1], b[2]) = {}
    <2>1. \A b \in blocks : Run(b[1], b[2]) \subseteq used
      BY <1>1 DEF HeldFrames
    <2>2. QED
      BY <2>1, <1>3
  <1>9. NoFrameHandedOutTwice'
    <2>1. \A b \in blocks' : b \in blocks \/ (b = <<f, n>> /\ b[1] = f /\ b[2] = n)
      OBVIOUS
    <2>2. QED
      BY <2>1, <1>1, <1>7, <1>8 DEF NoFrameHandedOutTwice
  <1>10. QED
    BY <1>4, <1>5, <1>6, <1>9 DEF ClientsInv

(* Giving a run back leaves the other runs alone. *)
LEMMA FreePreserves ==
  ASSUME ClientsInv, NEW b \in blocks, FreeBlock(b)
  PROVE  ClientsInv'
  <1> USE DEF FreeBlock, Free, bootVars
  <1>1. /\ TypeOK /\ BootInv /\ NoFrameHandedOutTwice /\ UsableIsRam
        /\ used = KernelFrames \cup HeldFrames
    BY DEF ClientsInv
  <1>2. TypeOK'
    BY <1>1 DEF TypeOK
  <1>3. BootInv' /\ UsableIsRam' /\ NoFrameHandedOutTwice'
    BY <1>1 DEF BootInv, UsableIsRam, NoFrameHandedOutTwice
  <1>4. used' = (KernelFrames \cup HeldFrames)'
    <2>1. Run(b[1], b[2]) \cap KernelFrames = {}
      <3>1. KernelFrames \subseteq Run(0, KernelEnd + 1)
        BY FramesAssumption DEF Run, KernelFrames
      <3>2. Run(b[1], b[2]) \cap Run(0, KernelEnd + 1) = {}
        BY <1>1 DEF NoFrameHandedOutTwice
      <3>3. QED
        BY <3>1, <3>2
    <2>2. \A c \in blocks' : Run(b[1], b[2]) \cap Run(c[1], c[2]) = {}
      BY <1>1 DEF NoFrameHandedOutTwice
    <2>3. HeldFrames = HeldFrames' \cup Run(b[1], b[2])
      BY DEF HeldFrames
    <2>4. Run(b[1], b[2]) \cap HeldFrames' = {}
      BY <2>2 DEF HeldFrames
    <2>5. used' = used \ Run(b[1], b[2]) /\ KernelFrames' = KernelFrames
      BY DEF KernelFrames
    <2>6. QED
      BY <2>1, <2>3, <2>4, <2>5, <1>1
  <1>5. QED
    BY <1>2, <1>3, <1>4 DEF ClientsInv

LEMMA ClientsStutter ==
  ASSUME ClientsInv, UNCHANGED vars
  PROVE  ClientsInv'
  BY DEF vars, ClientsInv, TypeOK, BootInv, NoFrameHandedOutTwice, HeldFrames, UsableIsRam, KernelFrames

LEMMA ClientsStep ==
  ASSUME ClientsInv, [Next]_vars
  PROVE  ClientsInv'
  <1>1. CASE LoadNextRegion
    BY <1>1, LoadPreserves
  <1>2. CASE ReserveLowMemory \/ ReserveKernelFrame \/ ReserveFails \/ BootDone
    BY <1>2, BootPreserves
  <1>3. ASSUME NEW n \in 1 .. MaxRun, AllocBlock(n) PROVE ClientsInv'
    <2>1. PICK f \in Frames : Alloc(n, f) /\ blocks' = blocks \cup {<<f, n>>}
      BY <1>3 DEF AllocBlock
    <2>2. Available(f, n) /\ Take(f, n) /\ phase = "up" /\ UNCHANGED bootVars
      BY <1>3, <2>1 DEF AllocBlock, Alloc, NextFit
    <2>3. QED
      BY <2>1, <2>2, TakePreserves
  <1>4. ASSUME NEW n \in 1 .. MaxRun, AllocFails(n) PROVE ClientsInv'
    BY <1>4 DEF AllocFails, ClientsInv, TypeOK, BootInv, NoFrameHandedOutTwice, UsableIsRam
  <1>5. ASSUME NEW block \in blocks, FreeBlock(block) PROVE ClientsInv'
    BY <1>5, FreePreserves
  <1>6. CASE UNCHANGED vars
    BY <1>6, ClientsStutter
  <1>7. QED
    BY <1>1, <1>2, <1>3, <1>4, <1>5, <1>6 DEF Next

(* The atomic allocator keeps its invariant. *)
THEOREM ClientsSafe == Spec => []ClientsInv
  <1>1. Init => ClientsInv
    BY ClientsInit
  <1>2. ClientsInv /\ [Next]_vars => ClientsInv'
    BY ClientsStep
  <1>3. QED
    BY <1>1, <1>2, PTL DEF Spec

-----------------------------------------------------------------------------
(* The loops of alloc.  While a call runs, the index lies in the part of   *)
(* memory its loop covers, and no index passed so far has room.            *)

SearchInv ==
  /\ search.loop = "idle" => search = Idle
  /\ search.loop # "idle" => phase \in {"up", "panic"} /\ search.n # 0
  /\ search.loop = "first" => lastAlloc <= search.i
  /\ search.loop = "second" => search.i <= lastAlloc

LoopInv == LoopTypeOK /\ SearchInv /\ RejectedHaveNoRoom

(* The bounds of a running call, in the terms of the action that runs it. *)
LEMMA SearchBounds ==
  ASSUME LoopInv
  PROVE  /\ lastAlloc \in Int /\ 0 <= lastAlloc /\ lastAlloc < NumFrames /\ NumFrames \in Nat
         /\ search.i \in Int /\ 0 <= search.i /\ search.i <= NumFrames
         /\ search.n \in 0 .. MaxRun
         /\ InRange => search.i \in Frames /\ search.n \in 1 .. MaxRun
  BY FramesAssumption, ClientsAssumption
  DEF LoopInv, LoopTypeOK, TypeOK, SearchInv, InRange, Frames

(* The index at which findFrames succeeds is the one next-fit asks for:    *)
(* everything before it, in the order of the loops, has been rejected.     *)
LEMMA FoundIsNextFit ==
  ASSUME LoopInv, InRange, Available(search.i, search.n)
  PROVE  NextFit(search.n, search.i)
  <1>1. search.i \in Frames
    BY SearchBounds
  <1>2. ASSUME NEW g \in Frames, Available(g, search.n)
        PROVE  Distance(search.i) <= Distance(g)
    <2>1. g \in Int /\ 0 <= g /\ g < NumFrames
      BY FramesAssumption DEF Frames
    <2>2. g \notin Rejected
      BY <1>2 DEF LoopInv, RejectedHaveNoRoom
    <2>3. CASE search.loop = "first"
      <3>1. search.i < NumFrames /\ lastAlloc <= search.i
        BY <2>3 DEF InRange, LoopInv, SearchInv
      <3>2. g \notin lastAlloc .. search.i - 1
        BY <2>2, <2>3 DEF Rejected
      <3>3. QED
        BY <2>1, <3>1, <3>2, SearchBounds DEF Distance
    <2>4. CASE search.loop = "second"
      <3>1. search.i < lastAlloc
        BY <2>4 DEF InRange
      <3>2. g \notin lastAlloc .. NumFrames - 1 /\ g \notin 0 .. search.i - 1
        BY <2>2, <2>4 DEF Rejected
      <3>3. QED
        BY <2>1, <3>1, <3>2, SearchBounds DEF Distance
    <2>5. QED
      BY <2>3, <2>4 DEF InRange
  <1>3. QED
    BY <1>1, <1>2 DEF NextFit

(* Each step of the loops is a step of the atomic allocator, or none.      *)
LEMMA LoopStepRefines ==
  ASSUME LoopInv, [LoopNext]_loopVars
  PROVE  [Next]_vars
  <1>1. CASE Boot
    BY <1>1 DEF Boot, Next
  <1>2. ASSUME NEW n \in 1 .. MaxRun, AllocCall(n) PROVE UNCHANGED vars
    BY <1>2 DEF AllocCall
  <1>3. CASE FoundFrames
    <2>1. NextFit(search.n, search.i)
      BY <1>3, FoundIsNextFit DEF FoundFrames
    <2>2. search.i \in Frames /\ search.n \in 1 .. MaxRun
      BY <1>3, SearchBounds DEF FoundFrames
    <2>3. AllocBlock(search.n)
      BY <1>3, <2>1, <2>2 DEF FoundFrames, AllocBlock, Alloc
    <2>4. QED
      BY <2>2, <2>3 DEF Next
  <1>4. CASE NotHere \/ CheckTheRest
    BY <1>4 DEF NotHere, CheckTheRest
  <1>5. CASE PanicOutOfMemory
    <2>1. search.loop = "second" /\ search.i = lastAlloc
      BY <1>5, SearchBounds DEF PanicOutOfMemory, InRange, LoopInv, SearchInv
    <2>2. \A f \in Frames : f \in Rejected
      BY <2>1, SearchBounds DEF Rejected, Frames
    <2>3. OutOfMemory(search.n)
      BY <2>2 DEF OutOfMemory, LoopInv, RejectedHaveNoRoom
    <2>4. search.n \in 1 .. MaxRun
      BY <2>1, SearchBounds, ClientsAssumption DEF LoopInv, SearchInv
    <2>5. AllocFails(search.n)
      BY <1>5, <2>3 DEF PanicOutOfMemory, AllocFails
    <2>6. QED
      BY <2>4, <2>5 DEF Next
  <1>6. ASSUME NEW block \in blocks, FreeCall(block) PROVE Next
    BY <1>6 DEF FreeCall, Next
  <1>7. CASE UNCHANGED loopVars
    BY <1>7 DEF loopVars, vars
  <1>8. QED
    BY <1>1, <1>2, <1>3, <1>4, <1>5, <1>6, <1>7 DEF LoopNext, AllocStep

(* A step that leaves the bitmaps and the search alone leaves what is      *)
(* known about the search alone.                                           *)
LEMMA SearchUntouched ==
  ASSUME SearchInv, RejectedHaveNoRoom, UNCHANGED <<usable, used, lastAlloc, search>>,
         phase' = phase \/ phase' \in {"up", "panic"}
  PROVE  SearchInv' /\ RejectedHaveNoRoom'
  <1>1. Rejected' = Rejected
    BY DEF Rejected
  <1>2. RejectedHaveNoRoom'
    BY <1>1 DEF RejectedHaveNoRoom, Available, UsableAndFree
  <1>3. QED
    BY <1>2 DEF SearchInv

(* While no call runs, nothing is claimed about the search. *)
LEMMA SearchIdle ==
  ASSUME search' = Idle
  PROVE  SearchInv' /\ RejectedHaveNoRoom'
  BY DEF Idle, SearchInv, RejectedHaveNoRoom, Rejected

LEMMA LoopStepSearch ==
  ASSUME LoopInv, ClientsInv, [LoopNext]_loopVars, TypeOK'
  PROVE  LoopInv'
  <1> DEFINE T == search' \in [loop : {"idle", "first", "second"}, n : 0 .. MaxRun, i : 0 .. NumFrames]
  <1> SUFFICES T /\ SearchInv' /\ RejectedHaveNoRoom'
    BY DEF LoopInv, LoopTypeOK
  <1>0. /\ TypeOK /\ SearchInv /\ RejectedHaveNoRoom
        /\ search \in [loop : {"idle", "first", "second"}, n : 0 .. MaxRun, i : 0 .. NumFrames]
        /\ NumFrames \in Nat /\ MaxRun \in Nat
    BY FramesAssumption, ClientsAssumption DEF LoopInv, LoopTypeOK
  <1>i. Idle \in [loop : {"idle", "first", "second"}, n : 0 .. MaxRun, i : 0 .. NumFrames]
    BY <1>0 DEF Idle
  <1>1. CASE Boot
    <2>1. search = Idle
      BY <1>0, <1>1 DEF Boot, LoadNextRegion, ReserveLowMemory, ReserveKernelFrame, ReserveFails,
                        BootDone, SearchInv
    <2>2. search' = Idle
      BY <1>1, <2>1 DEF Boot
    <2>3. QED
      BY <2>2, <1>i, SearchIdle
  <1>2. ASSUME NEW n \in 1 .. MaxRun, AllocCall(n) PROVE T /\ SearchInv' /\ RejectedHaveNoRoom'
    <2>1. /\ search' = [loop |-> "first", n |-> n, i |-> lastAlloc] /\ lastAlloc' = lastAlloc
          /\ phase' = "up" /\ lastAlloc \in Nat /\ lastAlloc < NumFrames
      BY <1>0, <1>2 DEF AllocCall, vars, TypeOK, Frames
    <2>2. T /\ SearchInv'
      BY <1>0, <2>1 DEF SearchInv
    <2>3. Rejected' = {}
      BY <2>1 DEF Rejected
    <2>4. QED
      BY <2>2, <2>3 DEF RejectedHaveNoRoom
  <1>3. CASE FoundFrames
    BY <1>3, <1>i, SearchIdle DEF FoundFrames
  <1>4. CASE NotHere
    <2>1. /\ search'.loop = search.loop /\ search'.n = search.n /\ search'.i = search.i + 1
          /\ InRange /\ ~Available(search.i, search.n) /\ UNCHANGED vars
          /\ phase = "up"
      BY <1>0, <1>4 DEF NotHere
    <2>2. search.loop \in {"first", "second"} /\ search.i < NumFrames
      BY <2>1, SearchBounds DEF InRange
    <2>3. T
      BY <1>0, <1>4, <2>2 DEF NotHere
    <2>4. SearchInv'
      BY <1>0, <2>1, <2>2, SearchBounds DEF SearchInv, InRange, vars
    <2>5. \A k \in Rejected' : k \in Rejected \/ k = search.i
      BY <2>1, <2>2, SearchBounds DEF Rejected, vars
    <2>6. RejectedHaveNoRoom'
      BY <1>0, <2>1, <2>5 DEF RejectedHaveNoRoom, Available, UsableAndFree, vars
    <2>7. QED
      BY <2>3, <2>4, <2>6
  <1>5. CASE CheckTheRest
    <2>1. /\ search.loop = "first" /\ search'.loop = "second" /\ search'.n = search.n /\ search'.i = 0
          /\ ~InRange /\ UNCHANGED vars /\ phase = "up"
      BY <1>0, <1>5 DEF CheckTheRest
    <2>2. search.i = NumFrames
      BY <2>1, SearchBounds DEF InRange
    <2>3. T
      <3>1. search' = [loop |-> "second", n |-> search.n, i |-> 0]
        BY <1>0, <1>5 DEF CheckTheRest
      <3>2. search.n \in 0 .. MaxRun /\ 0 \in 0 .. NumFrames
        BY <1>0
      <3>3. QED
        BY <3>1, <3>2
    <2>4. SearchInv'
      BY <1>0, <2>1, SearchBounds DEF SearchInv, vars
    <2>5. \A k \in Rejected' : k \in Rejected
      BY <2>1, <2>2, SearchBounds DEF Rejected, vars
    <2>6. RejectedHaveNoRoom'
      BY <1>0, <2>1, <2>5 DEF RejectedHaveNoRoom, Available, UsableAndFree, vars
    <2>7. QED
      BY <2>3, <2>4, <2>6
  <1>6. CASE PanicOutOfMemory
    BY <1>0, <1>6, SearchUntouched DEF PanicOutOfMemory
  <1>7. ASSUME NEW block \in blocks, FreeCall(block) PROVE T /\ SearchInv' /\ RejectedHaveNoRoom'
    BY <1>7, <1>i, SearchIdle DEF FreeCall
  <1>8. CASE UNCHANGED loopVars
    BY <1>0, <1>8, SearchUntouched DEF loopVars, vars
  <1>9. QED
    BY <1>1, <1>2, <1>3, <1>4, <1>5, <1>6, <1>7, <1>8 DEF LoopNext, AllocStep

(* The two loops of alloc keep their invariant on every machine. *)
THEOREM LoopSafe == LoopSpec => [](LoopInv /\ ClientsInv)
  <1>1. LoopInit => LoopInv /\ ClientsInv
    <2>1. ASSUME LoopInit PROVE LoopInv /\ ClientsInv
      <3>1. ClientsInv /\ search = Idle
        BY <2>1, ClientsInit DEF LoopInit
      <3>2. SearchInv /\ RejectedHaveNoRoom
        BY <3>1 DEF Idle, SearchInv, RejectedHaveNoRoom, Rejected
      <3>3. LoopTypeOK
        BY <3>1, FramesAssumption, ClientsAssumption DEF LoopTypeOK, ClientsInv, Idle
      <3>4. QED
        BY <3>1, <3>2, <3>3 DEF LoopInv
    <2>2. QED
      BY <2>1
  <1>2. (LoopInv /\ ClientsInv) /\ [LoopNext]_loopVars => (LoopInv /\ ClientsInv)'
    <2> SUFFICES ASSUME LoopInv, ClientsInv, [LoopNext]_loopVars PROVE LoopInv' /\ ClientsInv'
      OBVIOUS
    <2>1. ClientsInv'
      BY LoopStepRefines, ClientsStep
    <2>2. TypeOK'
      BY <2>1 DEF ClientsInv
    <2>3. QED
      BY <2>1, <2>2, LoopStepSearch
  <1>3. QED
    BY <1>1, <1>2, PTL DEF LoopSpec

(* The loops of alloc implement the atomic next-fit allocator: alloc       *)
(* returns what next-fit returns, and panics only when no run of n free    *)
(* frames exists.                                                          *)
THEOREM LoopsImplementNextFit == LoopSpec => ImplementsFrameClients
  <1>1. LoopInit => Init
    BY DEF LoopInit
  <1>2. LoopInv /\ [LoopNext]_loopVars => [Next]_vars
    BY LoopStepRefines
  <1>3. QED
    BY <1>1, <1>2, LoopSafe, PTL DEF LoopSpec, Spec, ImplementsFrameClients

(* The types hold, the index of the running loop stays inside the bitmap. *)
THEOREM TypesCorrect == LoopSpec => []LoopTypeOK
  <1>1. LoopInv => LoopTypeOK
    BY DEF LoopInv
  <1>2. QED
    BY <1>1, LoopSafe, PTL

(* alloc never hands out a frame that is held, part of the kernel image or *)
(* below 1 MiB.                                                            *)
THEOREM NoDoubleAllocation == LoopSpec => []NoFrameHandedOutTwice
  <1>1. ClientsInv => NoFrameHandedOutTwice
    BY DEF ClientsInv
  <1>2. QED
    BY <1>1, LoopSafe, PTL

(* alloc and free lose no frame and free none that is held. *)
THEOREM NoLeak == LoopSpec => []UsedIsHeld
  <1>1. ClientsInv => UsedIsHeld
    BY DEF ClientsInv, UsedIsHeld, HeldFrames
  <1>2. QED
    BY <1>1, LoopSafe, PTL

(* Only frames wholly inside RAM are ever marked usable by loadMemoryMap.  *)
THEOREM OnlyRamIsUsed == LoopSpec => []UsableIsRam
  <1>1. ClientsInv => UsableIsRam
    BY DEF ClientsInv
  <1>2. QED
    BY <1>1, LoopSafe, PTL

=============================================================================
