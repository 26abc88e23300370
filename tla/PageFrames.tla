----------------------------- MODULE PageFrames -----------------------------
(***************************************************************************)
(* The state and the operations of PageFrameAllocator                      *)
(* (kernel/src/arch/i386/mem/PageFrameAllocator.cpp): one bit per physical *)
(* frame saying that it is RAM the kernel may use, one bit saying that it  *)
(* is taken, and the frame at which the last allocation ended.             *)
(*                                                                         *)
(* A frame is its index (frame_to_index); addresses only appear in the     *)
(* memory map, in units of which FrameSize make up a frame.                *)
(***************************************************************************)
EXTENDS Integers, Sequences

CONSTANTS
  NumFrames,   (* kPagesInBitmap                                           *)
  FrameSize,   (* address units per frame (0x1000 bytes in the code)       *)
  LowFrames,   (* number of frames below 1 MiB                             *)
  KernelEnd    (* index of the frame that holds the address kernel_end     *)

ASSUME FramesAssumption ==
  /\ NumFrames \in Nat \ {0}
  /\ FrameSize \in Nat \ {0}
  /\ LowFrames \in Nat
  /\ KernelEnd \in Nat
  /\ LowFrames <= KernelEnd
  /\ KernelEnd < NumFrames

VARIABLES
  usable,      (* Bitmap::usable, as the set of the frames whose bit is 1  *)
  used,        (* Bitmap::used, likewise                                   *)
  lastAlloc    (* index of _lastAllocFrame                                 *)

frameVars == <<usable, used, lastAlloc>>

Frames == 0 .. NumFrames - 1

(* The n frames from first on. *)
Run(first, n) == first .. first + n - 1

(* An entry of the multiboot memory map. *)
Region == [addr : Nat, len : Nat, type : Nat]

(* Mutant of RegionFrames: the length is rounded up.                       *)
RegionFramesRoundedUp(region) ==
  Run(region.addr \div FrameSize, (region.len + FrameSize - 1) \div FrameSize)

(* The frames loadMemoryMap derives from an entry: both divisions round    *)
(* down.                                                                   *)
RegionFrames(region) ==
  Run(region.addr \div FrameSize, region.len \div FrameSize)

(* One iteration of Bitmap::loadMemoryMap. *)
LoadRegion(region) ==
  /\ usable' = IF region.type = 1 THEN usable \cup RegionFrames(region) ELSE usable
  /\ UNCHANGED <<used, lastAlloc>>

(* The first loop of the MMU constructor: markFrameUsable(i, false) for    *)
(* every frame below 1 MiB.                                                *)
MarkLowFramesUnusable ==
  /\ usable' = usable \ Run(0, LowFrames)
  /\ UNCHANGED <<used, lastAlloc>>

UsableAndFree(i) == i \in usable /\ i \notin used

(* requestFrame: reports failure, and changes nothing, when the frame is   *)
(* not usable or is taken.                                                 *)
RequestFrame(i) ==
  /\ UsableAndFree(i)
  /\ used' = used \cup {i}
  /\ UNCHANGED <<usable, lastAlloc>>

(* Mutant of Available: `found = ' where the code has `found &= '.         *)
AvailableLastFrame(i, n) == UsableAndFree(i + n - 1)

(* The test of alloc's lambda findFrames: n consecutive free frames.       *)
Available(i, n) == \A f \in Run(i, n) : UsableAndFree(f)

(* How many indices alloc's two loops visit before they come to i: from    *)
(* the end of the last allocation to the top, then from 0.                 *)
Distance(i) == IF i >= lastAlloc THEN i - lastAlloc ELSE i - lastAlloc + NumFrames

(* The frame alloc(n) returns. *)
NextFit(n, f) ==
  /\ f \in Frames
  /\ Available(f, n)
  /\ \A g \in Frames : Available(g, n) => Distance(f) <= Distance(g)

(* findFrames has found n frames at f: it takes them. *)
Take(f, n) ==
  /\ used' = used \cup Run(f, n)
  /\ lastAlloc' = f + n - 1
  /\ UNCHANGED usable

Alloc(n, f) == NextFit(n, f) /\ Take(f, n)

(* Both loops ran to their end: alloc panics. *)
OutOfMemory(n) == \A f \in Frames : ~Available(f, n)

(* Mutant of Free: only the first frame of the run is given back.          *)
FreeFirstFrame(f, n) ==
  /\ used' = used \ {f}
  /\ UNCHANGED <<usable, lastAlloc>>

(* free clears the bits without looking at them. *)
Free(f, n) ==
  /\ used' = used \ Run(f, n)
  /\ UNCHANGED <<usable, lastAlloc>>

=============================================================================
