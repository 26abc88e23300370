---------------------------- MODULE FrameClients ----------------------------
(***************************************************************************)
(* What the page frame allocator promises the kernel: a boot sequence that *)
(* learns the memory map and reserves the kernel image, then clients that  *)
(* take runs of frames and give back runs they hold, each call in a single *)
(* step.  PageFrameAllocator refines this specification.                   *)
(***************************************************************************)
EXTENDS PageFrames

CONSTANTS
  MemoryMaps,  (* the memory maps a boot loader may pass                   *)
  MaxRun       (* bound: the largest numberOfFrames a client asks for      *)

ASSUME ClientsAssumption ==
  /\ MaxRun \in Nat \ {0}
  /\ MemoryMaps \subseteq Seq(Region)
  /\ \A map \in MemoryMaps : \A i \in 1 .. Len(map) :
       /\ map[i].addr % FrameSize = 0
       /\ map[i].type = 1 => map[i].addr + map[i].len < NumFrames * FrameSize

VARIABLES
  mmap,        (* the memory map of this machine                           *)
  phase,       (* "load", "reserve", "up" or "panic"                       *)
  cursor,      (* loop variable of the boot loops: entry or frame          *)
  blocks       (* the runs that clients hold: <<first frame, length>>      *)

bootVars == <<mmap, phase, cursor>>

vars == <<usable, used, lastAlloc, mmap, phase, cursor, blocks>>

KernelFrames == LowFrames .. KernelEnd

Init ==
  /\ mmap \in MemoryMaps
  /\ usable = {}
  /\ used = {}
  /\ lastAlloc = 0
  /\ phase = "load"
  /\ cursor = 1
  /\ blocks = {}

(* Bitmap::loadMemoryMap takes the next entry of the map. *)
LoadNextRegion ==
  /\ phase = "load"
  /\ cursor <= Len(mmap)
  /\ LoadRegion(mmap[cursor])
  /\ cursor' = cursor + 1
  /\ UNCHANGED <<mmap, phase, blocks>>

(* The map is read: the constructor's first loop. *)
ReserveLowMemory ==
  /\ phase = "load"
  /\ cursor > Len(mmap)
  /\ MarkLowFramesUnusable
  /\ phase' = "reserve"
  /\ cursor' = LowFrames
  /\ UNCHANGED <<mmap, blocks>>

(* The constructor's second loop takes the next frame of the kernel image. *)
ReserveKernelFrame ==
  /\ phase = "reserve"
  /\ cursor <= KernelEnd
  /\ RequestFrame(cursor)
  /\ cursor' = cursor + 1
  /\ UNCHANGED <<mmap, phase, blocks>>

(* ... or panics because that frame is not RAM. *)
ReserveFails ==
  /\ phase = "reserve"
  /\ cursor <= KernelEnd
  /\ ~UsableAndFree(cursor)
  /\ phase' = "panic"
  /\ UNCHANGED <<usable, used, lastAlloc, mmap, cursor, blocks>>

BootDone ==
  /\ phase = "reserve"
  /\ cursor > KernelEnd
  /\ phase' = "up"
  /\ UNCHANGED <<usable, used, lastAlloc, mmap, cursor, blocks>>

AllocBlock(n) ==
  /\ phase = "up"
  /\ \E f \in Frames : Alloc(n, f) /\ blocks' = blocks \cup {<<f, n>>}
  /\ UNCHANGED bootVars

AllocFails(n) ==
  /\ phase = "up"
  /\ OutOfMemory(n)
  /\ phase' = "panic"
  /\ UNCHANGED <<usable, used, lastAlloc, mmap, cursor, blocks>>

(* A client gives back a run it holds. *)
FreeBlock(block) ==
  /\ phase = "up"
  /\ Free(block[1], block[2])
  /\ blocks' = blocks \ {block}
  /\ UNCHANGED bootVars

Next ==
  \/ LoadNextRegion
  \/ ReserveLowMemory
  \/ ReserveKernelFrame
  \/ ReserveFails
  \/ BootDone
  \/ \E n \in 1 .. MaxRun : AllocBlock(n) \/ AllocFails(n)
  \/ \E block \in blocks : FreeBlock(block)

Spec == Init /\ [][Next]_vars

-----------------------------------------------------------------------------

(* Types of the state. *)
TypeOK ==
  /\ usable \subseteq Frames
  /\ used \subseteq Frames
  /\ lastAlloc \in Frames
  /\ mmap \in MemoryMaps
  /\ phase \in {"load", "reserve", "up", "panic"}
  /\ cursor \in Nat
  /\ blocks \subseteq Frames \X (1 .. MaxRun)

(* No frame is handed out twice: the runs that clients hold never overlap  *)
(* each other (alloc must see every earlier allocation), nor the kernel    *)
(* image, nor the memory below 1 MiB.                                      *)
NoFrameHandedOutTwice ==
  /\ \A b, c \in blocks : b # c => Run(b[1], b[2]) \cap Run(c[1], c[2]) = {}
  /\ \A b \in blocks : Run(b[1], b[2]) \cap Run(0, KernelEnd + 1) = {}

(* Once the kernel is up, the bits of `used' are exactly the kernel image  *)
(* and the held runs: nothing leaks and nothing that is held can be taken. *)
UsedIsHeld ==
  phase = "up" =>
    used = KernelFrames \cup UNION {Run(b[1], b[2]) : b \in blocks}

(* Every frame marked usable lies wholly inside a type 1 entry of the      *)
(* memory map, whatever the rounding in loadMemoryMap.                     *)
UsableIsRam ==
  \A f \in usable : \E i \in 1 .. Len(mmap) :
    /\ mmap[i].type = 1
    /\ mmap[i].addr <= f * FrameSize
    /\ (f + 1) * FrameSize <= mmap[i].addr + mmap[i].len

=============================================================================
