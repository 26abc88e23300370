------------------------- MODULE PageFrameAllocator -------------------------
(***************************************************************************)
(* PageFrameAllocator::alloc as the code runs it: two loops over the       *)
(* bitmap, one index per step.  The first runs from the end of the last    *)
(* allocation to the top of memory, the second from frame 0 to where the   *)
(* first began.  Boot and free are those of FrameClients.                  *)
(***************************************************************************)
EXTENDS FrameClients

VARIABLE
  search       (* the running call of alloc: which loop, for how many      *)
               (* frames, at which index                                   *)

loopVars == <<vars, search>>

Idle == [loop |-> "idle", n |-> 0, i |-> 0]

LoopInit == Init /\ search = Idle

(* alloc(n) is called; startIndex is the index of _lastAllocFrame, which   *)
(* does not change while the loops run.                                    *)
AllocCall(n) ==
  /\ phase = "up"
  /\ search = Idle
  /\ search' = [loop |-> "first", n |-> n, i |-> lastAlloc]
  /\ UNCHANGED vars

(* The condition of the loop that is running. *)
InRange ==
  \/ search.loop = "first" /\ search.i < NumFrames
  \/ search.loop = "second" /\ search.i < lastAlloc

(* findFrames(i) succeeds: the frames are taken and alloc returns. *)
FoundFrames ==
  /\ phase = "up"
  /\ InRange
  /\ Available(search.i, search.n)
  /\ Take(search.i, search.n)
  /\ blocks' = blocks \cup {<<search.i, search.n>>}
  /\ search' = Idle
  /\ UNCHANGED bootVars

(* findFrames(i) returns Nothing: ++i. *)
NotHere ==
  /\ phase = "up"
  /\ InRange
  /\ ~Available(search.i, search.n)
  /\ search' = [search EXCEPT !.i = @ + 1]
  /\ UNCHANGED vars

(* Mutant of CheckTheRest: no second loop.                                 *)
GiveUpAfterFirstLoop ==
  /\ phase = "up"
  /\ search.loop = "first"
  /\ ~InRange
  /\ phase' = "panic"
  /\ UNCHANGED <<usable, used, lastAlloc, mmap, cursor, blocks, search>>

(* The first loop is over: "check the rest". *)
CheckTheRest ==
  /\ phase = "up"
  /\ search.loop = "first"
  /\ ~InRange
  /\ search' = [search EXCEPT !.loop = "second", !.i = 0]
  /\ UNCHANGED vars

(* The second loop is over: kernel->panic. *)
PanicOutOfMemory ==
  /\ phase = "up"
  /\ search.loop = "second"
  /\ ~InRange
  /\ phase' = "panic"
  /\ UNCHANGED <<usable, used, lastAlloc, mmap, cursor, blocks, search>>

Boot ==
  /\ LoadNextRegion \/ ReserveLowMemory \/ ReserveKernelFrame \/ ReserveFails \/ BootDone
  /\ UNCHANGED search

FreeCall(block) ==
  /\ search = Idle
  /\ FreeBlock(block)
  /\ UNCHANGED search

AllocStep == FoundFrames \/ NotHere \/ CheckTheRest \/ PanicOutOfMemory

LoopNext ==
  \/ Boot
  \/ \E n \in 1 .. MaxRun : AllocCall(n)
  \/ AllocStep
  \/ \E block \in blocks : FreeCall(block)

LoopSpec == LoopInit /\ [][LoopNext]_loopVars

-----------------------------------------------------------------------------

(* Types of the search state, with those of the allocator. *)
LoopTypeOK ==
  /\ TypeOK
  /\ search \in [loop : {"idle", "first", "second"}, n : 0 .. MaxRun, i : 0 .. NumFrames]

(* The indices the two loops have already rejected. *)
Rejected ==
  CASE search.loop = "first"  -> lastAlloc .. search.i - 1
    [] search.loop = "second" -> (lastAlloc .. NumFrames - 1) \cup (0 .. search.i - 1)
    [] OTHER                  -> {}

(* No index that the loops have passed could have satisfied the request:   *)
(* a panic of alloc means that memory really has no run of n free frames.  *)
RejectedHaveNoRoom ==
  \A i \in Rejected : ~Available(i, search.n)

(* The two loops deliver exactly what an atomic next-fit allocator would,  *)
(* and panic only when such an allocator has nothing to deliver.           *)
ImplementsFrameClients == Spec

=============================================================================
