------------------------ MODULE MCPageFrameAllocator ------------------------
(* A machine of eight frames whose memory map is one of four: RAM in one   *)
(* piece, RAM with a hole, RAM that ends inside a frame, and a map in      *)
(* which part of the kernel image is not RAM.                              *)
EXTENDS PageFrameAllocator

Entry(a, l, t) == [addr |-> a, len |-> l, type |-> t]

MCMemoryMaps ==
  { << Entry(0, 14, 1) >>,
    << Entry(0, 1, 1), Entry(2, 7, 1), Entry(10, 2, 2), Entry(12, 3, 1) >>,
    << Entry(2, 11, 1), Entry(14, 2, 2) >>,
    << Entry(0, 4, 1), Entry(8, 6, 1) >> }

=============================================================================
