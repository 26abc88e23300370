------------------------------- MODULE MCMMU --------------------------------
(* Tables of four entries; ten frames, of which the first is below 1 MiB,  *)
(* the next two hold the kernel image and the last is not RAM.  Install    *)
(* makes two tables; the third is made by the clients' calls, which have   *)
(* two or three frames between them.                                       *)
EXTENDS MMU

(* The smaller memories run out while the kernel boots.                    *)
MCRams == {0 .. 8, 0 .. 7, 0 .. 4, 0 .. 3, 0 .. 2}
=============================================================================
