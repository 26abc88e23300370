----------------------------- MODULE Executable -----------------------------
(***************************************************************************)
(* The program loader (kernel/src/proc/elf/Executable.cpp): an object      *)
(* reads a binary's program headers, maps its segments when the program is *)
(* first executed and unmaps them when it is destroyed.  It is a client of *)
(* the MMU next to the heap, which may take and give back pages while a    *)
(* load is under way, if only because the loader's own list allocates.     *)
(*                                                                         *)
(* One step is one segment.  A page is a virtual page, a size a number of  *)
(* units of which PageUnits make up a page.                                *)
(***************************************************************************)
EXTENDS Integers, Sequences

CONSTANTS
  Objects,     (* the Executable objects that exist at a time              *)
  Pages,       (* bound: the virtual pages                                 *)
  PageUnits,   (* units per page (0x1000 bytes in the code)                *)
  Images       (* the binaries: their program headers                      *)

(* A program header: the page of its address, whether the address is the   *)
(* page's first, whether its alignment is 0x1000, and its size in memory.  *)
Header == [known : BOOLEAN, page : Nat, onPage : BOOLEAN, aligned : BOOLEAN, size : Nat]

ASSUME ExecutableAssumption ==
  /\ "heap" \notin Objects
  /\ Pages \subseteq Nat \ {0}
  /\ PageUnits \in Nat \ {0}
  /\ Images \subseteq Seq(Header)

VARIABLES
  object,      (* the objects: their segments and _isLoaded                *)
  mapped,      (* the pages that are present                               *)
  blocks,      (* the runs of pages given out and not yet given back       *)
  loader       (* the call in progress, and loadSegments' cleanup list     *)

loaderVars == <<object, mapped, blocks, loader>>

Absent == [segments |-> <<>>, loaded |-> FALSE]
LoaderCall(name, e) == [name |-> name, obj |-> e, i |-> 1, cleanup |-> <<>>]
NoLoad == LoaderCall("idle", "none")

(* A run of pages and who was given it: an object, or the heap. *)
Block(owner, first, n) == [owner |-> owner, first |-> first, n |-> n]
PagesOf(b) == b.first .. b.first + b.n - 1
Heap == "heap"

LoaderInit ==
  /\ object = [e \in Objects |-> Absent]
  /\ mapped = {}
  /\ blocks = {}
  /\ loader = NoLoad

(* The constructor: loadSections and loadProgramSegments.  A segment or a  *)
(* section (which is not used further) of an unknown type is a panic.      *)
ConstructExecutable(e, image) ==
  /\ loader = NoLoad
  /\ object[e] = Absent
  /\ \/ /\ \A i \in DOMAIN image : image[i].known
        /\ object' = [object EXCEPT ![e] = [segments |-> image, loaded |-> FALSE]]
        /\ UNCHANGED loader
     \/ /\ \E i \in DOMAIN image : ~image[i].known
        /\ loader' = LoaderCall("panic", e)
        /\ UNCHANGED object
  /\ UNCHANGED <<mapped, blocks>>

(* The move constructor: the new object answers for the pages. *)
MoveConstruct(from, to) ==
  /\ loader = NoLoad
  /\ object[from] # Absent
  /\ object[to] = Absent
  /\ object' = [object EXCEPT ![to] = object[from], ![from] = Absent]
  /\ blocks' = {IF b.owner = from THEN [b EXCEPT !.owner = to] ELSE b : b \in blocks}
  /\ UNCHANGED <<mapped, loader>>

-----------------------------------------------------------------------------
(* exec and loadSegments. *)

SegmentAt == object[loader.obj].segments[loader.i]
AllSegmentsDone == loader.i > Len(object[loader.obj].segments)

(* memorySize / 0x1000, rounded up. *)
PageCount(s) == s.size \div PageUnits + (IF s.size % PageUnits # 0 THEN 1 ELSE 0)

(* A segment that takes memory is aligned to pages, as programs/link.ld    *)
(* lays them out, and its pages can be mapped.                             *)
ASSUME ImagesAssumption ==
  \A image \in Images : \A i \in DOMAIN image :
    LET s == image[i]
    IN  s.size > 0 => s.aligned /\ (s.page .. s.page + PageCount(s) - 1) \subseteq Pages

(* exec, which begins with loadSegments; a loaded program just runs.       *)
Exec(e) ==
  /\ loader = NoLoad
  /\ object[e] # Absent
  /\ loader' = LoaderCall(IF object[e].loaded THEN "running" ELSE "load", e)
  /\ UNCHANGED <<object, mapped, blocks>>

(* A segment with another alignment is passed over. *)
SkipSegment ==
  /\ loader.name = "load"
  /\ ~AllSegmentsDone
  /\ ~SegmentAt.aligned
  /\ loader' = [loader EXCEPT !.i = @ + 1]
  /\ UNCHANGED <<object, mapped, blocks>>

(* kernel->palloc(vaddress, pages) returns NULL for an address that is not *)
(* on a page, and when a page of the run is present.                       *)
PallocFails(s) ==
  \/ ~s.onPage
  \/ \E p \in PagesOf(Block(Heap, s.page, PageCount(s))) : p \in mapped

(* The segment's pages are mapped and filled, and entered into cleanup.    *)
LoadSegment ==
  /\ loader.name = "load"
  /\ ~AllSegmentsDone
  /\ SegmentAt.aligned
  /\ ~PallocFails(SegmentAt)
  /\ LET b == Block(loader.obj, SegmentAt.page, PageCount(SegmentAt))
     IN  /\ mapped' = mapped \cup PagesOf(b)
         /\ blocks' = IF b.n = 0 THEN blocks ELSE blocks \cup {b}
         /\ loader' = [loader EXCEPT !.i = @ + 1, !.cleanup = Append(@, b)]
  /\ UNCHANGED object

(* palloc panics when the frames run out. *)
OutOfFrames ==
  /\ loader.name = "load"
  /\ ~AllSegmentsDone
  /\ SegmentAt.aligned
  /\ ~PallocFails(SegmentAt)
  /\ loader' = LoaderCall("panic", loader.obj)
  /\ UNCHANGED <<object, mapped, blocks>>

(* Mutant of LoadFails: the segments loaded so far are left behind.        *)
LoadFailsNoCleanup ==
  /\ loader.name = "load"
  /\ ~AllSegmentsDone
  /\ SegmentAt.aligned
  /\ PallocFails(SegmentAt)
  /\ loader' = NoLoad
  /\ UNCHANGED <<object, mapped, blocks>>

(* return false: the destructor of cleanup runs, then exec returns -1.     *)
LoadFails ==
  /\ loader.name = "load"
  /\ ~AllSegmentsDone
  /\ SegmentAt.aligned
  /\ PallocFails(SegmentAt)
  /\ loader' = [loader EXCEPT !.name = "cleanup"]
  /\ UNCHANGED <<object, mapped, blocks>>

(* pfree does not look at what is mapped. *)
Pfree(b) ==
  /\ mapped' = mapped \ PagesOf(b)
  /\ blocks' = blocks \ {b}

(* ~SegmentRAII, for the next node of the list. *)
CleanUpSegment ==
  /\ loader.name = "cleanup"
  /\ loader.cleanup # <<>>
  /\ Pfree(Head(loader.cleanup))
  /\ loader' = [loader EXCEPT !.cleanup = Tail(@)]
  /\ UNCHANGED object

CleanUpDone ==
  /\ loader.name = "cleanup"
  /\ loader.cleanup = <<>>
  /\ loader' = NoLoad
  /\ UNCHANGED <<object, mapped, blocks>>

(* All segments are there: cleanup is disarmed and the program entered.    *)
LoadDone ==
  /\ loader.name = "load"
  /\ AllSegmentsDone
  /\ object' = [object EXCEPT ![loader.obj].loaded = TRUE]
  /\ loader' = LoaderCall("running", loader.obj)
  /\ UNCHANGED <<mapped, blocks>>

ProgramReturns ==
  /\ loader.name = "running"
  /\ loader' = NoLoad
  /\ UNCHANGED <<object, mapped, blocks>>

-----------------------------------------------------------------------------
(* unloadSegments and the destructor. *)

(* unloadSegments: nothing to do unless the program is loaded. *)
Unload(e) ==
  /\ loader = NoLoad
  /\ object[e].loaded
  /\ loader' = LoaderCall("unload", e)
  /\ UNCHANGED <<object, mapped, blocks>>

(* The destructor, which unloads first. *)
DestroyExecutable(e) ==
  /\ loader = NoLoad
  /\ object[e] # Absent
  /\ \/ /\ object[e].loaded
        /\ loader' = LoaderCall("destroy", e)
        /\ UNCHANGED object
     \/ /\ ~object[e].loaded
        /\ object' = [object EXCEPT ![e] = Absent]
        /\ UNCHANGED loader
  /\ UNCHANGED <<mapped, blocks>>

Unloading == loader.name \in {"unload", "destroy"}

(* Mutant of UnloadPages: the last, partial page is forgotten.             *)
UnloadPagesRoundedDown == SegmentAt.size \div PageUnits

(* The number of pages unloadSegments frees for a segment. *)
UnloadPages == PageCount(SegmentAt)

(* Every segment is freed, whatever its alignment. *)
UnloadSegment ==
  /\ Unloading
  /\ ~AllSegmentsDone
  /\ UnloadPages # 0
  /\ Pfree(Block(loader.obj, SegmentAt.page, UnloadPages))
  /\ loader' = [loader EXCEPT !.i = @ + 1]
  /\ UNCHANGED object

(* pfree of no pages is an error, and that is a panic. *)
UnloadPanics ==
  /\ Unloading
  /\ ~AllSegmentsDone
  /\ UnloadPages = 0
  /\ loader' = LoaderCall("unloadPanic", loader.obj)
  /\ UNCHANGED <<object, mapped, blocks>>

UnloadDone ==
  /\ Unloading
  /\ AllSegmentsDone
  /\ object' = [object EXCEPT ![loader.obj] = IF loader.name = "destroy" THEN Absent
                                            ELSE [@ EXCEPT !.loaded = FALSE]]
  /\ loader' = NoLoad
  /\ UNCHANGED <<mapped, blocks>>

-----------------------------------------------------------------------------
(* The heap, a client of the MMU of its own: one page at a time.           *)

Panicked == loader.name \in {"panic", "unloadPanic"}

HeapTakes(p) ==
  /\ ~Panicked
  /\ p \notin mapped
  /\ mapped' = mapped \cup {p}
  /\ blocks' = blocks \cup {Block(Heap, p, 1)}
  /\ UNCHANGED <<object, loader>>

HeapGivesBack(b) ==
  /\ ~Panicked
  /\ b.owner = Heap
  /\ Pfree(b)
  /\ UNCHANGED <<object, loader>>

CallStep ==
  \/ SkipSegment \/ LoadSegment \/ OutOfFrames \/ LoadFails \/ CleanUpSegment \/ CleanUpDone
  \/ LoadDone \/ ProgramReturns
  \/ UnloadSegment \/ UnloadPanics \/ UnloadDone

LoaderNext ==
  \/ CallStep
  \/ \E e \in Objects, image \in Images : ConstructExecutable(e, image)
  \/ \E from, to \in Objects : MoveConstruct(from, to)
  \/ \E e \in Objects : Exec(e) \/ Unload(e) \/ DestroyExecutable(e)
  \/ \E p \in Pages : HeapTakes(p)
  \/ \E b \in blocks : HeapGivesBack(b)

LoaderSpec == LoaderInit /\ [][LoaderNext]_loaderVars

-----------------------------------------------------------------------------

CallNames == {"idle", "load", "cleanup", "running", "unload", "destroy", "panic", "unloadPanic"}

(* Types of the state; what the cleanup list would free is held. *)
LoaderTypeOK ==
  /\ object \in [Objects -> [segments : Images \cup {<<>>}, loaded : BOOLEAN]]
  /\ mapped \subseteq Pages
  /\ blocks \subseteq [owner : Objects \cup {Heap}, first : Pages, n : Nat \ {0}]
  /\ loader.name \in CallNames
  /\ loader.obj \in Objects \cup {"none"}
  /\ loader.i \in Nat
  /\ \A k \in DOMAIN loader.cleanup : loader.cleanup[k].n = 0 \/ loader.cleanup[k] \in blocks

(* The pages that are present are exactly those of the runs given out, and *)
(* no page is in two of them: loader and heap free what they were given,   *)
(* whole, and once.  This is what module MMU assumes of its clients.       *)
MappedIsHeld ==
  /\ LoaderTypeOK
  /\ mapped = UNION {PagesOf(b) : b \in blocks}
  /\ \A b, c \in blocks : b # c => PagesOf(b) \cap PagesOf(c) = {}

(* The runs of pages that an object's page-aligned segments take. *)
SegmentBlocks(e) ==
  LET segments == {object[e].segments[i] : i \in DOMAIN object[e].segments}
  IN  {Block(e, s.page, PageCount(s)) : s \in {s \in segments : s.aligned /\ s.size > 0}}

(* Between calls, and while a program runs, a loaded program has all the   *)
(* pages of its page-aligned segments and a program that is not loaded has *)
(* none, whether its load failed half way, it was unloaded, moved or       *)
(* destroyed, and whatever the heap and other programs did meanwhile.      *)
LoadIsAllOrNothing ==
  loader.name \in {"idle", "running"} => \A e \in Objects :
    {b \in blocks : b.owner = e} = IF object[e].loaded THEN SegmentBlocks(e) ELSE {}

(* Executable.hpp: unloadSegments returns "`true` if the segments are      *)
(* unloaded, `false` otherwise"; it does not bring the kernel down.        *)
UnloadReturns == loader.name # "unloadPanic"

=============================================================================
