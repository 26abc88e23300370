-------------------------------- MODULE MMU ---------------------------------
(***************************************************************************)
(* The memory management unit (kernel/src/arch/i386/mem/MMU.cpp) on top of *)
(* the page frame allocator: X86Kernel::installMMU creates and installs a  *)
(* page directory, then clients call palloc and pfree.                     *)
(*                                                                         *)
(* Physical memory is modelled: a frame holds a table of entries, and page *)
(* tables and the directory are frames like any other.  Tables are reached *)
(* the way the code reaches them, through the directory's last entry,      *)
(* which points back at the directory (kPDESelfMapIndex).  A page number   *)
(* is directory index * Entries + table index.                             *)
(*                                                                         *)
(* One step is one iteration of a loop of the code, so that running out of *)
(* memory stops a call half way, as it does there.  No interrupt handler   *)
(* touches this state.                                                     *)
(***************************************************************************)
EXTENDS PageFrames

CONSTANTS
  Entries,     (* entries per table (1024)                                 *)
  ReadOnlyEnd, (* index of the frame that holds the address readonly_end   *)
  VGAPage,     (* kVGAPage                                                 *)
  Rams,        (* the sets of frames that a memory map may mark usable     *)
  PageCounts,  (* bound: the numberOfPages of the clients' calls           *)
  Values       (* bound: what clients store                                *)

ASSUME MMUAssumption ==
  /\ Entries \in Nat \ {0, 1}
  /\ NumFrames <= Entries * (Entries - 1)
  /\ ReadOnlyEnd \in Run(LowFrames, KernelEnd + 1 - LowFrames)
  /\ VGAPage \in Run(0, LowFrames)
  /\ \A ram \in Rams : /\ ram \subseteq Frames \ {NumFrames - 1}
                       /\ LowFrames .. KernelEnd \subseteq ram
  /\ PageCounts \subseteq Nat \ {0}
  /\ Values \subseteq Frames

VARIABLES
  mem,         (* the tables in physical memory: frame, then index         *)
  cr3,         (* frame of the page directory                              *)
  call,        (* the call in progress                                     *)
  boot,        (* local variables of install                               *)
  tlb,         (* a translation the processor has cached                   *)
  held         (* the runs of pages that clients hold: <<first, length>>   *)

mmuVars == <<usable, used, lastAlloc, mem, cr3, call, boot, tlb, held>>

Index == 0 .. Entries - 1
Pages == 0 .. Entries * Entries - 1
Self == Entries - 1                       \* kPDESelfMapIndex
KernelFrames == LowFrames .. KernelEnd

(* PageEntry: an address and the two flag bits the kernel sets. *)
PageEntry == [frame : Frames, present : BOOLEAN, rw : BOOLEAN]
NoEntry == [frame |-> 0, present |-> FALSE, rw |-> FALSE]
PresentEntry(f) == [frame |-> f, present |-> TRUE, rw |-> TRUE]

EmptyTable == [i \in Index |-> NoEntry]   \* PageTable::clear

(* What a client's store leaves in a frame: read as a table, it is one     *)
(* whose entries point at some frame.                                      *)
Stored(v) == [i \in Index |-> PresentEntry(v)]

(* Nothing, in the place of a frame. *)
None == NumFrames

NoTranslation == [page |-> Entries * Entries, frame |-> None]

(* A call of the MMU in progress: which one, for which pages, how far its  *)
(* loop has come, and palloc's count of contiguous free pages.             *)
Call(name, first, n) == [name |-> name, first |-> first, n |-> n, i |-> 0, found |-> 0]
Idle == Call("idle", 0, 0)
Panicked == Call("panic", 0, 0)

NoBoot == [frame |-> 0, last |-> 0, table |-> None, dir |-> 0]

-----------------------------------------------------------------------------
(* The translation. *)

(* PageTableForDirectoryIndex: the frame that appears at 0xFFC00000 +      *)
(* d * 0x1000.                                                             *)
TableFrame(d) == mem[mem[cr3][Self].frame][d].frame

Pte(page) == mem[TableFrame(page \div Entries)][page % Entries]

Walkable(page) == mem[cr3][page \div Entries].present /\ Pte(page).present

(* Where the processor sends an access to a page. *)
Translate(page) == IF tlb.page = page THEN tlb.frame ELSE Pte(page).frame

-----------------------------------------------------------------------------
(* X86Kernel::installMMU. *)

(* The state the MMU constructor leaves: module FrameClients. *)
Init ==
  /\ \E ram \in Rams : usable = ram \ Run(0, LowFrames)
  /\ used = KernelFrames
  /\ lastAlloc = 0
  /\ mem = [f \in Frames |-> EmptyTable]
  /\ cr3 = 0
  /\ call = Call("create", 0, 0)
  /\ boot = NoBoot
  /\ tlb = NoTranslation
  /\ held = {}

(* alloc(1) found nothing while a call needed a frame. *)
Panic ==
  /\ OutOfMemory(1)
  /\ call' = Panicked
  /\ UNCHANGED <<usable, used, lastAlloc, mem, cr3, boot, tlb, held>>

(* create, then the beginning of install: addressSpace.clear(). *)
Create ==
  /\ call.name = "create"
  /\ \/ \E f \in Frames :
          /\ Alloc(1, f)
          /\ cr3' = f
          /\ mem' = [mem EXCEPT ![f] = EmptyTable]
          /\ boot' = [NoBoot EXCEPT !.last = ReadOnlyEnd]
          /\ call' = Call("install", 0, 0)
          /\ UNCHANGED <<tlb, held>>
     \/ Panic

(* addToDirectory *)
Linked(m, d, table) == [m EXCEPT ![cr3][d] = PresentEntry(table)]

IdentityEntry(f) ==
  [frame |-> f, present |-> TRUE, rw |-> f > ReadOnlyEnd \/ f = VGAPage]

(* Mutant of InstallNewTable: lastUsedFrame does not follow the tables.    *)
InstallNewTableUncounted ==
  /\ call.name = "install"
  /\ boot.frame <= boot.last
  /\ boot.frame % Entries = 0
  /\ \E t \in Frames :
       /\ Alloc(1, t)
       /\ mem' = [mem EXCEPT ![t] = [EmptyTable EXCEPT ![0] = IdentityEntry(boot.frame)]]
       /\ boot' = [boot EXCEPT !.frame = @ + 1, !.table = t]
       /\ UNCHANGED <<cr3, call, tlb, held>>

(* An iteration of install's loop that starts a new table. *)
InstallNewTable ==
  /\ call.name = "install"
  /\ boot.frame <= boot.last
  /\ boot.frame % Entries = 0
  /\ \/ \E t \in Frames :
          /\ Alloc(1, t)
          /\ LET first == boot.table = None
                 done  == IF first THEN mem ELSE Linked(mem, boot.dir, boot.table)
             IN  /\ mem' = [done EXCEPT ![t] = [EmptyTable EXCEPT ![0] = IdentityEntry(boot.frame)]]
                 /\ boot' = [frame |-> boot.frame + 1,
                             last  |-> IF t > boot.last THEN t ELSE boot.last,
                             table |-> t,
                             dir   |-> IF first THEN boot.dir ELSE boot.dir + 1]
          /\ UNCHANGED <<cr3, call, tlb, held>>
     \/ Panic

(* Any other iteration. *)
InstallEntry ==
  /\ call.name = "install"
  /\ boot.frame <= boot.last
  /\ boot.frame % Entries # 0
  /\ mem' = [mem EXCEPT ![boot.table][boot.frame % Entries] = IdentityEntry(boot.frame)]
  /\ boot' = [boot EXCEPT !.frame = @ + 1]
  /\ UNCHANGED <<usable, used, lastAlloc, cr3, call, tlb, held>>

(* The last table and the directory itself are entered, paging is on. *)
InstallDone ==
  /\ call.name = "install"
  /\ boot.frame > boot.last
  /\ mem' = Linked(Linked(mem, boot.dir, boot.table), Self, cr3)
  /\ call' = Idle
  /\ UNCHANGED <<usable, used, lastAlloc, cr3, boot, tlb, held>>

-----------------------------------------------------------------------------
(* getOrCreateTable, palloc, pfree. *)

(* Mutant of Flush: the translations stay cached.                          *)
NoFlush == UNCHANGED tlb

Flush == tlb' = NoTranslation             \* _flush: cr3 is loaded again

(* PageTable::setEntry invalidates the page whose number is the frame of   *)
(* the entry it stores, not the page the entry maps.                       *)
AfterSetEntry(entry) == IF tlb.page = entry.frame THEN NoTranslation ELSE tlb

(* Physical memory once getOrCreateTable has put table t at index d.       *)
WithTable(d, t) == [mem EXCEPT ![cr3][d] = PresentEntry(t), ![t] = EmptyTable]

(* The three ways through getOrCreateTable(d).                             *)
TableExists(d) ==
  /\ mem[cr3][d].present
  /\ UNCHANGED <<usable, used, lastAlloc, mem, tlb>>

TableCreated(d) ==
  /\ ~mem[cr3][d].present
  /\ \E t \in Frames : Alloc(1, t) /\ mem' = WithTable(d, t)
  /\ Flush

NoFrameForTable(d) == ~mem[cr3][d].present /\ Panic

(* Mutant of RunLength: a run ends where the table ends.                   *)
RunLengthInTable(table, carry, e) ==
  IF \A k \in 0 .. e : ~table[k].present
  THEN e + 1
  ELSE e - (CHOOSE k \in 0 .. e : table[k].present /\ \A j \in k + 1 .. e : ~table[j].present)

(* The value of contiguousFoundPages when palloc's inner loop has looked   *)
(* at entry e of a table, with `carry' at the table's beginning.           *)
RunLength(table, carry, e) ==
  IF \A k \in 0 .. e : ~table[k].present
  THEN carry + e + 1
  ELSE e - (CHOOSE k \in 0 .. e : table[k].present /\ \A j \in k + 1 .. e : ~table[j].present)

(* palloc's inner loop over directory entry d, whose table is `table'.     *)
ScanTable(d, table) ==
  LET hits == {e \in Index : RunLength(table, call.found, e) = call.n}
  IN  IF hits = {}
      THEN call' = [call EXCEPT !.i = d + 1, !.found = RunLength(table, call.found, Entries - 1)]
      ELSE LET e     == CHOOSE e \in hits : \A h \in hits : e <= h
               first == d * Entries + e + 1 - call.n
           IN  call' = IF first = 0 THEN Idle ELSE Call("map", first, call.n)

(* palloc(addressSpace, n) is called. *)
Palloc(n) ==
  /\ call = Idle
  /\ call' = Call("palloc", 0, n)
  /\ UNCHANGED <<usable, used, lastAlloc, mem, cr3, boot, tlb, held>>

(* One iteration of its outer loop. *)
PallocScan ==
  /\ call.name = "palloc"
  /\ call.i < Entries
  /\ \/ /\ TableExists(call.i)
        /\ ScanTable(call.i, mem[TableFrame(call.i)])
        /\ UNCHANGED <<cr3, boot, held>>
     \/ /\ TableCreated(call.i)
        /\ ScanTable(call.i, EmptyTable)
        /\ UNCHANGED <<cr3, boot, held>>
     \/ NoFrameForTable(call.i)

(* The loop is over and no run was found: nullptr. *)
PallocNull ==
  /\ call.name = "palloc"
  /\ call.i = Entries
  /\ call' = Idle
  /\ UNCHANGED <<usable, used, lastAlloc, mem, cr3, boot, tlb, held>>

(* palloc(addressSpace, virtualAddress, n) is called with an aligned       *)
(* address.                                                                *)
PallocAt(first, n) ==
  /\ call = Idle
  /\ call' = Call("probe", first, n)
  /\ UNCHANGED <<usable, used, lastAlloc, mem, cr3, boot, tlb, held>>

(* What its loop does with the entry of the page it looks at.              *)
ProbeEntry(entry) ==
  call' = IF entry.present THEN Idle ELSE [call EXCEPT !.i = @ + 1]

(* One iteration of its loop: pageForAddress creates a missing table.      *)
PallocProbe ==
  LET page == (call.first + call.i) % (Entries * Entries)
      d    == page \div Entries
  IN  /\ call.name = "probe"
      /\ call.i < call.n
      /\ \/ /\ TableExists(d)
            /\ ProbeEntry(Pte(page))
            /\ UNCHANGED <<cr3, boot, held>>
         \/ /\ TableCreated(d)
            /\ ProbeEntry(NoEntry)
            /\ UNCHANGED <<cr3, boot, held>>
         \/ NoFrameForTable(d)

(* Every page is free: allocatePages, unless the address is nullptr.       *)
ProbeDone ==
  /\ call.name = "probe"
  /\ call.i = call.n
  /\ call' = IF call.first = 0 THEN Idle ELSE Call("map", call.first, call.n)
  /\ UNCHANGED <<usable, used, lastAlloc, mem, cr3, boot, tlb, held>>

(* One iteration of allocatePages. *)
MapPage ==
  LET page == call.first + call.i
  IN  /\ call.name = "map"
      /\ call.i < call.n
      /\ \/ \E f \in Frames :
              /\ Alloc(1, f)
              /\ mem' = [mem EXCEPT ![TableFrame(page \div Entries)][page % Entries] = PresentEntry(f)]
              /\ tlb' = AfterSetEntry(PresentEntry(f))
              /\ call' = [call EXCEPT !.i = @ + 1]
              /\ UNCHANGED <<cr3, boot, held>>
         \/ Panic

(* Its end: the caller gets the pages. *)
MapDone ==
  /\ call.name = "map"
  /\ call.i = call.n
  /\ Flush
  /\ held' = held \cup {<<call.first, call.n>>}
  /\ call' = Idle
  /\ UNCHANGED <<usable, used, lastAlloc, mem, cr3, boot>>

(* pfree of a run that a client holds. *)
Pfree(block) ==
  /\ call = Idle
  /\ call' = Call("pfree", block[1], block[2])
  /\ held' = held \ {block}
  /\ UNCHANGED <<usable, used, lastAlloc, mem, cr3, boot, tlb>>

(* Mutant of FreePage: the frame is not given back to the allocator.       *)
FreePageKeepsFrame ==
  LET page == call.first + call.i
  IN  /\ call.name = "pfree"
      /\ call.i < call.n
      /\ mem' = [mem EXCEPT ![TableFrame(page \div Entries)][page % Entries] = NoEntry]
      /\ tlb' = AfterSetEntry(NoEntry)
      /\ call' = [call EXCEPT !.i = @ + 1]
      /\ UNCHANGED <<usable, used, lastAlloc, cr3, boot, held>>

(* One iteration of its loop. *)
FreePage ==
  LET page == call.first + call.i
  IN  /\ call.name = "pfree"
      /\ call.i < call.n
      /\ Free(Pte(page).frame, 1)
      /\ mem' = [mem EXCEPT ![TableFrame(page \div Entries)][page % Entries] = NoEntry]
      /\ tlb' = AfterSetEntry(NoEntry)
      /\ call' = [call EXCEPT !.i = @ + 1]
      /\ UNCHANGED <<cr3, boot, held>>

PfreeDone ==
  /\ call.name = "pfree"
  /\ call.i = call.n
  /\ Flush
  /\ call' = Idle
  /\ UNCHANGED <<usable, used, lastAlloc, mem, cr3, boot, held>>

-----------------------------------------------------------------------------
(* The processor and the clients. *)

PagesOf(block) == Run(block[1], block[2])
HeldPages == UNION {PagesOf(b) : b \in held}

(* Once paging is on, the processor may walk the tables and cache a        *)
(* translation at any moment.                                              *)
Fill(page) ==
  /\ call.name \notin {"create", "install", "panic"}
  /\ tlb = NoTranslation
  /\ Walkable(page)
  /\ tlb' = [page |-> page, frame |-> Pte(page).frame]
  /\ UNCHANGED <<usable, used, lastAlloc, mem, cr3, call, boot, held>>

(* A client stores to a page it holds. *)
Store(page, v) ==
  /\ call = Idle
  /\ mem' = [mem EXCEPT ![Translate(page)] = Stored(v)]
  /\ UNCHANGED <<usable, used, lastAlloc, cr3, call, boot, tlb, held>>

(* The start addresses a client names lie below the window through which   *)
(* the tables are reached.                                                 *)
ClientPages == 0 .. Self * Entries - 1

CallStep ==
  \/ Create \/ InstallNewTable \/ InstallEntry \/ InstallDone
  \/ PallocScan \/ PallocNull \/ PallocProbe \/ ProbeDone
  \/ MapPage \/ MapDone \/ FreePage \/ PfreeDone

Next ==
  \/ CallStep
  \/ \E n \in PageCounts : Palloc(n)
  \/ \E first \in ClientPages, n \in PageCounts : PallocAt(first, n)
  \/ \E block \in held : Pfree(block)
  \/ \E page \in Pages : Fill(page)
  \/ \E page \in HeldPages, v \in Values : Store(page, v)

Spec == Init /\ [][Next]_mmuVars

-----------------------------------------------------------------------------

(* Types of the state. *)
TypeOK ==
  /\ usable \subseteq Frames
  /\ used \subseteq Frames
  /\ lastAlloc \in Frames
  /\ mem \in [Frames -> [Index -> PageEntry]]
  /\ cr3 \in Frames
  /\ call.name \in {"create", "install", "idle", "palloc", "probe", "map", "pfree", "panic"}
  /\ call.first \in Pages
  /\ call.n \in PageCounts \cup {0}
  /\ call.i \in Nat
  /\ call.found \in 0 .. call.n
  /\ boot \in [frame : Nat, last : Frames, table : Frames \cup {None}, dir : Index]
  /\ tlb \in [page : Pages \cup {NoTranslation.page}, frame : Frames \cup {None}]
  /\ held \subseteq ClientPages \X PageCounts

(* install has returned. *)
Up == call.name # "install" /\ boot.frame > boot.last

TableFrames == {mem[cr3][d].frame : d \in {d \in Index : mem[cr3][d].present}}
MappedFrames(pages) == {Pte(p).frame : p \in {p \in pages : Walkable(p)}}

(* Between two calls every used frame is the kernel image's, the           *)
(* directory's, a table's or a client page's: palloc, pfree and the tables *)
(* they create leak no frame and give back none that is still mapped.      *)
FramesAccounted ==
  TypeOK /\ (call = Idle =>
    /\ used = KernelFrames \cup {cr3} \cup TableFrames \cup MappedFrames(HeldPages)
    /\ HeldPages = {p \in ClientPages : p > boot.last /\ Walkable(p)})

(* After install, and whatever clients do, the kernel keeps the ground     *)
(* under its feet: every frame up to the last table that install made (the *)
(* kernel image, its data, the directory and these tables) stays mapped at *)
(* its own address, nothing above readonly_end read-only, and the last     *)
(* directory entry still points at the directory.                          *)
IdentityMapIntact ==
  Up => /\ mem[cr3][Self] = PresentEntry(cr3)
        /\ KernelFrames \cup {cr3} \subseteq 0 .. boot.last
        /\ \A f \in 0 .. boot.last : Walkable(f) /\ Pte(f) = IdentityEntry(f)

(* Content of the pages clients hold, as they see it. *)
Content == [p \in HeldPages |-> mem[Translate(p)]]

VM == INSTANCE VirtualMemory WITH
        ClientPages <- ClientPages, blocks <- held, content <- Content

(* Through tables, allocator and cached translations, clients see private  *)
(* pages whose content only their own stores change.                       *)
ImplementsVirtualMemory == VM!Spec

(* palloc returns nullptr only when no run of n free pages exists below    *)
(* the window of the tables.                                               *)
PallocNullOnlyWhenFull ==
  [][ (call.name = "palloc" /\ call'.name = "idle") =>
        \A first \in ClientPages :
          ~ \A p \in Run(first, call.n) : p \in ClientPages /\ ~Walkable(p) ]_call

=============================================================================
