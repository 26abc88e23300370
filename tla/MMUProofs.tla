----------------------------- MODULE MMUProofs ------------------------------
(***************************************************************************)
(* Proofs about the memory management unit: whatever the clients do, the   *)
(* kernel stays mapped, every used frame has one owner, a client's pages   *)
(* are private to it, and palloc fails only when there is no room.         *)
(*                                                                         *)
(* What the tables say is stated of a memory m, the frame r of a directory *)
(* and the set u of used frames, so that it can be said of the memory that *)
(* install is still building as well as of the one the processor uses.     *)
(***************************************************************************)
EXTENDS MMU, WellFoundedInduction, TLAPS

(* A table entry, the directory's and a client page's, found through the   *)
(* directory r.                                                            *)
EntryAt(m, r, p) == m[m[r][p \div Entries].frame][p % Entries]
Mapped(m, r, p) == m[r][p \div Entries].present /\ EntryAt(m, r, p).present

(* Directory entries below the one that points back.                       *)
Low == 0 .. Self - 1

(* The tables are distinct used frames, outside of the kernel image.       *)
TablesApart(m, r, u) ==
  \A d \in Low : m[r][d].present =>
    /\ m[r][d].frame \in u
    /\ m[r][d].frame \notin KernelFrames
    /\ m[r][d].frame # r
    /\ \A e \in Low : m[r][e].present /\ m[r][e].frame = m[r][d].frame => e = d

(* The pages up to `last' are mapped at their own address.                 *)
IdentityUpTo(m, r, last) ==
  \A p \in 0 .. last : m[r][p \div Entries].present /\ EntryAt(m, r, p) = IdentityEntry(p)

(* Beyond it the pages of S are mapped, and no other.                      *)
MappedAre(m, r, last, S) ==
  \A p \in ClientPages : p > last => (Mapped(m, r, p) <=> p \in S)

(* They have used frames of their own: not the kernel's, not a table.      *)
Private(m, r, u, S) ==
  \A p \in S :
    /\ EntryAt(m, r, p).frame \in u
    /\ EntryAt(m, r, p).frame \notin KernelFrames
    /\ EntryAt(m, r, p).frame # r
    /\ \A d \in Low : m[r][d].present => m[r][d].frame # EntryAt(m, r, p).frame
    /\ \A q \in S : EntryAt(m, r, q).frame = EntryAt(m, r, p).frame => q = p

(* Every used frame is accounted for. *)
Owned(m, r, u, S) ==
  \A f \in u :
    \/ f \in KernelFrames
    \/ f = r
    \/ \E d \in Low : m[r][d].present /\ m[r][d].frame = f
    \/ \E p \in S : EntryAt(m, r, p).frame = f

(* The address space: pages 0 .. last are the kernel's, those of S the     *)
(* clients'.                                                               *)
Space(m, r, u, last, S) ==
  /\ r \in u
  /\ r \notin KernelFrames
  /\ KernelFrames \subseteq u
  /\ S \subseteq ClientPages
  /\ \A p \in S : p > last
  /\ TablesApart(m, r, u)
  /\ IdentityUpTo(m, r, last)
  /\ MappedAre(m, r, last, S)
  /\ Private(m, r, u, S)
  /\ Owned(m, r, u, S)

-----------------------------------------------------------------------------
(* The inductive invariant. *)

CreateInv ==
  /\ usable \cap Run(0, LowFrames) = {}
  /\ used = KernelFrames
  /\ lastAlloc = 0
  /\ boot = NoBoot
  /\ held = {}

(* The memory as it will be once the table under construction is entered.  *)
Done == IF boot.table = None THEN mem ELSE Linked(mem, boot.dir, boot.table)

(* No table is below the directory: the frames there are all taken.        *)
InstallInv ==
  /\ usable \cap Run(0, LowFrames) = {}
  /\ \A g \in usable : g < cr3 => g \in used
  /\ held = {}
  /\ boot.frame <= boot.last + 1
  /\ boot.table = None <=> boot.frame = 0
  /\ boot.frame > 0 => /\ boot.dir = (boot.frame - 1) \div Entries
                       /\ KernelFrames \cup {cr3} \subseteq 0 .. boot.last
                       /\ boot.table \in used
                       /\ boot.table # cr3
  /\ boot.frame = 0 => boot.dir = 0
  /\ \A d \in Index : d * Entries >= boot.frame => ~Done[cr3][d].present
  /\ Space(Done, cr3, used, boot.frame - 1, {})

(* What panic leaves as it is. *)
Grounded ==
  /\ mem[cr3][Self] = PresentEntry(cr3)
  /\ KernelFrames \cup {cr3} \subseteq 0 .. boot.last
  /\ IdentityUpTo(mem, cr3, boot.last)

(* Pages that are mapped but held by nobody, because a call is under way.  *)
Pending(c) == CASE c.name = "map"   -> Run(c.first, c.i)
                [] c.name = "pfree" -> Run(c.first + c.i, c.n - c.i)
                [] OTHER            -> {}

Disjoint(runs) == \A b, c \in runs : b # c => PagesOf(b) \cap PagesOf(c) = {}

(* Pages of X can be given out: they have tables and nobody holds them.    *)
Clear(m, r, last, H, X) ==
  \A p \in X : p \in ClientPages /\ p > last /\ p \notin H /\ m[r][p \div Entries].present

(* palloc has looked at the tables below i and found the last `found'      *)
(* pages free, and no more; there is no run of n free pages.               *)
Scan(m, r, last, H, i, top, found, n) ==
  /\ i <= Entries
  /\ n \in PageCounts
  /\ found < n
  /\ found <= top
  /\ \A d \in 0 .. i - 1 : m[r][d].present
  /\ Clear(m, r, last, H, Run(top - found, found))
  /\ i < Entries => found = top \/ Mapped(m, r, top - found - 1)
  /\ \A a \in Nat : a + n <= top /\ a + n <= Self * Entries
                      => \E p \in Run(a, n) : Mapped(m, r, p)

ScanInv(m, r, last, H, c) == Scan(m, r, last, H, c.i, c.i * Entries, c.found, c.n)

CallInv(m, r, last, H, c) ==
  /\ c.name = "palloc" => ScanInv(m, r, last, H, c)
  /\ c.name = "probe" => /\ c.first \in ClientPages /\ c.n \in PageCounts /\ c.i <= c.n
                         /\ Clear(m, r, last, H, Run(c.first, c.i))
  /\ c.name \in {"map", "pfree"} => /\ c.n \in PageCounts /\ c.i <= c.n
                                    /\ Clear(m, r, last, H, Run(c.first, c.n))

(* A cached translation of a page that a client holds is the tables' own.  *)
TlbInv(m, r, H, t) == t.page \in H => t.frame = EntryAt(m, r, t.page).frame

(* The fields of a call. *)
IsCall(c) == c = [name |-> c.name, first |-> c.first, n |-> c.n, i |-> c.i, found |-> c.found]

Running == call.name \in {"idle", "palloc", "probe", "map", "pfree"}

RunningInv ==
  /\ boot.frame > boot.last
  /\ Space(mem, cr3, used, boot.last, HeldPages \cup Pending(call))
  /\ Disjoint(held)
  /\ CallInv(mem, cr3, boot.last, HeldPages, call)
  /\ TlbInv(mem, cr3, HeldPages, tlb)

Inv ==
  /\ TypeOK
  /\ IsCall(call)
  /\ call.name = "create" => CreateInv
  /\ call.name = "install" => InstallInv
  /\ Up => Grounded
  /\ Running => RunningInv

-----------------------------------------------------------------------------
(* Constants and page numbers. *)

LEMMA Constants ==
  /\ Entries \in Nat /\ Entries >= 2
  /\ Self \in Nat /\ Self + 1 = Entries
  /\ NumFrames \in Nat /\ NumFrames > 0
  /\ LowFrames \in Nat /\ KernelEnd \in Nat
  /\ LowFrames <= KernelEnd /\ KernelEnd < NumFrames
  /\ ReadOnlyEnd \in Nat /\ LowFrames <= ReadOnlyEnd /\ ReadOnlyEnd <= KernelEnd
  /\ NumFrames <= Self * Entries
  /\ Self * Entries \in Nat
  /\ Entries * Entries \in Nat
  /\ Self * Entries + Entries = Entries * Entries
  <1>1. /\ Entries \in Nat /\ Entries >= 2
        /\ Self \in Nat /\ Self + 1 = Entries
        /\ NumFrames \in Nat /\ NumFrames > 0
        /\ LowFrames \in Nat /\ KernelEnd \in Nat
        /\ LowFrames <= KernelEnd /\ KernelEnd < NumFrames
    BY MMUAssumption, FramesAssumption DEF Self
  <1>2. ReadOnlyEnd \in LowFrames .. LowFrames + (KernelEnd + 1 - LowFrames) - 1
    BY MMUAssumption DEF Run
  <1>3. ReadOnlyEnd \in Nat /\ LowFrames <= ReadOnlyEnd /\ ReadOnlyEnd <= KernelEnd
    BY <1>1, <1>2
  <1>4. Self * Entries = Entries * (Entries - 1)
    BY <1>1 DEF Self
  <1>5. Self * Entries \in Nat /\ Entries * Entries \in Nat /\ Self * Entries + Entries = Entries * Entries
    BY <1>1
  <1>6. QED
    BY <1>1, <1>3, <1>4, <1>5, MMUAssumption

(* A page below the window is an entry of a table below the last. *)
LEMMA PageParts ==
  ASSUME NEW p \in ClientPages
  PROVE  /\ p \in Nat /\ p < Self * Entries
         /\ p \div Entries \in Low
         /\ p \div Entries \in Index
         /\ p % Entries \in Index
         /\ p = (p \div Entries) * Entries + (p % Entries)
  <1>1. p \in Nat /\ p < Self * Entries
    BY Constants DEF ClientPages
  <1>2. /\ p \div Entries \in Nat
        /\ p % Entries \in 0 .. Entries - 1
        /\ p = (p \div Entries) * Entries + (p % Entries)
    BY <1>1, Constants
  <1>3. p \div Entries < Self
    <2>1. SUFFICES ASSUME p \div Entries >= Self PROVE FALSE
      BY <1>2, Constants
    <2>2. \A q \in Nat : q >= Self => q * Entries >= Self * Entries
      BY Constants
    <2>3. (p \div Entries) * Entries >= Self * Entries
      BY <1>2, <2>1, <2>2
    <2>4. \A a, b, c \in Nat : a = b + c => a >= b
      OBVIOUS
    <2>5. p >= (p \div Entries) * Entries
      BY <1>1, <1>2, Constants
    <2>6. QED
      BY <1>1, <1>2, <2>3, <2>5, Constants
  <1>4. QED
    BY <1>1, <1>2, <1>3, Constants DEF Low, Index

(* Any page is an entry of some table. *)
LEMMA PageIndex ==
  ASSUME NEW p \in Pages
  PROVE  p \div Entries \in Index /\ p % Entries \in Index
  <1>1. p \in Nat /\ p < Entries * Entries
    BY Constants DEF Pages
  <1>2. p \div Entries \in Nat /\ p % Entries \in 0 .. Entries - 1
        /\ p = (p \div Entries) * Entries + (p % Entries)
    BY <1>1, Constants
  <1>3. p \div Entries < Entries
    <2>1. SUFFICES ASSUME p \div Entries >= Entries PROVE FALSE
      BY <1>2, Constants
    <2>2. \A q \in Nat : q >= Entries => q * Entries >= Entries * Entries
      BY Constants
    <2>3. (p \div Entries) * Entries >= Entries * Entries
      BY <1>2, <2>1, <2>2
    <2>4. QED
      BY <1>1, <1>2, <2>3, Constants
  <1>4. QED
    BY <1>2, <1>3, Constants DEF Index

(* An entry of a table is a page. *)
LEMMA PageOfEntry ==
  ASSUME NEW d \in Index, NEW k \in Index
  PROVE  /\ d * Entries + k \in Nat
         /\ (d * Entries + k) \div Entries = d
         /\ (d * Entries + k) % Entries = k
         /\ d \in Low <=> d * Entries + k \in ClientPages
  <1>1. d \in Nat /\ k \in Nat /\ k < Entries /\ d <= Self
    BY Constants DEF Index
  <1>2. d * Entries \in Nat
    BY <1>1, Constants
  <1>3. /\ (d * Entries + k) \div Entries = d
        /\ (d * Entries + k) % Entries = k
    BY <1>1, Constants
  <1>4. CASE d = Self
    BY <1>1, <1>2, <1>4, Constants DEF Low, ClientPages
  <1>5. CASE d < Self
    <2>1. (d + 1) * Entries <= Self * Entries
      BY <1>1, <1>5, Constants
    <2>2. (d + 1) * Entries = d * Entries + Entries
      BY <1>1, Constants
    <2>3. d * Entries + k < Self * Entries
      BY <1>1, <1>2, <2>1, <2>2, Constants
    <2>4. QED
      BY <1>1, <1>2, <1>5, <2>3, Constants DEF Low, ClientPages
  <1>6. QED
    BY <1>1, <1>2, <1>3, <1>4, <1>5, Constants

LEMMA SamePage ==
  ASSUME NEW p \in ClientPages, NEW q \in ClientPages,
         p \div Entries = q \div Entries, p % Entries = q % Entries
  PROVE  p = q
  <1>1. /\ p = (p \div Entries) * Entries + (p % Entries)
        /\ q = (q \div Entries) * Entries + (q % Entries)
    BY PageParts
  <1>2. QED
    BY <1>1

-----------------------------------------------------------------------------
(* What the code does to physical memory. *)

Memory == [Frames -> [Index -> PageEntry]]

LEMMA Entry ==
  /\ NoEntry \in PageEntry /\ ~NoEntry.present
  /\ EmptyTable \in [Index -> PageEntry]
  /\ \A k \in Index : EmptyTable[k] = NoEntry
  /\ \A f \in Frames : /\ PresentEntry(f) \in PageEntry
                       /\ PresentEntry(f).present
                       /\ PresentEntry(f).frame = f
                       /\ Stored(f) \in [Index -> PageEntry]
                       /\ IdentityEntry(f) \in PageEntry
                       /\ IdentityEntry(f).present
                       /\ IdentityEntry(f).frame = f
  <1>1. 0 \in Frames
    BY Constants DEF Frames
  <1>2. NoEntry \in PageEntry /\ ~NoEntry.present
    BY <1>1 DEF NoEntry, PageEntry
  <1>3. \A f \in Frames : PresentEntry(f) \in PageEntry /\ PresentEntry(f).present /\ PresentEntry(f).frame = f
    BY DEF PresentEntry, PageEntry
  <1>4. ASSUME NEW f \in Frames
        PROVE  IdentityEntry(f) \in PageEntry /\ IdentityEntry(f).present /\ IdentityEntry(f).frame = f
    <2>1. (f > ReadOnlyEnd \/ f = VGAPage) \in BOOLEAN
      OBVIOUS
    <2>2. QED
      BY <2>1, Zenon DEF IdentityEntry, PageEntry
  <1>5. QED
    BY <1>2, <1>3, <1>4 DEF EmptyTable, Stored

(* Entries below the last are found where the lemmas on pages say. *)
LEMMA EntryType ==
  ASSUME NEW m \in Memory, NEW r \in Frames
  PROVE  /\ \A d \in Index : m[r][d] \in PageEntry /\ m[r][d].frame \in Frames /\ m[r][d].present \in BOOLEAN
         /\ \A p \in ClientPages : /\ m[r][p \div Entries].frame \in Frames
                                   /\ EntryAt(m, r, p) \in PageEntry
                                   /\ EntryAt(m, r, p).frame \in Frames
  <1>1. \A d \in Index : m[r][d] \in PageEntry /\ m[r][d].frame \in Frames /\ m[r][d].present \in BOOLEAN
    BY DEF Memory, PageEntry
  <1>2. ASSUME NEW p \in ClientPages
        PROVE  /\ m[r][p \div Entries].frame \in Frames
               /\ EntryAt(m, r, p) \in PageEntry
               /\ EntryAt(m, r, p).frame \in Frames
    <2>1. p \div Entries \in Index /\ p % Entries \in Index
      BY PageParts
    <2>2. m[r][p \div Entries].frame \in Frames
      BY <1>1, <2>1
    <2>3. EntryAt(m, r, p) \in PageEntry
      BY <2>1, <2>2 DEF EntryAt, Memory
    <2>4. QED
      BY <2>2, <2>3 DEF PageEntry
  <1>3. QED
    BY <1>1, <1>2

IsTable(m, r, f) == \E d \in Low : m[r][d].present /\ m[r][d].frame = f

(* An entry of a table is stored: nothing else changes. *)
SetAt(m, r, p, x) == [m EXCEPT ![m[r][p \div Entries].frame][p % Entries] = x]

LEMMA SetEntry ==
  ASSUME NEW m \in Memory, NEW r \in Frames, NEW u, TablesApart(m, r, u),
         NEW p \in ClientPages, m[r][p \div Entries].present,
         NEW x \in PageEntry, NEW m2, m2 = SetAt(m, r, p, x)
  PROVE  /\ m2 \in Memory
         /\ m2[r] = m[r]
         /\ EntryAt(m2, r, p) = x
         /\ \A q \in ClientPages : q # p /\ m[r][q \div Entries].present
                                     => EntryAt(m2, r, q) = EntryAt(m, r, q)
         /\ \A f \in Frames : ~IsTable(m, r, f) => m2[f] = m[f]
  <1> DEFINE d == p \div Entries
             k == p % Entries
             t == m[r][d].frame
  <1>1. d \in Low /\ d \in Index /\ k \in Index
    BY PageParts
  <1>2. t \in Frames
    BY EntryType
  <1>3. t # r /\ IsTable(m, r, t)
    BY <1>1 DEF TablesApart, IsTable
  <1>4. m2 = [m EXCEPT ![t] = [m[t] EXCEPT ![k] = x]]
    BY DEF SetAt
  <1>5. m[t] \in [Index -> PageEntry]
    BY <1>2 DEF Memory
  <1>6. [m[t] EXCEPT ![k] = x] \in [Index -> PageEntry]
    BY <1>1, <1>5
  <1>7. m2 \in Memory
    BY <1>2, <1>4, <1>6 DEF Memory
  <1>8. m2[t] = [m[t] EXCEPT ![k] = x]
    BY <1>2, <1>4 DEF Memory
  <1>9. \A f \in Frames : f # t => m2[f] = m[f]
    BY <1>4 DEF Memory
  <1>10. m2[r] = m[r]
    BY <1>3, <1>9
  <1>11. EntryAt(m2, r, p) = x
    BY <1>1, <1>5, <1>8, <1>10 DEF EntryAt
  <1>12. ASSUME NEW q \in ClientPages, q # p, m[r][q \div Entries].present
         PROVE  EntryAt(m2, r, q) = EntryAt(m, r, q)
    <2> DEFINE e == q \div Entries
               j == q % Entries
    <2>1. e \in Low /\ j \in Index
      BY PageParts
    <2>2. m[r][e].frame \in Frames
      BY EntryType
    <2>3. EntryAt(m2, r, q) = m2[m[r][e].frame][j] /\ EntryAt(m, r, q) = m[m[r][e].frame][j]
      BY <1>10 DEF EntryAt
    <2>4. CASE e = d
      <3>1. j # k
        BY <1>12, <2>4, SamePage
      <3>2. m[r][e].frame = t
        BY <2>4
      <3>3. m2[t][j] = m[t][j]
        BY <1>5, <1>8, <2>1, <3>1
      <3>4. QED
        BY <2>3, <3>2, <3>3
    <2>5. CASE e # d
      <3>1. m[r][e].frame # t
        BY <1>1, <1>12, <2>1, <2>5 DEF TablesApart
      <3>2. QED
        BY <1>9, <2>2, <2>3, <3>1
    <2>6. QED
      BY <2>4, <2>5
  <1>13. QED
    BY <1>3, <1>7, <1>9, <1>10, <1>11, <1>12

(* A table is entered in the directory and cleared. *)
AddTable(m, r, d, t) == [m EXCEPT ![r][d] = PresentEntry(t), ![t] = EmptyTable]

LEMMA NewTable ==
  ASSUME NEW m \in Memory, NEW r \in Frames, NEW u, TablesApart(m, r, u),
         NEW d \in Low, ~m[r][d].present,
         NEW t \in Frames, t # r, ~IsTable(m, r, t),
         NEW m2, m2 = AddTable(m, r, d, t)
  PROVE  /\ m2 \in Memory
         /\ m2[r] = [m[r] EXCEPT ![d] = PresentEntry(t)]
         /\ m2[t] = EmptyTable
         /\ \A q \in ClientPages : q \div Entries = d => EntryAt(m2, r, q) = NoEntry
         /\ \A q \in ClientPages : m[r][q \div Entries].present
                                     => EntryAt(m2, r, q) = EntryAt(m, r, q)
         /\ \A f \in Frames \ {r, t} : m2[f] = m[f]
  <1>1. d \in Index /\ m[r] \in [Index -> PageEntry]
    BY Constants DEF Low, Index, Memory
  <1>2. m2 = [m EXCEPT ![r] = [m[r] EXCEPT ![d] = PresentEntry(t)], ![t] = EmptyTable]
    BY DEF AddTable
  <1>3. [m[r] EXCEPT ![d] = PresentEntry(t)] \in [Index -> PageEntry]
    BY <1>1, Entry
  <1>4. m2 \in Memory
    BY <1>2, <1>3, Entry DEF Memory
  <1>5. m2[r] = [m[r] EXCEPT ![d] = PresentEntry(t)] /\ m2[t] = EmptyTable
    BY <1>2 DEF Memory
  <1>6. \A f \in Frames \ {r, t} : m2[f] = m[f]
    BY <1>2 DEF Memory
  <1>7. m2[r][d] = PresentEntry(t) /\ \A e \in Index : e # d => m2[r][e] = m[r][e]
    BY <1>1, <1>5
  <1>8. ASSUME NEW q \in ClientPages, q \div Entries = d PROVE EntryAt(m2, r, q) = NoEntry
    <2>1. q % Entries \in Index
      BY PageParts
    <2>2. EntryAt(m2, r, q) = EmptyTable[q % Entries]
      BY <1>5, <1>7, <1>8, Entry DEF EntryAt
    <2>3. QED
      BY <2>1, <2>2, Entry
  <1>9. ASSUME NEW q \in ClientPages, m[r][q \div Entries].present
        PROVE  EntryAt(m2, r, q) = EntryAt(m, r, q)
    <2>1. q \div Entries \in Index /\ q \div Entries \in Low /\ q \div Entries # d
      BY <1>9, PageParts
    <2>2. m2[r][q \div Entries] = m[r][q \div Entries]
      BY <1>7, <2>1
    <2>3. m[r][q \div Entries].frame \in Frames /\ m[r][q \div Entries].frame # t
      BY <1>9, <2>1, EntryType DEF IsTable
    <2>4. m[r][q \div Entries].frame # r
      BY <1>9, <2>1 DEF TablesApart
    <2>5. QED
      BY <1>6, <2>2, <2>3, <2>4 DEF EntryAt
  <1>10. QED
    BY <1>4, <1>5, <1>6, <1>8, <1>9

-----------------------------------------------------------------------------
(* What it does to the address space. *)

(* A page that is not mapped is neither the kernel's nor a client's. *)
LEMMA UnmappedPage ==
  ASSUME NEW m, NEW r, NEW u, NEW last \in Int, NEW S, Space(m, r, u, last, S),
         NEW p \in ClientPages, ~Mapped(m, r, p)
  PROVE  p > last /\ p \notin S
  <1>1. p \in Nat
    BY PageParts
  <1>2. ASSUME p <= last PROVE FALSE
    <2>1. p \in 0 .. last
      BY <1>1, <1>2
    <2>2. m[r][p \div Entries].present /\ EntryAt(m, r, p) = IdentityEntry(p)
      BY <2>1 DEF Space, IdentityUpTo
    <2>3. IdentityEntry(p).present
      BY DEF IdentityEntry
    <2>4. QED
      BY <2>2, <2>3 DEF Mapped
  <1>3. p > last
    BY <1>1, <1>2
  <1>4. QED
    BY <1>3 DEF Space, MappedAre

(* The facts that a set of mapped pages gives about each of them. *)
LEMMA SpacePages ==
  ASSUME NEW m \in Memory, NEW r \in Frames, NEW u, NEW last \in Int,
         last < Self * Entries, NEW S, Space(m, r, u, last, S)
  PROVE  /\ 0 .. last \subseteq ClientPages
         /\ \A p \in S : /\ p \in ClientPages
                         /\ m[r][p \div Entries].present
                         /\ EntryAt(m, r, p).present
                         /\ EntryAt(m, r, p).frame \in Frames
                         /\ EntryAt(m, r, p).frame \in u
                         /\ EntryAt(m, r, p).frame # r
                         /\ ~IsTable(m, r, EntryAt(m, r, p).frame)
         /\ \A f \in Frames : IsTable(m, r, f) => f \in u
  <1>1. 0 .. last \subseteq ClientPages
    BY Constants DEF ClientPages
  <1>2. ASSUME NEW p \in S
        PROVE  /\ p \in ClientPages
               /\ Mapped(m, r, p)
               /\ EntryAt(m, r, p).frame \in Frames
               /\ EntryAt(m, r, p).frame \in u
               /\ EntryAt(m, r, p).frame # r
               /\ ~IsTable(m, r, EntryAt(m, r, p).frame)
    <2>1. p \in ClientPages /\ p > last
      BY DEF Space
    <2>2. Mapped(m, r, p)
      BY <2>1 DEF Space, MappedAre
    <2>3. QED
      BY <2>1, <2>2, EntryType DEF Space, Private, IsTable
  <1>3. \A f \in Frames : IsTable(m, r, f) => f \in u
    BY DEF Space, TablesApart, IsTable
  <1>4. QED
    BY <1>1, <1>2, <1>3 DEF Mapped

(* The pages of S are where they were, with the content they had. *)
SamePages(m, m2, r, S) ==
  \A p \in S : /\ EntryAt(m2, r, p) = EntryAt(m, r, p)
               /\ m2[EntryAt(m2, r, p).frame] = m[EntryAt(m, r, p).frame]

(* Table t, empty, is what the directory has gained. *)
Gained(m, m2, r, d, t) ==
  /\ m2[r][d] = PresentEntry(t)
  /\ \A e \in Index : e # d => m2[r][e] = m[r][e]
  /\ \A q \in ClientPages : q \div Entries = d => EntryAt(m2, r, q) = NoEntry
  /\ \A q \in ClientPages : m[r][q \div Entries].present
                              => EntryAt(m2, r, q) = EntryAt(m, r, q)

(* A table made of a free frame leaves every page as it was. *)
LEMMA SpaceNewTable ==
  ASSUME NEW m \in Memory, NEW r \in Frames, NEW u, NEW last \in Int,
         last < Self * Entries, NEW S, Space(m, r, u, last, S),
         NEW d \in Low, ~m[r][d].present, NEW t \in Frames, t \notin u,
         NEW m2, m2 = AddTable(m, r, d, t)
  PROVE  /\ m2 \in Memory
         /\ Space(m2, r, u \cup {t}, last, S)
         /\ Gained(m, m2, r, d, t)
         /\ SamePages(m, m2, r, S)
  <1>0. TablesApart(m, r, u) /\ IdentityUpTo(m, r, last) /\ MappedAre(m, r, last, S)
        /\ Private(m, r, u, S) /\ Owned(m, r, u, S) /\ r \in u
    BY DEF Space
  <1>1. t # r /\ ~IsTable(m, r, t)
    BY <1>0, SpacePages
  <1>2. /\ m2 \in Memory
        /\ m2[r] = [m[r] EXCEPT ![d] = PresentEntry(t)]
        /\ \A q \in ClientPages : q \div Entries = d => EntryAt(m2, r, q) = NoEntry
        /\ \A q \in ClientPages : m[r][q \div Entries].present
                                    => EntryAt(m2, r, q) = EntryAt(m, r, q)
        /\ \A f \in Frames \ {r, t} : m2[f] = m[f]
    BY <1>0, <1>1, NewTable
  <1>3. m[r] \in [Index -> PageEntry] /\ d \in Index /\ Low \subseteq Index
    BY Constants DEF Memory, Low, Index
  <1>4. m2[r][d] = PresentEntry(t) /\ \A e \in Index : e # d => m2[r][e] = m[r][e]
    BY <1>2, <1>3
  <1>5. \A e \in Low : e # d => m2[r][e] = m[r][e]
    BY <1>3, <1>4
  <1>6. m2[r][d].present /\ m2[r][d].frame = t
    BY <1>4, Entry
  <1>7. \A p \in S : /\ p \in ClientPages
                     /\ m[r][p \div Entries].present
                     /\ EntryAt(m2, r, p) = EntryAt(m, r, p)
                     /\ EntryAt(m, r, p).frame \in u
                     /\ EntryAt(m, r, p).frame \in Frames
                     /\ EntryAt(m, r, p).frame # r
    BY <1>2, SpacePages
  <1>8. TablesApart(m2, r, u \cup {t})
    <2>1. \A e \in Low : m[r][e].present => m[r][e].frame # t
      BY <1>1 DEF IsTable
    <2>2. t \notin KernelFrames
      BY DEF Space
    <2>3. QED
      BY <1>0, <1>1, <1>5, <1>6, <2>1, <2>2 DEF TablesApart
  <1>9. IdentityUpTo(m2, r, last)
    <2>1. ASSUME NEW p \in 0 .. last
          PROVE  m2[r][p \div Entries].present /\ EntryAt(m2, r, p) = IdentityEntry(p)
      <3>0. p \in ClientPages
        BY SpacePages
      <3>1. m[r][p \div Entries].present /\ EntryAt(m, r, p) = IdentityEntry(p)
        BY <1>0 DEF IdentityUpTo
      <3>2. p \div Entries \in Index /\ p \div Entries # d
        BY <3>0, <3>1, PageParts
      <3>3. QED
        BY <1>2, <1>4, <3>0, <3>1, <3>2
    <2>2. QED
      BY <2>1 DEF IdentityUpTo
  <1>10. MappedAre(m2, r, last, S)
    <2>1. ASSUME NEW p \in ClientPages PROVE Mapped(m2, r, p) <=> Mapped(m, r, p)
      <3>1. p \div Entries \in Index
        BY PageParts
      <3>2. CASE p \div Entries = d
        BY <1>2, <3>2, Entry DEF Mapped
      <3>3. CASE p \div Entries # d
        BY <1>2, <1>4, <3>1, <3>3 DEF Mapped
      <3>4. QED
        BY <3>2, <3>3
    <2>2. QED
      BY <1>0, <2>1 DEF MappedAre
  <1>11. Private(m2, r, u \cup {t}, S)
    <2>1. ASSUME NEW p \in S
          PROVE  \A e \in Low : m2[r][e].present => m2[r][e].frame # EntryAt(m2, r, p).frame
      BY <1>0, <1>5, <1>6, <1>7 DEF Private
    <2>2. ASSUME NEW p \in S
          PROVE  /\ EntryAt(m2, r, p).frame \in u \cup {t}
                 /\ EntryAt(m2, r, p).frame \notin KernelFrames
                 /\ EntryAt(m2, r, p).frame # r
                 /\ \A q \in S : EntryAt(m2, r, q).frame = EntryAt(m2, r, p).frame => q = p
      BY <1>0, <1>7 DEF Private
    <2>3. QED
      BY <2>1, <2>2 DEF Private
  <1>12. Owned(m2, r, u \cup {t}, S)
    <2>1. ASSUME NEW f \in u, NEW e \in Low, m[r][e].present, m[r][e].frame = f
          PROVE  m2[r][e].present /\ m2[r][e].frame = f
      BY <1>5, <2>1
    <2>2. ASSUME NEW f \in u, NEW p \in S, EntryAt(m, r, p).frame = f
          PROVE  EntryAt(m2, r, p).frame = f
      BY <1>7, <2>2
    <2>3. QED
      BY <1>0, <1>6, <2>1, <2>2 DEF Owned
  <1>13. Space(m2, r, u \cup {t}, last, S)
    BY <1>8, <1>9, <1>10, <1>11, <1>12 DEF Space
  <1>14. \A p \in S : m2[EntryAt(m2, r, p).frame] = m[EntryAt(m, r, p).frame]
    <2>1. ASSUME NEW p \in S PROVE m2[EntryAt(m2, r, p).frame] = m[EntryAt(m, r, p).frame]
      <3>1. EntryAt(m, r, p).frame \in Frames \ {r, t}
        BY <1>7
      <3>2. QED
        BY <1>2, <1>7, <3>1
    <2>2. QED
      BY <2>1
  <1>15. QED
    BY <1>2, <1>4, <1>7, <1>13, <1>14 DEF Gained, SamePages

(* The address space has become the one of the pages S2, with the tables   *)
(* it had, and those of S are as they were.                                *)
Kept(m, m2, r, u2, last, S2, S) ==
  /\ m2 \in Memory
  /\ Space(m2, r, u2, last, S2)
  /\ m2[r] = m[r]
  /\ SamePages(m, m2, r, S)

(* A free frame is mapped at a page that is not. *)
LEMMA SpaceMap ==
  ASSUME NEW m \in Memory, NEW r \in Frames, NEW u, NEW last \in Int,
         last < Self * Entries, NEW S, Space(m, r, u, last, S),
         NEW p \in ClientPages, p > last, p \notin S, m[r][p \div Entries].present,
         NEW f \in Frames, f \notin u,
         NEW m2, m2 = SetAt(m, r, p, PresentEntry(f))
  PROVE  Kept(m, m2, r, u \cup {f}, last, S \cup {p}, S)
  <1>0. TablesApart(m, r, u) /\ IdentityUpTo(m, r, last) /\ MappedAre(m, r, last, S)
        /\ Private(m, r, u, S) /\ Owned(m, r, u, S) /\ r \in u
    BY DEF Space
  <1>1. /\ m2 \in Memory
        /\ m2[r] = m[r]
        /\ EntryAt(m2, r, p) = PresentEntry(f)
        /\ \A q \in ClientPages : q # p /\ m[r][q \div Entries].present
                                    => EntryAt(m2, r, q) = EntryAt(m, r, q)
        /\ \A g \in Frames : ~IsTable(m, r, g) => m2[g] = m[g]
    BY <1>0, Entry, SetEntry
  <1>2. EntryAt(m2, r, p).present /\ EntryAt(m2, r, p).frame = f
    BY <1>1, Entry
  <1>3. \A q \in S : /\ q \in ClientPages /\ q # p
                     /\ EntryAt(m2, r, q) = EntryAt(m, r, q)
                     /\ EntryAt(m, r, q).frame \in Frames
                     /\ EntryAt(m, r, q).frame \in u
                     /\ ~IsTable(m, r, EntryAt(m, r, q).frame)
    BY <1>1, SpacePages
  <1>4. ~IsTable(m, r, f) /\ f # r /\ f \notin KernelFrames
    BY <1>0, SpacePages DEF Space
  <1>5. TablesApart(m2, r, u \cup {f})
    BY <1>0, <1>1 DEF TablesApart
  <1>6. IdentityUpTo(m2, r, last)
    <2>1. ASSUME NEW q \in 0 .. last
          PROVE  m2[r][q \div Entries].present /\ EntryAt(m2, r, q) = IdentityEntry(q)
      <3>1. q \in ClientPages /\ q # p
        <4>1. q \in ClientPages
          BY SpacePages
        <4>2. p \in Int /\ q \in Int /\ q <= last
          BY PageParts
        <4>3. QED
          BY <4>1, <4>2
      <3>2. m[r][q \div Entries].present /\ EntryAt(m, r, q) = IdentityEntry(q)
        BY <1>0 DEF IdentityUpTo
      <3>3. QED
        BY <1>1, <3>1, <3>2
    <2>2. QED
      BY <2>1 DEF IdentityUpTo
  <1>7. MappedAre(m2, r, last, S \cup {p})
    <2>1. Mapped(m2, r, p)
      BY <1>1, <1>2 DEF Mapped
    <2>2. ASSUME NEW q \in ClientPages, q # p PROVE Mapped(m2, r, q) <=> Mapped(m, r, q)
      BY <1>1, <2>2 DEF Mapped
    <2>3. QED
      BY <1>0, <2>1, <2>2 DEF MappedAre
  <1>8. Private(m2, r, u \cup {f}, S \cup {p})
    <2>1. ASSUME NEW q \in S
          PROVE  /\ EntryAt(m2, r, q).frame \in u \cup {f}
                 /\ EntryAt(m2, r, q).frame \notin KernelFrames
                 /\ EntryAt(m2, r, q).frame # r
                 /\ \A d \in Low : m2[r][d].present => m2[r][d].frame # EntryAt(m2, r, q).frame
                 /\ \A o \in S : EntryAt(m2, r, o).frame = EntryAt(m2, r, q).frame => o = q
                 /\ EntryAt(m2, r, q).frame # f
      BY <1>0, <1>1, <1>3 DEF Private
    <2>2. \A d \in Low : m2[r][d].present => m2[r][d].frame # f
      BY <1>1, <1>4 DEF IsTable
    <2>3. QED
      BY <1>2, <1>4, <2>1, <2>2 DEF Private
  <1>9. Owned(m2, r, u \cup {f}, S \cup {p})
    <2>1. ASSUME NEW g \in u, NEW q \in S, EntryAt(m, r, q).frame = g
          PROVE  EntryAt(m2, r, q).frame = g
      BY <1>3, <2>1
    <2>2. QED
      BY <1>0, <1>1, <1>2, <2>1 DEF Owned
  <1>10. Space(m2, r, u \cup {f}, last, S \cup {p})
    BY <1>5, <1>6, <1>7, <1>8, <1>9 DEF Space
  <1>11. QED
    BY <1>1, <1>3, <1>10 DEF Kept, SamePages

(* A page is unmapped and its frame freed. *)
LEMMA SpaceUnmap ==
  ASSUME NEW m \in Memory, NEW r \in Frames, NEW u, NEW last \in Int,
         last < Self * Entries, NEW S, Space(m, r, u, last, S), NEW p \in S,
         NEW m2, m2 = SetAt(m, r, p, NoEntry),
         NEW f, f = EntryAt(m, r, p).frame
  PROVE  Kept(m, m2, r, u \ {f}, last, S \ {p}, S \ {p})
  <1>0. TablesApart(m, r, u) /\ IdentityUpTo(m, r, last) /\ MappedAre(m, r, last, S)
        /\ Private(m, r, u, S) /\ Owned(m, r, u, S) /\ r \in u /\ p \in ClientPages /\ p > last
    BY DEF Space
  <1>1. /\ m2 \in Memory
        /\ m2[r] = m[r]
        /\ EntryAt(m2, r, p) = NoEntry
        /\ \A q \in ClientPages : q # p /\ m[r][q \div Entries].present
                                    => EntryAt(m2, r, q) = EntryAt(m, r, q)
        /\ \A g \in Frames : ~IsTable(m, r, g) => m2[g] = m[g]
    <2>1. m[r][p \div Entries].present
      BY SpacePages
    <2>2. QED
      BY <1>0, <2>1, Entry, SetEntry
  <1>2. ~EntryAt(m2, r, p).present
    BY <1>1, Entry
  <1>3. \A q \in S \ {p} : /\ q \in ClientPages /\ q # p
                           /\ EntryAt(m2, r, q) = EntryAt(m, r, q)
                           /\ EntryAt(m, r, q).frame \in Frames
                           /\ EntryAt(m, r, q).frame # f
                           /\ ~IsTable(m, r, EntryAt(m, r, q).frame)
    BY <1>0, <1>1, SpacePages DEF Private
  <1>4. ~IsTable(m, r, f) /\ f # r /\ f \notin KernelFrames
    BY <1>0, SpacePages DEF Private
  <1>5. TablesApart(m2, r, u \ {f})
    BY <1>0, <1>1, <1>4 DEF TablesApart, IsTable
  <1>6. IdentityUpTo(m2, r, last)
    <2>1. ASSUME NEW q \in 0 .. last
          PROVE  m2[r][q \div Entries].present /\ EntryAt(m2, r, q) = IdentityEntry(q)
      <3>1. q \in ClientPages /\ q # p
        BY <1>0, SpacePages
      <3>2. m[r][q \div Entries].present /\ EntryAt(m, r, q) = IdentityEntry(q)
        BY <1>0 DEF IdentityUpTo
      <3>3. QED
        BY <1>1, <3>1, <3>2
    <2>2. QED
      BY <2>1 DEF IdentityUpTo
  <1>7. MappedAre(m2, r, last, S \ {p})
    <2>1. ~Mapped(m2, r, p)
      BY <1>1, <1>2 DEF Mapped
    <2>2. ASSUME NEW q \in ClientPages, q # p PROVE Mapped(m2, r, q) <=> Mapped(m, r, q)
      BY <1>1, <2>2 DEF Mapped
    <2>3. QED
      BY <1>0, <2>1, <2>2 DEF MappedAre
  <1>8. Private(m2, r, u \ {f}, S \ {p})
    <2>1. ASSUME NEW q \in S \ {p}
          PROVE  /\ EntryAt(m2, r, q).frame \in u \ {f}
                 /\ EntryAt(m2, r, q).frame \notin KernelFrames
                 /\ EntryAt(m2, r, q).frame # r
                 /\ \A d \in Low : m2[r][d].present => m2[r][d].frame # EntryAt(m2, r, q).frame
                 /\ \A o \in S \ {p} : EntryAt(m2, r, o).frame = EntryAt(m2, r, q).frame => o = q
      BY <1>0, <1>1, <1>3 DEF Private
    <2>2. QED
      BY <2>1 DEF Private
  <1>9. Owned(m2, r, u \ {f}, S \ {p})
    <2>1. ASSUME NEW g \in u \ {f}, NEW q \in S, EntryAt(m, r, q).frame = g
          PROVE  q \in S \ {p} /\ EntryAt(m2, r, q).frame = g
      <3>1. q # p
        BY <2>1
      <3>2. QED
        BY <1>3, <2>1, <3>1
    <2>2. QED
      BY <1>0, <1>1, <2>1 DEF Owned
  <1>10. Space(m2, r, u \ {f}, last, S \ {p})
    BY <1>0, <1>4, <1>5, <1>6, <1>7, <1>8, <1>9 DEF Space
  <1>11. QED
    BY <1>1, <1>3, <1>10 DEF Kept, SamePages

(* The frame of a client's page is overwritten. *)
Overwrite(m, f, x) == [m EXCEPT ![f] = x]

SameEntry(m, m2, r, p) == EntryAt(m2, r, p) = EntryAt(m, r, p)

LEMMA SpaceStore ==
  ASSUME NEW m \in Memory, NEW r \in Frames, NEW u, NEW last \in Int,
         last < Self * Entries, NEW S, Space(m, r, u, last, S), NEW p \in S,
         NEW x \in [Index -> PageEntry],
         NEW m2, m2 = Overwrite(m, EntryAt(m, r, p).frame, x)
  PROVE  Kept(m, m2, r, u, last, S, S \ {p}) /\ SameEntry(m, m2, r, p)
  <1> DEFINE f == EntryAt(m, r, p).frame
  <1>0. TablesApart(m, r, u) /\ IdentityUpTo(m, r, last) /\ MappedAre(m, r, last, S)
        /\ Private(m, r, u, S) /\ Owned(m, r, u, S)
    BY DEF Space
  <1>1. f \in Frames /\ f # r /\ ~IsTable(m, r, f)
    BY SpacePages
  <1>2. m2 \in Memory /\ \A g \in Frames : g # f => m2[g] = m[g]
    BY <1>1 DEF Memory, Overwrite
  <1>3. m2[r] = m[r]
    BY <1>1, <1>2
  <1>4. ASSUME NEW q \in ClientPages, m[r][q \div Entries].present
        PROVE  EntryAt(m2, r, q) = EntryAt(m, r, q)
    <2>1. q \div Entries \in Low
      BY PageParts
    <2>2. m[r][q \div Entries].frame \in Frames /\ m[r][q \div Entries].frame # f
      BY <1>1, <1>4, <2>1, EntryType DEF IsTable
    <2>3. QED
      BY <1>2, <1>3, <2>2 DEF EntryAt
  <1>5. \A q \in S : EntryAt(m2, r, q) = EntryAt(m, r, q)
    BY <1>4, SpacePages
  <1>6. \A q \in ClientPages : Mapped(m2, r, q) <=> Mapped(m, r, q)
    BY <1>3, <1>4 DEF Mapped
  <1>7. IdentityUpTo(m2, r, last)
    <2>1. ASSUME NEW q \in 0 .. last
          PROVE  m2[r][q \div Entries].present /\ EntryAt(m2, r, q) = IdentityEntry(q)
      <3>1. q \in ClientPages
        BY SpacePages
      <3>2. m[r][q \div Entries].present /\ EntryAt(m, r, q) = IdentityEntry(q)
        BY <1>0 DEF IdentityUpTo
      <3>3. QED
        BY <1>3, <1>4, <3>1, <3>2
    <2>2. QED
      BY <2>1 DEF IdentityUpTo
  <1>8. TablesApart(m2, r, u) /\ MappedAre(m2, r, last, S)
    BY <1>0, <1>3, <1>6 DEF TablesApart, MappedAre
  <1>9. Private(m2, r, u, S)
    BY <1>0, <1>3, <1>5 DEF Private
  <1>10. Owned(m2, r, u, S)
    BY <1>0, <1>3, <1>5 DEF Owned
  <1>11. Space(m2, r, u, last, S)
    BY <1>7, <1>8, <1>9, <1>10 DEF Space
  <1>12. \A q \in S \ {p} : m2[EntryAt(m2, r, q).frame] = m[EntryAt(m, r, q).frame]
    <2>1. ASSUME NEW q \in S \ {p} PROVE m2[EntryAt(m2, r, q).frame] = m[EntryAt(m, r, q).frame]
      <3>1. EntryAt(m, r, q).frame # f
        BY <1>0 DEF Private
      <3>2. EntryAt(m, r, q).frame \in Frames
        BY SpacePages
      <3>3. QED
        BY <1>2, <1>5, <3>1, <3>2
    <2>2. QED
      BY <2>1
  <1>13. QED
    BY <1>2, <1>3, <1>5, <1>11, <1>12 DEF Kept, SamePages, SameEntry

(* Install maps one more page at its own address. *)
LEMMA SpaceIdentity ==
  ASSUME NEW m \in Memory, NEW r \in Frames, NEW u, NEW p \in ClientPages, p \in Frames,
         Space(m, r, u, p - 1, {}), m[r][p \div Entries].present,
         NEW m2, m2 = SetAt(m, r, p, IdentityEntry(p))
  PROVE  m2 \in Memory /\ m2[r] = m[r] /\ Space(m2, r, u, p, {})
  <1>0. TablesApart(m, r, u) /\ IdentityUpTo(m, r, p - 1) /\ MappedAre(m, r, p - 1, {})
        /\ Owned(m, r, u, {})
    BY DEF Space
  <1>1. /\ m2 \in Memory
        /\ m2[r] = m[r]
        /\ EntryAt(m2, r, p) = IdentityEntry(p)
        /\ \A q \in ClientPages : q # p /\ m[r][q \div Entries].present
                                    => EntryAt(m2, r, q) = EntryAt(m, r, q)
    BY <1>0, Entry, SetEntry
  <1>2. p \in Nat /\ p - 1 \in Int /\ p - 1 < Self * Entries
    BY PageParts, Constants
  <1>3. IdentityUpTo(m2, r, p)
    <2>1. ASSUME NEW q \in 0 .. p
          PROVE  m2[r][q \div Entries].present /\ EntryAt(m2, r, q) = IdentityEntry(q)
      <3>1. CASE q = p
        BY <1>1, <3>1
      <3>2. CASE q # p
        <4>1. q \in 0 .. p - 1
          BY <1>2, <3>2
        <4>2. q \in ClientPages
          BY <1>2, <4>1, Constants DEF ClientPages
        <4>3. m[r][q \div Entries].present /\ EntryAt(m, r, q) = IdentityEntry(q)
          BY <1>0, <4>1 DEF IdentityUpTo
        <4>4. QED
          BY <1>1, <3>2, <4>2, <4>3
      <3>3. QED
        BY <3>1, <3>2
    <2>2. QED
      BY <2>1 DEF IdentityUpTo
  <1>4. MappedAre(m2, r, p, {})
    <2>1. ASSUME NEW q \in ClientPages, q > p PROVE ~Mapped(m2, r, q)
      <3>1. q \in Nat /\ q # p /\ q > p - 1
        BY <1>2, <2>1, PageParts
      <3>2. ~Mapped(m, r, q)
        BY <1>0, <3>1 DEF MappedAre
      <3>3. QED
        BY <1>1, <3>1, <3>2 DEF Mapped
    <2>2. QED
      BY <2>1 DEF MappedAre
  <1>5. TablesApart(m2, r, u) /\ Private(m2, r, u, {}) /\ Owned(m2, r, u, {})
    BY <1>0, <1>1 DEF TablesApart, Private, Owned
  <1>6. QED
    BY <1>1, <1>3, <1>4, <1>5 DEF Space

(* The directory's last entry says nothing about the pages below it. *)
LinkAt(m, r, d, t) == [m EXCEPT ![r][d] = PresentEntry(t)]

LEMMA SpaceSelf ==
  ASSUME NEW m \in Memory, NEW r \in Frames, NEW u, NEW last \in Int, last < Self * Entries,
         Space(m, r, u, last, {}), NEW m2, m2 = LinkAt(m, r, Self, r)
  PROVE  m2 \in Memory /\ m2[r][Self] = PresentEntry(r) /\ Space(m2, r, u, last, {})
  <1>0. TablesApart(m, r, u) /\ IdentityUpTo(m, r, last) /\ MappedAre(m, r, last, {})
        /\ Owned(m, r, u, {})
    BY DEF Space
  <1>1. Self \in Index /\ m[r] \in [Index -> PageEntry] /\ Low \subseteq Index /\ Self \notin Low
    BY Constants DEF Index, Memory, Low
  <1>2. m2 = [m EXCEPT ![r] = [m[r] EXCEPT ![Self] = PresentEntry(r)]]
    BY DEF LinkAt
  <1>3. [m[r] EXCEPT ![Self] = PresentEntry(r)] \in [Index -> PageEntry]
    BY <1>1, Entry
  <1>4. /\ m2 \in Memory
        /\ m2[r] = [m[r] EXCEPT ![Self] = PresentEntry(r)]
        /\ \A f \in Frames : f # r => m2[f] = m[f]
    BY <1>2, <1>3 DEF Memory
  <1>5. m2[r][Self] = PresentEntry(r) /\ \A d \in Low : m2[r][d] = m[r][d]
    BY <1>1, <1>4
  <1>6. ASSUME NEW q \in ClientPages, m[r][q \div Entries].present
        PROVE  EntryAt(m2, r, q) = EntryAt(m, r, q)
    <2>1. q \div Entries \in Low
      BY PageParts
    <2>2. m[r][q \div Entries].frame \in Frames /\ m[r][q \div Entries].frame # r
      BY <1>0, <1>6, <2>1, EntryType DEF TablesApart
    <2>3. QED
      BY <1>4, <1>5, <2>1, <2>2 DEF EntryAt
  <1>7. \A q \in ClientPages : m2[r][q \div Entries] = m[r][q \div Entries]
    BY <1>5, PageParts
  <1>8. IdentityUpTo(m2, r, last)
    <2>1. ASSUME NEW q \in 0 .. last
          PROVE  m2[r][q \div Entries].present /\ EntryAt(m2, r, q) = IdentityEntry(q)
      <3>1. q \in ClientPages
        BY SpacePages
      <3>2. m[r][q \div Entries].present /\ EntryAt(m, r, q) = IdentityEntry(q)
        BY <1>0 DEF IdentityUpTo
      <3>3. QED
        BY <1>6, <1>7, <3>1, <3>2
    <2>2. QED
      BY <2>1 DEF IdentityUpTo
  <1>9. MappedAre(m2, r, last, {})
    BY <1>0, <1>6, <1>7 DEF MappedAre, Mapped
  <1>10. TablesApart(m2, r, u) /\ Private(m2, r, u, {}) /\ Owned(m2, r, u, {})
    BY <1>0, <1>5 DEF TablesApart, Private, Owned
  <1>11. QED
    BY <1>4, <1>5, <1>8, <1>9, <1>10 DEF Space

-----------------------------------------------------------------------------
(* The steps of installMMU. *)

(* alloc(1) returns a free frame above 1 MiB. *)
LEMMA AllocOne ==
  ASSUME usable \subseteq Frames, NEW f \in Frames, Alloc(1, f)
  PROVE  /\ f \in usable /\ f \notin used
         /\ used' = used \cup {f}
         /\ usable' = usable
         /\ lastAlloc' = f
  <1>1. f \in Int
    BY Constants DEF Frames
  <1>2. Run(f, 1) = {f}
    BY <1>1 DEF Run
  <1>3. UsableAndFree(f)
    BY <1>2 DEF Alloc, NextFit, Available
  <1>4. QED
    BY <1>1, <1>2, <1>3 DEF Alloc, Take, UsableAndFree

LEMMA CallFields ==
  ASSUME NEW name, NEW first, NEW n
  PROVE  LET c == Call(name, first, n)
         IN  IsCall(c) /\ c.name = name /\ c.first = first /\ c.n = n /\ c.i = 0 /\ c.found = 0
  BY DEF Call, IsCall

LEMMA InitInv == Init => Inv
  <1> SUFFICES ASSUME Init PROVE Inv
    OBVIOUS
  <1>1. PICK ram \in Rams : usable = ram \ Run(0, LowFrames)
    BY DEF Init
  <1>2. usable \subseteq Frames /\ usable \cap Run(0, LowFrames) = {}
    BY <1>1, MMUAssumption
  <1>3. KernelFrames \subseteq Frames /\ 0 \in Frames /\ 0 \in Pages /\ 0 \in Index
    BY Constants DEF KernelFrames, Frames, Pages, Index
  <1>4. mem \in [Frames -> [Index -> PageEntry]]
    BY Entry DEF Init
  <1>5. call.name = "create" /\ call.first = 0 /\ call.n = 0 /\ call.i = 0 /\ call.found = 0
    BY DEF Init, Call
  <1>6. boot = NoBoot /\ boot.frame = 0 /\ boot.last = 0 /\ boot \in [frame : Nat, last : Frames, table : Frames \cup {None}, dir : Index]
    BY <1>3 DEF Init, NoBoot
  <1>7. tlb \in [page : Pages \cup {NoTranslation.page}, frame : Frames \cup {None}]
    BY DEF Init, NoTranslation
  <1>8. TypeOK
    BY <1>2, <1>3, <1>4, <1>5, <1>6, <1>7 DEF Init, TypeOK
  <1>9. CreateInv
    BY <1>2, <1>6 DEF Init, CreateInv
  <1>10. IsCall(call)
    BY CallFields DEF Init
  <1>11. QED
    BY <1>5, <1>6, <1>8, <1>9, <1>10 DEF Inv, Up, Running

(* What a call that panics leaves. *)
LEMMA PanicStep ==
  ASSUME Inv, Panic, boot.frame > boot.last => Up
  PROVE  Inv'
  <1>1. call'.name = "panic" /\ call'.first = 0 /\ call'.n = 0 /\ call'.i = 0 /\ call'.found = 0
    BY DEF Panic, Panicked, Call
  <1>2. 0 \in Pages
    BY Constants DEF Pages
  <1>3. TypeOK'
    BY <1>1, <1>2 DEF Inv, TypeOK, Panic
  <1>4. Up' => Grounded'
    BY DEF Inv, Up, Panic, Grounded
  <1>5. IsCall(call')
    BY CallFields DEF Panic, Panicked
  <1>6. QED
    BY <1>1, <1>3, <1>4, <1>5 DEF Inv, Running

LEMMA CreateStep ==
  ASSUME Inv, Create
  PROVE  Inv'
  <1>1. CASE Panic
    BY <1>1, PanicStep DEF Create, Up, Inv, CreateInv, NoBoot
  <1>2. ASSUME NEW f \in Frames,
               Alloc(1, f),
               cr3' = f,
               mem' = [mem EXCEPT ![f] = EmptyTable],
               boot' = [NoBoot EXCEPT !.last = ReadOnlyEnd],
               call' = Call("install", 0, 0),
               UNCHANGED <<tlb, held>>
        PROVE  Inv'
    <2> USE <1>2
    <2>1. TypeOK /\ CreateInv /\ usable \subseteq Frames
      BY DEF Inv, Create, TypeOK
    <2>2. f \in usable /\ f \notin used /\ used' = used \cup {f} /\ usable' = usable /\ lastAlloc' = f
      BY <2>1, AllocOne
    <2>3. call'.name = "install" /\ call'.first = 0 /\ call'.n = 0 /\ call'.i = 0 /\ call'.found = 0
      BY DEF Call
    <2>4. boot' = [frame |-> 0, last |-> ReadOnlyEnd, table |-> None, dir |-> 0]
      BY DEF NoBoot
    <2>5. ReadOnlyEnd \in Frames /\ 0 \in Index /\ 0 \in Pages /\ f \in Int /\ KernelFrames \subseteq Frames
      BY Constants DEF Frames, Index, Pages, KernelFrames
    <2>6. boot' \in [frame : Nat, last : Frames, table : Frames \cup {None}, dir : Index]
      <3>1. 0 \in Nat
        OBVIOUS
      <3>2. [frame |-> 0, last |-> ReadOnlyEnd, table |-> None, dir |-> 0]
              \in [frame : Nat, last : Frames, table : Frames \cup {None}, dir : Index]
        BY <2>5, <3>1
      <3>3. QED
        BY <2>4, <3>2
    <2>7. mem' \in Memory
      BY <2>1, Entry DEF TypeOK, Memory
    <2>8. TypeOK'
      BY <2>1, <2>2, <2>3, <2>5, <2>6, <2>7 DEF TypeOK, Memory
    <2>9. Done' = mem' /\ boot'.frame = 0 /\ boot'.last = ReadOnlyEnd /\ boot'.table = None /\ boot'.dir = 0
      BY <2>4 DEF Done
    <2>10. mem'[f] = EmptyTable
      BY <2>1 DEF TypeOK
    <2>11. \A d \in Index : ~mem'[f][d].present
      BY <2>10, Entry
    <2>12. \A g \in usable : g < f => g \in used'
      <3>1. ASSUME NEW g \in usable, g < f, g \notin used PROVE FALSE
        <4>1. g \in Frames /\ g \in Int /\ f \in Int /\ g >= 0 /\ f >= 0
          BY <2>1, Constants DEF Frames
        <4>2. Run(g, 1) = {g}
          BY <4>1 DEF Run
        <4>3. Available(g, 1)
          BY <3>1, <4>2 DEF Available, UsableAndFree
        <4>4. Distance(f) <= Distance(g)
          BY <4>1, <4>3 DEF Alloc, NextFit
        <4>5. lastAlloc = 0
          BY <2>1 DEF CreateInv
        <4>6. QED
          BY <3>1, <4>1, <4>4, <4>5 DEF Distance
      <3>2. QED
        BY <2>2, <3>1
    <2>13. Space(mem', f, used', -1, {})
      <3>1. \A d \in Low : ~mem'[f][d].present
        BY <2>11, Constants DEF Low, Index
      <3>2. TablesApart(mem', f, used')
        BY <3>1 DEF TablesApart
      <3>3. IdentityUpTo(mem', f, -1)
        BY DEF IdentityUpTo
      <3>4. MappedAre(mem', f, -1, {})
        BY <3>1, PageParts DEF MappedAre, Mapped
      <3>5. used = KernelFrames /\ f \notin KernelFrames
        BY <2>1, <2>2 DEF CreateInv
      <3>6. Private(mem', f, used', {}) /\ Owned(mem', f, used', {})
        BY <2>2, <3>5 DEF Private, Owned
      <3>7. QED
        BY <2>2, <3>2, <3>3, <3>4, <3>5, <3>6 DEF Space
    <2>14. InstallInv'
      <3>1. /\ usable' \cap Run(0, LowFrames) = {}
            /\ held' = {}
        BY <2>1, <2>2 DEF CreateInv
      <3>2. None \notin Frames /\ ReadOnlyEnd >= 0
        BY Constants DEF None, Frames
      <3>3. /\ boot'.frame <= boot'.last + 1
            /\ boot'.frame - 1 = -1
            /\ ~(boot'.frame > 0)
        BY <2>9, Constants
      <3>4. \A d \in Index : ~Done'[cr3'][d].present
        BY <2>9, <2>11
      <3>5. Space(Done', cr3', used', boot'.frame - 1, {})
        BY <2>9, <2>13, <3>3
      <3>6. \A g \in usable' : g < cr3' => g \in used'
        BY <2>2, <2>12
      <3>7. QED
        BY <2>9, <3>1, <3>3, <3>4, <3>5, <3>6 DEF InstallInv
    <2>15. QED
      BY <2>3, <2>8, <2>14, CallFields DEF Inv, Up, Running
  <1>3. QED
    BY <1>1, <1>2 DEF Create

(* The number of the directory entry of the next page. *)
LEMMA NextPage ==
  ASSUME NEW p \in Nat, p > 0
  PROVE  /\ (p - 1) \div Entries \in Nat
         /\ p % Entries = 0 => p \div Entries = ((p - 1) \div Entries) + 1
         /\ p % Entries # 0 => p \div Entries = (p - 1) \div Entries
  BY Constants

(* What the invariant of install says about its variables. *)
LEMMA InstallFacts ==
  ASSUME Inv, call.name = "install"
  PROVE  /\ TypeOK /\ InstallInv
         /\ mem \in Memory /\ cr3 \in Frames /\ cr3 \in Int
         /\ boot.frame \in Nat /\ boot.last \in Int /\ boot.last \in Frames /\ boot.last < Self * Entries
         /\ usable \subseteq Frames /\ used \subseteq Frames
         /\ None \notin Frames
         /\ boot = [frame |-> boot.frame, last |-> boot.last, table |-> boot.table, dir |-> boot.dir]
         /\ boot.frame > 0 => boot.table \in Frames /\ boot.dir \in Low /\ boot.frame - 1 \in ClientPages
         /\ boot.frame <= boot.last => boot.frame \in ClientPages /\ boot.frame \in Frames
         /\ Done \in Memory
  <1>1. TypeOK /\ InstallInv
    BY DEF Inv
  <1>2. mem \in Memory /\ cr3 \in Frames /\ usable \subseteq Frames /\ used \subseteq Frames
    BY <1>1 DEF TypeOK, Memory
  <1>3. boot \in [frame : Nat, last : Frames, table : Frames \cup {None}, dir : Index]
    BY <1>1 DEF TypeOK
  <1>4. boot = [frame |-> boot.frame, last |-> boot.last, table |-> boot.table, dir |-> boot.dir]
    BY <1>3
  <1>5. boot.frame \in Nat /\ boot.last \in Frames /\ boot.table \in Frames \cup {None} /\ boot.dir \in Index
    BY <1>3
  <1>6. boot.last \in Int /\ boot.last >= 0 /\ boot.last < NumFrames /\ cr3 \in Int
    BY <1>2, <1>5, Constants DEF Frames
  <1>7. boot.last < Self * Entries
    BY <1>6, Constants
  <1>8. None \notin Frames
    BY Constants DEF None, Frames
  <1>9. boot.frame <= boot.last + 1
    BY <1>1 DEF InstallInv
  <1>10. ASSUME boot.frame > 0
         PROVE  boot.table \in Frames /\ boot.dir \in Low /\ boot.frame - 1 \in ClientPages
    <2>1. boot.table # None /\ boot.dir = (boot.frame - 1) \div Entries
      BY <1>1, <1>10 DEF InstallInv
    <2>2. boot.frame - 1 \in ClientPages
      BY <1>5, <1>6, <1>7, <1>9, <1>10, Constants DEF ClientPages
    <2>3. QED
      BY <1>5, <2>1, <2>2, PageParts
  <1>11. boot.frame <= boot.last => boot.frame \in ClientPages /\ boot.frame \in Frames
    BY <1>5, <1>6, <1>7, Constants DEF ClientPages, Frames
  <1>12. Done \in Memory
    <2>1. CASE boot.table = None
      BY <1>2, <2>1 DEF Done
    <2>2. CASE boot.table # None
      <3>1. boot.table \in Frames
        BY <1>5, <2>2
      <3>2. Done = [mem EXCEPT ![cr3] = [mem[cr3] EXCEPT ![boot.dir] = PresentEntry(boot.table)]]
        BY <2>2 DEF Done, Linked
      <3>3. mem[cr3] \in [Index -> PageEntry]
        BY <1>2 DEF Memory
      <3>4. [mem[cr3] EXCEPT ![boot.dir] = PresentEntry(boot.table)] \in [Index -> PageEntry]
        BY <1>5, <3>1, <3>3, Entry
      <3>5. QED
        BY <1>2, <3>2, <3>4 DEF Memory
    <2>3. QED
      BY <2>1, <2>2
  <1>13. QED
    BY <1>1, <1>2, <1>4, <1>5, <1>6, <1>7, <1>8, <1>10, <1>11, <1>12

(* A new table, entered once it is begun. *)
LEMMA BegunTable ==
  ASSUME NEW m \in Memory, NEW r \in Frames, NEW d \in Index, NEW t \in Frames, t # r,
         NEW p, p \div Entries = d, p % Entries = 0, NEW x \in PageEntry,
         NEW begun, begun = Overwrite(m, t, [EmptyTable EXCEPT ![0] = x])
  PROVE  LinkAt(begun, r, d, t) = SetAt(AddTable(m, r, d, t), r, p, x)
  <1> DEFINE row == [m[r] EXCEPT ![d] = PresentEntry(t)]
             fresh == [EmptyTable EXCEPT ![0] = x]
             a == AddTable(m, r, d, t)
  <1>1. m[r] \in [Index -> PageEntry]
    BY DEF Memory
  <1>2. begun = [m EXCEPT ![t] = fresh] /\ begun[r] = m[r] /\ DOMAIN begun = Frames
    BY DEF Overwrite, Memory
  <1>3. a = [m EXCEPT ![r] = row, ![t] = EmptyTable]
    BY DEF AddTable
  <1>4. a[r] = row /\ a[t] = EmptyTable /\ DOMAIN a = Frames
    BY <1>3 DEF Memory
  <1>5. a[r][p \div Entries].frame = t
    BY <1>1, <1>4, Entry
  <1>6. LinkAt(begun, r, d, t) = [begun EXCEPT ![r] = row]
    BY <1>2 DEF LinkAt
  <1>7. SetAt(a, r, p, x) = [a EXCEPT ![t] = fresh]
    BY <1>4, <1>5 DEF SetAt
  <1>8. \A f \in Frames : [begun EXCEPT ![r] = row][f] = [a EXCEPT ![t] = fresh][f]
    <2> HIDE DEF row, fresh, a
    <2>1. QED
      BY <1>2, <1>3, <1>4 DEF Memory
  <1>9. [begun EXCEPT ![r] = row] = [a EXCEPT ![t] = fresh]
    <2> HIDE DEF row, fresh, a
    <2>1. QED
      BY <1>2, <1>4, <1>8
  <1>10. QED
    BY <1>6, <1>7, <1>9

LEMMA InstallNewTableStep ==
  ASSUME Inv, InstallNewTable
  PROVE  Inv'
  <1>0. /\ call.name = "install" /\ boot.frame <= boot.last /\ boot.frame % Entries = 0
    BY DEF InstallNewTable
  <1>1. /\ TypeOK /\ InstallInv
        /\ mem \in Memory /\ cr3 \in Frames /\ cr3 \in Int
        /\ boot.frame \in Nat /\ boot.last \in Int /\ boot.last \in Frames /\ boot.last < Self * Entries
        /\ usable \subseteq Frames /\ used \subseteq Frames
        /\ None \notin Frames
        /\ boot.frame \in ClientPages /\ boot.frame \in Frames
        /\ Done \in Memory
    BY <1>0, InstallFacts
  <1>2. CASE Panic
    BY <1>0, <1>1, <1>2, PanicStep DEF Up
  <1>3. ASSUME NEW t \in Frames,
               Alloc(1, t),
               mem' = [Done EXCEPT ![t] = [EmptyTable EXCEPT ![0] = IdentityEntry(boot.frame)]],
               boot' = [frame |-> boot.frame + 1,
                        last  |-> IF t > boot.last THEN t ELSE boot.last,
                        table |-> t,
                        dir   |-> IF boot.table = None THEN boot.dir ELSE boot.dir + 1],
               UNCHANGED <<cr3, call, tlb, held>>
        PROVE  Inv'
    <2>1. t \in usable /\ t \notin used /\ used' = used \cup {t} /\ usable' = usable /\ lastAlloc' = t
      BY <1>1, <1>3, AllocOne
    <2> DEFINE p == boot.frame
               d == p \div Entries
               r == cr3
               a == AddTable(Done, r, d, t)
               last2 == IF t > boot.last THEN t ELSE boot.last
    <2>2. p \in Nat /\ d \in Low /\ d \in Index /\ p = d * Entries /\ p < Self * Entries /\ p - 1 \in Int /\ d \in Int
      <3>1. p \in Nat /\ d \in Low /\ d \in Index /\ p = d * Entries + (p % Entries) /\ p < Self * Entries
        BY <1>1, PageParts
      <3>2. QED
        BY <1>0, <3>1, Constants DEF Low
    <2>3. Space(Done, r, used, p - 1, {}) /\ \A e \in Index : e * Entries >= p => ~Done[r][e].present
      BY <1>1 DEF InstallInv
    <2>4. ~Done[r][d].present /\ r \in used /\ t # r
      BY <2>1, <2>2, <2>3 DEF Space
    <2>5. p - 1 < Self * Entries
      BY <2>2, Constants
    <2>6. /\ a \in Memory
          /\ Space(a, r, used \cup {t}, p - 1, {})
          /\ a[r][d] = PresentEntry(t)
          /\ \A e \in Index : e # d => a[r][e] = Done[r][e]
      <3>1. a = AddTable(Done, r, d, t)
        OBVIOUS
      <3> DEFINE q == p - 1
                 none == {}
      <3>2. q \in Int /\ q < Self * Entries /\ Space(Done, r, used, q, none)
        BY <2>2, <2>3, <2>5
      <3> HIDE DEF a, d, r, q, none
      <3>3. r \in Frames /\ Done \in Memory /\ d \in Low /\ ~Done[r][d].present /\ t \notin used
        BY <1>1, <2>1, <2>2, <2>4 DEF r
      <3>4. a \in Memory /\ Space(a, r, used \cup {t}, q, none) /\ Gained(Done, a, r, d, t)
        BY <3>1, <3>2, <3>3, SpaceNewTable
      <3>5. QED
        BY <3>4 DEF q, none, Gained
    <2>7. IdentityEntry(p) \in PageEntry /\ a[r][d].present
      BY <1>1, <2>6, Entry
    <2>8. /\ SetAt(a, r, p, IdentityEntry(p)) \in Memory
          /\ SetAt(a, r, p, IdentityEntry(p))[r] = a[r]
          /\ Space(SetAt(a, r, p, IdentityEntry(p)), r, used \cup {t}, p, {})
      <3> HIDE DEF a
      <3>1. QED
        BY <1>1, <2>6, <2>7, SpaceIdentity
    <2>9. boot'.frame = p + 1 /\ boot'.last = last2 /\ boot'.table = t /\ boot'.dir = d
      <3>1. CASE boot.table = None
        <4>1. p = 0 /\ boot.dir = 0
          BY <1>1, <3>1 DEF InstallInv
        <4>2. d = 0
          BY <4>1, Constants
        <4>3. QED
          BY <1>3, <3>1, <4>1, <4>2
      <3>2. CASE boot.table # None
        <4>1. p > 0 /\ boot.dir = (p - 1) \div Entries
          BY <1>1, <3>2 DEF InstallInv
        <4>2. d = boot.dir + 1
          BY <1>0, <2>2, <4>1, NextPage
        <4>3. QED
          BY <1>3, <3>2, <4>2
      <3>3. QED
        BY <3>1, <3>2
    <2>10. Done' = SetAt(a, r, p, IdentityEntry(p))
      <3>1. mem' = Overwrite(Done, t, [EmptyTable EXCEPT ![0] = IdentityEntry(p)])
        BY <1>3 DEF Overwrite
      <3>2. t # None
        BY <1>1
      <3>3. Done' = LinkAt(mem', r, d, t)
        BY <1>3, <2>9, <3>2 DEF Done, Linked, LinkAt
      <3>4. LinkAt(mem', r, d, t) = SetAt(AddTable(Done, r, d, t), r, p, IdentityEntry(p))
        <4>1. r \in Frames /\ d \in Index /\ t # r /\ p \div Entries = d /\ p % Entries = 0
              /\ IdentityEntry(p) \in PageEntry
          BY <1>0, <1>1, <2>2, <2>4, <2>7
        <4> HIDE DEF p, d, r
        <4>2. QED
          BY <1>1, <3>1, <4>1, BegunTable
      <3>5. QED
        BY <3>3, <3>4
    <2>11. last2 \in Frames /\ last2 \in Int /\ last2 >= t /\ last2 >= boot.last /\ t \in Int
      BY <1>1, Constants DEF Frames
    <2>12. t > KernelEnd /\ t > r
      <3>1. t >= 0 /\ t \notin Run(0, LowFrames) /\ t \notin KernelFrames /\ ~(t < r)
        BY <1>1, <2>1, <2>3, Constants DEF InstallInv, Frames, Space
      <3>2. QED
        BY <1>1, <2>4, <2>11, <3>1, Constants DEF Run, KernelFrames
    <2>13. KernelFrames \cup {r} \subseteq 0 .. last2
      BY <1>1, <2>11, <2>12, Constants DEF KernelFrames, Frames
    <2>14. InstallInv'
      <3>1. /\ usable' \cap Run(0, LowFrames) = {}
            /\ held' = {}
            /\ \A g \in usable' : g < cr3' => g \in used'
        BY <1>1, <1>3, <2>1 DEF InstallInv
      <3>2. boot'.frame <= boot'.last + 1 /\ boot'.frame > 0 /\ boot'.frame # 0 /\ boot'.frame - 1 = p
        BY <1>0, <1>1, <2>9, <2>11
      <3>3. boot'.table # None /\ boot'.table \in used' /\ boot'.table # cr3'
        BY <1>1, <1>3, <2>1, <2>4, <2>9
      <3>4. boot'.dir = (boot'.frame - 1) \div Entries /\ KernelFrames \cup {cr3'} \subseteq 0 .. boot'.last
        BY <1>3, <2>9, <2>13, <3>2
      <3>5. ASSUME NEW e \in Index, e * Entries >= boot'.frame PROVE ~Done'[cr3'][e].present
        <4>1. e * Entries \in Int
          BY Constants DEF Index
        <4>2. e # d /\ e * Entries >= p
          BY <2>2, <2>9, <3>5, <4>1
        <4>3. QED
          BY <1>3, <2>3, <2>6, <2>8, <2>10, <4>2
      <3>6. Space(Done', cr3', used', boot'.frame - 1, {})
        BY <1>3, <2>1, <2>8, <2>10, <3>2
      <3>7. QED
        BY <3>1, <3>2, <3>3, <3>4, <3>5, <3>6 DEF InstallInv
    <2>15. TypeOK'
      <3>1. boot' \in [frame : Nat, last : Frames, table : Frames \cup {None}, dir : Index]
        <4>1. p + 1 \in Nat /\ boot' = [frame |-> p + 1, last |-> last2, table |-> t, dir |-> d]
          BY <1>3, <2>2, <2>9
        <4> HIDE DEF p, d, last2
        <4>2. QED
          BY <2>2, <2>11, <4>1, Zenon
      <3>2. mem' \in [Frames -> [Index -> PageEntry]]
        <4>1. 0 \in Index
          BY Constants DEF Index
        <4>2. [EmptyTable EXCEPT ![0] = IdentityEntry(p)] \in [Index -> PageEntry]
          BY <2>7, <4>1, Entry
        <4>3. QED
          BY <1>1, <1>3, <4>2 DEF Memory
      <3>3. QED
        BY <1>1, <1>3, <2>1, <3>1, <3>2 DEF TypeOK
    <2>16. QED
      BY <1>0, <1>3, <2>14, <2>15 DEF Inv, Up, Running
  <1>4. QED
    BY <1>2, <1>3 DEF InstallNewTable, Done

(* An entry of the table under construction. *)
SetCell(m, t, k, x) == [m EXCEPT ![t][k] = x]

LEMMA BegunEntry ==
  ASSUME NEW m \in Memory, NEW r \in Frames, NEW d \in Index, NEW t \in Frames, t # r,
         NEW p, p \div Entries = d, NEW x,
         NEW m2, m2 = SetCell(m, t, p % Entries, x)
  PROVE  LinkAt(m2, r, d, t) = SetAt(LinkAt(m, r, d, t), r, p, x)
  <1> DEFINE row == [m[r] EXCEPT ![d] = PresentEntry(t)]
             cells == [m[t] EXCEPT ![p % Entries] = x]
             a == LinkAt(m, r, d, t)
  <1>1. m[r] \in [Index -> PageEntry]
    BY DEF Memory
  <1>2. m2 = [m EXCEPT ![t] = cells] /\ m2[r] = m[r] /\ DOMAIN m2 = Frames
    BY DEF Memory, SetCell
  <1>3. a = [m EXCEPT ![r] = row]
    BY DEF LinkAt
  <1>4. a[r] = row /\ a[t] = m[t] /\ DOMAIN a = Frames
    BY <1>3 DEF Memory
  <1>5. a[r][p \div Entries].frame = t
    BY <1>1, <1>4, Entry
  <1>6. LinkAt(m2, r, d, t) = [m2 EXCEPT ![r] = row]
    BY <1>2 DEF LinkAt
  <1>7. SetAt(a, r, p, x) = [a EXCEPT ![t] = cells]
    BY <1>4, <1>5 DEF SetAt
  <1>8. \A f \in Frames : [m2 EXCEPT ![r] = row][f] = [a EXCEPT ![t] = cells][f]
    <2> HIDE DEF row, cells, a
    <2>1. QED
      BY <1>2, <1>3, <1>4 DEF Memory
  <1>9. [m2 EXCEPT ![r] = row] = [a EXCEPT ![t] = cells]
    <2> HIDE DEF row, cells, a
    <2>1. QED
      BY <1>2, <1>4, <1>8
  <1>10. QED
    BY <1>6, <1>7, <1>9

LEMMA InstallEntryStep ==
  ASSUME Inv, InstallEntry
  PROVE  Inv'
  <1>0. /\ call.name = "install" /\ boot.frame <= boot.last /\ boot.frame % Entries # 0
        /\ mem' = [mem EXCEPT ![boot.table][boot.frame % Entries] = IdentityEntry(boot.frame)]
        /\ boot' = [boot EXCEPT !.frame = @ + 1]
        /\ UNCHANGED <<usable, used, lastAlloc, cr3, call, tlb, held>>
    BY DEF InstallEntry
  <1>1. /\ TypeOK /\ InstallInv
        /\ mem \in Memory /\ cr3 \in Frames
        /\ boot.frame \in Nat /\ boot.last \in Int
        /\ None \notin Frames
        /\ boot = [frame |-> boot.frame, last |-> boot.last, table |-> boot.table, dir |-> boot.dir]
        /\ boot.frame \in ClientPages /\ boot.frame \in Frames
        /\ Done \in Memory
    BY <1>0, InstallFacts
  <1> DEFINE p == boot.frame
             d == boot.dir
             r == cr3
             t == boot.table
  <1>2. p > 0
    <2>1. p # 0
      BY <1>0, Constants
    <2>2. QED
      BY <1>1, <2>1
  <1>3. t \in Frames /\ d \in Low /\ d \in Index
    BY <1>0, <1>2, InstallFacts, Constants DEF Low, Index
  <1>4. p \div Entries = d /\ t # r /\ t \in used /\ t # None
        /\ KernelFrames \cup {r} \subseteq 0 .. boot.last
    BY <1>0, <1>1, <1>2, <1>3, NextPage DEF InstallInv
  <1>5. IdentityEntry(p) \in PageEntry
    BY <1>1, Entry
  <1>6. Done = LinkAt(mem, r, d, t)
    BY <1>4 DEF Done, Linked, LinkAt
  <1>7. boot' = [frame |-> p + 1, last |-> boot.last, table |-> t, dir |-> d]
    BY <1>0, <1>1
  <1>8. Done' = LinkAt(mem', r, d, t)
    BY <1>0, <1>4, <1>7 DEF Done, Linked, LinkAt
  <1>9. Done' = SetAt(Done, r, p, IdentityEntry(p))
    <2>1. r \in Frames /\ mem' = SetCell(mem, t, p % Entries, IdentityEntry(p))
      BY <1>0, <1>1 DEF SetCell
    <2> HIDE DEF p, d, r, t
    <2>2. LinkAt(mem', r, d, t) = SetAt(LinkAt(mem, r, d, t), r, p, IdentityEntry(p))
      BY <1>1, <1>3, <1>4, <2>1, BegunEntry
    <2>3. QED
      BY <1>6, <1>8, <2>2
  <1>10. Done[r][p \div Entries].present
    <2>1. mem[r] \in [Index -> PageEntry] /\ r \in Frames
      BY <1>1 DEF Memory
    <2>2. Done[r][d] = PresentEntry(t)
      BY <1>1, <1>3, <1>6, <2>1 DEF LinkAt, Memory
    <2>3. QED
      BY <1>3, <1>4, <2>2, Entry
  <1>11. Done' \in Memory /\ Done'[r] = Done[r] /\ Space(Done', r, used, p, {})
    <2>1. Space(Done, r, used, p - 1, {})
      BY <1>1 DEF InstallInv
    <2>2. QED
      BY <1>1, <1>9, <1>10, <2>1, SpaceIdentity
  <1>12. InstallInv'
    <2>1. /\ usable' \cap Run(0, LowFrames) = {}
          /\ held' = {}
          /\ \A g \in usable' : g < cr3' => g \in used'
      BY <1>0, <1>1 DEF InstallInv
    <2>2. /\ boot'.frame <= boot'.last + 1 /\ boot'.frame > 0 /\ boot'.frame # 0 /\ boot'.frame - 1 = p
          /\ boot'.last = boot.last /\ boot'.table = t /\ boot'.dir = d
      BY <1>0, <1>1, <1>7
    <2>3. ASSUME NEW e \in Index, e * Entries >= boot'.frame PROVE ~Done'[cr3'][e].present
      <3>1. e * Entries \in Int
        BY Constants DEF Index
      <3>2. e * Entries >= p
        BY <1>1, <1>7, <2>3, <3>1
      <3>3. ~Done[r][e].present
        BY <1>1, <3>2 DEF InstallInv
      <3>4. QED
        BY <1>0, <1>11, <3>3
    <2>4. Space(Done', cr3', used', boot'.frame - 1, {})
      BY <1>0, <1>11, <2>2
    <2>5. boot'.dir = (boot'.frame - 1) \div Entries /\ KernelFrames \cup {cr3'} \subseteq 0 .. boot'.last
          /\ boot'.table # None /\ boot'.table \in used' /\ boot'.table # cr3'
      BY <1>0, <1>4, <2>2
    <2>6. QED
      BY <2>1, <2>2, <2>3, <2>4, <2>5 DEF InstallInv
  <1>13. TypeOK'
    <2>1. boot' \in [frame : Nat, last : Frames, table : Frames \cup {None}, dir : Index]
      BY <1>0, <1>1 DEF TypeOK
    <2>2. mem' \in [Frames -> [Index -> PageEntry]]
      <3>1. p % Entries \in Index /\ mem[t] \in [Index -> PageEntry]
        BY <1>1, <1>3, PageParts DEF Memory
      <3>2. [mem[t] EXCEPT ![p % Entries] = IdentityEntry(p)] \in [Index -> PageEntry]
        BY <1>5, <3>1
      <3>3. mem' = [mem EXCEPT ![t] = [mem[t] EXCEPT ![p % Entries] = IdentityEntry(p)]]
        BY <1>0
      <3>4. QED
        BY <1>1, <3>2, <3>3 DEF Memory
    <2>3. QED
      BY <1>0, <1>1, <2>1, <2>2 DEF TypeOK
  <1>14. QED
    BY <1>0, <1>12, <1>13 DEF Inv, Up, Running

LEMMA IdleFields ==
  /\ IsCall(Idle)
  /\ Idle.name = "idle" /\ Idle.first = 0 /\ Idle.n = 0 /\ Idle.i = 0 /\ Idle.found = 0
  /\ Idle.first \in Pages /\ Idle.n \in PageCounts \cup {0} /\ Idle.found \in 0 .. Idle.n
  BY Constants, CallFields DEF Idle, Pages

LEMMA InstallDoneStep ==
  ASSUME Inv, InstallDone
  PROVE  Inv'
  <1>0. /\ call.name = "install" /\ boot.frame > boot.last
        /\ mem' = Linked(Linked(mem, boot.dir, boot.table), Self, cr3)
        /\ call' = Idle
        /\ UNCHANGED <<usable, used, lastAlloc, cr3, boot, tlb, held>>
    BY DEF InstallDone
  <1>1. /\ TypeOK /\ InstallInv
        /\ mem \in Memory /\ cr3 \in Frames
        /\ boot.frame \in Nat /\ boot.last \in Int /\ boot.last < Self * Entries /\ boot.last \in Frames
        /\ Done \in Memory
    BY <1>0, InstallFacts
  <1>2. boot.frame > 0 /\ boot.frame - 1 = boot.last /\ held = {}
    BY <1>0, <1>1, Constants DEF InstallInv, Frames
  <1>3. boot.table # None /\ Space(Done, cr3, used, boot.last, {})
        /\ KernelFrames \cup {cr3} \subseteq 0 .. boot.last
    BY <1>1, <1>2 DEF InstallInv
  <1>4. mem' = LinkAt(Done, cr3, Self, cr3)
    BY <1>0, <1>3 DEF Done, Linked, LinkAt
  <1>5. mem' \in Memory /\ mem'[cr3][Self] = PresentEntry(cr3) /\ Space(mem', cr3, used, boot.last, {})
    BY <1>1, <1>3, <1>4, SpaceSelf
  <1>6. HeldPages' = {} /\ Pending(call') = {}
    BY <1>0, <1>2, IdleFields DEF HeldPages, Pending
  <1>7. TypeOK'
    BY <1>0, <1>1, <1>5, IdleFields DEF TypeOK, Memory
  <1>8. Grounded'
    BY <1>0, <1>3, <1>5 DEF Grounded, Space
  <1>9. RunningInv'
    <2>1. CallInv(mem', cr3', boot'.last, HeldPages', call')
      BY <1>0, IdleFields DEF CallInv
    <2>2. TlbInv(mem', cr3', HeldPages', tlb') /\ Disjoint(held')
      BY <1>0, <1>2, <1>6 DEF TlbInv, Disjoint
    <2>3. HeldPages' \cup Pending(call') = {}
      BY <1>6
    <2>4. Space(mem', cr3', used', boot'.last, HeldPages' \cup Pending(call')) /\ boot'.frame > boot'.last
      BY <1>0, <1>5, <2>3
    <2>5. QED
      BY <2>1, <2>2, <2>4 DEF RunningInv
  <1>10. QED
    BY <1>0, <1>7, <1>8, <1>9, IdleFields DEF Inv

-----------------------------------------------------------------------------
(* palloc's search. *)

(* A non-empty set of numbers has a least element. *)
LEMMA Least ==
  ASSUME NEW T \in SUBSET Nat, T # {}
  PROVE  \E x \in T : \A y \in T : x <= y
  <1>1. IsWellFoundedOn(OpToRel(<, Nat), Nat)
    BY NatLessThanWellFounded
  <1>2. PICK x \in T : \A y \in T : ~(<<y, x>> \in OpToRel(<, Nat))
    BY <1>1, WFMin
  <1>3. ASSUME NEW y \in T PROVE x <= y
    <2>1. x \in Nat /\ y \in Nat
      OBVIOUS
    <2>2. ~(y < x)
      BY <1>2, <2>1 DEF OpToRel
    <2>3. QED
      BY <2>1, <2>2
  <1>4. QED
    BY <1>3

(* What the count of contiguous free pages means, when the loop has looked *)
(* at entry e.                                                             *)
Counts(table, carry, e, c) ==
  /\ c \in Nat
  /\ c <= carry + e + 1
  /\ \A k \in 0 .. e : k > e - c => ~table[k].present
  /\ c > e => c = carry + e + 1
  /\ c <= e => table[e - c].present

LEMMA RunLengthCounts ==
  ASSUME NEW table, NEW carry \in Nat, NEW e \in Nat
  PROVE  Counts(table, carry, e, RunLength(table, carry, e))
  <1>1. CASE \A k \in 0 .. e : ~table[k].present
    <2>1. RunLength(table, carry, e) = carry + e + 1
      BY <1>1 DEF RunLength
    <2>2. QED
      BY <1>1, <2>1 DEF Counts
  <1>2. CASE ~\A k \in 0 .. e : ~table[k].present
    <2> DEFINE P(k) == table[k].present /\ \A j \in k + 1 .. e : ~table[j].present
               back == {b \in 0 .. e : table[e - b].present}
    <2>1. PICK k0 \in 0 .. e : table[k0].present
      BY <1>2
    <2>2. e - k0 \in back
      <3>1. e - k0 \in 0 .. e /\ e - (e - k0) = k0
        OBVIOUS
      <3>2. QED
        BY <2>1, <3>1
    <2>3. PICK b \in back : \A c \in back : b <= c
      <3>1. back \in SUBSET Nat /\ back # {}
        BY <2>2
      <3> HIDE DEF back
      <3>2. QED
        BY <3>1, Least
    <2>4. e - b \in 0 .. e /\ P(e - b)
      <3>1. b \in 0 .. e /\ table[e - b].present
        OBVIOUS
      <3>2. ASSUME NEW j \in e - b + 1 .. e, table[j].present PROVE FALSE
        <4>1. e - j \in 0 .. e /\ e - (e - j) = j /\ e - j < b
          BY <3>1
        <4>2. e - j \in back
          BY <3>2, <4>1
        <4>3. QED
          BY <2>3, <3>1, <4>1, <4>2
      <3>3. QED
        BY <3>1, <3>2
    <2> DEFINE k == CHOOSE k \in 0 .. e : P(k)
    <2>5. k \in 0 .. e /\ P(k)
      <3>1. \E x \in 0 .. e : P(x)
        BY <2>4
      <3> HIDE DEF P
      <3>2. QED
        BY <3>1
    <2>6. RunLength(table, carry, e) = e - k
      BY <1>2 DEF RunLength
    <2> HIDE DEF k
    <2>7. e - k \in Nat /\ e - k <= e /\ e - (e - k) = k /\ e - k <= carry + e + 1
      BY <2>5
    <2>8. QED
      BY <2>5, <2>6, <2>7 DEF Counts
  <1>3. QED
    BY <1>1, <1>2

(* The count is the only number of which this is true. *)
LEMMA CountsUnique ==
  ASSUME NEW table, NEW carry \in Nat, NEW e \in Nat, NEW c \in Nat,
         Counts(table, carry, e, c)
  PROVE  RunLength(table, carry, e) = c
  <1> DEFINE b == RunLength(table, carry, e)
  <1>1. Counts(table, carry, e, b)
    BY RunLengthCounts
  <1> HIDE DEF b
  <1>2. b \in Nat
    BY <1>1 DEF Counts
  <1>3. CASE b <= e /\ c <= e
    <2>1. table[e - b].present /\ table[e - c].present /\ e - b \in 0 .. e /\ e - c \in 0 .. e
      BY <1>1, <1>2, <1>3 DEF Counts
    <2>2. ~(e - b > e - c) /\ ~(e - c > e - b)
      BY <1>1, <2>1 DEF Counts
    <2>3. QED
      BY <1>2, <2>2 DEF b
  <1>4. CASE b > e /\ c > e
    BY <1>1, <1>4 DEF Counts, b
  <1>5. CASE b <= e /\ c > e
    <2>1. table[e - b].present /\ e - b \in 0 .. e /\ e - b > e - c
      BY <1>1, <1>2, <1>5 DEF Counts
    <2>2. QED
      BY <2>1 DEF Counts
  <1>6. CASE b > e /\ c <= e
    <2>1. table[e - c].present /\ e - c \in 0 .. e /\ e - c > e - b
      BY <1>2, <1>6 DEF Counts
    <2>2. QED
      BY <1>1, <2>1 DEF Counts
  <1>7. QED
    BY <1>2, <1>3, <1>4, <1>5, <1>6

(* The loop stops at the first run that is long enough: a count that never *)
(* is n stays below it.                                                    *)
LEMMA NoHit ==
  ASSUME NEW table, NEW carry \in Nat, NEW n \in Nat, carry < n,
         \A e \in Index : RunLength(table, carry, e) # n
  PROVE  \A e \in Index : RunLength(table, carry, e) < n
  <1> SUFFICES ASSUME NEW e \in Index, RunLength(table, carry, e) >= n PROVE FALSE
    <2>1. \A e \in Index : e \in Nat
      BY Constants DEF Index
    <2>2. \A e \in Index : RunLength(table, carry, e) \in Nat
      BY <2>1, RunLengthCounts DEF Counts
    <2>3. QED
      BY <2>2
  <1> DEFINE c == RunLength(table, carry, e)
  <1>1. e \in Nat /\ e <= Self /\ Counts(table, carry, e, c)
    BY RunLengthCounts, Constants DEF Index
  <1>2. c # n /\ c >= n
    OBVIOUS
  <1> HIDE DEF c
  <1>3. c \in Nat
    BY <1>1 DEF Counts
  <1>4. CASE c > e
    <2> DEFINE h == n - carry - 1
    <2>1. c = carry + e + 1 /\ \A k \in 0 .. e : ~table[k].present
      BY <1>1, <1>3, <1>4 DEF Counts
    <2>2. h \in Nat /\ h <= e /\ n = carry + h + 1 /\ h \in Index
      BY <1>1, <1>2, <1>3, <2>1, Constants DEF Index
    <2>3. Counts(table, carry, h, n)
      BY <1>1, <2>1, <2>2 DEF Counts
    <2>4. QED
      BY <2>2, <2>3, CountsUnique
  <1>5. CASE c <= e
    <2> DEFINE h == e - c + n
    <2>1. h \in Nat /\ h < e /\ h \in Index /\ h - n = e - c /\ e - c \in Nat
      BY <1>1, <1>2, <1>3, <1>5, Constants DEF Index
    <2>2. table[e - c].present /\ \A k \in 0 .. e : k > e - c => ~table[k].present
      BY <1>1, <1>5 DEF Counts
    <2>3. Counts(table, carry, h, n)
      BY <1>1, <2>1, <2>2 DEF Counts
    <2>4. QED
      BY <2>1, <2>3, CountsUnique
  <1>6. QED
    BY <1>1, <1>3, <1>4, <1>5

(* What palloc's inner loop makes of the call. *)
ScanResult(c, d, table) ==
  LET hits == {e \in Index : RunLength(table, c.found, e) = c.n}
  IN  IF hits = {}
      THEN [c EXCEPT !.i = d + 1, !.found = RunLength(table, c.found, Entries - 1)]
      ELSE LET e     == CHOOSE e \in hits : \A h \in hits : e <= h
               first == d * Entries + e + 1 - c.n
           IN  IF first = 0 THEN Idle ELSE Call("map", first, c.n)

(* The table of directory entry d, or the directory itself, whose entries  *)
(* are all present once palloc gets there.                                 *)
TableOf(m, r, d, table) ==
  /\ d \in Low => \A k \in Index : table[k].present <=> Mapped(m, r, d * Entries + k)
  /\ d = Self => \A k \in Index : table[k].present

(* Entry d's pages, counted from the first of them. *)
LEMMA TablePages ==
  ASSUME NEW d \in Low, NEW base, base = d * Entries
  PROVE  /\ base \in Nat
         /\ (d + 1) * Entries = base + Entries
         /\ \A k \in Index : base + k \in ClientPages /\ (base + k) \div Entries = d
  <1>1. d \in Nat /\ d \in Index
    BY Constants DEF Low, Index
  <1>2. base \in Nat /\ (d + 1) * Entries = base + Entries
    BY <1>1, Constants
  <1>3. ASSUME NEW k \in Index PROVE base + k \in ClientPages /\ (base + k) \div Entries = d
    BY <1>1, PageOfEntry
  <1>4. QED
    BY <1>2, <1>3

(* The count says which pages are free: those of this table, and those     *)
(* that palloc had found at the end of the tables before it.               *)
LEMMA CountedPagesClear ==
  ASSUME NEW m \in Memory, NEW r \in Frames, NEW u, NEW last \in Int,
         last < Self * Entries, NEW H, Space(m, r, u, last, H),
         NEW d \in Low, m[r][d].present, NEW table, TableOf(m, r, d, table),
         NEW base, base = d * Entries, NEW carry \in Nat,
         Clear(m, r, last, H, Run(base - carry, carry)),
         NEW e \in Index, NEW c \in Nat, Counts(table, carry, e, c)
  PROVE  Clear(m, r, last, H, Run(base + e + 1 - c, c))
  <1>0. \A k \in Index : base + k \in ClientPages /\ (base + k) \div Entries = d
    BY TablePages
  <1>1. base \in Nat
    BY TablePages
  <1>2. e \in Nat /\ e < Entries /\ Entries \in Nat
    BY Constants DEF Index
  <1>a. \A k \in Nat : k <= e => k \in Index
    BY <1>2 DEF Index
  <1>3. ASSUME NEW p \in Run(base + e + 1 - c, c)
        PROVE  p \in ClientPages /\ p > last /\ p \notin H /\ m[r][p \div Entries].present
    <2>1. p \in Int /\ base + e + 1 - c <= p /\ p <= base + e
      BY <1>1, <1>2 DEF Run
    <2>2. CASE p >= base
      <3> DEFINE k == p - base
      <3>1. k \in Index /\ k \in 0 .. e /\ k > e - c /\ base + k = p
        <4>1. \A a \in Nat : p >= a => p - a \in Nat /\ a + (p - a) = p
          BY <2>1
        <4>2. \A a \in Nat : p <= a + e => p - a <= e
          BY <1>2, <2>1
        <4>3. \A a \in Nat : a + e + 1 - c <= p => p - a > e - c
          BY <1>2, <2>1
        <4>4. k \in Nat /\ base + k = p /\ k <= e /\ k > e - c
          BY <1>1, <2>1, <2>2, <4>1, <4>2, <4>3
        <4>5. QED
          BY <1>2, <1>a, <4>4
      <3>2. ~table[k].present
        BY <3>1 DEF Counts
      <3>3. p \in ClientPages /\ p \div Entries = d /\ d * Entries + k = p
        BY <1>0, <3>1
      <3>4. ~Mapped(m, r, p)
        BY <3>1, <3>2, <3>3 DEF TableOf
      <3>5. p > last /\ p \notin H
        BY <3>3, <3>4, UnmappedPage
      <3>6. QED
        BY <3>3, <3>5
    <2>3. CASE p < base
      <3>1. c > e
        BY <1>1, <1>2, <2>1, <2>3
      <3>2. c = carry + e + 1
        BY <3>1 DEF Counts
      <3>3. p \in Run(base - carry, carry)
        <4>1. \A a \in Nat : a + e + 1 - c <= p /\ p < a => p \in a - carry .. a - carry + carry - 1
          BY <1>2, <2>1, <3>2
        <4>2. QED
          BY <1>1, <2>1, <2>3, <4>1 DEF Run
      <3>4. QED
        BY <3>3 DEF Clear
    <2>4. QED
      BY <1>1, <2>1, <2>2, <2>3
  <1>4. QED
    BY <1>3 DEF Clear

(* Where the count ends there is a page that is not free, unless all are.  *)
LEMMA CountEnds ==
  ASSUME NEW m, NEW r, NEW d \in Low, NEW table, TableOf(m, r, d, table),
         NEW base, base = d * Entries, NEW carry \in Nat,
         carry = base \/ Mapped(m, r, base - carry - 1),
         NEW e \in Index, NEW c \in Nat, Counts(table, carry, e, c)
  PROVE  c = base + e + 1 \/ Mapped(m, r, base + e - c)
  <1>1. base \in Nat /\ e \in Nat /\ e <= Self
    BY TablePages, Constants DEF Index
  <1>2. CASE c <= e
    <2>1. table[e - c].present /\ e - c \in Index
      BY <1>1, <1>2, Constants DEF Counts, Index
    <2>2. Mapped(m, r, d * Entries + (e - c))
      BY <2>1 DEF TableOf
    <2>3. d * Entries + (e - c) = base + e - c
      BY <1>1
    <2>4. QED
      BY <2>2, <2>3
  <1>3. CASE c > e
    <2>1. c = carry + e + 1
      BY <1>3 DEF Counts
    <2>2. CASE carry = base
      BY <1>1, <2>1, <2>2
    <2>3. CASE Mapped(m, r, base - carry - 1)
      <3>1. base - carry - 1 = base + e - c
        BY <1>1, <2>1
      <3>2. QED
        BY <2>3, <3>1
    <2>4. QED
      BY <2>2, <2>3
  <1>4. QED
    BY <1>1, <1>2, <1>3

(* In a full table the count stays at zero. *)
LEMMA FullTable ==
  ASSUME NEW table, \A k \in Index : table[k].present, NEW carry \in Nat, NEW e \in Index
  PROVE  RunLength(table, carry, e) = 0
  <1> DEFINE c == RunLength(table, carry, e)
  <1>1. e \in Nat /\ Counts(table, carry, e, c)
    BY RunLengthCounts, Constants DEF Index
  <1> HIDE DEF c
  <1>2. c \in Nat
    BY <1>1 DEF Counts
  <1>3. ASSUME c > 0 PROVE FALSE
    <2>1. e \in 0 .. e /\ e > e - c
      BY <1>1, <1>2, <1>3
    <2>2. ~table[e].present
      BY <1>1, <2>1 DEF Counts
    <2>3. QED
      BY <2>2
  <1>4. QED
    BY <1>2, <1>3 DEF c

(* Entry d's table holds no run of n free pages that begins in it or       *)
(* before it.                                                              *)
LEMMA NoRunEndsHere ==
  ASSUME NEW m, NEW r, NEW d \in Low, NEW table, TableOf(m, r, d, table),
         NEW base, base = d * Entries, NEW carry \in Nat,
         carry = base \/ Mapped(m, r, base - carry - 1),
         NEW n \in Nat, \A e \in Index : RunLength(table, carry, e) < n,
         NEW a \in Nat, base < a + n, a + n <= base + Entries
  PROVE  \E p \in Run(a, n) : Mapped(m, r, p)
  <1> DEFINE e == a + n - 1 - base
             c == RunLength(table, carry, e)
  <1>1. base \in Nat /\ Entries \in Nat
    BY TablePages, Constants
  <1>2. e \in Nat /\ e \in Index /\ base + e = a + n - 1
    <2>1. \A b \in Nat : b < a + n /\ a + n <= b + Entries
                           => a + n - 1 - b \in 0 .. Entries - 1 /\ b + (a + n - 1 - b) = a + n - 1
      BY <1>1
    <2>2. QED
      BY <1>1, <2>1 DEF Index
  <1>3. c \in Nat /\ c < n /\ Counts(table, carry, e, c)
    <2> HIDE DEF e
    <2>1. Counts(table, carry, e, c) /\ c < n
      BY <1>2, RunLengthCounts
    <2>2. QED
      BY <2>1 DEF Counts
  <1> HIDE DEF e, c
  <1>4. c = base + e + 1 \/ Mapped(m, r, base + e - c)
    BY <1>2, <1>3, CountEnds
  <1>5. c # base + e + 1
    <2>1. \A b \in Nat : b + e = a + n - 1 => c # b + e + 1
      BY <1>2, <1>3
    <2>2. QED
      BY <1>1, <1>2, <2>1
  <1>6. base + e - c \in Run(a, n)
    <2>1. \A b \in Nat : b + e = a + n - 1 => b + e - c \in a .. a + n - 1
      BY <1>2, <1>3
    <2>2. QED
      BY <1>1, <1>2, <2>1 DEF Run
  <1>7. QED
    BY <1>4, <1>5, <1>6

(* The loop over table d ends without a hit. *)
LEMMA ScanMiss ==
  ASSUME NEW m \in Memory, NEW r \in Frames, NEW u, NEW last \in Int,
         last < Self * Entries, NEW H, Space(m, r, u, last, H),
         NEW c, ScanInv(m, r, last, H, c), c.found \in Nat, c.n \in Nat,
         NEW d \in Index, c.i = d, m[r][d].present,
         NEW table, TableOf(m, r, d, table),
         \A e \in Index : RunLength(table, c.found, e) # c.n,
         NEW c2, c2.i = d + 1, c2.n = c.n, c2.found = RunLength(table, c.found, Entries - 1)
  PROVE  ScanInv(m, r, last, H, c2) /\ c2.found \in Nat
  <1> DEFINE carry == c.found
             base == d * Entries
             f == RunLength(table, carry, Entries - 1)
             n == c.n
  <1>1. /\ d \in Nat /\ d < Entries /\ Entries \in Nat /\ Entries - 1 \in Index
        /\ Self = Entries - 1 /\ (d \in Low <=> d # Self)
    BY Constants DEF Index, Low
  <1>2. base \in Nat /\ (d + 1) * Entries = base + Entries
    BY <1>1
  <1>3. n \in PageCounts /\ carry < n /\ carry <= base
        /\ (\A e \in 0 .. d - 1 : m[r][e].present)
        /\ Clear(m, r, last, H, Run(base - carry, carry))
        /\ (carry = base \/ Mapped(m, r, base - carry - 1))
    BY <1>1 DEF ScanInv, Scan
  <1>4. \A e \in Index : RunLength(table, carry, e) < n
    BY <1>3, NoHit
  <1>5. Counts(table, carry, Entries - 1, f) /\ f \in Nat /\ f < n
    <2>1. Counts(table, carry, Entries - 1, f)
      BY <1>1, RunLengthCounts
    <2>2. QED
      BY <1>1, <1>4, <2>1 DEF Counts
  <1>6. c2.i * Entries = base + Entries /\ c2.found = f /\ c2.n = n
    BY <1>2
  <1> HIDE DEF f, carry, n, base
  <1>7. f <= base + Entries
    <2>1. f <= carry + (Entries - 1) + 1
      BY <1>5 DEF Counts
    <2>2. carry \in Nat
      BY DEF carry
    <2>3. QED
      BY <1>1, <1>2, <1>3, <1>5, <2>1, <2>2
  <1>8. \A e \in 0 .. (d + 1) - 1 : m[r][e].present
    BY <1>1, <1>3
  <1>9. ASSUME d \in Low PROVE Scan(m, r, last, H, d + 1, base + Entries, f, n)
    <2>0. base = d * Entries /\ carry \in Nat
      BY DEF base, carry
    <2>1. Clear(m, r, last, H, Run(base + (Entries - 1) + 1 - f, f))
      BY <1>1, <1>3, <1>5, <1>9, <2>0, CountedPagesClear
    <2>2. base + (Entries - 1) + 1 - f = (base + Entries) - f
      BY <1>1, <1>2, <1>5
    <2>3. f = base + (Entries - 1) + 1 \/ Mapped(m, r, base + (Entries - 1) - f)
      BY <1>1, <1>3, <1>5, <1>9, <2>0, CountEnds
    <2>4. f = base + Entries \/ Mapped(m, r, (base + Entries) - f - 1)
      <3>1. base + (Entries - 1) - f = (base + Entries) - f - 1 /\ base + (Entries - 1) + 1 = base + Entries
        BY <1>1, <1>2, <1>5
      <3>2. QED
        BY <2>3, <3>1
    <2>5. ASSUME NEW a \in Nat, a + n <= base + Entries, a + n <= Self * Entries
          PROVE  \E p \in Run(a, n) : Mapped(m, r, p)
      <3>1. CASE a + n <= base
        BY <1>1, <2>0, <2>5, <3>1 DEF ScanInv, Scan, n
      <3>2. CASE base < a + n
        <4>1. n \in Nat
          BY DEF n
        <4>2. QED
          BY <1>3, <1>4, <1>9, <2>0, <2>5, <3>2, <4>1, NoRunEndsHere
      <3>3. n \in Nat
        BY DEF n
      <3>4. QED
        BY <1>2, <3>1, <3>2, <3>3
    <2>6. Clear(m, r, last, H, Run((base + Entries) - f, f))
      BY <2>1, <2>2, Zenon
    <2>7. d + 1 <= Entries /\ n \in PageCounts /\ f < n
      BY <1>1, <1>3, <1>5
    <2> DEFINE i2 == d + 1
               top == base + Entries
    <2>8. /\ i2 <= Entries /\ n \in PageCounts /\ f < n /\ f <= top
          /\ \A e \in 0 .. i2 - 1 : m[r][e].present
          /\ Clear(m, r, last, H, Run(top - f, f))
          /\ f = top \/ Mapped(m, r, top - f - 1)
          /\ \A a \in Nat : a + n <= top /\ a + n <= Self * Entries
                              => \E p \in Run(a, n) : Mapped(m, r, p)
      <3>1. i2 <= Entries /\ n \in PageCounts /\ f < n /\ f <= top
        BY <1>7, <2>7
      <3>2. \A e \in 0 .. i2 - 1 : m[r][e].present
        BY <1>8
      <3>3. Clear(m, r, last, H, Run(top - f, f)) /\ (f = top \/ Mapped(m, r, top - f - 1))
        BY <2>4, <2>6
      <3>4. \A a \in Nat : a + n <= top /\ a + n <= Self * Entries
                            => \E p \in Run(a, n) : Mapped(m, r, p)
        BY <2>5
      <3>5. QED
        BY <3>1, <3>2, <3>3, <3>4
    <2> HIDE DEF i2, top
    <2>9. Scan(m, r, last, H, i2, top, f, n)
      BY <2>8, Zenon DEF Scan
    <2>10. QED
      BY <2>9 DEF i2, top
  <1>10. ASSUME d = Self PROVE Scan(m, r, last, H, d + 1, base + Entries, f, n)
    <2>1. f = 0
      <3>1. \A k \in Index : table[k].present
        BY <1>10 DEF TableOf
      <3>2. QED
        BY <1>1, <3>1, FullTable DEF f, carry
    <2>2. Run((base + Entries) - f, f) = {}
      <3>1. \A b \in Int : b .. b + 0 - 1 = {}
        OBVIOUS
      <3>2. (base + Entries) - f \in Int
        BY <1>1, <1>2, <2>1
      <3>3. QED
        BY <2>1, <3>1, <3>2 DEF Run
    <2>3. Clear(m, r, last, H, Run((base + Entries) - f, f))
      BY <2>2 DEF Clear
    <2>4. ~(d + 1 < Entries) /\ d + 1 <= Entries
      BY <1>1, <1>10
    <2>5. ASSUME NEW a \in Nat, a + n <= Self * Entries
          PROVE  \E p \in Run(a, n) : Mapped(m, r, p)
      BY <1>10, <2>5 DEF ScanInv, Scan, n
    <2> DEFINE i2 == d + 1
               top == base + Entries
    <2>6. /\ i2 <= Entries /\ ~(i2 < Entries) /\ n \in PageCounts /\ f < n /\ f <= top
          /\ \A e \in 0 .. i2 - 1 : m[r][e].present
          /\ Clear(m, r, last, H, Run(top - f, f))
          /\ \A a \in Nat : a + n <= top /\ a + n <= Self * Entries
                              => \E p \in Run(a, n) : Mapped(m, r, p)
      <3>1. i2 <= Entries /\ ~(i2 < Entries) /\ n \in PageCounts /\ f < n /\ f <= top
        BY <1>3, <1>5, <1>7, <2>4
      <3>2. \A e \in 0 .. i2 - 1 : m[r][e].present
        BY <1>8
      <3>3. Clear(m, r, last, H, Run(top - f, f))
        BY <2>3
      <3>4. \A a \in Nat : a + n <= top /\ a + n <= Self * Entries
                            => \E p \in Run(a, n) : Mapped(m, r, p)
        BY <2>5
      <3>5. QED
        BY <3>1, <3>2, <3>3, <3>4
    <2> HIDE DEF i2, top
    <2>7. Scan(m, r, last, H, i2, top, f, n)
      BY <2>6, Zenon DEF Scan
    <2>8. QED
      BY <2>7 DEF i2, top
  <1>11. Scan(m, r, last, H, d + 1, base + Entries, f, n)
    BY <1>1, <1>9, <1>10
  <1>12. QED
    BY <1>5, <1>6, <1>11 DEF ScanInv

(* The fields of the call in progress, as the type invariant has them.     *)
CallType(c) ==
  /\ c.name \in {"create", "install", "idle", "palloc", "probe", "map", "pfree", "panic"}
  /\ c.first \in Pages
  /\ c.n \in PageCounts \cup {0}
  /\ c.i \in Nat
  /\ c.found \in 0 .. c.n

(* A call that the invariant allows. *)
GoodCall(m, r, last, H, c) == IsCall(c) /\ CallType(c) /\ CallInv(m, r, last, H, c)

LEMMA ClientPageIsPage == ClientPages \subseteq Pages /\ 0 \in Pages
  <1>1. /\ Entries \in Nat /\ Self * Entries \in Nat /\ Entries * Entries \in Nat
        /\ Self * Entries <= Entries * Entries /\ Entries * Entries > 0
    <2>1. Entries * Entries > 0
      BY Constants
    <2>2. QED
      BY <2>1, Constants
  <1>2. QED
    BY <1>1 DEF ClientPages, Pages

LEMMA PageCountsPositive == \A n \in PageCounts : n \in Nat /\ n > 0
  BY MMUAssumption

(* allocatePages begins. *)
LEMMA MapBegins ==
  ASSUME NEW m, NEW r, NEW last \in Nat, NEW H, NEW first \in Int, NEW n \in PageCounts,
         Clear(m, r, last, H, Run(first, n)), NEW c, c = Call("map", first, n)
  PROVE  /\ GoodCall(m, r, last, H, c)
         /\ c.name = "map"
         /\ Pending(c) = {}
         /\ first # 0
         /\ first \in ClientPages
  <1>1. IsCall(c) /\ c.name = "map" /\ c.first = first /\ c.n = n /\ c.i = 0 /\ c.found = 0
    BY CallFields
  <1>2. n \in Nat /\ n > 0
    BY PageCountsPositive
  <1>3. first \in Run(first, n)
    BY <1>2 DEF Run
  <1>4. first \in ClientPages /\ first > last
    BY <1>3 DEF Clear
  <1>5. first # 0
    BY <1>4
  <1>6. CallType(c)
    BY <1>1, <1>2, <1>4, ClientPageIsPage DEF CallType
  <1>7. CallInv(m, r, last, H, c)
    BY <1>1, <1>2 DEF CallInv
  <1>8. Pending(c) = {}
    <2>1. Run(first, 0) = {}
      BY DEF Run
    <2>2. QED
      BY <1>1, <2>1 DEF Pending
  <1>9. QED
    BY <1>1, <1>4, <1>5, <1>6, <1>7, <1>8 DEF GoodCall

(* The loop over table d finds a run. *)
LEMMA ScanHit ==
  ASSUME NEW m \in Memory, NEW r \in Frames, NEW u, NEW last \in Nat,
         last < Self * Entries, NEW H, Space(m, r, u, last, H),
         NEW c, ScanInv(m, r, last, H, c), c.found \in Nat, c.n \in Nat,
         NEW d \in Index, c.i = d, m[r][d].present,
         NEW table, TableOf(m, r, d, table),
         NEW e \in Index, RunLength(table, c.found, e) = c.n
  PROVE  /\ Clear(m, r, last, H, Run(d * Entries + e + 1 - c.n, c.n))
         /\ d * Entries + e + 1 - c.n \in Int
         /\ c.n \in PageCounts
  <1> DEFINE carry == c.found
             base == d * Entries
             n == c.n
  <1>1. /\ d \in Nat /\ d < Entries /\ Entries \in Nat /\ e \in Nat
        /\ Self = Entries - 1 /\ (d \in Low <=> d # Self)
    BY Constants DEF Index, Low
  <1>2. base \in Nat /\ base + e + 1 - n \in Int
    BY <1>1
  <1>3. n \in PageCounts /\ Clear(m, r, last, H, Run(base - carry, carry))
    BY <1>1 DEF ScanInv, Scan
  <1>4. n \in Nat /\ n > 0
    BY <1>3, PageCountsPositive
  <1>5. Counts(table, carry, e, n)
    BY <1>1, RunLengthCounts
  <1>6. d # Self
    <2>1. ASSUME d = Self PROVE FALSE
      <3>1. \A k \in Index : table[k].present
        BY <2>1 DEF TableOf
      <3>2. RunLength(table, carry, e) = 0
        BY <3>1, FullTable
      <3>3. QED
        BY <1>4, <3>2
    <2>2. QED
      BY <2>1
  <1>7. base = d * Entries /\ carry \in Nat /\ d \in Low /\ last \in Int
    BY <1>1, <1>6
  <1> HIDE DEF base, carry, n
  <1>8. Clear(m, r, last, H, Run(base + e + 1 - n, n))
    BY <1>3, <1>4, <1>5, <1>7, CountedPagesClear
  <1>9. QED
    BY <1>2, <1>3, <1>8 DEF base, n

LEMMA ScanStep ==
  ASSUME NEW m \in Memory, NEW r \in Frames, NEW u, NEW last \in Nat,
         last < Self * Entries, NEW H, Space(m, r, u, last, H),
         NEW c, c.name = "palloc", GoodCall(m, r, last, H, c),
         NEW d \in Index, c.i = d, m[r][d].present,
         NEW table, TableOf(m, r, d, table),
         NEW c2, c2 = ScanResult(c, d, table)
  PROVE  GoodCall(m, r, last, H, c2) /\ c2.name \in {"palloc", "map"} /\ Pending(c2) = {}
  <1> DEFINE hits == {e \in Index : RunLength(table, c.found, e) = c.n}
  <1>1. ScanInv(m, r, last, H, c) /\ c.n \in PageCounts
    BY DEF GoodCall, CallInv, ScanInv, Scan
  <1>2. c.n \in Nat /\ c.found \in Nat
    BY <1>1, PageCountsPositive DEF GoodCall, CallType
  <1>3. CASE hits = {}
    <2> DEFINE f == RunLength(table, c.found, Entries - 1)
    <2>1. c = [name |-> c.name, first |-> c.first, n |-> c.n, i |-> c.i, found |-> c.found]
      BY DEF GoodCall, IsCall
    <2>2. c2 = [c EXCEPT !.i = d + 1, !.found = f]
      BY <1>3 DEF ScanResult
    <2> HIDE DEF f
    <2>3. c2 = [name |-> c.name, first |-> c.first, n |-> c.n, i |-> d + 1, found |-> f]
      BY <2>1, <2>2
    <2>4. c2.name = "palloc" /\ c2.first = c.first /\ c2.n = c.n /\ c2.i = d + 1 /\ c2.found = f /\ IsCall(c2)
      BY <2>3 DEF IsCall
    <2>5. \A e \in Index : RunLength(table, c.found, e) # c.n
      BY <1>3
    <2>6. c2.found = RunLength(table, c.found, Entries - 1)
      BY <2>4 DEF f
    <2>7. ScanInv(m, r, last, H, c2) /\ c2.found \in Nat
      <3>1. last \in Int
        OBVIOUS
      <3> HIDE DEF hits
      <3>2. QED
        BY <1>1, <1>2, <2>4, <2>5, <2>6, <3>1, ScanMiss
    <2>8. c2.found < c2.n
      BY <2>7 DEF ScanInv, Scan
    <2>9. d + 1 \in Nat
      BY Constants DEF Index
    <2>10. CallType(c2)
      <3>1. c2.found \in 0 .. c2.n
        BY <1>2, <2>4, <2>7, <2>8
      <3>2. QED
        BY <2>4, <2>9, <3>1 DEF CallType, GoodCall
    <2>11. CallInv(m, r, last, H, c2)
      BY <2>4, <2>7 DEF CallInv
    <2>12. Pending(c2) = {}
      BY <2>4 DEF Pending
    <2>13. QED
      BY <2>4, <2>10, <2>11, <2>12 DEF GoodCall
  <1>4. CASE hits # {}
    <2> DEFINE e == CHOOSE e \in hits : \A h \in hits : e <= h
               first == d * Entries + e + 1 - c.n
    <2>1. e \in hits
      <3>1. hits \in SUBSET Nat
        BY Constants DEF Index
      <3> HIDE DEF hits
      <3>2. \E x \in hits : \A h \in hits : x <= h
        BY <1>4, <3>1, Least
      <3>3. QED
        BY <3>2
    <2>2. c2 = IF first = 0 THEN Idle ELSE Call("map", first, c.n)
      BY <1>4 DEF ScanResult
    <2> HIDE DEF e
    <2>3. e \in Index /\ RunLength(table, c.found, e) = c.n
      BY <2>1
    <2>4. Clear(m, r, last, H, Run(first, c.n)) /\ first \in Int
      BY <1>1, <1>2, <2>3, ScanHit
    <2> HIDE DEF first
    <2> DEFINE q == Call("map", first, c.n)
    <2>5. q = Call("map", first, c.n)
      OBVIOUS
    <2> HIDE DEF q
    <2>6. GoodCall(m, r, last, H, q) /\ q.name = "map" /\ Pending(q) = {} /\ first # 0
      <3>1. PICK n \in PageCounts : n = c.n
        BY <1>1
      <3>2. Clear(m, r, last, H, Run(first, n)) /\ first \in Int /\ q = Call("map", first, n)
        BY <2>4, <2>5, <3>1
      <3>3. GoodCall(m, r, last, H, q) /\ q.name = "map"
        BY <3>2, MapBegins, ZenonT(40)
      <3>4. Pending(q) = {} /\ first # 0
        BY <3>2, MapBegins
      <3>5. QED
        BY <3>3, <3>4
    <2>7. QED
      BY <2>2, <2>5, <2>6
  <1>5. QED
    BY <1>3, <1>4

-----------------------------------------------------------------------------
(* The steps of palloc and pfree. *)

LEMMA RunningFacts ==
  ASSUME Inv, Running
  PROVE  /\ TypeOK /\ RunningInv /\ Up /\ Grounded
         /\ mem \in Memory /\ cr3 \in Frames
         /\ boot.last \in Nat /\ boot.last < Self * Entries
         /\ usable \subseteq Frames /\ used \subseteq Frames
         /\ GoodCall(mem, cr3, boot.last, HeldPages, call)
         /\ \A d : TableFrame(d) = mem[cr3][d].frame
         /\ \A p : Pte(p) = EntryAt(mem, cr3, p)
         /\ HeldPages \subseteq ClientPages
  <1>1. TypeOK /\ RunningInv /\ Up /\ Grounded
    BY DEF Inv, Running, RunningInv, Up
  <1>2. mem \in Memory /\ cr3 \in Frames /\ usable \subseteq Frames /\ used \subseteq Frames
    BY <1>1 DEF TypeOK, Memory
  <1>3. boot.last \in Frames
    BY <1>1 DEF TypeOK
  <1>4. boot.last \in Nat /\ boot.last < Self * Entries
    BY <1>3, Constants DEF Frames
  <1>5. GoodCall(mem, cr3, boot.last, HeldPages, call)
    BY <1>1 DEF Inv, TypeOK, RunningInv, GoodCall, CallType
  <1>6. mem[cr3][Self].frame = cr3
    BY <1>1, <1>2, Entry DEF Grounded
  <1>7. \A d : TableFrame(d) = mem[cr3][d].frame
    BY <1>6 DEF TableFrame
  <1>8. \A p : Pte(p) = EntryAt(mem, cr3, p)
    BY <1>7 DEF Pte, EntryAt
  <1>9. HeldPages \subseteq ClientPages
    BY <1>1 DEF RunningInv, Space
  <1>10. QED
    BY <1>1, <1>2, <1>4, <1>5, <1>7, <1>8, <1>9

(* What a step has to establish. *)
RestType ==
  /\ usable \subseteq Frames
  /\ used \subseteq Frames
  /\ lastAlloc \in Frames
  /\ tlb \in [page : Pages \cup {NoTranslation.page}, frame : Frames \cup {None}]
  /\ held \subseteq ClientPages \X PageCounts

LEMMA Rebuild ==
  ASSUME Inv, Running, UNCHANGED <<cr3, boot>>, mem' \in Memory, RestType',
         call'.name \in {"idle", "palloc", "probe", "map", "pfree"},
         GoodCall(mem', cr3, boot.last, HeldPages', call'),
         mem'[cr3][Self] = mem[cr3][Self],
         Space(mem', cr3, used', boot.last, HeldPages' \cup Pending(call')),
         Disjoint(held'),
         TlbInv(mem', cr3, HeldPages', tlb')
  PROVE  Inv'
  <1>1. TypeOK /\ RunningInv /\ Up /\ Grounded
    BY RunningFacts
  <1>2. TypeOK'
    BY <1>1 DEF TypeOK, RestType, Memory, GoodCall, CallType
  <1>3. Grounded'
    BY <1>1 DEF Grounded, Space
  <1>4. RunningInv'
    BY <1>1 DEF RunningInv, GoodCall
  <1>5. QED
    BY <1>2, <1>3, <1>4 DEF Inv, GoodCall, Running

LEMMA RestTypeNow == Inv => RestType
  BY DEF Inv, TypeOK, RestType

(* Tables and mapped pages are only added. *)
Grew(m, m2, r) ==
  /\ \A d \in Index : m[r][d].present => m2[r][d].present
  /\ \A p \in ClientPages : Mapped(m, r, p) => Mapped(m2, r, p)

LEMMA ClearGrows ==
  ASSUME NEW m, NEW m2, NEW r, Grew(m, m2, r), NEW last, NEW H, NEW X,
         Clear(m, r, last, H, X)
  PROVE  Clear(m2, r, last, H, X)
  <1>1. \A p \in X : p \in ClientPages /\ p \div Entries \in Index
    BY PageParts DEF Clear
  <1>2. QED
    BY <1>1 DEF Clear, Grew

LEMMA CallGrows ==
  ASSUME NEW m, NEW m2, NEW r, Grew(m, m2, r), NEW last, NEW H, NEW c,
         GoodCall(m, r, last, H, c)
  PROVE  GoodCall(m2, r, last, H, c)
  <1>1. IsCall(c) /\ CallType(c) /\ CallInv(m, r, last, H, c)
    BY DEF GoodCall
  <1>2. ASSUME ScanInv(m, r, last, H, c) PROVE ScanInv(m2, r, last, H, c)
    <2> DEFINE i == c.i
               top == c.i * Entries
               f == c.found
               n == c.n
    <2>1. Scan(m, r, last, H, i, top, f, n)
      BY <1>2 DEF ScanInv
    <2>2. i \in Nat /\ i <= Entries /\ n \in Nat /\ f \in Nat /\ Entries \in Nat /\ Self \in Nat /\ Self + 1 = Entries
      BY <1>1, <2>1, PageCountsPositive, Constants DEF CallType, Scan
    <2>3. top \in Nat /\ (i < Entries => top <= Self * Entries) /\ Self * Entries \in Nat
      <3>1. i \in Nat /\ Self \in Nat /\ Entries \in Nat => top \in Nat /\ Self * Entries \in Nat
        OBVIOUS
      <3>2. i <= Self => i * Entries <= Self * Entries
        BY <2>2
      <3>3. QED
        BY <2>2, <3>1, <3>2
    <2> HIDE DEF top, i, f, n
    <2>4. \A d \in 0 .. i - 1 : m2[r][d].present
      <3>1. \A d \in 0 .. i - 1 : d \in Index
        BY <2>2 DEF Index
      <3>2. QED
        BY <2>1, <3>1 DEF Scan, Grew
    <2>5. Clear(m2, r, last, H, Run(top - f, f))
      BY <2>1, ClearGrows DEF Scan
    <2>6. ASSUME i < Entries, f # top PROVE Mapped(m2, r, top - f - 1)
      <3>1. Mapped(m, r, top - f - 1) /\ f <= top
        BY <2>1, <2>6 DEF Scan
      <3>2. top - f - 1 \in ClientPages
        BY <2>2, <2>3, <2>6, <3>1 DEF ClientPages
      <3>3. QED
        BY <3>1, <3>2 DEF Grew
    <2>7. ASSUME NEW a \in Nat, a + n <= top, a + n <= Self * Entries
          PROVE  \E p \in Run(a, n) : Mapped(m2, r, p)
      <3>1. PICK p \in Run(a, n) : Mapped(m, r, p)
        BY <2>1, <2>7 DEF Scan
      <3>2. p \in ClientPages
        BY <2>2, <2>3, <2>7 DEF Run, ClientPages
      <3>3. QED
        BY <3>1, <3>2 DEF Grew
    <2>8. i <= Entries /\ n \in PageCounts /\ f < n /\ f <= top
      BY <2>1 DEF Scan
    <2>9. Scan(m2, r, last, H, i, top, f, n)
      BY <2>4, <2>5, <2>6, <2>7, <2>8 DEF Scan
    <2>10. QED
      BY <2>9 DEF ScanInv, i, top, f, n
  <1>3. CallInv(m2, r, last, H, c)
    BY <1>1, <1>2, ClearGrows DEF CallInv
  <1>4. QED
    BY <1>1, <1>3 DEF GoodCall

(* getOrCreateTable: the table is there, and nothing is lost. *)
GotTable(m, m2, r, d, u, u2, last, S, H) ==
  /\ m2 \in Memory
  /\ m2[r][d].present
  /\ m2[r][Self] = m[r][Self]
  /\ Space(m2, r, u2, last, S)
  /\ Grew(m, m2, r)
  /\ SamePages(m, m2, r, H)

LEMMA GainedGrows ==
  ASSUME NEW m, NEW m2, NEW r, NEW d, NEW t \in Frames, Gained(m, m2, r, d, t)
  PROVE  Grew(m, m2, r)
  <1>1. ASSUME NEW e \in Index, m[r][e].present PROVE m2[r][e].present
    BY <1>1, Entry DEF Gained
  <1>2. ASSUME NEW p \in ClientPages, Mapped(m, r, p) PROVE Mapped(m2, r, p)
    <2>1. p \div Entries \in Index /\ m[r][p \div Entries].present
      BY <1>2, PageParts DEF Mapped
    <2>2. QED
      BY <1>1, <1>2, <2>1 DEF Gained, Mapped
  <1>3. QED
    BY <1>1, <1>2 DEF Grew

LEMMA GetTable ==
  ASSUME Inv, Running, NEW d \in Index, TableExists(d) \/ TableCreated(d), UNCHANGED held
  PROVE  /\ GotTable(mem, mem', cr3, d, used, used', boot.last, HeldPages \cup Pending(call), HeldPages)
         /\ RestType'
         /\ tlb' \in {tlb, NoTranslation}
  <1>1. /\ RunningInv /\ Grounded /\ mem \in Memory /\ cr3 \in Frames
        /\ boot.last \in Int /\ boot.last < Self * Entries
        /\ usable \subseteq Frames /\ used \subseteq Frames
    BY RunningFacts
  <1>2. RestType
    BY RestTypeNow
  <1>3. CASE TableExists(d)
    <2>1. mem' = mem /\ UNCHANGED <<usable, used, lastAlloc, tlb>> /\ mem[cr3][d].present
      BY <1>3 DEF TableExists
    <2>2. Grew(mem, mem', cr3) /\ SamePages(mem, mem', cr3, HeldPages)
      BY <2>1 DEF Grew, SamePages
    <2>3. RestType'
      BY <1>2, <2>1 DEF RestType
    <2>4. QED
      BY <1>1, <2>1, <2>2, <2>3 DEF GotTable, RunningInv
  <1>4. CASE TableCreated(d)
    <2>1. PICK t \in Frames : Alloc(1, t) /\ mem' = WithTable(d, t)
      BY <1>4 DEF TableCreated
    <2>2. ~mem[cr3][d].present /\ tlb' = NoTranslation
      BY <1>4 DEF TableCreated, Flush
    <2>3. t \notin used /\ used' = used \cup {t} /\ usable' = usable /\ lastAlloc' = t
      BY <1>1, <2>1, AllocOne
    <2>4. mem' = AddTable(mem, cr3, d, t)
      BY <2>1 DEF WithTable, AddTable
    <2>5. d # Self
      BY <1>1, <2>2, Entry DEF Grounded
    <2>6. d \in Low
      BY <2>5, Constants DEF Low, Index
    <2> DEFINE S == HeldPages \cup Pending(call)
    <2>7. Space(mem, cr3, used, boot.last, S)
      BY <1>1 DEF RunningInv
    <2> HIDE DEF S
    <2>8. /\ mem' \in Memory
          /\ Space(mem', cr3, used \cup {t}, boot.last, S)
          /\ Gained(mem, mem', cr3, d, t)
          /\ SamePages(mem, mem', cr3, S)
      BY <1>1, <2>2, <2>3, <2>4, <2>6, <2>7, SpaceNewTable
    <2>9. Grew(mem, mem', cr3)
      BY <2>8, GainedGrows
    <2>10. mem'[cr3][d].present /\ mem'[cr3][Self] = mem[cr3][Self]
      <3>1. Self \in Index
        BY Constants DEF Index
      <3>2. QED
        BY <2>5, <2>8, <3>1, Entry DEF Gained
    <2>11. SamePages(mem, mem', cr3, HeldPages)
      BY <2>8 DEF SamePages, S
    <2>12. RestType'
      <3>1. NoTranslation \in [page : Pages \cup {NoTranslation.page}, frame : Frames \cup {None}]
        BY DEF NoTranslation
      <3>2. QED
        BY <1>1, <1>2, <2>2, <2>3, <3>1 DEF RestType
    <2>13. QED
      BY <2>2, <2>3, <2>8, <2>9, <2>10, <2>11, <2>12 DEF GotTable, S
  <1>5. QED
    BY <1>3, <1>4

(* A translation that stays cached still agrees with the tables. *)
LEMMA TlbStays ==
  ASSUME NEW m, NEW m2, NEW r, NEW H, SamePages(m, m2, r, H), NEW t, TlbInv(m, r, H, t),
         NEW t2 \in {t, NoTranslation}, H \subseteq ClientPages
  PROVE  TlbInv(m2, r, H, t2)
  <1>1. NoTranslation.page \notin ClientPages
    BY Constants DEF NoTranslation, ClientPages
  <1>2. QED
    BY <1>1 DEF TlbInv, SamePages

LEMMA PallocScanStep ==
  ASSUME Inv, PallocScan
  PROVE  Inv' /\ call'.name # "idle"
  <1> DEFINE d == call.i
  <1>0. call.name = "palloc" /\ d < Entries /\ Running
    BY DEF PallocScan, Running
  <1>1. /\ RunningInv /\ Grounded /\ mem \in Memory /\ cr3 \in Frames /\ Up
        /\ boot.last \in Nat /\ boot.last < Self * Entries
        /\ GoodCall(mem, cr3, boot.last, HeldPages, call)
        /\ \A e : TableFrame(e) = mem[cr3][e].frame
        /\ HeldPages \subseteq ClientPages
    BY <1>0, RunningFacts
  <1>2. d \in Nat /\ d \in Index /\ (d \in Low <=> d # Self)
    BY <1>0, <1>1, Constants DEF GoodCall, CallType, Index, Low
  <1>3. CASE NoFrameForTable(d)
    BY <1>1, <1>3, PanicStep, CallFields DEF NoFrameForTable, Panic, Panicked
  <1>4. ASSUME NEW table, TableExists(d) \/ TableCreated(d), ScanTable(d, table),
               UNCHANGED <<cr3, boot, held>>,
               \/ TableExists(d) /\ table = mem[TableFrame(d)]
               \/ TableCreated(d) /\ table = EmptyTable
        PROVE  Inv' /\ call'.name # "idle"
    <2>1. HeldPages' = HeldPages /\ Pending(call) = {}
      BY <1>0, <1>4 DEF HeldPages, Pending
    <2>2. /\ GotTable(mem, mem', cr3, d, used, used', boot.last, HeldPages \cup Pending(call), HeldPages)
          /\ RestType'
          /\ tlb' \in {tlb, NoTranslation}
      BY <1>0, <1>2, <1>4, GetTable
    <2>3. HeldPages \cup Pending(call) = HeldPages
      BY <2>1
    <2>4. /\ mem' \in Memory
          /\ mem'[cr3][d].present
          /\ mem'[cr3][Self] = mem[cr3][Self]
          /\ Space(mem', cr3, used', boot.last, HeldPages)
          /\ Grew(mem, mem', cr3)
          /\ SamePages(mem, mem', cr3, HeldPages)
      BY <2>2, <2>3 DEF GotTable
    <2>5. GoodCall(mem', cr3, boot.last, HeldPages, call)
      BY <1>1, <2>4, CallGrows
    <2>6. TableOf(mem', cr3, d, table)
      <3>1. CASE TableExists(d) /\ table = mem[TableFrame(d)]
        <4>1. mem' = mem /\ table = mem[mem[cr3][d].frame] /\ mem[cr3][d].present
          BY <1>1, <3>1 DEF TableExists
        <4>2. ASSUME d \in Low, NEW k \in Index
              PROVE  table[k].present <=> Mapped(mem', cr3, d * Entries + k)
          <5>1. (d * Entries + k) \div Entries = d /\ (d * Entries + k) % Entries = k
            BY <1>2, PageOfEntry
          <5>2. QED
            BY <4>1, <5>1 DEF Mapped, EntryAt
        <4>3. ASSUME d = Self, NEW k \in Index PROVE table[k].present
          <5>1. table = mem[cr3]
            BY <1>1, <4>1, <4>3, Entry DEF Grounded
          <5>2. k \in 0 .. d - 1 \/ k = Self
            BY <4>3, Constants DEF Index
          <5>3. \A e \in 0 .. d - 1 : mem[cr3][e].present
            BY <1>0, <1>1 DEF GoodCall, CallInv, ScanInv, Scan
          <5>4. QED
            BY <4>1, <4>3, <5>1, <5>2, <5>3
        <4>4. QED
          BY <4>2, <4>3 DEF TableOf
      <3>2. CASE TableCreated(d) /\ table = EmptyTable
        <4>1. d # Self
          BY <1>1, <3>2, Entry DEF Grounded, TableCreated
        <4>2. PICK t \in Frames : Alloc(1, t) /\ mem' = WithTable(d, t)
          BY <3>2 DEF TableCreated
        <4>3. ASSUME NEW k \in Index PROVE ~Mapped(mem', cr3, d * Entries + k)
          <5>1. (d * Entries + k) \div Entries = d /\ (d * Entries + k) % Entries = k
            BY <1>2, PageOfEntry
          <5>2. mem' = AddTable(mem, cr3, d, t)
            BY <4>2 DEF WithTable, AddTable
          <5>3. t \notin used
            BY <1>0, <4>2, RunningFacts, AllocOne
          <5>4. t # cr3
            BY <1>1, <5>3 DEF RunningInv, Space
          <5>5. mem'[cr3][d].frame = t /\ mem'[t] = EmptyTable
            <6>1. mem[cr3] \in [Index -> PageEntry]
              BY <1>1 DEF Memory
            <6>2. mem'[cr3] = [mem[cr3] EXCEPT ![d] = PresentEntry(t)] /\ mem'[t] = EmptyTable
              BY <1>1, <5>2, <5>4 DEF AddTable, Memory
            <6>3. QED
              BY <1>2, <6>1, <6>2, Entry
          <5>6. EntryAt(mem', cr3, d * Entries + k) = NoEntry
            BY <5>1, <5>5, Entry DEF EntryAt
          <5>7. QED
            BY <5>6, Entry DEF Mapped
        <4>4. QED
          BY <3>2, <4>1, <4>3, Entry DEF TableOf
      <3>3. QED
        BY <1>4, <3>1, <3>2
    <2>7. call' = ScanResult(call, d, table)
      BY <1>4 DEF ScanTable, ScanResult
    <2>8. GoodCall(mem', cr3, boot.last, HeldPages, call') /\ call'.name \in {"palloc", "map"} /\ Pending(call') = {}
      BY <1>0, <1>1, <1>2, <2>4, <2>5, <2>6, <2>7, ScanStep
    <2>9. TlbInv(mem', cr3, HeldPages, tlb')
      BY <1>1, <2>2, <2>4, TlbStays DEF RunningInv
    <2>10. HeldPages' \cup Pending(call') = HeldPages
      BY <2>1, <2>8
    <2>11. Disjoint(held')
      BY <1>1, <1>4 DEF RunningInv
    <2>12. call'.name \in {"idle", "palloc", "probe", "map", "pfree"}
      BY <2>8
    <2>13. Inv'
      BY <1>0, <1>4, <2>1, <2>2, <2>4, <2>8, <2>9, <2>10, <2>11, <2>12, Rebuild
    <2>14. QED
      BY <2>8, <2>13
  <1>5. QED
    BY <1>3, <1>4 DEF PallocScan

(* A step that only ends the call. *)
LEMMA BackToIdle ==
  ASSUME Inv, Running, Pending(call) = {}, call' = Idle,
         UNCHANGED <<usable, used, lastAlloc, mem, cr3, boot, held>>,
         tlb' \in {tlb, NoTranslation}
  PROVE  Inv'
  <1>1. RunningInv /\ mem \in Memory /\ HeldPages \subseteq ClientPages
    BY RunningFacts
  <1>2. HeldPages' = HeldPages /\ Pending(call') = {}
    BY IdleFields DEF HeldPages, Pending
  <1>3. GoodCall(mem', cr3, boot.last, HeldPages', call')
    BY IdleFields DEF GoodCall, CallType, CallInv
  <1>4. SamePages(mem, mem', cr3, HeldPages)
    BY DEF SamePages
  <1>5. TlbInv(mem', cr3, HeldPages, tlb')
    BY <1>1, <1>4, TlbStays DEF RunningInv
  <1>6. RestType'
    <2>1. NoTranslation \in [page : Pages \cup {NoTranslation.page}, frame : Frames \cup {None}]
      BY DEF NoTranslation
    <2>2. QED
      BY <2>1, RestTypeNow DEF RestType
  <1>7. Space(mem', cr3, used', boot.last, HeldPages' \cup Pending(call')) /\ Disjoint(held')
    BY <1>1, <1>2 DEF RunningInv
  <1>8. call'.name \in {"idle", "palloc", "probe", "map", "pfree"}
    BY IdleFields
  <1>9. QED
    BY <1>1, <1>2, <1>3, <1>5, <1>6, <1>7, <1>8, Rebuild

LEMMA PallocNullStep ==
  ASSUME Inv, PallocNull
  PROVE  Inv'
  BY BackToIdle DEF PallocNull, Running, Pending

LEMMA PfreeDoneStep ==
  ASSUME Inv, PfreeDone
  PROVE  Inv'
  <1>1. Running /\ call.name = "pfree" /\ call.i = call.n
    BY DEF PfreeDone, Running
  <1>2. GoodCall(mem, cr3, boot.last, HeldPages, call)
    BY <1>1, RunningFacts
  <1>3. call.n \in Nat /\ call.first \in Int
    BY <1>1, <1>2, Constants, PageCountsPositive DEF GoodCall, CallType, CallInv, Pages
  <1>4. Pending(call) = {}
    <2>1. Run(call.first + call.i, call.n - call.i) = {}
      BY <1>1, <1>3 DEF Run
    <2>2. QED
      BY <1>1, <2>1 DEF Pending
  <1>5. QED
    BY <1>1, <1>4, BackToIdle DEF PfreeDone, Flush

(* A call begins that maps nothing yet. *)
LEMMA CallBegins ==
  ASSUME Inv, call = Idle, NEW first \in Pages, NEW n \in PageCounts, NEW name \in {"palloc", "probe"},
         call' = Call(name, first, n), name = "probe" => first \in ClientPages,
         UNCHANGED <<usable, used, lastAlloc, mem, cr3, boot, tlb, held>>
  PROVE  Inv'
  <1>0. Running /\ Pending(call) = {}
    BY IdleFields DEF Running, Pending
  <1>1. RunningInv /\ mem \in Memory /\ HeldPages \subseteq ClientPages /\ boot.last \in Nat
    BY <1>0, RunningFacts
  <1>2. IsCall(call') /\ call'.name = name /\ call'.first = first /\ call'.n = n /\ call'.i = 0 /\ call'.found = 0
    BY CallFields
  <1>3. HeldPages' = HeldPages /\ Pending(call') = {}
    BY <1>2 DEF HeldPages, Pending
  <1>4. n \in Nat /\ n > 0
    BY PageCountsPositive
  <1>5. CallType(call')
    BY <1>2, <1>4 DEF CallType
  <1>6. first \in Int
    BY Constants DEF Pages
  <1>7. \A b \in Int : Run(b, 0) = {}
    BY DEF Run
  <1>8. ASSUME name = "palloc" PROVE Scan(mem', cr3, boot.last, HeldPages, 0, 0, 0, n)
    <2>1. Run(0 - 0, 0) = {} /\ 0 <= Entries
      BY <1>7, Constants
    <2>2. Clear(mem', cr3, boot.last, HeldPages, Run(0 - 0, 0))
      BY <2>1 DEF Clear
    <2>3. \A a \in Nat : ~(a + n <= 0)
      BY <1>4
    <2>4. QED
      BY <1>4, <2>1, <2>2, <2>3 DEF Scan
  <1>9. CallInv(mem', cr3, boot.last, HeldPages, call')
    <2>1. CASE name = "palloc"
      <3>1. 0 * Entries = 0
        BY Constants
      <3>2. QED
        BY <1>2, <1>8, <2>1, <3>1 DEF CallInv, ScanInv
    <2>2. CASE name = "probe"
      <3>1. Clear(mem', cr3, boot.last, HeldPages, Run(first, 0))
        BY <1>6, <1>7 DEF Clear
      <3>2. QED
        BY <1>2, <1>4, <2>2, <3>1 DEF CallInv
    <2>3. QED
      BY <2>1, <2>2
  <1>10. GoodCall(mem', cr3, boot.last, HeldPages', call')
    BY <1>2, <1>3, <1>5, <1>9 DEF GoodCall
  <1>11. Space(mem', cr3, used', boot.last, HeldPages' \cup Pending(call')) /\ Disjoint(held')
         /\ TlbInv(mem', cr3, HeldPages', tlb')
    BY <1>0, <1>1, <1>3 DEF RunningInv
  <1>12. RestType'
    BY RestTypeNow DEF RestType
  <1>13. call'.name \in {"idle", "palloc", "probe", "map", "pfree"}
    BY <1>2
  <1>14. QED
    BY <1>0, <1>1, <1>10, <1>11, <1>12, <1>13, Rebuild

LEMMA PallocStep ==
  ASSUME Inv, NEW n \in PageCounts, Palloc(n)
  PROVE  Inv'
  BY CallBegins, ClientPageIsPage DEF Palloc

LEMMA PallocAtStep ==
  ASSUME Inv, NEW first \in ClientPages, NEW n \in PageCounts, PallocAt(first, n)
  PROVE  Inv'
  BY CallBegins, ClientPageIsPage DEF PallocAt

LEMMA PallocProbeStep ==
  ASSUME Inv, PallocProbe
  PROVE  Inv'
  <1> DEFINE page == call.first + call.i
             d == page \div Entries
  <1>0. call.name = "probe" /\ call.i < call.n /\ Running
    BY DEF PallocProbe, Running
  <1>1. /\ RunningInv /\ Grounded /\ mem \in Memory /\ cr3 \in Frames /\ Up
        /\ boot.last \in Nat /\ boot.last < Self * Entries
        /\ GoodCall(mem, cr3, boot.last, HeldPages, call)
        /\ HeldPages \subseteq ClientPages
    BY <1>0, RunningFacts
  <1>2. /\ call.first \in ClientPages /\ call.n \in PageCounts /\ call.i <= call.n /\ call.i \in Nat
        /\ Clear(mem, cr3, boot.last, HeldPages, Run(call.first, call.i))
        /\ IsCall(call) /\ CallType(call)
    BY <1>0, <1>1 DEF GoodCall, CallType, CallInv
  <1>3. call.first \in Nat /\ call.first < Self * Entries /\ call.n \in Nat
    BY <1>2, PageParts, PageCountsPositive
  <1>4. page \in Nat /\ page <= Self * Entries
    <2>1. CASE call.i = 0
      BY <1>3, <2>1, Constants
    <2>2. CASE call.i > 0
      <3>1. page - 1 \in Run(call.first, call.i)
        BY <1>2, <1>3, <2>2 DEF Run
      <3>2. page - 1 \in ClientPages
        BY <1>2, <3>1 DEF Clear
      <3>3. QED
        BY <1>2, <1>3, <3>2, Constants DEF ClientPages
    <2>3. QED
      BY <1>2, <2>1, <2>2
  <1>5. page % (Entries * Entries) = page
    <2>1. page < Entries * Entries
      BY <1>4, Constants
    <2>2. \A N \in Nat : page < N => page % N = page
      BY <1>4
    <2>3. QED
      BY <2>1, <2>2, Constants
  <1>6. d \in Index /\ (page \notin ClientPages => d = Self /\ page % Entries = 0)
    <2>1. CASE page \in ClientPages
      BY <2>1, PageParts
    <2>2. CASE page \notin ClientPages
      <3>1. page = Self * Entries
        BY <1>4, <2>2, Constants DEF ClientPages
      <3>2. Self \in Index /\ 0 \in Index
        BY Constants DEF Index
      <3>3. Self * Entries + 0 = page
        BY <1>4, <3>1, Constants
      <3>4. d = Self /\ page % Entries = 0
        BY <3>2, <3>3, PageOfEntry
      <3>5. QED
        BY <3>2, <3>4
    <2>3. QED
      BY <2>1, <2>2
  <1> HIDE DEF d
  <1>7. CASE NoFrameForTable(d)
    BY <1>1, <1>7, PanicStep DEF NoFrameForTable
  <1>8. ASSUME NEW entry, TableExists(d) \/ TableCreated(d), ProbeEntry(entry),
               UNCHANGED <<cr3, boot, held>>,
               \/ TableExists(d) /\ entry = Pte(page)
               \/ TableCreated(d) /\ entry = NoEntry
        PROVE  Inv'
    <2>1. HeldPages' = HeldPages /\ Pending(call) = {}
      BY <1>0, <1>8 DEF HeldPages, Pending
    <2>2. /\ GotTable(mem, mem', cr3, d, used, used', boot.last, HeldPages \cup Pending(call), HeldPages)
          /\ RestType'
          /\ tlb' \in {tlb, NoTranslation}
      BY <1>0, <1>6, <1>8, GetTable
    <2>3. HeldPages \cup Pending(call) = HeldPages
      BY <2>1
    <2>4. /\ mem' \in Memory
          /\ mem'[cr3][d].present
          /\ mem'[cr3][Self] = mem[cr3][Self]
          /\ Space(mem', cr3, used', boot.last, HeldPages)
          /\ Grew(mem, mem', cr3)
          /\ SamePages(mem, mem', cr3, HeldPages)
      BY <2>2, <2>3 DEF GotTable
    <2>5. GoodCall(mem', cr3, boot.last, HeldPages, call)
      BY <1>1, <2>4, CallGrows
    <2>6. GoodCall(mem', cr3, boot.last, HeldPages, call') /\ call'.name \in {"idle", "probe"}
      <3>1. CASE entry.present
        <4>1. call' = Idle
          BY <1>8, <3>1 DEF ProbeEntry
        <4>2. QED
          BY <4>1, IdleFields DEF GoodCall, CallType, CallInv
      <3>2. CASE ~entry.present
        <4>1. page \in ClientPages /\ ~Mapped(mem', cr3, page)
          <5>1. CASE TableExists(d) /\ entry = Pte(page)
            <6>1. mem' = mem /\ entry = EntryAt(mem, cr3, page)
              BY <1>0, <5>1, RunningFacts DEF TableExists
            <6>2. ASSUME page \notin ClientPages PROVE FALSE
              <7>1. d = Self /\ page % Entries = 0
                BY <1>6, <6>2
              <7>2. entry = mem[cr3][0]
                BY <1>1, <6>1, <7>1, Entry DEF EntryAt, Grounded, d
              <7>3. 0 \in 0 .. boot.last /\ 0 \div Entries = 0
                BY <1>1, Constants
              <7>4. mem[cr3][0].present
                BY <1>1, <7>3 DEF Grounded, IdentityUpTo
              <7>5. QED
                BY <3>2, <7>2, <7>4
            <6>3. QED
              BY <3>2, <6>1, <6>2 DEF Mapped
          <5>2. CASE TableCreated(d) /\ entry = NoEntry
            <6>1. ~mem[cr3][d].present
              BY <5>2 DEF TableCreated
            <6>2. d # Self
              BY <1>1, <6>1, Entry DEF Grounded
            <6>3. page \in ClientPages
              BY <1>6, <6>2
            <6>4. ~Mapped(mem, cr3, page)
              BY <6>1 DEF Mapped, d
            <6>5. page > boot.last /\ page \notin HeldPages
              <7>1. Space(mem, cr3, used, boot.last, HeldPages \cup Pending(call))
                BY <1>1 DEF RunningInv
              <7>2. Space(mem, cr3, used, boot.last, HeldPages)
                BY <2>3, <7>1
              <7>3. boot.last \in Int
                BY <1>1
              <7>4. QED
                BY <6>3, <6>4, <7>2, <7>3, UnmappedPage
            <6>6. ~Mapped(mem', cr3, page)
              BY <2>4, <6>3, <6>5 DEF Space, MappedAre
            <6>7. QED
              BY <6>3, <6>6
          <5>3. QED
            BY <1>8, <5>1, <5>2
        <4>2. page > boot.last /\ page \notin HeldPages
          <5>1. boot.last \in Int
            BY <1>1
          <5>2. QED
            BY <2>4, <4>1, <5>1, UnmappedPage
        <4>3. call' = [call EXCEPT !.i = @ + 1]
          BY <1>8, <3>2 DEF ProbeEntry
        <4>4. call' = [name |-> "probe", first |-> call.first, n |-> call.n, i |-> call.i + 1, found |-> call.found]
          BY <1>0, <1>2, <4>3 DEF IsCall
        <4>5. /\ call'.name = "probe" /\ call'.first = call.first /\ call'.n = call.n
              /\ call'.i = call.i + 1 /\ call'.found = call.found /\ IsCall(call')
          BY <4>4 DEF IsCall
        <4>6. Clear(mem', cr3, boot.last, HeldPages, Run(call.first, call.i + 1))
          <5>1. ASSUME NEW p \in Run(call.first, call.i + 1), p # page
                PROVE  p \in Run(call.first, call.i)
            BY <1>2, <1>3, <5>1 DEF Run
          <5>2. Clear(mem', cr3, boot.last, HeldPages, Run(call.first, call.i))
            BY <1>2, <2>4, ClearGrows
          <5>3. mem'[cr3][page \div Entries].present
            BY <2>4 DEF d
          <5>4. QED
            BY <4>1, <4>2, <5>1, <5>2, <5>3 DEF Clear
        <4>7. CallType(call') /\ call'.i <= call'.n
          BY <1>0, <1>2, <1>3, <4>5 DEF CallType
        <4>8. CallInv(mem', cr3, boot.last, HeldPages, call')
          BY <1>2, <4>5, <4>6, <4>7 DEF CallInv
        <4>9. QED
          BY <4>5, <4>7, <4>8 DEF GoodCall
      <3>3. QED
        BY <3>1, <3>2
    <2>7. Pending(call') = {}
      BY <2>6 DEF Pending
    <2>8. TlbInv(mem', cr3, HeldPages, tlb')
      BY <1>1, <2>2, <2>4, TlbStays DEF RunningInv
    <2>9. HeldPages' \cup Pending(call') = HeldPages
      BY <2>1, <2>7
    <2>10. Disjoint(held')
      BY <1>1, <1>8 DEF RunningInv
    <2>11. call'.name \in {"idle", "palloc", "probe", "map", "pfree"}
      BY <2>6
    <2>12. QED
      BY <1>0, <1>8, <2>1, <2>2, <2>4, <2>6, <2>8, <2>9, <2>10, <2>11, Rebuild
  <1>9. (call.first + call.i) % (Entries * Entries) = page
    BY <1>5
  <1>10. \/ /\ TableExists(d)
            /\ ProbeEntry(Pte(page))
            /\ UNCHANGED <<cr3, boot, held>>
         \/ /\ TableCreated(d)
            /\ ProbeEntry(NoEntry)
            /\ UNCHANGED <<cr3, boot, held>>
         \/ NoFrameForTable(d)
    BY <1>9, Zenon DEF PallocProbe, d
  <1>11. QED
    BY <1>7, <1>8, <1>10

LEMMA ProbeDoneStep ==
  ASSUME Inv, ProbeDone
  PROVE  Inv'
  <1>0. /\ call.name = "probe" /\ call.i = call.n /\ Running /\ Pending(call) = {}
        /\ call' = IF call.first = 0 THEN Idle ELSE Call("map", call.first, call.n)
        /\ UNCHANGED <<usable, used, lastAlloc, mem, cr3, boot, tlb, held>>
    BY DEF ProbeDone, Running, Pending
  <1>1. CASE call.first = 0
    BY <1>0, <1>1, BackToIdle
  <1>2. CASE call.first # 0
    <2>1. RunningInv /\ mem \in Memory /\ boot.last \in Nat /\ GoodCall(mem, cr3, boot.last, HeldPages, call)
      BY <1>0, RunningFacts
    <2>2. call.first \in Int /\ call.n \in PageCounts
          /\ Clear(mem, cr3, boot.last, HeldPages, Run(call.first, call.n))
      BY <1>0, <2>1, PageParts DEF GoodCall, CallInv
    <2>3. PICK first \in Int, n \in PageCounts : first = call.first /\ n = call.n
      BY <2>2
    <2>4. Clear(mem, cr3, boot.last, HeldPages, Run(first, n)) /\ call' = Call("map", first, n)
      BY <1>0, <1>2, <2>2, <2>3
    <2>5. GoodCall(mem, cr3, boot.last, HeldPages, call') /\ call'.name = "map"
      <3>1. GoodCall(mem, cr3, boot.last, HeldPages, call')
        BY <2>1, <2>4, MapBegins
      <3>2. call'.name = "map"
        BY <2>4, CallFields
      <3>3. QED
        BY <3>1, <3>2
    <2>6. Pending(call') = {}
      BY <2>1, <2>4, MapBegins
    <2>7. HeldPages' = HeldPages
      BY <1>0 DEF HeldPages
    <2>8. Space(mem', cr3, used', boot.last, HeldPages' \cup Pending(call')) /\ Disjoint(held')
          /\ TlbInv(mem', cr3, HeldPages', tlb')
      BY <1>0, <2>1, <2>6, <2>7 DEF RunningInv
    <2>9. RestType'
      BY <1>0, RestTypeNow DEF RestType
    <2>10. call'.name \in {"idle", "palloc", "probe", "map", "pfree"}
           /\ GoodCall(mem', cr3, boot.last, HeldPages', call')
      BY <1>0, <2>5, <2>7
    <2>11. QED
      BY <1>0, <2>1, <2>8, <2>9, <2>10, Rebuild
  <1>3. QED
    BY <1>1, <1>2

(* A step of the loop of allocatePages or pfree: the call's count goes up. *)
LEMMA CallAdvances ==
  ASSUME Inv, call.name \in {"map", "pfree"}, call.i < call.n, call' = [call EXCEPT !.i = @ + 1],
         NEW m, m[cr3] = mem[cr3]
  PROVE  /\ call'.name = call.name /\ call'.first = call.first /\ call'.n = call.n /\ call'.i = call.i + 1
         /\ call.first \in Nat /\ call.n \in Nat /\ call.i \in Nat
         /\ Clear(mem, cr3, boot.last, HeldPages, Run(call.first, call.n))
         /\ call.first + call.i \in Run(call.first, call.n)
         /\ call.first + call.i \in ClientPages
         /\ call.first + call.i > boot.last
         /\ call.first + call.i \notin HeldPages
         /\ mem[cr3][(call.first + call.i) \div Entries].present
         /\ GoodCall(m, cr3, boot.last, HeldPages, call')
  <1>0. Running
    BY DEF Running
  <1>1. GoodCall(mem, cr3, boot.last, HeldPages, call)
    BY <1>0, RunningFacts
  <1>2. /\ IsCall(call) /\ CallType(call) /\ call.n \in PageCounts
        /\ Clear(mem, cr3, boot.last, HeldPages, Run(call.first, call.n))
    BY <1>1 DEF GoodCall, CallInv
  <1>3. call.first \in Nat /\ call.n \in Nat /\ call.i \in Nat
    BY <1>2, PageCountsPositive, Constants DEF CallType, Pages
  <1>4. call' = [name |-> call.name, first |-> call.first, n |-> call.n, i |-> call.i + 1, found |-> call.found]
    BY <1>2 DEF IsCall
  <1>5. /\ call'.name = call.name /\ call'.first = call.first /\ call'.n = call.n
        /\ call'.i = call.i + 1 /\ call'.found = call.found /\ IsCall(call')
    BY <1>4 DEF IsCall
  <1>6. call.first + call.i \in Run(call.first, call.n)
    BY <1>3 DEF Run
  <1>7. /\ call.first + call.i \in ClientPages
        /\ call.first + call.i > boot.last
        /\ call.first + call.i \notin HeldPages
        /\ mem[cr3][(call.first + call.i) \div Entries].present
    BY <1>2, <1>6 DEF Clear
  <1>8. CallType(call') /\ call'.i <= call'.n
    BY <1>2, <1>3, <1>5 DEF CallType
  <1>9. Clear(m, cr3, boot.last, HeldPages, Run(call.first, call.n))
    BY <1>2 DEF Clear
  <1>10. CallInv(m, cr3, boot.last, HeldPages, call')
    BY <1>2, <1>5, <1>8, <1>9 DEF CallInv
  <1>11. QED
    BY <1>2, <1>3, <1>5, <1>6, <1>7, <1>8, <1>10 DEF GoodCall

(* setEntry leaves the cached translation or drops it. *)
LEMMA SetEntryTlb ==
  ASSUME Inv, NEW x, tlb' = AfterSetEntry(x)
  PROVE  /\ tlb' \in {tlb, NoTranslation}
         /\ tlb' \in [page : Pages \cup {NoTranslation.page}, frame : Frames \cup {None}]
  <1>1. NoTranslation \in [page : Pages \cup {NoTranslation.page}, frame : Frames \cup {None}]
    BY DEF NoTranslation
  <1>2. tlb' \in {tlb, NoTranslation}
    BY DEF AfterSetEntry
  <1>3. QED
    BY <1>1, <1>2 DEF Inv, TypeOK

LEMMA MapPageStep ==
  ASSUME Inv, MapPage
  PROVE  Inv' /\ (call'.name # "panic" => SamePages(mem, mem', cr3, HeldPages))
  <1>0. call.name = "map" /\ call.i < call.n /\ Running
    BY DEF MapPage, Running
  <1>1. /\ RunningInv /\ Up /\ mem \in Memory /\ cr3 \in Frames
        /\ boot.last \in Int /\ boot.last < Self * Entries
        /\ usable \subseteq Frames /\ used \subseteq Frames
        /\ \A d : TableFrame(d) = mem[cr3][d].frame
        /\ HeldPages \subseteq ClientPages
    BY <1>0, RunningFacts
  <1>2. CASE Panic
    <2>1. call'.name = "panic"
      BY <1>2, CallFields DEF Panic, Panicked
    <2>2. QED
      BY <1>1, <1>2, <2>1, PanicStep
  <1>3. ASSUME NEW page, page = call.first + call.i, NEW f \in Frames, Alloc(1, f),
               mem' = [mem EXCEPT ![TableFrame(page \div Entries)][page % Entries] = PresentEntry(f)],
               tlb' = AfterSetEntry(PresentEntry(f)),
               call' = [call EXCEPT !.i = @ + 1],
               UNCHANGED <<cr3, boot, held>>
        PROVE  Inv' /\ SamePages(mem, mem', cr3, HeldPages)
    <2>1. f \notin used /\ used' = used \cup {f} /\ usable' = usable /\ lastAlloc' = f
      BY <1>1, <1>3, AllocOne
    <2>2. mem' = SetAt(mem, cr3, page, PresentEntry(f))
      <3>1. TableFrame(page \div Entries) = mem[cr3][page \div Entries].frame
        BY <1>1
      <3>2. QED
        BY <1>3, <3>1, Zenon DEF SetAt
    <2>3. /\ call.first \in Nat /\ call.n \in Nat /\ call.i \in Nat
          /\ page \in ClientPages /\ page > boot.last /\ page \notin HeldPages
          /\ mem[cr3][page \div Entries].present
          /\ call'.name = call.name /\ call'.first = call.first /\ call'.i = call.i + 1
      BY <1>0, <1>3, CallAdvances
    <2> DEFINE S == HeldPages \cup Run(call.first, call.i)
    <2>4. Pending(call) = Run(call.first, call.i) /\ Pending(call') = Run(call.first, call.i + 1)
      BY <1>0, <2>3 DEF Pending
    <2>5. page \notin S
      BY <1>3, <2>3 DEF Run
    <2>6. HeldPages' = HeldPages
      BY <1>3 DEF HeldPages
    <2>7. HeldPages' \cup Pending(call') = S \cup {page}
      <3>1. Run(call.first, call.i + 1) = Run(call.first, call.i) \cup {call.first + call.i}
        BY <2>3 DEF Run
      <3>2. QED
        BY <1>3, <2>4, <2>6, <3>1
    <2>8. Space(mem, cr3, used, boot.last, S)
      BY <1>1, <2>4 DEF RunningInv
    <2> HIDE DEF S
    <2>9. /\ mem' \in Memory
          /\ Space(mem', cr3, used \cup {f}, boot.last, S \cup {page})
          /\ mem'[cr3] = mem[cr3]
          /\ SamePages(mem, mem', cr3, S)
      <3>1. mem \in Memory /\ cr3 \in Frames /\ boot.last \in Int /\ boot.last < Self * Entries
        BY <1>1
      <3>2. f \notin used
        BY <2>1
      <3>3. Kept(mem, mem', cr3, used \cup {f}, boot.last, S \cup {page}, S)
        BY <2>2, <2>3, <2>5, <2>8, <3>1, <3>2, SpaceMap
      <3>4. QED
        BY <3>3 DEF Kept
    <2>10. SamePages(mem, mem', cr3, HeldPages)
      BY <2>9 DEF SamePages, S
    <2>11. GoodCall(mem', cr3, boot.last, HeldPages', call')
      BY <1>0, <1>3, <2>6, <2>9, CallAdvances
    <2>12. tlb' \in {tlb, NoTranslation}
           /\ tlb' \in [page : Pages \cup {NoTranslation.page}, frame : Frames \cup {None}]
      BY <1>3, SetEntryTlb
    <2>13. TlbInv(mem', cr3, HeldPages', tlb')
      BY <1>1, <2>6, <2>10, <2>12, TlbStays DEF RunningInv
    <2>14. RestType'
      BY <1>1, <1>3, <2>1, <2>12, RestTypeNow DEF RestType
    <2>15. Space(mem', cr3, used', boot.last, HeldPages' \cup Pending(call')) /\ Disjoint(held')
      BY <1>1, <1>3, <2>1, <2>7, <2>9 DEF RunningInv
    <2>16. call'.name \in {"idle", "palloc", "probe", "map", "pfree"} /\ mem'[cr3][Self] = mem[cr3][Self]
      BY <1>0, <2>3, <2>9
    <2>17. Inv'
      BY <1>0, <1>3, <2>9, <2>11, <2>13, <2>14, <2>15, <2>16, Rebuild
    <2>18. QED
      BY <2>10, <2>17
  <1>4. QED
    BY <1>2, <1>3 DEF MapPage

LEMMA FreePageStep ==
  ASSUME Inv, FreePage
  PROVE  Inv' /\ SamePages(mem, mem', cr3, HeldPages)
  <1>0. call.name = "pfree" /\ call.i < call.n /\ Running
    BY DEF FreePage, Running
  <1>1. /\ RunningInv /\ Up /\ mem \in Memory /\ cr3 \in Frames
        /\ boot.last \in Int /\ boot.last < Self * Entries
        /\ usable \subseteq Frames /\ used \subseteq Frames
        /\ \A d : TableFrame(d) = mem[cr3][d].frame
        /\ \A p : Pte(p) = EntryAt(mem, cr3, p)
        /\ HeldPages \subseteq ClientPages
    BY <1>0, RunningFacts
  <1> DEFINE page == call.first + call.i
             f == EntryAt(mem, cr3, page).frame
  <1>2. /\ call' = [call EXCEPT !.i = @ + 1]
        /\ tlb' = AfterSetEntry(NoEntry)
        /\ Free(f, 1)
        /\ mem' = SetAt(mem, cr3, page, NoEntry)
        /\ UNCHANGED <<cr3, boot, held>>
    <2>1. TableFrame(page \div Entries) = mem[cr3][page \div Entries].frame /\ Pte(page).frame = f
      BY <1>1
    <2>2. mem' = SetAt(mem, cr3, page, NoEntry)
      BY <2>1, Zenon DEF FreePage, SetAt
    <2>3. Free(f, 1)
      BY <2>1, Zenon DEF FreePage
    <2>4. QED
      BY <2>2, <2>3 DEF FreePage
  <1>3. /\ call.first \in Nat /\ call.n \in Nat /\ call.i \in Nat
        /\ page \in ClientPages /\ page \notin HeldPages
        /\ call'.name = call.name /\ call'.first = call.first /\ call'.n = call.n /\ call'.i = call.i + 1
    BY <1>0, <1>2, CallAdvances
  <1>4. f \in Frames
    BY <1>1, <1>3, EntryType
  <1>5. used' = used \ {f} /\ UNCHANGED <<usable, lastAlloc>>
    <2>1. f \in Int
      BY <1>4, Constants DEF Frames
    <2>2. Run(f, 1) = {f}
      BY <2>1 DEF Run
    <2>3. QED
      BY <1>2, <2>2 DEF Free
  <1> DEFINE S == HeldPages \cup Run(call.first + call.i, call.n - call.i)
  <1>6. /\ Pending(call) = Run(call.first + call.i, call.n - call.i)
        /\ Pending(call') = Run(call.first + (call.i + 1), call.n - (call.i + 1))
    BY <1>0, <1>3 DEF Pending
  <1>7. page \in S
    BY <1>0, <1>3 DEF Run
  <1>8. HeldPages' = HeldPages
    BY <1>2 DEF HeldPages
  <1>9. HeldPages' \cup Pending(call') = S \ {page}
    <2>1. Run(call.first + (call.i + 1), call.n - (call.i + 1)) = Run(call.first + call.i, call.n - call.i) \ {call.first + call.i}
      BY <1>0, <1>3 DEF Run
    <2>2. QED
      BY <1>3, <1>6, <1>8, <2>1
  <1>10. Space(mem, cr3, used, boot.last, S)
    BY <1>1, <1>6 DEF RunningInv
  <1>10a. HeldPages \subseteq S \ {page}
    BY <1>3
  <1> HIDE DEF S, page, f
  <1>11. /\ mem' \in Memory
         /\ Space(mem', cr3, used \ {f}, boot.last, S \ {page})
         /\ mem'[cr3] = mem[cr3]
         /\ SamePages(mem, mem', cr3, S \ {page})
    <2>1. mem \in Memory /\ cr3 \in Frames /\ boot.last \in Int /\ boot.last < Self * Entries
      BY <1>1
    <2>2. mem' = SetAt(mem, cr3, page, NoEntry)
      BY <1>2
    <2>3. f = EntryAt(mem, cr3, page).frame
      BY DEF f
    <2>4. Kept(mem, mem', cr3, used \ {f}, boot.last, S \ {page}, S \ {page})
      BY <1>7, <1>10, <2>1, <2>2, <2>3, SpaceUnmap
    <2>5. QED
      BY <2>4 DEF Kept
  <1>12. SamePages(mem, mem', cr3, HeldPages)
    BY <1>10a, <1>11 DEF SamePages
  <1>13. GoodCall(mem', cr3, boot.last, HeldPages', call')
    BY <1>0, <1>2, <1>8, <1>11, CallAdvances
  <1>14. tlb' \in {tlb, NoTranslation}
         /\ tlb' \in [page : Pages \cup {NoTranslation.page}, frame : Frames \cup {None}]
    BY <1>2, SetEntryTlb
  <1>15. TlbInv(mem', cr3, HeldPages', tlb')
    BY <1>1, <1>8, <1>12, <1>14, TlbStays DEF RunningInv
  <1>16. RestType'
    BY <1>2, <1>5, <1>14, RestTypeNow DEF RestType
  <1>17. Space(mem', cr3, used', boot.last, HeldPages' \cup Pending(call')) /\ Disjoint(held')
    BY <1>1, <1>2, <1>5, <1>9, <1>11 DEF RunningInv
  <1>18. call'.name \in {"idle", "palloc", "probe", "map", "pfree"} /\ mem'[cr3][Self] = mem[cr3][Self]
    BY <1>0, <1>3, <1>11
  <1>19. Inv'
    BY <1>0, <1>2, <1>11, <1>13, <1>15, <1>16, <1>17, <1>18, Rebuild
  <1>20. QED
    BY <1>12, <1>19

(* The pages that allocatePages has mapped become a client's. *)
LEMMA MapDoneFacts ==
  ASSUME Inv, MapDone
  PROVE  /\ call.first \in ClientPages /\ call.n \in PageCounts
         /\ PagesOf(<<call.first, call.n>>) = Run(call.first, call.n)
         /\ HeldPages' = HeldPages \cup Run(call.first, call.n)
         /\ HeldPages \cap Run(call.first, call.n) = {}
         /\ Run(call.first, call.n) \subseteq ClientPages
         /\ call.first \in Run(call.first, call.n)
         /\ Pending(call) = Run(call.first, call.n)
  <1>0. call.name = "map" /\ call.i = call.n /\ Running /\ held' = held \cup {<<call.first, call.n>>}
    BY DEF MapDone, Running
  <1>1. GoodCall(mem, cr3, boot.last, HeldPages, call)
    BY <1>0, RunningFacts
  <1>2. call.n \in PageCounts /\ Clear(mem, cr3, boot.last, HeldPages, Run(call.first, call.n)) /\ call.first \in Pages
    BY <1>0, <1>1 DEF GoodCall, CallType, CallInv
  <1>3. call.n \in Nat /\ call.n > 0 /\ call.first \in Nat
    BY <1>2, PageCountsPositive, Constants DEF Pages
  <1>4. call.first \in Run(call.first, call.n)
    BY <1>3 DEF Run
  <1>5. call.first \in ClientPages /\ Run(call.first, call.n) \subseteq ClientPages
        /\ HeldPages \cap Run(call.first, call.n) = {}
    BY <1>2, <1>4 DEF Clear
  <1>6. PagesOf(<<call.first, call.n>>) = Run(call.first, call.n)
    BY DEF PagesOf
  <1>7. HeldPages' = HeldPages \cup Run(call.first, call.n)
    BY <1>0, <1>6 DEF HeldPages, PagesOf
  <1>8. Pending(call) = Run(call.first, call.n)
    BY <1>0 DEF Pending
  <1>9. QED
    BY <1>2, <1>4, <1>5, <1>6, <1>7, <1>8

LEMMA MapDoneStep ==
  ASSUME Inv, MapDone
  PROVE  Inv'
  <1>0. /\ call.name = "map" /\ Running /\ held' = held \cup {<<call.first, call.n>>}
        /\ tlb' = NoTranslation /\ call' = Idle
        /\ UNCHANGED <<usable, used, lastAlloc, mem, cr3, boot>>
    BY DEF MapDone, Running, Flush
  <1>1. RunningInv /\ mem \in Memory
    BY <1>0, RunningFacts
  <1>2. /\ call.first \in ClientPages /\ call.n \in PageCounts
        /\ PagesOf(<<call.first, call.n>>) = Run(call.first, call.n)
        /\ HeldPages' = HeldPages \cup Run(call.first, call.n)
        /\ HeldPages \cap Run(call.first, call.n) = {}
        /\ Pending(call) = Run(call.first, call.n)
    BY MapDoneFacts
  <1>3. Pending(call') = {}
    BY <1>0, IdleFields DEF Pending
  <1>4. Space(mem', cr3, used', boot.last, HeldPages' \cup Pending(call'))
    <2>1. HeldPages' \cup Pending(call') = HeldPages \cup Pending(call)
      BY <1>2, <1>3
    <2>2. QED
      BY <1>0, <1>1, <2>1 DEF RunningInv
  <1>5. HeldPages' \subseteq ClientPages
    BY <1>4 DEF Space
  <1>6. TlbInv(mem', cr3, HeldPages', tlb')
    <2>1. NoTranslation.page \notin ClientPages
      BY Constants DEF NoTranslation, ClientPages
    <2>2. QED
      BY <1>0, <1>5, <2>1 DEF TlbInv
  <1>7. RestType'
    <2>1. NoTranslation \in [page : Pages \cup {NoTranslation.page}, frame : Frames \cup {None}]
      BY DEF NoTranslation
    <2>2. QED
      BY <1>0, <1>2, <2>1, RestTypeNow DEF RestType
  <1>8. Disjoint(held')
    <2>1. \A b \in held : PagesOf(b) \subseteq HeldPages
      BY DEF HeldPages
    <2>2. \A b \in held : PagesOf(b) \cap PagesOf(<<call.first, call.n>>) = {}
      BY <1>2, <2>1
    <2>3. QED
      BY <1>0, <1>1, <2>2 DEF RunningInv, Disjoint
  <1>9. GoodCall(mem', cr3, boot.last, HeldPages', call')
    BY <1>0, IdleFields DEF GoodCall, CallType, CallInv
  <1>10. call'.name \in {"idle", "palloc", "probe", "map", "pfree"}
    BY <1>0, IdleFields
  <1>11. QED
    BY <1>0, <1>1, <1>4, <1>6, <1>7, <1>8, <1>9, <1>10, Rebuild

(* The pages of a run that a client gives back are nobody else's. *)
LEMMA PfreeFacts ==
  ASSUME Inv, NEW block \in held, Pfree(block)
  PROVE  /\ block = <<block[1], block[2]>>
         /\ block[1] \in ClientPages /\ block[2] \in PageCounts
         /\ PagesOf(block) = Run(block[1], block[2])
         /\ HeldPages = HeldPages' \cup PagesOf(block)
         /\ HeldPages' \cap PagesOf(block) = {}
         /\ Running /\ Pending(call) = {}
  <1>0. Running /\ Pending(call) = {} /\ held' = held \ {block}
    BY IdleFields DEF Pfree, Running, Pending
  <1>1. RunningInv /\ TypeOK
    BY <1>0, RunningFacts
  <1>2. block \in ClientPages \X PageCounts
    BY <1>1 DEF TypeOK
  <1>3. HeldPages = HeldPages' \cup PagesOf(block)
    BY <1>0 DEF HeldPages, PagesOf
  <1>4. HeldPages' \cap PagesOf(block) = {}
    <2>1. \A b \in held \ {block} : PagesOf(b) \cap PagesOf(block) = {}
      BY <1>1 DEF RunningInv, Disjoint
    <2>2. HeldPages' = UNION {PagesOf(b) : b \in held \ {block}}
      BY <1>0 DEF HeldPages, PagesOf
    <2>3. QED
      BY <2>1, <2>2
  <1>5. QED
    BY <1>0, <1>2, <1>3, <1>4 DEF PagesOf

LEMMA PfreeStep ==
  ASSUME Inv, NEW block \in held, Pfree(block)
  PROVE  Inv'
  <1>0. /\ call' = Call("pfree", block[1], block[2])
        /\ held' = held \ {block}
        /\ UNCHANGED <<usable, used, lastAlloc, mem, cr3, boot, tlb>>
    BY DEF Pfree
  <1>1. /\ block[1] \in ClientPages /\ block[2] \in PageCounts
        /\ PagesOf(block) = Run(block[1], block[2])
        /\ HeldPages = HeldPages' \cup PagesOf(block)
        /\ HeldPages' \cap PagesOf(block) = {}
        /\ Running /\ Pending(call) = {}
    BY PfreeFacts
  <1>2. /\ RunningInv /\ mem \in Memory /\ cr3 \in Frames
        /\ boot.last \in Int /\ boot.last < Self * Entries
    BY <1>1, RunningFacts
  <1>3. PICK first \in ClientPages, n \in PageCounts : first = block[1] /\ n = block[2]
    BY <1>1
  <1>4. first \in Nat /\ n \in Nat /\ n > 0
    BY PageParts, PageCountsPositive
  <1>5. IsCall(call') /\ call'.name = "pfree" /\ call'.first = first /\ call'.n = n /\ call'.i = 0 /\ call'.found = 0
    BY <1>0, <1>3, CallFields
  <1>6. Pending(call') = PagesOf(block)
    <2>1. first + 0 = first /\ n - 0 = n
      BY <1>4
    <2>2. QED
      BY <1>1, <1>3, <1>5, <2>1 DEF Pending
  <1>7. Space(mem, cr3, used, boot.last, HeldPages)
    <2>1. HeldPages \cup Pending(call) = HeldPages
      BY <1>1
    <2>2. QED
      BY <1>2, <2>1 DEF RunningInv
  <1>8. Space(mem', cr3, used', boot.last, HeldPages' \cup Pending(call'))
    BY <1>0, <1>1, <1>6, <1>7
  <1>9. Clear(mem', cr3, boot.last, HeldPages', Run(first, n))
    <2>1. \A p \in HeldPages : p \in ClientPages /\ mem[cr3][p \div Entries].present
      BY <1>2, <1>7, SpacePages
    <2>2. \A p \in HeldPages : p > boot.last
      BY <1>7 DEF Space
    <2>3. Run(first, n) = PagesOf(block)
      BY <1>1, <1>3
    <2>4. \A p \in Run(first, n) : p \in HeldPages /\ p \notin HeldPages'
      BY <1>1, <2>3
    <2>5. QED
      BY <1>0, <2>1, <2>2, <2>4 DEF Clear
  <1>10. CallType(call')
    BY <1>4, <1>5, ClientPageIsPage DEF CallType
  <1>11. CallInv(mem', cr3, boot.last, HeldPages', call')
    BY <1>4, <1>5, <1>9 DEF CallInv
  <1>12. GoodCall(mem', cr3, boot.last, HeldPages', call')
    BY <1>5, <1>10, <1>11 DEF GoodCall
  <1>13. Disjoint(held')
    BY <1>0, <1>2 DEF RunningInv, Disjoint
  <1>14. TlbInv(mem', cr3, HeldPages', tlb')
    BY <1>0, <1>1, <1>2 DEF RunningInv, TlbInv
  <1>15. RestType'
    BY <1>0, RestTypeNow DEF RestType
  <1>16. call'.name \in {"idle", "palloc", "probe", "map", "pfree"}
    BY <1>5
  <1>17. QED
    BY <1>0, <1>1, <1>2, <1>8, <1>12, <1>13, <1>14, <1>15, <1>16, Rebuild

(* The processor caches a translation: it is what the tables say. *)
LEMMA FillStep ==
  ASSUME Inv, NEW page \in Pages, Fill(page)
  PROVE  Inv'
  <1>0. /\ call.name \notin {"create", "install", "panic"}
        /\ tlb' = [page |-> page, frame |-> Pte(page).frame]
        /\ Walkable(page)
        /\ UNCHANGED <<usable, used, lastAlloc, mem, cr3, call, boot, held>>
    BY DEF Fill
  <1>1. Running
    BY <1>0 DEF Inv, TypeOK, Running
  <1>2. /\ RunningInv /\ mem \in Memory /\ cr3 \in Frames
        /\ GoodCall(mem, cr3, boot.last, HeldPages, call)
        /\ \A p : Pte(p) = EntryAt(mem, cr3, p)
    BY <1>1, RunningFacts
  <1>3. HeldPages' = HeldPages /\ Pending(call') = Pending(call)
    BY <1>0 DEF HeldPages
  <1>4. TlbInv(mem', cr3, HeldPages', tlb')
    BY <1>0, <1>2 DEF TlbInv
  <1>5. EntryAt(mem, cr3, page).frame \in Frames
    <2>1. page \div Entries \in Index /\ page % Entries \in Index
      BY PageIndex
    <2>2. mem[cr3][page \div Entries].frame \in Frames
      BY <1>2, <2>1, EntryType
    <2>3. QED
      BY <1>2, <2>1, <2>2 DEF EntryAt, Memory, PageEntry
  <1>6. RestType'
    <2>1. tlb' = [page |-> page, frame |-> EntryAt(mem, cr3, page).frame]
      BY <1>0, <1>2
    <2>2. tlb' \in [page : Pages \cup {NoTranslation.page}, frame : Frames \cup {None}]
      BY <1>5, <2>1
    <2>3. QED
      BY <1>0, <2>2, RestTypeNow DEF RestType
  <1>7. /\ Space(mem', cr3, used', boot.last, HeldPages' \cup Pending(call'))
        /\ Disjoint(held')
        /\ GoodCall(mem', cr3, boot.last, HeldPages', call')
    BY <1>0, <1>2, <1>3 DEF RunningInv
  <1>8. call'.name \in {"idle", "palloc", "probe", "map", "pfree"}
    BY <1>0, <1>1 DEF Running
  <1>9. QED
    BY <1>0, <1>1, <1>2, <1>4, <1>6, <1>7, <1>8, Rebuild

(* A load or store of a held page goes to the frame of its entry. *)
LEMMA HeldTranslate ==
  ASSUME Inv, Running
  PROVE  \A p \in HeldPages : Translate(p) = EntryAt(mem, cr3, p).frame
  BY RunningFacts DEF RunningInv, TlbInv, Translate

LEMMA StoreStep ==
  ASSUME Inv, NEW page \in HeldPages, NEW v \in Values, Store(page, v)
  PROVE  Inv' /\ SamePages(mem, mem', cr3, HeldPages \ {page})
  <1>0. /\ call = Idle
        /\ mem' = [mem EXCEPT ![Translate(page)] = Stored(v)]
        /\ UNCHANGED <<usable, used, lastAlloc, cr3, call, boot, tlb, held>>
    BY DEF Store
  <1>1. Running /\ Pending(call) = {}
    BY <1>0, IdleFields DEF Running, Pending
  <1>2. /\ RunningInv /\ mem \in Memory /\ cr3 \in Frames
        /\ boot.last \in Int /\ boot.last < Self * Entries
    BY <1>1, RunningFacts
  <1>3. HeldPages' = HeldPages /\ Pending(call') = {}
    BY <1>0, <1>1 DEF HeldPages
  <1>4. Space(mem, cr3, used, boot.last, HeldPages)
    <2>1. HeldPages \cup Pending(call) = HeldPages
      BY <1>1
    <2>2. QED
      BY <1>2, <2>1 DEF RunningInv
  <1>5. Translate(page) = EntryAt(mem, cr3, page).frame
    BY <1>1, HeldTranslate
  <1>6. mem' = Overwrite(mem, EntryAt(mem, cr3, page).frame, Stored(v))
    BY <1>0, <1>5, Zenon DEF Overwrite
  <1>7. Stored(v) \in [Index -> PageEntry]
    BY Entry, MMUAssumption
  <1>8. /\ Kept(mem, mem', cr3, used, boot.last, HeldPages, HeldPages \ {page})
        /\ EntryAt(mem', cr3, page) = EntryAt(mem, cr3, page)
    <2>1. PICK x \in [Index -> PageEntry] : x = Stored(v)
      BY <1>7
    <2>2. mem' = Overwrite(mem, EntryAt(mem, cr3, page).frame, x)
      BY <1>6, <2>1
    <2> DEFINE S == HeldPages
    <2>3. page \in S /\ Space(mem, cr3, used, boot.last, S)
      BY <1>4
    <2> HIDE DEF S
    <2>4. Kept(mem, mem', cr3, used, boot.last, S, S \ {page})
      BY <1>2, <2>2, <2>3, SpaceStore
    <2>5. SameEntry(mem, mem', cr3, page)
      BY <1>2, <2>2, <2>3, SpaceStore
    <2>6. QED
      BY <2>4, <2>5 DEF S, SameEntry
  <1>9. /\ mem' \in Memory /\ mem'[cr3] = mem[cr3]
        /\ Space(mem', cr3, used, boot.last, HeldPages)
        /\ SamePages(mem, mem', cr3, HeldPages \ {page})
    BY <1>8 DEF Kept
  <1>10. TlbInv(mem', cr3, HeldPages', tlb')
    <2>1. \A p \in HeldPages : EntryAt(mem', cr3, p).frame = EntryAt(mem, cr3, p).frame
      BY <1>8, <1>9 DEF SamePages
    <2>2. QED
      BY <1>0, <1>2, <1>3, <2>1 DEF RunningInv, TlbInv
  <1>11. RestType'
    BY <1>0, RestTypeNow DEF RestType
  <1>12. /\ Space(mem', cr3, used', boot.last, HeldPages' \cup Pending(call'))
         /\ Disjoint(held')
    BY <1>0, <1>2, <1>3, <1>9 DEF RunningInv
  <1>13. GoodCall(mem', cr3, boot.last, HeldPages', call')
    BY <1>0, IdleFields DEF GoodCall, CallType, CallInv
  <1>14. call'.name \in {"idle", "palloc", "probe", "map", "pfree"} /\ mem'[cr3][Self] = mem[cr3][Self]
    BY <1>0, <1>9, IdleFields
  <1>15. Inv'
    BY <1>0, <1>1, <1>9, <1>10, <1>11, <1>12, <1>13, <1>14, Rebuild
  <1>16. QED
    BY <1>9, <1>15

-----------------------------------------------------------------------------
(* The specification. *)

LEMMA NextStep ==
  ASSUME Inv, Next
  PROVE  Inv'
  <1>1. CASE CallStep
    <2>1. CASE Create BY <2>1, CreateStep
    <2>2. CASE InstallNewTable BY <2>2, InstallNewTableStep
    <2>3. CASE InstallEntry BY <2>3, InstallEntryStep
    <2>4. CASE InstallDone BY <2>4, InstallDoneStep
    <2>5. CASE PallocScan BY <2>5, PallocScanStep
    <2>6. CASE PallocNull BY <2>6, PallocNullStep
    <2>7. CASE PallocProbe BY <2>7, PallocProbeStep
    <2>8. CASE ProbeDone BY <2>8, ProbeDoneStep
    <2>9. CASE MapPage BY <2>9, MapPageStep
    <2>10. CASE MapDone BY <2>10, MapDoneStep
    <2>11. CASE FreePage BY <2>11, FreePageStep
    <2>12. CASE PfreeDone BY <2>12, PfreeDoneStep
    <2>13. QED
      BY <1>1, <2>1, <2>2, <2>3, <2>4, <2>5, <2>6, <2>7, <2>8, <2>9, <2>10, <2>11, <2>12 DEF CallStep
  <1>2. CASE \E n \in PageCounts : Palloc(n)
    BY <1>2, PallocStep
  <1>3. CASE \E first \in ClientPages, n \in PageCounts : PallocAt(first, n)
    BY <1>3, PallocAtStep
  <1>4. CASE \E block \in held : Pfree(block)
    BY <1>4, PfreeStep
  <1>5. CASE \E page \in Pages : Fill(page)
    BY <1>5, FillStep
  <1>6. CASE \E page \in HeldPages, v \in Values : Store(page, v)
    BY <1>6, StoreStep
  <1>7. QED
    BY <1>1, <1>2, <1>3, <1>4, <1>5, <1>6 DEF Next

LEMMA StutterStep ==
  ASSUME Inv, UNCHANGED mmuVars
  PROVE  Inv'
  <1>1. UNCHANGED <<usable, used, lastAlloc, mem, cr3, call, boot, tlb, held>>
    BY DEF mmuVars
  <1>2. HeldPages' = HeldPages /\ Done' = Done
    BY <1>1 DEF HeldPages, Done, Linked
  <1>3. TypeOK' /\ IsCall(call')
    BY <1>1 DEF Inv, TypeOK
  <1>4. (call'.name = "create" => CreateInv') /\ (Up' => Grounded')
    BY <1>1 DEF Inv, CreateInv, Up, Grounded
  <1>5. call'.name = "install" => InstallInv'
    BY <1>1, <1>2 DEF Inv, InstallInv
  <1>6. Running' => RunningInv'
    BY <1>1, <1>2 DEF Inv, Running, RunningInv
  <1>7. QED
    BY <1>3, <1>4, <1>5, <1>6 DEF Inv

(* In every state the tables, the allocator and the call in progress       *)
(* agree: the invariant on which the theorems below rest.                  *)
THEOREM Safe == Spec => []Inv
  <1>1. Init => Inv
    BY InitInv
  <1>2. Inv /\ [Next]_mmuVars => Inv'
    BY NextStep, StutterStep
  <1>3. QED
    BY <1>1, <1>2, PTL DEF Spec

(* Once install has returned, the kernel image, the directory and the      *)
(* tables install made stay mapped at their own addresses, and the last    *)
(* directory entry points at the directory, whatever palloc, pfree and the *)
(* clients' stores do.                                                     *)
THEOREM KernelStaysMapped == Spec => []IdentityMapIntact
  <1>1. Inv => IdentityMapIntact
    <2> SUFFICES ASSUME Inv, Up PROVE IdentityMapIntact
      BY DEF IdentityMapIntact
    <2>1. Grounded /\ cr3 \in Frames /\ boot.last \in Frames
      BY DEF Inv, TypeOK
    <2>2. mem[cr3][Self].frame = cr3
      BY <2>1, Entry DEF Grounded
    <2>3. ASSUME NEW f \in 0 .. boot.last
          PROVE  Walkable(f) /\ Pte(f) = IdentityEntry(f)
      <3>1. Pte(f) = EntryAt(mem, cr3, f)
        BY <2>2 DEF Pte, TableFrame, EntryAt
      <3>2. mem[cr3][f \div Entries].present /\ EntryAt(mem, cr3, f) = IdentityEntry(f)
        BY <2>1 DEF Grounded, IdentityUpTo
      <3>3. f \in Frames
        BY <2>1, Constants DEF Frames
      <3>4. QED
        BY <3>1, <3>2, <3>3, Entry DEF Walkable
    <2>4. QED
      BY <2>1, <2>3 DEF Grounded, IdentityMapIntact
  <1>2. QED
    BY <1>1, Safe, PTL

(* Between two calls the used frames are exactly the kernel's, the         *)
(* directory's, the tables' and those of the pages clients hold: palloc    *)
(* and pfree leak no frame and free none that is still mapped, and the     *)
(* pages mapped above the kernel are exactly the held ones.                *)
THEOREM NoFrameIsLost == Spec => []FramesAccounted
  <1>1. Inv => FramesAccounted
    <2> SUFFICES ASSUME Inv, call = Idle
                 PROVE  /\ used = KernelFrames \cup {cr3} \cup TableFrames \cup MappedFrames(HeldPages)
                        /\ HeldPages = {p \in ClientPages : p > boot.last /\ Walkable(p)}
      BY DEF FramesAccounted, Inv
    <2>1. Running /\ Pending(call) = {}
      BY IdleFields DEF Running, Pending
    <2>2. /\ RunningInv /\ Grounded /\ mem \in Memory /\ cr3 \in Frames
          /\ boot.last \in Int /\ boot.last < Self * Entries
          /\ \A p : Pte(p) = EntryAt(mem, cr3, p)
      BY <2>1, RunningFacts
    <2>3. Space(mem, cr3, used, boot.last, HeldPages)
      <3>1. HeldPages \cup Pending(call) = HeldPages
        BY <2>1
      <3>2. QED
        BY <2>2, <3>1 DEF RunningInv
    <2>4. \A p : Walkable(p) <=> Mapped(mem, cr3, p)
      BY <2>2 DEF Walkable, Mapped
    <2>5. \A p \in HeldPages : p \in ClientPages /\ p > boot.last
      BY <2>3 DEF Space
    <2>6. HeldPages = {p \in ClientPages : p > boot.last /\ Walkable(p)}
      BY <2>3, <2>4, <2>5 DEF Space, MappedAre
    <2>7. \A p \in HeldPages : Walkable(p)
      BY <2>6
    <2>8. Index = Low \cup {Self} /\ mem[cr3][Self].frame = cr3 /\ mem[cr3][Self].present
      <3>1. Index = Low \cup {Self}
        BY Constants DEF Index, Low
      <3>2. mem[cr3][Self].frame = cr3 /\ mem[cr3][Self].present
        BY <2>2, Entry DEF Grounded
      <3>3. QED
        BY <3>1, <3>2
    <2>9. ASSUME NEW f \in used
          PROVE  f \in KernelFrames \cup {cr3} \cup TableFrames \cup MappedFrames(HeldPages)
      <3>1. \/ f \in KernelFrames
            \/ f = cr3
            \/ \E d \in Low : mem[cr3][d].present /\ mem[cr3][d].frame = f
            \/ \E p \in HeldPages : EntryAt(mem, cr3, p).frame = f
        BY <2>3 DEF Space, Owned
      <3>2. ASSUME NEW d \in Low, mem[cr3][d].present, mem[cr3][d].frame = f PROVE f \in TableFrames
        BY <2>8, <3>2 DEF TableFrames
      <3>3. ASSUME NEW p \in HeldPages, EntryAt(mem, cr3, p).frame = f PROVE f \in MappedFrames(HeldPages)
        BY <2>2, <2>7, <3>3 DEF MappedFrames
      <3>4. QED
        BY <3>1, <3>2, <3>3
    <2>10. KernelFrames \subseteq used /\ cr3 \in used
      BY <2>3 DEF Space
    <2>11. ASSUME NEW f \in TableFrames PROVE f \in used
      <3>1. PICK d \in Index : mem[cr3][d].present /\ f = mem[cr3][d].frame
        BY DEF TableFrames
      <3>2. QED
        BY <2>3, <2>8, <2>10, <3>1 DEF Space, TablesApart
    <2>12. ASSUME NEW f \in MappedFrames(HeldPages) PROVE f \in used
      <3>1. PICK p \in HeldPages : f = EntryAt(mem, cr3, p).frame
        BY <2>2 DEF MappedFrames
      <3>2. QED
        BY <2>3, <3>1 DEF Space, Private
    <2>13. used = KernelFrames \cup {cr3} \cup TableFrames \cup MappedFrames(HeldPages)
      BY <2>9, <2>10, <2>11, <2>12
    <2>14. QED
      BY <2>6, <2>13
  <1>2. QED
    BY <1>1, Safe, PTL

-----------------------------------------------------------------------------
(* What palloc promises when it returns nullptr. *)

(* No run of n free pages exists below the window of the tables. *)
NoRoom(n) ==
  \A first \in ClientPages : ~ \A p \in Run(first, n) : p \in ClientPages /\ ~Walkable(p)

LEMMA NullMeansFull ==
  ASSUME Inv, PallocNull
  PROVE  NoRoom(call.n)
  <1>0. call.name = "palloc" /\ call.i = Entries /\ Running
    BY DEF PallocNull, Running
  <1>1. /\ GoodCall(mem, cr3, boot.last, HeldPages, call)
        /\ \A p : Pte(p) = EntryAt(mem, cr3, p)
    BY <1>0, RunningFacts
  <1>2. Scan(mem, cr3, boot.last, HeldPages, Entries, Entries * Entries, call.found, call.n)
    BY <1>0, <1>1 DEF GoodCall, CallInv, ScanInv
  <1>3. call.n \in Nat /\ call.n > 0
    BY <1>2, PageCountsPositive DEF Scan
  <1>4. SUFFICES ASSUME NEW first \in ClientPages,
                        \A p \in Run(first, call.n) : p \in ClientPages /\ ~Walkable(p)
                 PROVE  FALSE
    BY DEF NoRoom
  <1>5. first \in Nat
    BY PageParts
  <1>6. first + call.n <= Self * Entries
    <2>1. first + (call.n - 1) \in Run(first, call.n)
      BY <1>3, <1>5 DEF Run
    <2>2. first + (call.n - 1) < Self * Entries
      BY <1>4, <2>1, PageParts
    <2>3. QED
      BY <1>3, <1>5, <2>2, Constants
  <1>7. first + call.n <= Entries * Entries
    BY <1>3, <1>5, <1>6, Constants
  <1>8. \E p \in Run(first, call.n) : Mapped(mem, cr3, p)
    BY <1>2, <1>5, <1>6, <1>7 DEF Scan
  <1>9. \A p : Walkable(p) <=> Mapped(mem, cr3, p)
    BY <1>1 DEF Walkable, Mapped
  <1>10. QED
    BY <1>4, <1>8, <1>9

(* palloc's search returns nullptr only when no run of the requested       *)
(* length is free: it never skips one, at a table's boundary or elsewhere. *)
THEOREM PallocFindsRoom == Spec => PallocNullOnlyWhenFull
  <1>1. ASSUME Inv, [Next]_mmuVars, call.name = "palloc", call'.name = "idle"
        PROVE  NoRoom(call.n)
    <2>1. call.name = "palloc" /\ call'.name = "idle" /\ call # Idle
      BY <1>1, IdleFields
    <2>2. Next
      BY <1>1, <2>1 DEF mmuVars
    <2>3. CASE CallStep
      <3>1. CASE PallocNull
        BY <1>1, <3>1, NullMeansFull
      <3>2. CASE PallocScan
        BY <1>1, <3>2, PallocScanStep
      <3>3. QED
        BY <2>1, <2>3, <3>1, <3>2 DEF CallStep, Create, InstallNewTable, InstallEntry, InstallDone,
           PallocProbe, ProbeDone, MapPage, MapDone, FreePage, PfreeDone
    <2>4. QED
      BY <2>1, <2>2, <2>3 DEF Next, Palloc, PallocAt, Pfree, Fill, Store
  <1>2. Inv /\ [Next]_mmuVars =>
          [ (call.name = "palloc" /\ call'.name = "idle") =>
              \A first \in ClientPages :
                ~ \A p \in Run(first, call.n) : p \in ClientPages /\ ~Walkable(p) ]_call
    BY <1>1 DEF NoRoom
  <1>3. QED
    BY <1>2, Safe, PTL DEF Spec, PallocNullOnlyWhenFull

-----------------------------------------------------------------------------
(* The refinement: clients see pages whose content only they change. *)

(* The content of held pages, read through the tables alone. *)
View(m, r, H) == [p \in H |-> m[EntryAt(m, r, p).frame]]

LEMMA ContentView ==
  ASSUME Inv, Running
  PROVE  Content = View(mem, cr3, HeldPages)
  <1>1. \A p \in HeldPages : Translate(p) = EntryAt(mem, cr3, p).frame
    BY HeldTranslate
  <1>2. QED
    BY <1>1 DEF Content, View

LEMMA SameView ==
  ASSUME NEW m, NEW m2, NEW r, NEW H, NEW H2, H2 \subseteq H, SamePages(m, m2, r, H2)
  PROVE  \A p \in H2 : View(m2, r, H2)[p] = View(m, r, H)[p]
  BY DEF View, SamePages

LEMMA NextView ==
  ASSUME Inv', Running'
  PROVE  Content' = View(mem', cr3', HeldPages')
  <1>1. RunningInv' /\ Grounded' /\ cr3' \in Frames
    BY DEF Inv, Running, RunningInv, Up, TypeOK
  <1>2. mem'[cr3'][Self].frame = cr3'
    BY <1>1, Entry DEF Grounded
  <1>3. TlbInv(mem', cr3', HeldPages', tlb') /\ \A p : Pte(p)' = EntryAt(mem', cr3', p)
    BY <1>1, <1>2 DEF RunningInv, Pte, TableFrame, EntryAt
  <1>4. \A p \in HeldPages' : Translate(p)' = EntryAt(mem', cr3', p).frame
    BY <1>3 DEF TlbInv, Translate
  <1>5. QED
    BY <1>4 DEF Content, View

(* A step that leaves the held pages as they are leaves the view. *)
LEMMA ViewStays ==
  ASSUME Inv, Inv', Running, Running', UNCHANGED <<cr3, held>>,
         SamePages(mem, mem', cr3, HeldPages)
  PROVE  UNCHANGED <<held, Content>>
  <1>1. Content = View(mem, cr3, HeldPages) /\ Content' = View(mem', cr3', HeldPages')
    BY ContentView, NextView
  <1>2. HeldPages' = HeldPages
    BY DEF HeldPages
  <1>3. View(mem', cr3, HeldPages) = View(mem, cr3, HeldPages)
    BY DEF View, SamePages
  <1>4. QED
    BY <1>1, <1>2, <1>3

(* One that changes neither the tables nor what is cached does too. *)
LEMMA NothingSeen ==
  ASSUME UNCHANGED <<mem, cr3, tlb, held>>
  PROVE  UNCHANGED <<held, Content>>
  BY DEF Content, HeldPages, Translate, Pte, TableFrame

(* So does one before the first palloc. *)
LEMMA NothingHeld ==
  ASSUME held = {}, held' = {}
  PROVE  UNCHANGED <<held, Content>>
  <1>1. HeldPages = {} /\ HeldPages' = {}
    BY DEF HeldPages
  <1>2. Content = [p \in {} |-> mem[Translate(p)]] /\ Content' = [p \in {} |-> (mem[Translate(p)])']
    BY <1>1 DEF Content
  <1>3. QED
    BY <1>2

(* The abstract specification's names. *)
LEMMA AbstractHeld ==
  /\ VM!Held = HeldPages
  /\ \A b : VM!PagesOf(b) = PagesOf(b)
  BY DEF VM!Held, VM!PagesOf, HeldPages, PagesOf, Run

LEMMA MapDoneGives ==
  ASSUME Inv, Inv', MapDone
  PROVE  VM!Next
  <1> DEFINE block == <<call.first, call.n>>
  <1>0. /\ Running /\ Running' /\ held' = held \cup {block}
        /\ UNCHANGED <<mem, cr3>>
    BY IdleFields DEF MapDone, Running
  <1>1. /\ PagesOf(block) = Run(call.first, call.n)
        /\ HeldPages' = HeldPages \cup PagesOf(block)
        /\ HeldPages \cap PagesOf(block) = {}
        /\ PagesOf(block) \subseteq ClientPages
        /\ call.first \in PagesOf(block)
    BY MapDoneFacts
  <1>2. block \notin held
    BY <1>1 DEF HeldPages
  <1>3. Content = View(mem, cr3, HeldPages) /\ Content' = View(mem', cr3', HeldPages')
    BY <1>0, ContentView, NextView
  <1>4. DOMAIN Content' = HeldPages \cup PagesOf(block)
    BY <1>1, <1>3 DEF View
  <1>5. \A p \in HeldPages : Content'[p] = Content[p]
    BY <1>0, <1>1, <1>3 DEF View
  <1>6. VM!Give(block)
    BY <1>0, <1>1, <1>4, <1>5, AbstractHeld DEF VM!Give
  <1>7. block \in held' \ held
    BY <1>0, <1>2
  <1> HIDE DEF block
  <1>8. QED
    BY <1>6, <1>7 DEF VM!Next

LEMMA PfreeReturns ==
  ASSUME Inv, Inv', NEW block \in held, Pfree(block)
  PROVE  VM!Next
  <1>0. held' = held \ {block} /\ UNCHANGED <<mem, cr3>> /\ Running'
    BY CallFields DEF Pfree, Running
  <1>1. /\ HeldPages = HeldPages' \cup PagesOf(block)
        /\ HeldPages' \cap PagesOf(block) = {}
        /\ Running
    BY PfreeFacts
  <1>2. HeldPages' = HeldPages \ PagesOf(block)
    BY <1>1
  <1>3. Content = View(mem, cr3, HeldPages) /\ Content' = View(mem', cr3', HeldPages')
    BY <1>0, <1>1, ContentView, NextView
  <1>4. Content' = [p \in HeldPages \ PagesOf(block) |-> Content[p]]
    BY <1>0, <1>2, <1>3 DEF View
  <1>5. VM!Return(block)
    BY <1>0, <1>4, AbstractHeld DEF VM!Return
  <1>6. block \in held \ held'
    BY <1>0
  <1>7. QED
    BY <1>5, <1>6 DEF VM!Next

LEMMA StoreStores ==
  ASSUME Inv, Inv', NEW page \in HeldPages, NEW v \in Values, Store(page, v)
  PROVE  VM!Next
  <1>0. Running /\ Running' /\ UNCHANGED <<cr3, held>>
    BY IdleFields DEF Store, Running
  <1>1. SamePages(mem, mem', cr3, HeldPages \ {page})
    BY StoreStep
  <1>2. HeldPages' = HeldPages
    BY <1>0 DEF HeldPages
  <1>3. Content = View(mem, cr3, HeldPages) /\ Content' = View(mem', cr3', HeldPages')
    BY <1>0, ContentView, NextView
  <1>4. DOMAIN Content' = HeldPages
    BY <1>2, <1>3 DEF View
  <1>5. \A p \in HeldPages \ {page} : Content'[p] = Content[p]
    BY <1>0, <1>1, <1>2, <1>3 DEF View, SamePages
  <1>6. VM!Store(page)
    BY <1>0, <1>4, <1>5, AbstractHeld DEF VM!Store
  <1>7. QED
    BY <1>6, AbstractHeld DEF VM!Next

(* getOrCreateTable is invisible to clients. *)
LEMMA TablesUnseen ==
  ASSUME Inv, Inv', PallocScan \/ PallocProbe
  PROVE  UNCHANGED <<held, Content>>
  <1>0. Running /\ call.name \in {"palloc", "probe"}
    BY DEF PallocScan, PallocProbe, Running
  <1>1. CASE Panic
    BY <1>1, NothingSeen DEF Panic
  <1>2. ASSUME NEW d, d \in Index, TableExists(d) \/ TableCreated(d), UNCHANGED <<cr3, boot, held>>, Running'
        PROVE  UNCHANGED <<held, Content>>
    <2>1. GotTable(mem, mem', cr3, d, used, used', boot.last, HeldPages \cup Pending(call), HeldPages)
      BY <1>0, <1>2, GetTable
    <2>2. SamePages(mem, mem', cr3, HeldPages)
      BY <2>1 DEF GotTable
    <2>3. QED
      BY <1>0, <1>2, <2>2, ViewStays
  <1>3. /\ IsCall(call) /\ call.i \in Nat /\ call.first \in Nat
    <2>1. GoodCall(mem, cr3, boot.last, HeldPages, call)
      BY <1>0, RunningFacts
    <2>2. QED
      BY <2>1, Constants DEF GoodCall, CallType, Pages
  <1>4. \A k, f : [call EXCEPT !.i = k, !.found = f].name = call.name
    BY <1>3 DEF IsCall
  <1>5. \A k : [call EXCEPT !.i = k].name = call.name
    BY <1>3 DEF IsCall
  <1>6. CASE PallocScan
    <2>1. call.i \in Index
      BY <1>3, <1>6, Constants DEF PallocScan, Index
    <2>2. ASSUME NEW table, ScanTable(call.i, table) PROVE Running'
      <3> DEFINE hits == {e \in Index : RunLength(table, call.found, e) = call.n}
      <3>1. CASE hits = {}
        <4>1. call' = [call EXCEPT !.i = call.i + 1, !.found = RunLength(table, call.found, Entries - 1)]
          BY <2>2, <3>1, Zenon DEF ScanTable
        <4>2. call'.name = call.name
          BY <1>4, <4>1
        <4>3. QED
          BY <1>0, <4>2 DEF Running
      <3>2. CASE hits # {}
        <4>1. \E f : call' = Idle \/ call' = Call("map", f, call.n)
          BY <2>2, <3>2 DEF ScanTable
        <4>2. QED
          BY <4>1, IdleFields, CallFields DEF Running
      <3>3. QED
        BY <3>1, <3>2
    <2>3. QED
      BY <1>1, <1>2, <1>6, <2>1, <2>2 DEF PallocScan, NoFrameForTable
  <1>7. CASE PallocProbe
    <2> DEFINE page == (call.first + call.i) % (Entries * Entries)
    <2>1. page \div Entries \in Index
      <3>1. call.first + call.i \in Nat /\ Entries * Entries \in Nat /\ Entries * Entries > 0
        BY <1>3, Constants, ClientPageIsPage DEF Pages
      <3>2. \A a, N \in Nat : N > 0 => a % N \in 0 .. N - 1
        OBVIOUS
      <3>3. page \in Pages
        BY <3>1, <3>2 DEF Pages
      <3>4. QED
        BY <3>3, PageIndex
    <2>2. ASSUME NEW x, ProbeEntry(x) PROVE Running'
      <3>1. call' = Idle \/ call' = [call EXCEPT !.i = @ + 1]
        BY <2>2 DEF ProbeEntry
      <3>2. CASE call' = Idle
        BY <3>2, IdleFields DEF Running
      <3>3. CASE call' = [call EXCEPT !.i = @ + 1]
        <4>1. call'.name = call.name
          BY <1>5, <3>3
        <4>2. QED
          BY <1>0, <4>1 DEF Running
      <3>4. QED
        BY <3>1, <3>2, <3>3
    <2> DEFINE d == page \div Entries
    <2>3. \/ TableExists(d) /\ ProbeEntry(Pte(page)) /\ UNCHANGED <<cr3, boot, held>>
          \/ TableCreated(d) /\ ProbeEntry(NoEntry) /\ UNCHANGED <<cr3, boot, held>>
          \/ NoFrameForTable(d)
      BY <1>7, Zenon DEF PallocProbe
    <2> HIDE DEF page
    <2>4. QED
      BY <1>1, <1>2, <2>1, <2>2, <2>3 DEF NoFrameForTable
  <1>8. QED
    BY <1>6, <1>7

(* Every step of the unit is one of the abstract specification, or one     *)
(* that clients do not see.                                                *)
LEMMA StepRefines ==
  ASSUME Inv, Inv', [Next]_mmuVars
  PROVE  VM!Next \/ UNCHANGED <<held, Content>>
  <1>1. CASE UNCHANGED mmuVars
    BY <1>1, NothingSeen DEF mmuVars
  <1>2. CASE Create \/ InstallNewTable \/ InstallEntry \/ InstallDone
    <2>1. held = {} /\ held' = held
      BY <1>2 DEF Inv, CreateInv, InstallInv, Create, InstallNewTable, InstallEntry, InstallDone, Panic
    <2>2. QED
      BY <2>1, NothingHeld
  <1>3. CASE PallocScan \/ PallocProbe
    BY <1>3, TablesUnseen
  <1>4. CASE PallocNull \/ ProbeDone
    BY <1>4, NothingSeen DEF PallocNull, ProbeDone
  <1>5. CASE MapPage
    <2>1. CASE Panic
      BY <2>1, NothingSeen DEF Panic
    <2>2. CASE ~Panic
      <3>1. call.name = "map" /\ call' = [call EXCEPT !.i = @ + 1] /\ UNCHANGED <<cr3, held>> /\ IsCall(call)
        BY <1>5, <2>2 DEF MapPage, Inv
      <3>2. call'.name = "map"
        BY <3>1 DEF IsCall
      <3>3. SamePages(mem, mem', cr3, HeldPages)
        BY <1>5, <3>2, MapPageStep
      <3>4. QED
        BY <3>1, <3>2, <3>3, ViewStays DEF Running
    <2>3. QED
      BY <2>1, <2>2
  <1>6. CASE FreePage
    <2>1. call.name = "pfree" /\ call' = [call EXCEPT !.i = @ + 1] /\ UNCHANGED <<cr3, held>> /\ IsCall(call)
      BY <1>6 DEF FreePage, Inv
    <2>2. call'.name = "pfree"
      BY <2>1 DEF IsCall
    <2>3. QED
      BY <1>6, <2>1, <2>2, FreePageStep, ViewStays DEF Running
  <1>7. CASE PfreeDone
    <2>1. call.name = "pfree" /\ call' = Idle /\ UNCHANGED <<mem, cr3, held>>
      BY <1>7 DEF PfreeDone
    <2>2. SamePages(mem, mem', cr3, HeldPages)
      BY <2>1 DEF SamePages
    <2>3. QED
      BY <2>1, <2>2, ViewStays, IdleFields DEF Running
  <1>8. CASE MapDone
    BY <1>8, MapDoneGives
  <1>9. CASE \E n \in PageCounts : Palloc(n)
    BY <1>9, NothingSeen DEF Palloc
  <1>10. CASE \E first \in ClientPages, n \in PageCounts : PallocAt(first, n)
    BY <1>10, NothingSeen DEF PallocAt
  <1>11. CASE \E block \in held : Pfree(block)
    BY <1>11, PfreeReturns
  <1>12. CASE \E page \in Pages : Fill(page)
    <2>1. Running /\ Running' /\ UNCHANGED <<mem, cr3, held>>
      BY <1>12 DEF Fill, Running, Inv, TypeOK
    <2>2. SamePages(mem, mem', cr3, HeldPages)
      BY <2>1 DEF SamePages
    <2>3. QED
      BY <2>1, <2>2, ViewStays
  <1>13. CASE \E page \in HeldPages, v \in Values : Store(page, v)
    BY <1>13, StoreStores
  <1>14. QED
    BY <1>1, <1>2, <1>3, <1>4, <1>5, <1>6, <1>7, <1>8, <1>9, <1>10, <1>11, <1>12, <1>13 DEF Next, CallStep

(* The tables, the allocator and the cached translations implement         *)
(* VirtualMemory: palloc gives runs of pages that nobody holds, pfree      *)
(* takes them back, and the content of a held page, loaded through the     *)
(* translation the processor uses, changes only by a store to that page.   *)
THEOREM PagesArePrivate == Spec => ImplementsVirtualMemory
  <1>1. Init => VM!Init
    <2> SUFFICES ASSUME Init PROVE VM!Init
      OBVIOUS
    <2>1. held = {} /\ HeldPages = {}
      BY DEF Init, HeldPages
    <2>2. Content = [p \in {} |-> 0]
      BY <2>1 DEF Content
    <2>3. QED
      BY <2>1, <2>2 DEF VM!Init
  <1>2. Inv /\ Inv' /\ [Next]_mmuVars => [VM!Next]_<<held, Content>>
    BY StepRefines
  <1>3. QED
    BY <1>1, <1>2, Safe, PTL DEF Spec, ImplementsVirtualMemory, VM!Spec
=============================================================================
