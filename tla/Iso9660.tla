------------------------------ MODULE Iso9660 -------------------------------
(***************************************************************************)
(* Files on a CD-ROM (kernel/src/fs/iso9660), as the boot code uses them:  *)
(* a volume is mounted, paths are looked up, and the program loader reads  *)
(* files, isElf first and then the constructor of Executable.              *)
(*                                                                         *)
(* A disk is a sequence of sectors of SectorSize cells.  A cell is a byte  *)
(* of a file, a directory record, a record of length 0 (padding), or a     *)
(* volume descriptor.  A name is a tuple of its parts, such as             *)
(* <<"A", ".", ";1">>.  A read of the device (module AtaDevice) may fail   *)
(* after some of the sectors; most callers do not look at its result.      *)
(***************************************************************************)
EXTENDS FileReader, SequencesExt

CONSTANTS
  SectorSize,
  FirstDescriptor, (* sector of the first volume descriptor (16)           *)
  Disks,           (* bound: the disks                                     *)
  Paths,           (* bound: the paths looked up, as their tokens          *)
  HeaderSize,      (* sizeof(ElfHeader32)                                  *)
  Ranges           (* bound: <<offset, length>> of the loader's reads      *)

(* A directory record: the ISO name, the Rock Ridge entries behind it as   *)
(* <<signature, name>>, the flags, the place and the length of the extent. *)
Record(iso, susp, dir, lba, len) ==
  [kind |-> "record", iso |-> iso, susp |-> susp, dir |-> dir, lba |-> lba, len |-> len]

IsRecord(c) ==
  /\ c = Record(c.iso, c.susp, c.dir, c.lba, c.len)
  /\ {c.lba, c.len} \subseteq Nat
  /\ c.dir \in BOOLEAN

(* Cells of directory records and of primary descriptors hold records.     *)
IsCell(c) ==
  /\ c.kind = "record" => IsRecord(c)
  /\ (c.kind = "descriptor" /\ c.type = "primary") => IsRecord(c.root)

ASSUME Iso9660Assumption ==
  /\ {SectorSize, HeaderSize} \subseteq Nat \ {0}
  /\ HeaderSize <= InitialCapacity
  /\ FirstDescriptor \in Nat
  /\ \A d \in Disks :
       /\ d \in Seq(ToSet(d)) /\ FirstDescriptor < Len(d)
       /\ \A sector \in ToSet(d) : /\ sector \in [1 .. SectorSize -> ToSet(sector)]
                                   /\ \A c \in ToSet(sector) : IsCell(c)
  /\ \A path \in Paths : path \in Seq(ToSet(path))
  /\ Ranges \subseteq Nat \X (Nat \ {0})

VARIABLES
  disk,      (* the disk in the drive                                      *)
  root,      (* the volume's root directory                                *)
  entry,     (* what the last find returned                                *)
  reader,    (* the FileReader that was made last                          *)
  failed,    (* history: what a fault of the device was part of            *)
  call       (* the call in progress, or the result of the last one        *)

vars == <<disk, root, entry, reader, failed, call>>

Pad == [kind |-> "pad"]
Byte(b) == [kind |-> "byte", value |-> b]
Descriptor(type, dir) == [kind |-> "descriptor", type |-> type, root |-> dir]

NoEntry == [kind |-> "none"]

(* What memory that was not written may be taken for. *)
JunkEntries == {Record(<<"?">>, <<>>, d, 0, SectorSize) : d \in BOOLEAN}

(* `taken' counts the tokens of the path that were consumed.               *)
Idle == [pc |-> "idle", op |-> "none", path |-> <<>>, taken |-> 0, dir |-> NoEntry,
         buf |-> <<>>, lba |-> 0, pos |-> 0, range |-> <<0, 1>>, bytes |-> <<>>, names |-> <<>>]

Init ==
  /\ disk \in Disks
  /\ root = NoEntry
  /\ entry = NoEntry
  /\ reader = NewReader(NoStream, TRUE)
  /\ failed = {}
  /\ call = Idle

-----------------------------------------------------------------------------
(* The device. *)

Sector(lba) == disk[lba + 1]
Cells(lba, n) == FlattenSeq([i \in 1 .. n |-> Sector(lba + i - 1)])
Fresh(n) == [i \in 1 .. n * SectorSize |-> Junk]

(* What may come of reading n sectors into a buffer: all of them, or those *)
(* before the one that fails.  What is behind the end of the disk always   *)
(* fails; other failures are faults.                                       *)
Outcomes(lba, n, buf) ==
  {[ok |-> k = n, fault |-> k < n /\ lba + n <= Len(disk),
    buf |-> Cells(lba, k) \o SubSeq(buf, k * SectorSize + 1, Len(buf))] :
     k \in {i \in 0 .. n : lba + i <= Len(disk) \/ i = 0}}

Note(part, outcome) == failed' = IF outcome.fault THEN failed \cup {part} ELSE failed

(* Mutant of SectorsToRead: the length is rounded down.                    *)
SectorsToReadDown(bytes) == bytes \div SectorSize

(* sectorsToRead *)
SectorsToRead(bytes) == bytes \div SectorSize + (IF bytes % SectorSize # 0 THEN 1 ELSE 0)

(* An entry's extent is read into a buffer of its own.                     *)
ExtentOutcomes(e) ==
  LET n == SectorsToRead(e.len) IN Outcomes(e.lba, n, Fresh(n))

-----------------------------------------------------------------------------
(* Mounting. *)

(* hasFileSystem, which read_ata calls before createVolume does so again.  *)
(* "CD001" may be found in a buffer that was not filled.                   *)
HasFileSystem(outcome) ==
  IF outcome.ok THEN {outcome.buf[1].kind = "descriptor"} ELSE BOOLEAN

Probe ==
  /\ call.pc = "idle"
  /\ root = NoEntry
  /\ \E r \in Outcomes(FirstDescriptor, 1, Fresh(1)) : \E has \in HasFileSystem(r) :
       call' = IF has THEN [Idle EXCEPT !.pc = "create"] ELSE Idle
  /\ failed' = {}
  /\ UNCHANGED <<disk, root, entry, reader>>

(* createVolume; read_ata uses the volume without a look whether it is     *)
(* nullptr.                                                                *)
CreateVolume ==
  /\ call.pc = "create"
  /\ \E r \in Outcomes(FirstDescriptor, 1, Fresh(1)) : \E has \in HasFileSystem(r) :
       /\ call' = IF has THEN [Idle EXCEPT !.pc = "init", !.lba = FirstDescriptor, !.buf = Fresh(1)]
                  ELSE [Idle EXCEPT !.pc = "nullptr"]
       /\ Note("mount", r)
  /\ UNCHANGED <<disk, root, entry, reader>>

(* Mutant of DescriptorTypes: the terminator is not recognised.            *)
DescriptorTypesOpen(cell) ==
  IF cell.kind = "descriptor" /\ cell.type = "primary" THEN {"primary"} ELSE {"other"}

(* getDescriptorType: what does not begin like a descriptor is of any type. *)
DescriptorTypes(cell) ==
  IF cell.kind = "descriptor" THEN {cell.type} ELSE {"primary", "terminator", "other"}

(* "++lba".  Bound: reads behind the end of the disk are all alike.        *)
NextLba == Min({call.lba + 1, Len(disk)})

(* A round of Volume::init: the buffer keeps what it held if a read fails. *)
InitRound ==
  /\ call.pc = "init"
  /\ \E r \in Outcomes(call.lba, 1, call.buf) : \E type \in DescriptorTypes(r.buf[1]) :
       /\ Note("mount", r)
       /\ \/ /\ type = "primary"
             /\ root' \in IF r.buf[1].kind = "descriptor" THEN {r.buf[1].root} ELSE JunkEntries
             /\ call' = [Idle EXCEPT !.op = "mount"]
          \/ /\ type = "terminator"
             /\ call' = [Idle EXCEPT !.pc = "panic"]
             /\ UNCHANGED root
          \/ /\ type = "other"
             /\ call' = [call EXCEPT !.lba = NextLba, !.buf = r.buf]
             /\ UNCHANGED root
  /\ UNCHANGED <<disk, entry, reader>>

-----------------------------------------------------------------------------
(* Directories. *)

RockRidge == {"PX", "PN", "SL", "NM", "CL", "PL", "RE", "TF", "SF"}

(* findRockRidgeNameEntry and rockRidgeName: the names in the first NM     *)
(* entry, if no signature before it is unknown                             *)
RockRidgeNames(susp) ==
  LET at == SelectInSeq(susp, LAMBDA e : e[1] \in {"NM"} \cup ({e[1]} \ RockRidge))
  IN  IF at > 0 /\ susp[at][1] = "NM" THEN {susp[at][2]} ELSE {}

(* The constructor of DirectoryEntry: the Rock Ridge name, if there is     *)
(* one, or else the ISO name                                               *)
Name(info) ==
  LET names == RockRidgeNames(info.susp)
  IN  IF names = {} THEN info.iso ELSE CHOOSE name \in names : TRUE

(* The records before the one of length 0 that ends the walk. *)
Records(buf) ==
  LET end == SelectInSeq(buf, LAMBDA c : c.kind # "record")
  IN  IF end = 0 THEN buf ELSE SubSeq(buf, 1, end - 1)

(* The walk is not bounded by the length of the directory: without padding *)
(* it leaves the buffer.  (It may then also not end, which is stuttering.) *)
Strays(buf) ==
  LET k == Len(Records(buf)) IN k = Len(buf) \/ buf[k + 1] # Pad

(* Mutant of Search: names are compared without the Rock Ridge entries.    *)
SearchIso(buf, elem) ==
  LET at == SelectInSeq(Records(buf), LAMBDA c : c.iso = elem)
  IN  IF at > 0 THEN {buf[at]} ELSE {NoEntry}

(* The loop of find: the first record of that name. *)
Search(buf, elem) ==
  LET at == SelectInSeq(Records(buf), LAMBDA c : Name(c) = elem)
  IN  IF at > 0 THEN {buf[at]}
      ELSE {NoEntry} \cup (IF Strays(buf) THEN JunkEntries ELSE {})

CallFind(path) ==
  /\ call.pc = "idle"
  /\ root # NoEntry
  /\ call' = [Idle EXCEPT !.pc = "find", !.path = path, !.dir = root]
  /\ failed' = failed \cap {"mount"}
  /\ UNCHANGED <<disk, root, entry, reader>>

(* tokenizer.nextToken(), which is empty when there is none. *)
Element == IF call.path = <<>> THEN <<>> ELSE call.path[call.taken + 1]

(* find in one directory; what it finds on the way is taken for one too.   *)
FindIn ==
  /\ call.pc = "find"
  /\ \E r \in ExtentOutcomes(call.dir) :
     \E e \in IF call.dir.len = 0 THEN {NoEntry} ELSE Search(r.buf, Element) :
       /\ Note("find", r)
       /\ IF e # NoEntry /\ call.taken + 1 < Len(call.path)
          THEN /\ call' = [call EXCEPT !.dir = e, !.taken = @ + 1]
               /\ UNCHANGED entry
          ELSE /\ call' = [Idle EXCEPT !.op = "find", !.path = call.path]
               /\ entry' = e
  /\ UNCHANGED <<disk, root, reader>>

(* fixEntryName: the version, then a dot, is taken off the end. *)
FixEntryName(name) ==
  LET Without(n, part) == IF Len(n) > 1 /\ Last(n) = part THEN Front(n) ELSE n
  IN  Without(Without(name, ";1"), ".")

Dot == <<>>                               \* the name is one 0 byte
DotDot == <<"^A">>                        \* the name is one 1 byte

(* Mutant of ListedName: the Rock Ridge entries are not looked at.         *)
ListedNameIso(info) ==
  CASE info.iso = Dot -> <<".">>
    [] info.iso = DotDot -> <<"..">>
    [] OTHER -> FixEntryName(info.iso)

ListedName(info) ==
  CASE info.iso = Dot -> <<".">>
    [] info.iso = DotDot -> <<"..">>
    [] OTHER -> Name([info EXCEPT !.iso = FixEntryName(@)])

(* The loop of readdir.  (Names from beyond the buffer are left out.)      *)
Listing(buf) == LET all == Records(buf) IN [i \in 1 .. Len(all) |-> ListedName(all[i])]

(* readdir; "not a directory..." returns Nothing. *)
Readdir ==
  /\ call.pc = "idle"
  /\ entry # NoEntry /\ entry.dir
  /\ \E r \in ExtentOutcomes(entry) :
       /\ call' = [Idle EXCEPT !.op = "readdir",
                               !.names = IF entry.len = 0 THEN <<>> ELSE Listing(r.buf)]
       /\ failed' = IF r.ok THEN failed \ {"open"} ELSE failed \cup {"open"}
  /\ UNCHANGED <<disk, root, entry, reader>>

-----------------------------------------------------------------------------
(* Reading files. *)

(* A FileReader of the entry's fileStream(). *)
Open(r) == IF entry.dir THEN NewReader(NoStream, TRUE)
           ELSE NewReader(Stream(entry.len, r.buf), FALSE)

Opened(r) == failed' = IF entry.dir \/ r.ok THEN failed \ {"open"} ELSE failed \cup {"open"}

(* isElf, which reads the header and nothing else. *)
IsElf ==
  /\ call.pc = "idle"
  /\ entry # NoEntry /\ ~entry.dir
  /\ \E r \in ExtentOutcomes(entry) :
       LET rd == ReadUpTo(Open(r), HeaderSize - 1)
       IN  /\ reader' = rd
           /\ Opened(r)
           /\ call' = [Idle EXCEPT !.op = "read", !.range = <<0, HeaderSize>>,
                                   !.bytes = BytesInRange(rd, 0, HeaderSize)]
  /\ UNCHANGED <<disk, root, entry>>

(* The constructor of Executable: the file is opened, ... *)
ConstructExecutable ==
  /\ call.pc = "idle"
  /\ entry # NoEntry
  /\ \E r \in IF entry.dir THEN {[ok |-> TRUE, buf |-> <<>>]} ELSE ExtentOutcomes(entry) :
       reader' = Open(r) /\ Opened(r)
  /\ call' = [Idle EXCEPT !.pc = "readAll"]
  /\ UNCHANGED <<disk, root, entry>>

(* ... readAll reads it byte by byte, ... *)
ReadAll ==
  /\ call.pc = "readAll"
  /\ reader' = ReadUpTo(reader, call.pos)
  /\ call' = IF IsEOF(reader', call.pos) THEN [Idle EXCEPT !.pc = "load"]
             ELSE [call EXCEPT !.pos = @ + 1]
  /\ UNCHANGED <<disk, root, entry, failed>>

(* ... and headers, tables and segments are read from the cache.           *)
ReadObject(range) ==
  /\ call.pc = "load"
  /\ reader' = ReadUpTo(reader, range[1] + range[2] - 1)
  /\ call' = [call EXCEPT !.op = "read", !.range = range,
                          !.bytes = BytesInRange(reader', range[1], range[2])]
  /\ UNCHANGED <<disk, root, entry, failed>>

Constructed ==
  /\ call.pc = "load"
  /\ call' = Idle
  /\ UNCHANGED <<disk, root, entry, reader, failed>>

Next ==
  \/ Probe \/ CreateVolume \/ InitRound
  \/ FindIn \/ Readdir \/ IsElf
  \/ ConstructExecutable \/ ReadAll \/ Constructed
  \/ \E path \in Paths : CallFind(path)
  \/ \E range \in Ranges : ReadObject(range)

(* The processor goes on with a call. *)
Spec == Init /\ [][Next]_vars /\ WF_vars(InitRound)

-----------------------------------------------------------------------------

(* What is on the disk, with no regard to the code. *)

Contents == FlattenSeq(disk)

ExtentOf(e) == SubSeq(Contents, e.lba * SectorSize + 1, e.lba * SectorSize + e.len)

Children(d) == {c \in ToSet(ExtentOf(d)) : c.kind = "record"}

Roots == {c.root : c \in {x \in ToSet(Contents) : x.kind = "descriptor" /\ x.type = "primary"}}

(* The entries that the first k parts of a path of Rock Ridge or ISO names *)
(* lead to.                                                                *)
Reached(path, k) ==
  LET after[n \in 0 .. Len(path)] ==
        IF n = 0 THEN Roots
        ELSE {c \in UNION {Children(d) : d \in {x \in after[n - 1] : x.dir}} : Name(c) = path[n]}
  IN  after[k]

(* A directory the walk through its records is right for: it lies on the   *)
(* disk, there is no padding between records, and there is some behind     *)
(* them.  Others are a directory of several sectors, one that fills its    *)
(* last sector, a file.                                                    *)
Orderly(d) ==
  LET cells == ExtentOf(d)
  IN  /\ d.dir
      /\ d.lba * SectorSize + d.len <= Len(Contents)
      /\ \E k \in 0 .. d.len - 1 :
           \A i \in 1 .. d.len : IF i <= k THEN cells[i].kind = "record" ELSE cells[i] = Pad

(* Its names are told apart, and one of them is its own.                   *)
Named(d) ==
  /\ \A c, e \in Children(d) : Name(c) = Name(e) => c = e
  /\ \E c \in Children(d) : Name(c) = Dot /\ <<c.lba, c.len, c.dir>> = <<d.lba, d.len, d.dir>>

(* The volume's descriptors end with a terminator, and there is only one   *)
(* root directory.                                                         *)
WellFormed ==
  /\ \E last \in FirstDescriptor + 1 .. Len(disk) :
       \A i \in FirstDescriptor + 1 .. last :
         disk[i][1].kind = "descriptor" /\ (disk[i][1].type = "terminator" <=> i = last)
  /\ \A r, q \in Roots : r = q

(* Types of the state.  Entries come from the disk, or from memory that    *)
(* was not written; the cache of the reader is not overrun.                *)
TypeOK ==
  /\ disk \in Disks
  /\ {root, entry, call.dir} \subseteq
       {NoEntry} \cup JunkEntries \cup Roots \cup {c \in ToSet(Contents) : c.kind = "record"}
  /\ failed \subseteq {"mount", "find", "open"}
  /\ call.pc \in {"idle", "create", "nullptr", "init", "panic", "find", "readAll", "load"}
  /\ call.lba \in 0 .. Len(disk)
  /\ Extent(reader) <= reader.cap

(* DirectoryEntry.hpp on find: "The DirectoryEntry corresponding to that   *)
(* path, or nullptr if no such thing exists", for a well-formed volume     *)
(* that was mounted and orderly directories that were read, both without   *)
(* error; the empty path is the root, found as the record named by a 0     *)
(* byte.                                                                   *)
FindIsLookup ==
  LET path    == call.path
      dirs    == (UNION {Reached(path, k) : k \in 0 .. Len(path) - 1}) \cup Roots
      correct == {<<e.lba, e.len, e.dir>> : e \in Reached(path, Len(path))}
  IN  (/\ call.op = "find" /\ failed = {}
       /\ WellFormed /\ \A d \in dirs : Orderly(d) /\ Named(d)) =>
        IF correct = {} THEN entry = NoEntry
        ELSE entry # NoEntry /\ <<entry.lba, entry.len, entry.dir>> \in correct

(* readdir and find agree on an orderly directory: every name that is      *)
(* listed, but for "." and "..", leads to an entry and the other way       *)
(* round, if the entries have Rock Ridge names.  (Of ISO names readdir     *)
(* takes off the version, and find does not.)                              *)
ListedCanBeFound ==
  LET named == {c \in Children(entry) : c.iso \notin {Dot, DotDot}}
  IN  (/\ call.op = "readdir" /\ "open" \notin failed
       /\ Orderly(entry)
       /\ \A c \in named : Name(c) # c.iso) =>
        ToSet(call.names) \ {<<".">>, <<"..">>} = {Name(c) : c \in named} \ {<<".">>, <<"..">>}

(* FileReader.hpp on read: what the loader reads of a file, by isElf as by *)
(* the constructor, are the bytes on the disk at that offset, up to the    *)
(* end of the file, however the cache grew and whatever was read before.   *)
BytesAsOnDisk ==
  /\ TypeOK
  /\ (call.op = "read" /\ "open" \notin failed) =>
    call.bytes = IF entry.dir THEN <<>>
                 ELSE SubSeq(ExtentOf(entry), call.range[1] + 1,
                             Min({call.range[1] + call.range[2], entry.len}))

(* Volume::init ends, with a root directory or with a panic, when the      *)
(* reads of the descriptors succeed.                                       *)
MountEnds == (call.pc = "init") ~> (call.pc # "init" \/ "mount" \in failed)

=============================================================================
