--------------------------- MODULE Iso9660Proofs ----------------------------
(***************************************************************************)
(* Proofs about files on a CD-ROM, for every disk, sector size, path and   *)
(* growth of the cache: what the loader reads of a file are its bytes,     *)
(* readdir lists the names under which find looks, and find returns the    *)
(* entry a path leads to.                                                  *)
(***************************************************************************)
EXTENDS Iso9660, WellFoundedInduction, SequenceTheorems, TLAPS

(* A set of numbers has a least one: what is not so has a first case.      *)
LEMMA Least ==
  ASSUME NEW T \in SUBSET Nat, T # {}
  PROVE  \E n \in T : \A k \in T : n <= k
  <1>1. IsWellFoundedOn(OpToRel(<, Nat), Nat)
    BY NatLessThanWellFounded
  <1>2. PICK n \in T : \A k \in T : ~(<<k, n>> \in OpToRel(<, Nat))
    BY <1>1, WFMin
  <1>3. ASSUME NEW k \in T PROVE n <= k
    <2>1. k \in Nat /\ n \in Nat
      OBVIOUS
    <2>2. <<k, n>> \notin OpToRel(<, Nat)
      BY <1>2
    <2>3. ~(k < n)
      BY <2>1, <2>2 DEF OpToRel
    <2>4. QED
      BY <2>1, <2>3
  <1>4. QED
    BY <1>3

-----------------------------------------------------------------------------
(* Sectors one behind the other. *)

LEMMA Sizes ==
  /\ SectorSize \in Nat /\ SectorSize >= 1
  /\ HeaderSize \in Nat /\ HeaderSize >= 1 /\ HeaderSize <= InitialCapacity
  /\ InitialCapacity \in Nat /\ InitialCapacity >= 1
  /\ FirstDescriptor \in Nat
  BY Iso9660Assumption, FileReaderAssumption

(* The first cell of the n-th sector has n * SectorSize before it.         *)
LEMMA Multiples ==
  ASSUME NEW n \in Nat, NEW d \in Nat
  PROVE  /\ n * SectorSize \in Nat /\ d * SectorSize \in Nat
         /\ (n + d) * SectorSize = n * SectorSize + d * SectorSize
         /\ (n + 1) * SectorSize = n * SectorSize + SectorSize
         /\ 0 * SectorSize = 0 /\ 1 * SectorSize = SectorSize
  BY Sizes

LEMMA Before ==
  ASSUME NEW n \in Nat, NEW m \in Nat, n < m
  PROVE  n * SectorSize + SectorSize <= m * SectorSize
  <1>1. PICK d \in Nat : m = (n + 1) + d
    <2>1. m - n - 1 \in Nat /\ m = (n + 1) + (m - n - 1)
      OBVIOUS
    <2>2. QED
      BY <2>1
  <1>2. ((n + 1) + d) * SectorSize = (n + 1) * SectorSize + d * SectorSize /\ d * SectorSize \in Nat
    BY Multiples
  <1>3. (n + 1) * SectorSize = n * SectorSize + SectorSize /\ n * SectorSize \in Nat
    BY Multiples
  <1>4. QED
    BY <1>1, <1>2, <1>3, Sizes

(* Every position lies in one sector. *)
LEMMA Places ==
  ASSUME NEW n \in Nat, NEW m \in 1 .. n * SectorSize
  PROVE  \E i \in 1 .. n, j \in 1 .. SectorSize : m = (i - 1) * SectorSize + j
  <1>0. n * SectorSize \in Nat
    BY Multiples
  <1>1. PICK q \in Nat : q = (m - 1) \div SectorSize
    BY <1>0, Sizes
  <1>2. PICK r \in Nat : r = (m - 1) % SectorSize
    BY <1>0, Sizes
  <1>3. m - 1 = SectorSize * q + r /\ r < SectorSize
    BY <1>0, <1>1, <1>2, Sizes
  <1>4. SectorSize * q = q * SectorSize /\ q * SectorSize \in Nat
    BY Sizes
  <1>5. q < n
    <2>1. SUFFICES ASSUME ~(q < n) PROVE FALSE
      OBVIOUS
    <2>2. n * SectorSize <= q * SectorSize
      <3>1. CASE q = n
        BY <1>0, <3>1
      <3>2. CASE n < q
        <4>1. n * SectorSize + SectorSize <= q * SectorSize
          BY <3>2, Before
        <4>2. QED
          BY <1>0, <1>4, <4>1, Sizes
      <3>3. QED
        BY <2>1, <3>1, <3>2
    <2>3. QED
      BY <1>0, <1>3, <1>4, <2>2
  <1>6. /\ q + 1 \in 1 .. n /\ r + 1 \in 1 .. SectorSize
        /\ (q + 1) - 1 = q /\ m = q * SectorSize + (r + 1)
    BY <1>3, <1>4, <1>5, Sizes
  <1>7. QED
    BY <1>6

LEMMA PlaceIsIn ==
  ASSUME NEW n \in Nat, NEW i \in 1 .. n, NEW j \in 1 .. SectorSize
  PROVE  (i - 1) * SectorSize \in Nat /\ (i - 1) * SectorSize + j \in 1 .. n * SectorSize
  <1>1. i - 1 \in Nat /\ i - 1 < n
    OBVIOUS
  <1>2. (i - 1) * SectorSize + SectorSize <= n * SectorSize /\ (i - 1) * SectorSize \in Nat /\ n * SectorSize \in Nat
    BY <1>1, Before, Multiples
  <1>3. QED
    BY <1>2, Sizes

(* f is the first k of the sectors s, of cells in S, one behind the other. *)
Lays(f, s, k, S) ==
  /\ f \in [1 .. k * SectorSize -> S]
  /\ \A i \in 1 .. k, j \in 1 .. SectorSize : f[(i - 1) * SectorSize + j] = s[i][j]

LEMMA LaysOne ==
  ASSUME NEW f, NEW s, NEW k \in Nat, NEW S, Lays(f, s, k, S), NEW g, Lays(g, s, k, S)
  PROVE  f = g
  <1>0. PICK D : D = 1 .. k * SectorSize
    OBVIOUS
  <1>1. ASSUME NEW m \in D PROVE f[m] = g[m]
    <2>1. PICK i \in 1 .. k, j \in 1 .. SectorSize : m = (i - 1) * SectorSize + j
      BY <1>0, Places
    <2>2. QED
      BY <2>1 DEF Lays
  <1>2. f \in [D -> S] /\ g \in [D -> S]
    BY <1>0 DEF Lays
  <1>3. QED
    BY ONLY <1>1, <1>2

LEMMA LaysFirst ==
  ASSUME NEW S, NEW s, s[1] \in [1 .. SectorSize -> S]
  PROVE  Lays(s[1], s, 1, S)
  <1>1. 1 * SectorSize = SectorSize /\ (1 - 1) * SectorSize = 0
    BY Sizes
  <1>2. ASSUME NEW i \in 1 .. 1, NEW j \in 1 .. SectorSize PROVE s[1][(i - 1) * SectorSize + j] = s[i][j]
    <2>1. i = 1 /\ 0 + j = j
      BY Sizes
    <2>2. QED
      BY <1>1, <2>1
  <1>3. QED
    BY <1>1, <1>2 DEF Lays

LEMMA LaysNext ==
  ASSUME NEW S, NEW s, NEW k \in Nat, NEW f, Lays(f, s, k, S), s[k + 1] \in [1 .. SectorSize -> S]
  PROVE  Lays(f \o s[k + 1], s, k + 1, S)
  <1>0. PICK t : t = s[k + 1]
    OBVIOUS
  <1>1. PICK a \in Nat : a = k * SectorSize
    BY Multiples
  <1>2. (k + 1) * SectorSize = a + SectorSize
    BY <1>1, Multiples
  <1>3. f \in [1 .. a -> S] /\ t \in [1 .. SectorSize -> S]
    BY <1>0, <1>1 DEF Lays
  <1>4. f \in Seq(S) /\ t \in Seq(S) /\ Len(f) = a /\ Len(t) = SectorSize
    BY <1>3, Sizes
  <1>5. PICK h : h = f \o t
    OBVIOUS
  <1>6. /\ h \in Seq(S) /\ Len(h) = a + SectorSize
        /\ \A m \in 1 .. a + SectorSize : h[m] = IF m <= a THEN f[m] ELSE t[m - a]
    BY <1>4, <1>5, ConcatProperties
  <1>7. h \in [1 .. a + SectorSize -> S]
    BY <1>6, LenProperties
  <1>8. ASSUME NEW i \in 1 .. k + 1, NEW j \in 1 .. SectorSize
        PROVE  h[(i - 1) * SectorSize + j] = s[i][j]
    <2>1. PICK b \in Nat : b = (i - 1) * SectorSize
      BY Multiples
    <2>2. CASE i = k + 1
      <3>1. b = a
        <4>1. i - 1 = k
          BY <2>2
        <4>2. QED
          BY <1>1, <2>1, <4>1
      <3>2. b + j \in 1 .. a + SectorSize /\ ~(b + j <= a) /\ (b + j) - a = j
        BY <3>1, Sizes
      <3>3. QED
        BY <1>0, <1>6, <2>1, <2>2, <3>2
    <2>3. CASE i \in 1 .. k
      <3>1. b + j \in 1 .. a
        BY <1>1, <2>1, <2>3, PlaceIsIn
      <3>2. f[b + j] = s[i][j]
        BY <2>1, <2>3 DEF Lays
      <3>3. b + j \in 1 .. a + SectorSize /\ b + j <= a
        BY <3>1, Sizes
      <3>4. QED
        BY <1>6, <2>1, <3>2, <3>3
    <2>4. QED
      BY <2>2, <2>3
  <1>9. QED
    BY <1>0, <1>2, <1>5, <1>7, <1>8 DEF Lays

Sheaf(n, S) == [1 .. n -> [1 .. SectorSize -> S]]

LEMMA LaysAll ==
  ASSUME NEW S, NEW n \in Nat, NEW s \in Sheaf(n, S), NEW k \in 1 .. n
  PROVE  \E f : Lays(f, s, k, S)
  <1> DEFINE Failing == {m \in 1 .. n : ~\E f : Lays(f, s, m, S)}
  <1>1. SUFFICES ASSUME Failing # {} PROVE FALSE
    OBVIOUS
  <1>2. PICK m \in Failing : \A l \in Failing : m <= l
    <2>1. Failing \in SUBSET Nat
      OBVIOUS
    <2>2. QED
      BY <1>1, <2>1, Least
  <1>3. \A i \in 1 .. n : s[i] \in [1 .. SectorSize -> S]
    BY DEF Sheaf
  <1>4. CASE m = 1
    BY <1>2, <1>3, <1>4, LaysFirst
  <1>5. CASE m # 1
    <2>1. PICK l : l = m - 1
      OBVIOUS
    <2>2. l \in 1 .. n /\ l \in Nat /\ m = l + 1 /\ l < m
      BY <1>5, <2>1
    <2>3. l \notin Failing
      BY <1>2, <2>2
    <2>4. PICK f : Lays(f, s, l, S)
      BY <2>2, <2>3
    <2>5. Lays(f \o s[l + 1], s, l + 1, S)
      BY <1>3, <2>2, <2>4, LaysNext
    <2>6. QED
      BY <1>2, <2>2, <2>5
  <1>6. QED
    BY <1>4, <1>5

FlatStep(s, g, i) == IF i = 1 THEN s[i] ELSE g[i - 1] \o s[i]
IsFlat(s, n, g) == g = [i \in 1 .. n |-> FlatStep(s, g, i)]

LEMMA FlatExists ==
  ASSUME NEW S, NEW n \in Nat, NEW s \in Sheaf(n, S)
  PROVE  \E g : IsFlat(s, n, g)
  <1>1. PICK g : g = [k \in 1 .. n |-> CHOOSE f : Lays(f, s, k, S)]
    OBVIOUS
  <1>2. ASSUME NEW k \in 1 .. n PROVE Lays(g[k], s, k, S)
    <2>1. \E f : Lays(f, s, k, S)
      BY LaysAll
    <2>2. Lays(CHOOSE f : Lays(f, s, k, S), s, k, S)
      BY <2>1, Zenon
    <2>3. g[k] = CHOOSE f : Lays(f, s, k, S)
      BY <1>1
    <2>4. QED
      BY <2>2, <2>3
  <1>3. \A i \in 1 .. n : s[i] \in [1 .. SectorSize -> S]
    BY DEF Sheaf
  <1>4. ASSUME NEW k \in 1 .. n PROVE g[k] = FlatStep(s, g, k)
    <2>1. CASE k = 1
      <3>1. Lays(s[1], s, 1, S) /\ Lays(g[1], s, 1, S)
        BY <1>2, <1>3, <2>1, LaysFirst
      <3>2. s[1] = g[1]
        <4>1. PICK one \in Nat : one = 1
          OBVIOUS
        <4>2. QED
          BY <3>1, <4>1, LaysOne
      <3>3. QED
        BY <2>1, <3>2 DEF FlatStep
    <2>2. CASE k # 1
      <3>1. PICK l : l = k - 1
        OBVIOUS
      <3>2. l \in 1 .. n /\ l \in Nat /\ k = l + 1 /\ k \in Nat
        BY <2>2, <3>1
      <3>3. Lays(g[l], s, l, S)
        BY <1>2, <3>2
      <3>4. Lays(g[l] \o s[k], s, k, S)
        BY <1>3, <3>2, <3>3, LaysNext
      <3>5. g[l] \o s[k] = g[k]
        <4>1. PICK h : h = g[l] \o s[k]
          OBVIOUS
        <4>2. Lays(h, s, k, S) /\ Lays(g[k], s, k, S)
          BY <1>2, <3>4, <4>1
        <4>3. h = g[k]
          BY <3>2, <4>2, LaysOne
        <4>4. QED
          BY <4>1, <4>3
      <3>6. QED
        BY <2>2, <3>1, <3>5 DEF FlatStep
    <2>3. QED
      BY <2>1, <2>2
  <1>5. g = [i \in 1 .. n |-> FlatStep(s, g, i)]
    BY <1>1, <1>4
  <1>6. QED
    BY <1>5 DEF IsFlat

LEMMA FlatLays ==
  ASSUME NEW S, NEW n \in Nat, NEW s \in Sheaf(n, S), NEW g, IsFlat(s, n, g), NEW k \in 1 .. n
  PROVE  Lays(g[k], s, k, S)
  <1> DEFINE Failing == {m \in 1 .. n : ~Lays(g[m], s, m, S)}
  <1>1. SUFFICES ASSUME Failing # {} PROVE FALSE
    OBVIOUS
  <1>2. PICK m \in Failing : \A l \in Failing : m <= l
    <2>1. Failing \in SUBSET Nat
      OBVIOUS
    <2>2. QED
      BY <1>1, <2>1, Least
  <1>3. \A i \in 1 .. n : s[i] \in [1 .. SectorSize -> S]
    BY DEF Sheaf
  <1>4. \A i \in 1 .. n : g[i] = FlatStep(s, g, i)
    BY DEF IsFlat
  <1>5. CASE m = 1
    <2>1. Lays(s[1], s, 1, S) /\ g[1] = s[1]
      BY <1>2, <1>3, <1>4, <1>5, LaysFirst DEF FlatStep
    <2>2. QED
      BY <1>2, <1>5, <2>1
  <1>6. CASE m # 1
    <2>1. PICK l : l = m - 1
      OBVIOUS
    <2>2. l \in 1 .. n /\ l \in Nat /\ m = l + 1 /\ l < m
      BY <1>6, <2>1
    <2>3. Lays(g[l], s, l, S)
      BY <1>2, <2>2
    <2>4. Lays(g[l] \o s[l + 1], s, l + 1, S)
      BY <1>3, <2>2, <2>3, LaysNext
    <2>5. g[m] = g[l] \o s[m]
      BY <1>2, <1>4, <1>6, <2>1 DEF FlatStep
    <2>6. QED
      BY <1>2, <2>2, <2>4, <2>5
  <1>7. QED
    BY <1>5, <1>6

LEMMA Flattened ==
  ASSUME NEW S, NEW n \in Nat, NEW s \in Sheaf(n, S)
  PROVE  Lays(FlattenSeq(s), s, n, S)
  <1>1. Len(s) = n
    BY DEF Sheaf
  <1>2. CASE n = 0
    <2>1. FlattenSeq(s) = s
      BY <1>1, <1>2, Zenon DEF FlattenSeq
    <2>2. n * SectorSize = 0
      BY <1>2, Sizes
    <2>3. s \in [1 .. 0 -> [1 .. SectorSize -> S]]
      BY <1>2 DEF Sheaf
    <2>4. 1 .. 0 = {}
      OBVIOUS
    <2>5. s \in [1 .. 0 -> S]
      BY <2>3, <2>4
    <2>6. QED
      BY <1>2, <2>1, <2>2, <2>4, <2>5 DEF Lays
  <1>3. CASE n # 0
    <2>1. FlattenSeq(s) = (CHOOSE g : IsFlat(s, Len(s), g))[Len(s)]
      BY <1>1, <1>3, Zenon DEF FlattenSeq, IsFlat, FlatStep
    <2>2. PICK g : g = CHOOSE e : IsFlat(s, n, e)
      OBVIOUS
    <2>3. IsFlat(s, n, g)
      BY <2>2, FlatExists, Zenon
    <2>4. FlattenSeq(s) = g[n]
      BY <1>1, <2>1, <2>2
    <2>5. n \in 1 .. n
      BY <1>3
    <2>6. QED
      BY <2>3, <2>4, <2>5, FlatLays
  <1>4. QED
    BY <1>2, <1>3

-----------------------------------------------------------------------------
(* The disk, and what reads of it give. *)

LEMMA Piece ==
  ASSUME NEW s, NEW a \in Nat, NEW b \in Int
  PROVE  SubSeq(s, a + 1, b) = [i \in 1 .. b - a |-> s[a + i]]
  <1>1. SubSeq(s, a + 1, b) = [i \in 1 .. (1 + b - (a + 1)) |-> s[i + (a + 1) - 1]]
    OBVIOUS
  <1>2. 1 + b - (a + 1) = b - a
    OBVIOUS
  <1>3. \A i \in 1 .. b - a : i + (a + 1) - 1 = a + i
    OBVIOUS
  <1>4. QED
    BY <1>1, <1>2, <1>3

CellsOf(d) == UNION {ToSet(sector) : sector \in ToSet(d)}

LEMMA DiskIs ==
  ASSUME NEW d \in Disks
  PROVE  /\ Len(d) \in Nat /\ FirstDescriptor < Len(d)
         /\ d \in Sheaf(Len(d), CellsOf(d))
         /\ \A c \in CellsOf(d) : IsCell(c)
  <1>1. /\ d \in Seq(ToSet(d)) /\ FirstDescriptor < Len(d)
        /\ \A sector \in ToSet(d) : /\ sector \in [1 .. SectorSize -> ToSet(sector)]
                                    /\ \A c \in ToSet(sector) : IsCell(c)
    BY Iso9660Assumption
  <1>2. Len(d) \in Nat /\ d \in [1 .. Len(d) -> ToSet(d)]
    BY <1>1, LenProperties
  <1>3. ASSUME NEW sector \in ToSet(d) PROVE sector \in [1 .. SectorSize -> CellsOf(d)]
    <2>1. \A c \in ToSet(sector) : c \in CellsOf(d)
      BY DEF CellsOf
    <2>2. PICK T : T = ToSet(sector)
      OBVIOUS
    <2>3. sector \in [1 .. SectorSize -> T] /\ T \subseteq CellsOf(d)
      BY <1>1, <2>1, <2>2
    <2>4. QED
      BY ONLY <2>3
  <1>4. d \in Sheaf(Len(d), CellsOf(d))
    <2>1. PICK T : T = ToSet(d)
      OBVIOUS
    <2>2. PICK U : U = [1 .. SectorSize -> CellsOf(d)]
      OBVIOUS
    <2>3. d \in [1 .. Len(d) -> T] /\ T \subseteq U
      BY <1>2, <1>3, <2>1, <2>2
    <2>4. d \in [1 .. Len(d) -> U]
      BY ONLY <2>3
    <2>5. QED
      BY <2>2, <2>4 DEF Sheaf
  <1>5. \A c \in CellsOf(d) : IsCell(c)
    BY <1>1 DEF CellsOf
  <1>6. QED
    BY <1>1, <1>2, <1>4, <1>5

LEMMA SectorsAre ==
  ASSUME NEW d \in Disks, NEW i \in 1 .. Len(d)
  PROVE  d[i] \in [1 .. SectorSize -> CellsOf(d)]
  BY DiskIs DEF Sheaf

Held == CellsOf(disk)

LEMMA ContentsAre ==
  ASSUME disk \in Disks
  PROVE  Lays(Contents, disk, Len(disk), Held)
  BY DiskIs, Flattened DEF Contents, Held

LEMMA ContentsLen ==
  ASSUME disk \in Disks
  PROVE  /\ Len(disk) \in Nat /\ Len(disk) * SectorSize \in Nat
         /\ Contents \in Seq(Held) /\ Len(Contents) = Len(disk) * SectorSize
         /\ \A m \in 1 .. Len(disk) * SectorSize : Contents[m] \in Held
  <1>1. Len(disk) \in Nat /\ Len(disk) * SectorSize \in Nat
    BY DiskIs, Multiples
  <1>2. Contents \in [1 .. Len(disk) * SectorSize -> Held]
    BY ContentsAre DEF Lays
  <1>3. PICK n \in Nat : n = Len(disk) * SectorSize
    BY <1>1
  <1>4. Contents \in [1 .. n -> Held]
    BY <1>2, <1>3
  <1>5. Contents \in Seq(Held) /\ Len(Contents) = n
    BY <1>4
  <1>6. QED
    BY <1>1, <1>2, <1>3, <1>5

(* Every cell of a sector is one of the contents, and the other way round. *)
LEMMA ContentsSet ==
  ASSUME disk \in Disks
  PROVE  ToSet(Contents) = Held
  <1>0. /\ Lays(Contents, disk, Len(disk), Held) /\ Len(disk) \in Nat
        /\ Contents \in [1 .. Len(disk) * SectorSize -> Held]
    BY ContentsAre, ContentsLen DEF Lays
  <1>1. ToSet(Contents) \subseteq Held
    <2>1. PICK D : D = 1 .. Len(disk) * SectorSize
      OBVIOUS
    <2>2. Contents \in [D -> Held]
      BY <1>0, <2>1
    <2>3. QED
      BY <2>2 DEF ToSet
  <1>2. ASSUME NEW c \in Held PROVE c \in ToSet(Contents)
    <2>1. PICK sector \in ToSet(disk) : c \in ToSet(sector)
      BY <1>2 DEF Held, CellsOf
    <2>2. disk \in Sheaf(Len(disk), Held)
      BY DiskIs DEF Held
    <2>3. PICK i \in 1 .. Len(disk) : sector = disk[i]
      BY <2>1, <2>2 DEF ToSet, Sheaf
    <2>4. disk[i] \in [1 .. SectorSize -> Held]
      BY SectorsAre DEF Held
    <2>5. PICK j \in 1 .. SectorSize : c = disk[i][j]
      BY <2>1, <2>3, <2>4 DEF ToSet
    <2>6. PICK m : m = (i - 1) * SectorSize + j
      OBVIOUS
    <2>7. m \in 1 .. Len(disk) * SectorSize /\ Contents[m] = c
      BY <1>0, <2>5, <2>6, PlaceIsIn DEF Lays
    <2>8. m \in DOMAIN Contents
      BY <1>0, <2>7
    <2>9. QED
      BY <2>7, <2>8 DEF ToSet
  <1>3. QED
    BY <1>1, <1>2

(* The contents of k sectors. *)
LEMMA CellsAre ==
  ASSUME disk \in Disks, NEW lba \in Nat, NEW k \in Nat, lba + k <= Len(disk) \/ k = 0
  PROVE  /\ Cells(lba, k) \in [1 .. k * SectorSize -> Held]
         /\ \A m \in 1 .. k * SectorSize : Cells(lba, k)[m] = Contents[lba * SectorSize + m]
  <1>1. PICK s : s = [i \in 1 .. k |-> Sector(lba + i - 1)]
    OBVIOUS
  <1>2. ASSUME NEW i \in 1 .. k PROVE lba + i \in 1 .. Len(disk) /\ s[i] = disk[lba + i] /\ s[i] \in [1 .. SectorSize -> Held]
    <2>1. Len(disk) \in Nat
      BY ContentsLen
    <2>2. lba + i \in 1 .. Len(disk) /\ (lba + i - 1) + 1 = lba + i
      BY <2>1
    <2>3. s[i] = disk[lba + i]
      BY <1>1, <2>2 DEF Sector
    <2>4. QED
      BY <2>2, <2>3, SectorsAre DEF Held
  <1>3. s \in Sheaf(k, Held)
    BY <1>1, <1>2 DEF Sheaf
  <1>4. PICK f : f = Cells(lba, k)
    OBVIOUS
  <1>5. Lays(f, s, k, Held)
    BY <1>1, <1>3, <1>4, Flattened DEF Cells
  <1>6. ASSUME NEW m \in 1 .. k * SectorSize PROVE f[m] = Contents[lba * SectorSize + m]
    <2>1. PICK i \in 1 .. k, j \in 1 .. SectorSize : m = (i - 1) * SectorSize + j
      BY Places
    <2>2. f[m] = disk[lba + i][j]
      BY <1>2, <1>5, <2>1 DEF Lays
    <2>3. PICK h \in Nat : h = lba + i
      BY <1>2
    <2>4. Contents[(h - 1) * SectorSize + j] = disk[h][j]
      BY <1>2, <2>3, ContentsAre DEF Lays
    <2>5. h - 1 = lba + (i - 1) /\ i - 1 \in Nat
      BY <2>3
    <2>6. (lba + (i - 1)) * SectorSize = lba * SectorSize + (i - 1) * SectorSize
      BY <2>5, Multiples
    <2>7. lba * SectorSize \in Nat /\ (i - 1) * SectorSize \in Nat
      BY <2>5, Multiples
    <2>8. (h - 1) * SectorSize + j = lba * SectorSize + m
      BY <2>1, <2>5, <2>6, <2>7
    <2>9. QED
      BY <2>2, <2>3, <2>4, <2>8
  <1>7. QED
    BY <1>4, <1>5, <1>6 DEF Lays

Memory == Held \cup {Junk}

IsOutcome(r, lba, n) ==
  /\ r.ok \in BOOLEAN /\ r.fault \in BOOLEAN
  /\ r.buf \in [1 .. n * SectorSize -> Memory]
  /\ r.ok => lba + n <= Len(disk) \/ n = 0
  /\ r.ok => \A m \in 1 .. n * SectorSize : r.buf[m] = Contents[lba * SectorSize + m]
  /\ (~r.fault /\ lba + n <= Len(disk)) => r.ok

LEMMA OutcomesAre ==
  ASSUME disk \in Disks, NEW lba \in Nat, NEW n \in Nat, NEW buf \in [1 .. n * SectorSize -> Memory],
         NEW r \in Outcomes(lba, n, buf)
  PROVE  IsOutcome(r, lba, n)
  <1>0. Len(disk) \in Nat
    BY ContentsLen
  <1>1. PICK k \in 0 .. n :
          /\ lba + k <= Len(disk) \/ k = 0
          /\ r = [ok |-> k = n, fault |-> k < n /\ lba + n <= Len(disk),
                  buf |-> Cells(lba, k) \o SubSeq(buf, k * SectorSize + 1, Len(buf))]
    BY DEF Outcomes
  <1>2. PICK a \in Nat, b \in Nat : a = k * SectorSize /\ b = n * SectorSize /\ a <= b
    <2>1. k \in Nat /\ k * SectorSize \in Nat /\ n * SectorSize \in Nat
      <3>1. k \in Nat
        OBVIOUS
      <3>2. QED
        BY <3>1, Multiples
    <2>2. k * SectorSize <= n * SectorSize
      <3>1. CASE k = n
        BY <2>1, <3>1
      <3>2. CASE k < n
        <4>1. k * SectorSize + SectorSize <= n * SectorSize
          BY <2>1, <3>2, Before
        <4>2. QED
          BY <2>1, <4>1, Sizes
      <3>3. QED
        BY <3>1, <3>2
    <2>3. QED
      BY <2>1, <2>2
  <1>3. PICK c : c = Cells(lba, k)
    OBVIOUS
  <1>4. /\ c \in [1 .. a -> Held]
        /\ \A m \in 1 .. a : c[m] = Contents[lba * SectorSize + m]
    BY <1>1, <1>2, <1>3, CellsAre
  <1>5. buf \in [1 .. b -> Memory] /\ Len(buf) = b
    BY <1>2
  <1>6. PICK t : t = SubSeq(buf, a + 1, b)
    OBVIOUS
  <1>7. t = [i \in 1 .. b - a |-> buf[a + i]]
    BY <1>6, Piece
  <1>8. t \in [1 .. b - a -> Memory] /\ b - a \in Nat
    BY <1>2, <1>5, <1>7
  <1>9. c \in [1 .. a -> Memory]
    BY <1>4 DEF Memory
  <1>10. c \in Seq(Memory) /\ t \in Seq(Memory) /\ Len(c) = a /\ Len(t) = b - a
    BY <1>8, <1>9
  <1>11. PICK h : h = c \o t
    OBVIOUS
  <1>12. h \in Seq(Memory) /\ Len(h) = b /\ \A m \in 1 .. a : h[m] = c[m]
    <2>1. h \in Seq(Memory) /\ Len(h) = a + (b - a)
      BY <1>10, <1>11, ConcatProperties
    <2>2. \A m \in 1 .. Len(c) + Len(t) : h[m] = IF m <= Len(c) THEN c[m] ELSE t[m - Len(c)]
      BY <1>10, <1>11, ConcatProperties
    <2>3. QED
      BY <1>2, <1>10, <2>1, <2>2
  <1>13. h \in [1 .. b -> Memory]
    BY <1>12, LenProperties
  <1>14. r.buf = h /\ r.ok = (k = n) /\ r.fault = (k < n /\ lba + n <= Len(disk))
    BY <1>1, <1>2, <1>3, <1>5, <1>6, <1>11
  <1>15. k = n => \A m \in 1 .. b : h[m] = Contents[lba * SectorSize + m]
    BY <1>2, <1>4, <1>12
  <1>16. r.ok \in BOOLEAN /\ r.fault \in BOOLEAN
    BY <1>14
  <1>17. (~r.fault /\ lba + n <= Len(disk)) => r.ok
    <2>1. k = n \/ k < n
      OBVIOUS
    <2>2. QED
      BY <1>14, <2>1
  <1>18. r.ok => lba + n <= Len(disk) \/ n = 0
    BY <1>1, <1>14
  <1>19. /\ r.buf \in [1 .. n * SectorSize -> Memory]
         /\ r.ok => \A m \in 1 .. n * SectorSize : r.buf[m] = Contents[lba * SectorSize + m]
    BY <1>2, <1>13, <1>14, <1>15
  <1>20. QED
    BY <1>16, <1>17, <1>18, <1>19 DEF IsOutcome

LEMMA FreshIs ==
  ASSUME NEW n \in Nat
  PROVE  Fresh(n) \in [1 .. n * SectorSize -> Memory]
  BY DEF Fresh, Memory

LEMMA SectorsAreEnough ==
  ASSUME NEW len \in Nat, NEW n, n = SectorsToRead(len)
  PROVE  /\ n \in Nat /\ n * SectorSize \in Nat /\ len <= n * SectorSize
         /\ n # 0 => (n - 1) * SectorSize < len /\ (n - 1) * SectorSize \in Nat
  <1>1. PICK q \in Nat, r \in Nat : q = len \div SectorSize /\ r = len % SectorSize
    BY Sizes
  <1>2. len = SectorSize * q + r /\ r < SectorSize
    BY <1>1, Sizes
  <1>3. SectorSize * q = q * SectorSize /\ q * SectorSize \in Nat
    BY Sizes
  <1>4. n = q + (IF r # 0 THEN 1 ELSE 0)
    BY <1>1 DEF SectorsToRead
  <1>5. CASE r = 0
    <2>1. n = q /\ len = q * SectorSize
      BY <1>2, <1>3, <1>4, <1>5
    <2>2. CASE q = 0
      BY <1>3, <2>1, <2>2
    <2>3. CASE q # 0
      <3>1. PICK p \in Nat : p = q - 1 /\ p < q
        BY <2>3
      <3>2. p * SectorSize + SectorSize <= q * SectorSize /\ p * SectorSize \in Nat
        BY <3>1, Before, Multiples
      <3>3. QED
        BY <1>3, <2>1, <3>1, <3>2, Sizes
    <2>4. QED
      BY <2>2, <2>3
  <1>6. CASE r # 0
    <2>1. n = q + 1 /\ n - 1 = q
      BY <1>4, <1>6
    <2>2. (q + 1) * SectorSize = q * SectorSize + SectorSize
      BY Multiples
    <2>3. QED
      BY <1>2, <1>3, <1>6, <2>1, <2>2, Sizes
  <1>7. QED
    BY <1>5, <1>6

LEMMA FitsOnDisk ==
  ASSUME disk \in Disks, NEW lba \in Nat, NEW len \in Nat, NEW n, n = SectorsToRead(len),
         lba * SectorSize + len <= Len(Contents), n # 0
  PROVE  lba + n <= Len(disk)
  <1>1. SUFFICES ASSUME ~(lba + n <= Len(disk)) PROVE FALSE
    OBVIOUS
  <1>2. n \in Nat /\ n >= 1 /\ (n - 1) * SectorSize < len /\ (n - 1) * SectorSize \in Nat
    BY SectorsAreEnough
  <1>3. PICK p \in Nat : p = n - 1
    BY <1>2
  <1>4. PICK l \in Nat : l = Len(disk)
    BY ContentsLen
  <1>5. PICK d \in Nat : lba + p = l + d
    <2>1. lba + p - l \in Nat
      BY <1>1, <1>2, <1>3, <1>4
    <2>2. QED
      BY <2>1
  <1>6. /\ (lba + p) * SectorSize = lba * SectorSize + p * SectorSize
        /\ (l + d) * SectorSize = l * SectorSize + d * SectorSize
        /\ d * SectorSize \in Nat /\ lba * SectorSize \in Nat /\ l * SectorSize \in Nat
    BY Multiples
  <1>7. lba * SectorSize + p * SectorSize = l * SectorSize + d * SectorSize
    BY <1>5, <1>6
  <1>8. Len(Contents) = l * SectorSize
    BY <1>4, ContentsLen
  <1>9. p * SectorSize < len /\ p * SectorSize \in Nat
    BY <1>2, <1>3
  <1>10. PICK x \in Nat, y \in Nat, z \in Nat, w \in Nat :
           x = lba * SectorSize /\ y = p * SectorSize /\ z = l * SectorSize /\ w = d * SectorSize
    BY <1>6, <1>9
  <1>11. x + y = z + w /\ y < len /\ x + len <= z
    BY <1>7, <1>8, <1>9, <1>10
  <1>12. QED
    BY <1>11

(* What the extent of an entry is read as. *)
IsExtent(buf, e) ==
  /\ buf \in Seq(Memory) /\ e.len <= Len(buf)
  /\ \A m \in 1 .. e.len : buf[m] = Contents[e.lba * SectorSize + m]
  /\ e.len = 0 \/ e.lba * SectorSize + e.len <= Len(Contents)

LEMMA ExtentsAre ==
  ASSUME disk \in Disks, NEW e, e.lba \in Nat, e.len \in Nat, NEW r \in ExtentOutcomes(e)
  PROVE  /\ r.ok \in BOOLEAN /\ r.fault \in BOOLEAN /\ r.buf \in Seq(Memory)
         /\ r.ok => IsExtent(r.buf, e)
         /\ (~r.fault /\ e.lba * SectorSize + e.len <= Len(Contents)) => IsExtent(r.buf, e)
         /\ e.len <= Len(r.buf)
  <1>1. PICK n : n = SectorsToRead(e.len)
    OBVIOUS
  <1>2. /\ n \in Nat /\ n * SectorSize \in Nat /\ e.len <= n * SectorSize
        /\ n # 0 => (n - 1) * SectorSize < e.len /\ (n - 1) * SectorSize \in Nat
    BY <1>1, SectorsAreEnough
  <1>3. IsOutcome(r, e.lba, n)
    BY <1>1, <1>2, OutcomesAre, FreshIs DEF ExtentOutcomes
  <1>4. PICK b \in Nat : b = n * SectorSize
    BY <1>2
  <1>5. /\ r.ok \in BOOLEAN /\ r.fault \in BOOLEAN
        /\ r.buf \in [1 .. b -> Memory]
        /\ r.ok => e.lba + n <= Len(disk) \/ n = 0
        /\ r.ok => \A m \in 1 .. b : r.buf[m] = Contents[e.lba * SectorSize + m]
        /\ (~r.fault /\ e.lba + n <= Len(disk)) => r.ok
    BY <1>3, <1>4 DEF IsOutcome
  <1>6. r.buf \in Seq(Memory) /\ Len(r.buf) = b
    BY <1>5
  <1>7. n = 0 => e.len = 0
    BY <1>2, Sizes
  <1>8. ASSUME e.lba + n <= Len(disk), n # 0 PROVE e.lba * SectorSize + n * SectorSize <= Len(Contents)
    <2>0. PICK l \in Nat, h \in Nat : l = Len(disk) /\ h = e.lba + n
      BY <1>2, ContentsLen
    <2>1. PICK d \in Nat : l = h + d
      <3>1. l - h \in Nat /\ l = h + (l - h)
        BY <1>8, <2>0
      <3>2. QED
        BY <3>1
    <2>2. (h + d) * SectorSize = h * SectorSize + d * SectorSize /\ d * SectorSize \in Nat /\ h * SectorSize \in Nat
      BY Multiples
    <2>3. (e.lba + n) * SectorSize = e.lba * SectorSize + n * SectorSize /\ e.lba * SectorSize \in Nat
      BY <1>2, Multiples
    <2>4. Len(Contents) = l * SectorSize
      BY <2>0, ContentsLen
    <2>5. PICK x \in Nat, y \in Nat : x = e.lba * SectorSize + n * SectorSize /\ y = d * SectorSize
      BY <1>2, <2>2, <2>3
    <2>6. Len(Contents) = x + y
      BY <2>0, <2>1, <2>2, <2>3, <2>4, <2>5
    <2>7. QED
      BY <2>5, <2>6
  <1>9. ASSUME r.ok PROVE IsExtent(r.buf, e)
    <2>1. \A m \in 1 .. e.len : r.buf[m] = Contents[e.lba * SectorSize + m]
      BY <1>2, <1>4, <1>5, <1>9
    <2>2. e.len = 0 \/ e.lba * SectorSize + e.len <= Len(Contents)
      <3>1. CASE n = 0
        BY <1>7, <3>1
      <3>2. CASE n # 0
        <4>1. e.lba * SectorSize + n * SectorSize <= Len(Contents)
          BY <1>5, <1>8, <1>9, <3>2
        <4>2. e.lba * SectorSize \in Nat /\ Len(Contents) \in Nat
          BY Multiples, ContentsLen
        <4>3. QED
          BY <1>2, <4>1, <4>2
      <3>3. QED
        BY <3>1, <3>2
    <2>3. QED
      BY <1>2, <1>4, <1>6, <2>1, <2>2 DEF IsExtent
  <1>10. ASSUME ~r.fault, e.lba * SectorSize + e.len <= Len(Contents) PROVE IsExtent(r.buf, e)
    <2>1. CASE n = 0
      <3>1. e.len = 0 /\ 1 .. e.len = {}
        BY <1>7, <2>1
      <3>2. QED
        BY <1>2, <1>4, <1>6, <3>1 DEF IsExtent
    <2>2. CASE n # 0
      <3>1. e.lba + n <= Len(disk)
        BY <1>1, <1>10, <2>2, FitsOnDisk
      <3>2. QED
        BY <1>5, <1>9, <1>10, <3>1
    <2>3. QED
      BY <2>1, <2>2
  <1>11. QED
    BY <1>2, <1>4, <1>5, <1>6, <1>9, <1>10

-----------------------------------------------------------------------------
(* The reader. *)

LEMMA MinOfTwo ==
  ASSUME NEW a \in Int, NEW b \in Int
  PROVE  Min({a, b}) = IF a <= b THEN a ELSE b
  <1>1. PICK m \in {a, b} : \A y \in {a, b} : m <= y
    OBVIOUS
  <1>2. Min({a, b}) \in {a, b} /\ \A y \in {a, b} : Min({a, b}) <= y
    BY <1>1, Zenon DEF Min
  <1>3. QED
    BY <1>2

IsStream(s) ==
  /\ s = [size |-> s.size, cells |-> s.cells, pos |-> s.pos]
  /\ s.size \in Nat /\ s.pos \in 0 .. s.size
  /\ s.cells \in Seq(Memory) /\ s.size <= Len(s.cells)

(* The cache holds what the stream has given, as far as it was read.       *)
IsReader(r) ==
  /\ r = [stream |-> r.stream, cap |-> r.cap, bytes |-> r.bytes, eof |-> r.eof]
  /\ IsStream(r.stream)
  /\ r.bytes = [i \in 1 .. r.stream.pos |-> r.stream.cells[i]]
  /\ r.cap \in Nat /\ r.cap >= 1 /\ r.stream.pos <= r.cap
  /\ r.eof \in BOOLEAN /\ r.eof => r.stream.pos = r.stream.size

LEMMA ExtentIs ==
  ASSUME NEW r, IsReader(r)
  PROVE  Extent(r) = r.stream.pos /\ r.stream.pos \in Nat /\ r.stream.size \in Nat
  <1>1. PICK p \in Nat : p = r.stream.pos
    BY DEF IsReader, IsStream
  <1>2. r.bytes = [i \in 1 .. p |-> r.stream.cells[i]]
    BY <1>1 DEF IsReader
  <1>3. Len(r.bytes) = p
    BY <1>2
  <1>4. QED
    BY <1>1, <1>3 DEF Extent, IsReader, IsStream

LEMMA NewReaderIs ==
  ASSUME NEW size \in Nat, NEW cells \in Seq(Memory), size <= Len(cells), NEW eof \in BOOLEAN, eof => size = 0,
         NEW r, r = NewReader(Stream(size, cells), eof)
  PROVE  IsReader(r) /\ r.stream.size = size /\ r.stream.cells = cells /\ r.stream.pos = 0 /\ r.eof = eof
                     /\ r.cap = InitialCapacity
  <1>1. PICK s : s = Stream(size, cells)
    OBVIOUS
  <1>2. s = [size |-> size, cells |-> cells, pos |-> 0]
    BY <1>1 DEF Stream
  <1>3. r = [stream |-> s, cap |-> InitialCapacity, bytes |-> <<>>, eof |-> eof]
    BY <1>1 DEF NewReader
  <1>4. IsStream(s)
    BY <1>2 DEF IsStream
  <1>5. r.stream = s /\ r.cap = InitialCapacity /\ r.bytes = <<>> /\ r.eof = eof /\ s.pos = 0 /\ s.size = size /\ s.cells = cells
    BY <1>2, <1>3
  <1>6. r = [stream |-> r.stream, cap |-> r.cap, bytes |-> r.bytes, eof |-> r.eof]
    BY <1>3
  <1>7. r.bytes = [i \in 1 .. r.stream.pos |-> r.stream.cells[i]]
    BY <1>5
  <1>8. QED
    BY <1>4, <1>5, <1>6, <1>7, Sizes DEF IsReader

(* A read of the byte at `offset', for which the cache is made large       *)
(* enough: it is there afterwards, or the end of the file is.              *)
LEMMA ReadUpToIs ==
  ASSUME NEW r, IsReader(r), NEW offset \in Nat, r.eof \/ offset < 2 * r.cap, NEW x, x = ReadUpTo(r, offset)
  PROVE  /\ IsReader(x)
         /\ x.stream.size = r.stream.size /\ x.stream.cells = r.stream.cells
         /\ x.eof \/ x.stream.pos > offset
         /\ ~r.eof /\ offset = r.stream.pos /\ ~x.eof => x.stream.pos = offset + 1
  <1>1. PICK p \in Nat, z \in Nat, c \in Nat : p = r.stream.pos /\ z = r.stream.size /\ c = r.cap /\ p <= z /\ c >= 1 /\ p <= c
    BY DEF IsReader, IsStream
  <1>2. Extent(r) = p
    BY <1>1, ExtentIs
  <1>3. CASE offset < p \/ r.eof
    <2>1. x = r
      BY <1>2, <1>3 DEF ReadUpTo
    <2>2. QED
      BY <1>1, <1>3, <2>1
  <1>4. CASE ~(offset < p \/ r.eof)
    <2>1. PICK want \in Nat : want = 1 + offset - p /\ want >= 1
      BY <1>4
    <2>2. PICK n \in Nat : n = IF want <= z - p THEN want ELSE z - p
      BY <1>1
    <2>0. p + n <= z /\ \A i \in 1 .. n : p + i \in 1 .. z /\ p + i <= z
      BY <1>1, <2>2
    <2>3. Available(r.stream) = z - p /\ Min({want, z - p}) = n
      <3>1. z - p \in Int /\ want \in Int
        OBVIOUS
      <3>2. QED
        BY <1>1, <2>2, <3>1, MinOfTwo DEF Available
    <2>4. PICK b : b = StreamBytes(r.stream, want)
      OBVIOUS
    <2>5. PICK cells : cells = r.stream.cells /\ cells \in Seq(Memory) /\ z <= Len(cells)
      BY <1>1 DEF IsReader, IsStream
    <2>6. b = [i \in 1 .. n |-> cells[p + i]]
      <3>1. \A i \in 1 .. n : p + i <= Len(cells)
        <4>1. Len(cells) \in Nat
          BY <2>5, LenProperties
        <4>2. QED
          BY <2>0, <2>5, <4>1
      <3>2. b = [i \in 1 .. n |-> IF p + i <= Len(cells) THEN cells[p + i] ELSE Junk]
        BY <1>1, <2>3, <2>4, <2>5 DEF StreamBytes
      <3>3. QED
        BY <3>1, <3>2
    <2>7. PICK s : s = Advanced(r.stream, want)
      OBVIOUS
    <2>8. s = [size |-> z, cells |-> cells, pos |-> p + n]
      <3>1. r.stream = [size |-> z, cells |-> cells, pos |-> p]
        BY <1>1, <2>5 DEF IsReader, IsStream
      <3>2. s = [r.stream EXCEPT !.pos = r.stream.pos + Min({want, Available(r.stream)})]
        BY <2>7 DEF Advanced
      <3>3. r.stream.pos + Min({want, Available(r.stream)}) = p + n
        BY <1>1, <2>3
      <3>4. QED
        BY <3>1, <3>2, <3>3
    <2>9. IsStream(s) /\ s.pos = p + n /\ s.size = z /\ s.cells = cells
      BY <1>1, <2>2, <2>5, <2>8 DEF IsStream
    <2>10. PICK h : h = r.bytes \o b
      OBVIOUS
    <2>11. h = [i \in 1 .. p + n |-> cells[i]]
      <3>1. r.bytes = [i \in 1 .. p |-> cells[i]]
        BY <1>1, <2>5 DEF IsReader
      <3>2. PICK M : M = Memory
        OBVIOUS
      <3>3. \A i \in 1 .. z : cells[i] \in M
        <4>1. \A i \in 1 .. Len(cells) : cells[i] \in M
          BY <2>5, <3>2, LenProperties
        <4>2. Len(cells) \in Nat
          BY <2>5, LenProperties
        <4>3. QED
          BY <2>5, <4>1, <4>2
      <3>4. r.bytes \in Seq(M) /\ Len(r.bytes) = p
        BY <1>1, <3>1, <3>3
      <3>5. b \in Seq(M) /\ Len(b) = n
        BY <2>0, <2>6, <3>3
      <3>6. h \in Seq(M) /\ Len(h) = p + n /\ \A i \in 1 .. p + n : h[i] = IF i <= p THEN r.bytes[i] ELSE b[i - p]
        BY <2>10, <3>4, <3>5, ConcatProperties
      <3>7. ASSUME NEW i \in 1 .. p + n PROVE h[i] = cells[i]
        <4>1. CASE i <= p
          BY <3>1, <3>6, <4>1
        <4>2. CASE ~(i <= p)
          <5>1. i - p \in 1 .. n /\ p + (i - p) = i
            BY <4>2
          <5>2. QED
            BY <2>6, <3>6, <4>2, <5>1
        <4>3. QED
          BY <4>1, <4>2
      <3>8. h = [i \in 1 .. p + n |-> h[i]]
        BY <3>6
      <3>9. QED
        BY <3>7, <3>8
    <2>12. Len(b) = n
      BY <2>6
    <2>13. PICK g : g = GrownCapacity(r, offset)
      OBVIOUS
    <2>14. g \in Nat /\ g >= 1 /\ offset < g /\ c <= g
      <3>1. offset < 2 * c
        BY <1>1, <1>4
      <3>2. g = IF offset < c THEN c ELSE IF offset < 2 * c THEN 2 * c ELSE offset
        BY <1>1, <2>13 DEF GrownCapacity
      <3>3. QED
        BY <1>1, <3>1, <3>2
    <2>15. x = [stream |-> s, cap |-> g, bytes |-> h, eof |-> n # want]
      BY <1>2, <1>4, <2>1, <2>4, <2>7, <2>10, <2>12, <2>13 DEF ReadUpTo
    <2>16. x.stream = s /\ x.cap = g /\ x.bytes = h /\ x.eof = (n # want)
      BY <2>15
    <2>17. x = [stream |-> x.stream, cap |-> x.cap, bytes |-> x.bytes, eof |-> x.eof]
      BY <2>15
    <2>18. n # want => p + n = z
      BY <1>1, <2>2
    <2>19. p + n <= g
      BY <1>1, <2>1, <2>2, <2>14
    <2>20. IsReader(x)
      <3>1. x.bytes = [i \in 1 .. x.stream.pos |-> x.stream.cells[i]]
        BY <2>9, <2>11, <2>16
      <3>2. x.eof \in BOOLEAN /\ (x.eof => x.stream.pos = x.stream.size)
        BY <2>9, <2>16, <2>18
      <3>3. x.cap \in Nat /\ x.cap >= 1 /\ x.stream.pos <= x.cap
        BY <2>9, <2>14, <2>16, <2>19
      <3>4. QED
        BY <2>9, <2>16, <2>17, <3>1, <3>2, <3>3 DEF IsReader
    <2>24. x.stream.pos = p + n /\ (n = want => p + n = offset + 1)
      BY <1>1, <2>1, <2>9, <2>16
    <2>25. ~x.eof => n = want
      BY <2>16
    <2>21. x.eof \/ x.stream.pos > offset
      BY <2>24, <2>25
    <2>22. ~r.eof /\ offset = r.stream.pos /\ ~x.eof => x.stream.pos = offset + 1
      BY <2>24, <2>25
    <2>23. QED
      BY <1>1, <2>5, <2>9, <2>16, <2>20, <2>21, <2>22
  <1>5. QED
    BY <1>3, <1>4

SameBytes(file, r) == \A m \in 1 .. r.stream.size : file[m] = r.stream.cells[m]

RangeRight(r, offset, n, file) ==
  BytesInRange(r, offset, n) = SubSeq(file, offset + 1, Min({offset + n, r.stream.size}))

(* What is stored of a range that was read up to. *)
LEMMA RangeIs ==
  ASSUME NEW r, IsReader(r), NEW offset \in Nat, NEW n \in Nat, n >= 1, NEW last, last = offset + n - 1,
         r.eof \/ r.stream.pos > last, NEW file, SameBytes(file, r)
  PROVE  RangeRight(r, offset, n, file)
  <1>0. PICK cells : cells = r.stream.cells
    OBVIOUS
  <1>1. PICK p \in Nat, z \in Nat : p = r.stream.pos /\ z = r.stream.size /\ p <= z
    BY DEF IsReader, IsStream
  <1>2. Extent(r) = p
    BY <1>1, ExtentIs
  <1>3. r.eof => p = z
    BY <1>1 DEF IsReader
  <1>4. PICK e \in Nat : e = offset + n
    OBVIOUS
  <1>5. PICK q \in Nat : q = IF e <= z THEN e ELSE z
    OBVIOUS
  <1>6. Min({e, z}) = q /\ Min({e, p}) = q
    <2>1. Min({e, z}) = q
      BY <1>5, MinOfTwo
    <2>2. Min({e, p}) = IF e <= p THEN e ELSE p
      BY MinOfTwo
    <2>3. p = z \/ p >= e
      BY <1>1, <1>3, <1>4
    <2>4. QED
      BY <1>1, <1>5, <2>1, <2>2, <2>3
  <1>7. q <= p
    BY <1>1, <1>3, <1>4, <1>5
  <1>8. BytesInRange(r, offset, n) = [i \in 1 .. q - offset |-> r.bytes[offset + i]]
    <2>1. BytesInRange(r, offset, n) = SubSeq(r.bytes, offset + 1, q)
      BY <1>2, <1>4, <1>6 DEF BytesInRange
    <2>2. QED
      BY <2>1, Piece
  <1>9. SubSeq(file, offset + 1, q) = [i \in 1 .. q - offset |-> file[offset + i]]
    BY Piece
  <1>10. ASSUME NEW i \in 1 .. q - offset PROVE r.bytes[offset + i] = file[offset + i]
    <2>1. offset + i \in 1 .. p /\ offset + i \in 1 .. z
      BY <1>1, <1>7
    <2>2. r.bytes = [j \in 1 .. p |-> cells[j]]
      BY <1>0, <1>1 DEF IsReader
    <2>3. QED
      BY <1>0, <1>1, <2>1, <2>2 DEF SameBytes
  <1>11. QED
    BY <1>1, <1>4, <1>6, <1>8, <1>9, <1>10 DEF RangeRight

-----------------------------------------------------------------------------
(* Entries, and the walk through the records of a directory. *)

Entries == {NoEntry} \cup JunkEntries \cup Roots \cup {c \in ToSet(Contents) : c.kind = "record"}

LEMMA RecordIs ==
  ASSUME NEW c, IsRecord(c)
  PROVE  /\ c.kind = "record" /\ c # NoEntry
         /\ c.lba \in Nat /\ c.len \in Nat /\ c.dir \in BOOLEAN
  <1>1. c.kind = "record"
    BY DEF IsRecord, Record
  <1>2. NoEntry.kind = "none"
    BY DEF NoEntry
  <1>3. "record" # "none"
    OBVIOUS
  <1>4. QED
    BY <1>1, <1>2, <1>3 DEF IsRecord

LEMMA JunkIs ==
  ASSUME NEW e \in JunkEntries
  PROVE  IsRecord(e)
  <1>1. PICK d \in BOOLEAN : e = Record(<<"?">>, <<>>, d, 0, SectorSize)
    BY DEF JunkEntries
  <1>2. e.iso = <<"?">> /\ e.susp = <<>> /\ e.dir = d /\ e.lba = 0 /\ e.len = SectorSize
    BY <1>1 DEF Record
  <1>3. QED
    BY <1>1, <1>2, Sizes DEF IsRecord

LEMMA RootsAre ==
  ASSUME disk \in Disks, NEW e \in Roots
  PROVE  IsRecord(e)
  <1>1. PICK c \in Held : c.kind = "descriptor" /\ c.type = "primary" /\ e = c.root
    BY ContentsSet DEF Roots
  <1>2. IsCell(c)
    BY DiskIs DEF Held
  <1>3. QED
    BY <1>1, <1>2 DEF IsCell

LEMMA HeldRecords ==
  ASSUME disk \in Disks, NEW c \in Memory, c.kind = "record"
  PROVE  IsRecord(c) /\ c \in Held /\ c \in Entries
  <1>1. Junk.kind = "junk" /\ "junk" # "record"
    BY DEF Junk
  <1>2. c \in Held
    BY <1>1 DEF Memory
  <1>3. IsCell(c)
    BY <1>2, DiskIs DEF Held
  <1>4. QED
    BY <1>2, <1>3, ContentsSet DEF IsCell, Entries

LEMMA EntriesAre ==
  ASSUME disk \in Disks, NEW e \in Entries, e # NoEntry
  PROVE  IsRecord(e)
  <1>1. CASE e \in JunkEntries
    BY <1>1, JunkIs
  <1>2. CASE e \in Roots
    BY <1>2, RootsAre
  <1>3. CASE e \in ToSet(Contents) /\ e.kind = "record"
    BY <1>3, ContentsSet, HeldRecords DEF Memory
  <1>4. QED
    BY <1>1, <1>2, <1>3 DEF Entries

LEMMA MinIs ==
  ASSUME NEW T \in SUBSET Nat, T # {}
  PROVE  Min(T) \in T /\ \A y \in T : Min(T) <= y
  <1>1. \E x \in T : \A y \in T : x <= y
    BY Least
  <1>2. QED
    BY <1>1, Zenon DEF Min

(* The walk ends before the first cell that is no record. *)
LEMMA RecordsAre ==
  ASSUME NEW buf \in Seq(Memory), NEW all, all = Records(buf)
  PROVE  /\ Len(all) \in 0 .. Len(buf) /\ Len(buf) \in Nat
         /\ all = [i \in 1 .. Len(all) |-> buf[i]]
         /\ \A i \in 1 .. Len(all) : buf[i].kind = "record"
         /\ Len(all) = Len(buf) \/ buf[Len(all) + 1].kind # "record"
  <1>0. PICK n \in Nat : n = Len(buf)
    BY LenProperties
  <1>1. PICK T : T = {i \in 1 .. Len(buf) : buf[i].kind # "record"}
    OBVIOUS
  <1>2. SelectInSeq(buf, LAMBDA c : c.kind # "record") = IF T # {} THEN Min(T) ELSE 0
    BY <1>1 DEF SelectInSeq
  <1>3. CASE T = {}
    <2>1. all = buf
      BY <1>2, <1>3 DEF Records
    <2>2. \A i \in 1 .. n : buf[i].kind = "record"
      BY <1>0, <1>1, <1>3
    <2>3. buf = [i \in 1 .. n |-> buf[i]]
      BY <1>0, LenProperties
    <2>4. Len(all) = n /\ n \in 0 .. n
      BY <1>0, <2>1
    <2>5. all = [i \in 1 .. n |-> buf[i]]
      BY <2>1, <2>3
    <2>6. QED
      BY ONLY <1>0, <2>2, <2>4, <2>5
  <1>4. CASE T # {}
    <2>0. T \in SUBSET Nat
      BY <1>1
    <2>1. PICK m : m = Min(T)
      OBVIOUS
    <2>2. m \in T /\ \A y \in T : m <= y
      BY <1>4, <2>0, <2>1, MinIs
    <2>3. m \in 1 .. n /\ m # 0 /\ buf[m].kind # "record"
      BY <1>0, <1>1, <2>2
    <2>4. all = SubSeq(buf, 1, m - 1)
      BY <1>2, <1>4, <2>1, <2>3 DEF Records
    <2>5. all = [i \in 1 .. m - 1 |-> buf[i]]
      <3>1. all = [i \in 1 .. (1 + (m - 1) - 1) |-> buf[i + 1 - 1]]
        BY <2>3, <2>4
      <3>2. 1 + (m - 1) - 1 = m - 1 /\ \A i \in 1 .. m - 1 : i + 1 - 1 = i
        BY <2>3
      <3>3. QED
        BY <3>1, <3>2
    <2>6. m - 1 \in Nat /\ Len(all) = m - 1
      BY <2>3, <2>5
    <2>7. ASSUME NEW i \in 1 .. m - 1 PROVE buf[i].kind = "record"
      <3>1. i \in 1 .. Len(buf) /\ ~(m <= i)
        BY <1>0, <2>3
      <3>2. QED
        BY <1>1, <2>2, <3>1
    <2>8. (m - 1) + 1 = m
      BY <2>3
    <2>9. QED
      BY <1>0, <2>3, <2>5, <2>6, <2>7, <2>8
  <1>5. QED
    BY <1>3, <1>4

(* What the loop of find returns. *)
LEMMA SearchIs ==
  ASSUME NEW buf \in Seq(Memory), NEW elem, NEW k, k = Len(Records(buf)), NEW e \in Search(buf, elem)
  PROVE  \/ \E i \in 1 .. k : e = buf[i] /\ Name(buf[i]) = elem
         \/ /\ \A i \in 1 .. k : Name(buf[i]) # elem
            /\ e = NoEntry \/ (Strays(buf) /\ e \in JunkEntries)
  <1>1. PICK all : all = Records(buf)
    OBVIOUS
  <1>2. k \in Nat /\ k = Len(all) /\ all = [i \in 1 .. k |-> buf[i]]
    BY <1>1, RecordsAre
  <1>3. PICK T : T = {i \in 1 .. Len(all) : Name(all[i]) = elem}
    OBVIOUS
  <1>4. SelectInSeq(all, LAMBDA c : Name(c) = elem) = IF T # {} THEN Min(T) ELSE 0
    BY <1>3 DEF SelectInSeq
  <1>5. CASE T = {}
    <2>1. \A i \in 1 .. k : Name(buf[i]) # elem
      BY <1>2, <1>3, <1>5
    <2>2. e \in {NoEntry} \cup (IF Strays(buf) THEN JunkEntries ELSE {})
      BY <1>1, <1>4, <1>5 DEF Search
    <2>3. QED
      BY <2>1, <2>2
  <1>6. CASE T # {}
    <2>0. T \in SUBSET Nat
      BY <1>2, <1>3
    <2>1. PICK m : m = Min(T)
      OBVIOUS
    <2>2. m \in T
      BY <1>6, <2>0, <2>1, MinIs
    <2>3. m \in 1 .. k /\ m > 0 /\ Name(buf[m]) = elem
      BY <1>2, <1>3, <2>2
    <2>4. e = buf[m]
      BY <1>1, <1>4, <1>6, <2>1, <2>3 DEF Search
    <2>5. QED
      BY <2>3, <2>4
  <1>7. QED
    BY <1>5, <1>6

LEMMA FoundIsEntry ==
  ASSUME disk \in Disks, NEW buf \in Seq(Memory), NEW elem, NEW e \in Search(buf, elem)
  PROVE  e \in Entries
  <1>1. PICK k : k = Len(Records(buf))
    OBVIOUS
  <1>2. k \in 0 .. Len(buf) /\ Len(buf) \in Nat /\ \A i \in 1 .. k : buf[i].kind = "record"
    BY <1>1, RecordsAre
  <1>3. CASE \E i \in 1 .. k : e = buf[i] /\ Name(buf[i]) = elem
    <2>1. PICK i \in 1 .. k : e = buf[i]
      BY <1>3
    <2>2. i \in 1 .. Len(buf)
      BY <1>2
    <2>3. buf[i] \in Memory
      BY <2>2, LenProperties
    <2>4. QED
      BY <1>2, <2>1, <2>3, HeldRecords
  <1>4. CASE e = NoEntry \/ e \in JunkEntries
    BY <1>4 DEF Entries
  <1>5. QED
    BY <1>1, <1>3, <1>4, SearchIs

-----------------------------------------------------------------------------
(* The state of a call, and the file that is being read. *)

CallRecord(c) ==
  c = [pc |-> c.pc, op |-> c.op, path |-> c.path, taken |-> c.taken, dir |-> c.dir, buf |-> c.buf,
       lba |-> c.lba, pos |-> c.pos, range |-> c.range, bytes |-> c.bytes, names |-> c.names]

CallPlaces == {"idle", "create", "nullptr", "init", "panic", "find", "readAll", "load"}

CallOK ==
  /\ CallRecord(call) /\ call.pos \in Nat
  /\ call.pc \in CallPlaces
  /\ call.op \in {"none", "mount", "find", "readdir", "read"}
  /\ call.pc \notin {"idle", "load"} => call.op = "none"
  /\ call.pc = "init" => call.buf \in [1 .. SectorSize -> Memory]
  /\ call.pc = "find" => call.dir # NoEntry

StateOK ==
  /\ disk \in Disks
  /\ root \in Entries /\ entry \in Entries /\ call.dir \in Entries
  /\ failed \subseteq {"mount", "find", "open"}
  /\ call.lba \in 0 .. Len(disk)

(* The stream is over the file of the entry that was looked up last.       *)
Matches ==
  /\ entry # NoEntry
  /\ entry.dir => reader.stream.size = 0
  /\ (~entry.dir /\ "open" \notin failed) =>
        /\ reader.stream.size = entry.len
        /\ \A m \in 1 .. entry.len : ExtentOf(entry)[m] = reader.stream.cells[m]

BytesRight ==
  (call.op = "read" /\ "open" \notin failed) =>
    call.bytes = IF entry.dir THEN <<>>
                 ELSE SubSeq(ExtentOf(entry), call.range[1] + 1,
                             Min({call.range[1] + call.range[2], entry.len}))

(* While readAll is at work it reads the byte behind those in the cache;   *)
(* when it is done the whole file is in the cache, which no later read     *)
(* makes grow.                                                             *)
FileOK ==
  /\ IsReader(reader)
  /\ call.pc \in {"readAll", "load"} => Matches
  /\ call.pc = "readAll" => reader.eof \/ call.pos = reader.stream.pos
  /\ call.pc = "load" => reader.eof
  /\ BytesRight

FileInv == StateOK /\ CallOK /\ FileOK

LEMMA FileInvTypes ==
  ASSUME FileInv
  PROVE  BytesAsOnDisk
  <1>1. {root, entry, call.dir} \subseteq
          {NoEntry} \cup JunkEntries \cup Roots \cup {c \in ToSet(Contents) : c.kind = "record"}
    BY DEF FileInv, StateOK, Entries
  <1>2. Extent(reader) <= reader.cap
    BY ExtentIs DEF FileInv, FileOK, IsReader
  <1>3. TypeOK
    BY <1>1, <1>2 DEF TypeOK, FileInv, StateOK, CallOK, CallPlaces
  <1>4. QED
    BY <1>3 DEF BytesAsOnDisk, FileInv, FileOK, BytesRight

LEMMA SameDisk ==
  ASSUME disk' = disk
  PROVE  /\ Entries' = Entries /\ Memory' = Memory /\ Contents' = Contents /\ Held' = Held /\ Roots' = Roots
         /\ Len(disk)' = Len(disk)
  BY DEF Entries, Memory, Contents, Held, Roots

LEMMA ReaderPrimed ==
  ASSUME disk' = disk, NEW r, IsReader(r), reader' = r
  PROVE  IsReader(reader)'
  BY SameDisk DEF IsReader, IsStream

LEMMA IdleIs ==
  /\ CallRecord(Idle)
  /\ Idle.pc = "idle" /\ Idle.op = "none" /\ Idle.dir = NoEntry /\ Idle.lba = 0 /\ Idle.pos = 0
  /\ Idle.path = <<>> /\ Idle.taken = 0
  BY DEF Idle, CallRecord

Settled(c) ==
  /\ CallRecord(c) /\ c.dir \in Entries /\ c.lba \in 0 .. Len(disk) /\ c.pos \in Nat
  /\ c.pc \in {"idle", "create", "nullptr", "init", "panic", "find"}
  /\ c.op \in {"none", "mount", "find", "readdir"}
  /\ c.pc # "idle" => c.op = "none"
  /\ c.pc = "init" => c.buf \in [1 .. SectorSize -> Memory]
  /\ c.pc = "find" => c.dir # NoEntry

(* A step that does not touch the reader. *)
LEMMA Settles ==
  ASSUME FileInv, disk' = disk, reader' = reader, root' \in Entries, entry' \in Entries,
         failed' \subseteq {"mount", "find", "open"}, NEW c, call' = c, Settled(c)
  PROVE  FileInv'
  <1>1. StateOK'
    BY SameDisk DEF FileInv, StateOK, Settled
  <1>2. c.pc \in CallPlaces /\ (c.pc \notin {"idle", "load"} => c.op = "none") /\ c.op \in {"none", "mount", "find", "readdir", "read"}
    BY DEF Settled, CallPlaces
  <1>3. CallOK'
    BY <1>2, SameDisk DEF CallOK, Settled, CallRecord, CallPlaces
  <1>4. IsReader(reader)'
    BY ReaderPrimed DEF FileInv, FileOK
  <1>5. c.pc \notin {"readAll", "load"} /\ c.op # "read"
    BY DEF Settled
  <1>6. FileOK'
    BY <1>4, <1>5 DEF FileOK, BytesRight
  <1>7. QED
    BY <1>1, <1>3, <1>6 DEF FileInv

LEMMA IdleSettles ==
  ASSUME disk \in Disks
  PROVE  Settled(Idle)
  <1>1. NoEntry \in Entries /\ Len(disk) \in Nat
    BY ContentsLen DEF Entries
  <1>2. QED
    BY <1>1, IdleIs DEF Settled

LEMMA FreshSector ==
  Fresh(1) \in [1 .. SectorSize -> Memory]
  <1>1. PICK one \in Nat : one = 1
    OBVIOUS
  <1>2. one * SectorSize = SectorSize
    BY <1>1, Sizes
  <1>3. QED
    BY <1>1, <1>2, FreshIs

LEMMA InitFiles == Init => FileInv
  <1>1. SUFFICES ASSUME Init PROVE FileInv
    OBVIOUS
  <1>2. disk \in Disks /\ root = NoEntry /\ entry = NoEntry /\ reader = NewReader(NoStream, TRUE) /\ failed = {} /\ call = Idle
    BY <1>1 DEF Init
  <1>3. Settled(Idle)
    BY <1>2, IdleSettles
  <1>4. StateOK
    BY <1>2, <1>3 DEF StateOK, Settled, Entries
  <1>5. CallOK
    BY <1>2, <1>3, IdleIs DEF CallOK, Settled, CallPlaces
  <1>6. IsReader(reader)
    <2>1. <<>> \in Seq(Memory) /\ Len(<<>>) = 0
      OBVIOUS
    <2>2. PICK none \in Seq(Memory), zero \in Nat, yes \in BOOLEAN : none = <<>> /\ zero = 0 /\ yes = TRUE
      BY <2>1
    <2>3. reader = NewReader(Stream(zero, none), yes)
      BY <1>2, <2>2 DEF NoStream
    <2>4. zero <= Len(none) /\ (yes => zero = 0)
      BY <2>1, <2>2
    <2>5. QED
      BY <2>3, <2>4, NewReaderIs
  <1>7. FileOK
    BY <1>2, <1>6, IdleIs DEF FileOK, BytesRight
  <1>8. QED
    BY <1>4, <1>5, <1>7 DEF FileInv

-----------------------------------------------------------------------------
(* Mounting. *)

NoteIs == failed' \subseteq {"mount", "find", "open"}

LEMMA NoteKeeps ==
  ASSUME FileInv, NEW part \in {"mount", "find", "open"}, NEW r, Note(part, r)
  PROVE  NoteIs
  BY DEF Note, NoteIs, FileInv, StateOK

LEMMA ProbeFiles ==
  ASSUME FileInv, Probe
  PROVE  FileInv'
  <1>1. /\ disk' = disk /\ root' = root /\ entry' = entry /\ reader' = reader /\ failed' = {}
        /\ call' = [Idle EXCEPT !.pc = "create"] \/ call' = Idle
    BY DEF Probe
  <1>2. disk \in Disks /\ root \in Entries /\ entry \in Entries
    BY DEF FileInv, StateOK
  <1>3. Settled(Idle)
    BY <1>2, IdleSettles
  <1>4. PICK c : c = call'
    OBVIOUS
  <1>5. Settled(c)
    <2>1. CASE c = Idle
      BY <1>3, <2>1
    <2>2. CASE c = [Idle EXCEPT !.pc = "create"]
      BY <1>3, <2>2, IdleIs DEF Settled, CallRecord
    <2>3. QED
      BY <1>1, <1>4, <2>1, <2>2
  <1>6. QED
    BY <1>1, <1>2, <1>4, <1>5, Settles

LEMMA CreateFiles ==
  ASSUME FileInv, CreateVolume
  PROVE  FileInv'
  <1>1. /\ disk' = disk /\ root' = root /\ entry' = entry /\ reader' = reader
        /\ \/ call' = [Idle EXCEPT !.pc = "init", !.lba = FirstDescriptor, !.buf = Fresh(1)]
           \/ call' = [Idle EXCEPT !.pc = "nullptr"]
    BY DEF CreateVolume
  <1>2. NoteIs
    <2>1. PICK r : Note("mount", r)
      BY DEF CreateVolume
    <2>2. QED
      BY <2>1, NoteKeeps
  <1>3. disk \in Disks /\ root \in Entries /\ entry \in Entries
    BY DEF FileInv, StateOK
  <1>4. Settled(Idle)
    BY <1>3, IdleSettles
  <1>5. PICK c, f : c = call' /\ f = Fresh(1)
    OBVIOUS
  <1>6. Settled(c)
    <2>1. CASE c = [Idle EXCEPT !.pc = "nullptr"]
      BY <1>4, <2>1, IdleIs DEF Settled, CallRecord
    <2>2. CASE c = [Idle EXCEPT !.pc = "init", !.lba = FirstDescriptor, !.buf = f]
      <3>1. FirstDescriptor \in 0 .. Len(disk) /\ f \in [1 .. SectorSize -> Memory]
        BY <1>3, <1>5, DiskIs, Sizes, FreshSector
      <3>2. c.pc = "init" /\ c.op = "none" /\ c.lba = FirstDescriptor /\ c.buf = f /\ c.dir = Idle.dir /\ c.pos = Idle.pos /\ CallRecord(c)
        BY <2>2, IdleIs DEF CallRecord
      <3>3. QED
        BY <1>4, <3>1, <3>2 DEF Settled
    <2>3. QED
      BY <1>1, <1>5, <2>1, <2>2
  <1>7. QED
    BY <1>1, <1>2, <1>3, <1>5, <1>6, Settles DEF NoteIs

(* What a round of Volume::init reads. *)
LEMMA RoundReads ==
  ASSUME FileInv, call.pc = "init", NEW r \in Outcomes(call.lba, 1, call.buf)
  PROVE  /\ r.ok \in BOOLEAN /\ r.fault \in BOOLEAN /\ r.buf \in [1 .. SectorSize -> Memory] /\ r.buf[1] \in Memory
         /\ r.ok => call.lba + 1 <= Len(disk) /\ r.buf[1] = disk[call.lba + 1][1]
         /\ (~r.fault /\ call.lba + 1 <= Len(disk)) => r.ok
  <1>1. disk \in Disks /\ call.lba \in Nat /\ call.buf \in [1 .. SectorSize -> Memory] /\ Len(disk) \in Nat
    BY ContentsLen DEF FileInv, StateOK, CallOK
  <1>2. PICK one \in Nat : one = 1
    OBVIOUS
  <1>3. one * SectorSize = SectorSize
    BY <1>2, Sizes
  <1>4. IsOutcome(r, call.lba, one)
    BY <1>1, <1>2, <1>3, OutcomesAre
  <1>5. /\ r.ok \in BOOLEAN /\ r.fault \in BOOLEAN /\ r.buf \in [1 .. SectorSize -> Memory]
        /\ r.ok => call.lba + 1 <= Len(disk)
        /\ r.ok => \A m \in 1 .. SectorSize : r.buf[m] = Contents[call.lba * SectorSize + m]
        /\ (~r.fault /\ call.lba + 1 <= Len(disk)) => r.ok
    BY <1>2, <1>3, <1>4 DEF IsOutcome
  <1>6. 1 \in 1 .. SectorSize
    BY Sizes
  <1>7. ASSUME r.ok PROVE r.buf[1] = disk[call.lba + 1][1]
    <2>1. PICK i \in Nat : i = call.lba + 1
      BY <1>1
    <2>2. i \in 1 .. Len(disk) /\ i - 1 = call.lba
      BY <1>1, <1>5, <1>7, <2>1
    <2>3. Contents[(i - 1) * SectorSize + 1] = disk[i][1]
      BY <1>1, <1>6, <2>2, ContentsAre DEF Lays
    <2>4. r.buf[1] = Contents[call.lba * SectorSize + 1]
      BY <1>5, <1>6, <1>7
    <2>5. QED
      BY <2>1, <2>2, <2>3, <2>4
  <1>8. QED
    BY <1>5, <1>6, <1>7

LEMMA NextLbaIs ==
  ASSUME FileInv
  PROVE  NextLba \in 0 .. Len(disk) /\ NextLba = IF call.lba + 1 <= Len(disk) THEN call.lba + 1 ELSE Len(disk)
  <1>1. call.lba \in 0 .. Len(disk) /\ Len(disk) \in Nat
    BY ContentsLen DEF FileInv, StateOK
  <1>2. PICK a \in Int, b \in Int : a = call.lba + 1 /\ b = Len(disk)
    BY <1>1
  <1>3. Min({a, b}) = IF a <= b THEN a ELSE b
    BY MinOfTwo
  <1>4. QED
    BY <1>1, <1>2, <1>3 DEF NextLba

LEMMA InitRoundFiles ==
  ASSUME FileInv, InitRound
  PROVE  FileInv'
  <1>1. PICK r \in Outcomes(call.lba, 1, call.buf) : \E type \in DescriptorTypes(r.buf[1]) :
          /\ Note("mount", r)
          /\ \/ /\ type = "primary"
                /\ root' \in IF r.buf[1].kind = "descriptor" THEN {r.buf[1].root} ELSE JunkEntries
                /\ call' = [Idle EXCEPT !.op = "mount"]
             \/ /\ type = "terminator"
                /\ call' = [Idle EXCEPT !.pc = "panic"]
                /\ UNCHANGED root
             \/ /\ type = "other"
                /\ call' = [call EXCEPT !.lba = NextLba, !.buf = r.buf]
                /\ UNCHANGED root
    BY DEF InitRound
  <1>2. PICK type \in DescriptorTypes(r.buf[1]) :
          /\ Note("mount", r)
          /\ \/ /\ type = "primary"
                /\ root' \in IF r.buf[1].kind = "descriptor" THEN {r.buf[1].root} ELSE JunkEntries
                /\ call' = [Idle EXCEPT !.op = "mount"]
             \/ /\ type = "terminator"
                /\ call' = [Idle EXCEPT !.pc = "panic"]
                /\ UNCHANGED root
             \/ /\ type = "other"
                /\ call' = [call EXCEPT !.lba = NextLba, !.buf = r.buf]
                /\ UNCHANGED root
    BY <1>1
  <1>3. disk' = disk /\ entry' = entry /\ reader' = reader /\ call.pc = "init"
    BY DEF InitRound
  <1>4. NoteIs
    BY <1>2, NoteKeeps
  <1>5. disk \in Disks /\ root \in Entries /\ entry \in Entries
    BY DEF FileInv, StateOK
  <1>6. Settled(Idle)
    BY <1>5, IdleSettles
  <1>7. PICK c, b, l : c = call' /\ b = r.buf /\ l = NextLba
    OBVIOUS
  <1>8. CASE type = "primary"
    <2>1. root' \in Entries
      <3>1. CASE r.buf[1].kind # "descriptor"
        BY <1>2, <1>8, <3>1 DEF Entries
      <3>2. CASE r.buf[1].kind = "descriptor"
        <4>1. r.buf[1].type = "primary" /\ root' = r.buf[1].root
          BY <1>2, <1>8, <3>2 DEF DescriptorTypes
        <4>2. r.buf[1] \in Memory
          BY <1>1, <1>3, RoundReads
        <4>3. Junk.kind # "descriptor"
          BY DEF Junk
        <4>4. r.buf[1] \in Held
          BY <3>2, <4>2, <4>3 DEF Memory
        <4>5. root' \in Roots
          BY <1>5, <3>2, <4>1, <4>4, ContentsSet DEF Roots
        <4>6. QED
          BY <4>5 DEF Entries
      <3>3. QED
        BY <3>1, <3>2
    <2>2. Settled(c)
      <3>1. c = [Idle EXCEPT !.op = "mount"]
        BY <1>2, <1>7, <1>8
      <3>2. QED
        BY <1>6, <3>1, IdleIs DEF Settled, CallRecord
    <2>3. QED
      BY <1>3, <1>4, <1>5, <1>7, <2>1, <2>2, Settles DEF NoteIs
  <1>9. CASE type = "terminator"
    <2>1. c = [Idle EXCEPT !.pc = "panic"] /\ root' = root
      BY <1>2, <1>7, <1>9
    <2>2. Settled(c)
      BY <1>6, <2>1, IdleIs DEF Settled, CallRecord
    <2>3. QED
      BY <1>3, <1>4, <1>5, <1>7, <2>1, <2>2, Settles DEF NoteIs
  <1>10. CASE type = "other"
    <2>1. c = [call EXCEPT !.lba = l, !.buf = b] /\ root' = root
      BY <1>2, <1>7, <1>10
    <2>2. b \in [1 .. SectorSize -> Memory] /\ l \in 0 .. Len(disk)
      BY <1>1, <1>3, <1>7, RoundReads, NextLbaIs
    <2>3. CallRecord(call)
      BY DEF FileInv, CallOK
    <2>4. CallRecord(c) /\ c.pc = call.pc /\ c.op = call.op /\ c.dir = call.dir /\ c.pos = call.pos /\ c.lba = l /\ c.buf = b
      BY <2>1, <2>3 DEF CallRecord
    <2>5. call.dir \in Entries /\ call.pos \in Nat /\ call.op = "none"
      BY <1>3 DEF FileInv, StateOK, CallOK
    <2>6. Settled(c)
      BY <1>3, <2>2, <2>4, <2>5 DEF Settled
    <2>7. QED
      BY <1>3, <1>4, <1>5, <1>7, <2>1, <2>6, Settles DEF NoteIs
  <1>11. QED
    BY <1>2, <1>8, <1>9, <1>10

-----------------------------------------------------------------------------
(* Directories. *)

LEMMA CallFindFiles ==
  ASSUME FileInv, NEW path, CallFind(path)
  PROVE  FileInv'
  <1>1. /\ disk' = disk /\ root' = root /\ entry' = entry /\ reader' = reader
        /\ failed' = failed \cap {"mount"} /\ root # NoEntry
        /\ call' = [Idle EXCEPT !.pc = "find", !.path = path, !.dir = root]
    BY DEF CallFind
  <1>2. disk \in Disks /\ root \in Entries /\ entry \in Entries /\ failed' \subseteq {"mount", "find", "open"}
    BY <1>1 DEF FileInv, StateOK
  <1>3. Settled(Idle)
    BY <1>2, IdleSettles
  <1>4. PICK c, d : c = call' /\ d = root
    OBVIOUS
  <1>5. c = [Idle EXCEPT !.pc = "find", !.path = path, !.dir = d]
    BY <1>1, <1>4
  <1>6. CallRecord(c) /\ c.pc = "find" /\ c.op = "none" /\ c.dir = d /\ c.pos = Idle.pos /\ c.lba = Idle.lba
    BY <1>5, IdleIs DEF CallRecord
  <1>7. Settled(c)
    BY <1>1, <1>2, <1>3, <1>4, <1>6 DEF Settled
  <1>8. QED
    BY <1>1, <1>2, <1>4, <1>7, Settles

LEMMA FindInFiles ==
  ASSUME FileInv, FindIn
  PROVE  FileInv'
  <1>1. PICK r \in ExtentOutcomes(call.dir) :
        \E e \in IF call.dir.len = 0 THEN {NoEntry} ELSE Search(r.buf, Element) :
          /\ Note("find", r)
          /\ IF e # NoEntry /\ call.taken + 1 < Len(call.path)
             THEN /\ call' = [call EXCEPT !.dir = e, !.taken = @ + 1]
                  /\ UNCHANGED entry
             ELSE /\ call' = [Idle EXCEPT !.op = "find", !.path = call.path]
                  /\ entry' = e
    BY DEF FindIn
  <1>2. PICK e \in IF call.dir.len = 0 THEN {NoEntry} ELSE Search(r.buf, Element) :
          /\ Note("find", r)
          /\ IF e # NoEntry /\ call.taken + 1 < Len(call.path)
             THEN /\ call' = [call EXCEPT !.dir = e, !.taken = @ + 1]
                  /\ UNCHANGED entry
             ELSE /\ call' = [Idle EXCEPT !.op = "find", !.path = call.path]
                  /\ entry' = e
    BY <1>1
  <1>3. disk' = disk /\ root' = root /\ reader' = reader /\ call.pc = "find"
    BY DEF FindIn
  <1>4. NoteIs
    BY <1>2, NoteKeeps
  <1>5. disk \in Disks /\ root \in Entries /\ entry \in Entries /\ call.dir \in Entries /\ call.dir # NoEntry
    BY <1>3 DEF FileInv, StateOK, CallOK
  <1>6. IsRecord(call.dir)
    BY <1>5, EntriesAre
  <1>7. r.buf \in Seq(Memory)
    BY <1>5, <1>6, ExtentsAre, RecordIs
  <1>8. e \in Entries
    <2>1. CASE call.dir.len = 0
      BY <1>2, <2>1 DEF Entries
    <2>2. CASE call.dir.len # 0
      BY <1>2, <1>5, <1>7, <2>2, FoundIsEntry
    <2>3. QED
      BY <2>1, <2>2
  <1>9. PICK c : c = call'
    OBVIOUS
  <1>10. CASE e # NoEntry /\ call.taken + 1 < Len(call.path)
    <2>1. c = [call EXCEPT !.dir = e, !.taken = @ + 1] /\ entry' = entry
      BY <1>2, <1>9, <1>10
    <2>2. CallRecord(call) /\ call.op = "none" /\ call.pos \in Nat /\ call.lba \in 0 .. Len(disk)
      BY <1>3 DEF FileInv, CallOK, StateOK
    <2>3. CallRecord(c) /\ c.pc = call.pc /\ c.op = call.op /\ c.dir = e /\ c.pos = call.pos /\ c.lba = call.lba
      BY <2>1, <2>2 DEF CallRecord
    <2>4. Settled(c)
      BY <1>3, <1>8, <1>10, <2>2, <2>3 DEF Settled
    <2>5. QED
      BY <1>3, <1>4, <1>5, <1>9, <2>1, <2>4, Settles DEF NoteIs
  <1>11. CASE ~(e # NoEntry /\ call.taken + 1 < Len(call.path))
    <2>1. PICK p : p = call.path
      OBVIOUS
    <2>2. c = [Idle EXCEPT !.op = "find", !.path = p] /\ entry' = e
      BY <1>2, <1>9, <1>11, <2>1
    <2>3. Settled(Idle)
      BY <1>5, IdleSettles
    <2>4. CallRecord(c) /\ c.pc = "idle" /\ c.op = "find" /\ c.dir = Idle.dir /\ c.pos = Idle.pos /\ c.lba = Idle.lba
      BY <2>2, IdleIs DEF CallRecord
    <2>5. Settled(c)
      BY <2>3, <2>4 DEF Settled
    <2>6. QED
      BY <1>3, <1>4, <1>5, <1>8, <1>9, <2>2, <2>5, Settles DEF NoteIs
  <1>12. QED
    BY <1>10, <1>11

LEMMA ReaddirFiles ==
  ASSUME FileInv, Readdir
  PROVE  FileInv'
  <1>1. PICK r \in ExtentOutcomes(entry) :
          /\ call' = [Idle EXCEPT !.op = "readdir",
                                  !.names = IF entry.len = 0 THEN <<>> ELSE Listing(r.buf)]
          /\ failed' = IF r.ok THEN failed \ {"open"} ELSE failed \cup {"open"}
    BY DEF Readdir
  <1>2. disk' = disk /\ root' = root /\ entry' = entry /\ reader' = reader
    BY DEF Readdir
  <1>3. disk \in Disks /\ root \in Entries /\ entry \in Entries /\ failed' \subseteq {"mount", "find", "open"}
    BY <1>1 DEF FileInv, StateOK
  <1>4. PICK c, names : c = call' /\ names = IF entry.len = 0 THEN <<>> ELSE Listing(r.buf)
    OBVIOUS
  <1>5. c = [Idle EXCEPT !.op = "readdir", !.names = names]
    BY <1>1, <1>4
  <1>6. CallRecord(c) /\ c.pc = "idle" /\ c.op = "readdir" /\ c.dir = Idle.dir /\ c.pos = Idle.pos /\ c.lba = Idle.lba
    BY <1>5, IdleIs DEF CallRecord
  <1>7. Settled(c)
    BY <1>3, <1>6, IdleSettles DEF Settled
  <1>8. QED
    BY <1>2, <1>3, <1>4, <1>7, Settles

-----------------------------------------------------------------------------
(* Reading files. *)

LEMMA ExtentOfIs ==
  ASSUME NEW e, e.lba \in Nat, e.len \in Nat
  PROVE  ExtentOf(e) = [m \in 1 .. e.len |-> Contents[e.lba * SectorSize + m]]
  <1>1. PICK a \in Nat : a = e.lba * SectorSize
    BY Multiples
  <1>2. PICK b \in Int : b = a + e.len /\ b - a = e.len
    OBVIOUS
  <1>3. SubSeq(Contents, a + 1, b) = [m \in 1 .. b - a |-> Contents[a + m]]
    BY Piece
  <1>4. QED
    BY <1>1, <1>2, <1>3 DEF ExtentOf

LEMMA OpenFile ==
  ASSUME FileInv, entry # NoEntry, ~entry.dir, NEW r \in ExtentOutcomes(entry), NEW rd, rd = Open(r)
  PROVE  /\ r.ok \in BOOLEAN
         /\ IsReader(rd) /\ rd.stream.pos = 0 /\ rd.eof = FALSE /\ rd.cap = InitialCapacity
         /\ rd.stream.size = entry.len /\ entry.len \in Nat
         /\ r.ok => \A m \in 1 .. entry.len : ExtentOf(entry)[m] = rd.stream.cells[m]
  <1>1. disk \in Disks /\ IsRecord(entry)
    BY EntriesAre DEF FileInv, StateOK
  <1>2. entry.lba \in Nat /\ entry.len \in Nat
    BY <1>1, RecordIs
  <1>3. /\ r.ok \in BOOLEAN /\ r.buf \in Seq(Memory) /\ entry.len <= Len(r.buf)
        /\ r.ok => IsExtent(r.buf, entry)
    BY <1>1, <1>2, ExtentsAre
  <1>4. rd = NewReader(Stream(entry.len, r.buf), FALSE)
    BY DEF Open
  <1>5. PICK no \in BOOLEAN : no = FALSE
    OBVIOUS
  <1>6. /\ IsReader(rd) /\ rd.stream.size = entry.len /\ rd.stream.cells = r.buf /\ rd.stream.pos = 0 /\ rd.eof = no
        /\ rd.cap = InitialCapacity
    <2>1. PICK size \in Nat, cells \in Seq(Memory) : size = entry.len /\ cells = r.buf
      BY <1>2, <1>3
    <2>2. rd = NewReader(Stream(size, cells), no) /\ size <= Len(cells) /\ (no => size = 0)
      BY <1>3, <1>4, <1>5, <2>1
    <2>3. QED
      BY <2>1, <2>2, NewReaderIs
  <1>7. ASSUME r.ok, NEW m \in 1 .. entry.len PROVE ExtentOf(entry)[m] = r.buf[m]
    BY <1>2, <1>3, <1>7, ExtentOfIs DEF IsExtent
  <1>8. QED
    BY <1>2, <1>3, <1>5, <1>6, <1>7

LEMMA OpenDirectory ==
  ASSUME entry.dir, NEW r, NEW rd, rd = Open(r)
  PROVE  IsReader(rd) /\ rd.stream.pos = 0 /\ rd.eof = TRUE /\ rd.stream.size = 0
  <1>1. <<>> \in Seq(Memory) /\ Len(<<>>) = 0
    OBVIOUS
  <1>2. PICK none \in Seq(Memory), zero \in Nat, yes \in BOOLEAN : none = <<>> /\ zero = 0 /\ yes = TRUE
    BY <1>1
  <1>3. rd = NewReader(Stream(zero, none), yes)
    BY <1>2 DEF Open, NoStream
  <1>4. zero <= Len(none) /\ (yes => zero = 0)
    BY <1>1, <1>2
  <1>5. IsReader(rd) /\ rd.stream.pos = 0 /\ rd.eof = yes /\ rd.stream.size = zero
    BY <1>3, <1>4, NewReaderIs
  <1>6. QED
    BY <1>2, <1>5

Reading(c) ==
  /\ CallRecord(c) /\ c.dir \in Entries /\ c.lba \in 0 .. Len(disk) /\ c.pos \in Nat
  /\ c.pc \in {"idle", "readAll", "load"}
  /\ c.op \in {"none", "read"} /\ (c.pc = "readAll" => c.op = "none")

(* A step of a reader. *)
LEMMA ReaderStep ==
  ASSUME FileInv, disk' = disk, root' = root, entry' = entry,
         failed' \subseteq {"mount", "find", "open"}, NEW c, call' = c, Reading(c),
         NEW rd, reader' = rd, IsReader(rd),
         c.pc \in {"readAll", "load"} => Matches', c.pc = "readAll" => rd.eof \/ c.pos = rd.stream.pos,
         c.pc = "load" => rd.eof, BytesRight'
  PROVE  FileInv'
  <1>1. StateOK'
    BY SameDisk DEF FileInv, StateOK, Reading
  <1>2. c.pc \in CallPlaces /\ (c.pc \notin {"idle", "load"} => c.op = "none") /\ c.op \in {"none", "mount", "find", "readdir", "read"}
        /\ c.pc # "init" /\ c.pc # "find"
    BY DEF Reading, CallPlaces
  <1>3. CallOK'
    BY <1>2 DEF CallOK, Reading, CallRecord, CallPlaces
  <1>4. IsReader(reader)'
    BY ReaderPrimed
  <1>5. FileOK'
    BY <1>4 DEF FileOK
  <1>6. QED
    BY <1>1, <1>3, <1>5 DEF FileInv

LEMMA OpenedIs ==
  ASSUME FileInv, NEW r, Opened(r)
  PROVE  failed' \subseteq {"mount", "find", "open"} /\ ("open" \notin failed' => entry.dir \/ r.ok)
  BY DEF Opened, FileInv, StateOK

LEMMA IsElfFiles ==
  ASSUME FileInv, IsElf
  PROVE  FileInv'
  <1>1. PICK r \in ExtentOutcomes(entry) :
          /\ reader' = ReadUpTo(Open(r), HeaderSize - 1)
          /\ Opened(r)
          /\ call' = [Idle EXCEPT !.op = "read", !.range = <<0, HeaderSize>>,
                                  !.bytes = BytesInRange(ReadUpTo(Open(r), HeaderSize - 1), 0, HeaderSize)]
    BY DEF IsElf
  <1>2. disk' = disk /\ root' = root /\ entry' = entry /\ entry # NoEntry /\ ~entry.dir
    BY DEF IsElf
  <1>3. PICK o, rd, b, c, g : /\ o = Open(r) /\ rd = ReadUpTo(Open(r), HeaderSize - 1)
                             /\ b = BytesInRange(rd, 0, HeaderSize) /\ c = call' /\ g = <<0, HeaderSize>>
    OBVIOUS
  <1>4. /\ r.ok \in BOOLEAN
        /\ IsReader(o) /\ o.stream.pos = 0 /\ o.eof = FALSE /\ o.cap = InitialCapacity
        /\ o.stream.size = entry.len /\ entry.len \in Nat
        /\ r.ok => \A m \in 1 .. entry.len : ExtentOf(entry)[m] = o.stream.cells[m]
    BY <1>2, <1>3, OpenFile
  <1>5. PICK h \in Nat, zero \in Nat : h = HeaderSize - 1 /\ zero = 0 /\ HeaderSize = h + 1 /\ h < 2 * o.cap
    BY <1>4, Sizes
  <1>6. rd = ReadUpTo(o, h)
    BY <1>3, <1>5
  <1>7. /\ IsReader(rd) /\ rd.stream.size = o.stream.size /\ rd.stream.cells = o.stream.cells
        /\ rd.eof \/ rd.stream.pos > h
    BY <1>4, <1>5, <1>6, ReadUpToIs
  <1>8. c = [Idle EXCEPT !.op = "read", !.range = g, !.bytes = b]
    BY <1>1, <1>3
  <1>9. /\ CallRecord(c) /\ c.pc = "idle" /\ c.op = "read" /\ c.dir = Idle.dir /\ c.pos = Idle.pos /\ c.lba = Idle.lba
        /\ c.range = g /\ c.bytes = b
    BY <1>8, IdleIs DEF CallRecord
  <1>10. Reading(c)
    <2>1. Settled(Idle)
      BY IdleSettles DEF FileInv, StateOK
    <2>2. QED
      BY <1>9, <2>1 DEF Settled, Reading
  <1>11. failed' \subseteq {"mount", "find", "open"} /\ ("open" \notin failed' => r.ok)
    BY <1>1, <1>2, OpenedIs
  <1>12. ASSUME "open" \notin failed' PROVE b = SubSeq(ExtentOf(entry), 0 + 1, Min({0 + HeaderSize, entry.len}))
    <2>1. PICK file : file = ExtentOf(entry)
      OBVIOUS
    <2>2. SameBytes(file, rd)
      BY <1>4, <1>7, <1>11, <1>12, <2>1 DEF SameBytes
    <2>3. h = zero + HeaderSize - 1
      BY <1>5, Sizes
    <2>4. RangeRight(rd, zero, HeaderSize, file)
      BY <1>7, <2>2, <2>3, RangeIs, Sizes
    <2>5. QED
      BY <1>3, <1>4, <1>5, <1>7, <2>1, <2>4 DEF RangeRight
  <1>13. BytesRight'
    <2>1. SUFFICES ASSUME "open" \notin failed'
                   PROVE  call'.bytes = SubSeq(ExtentOf(entry)', call'.range[1] + 1,
                                               Min({call'.range[1] + call'.range[2], entry.len}))
      BY <1>2, <2>1 DEF BytesRight
    <2>2. ExtentOf(entry)' = ExtentOf(entry)
      BY <1>2, SameDisk DEF ExtentOf
    <2>3. call'.bytes = b /\ call'.range = g /\ g[1] = 0 /\ g[2] = HeaderSize
      BY <1>3, <1>9
    <2>4. QED
      BY <1>12, <2>1, <2>2, <2>3
  <1>14. QED
    BY <1>1, <1>2, <1>3, <1>7, <1>9, <1>10, <1>11, <1>13, ReaderStep

LEMMA ConstructFiles ==
  ASSUME FileInv, ConstructExecutable
  PROVE  FileInv'
  <1>1. PICK r \in IF entry.dir THEN {[ok |-> TRUE, buf |-> <<>>]} ELSE ExtentOutcomes(entry) :
          reader' = Open(r) /\ Opened(r)
    BY DEF ConstructExecutable
  <1>2. disk' = disk /\ root' = root /\ entry' = entry /\ entry # NoEntry /\ call' = [Idle EXCEPT !.pc = "readAll"]
    BY DEF ConstructExecutable
  <1>3. PICK o, c : o = Open(r) /\ c = call'
    OBVIOUS
  <1>4. failed' \subseteq {"mount", "find", "open"} /\ ("open" \notin failed' => entry.dir \/ r.ok)
    BY <1>1, OpenedIs
  <1>5. CallRecord(c) /\ c.pc = "readAll" /\ c.op = "none" /\ c.dir = Idle.dir /\ c.pos = 0 /\ c.lba = Idle.lba
    BY <1>2, <1>3, IdleIs DEF CallRecord
  <1>6. Reading(c)
    <2>1. Settled(Idle)
      BY IdleSettles DEF FileInv, StateOK
    <2>2. QED
      BY <1>5, <2>1 DEF Settled, Reading
  <1>7. IsReader(o) /\ o.stream.pos = 0
    <2>1. CASE entry.dir
      BY <1>3, <2>1, OpenDirectory
    <2>2. CASE ~entry.dir
      BY <1>1, <1>2, <1>3, <2>2, OpenFile
    <2>3. QED
      BY <2>1, <2>2
  <1>8. Matches'
    <2>1. ExtentOf(entry)' = ExtentOf(entry)
      BY <1>2, SameDisk DEF ExtentOf
    <2>2. CASE entry.dir
      <3>1. o.stream.size = 0
        BY <1>3, <2>2, OpenDirectory
      <3>2. QED
        BY <1>1, <1>2, <1>3, <2>2, <3>1 DEF Matches
    <2>3. CASE ~entry.dir
      <3>1. /\ o.stream.size = entry.len
            /\ r.ok => \A m \in 1 .. entry.len : ExtentOf(entry)[m] = o.stream.cells[m]
        BY <1>1, <1>2, <1>3, <2>3, OpenFile
      <3>2. "open" \notin failed' => \A m \in 1 .. entry.len : ExtentOf(entry)[m] = o.stream.cells[m]
        BY <1>4, <2>3, <3>1
      <3>3. reader' = o
        BY <1>1, <1>3
      <3>4. QED
        BY <1>2, <2>1, <2>3, <3>1, <3>2, <3>3 DEF Matches
    <2>4. QED
      BY <2>2, <2>3
  <1>9. BytesRight'
    BY <1>3, <1>5 DEF BytesRight
  <1>10. QED
    BY <1>1, <1>2, <1>3, <1>4, <1>5, <1>6, <1>7, <1>8, <1>9, ReaderStep

(* The stream stays the same as more of it is read. *)
LEMMA StillMatches ==
  ASSUME Matches, disk' = disk, entry' = entry, failed' = failed,
         reader'.stream.size = reader.stream.size, reader'.stream.cells = reader.stream.cells
  PROVE  Matches'
  <1>1. ExtentOf(entry)' = ExtentOf(entry)
    BY SameDisk DEF ExtentOf
  <1>2. QED
    BY <1>1 DEF Matches

LEMMA ReadAllFiles ==
  ASSUME FileInv, ReadAll
  PROVE  FileInv'
  <1>1. /\ disk' = disk /\ root' = root /\ entry' = entry /\ failed' = failed
        /\ call.pc = "readAll" /\ reader' = ReadUpTo(reader, call.pos)
        /\ call' = IF IsEOF(reader', call.pos) THEN [Idle EXCEPT !.pc = "load"] ELSE [call EXCEPT !.pos = @ + 1]
    BY DEF ReadAll
  <1>2. /\ IsReader(reader) /\ Matches /\ (reader.eof \/ call.pos = reader.stream.pos)
        /\ call.pos \in Nat /\ call.op = "none" /\ CallRecord(call) /\ call.dir \in Entries /\ call.lba \in 0 .. Len(disk)
        /\ failed \subseteq {"mount", "find", "open"} /\ disk \in Disks
    BY <1>1 DEF FileInv, FileOK, CallOK, StateOK
  <1>0. PICK p \in Nat : p = call.pos
    BY <1>2
  <1>3. PICK rd, c : rd = reader' /\ c = call' /\ p = call.pos
    BY <1>0
  <1>4. reader.eof \/ p < 2 * reader.cap
    BY <1>2, <1>3 DEF IsReader, IsStream
  <1>5. /\ IsReader(rd) /\ rd.stream.size = reader.stream.size /\ rd.stream.cells = reader.stream.cells
        /\ rd.eof \/ rd.stream.pos > p
        /\ ~reader.eof /\ p = reader.stream.pos /\ ~rd.eof => rd.stream.pos = p + 1
    BY <1>1, <1>2, <1>3, <1>4, ReadUpToIs
  <1>6. IsEOF(rd, p) <=> p >= rd.stream.pos
    BY <1>5, ExtentIs DEF IsEOF
  <1>7. reader.eof => rd = reader
    BY <1>1, <1>3 DEF ReadUpTo
  <1>8. Matches'
    BY <1>1, <1>2, <1>3, <1>5, StillMatches
  <1>9. CASE IsEOF(rd, p)
    <2>1. c = [Idle EXCEPT !.pc = "load"]
      BY <1>1, <1>3, <1>9
    <2>2. CallRecord(c) /\ c.pc = "load" /\ c.op = "none" /\ c.dir = Idle.dir /\ c.pos = Idle.pos /\ c.lba = Idle.lba
      BY <2>1, IdleIs DEF CallRecord
    <2>3. Reading(c)
      BY <1>2, <2>2, IdleSettles DEF Settled, Reading
    <2>4. rd.eof
      <3>1. rd.stream.pos \in Nat
        BY <1>5, ExtentIs
      <3>2. QED
        BY <1>5, <1>6, <1>9, <3>1
    <2>5. BytesRight'
      BY <1>3, <2>2 DEF BytesRight
    <2>6. QED
      BY <1>1, <1>2, <1>3, <1>5, <1>8, <2>2, <2>3, <2>4, <2>5, ReaderStep
  <1>10. CASE ~IsEOF(rd, p)
    <2>1. c = [call EXCEPT !.pos = p + 1]
      BY <1>1, <1>3, <1>10
    <2>2. CallRecord(c) /\ c.pc = "readAll" /\ c.op = "none" /\ c.dir = call.dir /\ c.pos = p + 1 /\ c.lba = call.lba
      BY <1>1, <1>2, <2>1 DEF CallRecord
    <2>3. Reading(c)
      BY <1>2, <2>2 DEF Reading
    <2>4. rd.eof \/ c.pos = rd.stream.pos
      BY <1>2, <1>3, <1>5, <1>7, <2>2
    <2>5. BytesRight'
      BY <1>3, <2>2 DEF BytesRight
    <2>6. QED
      BY <1>1, <1>2, <1>3, <1>5, <1>8, <2>2, <2>3, <2>4, <2>5, ReaderStep
  <1>11. QED
    BY <1>9, <1>10

LEMMA ReadObjectFiles ==
  ASSUME FileInv, NEW range \in Ranges, ReadObject(range)
  PROVE  FileInv'
  <1>1. /\ disk' = disk /\ root' = root /\ entry' = entry /\ failed' = failed
        /\ call.pc = "load" /\ reader' = ReadUpTo(reader, range[1] + range[2] - 1)
        /\ call' = [call EXCEPT !.op = "read", !.range = range, !.bytes = BytesInRange(reader', range[1], range[2])]
    BY DEF ReadObject
  <1>2. /\ IsReader(reader) /\ Matches /\ reader.eof
        /\ call.pos \in Nat /\ CallRecord(call) /\ call.dir \in Entries /\ call.lba \in 0 .. Len(disk)
        /\ failed \subseteq {"mount", "find", "open"} /\ disk \in Disks /\ entry \in Entries
    BY <1>1 DEF FileInv, FileOK, CallOK, StateOK
  <1>3. reader' = reader
    BY <1>1, <1>2 DEF ReadUpTo
  <1>4. PICK f \in Nat, n \in Nat : f = range[1] /\ n = range[2] /\ n >= 1
    BY Iso9660Assumption
  <1>5. PICK b, c, rd : b = BytesInRange(rd, f, n) /\ c = call' /\ rd = reader
    OBVIOUS
  <1>6. c = [call EXCEPT !.op = "read", !.range = range, !.bytes = b]
    BY <1>1, <1>3, <1>4, <1>5
  <1>7. /\ CallRecord(c) /\ c.pc = "load" /\ c.op = "read" /\ c.dir = call.dir /\ c.pos = call.pos /\ c.lba = call.lba
        /\ c.range = range /\ c.bytes = b
    BY <1>1, <1>2, <1>6 DEF CallRecord
  <1>8. Reading(c)
    BY <1>2, <1>7 DEF Reading
  <1>9. Matches'
    BY <1>1, <1>2, <1>3, StillMatches
  <1>10. BytesRight'
    <2>1. SUFFICES ASSUME "open" \notin failed
                   PROVE  b = IF entry.dir THEN <<>> ELSE SubSeq(ExtentOf(entry), f + 1, Min({f + n, entry.len}))
      <3>1. ExtentOf(entry)' = ExtentOf(entry)
        BY <1>1, SameDisk DEF ExtentOf
      <3>2. call'.bytes = b /\ call'.range[1] = f /\ call'.range[2] = n
        BY <1>4, <1>5, <1>7
      <3>3. PICK x : x = IF entry.dir THEN <<>> ELSE SubSeq(ExtentOf(entry), f + 1, Min({f + n, entry.len}))
        OBVIOUS
      <3>4. (IF entry.dir THEN <<>>
             ELSE SubSeq(ExtentOf(entry), call.range[1] + 1, Min({call.range[1] + call.range[2], entry.len})))' = x
        <4>1. PICK E, l, d : E = ExtentOf(entry) /\ l = entry.len /\ d = entry.dir
          OBVIOUS
        <4>2. ExtentOf(entry)' = E /\ entry'.len = l /\ entry'.dir = d
          BY <1>1, <3>1, <4>1
        <4>3. x = IF d THEN <<>> ELSE SubSeq(E, f + 1, Min({f + n, l}))
          BY <3>3, <4>1
        <4>4. QED
          BY <3>2, <4>2, <4>3
      <3>5. "open" \notin failed => b = x
        BY <2>1, <3>3
      <3>6. QED
        BY <1>1, <3>2, <3>4, <3>5 DEF BytesRight
    <2>2. CASE entry.dir
      <3>1. rd.stream.size = 0
        BY <1>2, <1>5, <2>2 DEF Matches
      <3>2. rd.stream.pos = 0 /\ Extent(rd) = 0
        BY <1>2, <1>5, <3>1, ExtentIs DEF IsReader
      <3>3. PICK zero \in Int : zero = 0
        OBVIOUS
      <3>4. Min({f + n, zero}) = 0
        <4>1. f + n \in Int /\ ~(f + n <= zero)
          BY <1>4, <3>3
        <4>2. QED
          BY <3>3, <4>1, MinOfTwo
      <3>5. b = SubSeq(rd.bytes, f + 1, 0)
        BY <1>5, <3>2, <3>3, <3>4 DEF BytesInRange
      <3>6. SubSeq(rd.bytes, f + 1, zero) = [i \in 1 .. zero - f |-> rd.bytes[f + i]]
        BY Piece
      <3>7. 1 .. zero - f = {}
        BY <3>3
      <3>8. b = <<>>
        BY <3>3, <3>5, <3>6, <3>7
      <3>9. QED
        BY <2>2, <3>8
    <2>3. CASE ~entry.dir
      <3>1. rd.stream.size = entry.len /\ \A m \in 1 .. entry.len : ExtentOf(entry)[m] = rd.stream.cells[m]
        BY <1>2, <1>5, <2>1, <2>3 DEF Matches
      <3>2. PICK file : file = ExtentOf(entry)
        OBVIOUS
      <3>3. SameBytes(file, rd)
        BY <3>1, <3>2 DEF SameBytes
      <3>4. IsReader(rd) /\ rd.eof
        BY <1>2, <1>5
      <3>7. PICK last : last = f + n - 1
        OBVIOUS
      <3>8. RangeRight(rd, f, n, file)
        BY <1>4, <3>3, <3>4, <3>7, RangeIs
      <3>5. b = SubSeq(file, f + 1, Min({f + n, rd.stream.size}))
        BY <1>5, <3>8 DEF RangeRight
      <3>6. QED
        BY <2>3, <3>1, <3>2, <3>5
    <2>4. QED
      BY <2>2, <2>3
  <1>11. QED
    BY <1>1, <1>2, <1>3, <1>5, <1>7, <1>8, <1>9, <1>10, ReaderStep

LEMMA ConstructedFiles ==
  ASSUME FileInv, Constructed
  PROVE  FileInv'
  <1>1. disk' = disk /\ root' = root /\ entry' = entry /\ reader' = reader /\ failed' = failed /\ call' = Idle
    BY DEF Constructed
  <1>2. Settled(Idle) /\ root \in Entries /\ entry \in Entries /\ failed \subseteq {"mount", "find", "open"}
    BY IdleSettles DEF FileInv, StateOK
  <1>3. QED
    BY <1>1, <1>2, Settles

LEMMA StepFiles ==
  ASSUME FileInv, [Next]_vars
  PROVE  FileInv'
  <1>1. CASE UNCHANGED vars
    <2>1. disk' = disk /\ root' = root /\ entry' = entry /\ reader' = reader /\ failed' = failed /\ call' = call
      BY <1>1 DEF vars
    <2>2. StateOK' /\ CallOK'
      BY <2>1, SameDisk DEF FileInv, StateOK, CallOK, CallRecord, CallPlaces
    <2>3. IsReader(reader)'
      BY <2>1, ReaderPrimed DEF FileInv, FileOK
    <2>4. FileOK'
      <3>1. ExtentOf(entry)' = ExtentOf(entry)
        BY <2>1, SameDisk DEF ExtentOf
      <3>2. QED
        BY <2>1, <2>3, <3>1 DEF FileInv, FileOK, Matches, BytesRight
    <2>5. QED
      BY <2>2, <2>4 DEF FileInv
  <1>2. CASE Next
    BY <1>2, ProbeFiles, CreateFiles, InitRoundFiles, CallFindFiles, FindInFiles, ReaddirFiles, IsElfFiles,
       ConstructFiles, ReadAllFiles, ReadObjectFiles, ConstructedFiles DEF Next
  <1>3. QED
    BY <1>1, <1>2

LEMMA FilesHold == Spec => []FileInv
  BY InitFiles, StepFiles, PTL DEF Spec

(* What isElf and the constructor of Executable get of a file are its      *)
(* bytes on the disk, up to its end, and the cache of FileReader is not    *)
(* overrun, for all disks, sector sizes, capacities, headers and ranges,   *)
(* if the file was read without an error.                                  *)
THEOREM FilesReadAsOnDisk == Spec => []BytesAsOnDisk
  BY FilesHold, FileInvTypes, PTL

-----------------------------------------------------------------------------
(* Orderly directories, as they are read. *)

LEMMA OrderlyRead ==
  ASSUME disk \in Disks, NEW e, IsRecord(e), Orderly(e), NEW buf, IsExtent(buf, e), NEW k, k = Len(Records(buf))
  PROVE  /\ k \in Nat /\ e.len # 0 /\ ~Strays(buf)
         /\ Children(e) = {buf[i] : i \in 1 .. k}
         /\ \A i \in 1 .. k : IsRecord(buf[i])
  <1>1. e.lba \in Nat /\ e.len \in Nat
    BY RecordIs
  <1>2. PICK len \in Nat : len = e.len
    BY <1>1
  <1>3. PICK cells : cells = ExtentOf(e)
    OBVIOUS
  <1>4. cells = [m \in 1 .. len |-> Contents[e.lba * SectorSize + m]]
    BY <1>1, <1>2, <1>3, ExtentOfIs
  <1>5. buf \in Seq(Memory) /\ len <= Len(buf) /\ Len(buf) \in Nat /\ \A m \in 1 .. len : buf[m] = cells[m]
    <2>1. \A m \in 1 .. len : buf[m] = Contents[e.lba * SectorSize + m]
      BY <1>2 DEF IsExtent
    <2>2. QED
      BY <1>2, <1>4, <2>1, LenProperties DEF IsExtent
  <1>6. PICK n \in 0 .. len - 1 : \A i \in 1 .. len : IF i <= n THEN cells[i].kind = "record" ELSE cells[i] = Pad
    BY <1>2, <1>3 DEF Orderly
  <1>7. /\ k \in 0 .. Len(buf)
        /\ \A i \in 1 .. k : buf[i].kind = "record"
        /\ k = Len(buf) \/ buf[k + 1].kind # "record"
    BY <1>5, RecordsAre
  <1>8. Pad.kind = "pad" /\ "pad" # "record"
    BY DEF Pad
  <1>9. n + 1 \in 1 .. len /\ cells[n + 1] = Pad
    BY <1>6
  <1>10. ~(n < k)
    <2>1. SUFFICES ASSUME n < k PROVE FALSE
      OBVIOUS
    <2>2. n + 1 \in 1 .. k
      BY <1>6, <1>7, <2>1
    <2>3. QED
      BY <1>5, <1>7, <1>8, <1>9, <2>2
  <1>11. ~(k < n)
    <2>1. SUFFICES ASSUME k < n PROVE FALSE
      OBVIOUS
    <2>2. k + 1 \in 1 .. len /\ k + 1 <= n /\ k # Len(buf)
      BY <1>5, <1>6, <1>7, <2>1
    <2>3. cells[k + 1].kind = "record"
      BY <1>6, <2>2
    <2>4. QED
      BY <1>5, <1>7, <2>2, <2>3
  <1>12. k = n
    BY <1>5, <1>6, <1>7, <1>10, <1>11
  <1>13. ~Strays(buf)
    <2>1. k # Len(buf) /\ buf[k + 1] = Pad
      BY <1>5, <1>6, <1>9, <1>12
    <2>2. QED
      BY <2>1 DEF Strays
  <1>14. Children(e) = {buf[i] : i \in 1 .. k}
    <2>1. ToSet(cells) = {cells[i] : i \in 1 .. len}
      BY <1>4 DEF ToSet
    <2>2. ASSUME NEW c \in Children(e) PROVE c \in {buf[i] : i \in 1 .. k}
      <3>1. c \in ToSet(cells) /\ c.kind = "record"
        BY <1>3, <2>2 DEF Children
      <3>2. PICK i \in 1 .. len : c = cells[i]
        BY <2>1, <3>1
      <3>3. i <= n
        BY <1>6, <1>8, <3>1, <3>2
      <3>4. i \in 1 .. k /\ c = buf[i]
        BY <1>5, <1>12, <3>2, <3>3
      <3>5. QED
        BY <3>4
    <2>3. ASSUME NEW i \in 1 .. k PROVE buf[i] \in Children(e)
      <3>1. i \in 1 .. len
        BY <1>6, <1>12
      <3>2. buf[i] \in ToSet(cells) /\ buf[i].kind = "record"
        BY <1>5, <1>7, <2>1, <3>1
      <3>3. QED
        BY <1>3, <3>2 DEF Children
    <2>4. QED
      BY <2>2, <2>3
  <1>15. ASSUME NEW i \in 1 .. k PROVE IsRecord(buf[i])
    <2>1. i \in 1 .. Len(buf)
      BY <1>5, <1>7
    <2>2. buf[i] \in Memory
      BY <1>5, <2>1, LenProperties
    <2>3. QED
      BY <1>7, <2>2, HeldRecords
  <1>16. k \in Nat /\ e.len # 0
    BY <1>2, <1>6, <1>12
  <1>17. QED
    BY <1>13, <1>14, <1>15, <1>16

LEMMA ListedNameIs ==
  ASSUME NEW c, IsRecord(c)
  PROVE  /\ c.iso = Dot => ListedName(c) = <<".">>
         /\ c.iso = DotDot => ListedName(c) = <<"..">>
         /\ (c.iso \notin {Dot, DotDot} /\ Name(c) # c.iso) => ListedName(c) = Name(c)
  <1>1. Dot # DotDot
    <2>1. Len(Dot) = 0 /\ Len(DotDot) = 1
      BY DEF Dot, DotDot
    <2>2. QED
      BY <2>1
  <1>2. c.iso = Dot => ListedName(c) = <<".">>
    BY <1>1 DEF ListedName
  <1>3. c.iso = DotDot => ListedName(c) = <<"..">>
    BY <1>1 DEF ListedName
  <1>4. ASSUME c.iso \notin {Dot, DotDot}, Name(c) # c.iso PROVE ListedName(c) = Name(c)
    <2>1. PICK x : x = FixEntryName(c.iso)
      OBVIOUS
    <2>2. PICK d : d = [c EXCEPT !.iso = x]
      OBVIOUS
    <2>3. c = [kind |-> "record", iso |-> c.iso, susp |-> c.susp, dir |-> c.dir, lba |-> c.lba, len |-> c.len]
      BY DEF IsRecord, Record
    <2>4. d.susp = c.susp
      BY <2>2, <2>3
    <2>5. RockRidgeNames(c.susp) # {}
      BY <1>4 DEF Name
    <2>6. Name(d) = Name(c)
      BY <2>4, <2>5 DEF Name
    <2>7. ListedName(c) = Name([c EXCEPT !.iso = FixEntryName(c.iso)])
      BY <1>4 DEF ListedName
    <2>8. QED
      BY <2>1, <2>2, <2>6, <2>7
  <1>5. QED
    BY <1>2, <1>3, <1>4

LEMMA ListingIs ==
  ASSUME NEW buf \in Seq(Memory), NEW k, k = Len(Records(buf))
  PROVE  ToSet(Listing(buf)) = {ListedName(buf[i]) : i \in 1 .. k}
  <1>1. PICK all : all = Records(buf)
    OBVIOUS
  <1>2. k \in Nat /\ k = Len(all) /\ all = [i \in 1 .. k |-> buf[i]]
    BY <1>1, RecordsAre
  <1>3. Listing(buf) = [i \in 1 .. k |-> ListedName(all[i])]
    BY <1>1, <1>2 DEF Listing
  <1>4. \A i \in 1 .. k : all[i] = buf[i]
    BY <1>2
  <1>5. QED
    BY <1>3, <1>4 DEF ToSet

(* What readdir listed is what it read of the directory's extent.          *)
ListInv ==
  (call.op = "readdir" /\ "open" \notin failed) =>
    /\ entry # NoEntry
    /\ \E buf : /\ IsExtent(buf, entry)
                /\ call.names = IF entry.len = 0 THEN <<>> ELSE Listing(buf)

LEMMA ListInvFound ==
  ASSUME FileInv, ListInv
  PROVE  ListedCanBeFound
  <1> DEFINE named == {c \in Children(entry) : c.iso \notin {Dot, DotDot}}
             dots == {<<".">>, <<"..">>}
  <1>1. SUFFICES ASSUME call.op = "readdir", "open" \notin failed, Orderly(entry), \A c \in named : Name(c) # c.iso
                 PROVE  ToSet(call.names) \ dots = {Name(c) : c \in named} \ dots
    BY DEF ListedCanBeFound
  <1>2. disk \in Disks /\ entry # NoEntry /\ IsRecord(entry)
    BY <1>1, EntriesAre DEF FileInv, StateOK, ListInv
  <1>3. PICK buf : /\ IsExtent(buf, entry)
                   /\ call.names = IF entry.len = 0 THEN <<>> ELSE Listing(buf)
    BY <1>1 DEF ListInv
  <1>4. PICK k : k = Len(Records(buf))
    OBVIOUS
  <1>5. /\ entry.len # 0 /\ Children(entry) = {buf[i] : i \in 1 .. k}
        /\ \A i \in 1 .. k : IsRecord(buf[i])
    BY <1>1, <1>2, <1>3, <1>4, OrderlyRead
  <1>6. ToSet(call.names) = {ListedName(buf[i]) : i \in 1 .. k}
    BY <1>3, <1>4, <1>5, ListingIs DEF IsExtent
  <1>7. ASSUME NEW x \in ToSet(call.names), x \notin dots PROVE x \in {Name(c) : c \in named}
    <2>1. PICK i \in 1 .. k : x = ListedName(buf[i])
      BY <1>6, <1>7
    <2>2. PICK c : c = buf[i]
      OBVIOUS
    <2>3. IsRecord(c) /\ c \in Children(entry)
      BY <1>5, <2>2
    <2>4. c.iso \notin {Dot, DotDot}
      BY <1>7, <2>1, <2>2, <2>3, ListedNameIs
    <2>5. c \in named
      BY <2>3, <2>4
    <2>6. x = Name(c)
      BY <1>1, <2>1, <2>2, <2>3, <2>4, <2>5, ListedNameIs
    <2>7. QED
      BY <2>5, <2>6
  <1>8. ASSUME NEW c \in named PROVE Name(c) \in ToSet(call.names)
    <2>1. PICK i \in 1 .. k : c = buf[i]
      BY <1>5
    <2>2. IsRecord(c) /\ c.iso \notin {Dot, DotDot} /\ Name(c) # c.iso
      BY <1>1, <1>5, <2>1
    <2>3. ListedName(c) = Name(c)
      BY <2>2, ListedNameIs
    <2>4. QED
      BY <1>6, <2>1, <2>3
  <1>9. QED
    BY <1>7, <1>8

(* Only readdir leaves a listing. *)
LEMMA OtherCalls ==
  ASSUME FileInv, Next, ~Readdir
  PROVE  call'.op # "readdir"
  <1>1. CallRecord(call) /\ (call.pc \notin {"idle", "load"} => call.op = "none")
    BY DEF FileInv, CallOK
  <1>2. CASE Probe
    BY <1>2, IdleIs DEF Probe, CallRecord
  <1>3. CASE CreateVolume
    BY <1>3, IdleIs DEF CreateVolume, CallRecord
  <1>4. CASE InitRound
    <2>1. call.op = "none"
      BY <1>1, <1>4 DEF InitRound
    <2>2. PICK l, b : \/ call' = [Idle EXCEPT !.op = "mount"]
                      \/ call' = [Idle EXCEPT !.pc = "panic"]
                      \/ call' = [call EXCEPT !.lba = l, !.buf = b]
      BY <1>4 DEF InitRound
    <2>3. QED
      BY <1>1, <2>1, <2>2, IdleIs DEF CallRecord
  <1>5. CASE FindIn
    <2>1. call.op = "none"
      BY <1>1, <1>5 DEF FindIn
    <2>2. PICK e, p : \/ call' = [call EXCEPT !.dir = e, !.taken = @ + 1]
                      \/ call' = [Idle EXCEPT !.op = "find", !.path = p]
      BY <1>5 DEF FindIn
    <2>3. QED
      BY <1>1, <2>1, <2>2, IdleIs DEF CallRecord
  <1>6. CASE IsElf
    <2>1. PICK b : call' = [Idle EXCEPT !.op = "read", !.range = <<0, HeaderSize>>, !.bytes = b]
      BY <1>6 DEF IsElf
    <2>2. QED
      BY <2>1, IdleIs DEF CallRecord
  <1>7. CASE ConstructExecutable
    BY <1>7, IdleIs DEF ConstructExecutable, CallRecord
  <1>8. CASE ReadAll
    <2>1. call.op = "none"
      BY <1>1, <1>8 DEF ReadAll
    <2>2. call' = [Idle EXCEPT !.pc = "load"] \/ call' = [call EXCEPT !.pos = @ + 1]
      BY <1>8 DEF ReadAll
    <2>3. QED
      BY <1>1, <2>1, <2>2, IdleIs DEF CallRecord
  <1>9. CASE Constructed
    BY <1>9, IdleIs DEF Constructed
  <1>10. ASSUME NEW path \in Paths, CallFind(path) PROVE call'.op # "readdir"
    BY <1>10, IdleIs DEF CallFind, CallRecord
  <1>11. ASSUME NEW range \in Ranges, ReadObject(range) PROVE call'.op # "readdir"
    <2>1. PICK b : call' = [call EXCEPT !.op = "read", !.range = range, !.bytes = b]
      BY <1>11 DEF ReadObject
    <2>2. QED
      BY <1>1, <2>1 DEF CallRecord
  <1>12. QED
    BY <1>2, <1>3, <1>4, <1>5, <1>6, <1>7, <1>8, <1>9, <1>10, <1>11 DEF Next

LEMMA ExtentPrimed ==
  ASSUME disk' = disk, NEW buf, IsExtent(buf, entry), entry' = entry
  PROVE  IsExtent(buf, entry)'
  BY SameDisk DEF IsExtent

LEMMA StepList ==
  ASSUME FileInv, ListInv, [Next]_vars
  PROVE  ListInv'
  <1>1. CASE UNCHANGED vars
    <2>1. disk' = disk /\ entry' = entry /\ failed' = failed /\ call' = call
      BY <1>1 DEF vars
    <2>2. CASE ~(call.op = "readdir" /\ "open" \notin failed)
      BY <2>1, <2>2 DEF ListInv
    <2>3. CASE call.op = "readdir" /\ "open" \notin failed
      <3>1. entry # NoEntry
        BY <2>3 DEF ListInv
      <3>2. PICK buf : /\ IsExtent(buf, entry)
                       /\ call.names = IF entry.len = 0 THEN <<>> ELSE Listing(buf)
        BY <2>3 DEF ListInv
      <3>3. IsExtent(buf, entry)'
        BY <2>1, <3>2, ExtentPrimed
      <3>4. call'.names = IF entry'.len = 0 THEN <<>> ELSE Listing(buf)
        BY <2>1, <3>2
      <3>5. QED
        BY <2>1, <3>1, <3>3, <3>4 DEF ListInv
    <2>4. QED
      BY <2>2, <2>3
  <1>2. CASE Next /\ ~Readdir
    BY <1>2, OtherCalls DEF ListInv
  <1>3. CASE Readdir
    <2>1. PICK r \in ExtentOutcomes(entry) :
            /\ call' = [Idle EXCEPT !.op = "readdir",
                                    !.names = IF entry.len = 0 THEN <<>> ELSE Listing(r.buf)]
            /\ failed' = IF r.ok THEN failed \ {"open"} ELSE failed \cup {"open"}
      BY <1>3 DEF Readdir
    <2>2. disk' = disk /\ entry' = entry /\ entry # NoEntry
      BY <1>3 DEF Readdir
    <2>3. PICK names, buf : buf = r.buf /\ names = IF entry.len = 0 THEN <<>> ELSE Listing(buf)
      OBVIOUS
    <2>4. call'.names = names
      BY <2>1, <2>3, IdleIs DEF CallRecord
    <2>5. ASSUME "open" \notin failed' PROVE IsExtent(buf, entry)'
      <3>1. r.ok
        BY <2>1, <2>5
      <3>2. disk \in Disks /\ IsRecord(entry)
        BY <2>2, EntriesAre DEF FileInv, StateOK
      <3>3. IsExtent(buf, entry)
        BY <2>1, <2>3, <3>1, <3>2, ExtentsAre, RecordIs
      <3>4. QED
        BY <2>2, <3>3, ExtentPrimed
    <2>6. names = IF entry'.len = 0 THEN <<>> ELSE Listing(buf)
      BY <2>2, <2>3
    <2>7. QED
      BY <2>2, <2>4, <2>5, <2>6 DEF ListInv
  <1>4. QED
    BY <1>1, <1>2, <1>3

LEMMA InitList == Init => ListInv
  BY IdleIs DEF Init, ListInv

(* readdir lists the Rock Ridge names under which find looks for the       *)
(* entries of an orderly directory, and no others, for all disks.          *)
THEOREM ListingMatchesFind == Spec => []ListedCanBeFound
  <1>1. Init => FileInv /\ ListInv
    BY InitFiles, InitList
  <1>2. FileInv /\ ListInv /\ [Next]_vars => (FileInv /\ ListInv)'
    BY StepFiles, StepList
  <1>3. FileInv /\ ListInv => ListedCanBeFound
    BY ListInvFound
  <1>4. QED
    BY <1>1, <1>2, <1>3, PTL DEF Spec

-----------------------------------------------------------------------------
(* What a path leads to. *)

NextReached(dirs, name) ==
  {c \in UNION {Children(d) : d \in {x \in dirs : x.dir}} : Name(c) = name}

ReachStep(path, g, i) == IF i = 0 THEN Roots ELSE NextReached(g[i - 1], path[i])
IsReach(path, n, g) == g = [i \in 0 .. n |-> ReachStep(path, g, i)]

LEMMA ReachExists ==
  ASSUME NEW path, NEW n \in Nat
  PROVE  \E g : IsReach(path, n, g)
  <1> DEFINE Failing == {m \in Nat : ~\E g : IsReach(path, m, g)}
  <1>1. SUFFICES ASSUME Failing # {} PROVE FALSE
    OBVIOUS
  <1>2. PICK m \in Failing : \A l \in Failing : m <= l
    <2>1. Failing \in SUBSET Nat
      OBVIOUS
    <2>2. QED
      BY <1>1, <2>1, Least
  <1>3. CASE m = 0
    <2>1. PICK g : g = [i \in 0 .. 0 |-> Roots]
      OBVIOUS
    <2>2. \A i \in 0 .. 0 : ReachStep(path, g, i) = Roots
      BY DEF ReachStep
    <2>3. IsReach(path, 0, g)
      BY <2>1, <2>2 DEF IsReach
    <2>4. QED
      BY <1>2, <1>3, <2>3
  <1>4. CASE m # 0
    <2>1. PICK l : l = m - 1
      OBVIOUS
    <2>2. l \in Nat /\ m = l + 1 /\ l < m
      BY <1>4, <2>1
    <2>3. l \notin Failing
      BY <1>2, <2>2
    <2>4. PICK g : IsReach(path, l, g)
      BY <2>2, <2>3
    <2>5. PICK h : h = [i \in 0 .. l + 1 |-> IF i <= l THEN g[i] ELSE ReachStep(path, g, i)]
      OBVIOUS
    <2>6. \A i \in 0 .. l : g[i] = ReachStep(path, g, i)
      BY <2>4 DEF IsReach
    <2>7. ASSUME NEW i \in 0 .. l + 1 PROVE h[i] = ReachStep(path, h, i)
      <3>1. CASE i = 0
        BY <2>2, <2>5, <2>6, <3>1 DEF ReachStep
      <3>2. CASE i # 0
        <4>1. i - 1 \in 0 .. l + 1 /\ i - 1 <= l
          BY <2>2, <3>2
        <4>2. h[i - 1] = g[i - 1]
          BY <2>5, <4>1
        <4>3. ReachStep(path, h, i) = ReachStep(path, g, i)
          BY <4>2 DEF ReachStep
        <4>4. h[i] = ReachStep(path, g, i)
          BY <2>2, <2>5, <2>6
        <4>5. QED
          BY <4>3, <4>4
      <3>3. QED
        BY <3>1, <3>2
    <2>8. IsReach(path, l + 1, h)
      <3>1. h = [i \in 0 .. l + 1 |-> h[i]]
        BY <2>5
      <3>2. QED
        BY <2>7, <3>1 DEF IsReach
    <2>9. QED
      BY <1>2, <2>2, <2>8
  <1>5. QED
    BY <1>3, <1>4

LEMMA ReachedIs ==
  ASSUME NEW path, Len(path) \in Nat
  PROVE  /\ Reached(path, 0) = Roots
         /\ \A k \in 1 .. Len(path) : Reached(path, k) = NextReached(Reached(path, k - 1), path[k])
  <1>1. PICK n \in Nat : n = Len(path)
    OBVIOUS
  <1>2. PICK g : g = CHOOSE h : IsReach(path, n, h)
    OBVIOUS
  <1>3. IsReach(path, n, g)
    <2>1. \E h : IsReach(path, n, h)
      BY ReachExists
    <2>2. QED
      BY <1>2, <2>1, Zenon
  <1>4. ASSUME NEW k PROVE Reached(path, k) = (CHOOSE h : IsReach(path, Len(path), h))[k]
    BY Zenon DEF Reached, IsReach, ReachStep, NextReached
  <1>5. \A k : Reached(path, k) = g[k]
    BY <1>1, <1>2, <1>4
  <1>6. \A i \in 0 .. n : g[i] = ReachStep(path, g, i)
    BY <1>3 DEF IsReach
  <1>7. g[0] = Roots
    BY <1>6 DEF ReachStep
  <1>8. ASSUME NEW k \in 1 .. n PROVE g[k] = NextReached(g[k - 1], path[k])
    BY <1>6 DEF ReachStep
  <1>9. QED
    BY <1>1, <1>5, <1>7, <1>8

(* The same of a disk that is named. *)
RootsOn(d) == {c.root : c \in {x \in ToSet(FlattenSeq(d)) : x.kind = "descriptor" /\ x.type = "primary"}}

ChildrenOn(d, e) ==
  {c \in ToSet(SubSeq(FlattenSeq(d), e.lba * SectorSize + 1, e.lba * SectorSize + e.len)) : c.kind = "record"}

ReachedOn(d, path, k) ==
  LET after[n \in 0 .. Len(path)] ==
        IF n = 0 THEN RootsOn(d)
        ELSE {c \in UNION {ChildrenOn(d, e) : e \in {x \in after[n - 1] : x.dir}} : Name(c) = path[n]}
  IN  after[k]

LEMMA ReachedPrimed ==
  ASSUME disk' = disk, NEW path, NEW k
  PROVE  (Reached(path, k))' = Reached(path, k)
  <1>1. Reached(path, k) = ReachedOn(disk, path, k)
    BY Zenon DEF Reached, Roots, Children, ExtentOf, Contents, ReachedOn, RootsOn, ChildrenOn
  <1>2. (Reached(path, k))' = ReachedOn(disk', path, k)
    BY Zenon DEF Reached, Roots, Children, ExtentOf, Contents, ReachedOn, RootsOn, ChildrenOn
  <1>3. QED
    BY <1>1, <1>2

GoodDir(d) == Orderly(d) /\ Named(d)

(* What find is expected to be right for. *)
Lookable(path) ==
  /\ WellFormed
  /\ \A d \in Roots : GoodDir(d)
  /\ \A k \in 0 .. Len(path) - 1 : \A d \in Reached(path, k) : GoodDir(d)

Single(dirs) == \A x, y \in dirs : x = y

LEMMA NextSingle ==
  ASSUME NEW dirs, Single(dirs), \A d \in dirs : GoodDir(d), NEW name
  PROVE  Single(NextReached(dirs, name))
  <1>1. ASSUME NEW x \in NextReached(dirs, name), NEW y \in NextReached(dirs, name) PROVE x = y
    <2>1. PICK d \in dirs : x \in Children(d) /\ Name(x) = name
      BY <1>1 DEF NextReached
    <2>2. PICK e \in dirs : y \in Children(e) /\ Name(y) = name
      BY <1>1 DEF NextReached
    <2>3. d = e
      BY DEF Single
    <2>4. QED
      BY <2>1, <2>2, <2>3 DEF GoodDir, Named
  <1>2. QED
    BY <1>1 DEF Single

(* A path leads to one entry at most. *)
LEMMA ReachedSingle ==
  ASSUME NEW path, Len(path) \in Nat, Lookable(path), NEW k \in 0 .. Len(path)
  PROVE  Single(Reached(path, k))
  <1> DEFINE Failing == {m \in 0 .. Len(path) : ~Single(Reached(path, m))}
  <1>1. SUFFICES ASSUME Failing # {} PROVE FALSE
    OBVIOUS
  <1>2. PICK m \in Failing : \A l \in Failing : m <= l
    <2>1. Failing \in SUBSET Nat
      OBVIOUS
    <2>2. QED
      BY <1>1, <2>1, Least
  <1>3. CASE m = 0
    <2>1. Single(Roots)
      BY DEF Single, Lookable, WellFormed
    <2>2. QED
      BY <1>2, <1>3, <2>1, ReachedIs
  <1>4. CASE m # 0
    <2>1. PICK l : l = m - 1
      OBVIOUS
    <2>2. l \in 0 .. Len(path) - 1 /\ l \in 0 .. Len(path) /\ m \in 1 .. Len(path) /\ l < m /\ m \in Int
      BY <1>4, <2>1
    <2>3. Single(Reached(path, l))
      BY <1>2, <2>2
    <2>4. \A d \in Reached(path, l) : GoodDir(d)
      BY <2>2 DEF Lookable
    <2>5. Reached(path, m) = NextReached(Reached(path, l), path[m])
      BY <2>1, <2>2, ReachedIs
    <2>6. PICK dirs : dirs = Reached(path, l)
      OBVIOUS
    <2>7. Single(NextReached(dirs, path[m]))
      BY <2>3, <2>4, <2>6, NextSingle
    <2>8. QED
      BY <1>2, <2>5, <2>6, <2>7
  <1>5. QED
    BY <1>3, <1>4

(* What is behind a name that is not there is not there.                   *)
LEMMA ReachedNothing ==
  ASSUME NEW path, Len(path) \in Nat, NEW k \in 0 .. Len(path), Reached(path, k) = {}
  PROVE  Reached(path, Len(path)) = {}
  <1> DEFINE Failing == {m \in k .. Len(path) : Reached(path, m) # {}}
  <1>1. SUFFICES ASSUME Failing # {} PROVE FALSE
    <2>1. Len(path) \in k .. Len(path)
      OBVIOUS
    <2>2. QED
      BY <2>1
  <1>2. PICK m \in Failing : \A l \in Failing : m <= l
    <2>1. Failing \in SUBSET Nat
      OBVIOUS
    <2>2. QED
      BY <1>1, <2>1, Least
  <1>3. m # k
    OBVIOUS
  <1>4. PICK l : l = m - 1
    OBVIOUS
  <1>5. l \in k .. Len(path) /\ m \in 1 .. Len(path) /\ l < m /\ m \in Int
    BY <1>3, <1>4
  <1>6. Reached(path, l) = {}
    BY <1>2, <1>5
  <1>7. Reached(path, m) = NextReached(Reached(path, l), path[m])
    BY <1>4, <1>5, ReachedIs
  <1>8. NextReached({}, path[m]) = {}
    BY DEF NextReached
  <1>9. QED
    BY <1>2, <1>6, <1>7, <1>8

(* The name is looked up in the directory the path led to so far.          *)
LEMMA ReachedNext ==
  ASSUME NEW path, Len(path) \in Nat, Lookable(path), NEW k \in 1 .. Len(path), NEW d, d \in Reached(path, k - 1)
  PROVE  Reached(path, k) = {c \in Children(d) : Name(c) = path[k]}
  <1>1. PICK dirs : dirs = Reached(path, k - 1)
    OBVIOUS
  <1>2. k - 1 \in 0 .. Len(path) /\ k - 1 \in 0 .. Len(path) - 1
    OBVIOUS
  <1>3. Single(dirs) /\ d \in dirs
    BY <1>1, <1>2, ReachedSingle
  <1>4. dirs = {d}
    BY <1>3 DEF Single
  <1>5. d.dir
    BY <1>2 DEF Lookable, GoodDir, Orderly
  <1>6. Reached(path, k) = NextReached(dirs, path[k])
    BY <1>1, ReachedIs
  <1>7. QED
    BY <1>4, <1>5, <1>6 DEF NextReached

LEMMA LookablePrimed ==
  ASSUME disk' = disk, NEW path
  PROVE  Lookable(path)' <=> Lookable(path)
  <1>1. Roots' = Roots /\ Contents' = Contents
    BY SameDisk
  <1>2. \A d : (ExtentOf(d))' = ExtentOf(d)
    BY <1>1 DEF ExtentOf
  <1>3. \A d : (Children(d))' = Children(d)
    BY <1>2 DEF Children
  <1>4. ASSUME NEW d PROVE (Orderly(d))' <=> Orderly(d)
    <2>1. (ExtentOf(d))' = ExtentOf(d)
      BY <1>2
    <2>2. QED
      BY <1>1, <2>1 DEF Orderly
  <1>5. ASSUME NEW d PROVE (Named(d))' <=> Named(d)
    <2>1. (Children(d))' = Children(d)
      BY <1>3
    <2>2. QED
      BY <2>1 DEF Named
  <1>6. ASSUME NEW d PROVE (GoodDir(d))' <=> GoodDir(d)
    BY <1>4, <1>5 DEF GoodDir
  <1>7. WellFormed' <=> WellFormed
    BY <1>1 DEF WellFormed
  <1>8. \A k : (Reached(path, k))' = Reached(path, k)
    BY ReachedPrimed
  <1>9. QED
    BY <1>1, <1>6, <1>7, <1>8 DEF Lookable

-----------------------------------------------------------------------------
(* Mounting a well-formed volume. *)

(* The descriptors of disk d end with the terminator in its sector `last'. *)
Terminated(d, last) ==
  /\ last \in FirstDescriptor + 1 .. Len(d)
  /\ \A i \in FirstDescriptor + 1 .. last :
       d[i][1].kind = "descriptor" /\ (d[i][1].type = "terminator" <=> i = last)

(* The walk of Volume::init does not pass the terminator, and what it      *)
(* takes for the root directory is one.                                    *)
MountOK(last) ==
  /\ root = NoEntry \/ root \in Roots
  /\ call.pc = "init" => call.lba + 1 \in FirstDescriptor + 1 .. last

MountInv == \A last : (Terminated(disk, last) /\ "mount" \notin failed) => MountOK(last)

LEMMA MountKept ==
  ASSUME MountInv, disk' = disk, root' = root, "mount" \notin failed' => "mount" \notin failed, call'.pc # "init"
  PROVE  MountInv'
  BY SameDisk DEF MountInv, MountOK

LEMMA CallsElsewhere ==
  ASSUME FileInv, Next, ~Probe, ~CreateVolume, ~InitRound
  PROVE  /\ disk' = disk /\ root' = root /\ call'.pc # "init"
         /\ "mount" \notin failed' => "mount" \notin failed
  <1>1. CallRecord(call)
    BY DEF FileInv, CallOK
  <1>2. CASE FindIn
    <2>1. PICK e, p : \/ call' = [call EXCEPT !.dir = e, !.taken = @ + 1]
                      \/ call' = [Idle EXCEPT !.op = "find", !.path = p]
      BY <1>2 DEF FindIn
    <2>2. call.pc = "find" /\ disk' = disk /\ root' = root
      BY <1>2 DEF FindIn
    <2>3. call'.pc # "init"
      BY <1>1, <2>1, <2>2, IdleIs DEF CallRecord
    <2>4. PICK r : Note("find", r)
      BY <1>2 DEF FindIn
    <2>5. QED
      BY <2>2, <2>3, <2>4 DEF Note
  <1>3. CASE Readdir
    <2>1. PICK n : call' = [Idle EXCEPT !.op = "readdir", !.names = n]
      BY <1>3 DEF Readdir
    <2>2. call'.pc # "init"
      BY <2>1, IdleIs DEF CallRecord
    <2>3. QED
      BY <1>3, <2>2 DEF Readdir
  <1>4. CASE IsElf
    <2>1. PICK b : call' = [Idle EXCEPT !.op = "read", !.range = <<0, HeaderSize>>, !.bytes = b]
      BY <1>4 DEF IsElf
    <2>2. call'.pc # "init"
      BY <2>1, IdleIs DEF CallRecord
    <2>3. PICK r : Opened(r)
      BY <1>4 DEF IsElf
    <2>4. QED
      BY <1>4, <2>2, <2>3 DEF IsElf, Opened
  <1>5. CASE ConstructExecutable
    <2>1. call'.pc # "init"
      BY <1>5, IdleIs DEF ConstructExecutable, CallRecord
    <2>2. PICK r : Opened(r)
      BY <1>5 DEF ConstructExecutable
    <2>3. QED
      BY <1>5, <2>1, <2>2 DEF ConstructExecutable, Opened
  <1>6. CASE ReadAll
    <2>1. call.pc = "readAll"
      BY <1>6 DEF ReadAll
    <2>2. call' = [Idle EXCEPT !.pc = "load"] \/ call' = [call EXCEPT !.pos = @ + 1]
      BY <1>6 DEF ReadAll
    <2>3. call'.pc # "init"
      BY <1>1, <2>1, <2>2, IdleIs DEF CallRecord
    <2>4. QED
      BY <1>6, <2>3 DEF ReadAll
  <1>7. CASE Constructed
    BY <1>7, IdleIs DEF Constructed
  <1>8. ASSUME NEW path \in Paths, CallFind(path)
        PROVE  disk' = disk /\ root' = root /\ call'.pc # "init" /\ ("mount" \notin failed' => "mount" \notin failed)
    BY <1>8, IdleIs DEF CallFind, CallRecord
  <1>9. ASSUME NEW range \in Ranges, ReadObject(range)
        PROVE  disk' = disk /\ root' = root /\ call'.pc # "init" /\ ("mount" \notin failed' => "mount" \notin failed)
    <2>1. PICK b : call' = [call EXCEPT !.op = "read", !.range = range, !.bytes = b]
      BY <1>9 DEF ReadObject
    <2>2. call.pc = "load"
      BY <1>9 DEF ReadObject
    <2>3. call'.pc # "init"
      BY <1>1, <2>1, <2>2 DEF CallRecord
    <2>4. QED
      BY <1>9, <2>3 DEF ReadObject
  <1>10. QED
    BY <1>2, <1>3, <1>4, <1>5, <1>6, <1>7, <1>8, <1>9 DEF Next

LEMMA RoundMounts ==
  ASSUME FileInv, MountInv, InitRound
  PROVE  MountInv'
  <1>1. SUFFICES ASSUME NEW last, Terminated(disk', last), "mount" \notin failed' PROVE MountOK(last)'
    BY DEF MountInv
  <1>2. PICK r \in Outcomes(call.lba, 1, call.buf) : \E type \in DescriptorTypes(r.buf[1]) :
          /\ Note("mount", r)
          /\ \/ /\ type = "primary"
                /\ root' \in IF r.buf[1].kind = "descriptor" THEN {r.buf[1].root} ELSE JunkEntries
                /\ call' = [Idle EXCEPT !.op = "mount"]
             \/ /\ type = "terminator"
                /\ call' = [Idle EXCEPT !.pc = "panic"]
                /\ UNCHANGED root
             \/ /\ type = "other"
                /\ call' = [call EXCEPT !.lba = NextLba, !.buf = r.buf]
                /\ UNCHANGED root
    BY DEF InitRound
  <1>3. PICK type \in DescriptorTypes(r.buf[1]) :
          /\ Note("mount", r)
          /\ \/ /\ type = "primary"
                /\ root' \in IF r.buf[1].kind = "descriptor" THEN {r.buf[1].root} ELSE JunkEntries
                /\ call' = [Idle EXCEPT !.op = "mount"]
             \/ /\ type = "terminator"
                /\ call' = [Idle EXCEPT !.pc = "panic"]
                /\ UNCHANGED root
             \/ /\ type = "other"
                /\ call' = [call EXCEPT !.lba = NextLba, !.buf = r.buf]
                /\ UNCHANGED root
    BY <1>2
  <1>4. disk' = disk /\ call.pc = "init"
    BY DEF InitRound
  <1>5. r.fault \in BOOLEAN
    BY <1>2, <1>4, RoundReads
  <1>6. ~r.fault /\ "mount" \notin failed
    BY <1>1, <1>3, <1>5 DEF Note
  <1>7. MountOK(last) /\ Terminated(disk, last)
    BY <1>1, <1>4, <1>6 DEF MountInv
  <1>8. PICK i : i = call.lba + 1
    OBVIOUS
  <1>9. disk \in Disks /\ Len(disk) \in Nat /\ last \in FirstDescriptor + 1 .. Len(disk) /\ call.lba \in Nat
    BY <1>7, ContentsLen DEF FileInv, StateOK, Terminated
  <1>10. i \in FirstDescriptor + 1 .. last /\ i \in Nat /\ i <= Len(disk) /\ i \in 1 .. Len(disk)
    BY <1>4, <1>7, <1>8, <1>9, Sizes DEF MountOK
  <1>11. r.ok /\ r.buf[1] = disk[i][1]
    BY <1>2, <1>4, <1>6, <1>8, <1>10, RoundReads
  <1>12. PICK x : x = disk[i][1]
    OBVIOUS
  <1>13. x.kind = "descriptor" /\ (x.type = "terminator" <=> i = last)
    BY <1>7, <1>10, <1>12 DEF Terminated
  <1>14. type = x.type
    BY <1>3, <1>11, <1>12, <1>13 DEF DescriptorTypes
  <1>15. Roots' = Roots
    BY <1>4, SameDisk
  <1>16. CASE type = "primary"
    <2>1. root' = x.root /\ call' = [Idle EXCEPT !.op = "mount"]
      BY <1>3, <1>11, <1>12, <1>13, <1>16
    <2>2. x \in Held
      <3>1. 1 \in 1 .. SectorSize
        BY Sizes
      <3>2. QED
        BY <1>9, <1>10, <1>12, <3>1, SectorsAre DEF Held
    <2>3. x.root \in Roots
      BY <1>9, <1>13, <1>14, <1>16, <2>2, ContentsSet DEF Roots
    <2>4. call'.pc # "init"
      BY <2>1, IdleIs DEF CallRecord
    <2>5. QED
      BY <1>15, <2>1, <2>3, <2>4 DEF MountOK
  <1>17. CASE type = "terminator"
    <2>1. call' = [Idle EXCEPT !.pc = "panic"] /\ root' = root
      BY <1>3, <1>17
    <2>2. call'.pc # "init"
      BY <2>1, IdleIs DEF CallRecord
    <2>3. QED
      BY <1>7, <1>15, <2>1, <2>2 DEF MountOK
  <1>18. CASE type = "other"
    <2>1. PICK b, l : b = r.buf /\ l = NextLba
      OBVIOUS
    <2>2. call' = [call EXCEPT !.lba = l, !.buf = b] /\ root' = root
      BY <1>3, <1>18, <2>1
    <2>3. CallRecord(call)
      BY DEF FileInv, CallOK
    <2>4. call'.lba = l
      BY <2>2, <2>3 DEF CallRecord
    <2>5. l = i
      BY <1>8, <1>10, <2>1, NextLbaIs
    <2>6. i # last
      BY <1>13, <1>14, <1>18
    <2>7. i + 1 \in FirstDescriptor + 1 .. last
      BY <1>9, <1>10, <2>6, Sizes
    <2>8. QED
      BY <1>7, <1>15, <2>2, <2>4, <2>5, <2>7 DEF MountOK
  <1>19. QED
    BY <1>3, <1>16, <1>17, <1>18

LEMMA StepMount ==
  ASSUME FileInv, MountInv, [Next]_vars
  PROVE  MountInv'
  <1>1. CASE UNCHANGED vars
    <2>1. disk' = disk /\ root' = root /\ failed' = failed /\ call' = call
      BY <1>1 DEF vars
    <2>2. QED
      BY <2>1, SameDisk DEF MountInv, MountOK
  <1>2. CASE Probe
    <2>1. disk' = disk /\ root' = NoEntry /\ (call' = [Idle EXCEPT !.pc = "create"] \/ call' = Idle)
      BY <1>2 DEF Probe
    <2>2. call'.pc # "init"
      BY <2>1, IdleIs DEF CallRecord
    <2>3. QED
      BY <2>1, <2>2 DEF MountInv, MountOK
  <1>3. CASE CreateVolume
    <2>1. /\ disk' = disk /\ root' = root
          /\ \/ call' = [Idle EXCEPT !.pc = "init", !.lba = FirstDescriptor, !.buf = Fresh(1)]
             \/ call' = [Idle EXCEPT !.pc = "nullptr"]
      BY <1>3 DEF CreateVolume
    <2>2. PICK r : Note("mount", r)
      BY <1>3 DEF CreateVolume
    <2>3. "mount" \notin failed' => "mount" \notin failed
      BY <2>2 DEF Note
    <2>4. CASE call' = [Idle EXCEPT !.pc = "nullptr"]
      <3>1. call'.pc # "init"
        BY <2>4, IdleIs DEF CallRecord
      <3>2. QED
        BY <2>1, <2>3, <3>1, MountKept
    <2>5. CASE call' = [Idle EXCEPT !.pc = "init", !.lba = FirstDescriptor, !.buf = Fresh(1)]
      <3>1. call'.lba = FirstDescriptor
        BY <2>5, IdleIs DEF CallRecord
      <3>2. ASSUME NEW last, Terminated(disk, last) PROVE FirstDescriptor + 1 \in FirstDescriptor + 1 .. last
        <4>1. disk \in Disks /\ Len(disk) \in Nat
          BY ContentsLen DEF FileInv, StateOK
        <4>2. QED
          BY <3>2, <4>1, Sizes DEF Terminated
      <3>3. QED
        BY <2>1, <2>3, <3>1, <3>2, SameDisk DEF MountInv, MountOK
    <2>6. QED
      BY <2>1, <2>4, <2>5
  <1>4. CASE InitRound
    BY <1>4, RoundMounts
  <1>5. CASE Next /\ ~Probe /\ ~CreateVolume /\ ~InitRound
    BY <1>5, CallsElsewhere, MountKept
  <1>6. QED
    BY <1>1, <1>2, <1>3, <1>4, <1>5

LEMMA InitMount == Init => MountInv
  BY IdleIs DEF Init, MountInv, MountOK

LEMMA MountedRoot ==
  ASSUME MountInv, WellFormed, "mount" \notin failed, root # NoEntry
  PROVE  root \in Roots
  <1>1. PICK last : Terminated(disk, last)
    BY DEF WellFormed, Terminated
  <1>2. QED
    BY <1>1 DEF MountInv, MountOK

-----------------------------------------------------------------------------
(* Looking up a path. *)

Extents(entries) == {<<e.lba, e.len, e.dir>> : e \in entries}

LookupRight(path, e) ==
  LET correct == Extents(Reached(path, Len(path)))
  IN  IF correct = {} THEN e = NoEntry
      ELSE e # NoEntry /\ <<e.lba, e.len, e.dir>> \in correct

Looking ==
  /\ call.path \in Paths /\ call.taken \in Nat
  /\ call.taken = 0 \/ call.taken < Len(call.path)
  /\ (failed = {} /\ Lookable(call.path)) => call.dir \in Reached(call.path, call.taken)

(* While find is at work it is in the directory the tokens it has taken    *)
(* lead to.                                                                *)
FindInv ==
  /\ call.pc = "find" => Looking
  /\ (call.op = "find" /\ failed = {} /\ Lookable(call.path)) => LookupRight(call.path, entry)

LEMMA PathsAre ==
  ASSUME NEW path \in Paths
  PROVE  Len(path) \in Nat /\ (path = <<>> <=> Len(path) = 0)
  <1>1. path \in Seq(ToSet(path))
    BY Iso9660Assumption
  <1>2. QED
    BY <1>1, EmptySeq, LenProperties

LEMMA FindInvLooksUp ==
  ASSUME FindInv
  PROVE  FindIsLookup
  <1> DEFINE dirs == (UNION {Reached(call.path, k) : k \in 0 .. Len(call.path) - 1}) \cup Roots
  <1>1. SUFFICES ASSUME call.op = "find", failed = {}, WellFormed, \A d \in dirs : Orderly(d) /\ Named(d)
                 PROVE  LookupRight(call.path, entry)
    BY Zenon DEF FindIsLookup, LookupRight, Extents
  <1>2. ASSUME NEW d \in Roots PROVE GoodDir(d)
    <2>1. d \in dirs
      OBVIOUS
    <2>2. QED
      BY <1>1, <2>1 DEF GoodDir
  <1>3. ASSUME NEW k \in 0 .. Len(call.path) - 1, NEW d \in Reached(call.path, k) PROVE GoodDir(d)
    <2>1. d \in dirs
      OBVIOUS
    <2>2. QED
      BY <1>1, <2>1 DEF GoodDir
  <1>4. Lookable(call.path)
    BY <1>1, <1>2, <1>3 DEF Lookable
  <1>5. QED
    BY <1>1, <1>4 DEF FindInv

LEMMA LookupPrimed ==
  ASSUME disk' = disk, NEW path, NEW e, LookupRight(path, e)
  PROVE  LookupRight(path, e)'
  <1>1. (Reached(path, Len(path)))' = Reached(path, Len(path))
    BY ReachedPrimed
  <1>2. QED
    BY <1>1 DEF LookupRight, Extents

(* The entries of a directory, and what the loop of find makes of them.    *)
LEMMA FindsChild ==
  ASSUME disk \in Disks, NEW d, IsRecord(d), Orderly(d), NEW elem,
         NEW r \in ExtentOutcomes(d), ~r.fault,
         NEW e \in IF d.len = 0 THEN {NoEntry} ELSE Search(r.buf, elem)
  PROVE  \/ e \in Children(d) /\ Name(e) = elem /\ e # NoEntry
         \/ e = NoEntry /\ \A c \in Children(d) : Name(c) # elem
  <1>1. d.lba \in Nat /\ d.len \in Nat
    BY RecordIs
  <1>2. d.lba * SectorSize + d.len <= Len(Contents)
    BY DEF Orderly
  <1>3. IsExtent(r.buf, d)
    BY <1>1, <1>2, ExtentsAre
  <1>4. PICK buf, k : buf = r.buf /\ k = Len(Records(buf))
    OBVIOUS
  <1>5. /\ d.len # 0 /\ ~Strays(buf) /\ Children(d) = {buf[i] : i \in 1 .. k}
        /\ \A i \in 1 .. k : IsRecord(buf[i])
    BY <1>3, <1>4, OrderlyRead
  <1>6. buf \in Seq(Memory) /\ e \in Search(buf, elem)
    BY <1>3, <1>4, <1>5 DEF IsExtent
  <1>7. \/ \E i \in 1 .. k : e = buf[i] /\ Name(buf[i]) = elem
        \/ /\ \A i \in 1 .. k : Name(buf[i]) # elem
           /\ e = NoEntry \/ (Strays(buf) /\ e \in JunkEntries)
    BY <1>4, <1>6, SearchIs
  <1>8. CASE \E i \in 1 .. k : e = buf[i] /\ Name(buf[i]) = elem
    BY <1>5, <1>8, RecordIs
  <1>9. CASE e = NoEntry /\ \A i \in 1 .. k : Name(buf[i]) # elem
    BY <1>5, <1>9
  <1>10. QED
    BY <1>5, <1>7, <1>8, <1>9

(* One round of find. *)
LEMMA RoundFinds ==
  ASSUME FileInv, call.pc = "find", Looking, failed = {}, Lookable(call.path),
         NEW r \in ExtentOutcomes(call.dir), ~r.fault,
         NEW e \in IF call.dir.len = 0 THEN {NoEntry} ELSE Search(r.buf, Element)
  PROVE  IF e # NoEntry /\ call.taken + 1 < Len(call.path)
         THEN e \in Reached(call.path, call.taken + 1)
         ELSE LookupRight(call.path, e)
  <1>1. PICK p, t, d : p = call.path /\ t = call.taken /\ d = call.dir
    OBVIOUS
  <1>2. /\ p \in Paths /\ t \in Nat /\ (t = 0 \/ t < Len(p)) /\ d \in Reached(p, t) /\ Lookable(p)
    BY <1>1 DEF Looking
  <1>3. Len(p) \in Nat /\ (p = <<>> <=> Len(p) = 0)
    BY <1>2, PathsAre
  <1>4. disk \in Disks /\ IsRecord(d)
    BY <1>1, EntriesAre DEF FileInv, StateOK, CallOK
  <1>5. Reached(p, 0) = Roots
    BY <1>3, ReachedIs
  <1>6. GoodDir(d)
    <2>1. CASE t = 0
      BY <1>2, <1>5, <2>1 DEF Lookable
    <2>2. CASE t < Len(p)
      <3>1. t \in 0 .. Len(p) - 1
        BY <1>2, <1>3, <2>2
      <3>2. QED
        BY <1>2, <3>1 DEF Lookable
    <2>3. QED
      BY <1>2, <2>1, <2>2
  <1>7. PICK elem : elem = Element
    OBVIOUS
  <1>8. \/ e \in Children(d) /\ Name(e) = elem /\ e # NoEntry
        \/ e = NoEntry /\ \A c \in Children(d) : Name(c) # elem
    <2>1. Orderly(d)
      BY <1>6 DEF GoodDir
    <2>2. e \in IF d.len = 0 THEN {NoEntry} ELSE Search(r.buf, elem)
      BY <1>1, <1>7
    <2>3. QED
      BY <1>1, <1>4, <2>1, <2>2, FindsChild
  <1>9. CASE p = <<>>
    <2>1. t = 0 /\ Len(p) = 0
      BY <1>2, <1>3, <1>9
    <2>2. elem = Dot
      BY <1>1, <1>7, <1>9 DEF Element, Dot
    <2>3. PICK c \in Children(d) : Name(c) = Dot /\ <<c.lba, c.len, c.dir>> = <<d.lba, d.len, d.dir>>
      BY <1>6 DEF GoodDir, Named
    <2>4. e \in Children(d) /\ Name(e) = Dot /\ e # NoEntry
      BY <1>8, <2>2, <2>3
    <2>5. e = c
      BY <1>6, <2>3, <2>4 DEF GoodDir, Named
    <2>6. d \in Reached(p, Len(p))
      BY <1>2, <2>1
    <2>7. <<e.lba, e.len, e.dir>> \in Extents(Reached(p, Len(p)))
      BY <2>3, <2>5, <2>6 DEF Extents
    <2>8. LookupRight(p, e)
      BY <2>4, <2>7 DEF LookupRight
    <2>9. QED
      BY <1>1, <2>1, <2>8
  <1>10. CASE p # <<>>
    <2>1. PICK k \in 1 .. Len(p) : k = t + 1
      BY <1>2, <1>3, <1>10
    <2>2. elem = p[k]
      BY <1>1, <1>7, <1>10, <2>1 DEF Element
    <2>3. k - 1 = t
      BY <1>2, <2>1
    <2>4. Reached(p, k) = {c \in Children(d) : Name(c) = p[k]}
      BY <1>2, <1>3, <2>3, ReachedNext
    <2>5. CASE e = NoEntry
      <3>1. \A c \in Children(d) : Name(c) # elem
        BY <1>8, <2>5
      <3>2. Reached(p, k) = {}
        BY <2>2, <2>4, <3>1
      <3>3. Reached(p, Len(p)) = {}
        BY <1>3, <2>1, <3>2, ReachedNothing
      <3>4. LookupRight(p, e)
        BY <2>5, <3>3 DEF LookupRight, Extents
      <3>5. QED
        BY <1>1, <2>5, <3>4
    <2>6. CASE e # NoEntry
      <3>1. e \in Reached(p, k)
        BY <1>8, <2>2, <2>4, <2>6
      <3>2. CASE t + 1 < Len(p)
        BY <1>1, <2>1, <2>6, <3>1, <3>2
      <3>3. CASE ~(t + 1 < Len(p))
        <4>1. k = Len(p)
          BY <1>2, <1>3, <2>1, <3>3
        <4>2. <<e.lba, e.len, e.dir>> \in Extents(Reached(p, Len(p)))
          BY <3>1, <4>1 DEF Extents
        <4>3. LookupRight(p, e)
          BY <2>6, <4>2 DEF LookupRight
        <4>4. QED
          BY <1>1, <3>3, <4>3
      <3>4. QED
        BY <3>2, <3>3
    <2>7. QED
      BY <2>5, <2>6
  <1>11. QED
    BY <1>9, <1>10

LEMMA FindInFinds ==
  ASSUME FileInv, FindInv, FindIn
  PROVE  FindInv'
  <1>1. PICK r \in ExtentOutcomes(call.dir) :
        \E e \in IF call.dir.len = 0 THEN {NoEntry} ELSE Search(r.buf, Element) :
          /\ Note("find", r)
          /\ IF e # NoEntry /\ call.taken + 1 < Len(call.path)
             THEN /\ call' = [call EXCEPT !.dir = e, !.taken = @ + 1]
                  /\ UNCHANGED entry
             ELSE /\ call' = [Idle EXCEPT !.op = "find", !.path = call.path]
                  /\ entry' = e
    BY DEF FindIn
  <1>2. PICK e \in IF call.dir.len = 0 THEN {NoEntry} ELSE Search(r.buf, Element) :
          /\ Note("find", r)
          /\ IF e # NoEntry /\ call.taken + 1 < Len(call.path)
             THEN /\ call' = [call EXCEPT !.dir = e, !.taken = @ + 1]
                  /\ UNCHANGED entry
             ELSE /\ call' = [Idle EXCEPT !.op = "find", !.path = call.path]
                  /\ entry' = e
    BY <1>1
  <1>3. disk' = disk /\ call.pc = "find" /\ Looking
    BY DEF FindIn, FindInv
  <1>4. PICK p, t : p = call.path /\ t = call.taken
    OBVIOUS
  <1>5. p \in Paths /\ t \in Nat /\ CallRecord(call) /\ call.op = "none"
    BY <1>3, <1>4 DEF Looking, FileInv, CallOK
  <1>6. disk \in Disks /\ IsRecord(call.dir)
    BY <1>3, EntriesAre DEF FileInv, StateOK, CallOK
  <1>7. r.fault \in BOOLEAN
    BY <1>6, ExtentsAre, RecordIs
  <1>8. ASSUME failed' = {}, Lookable(p)
        PROVE  IF e # NoEntry /\ t + 1 < Len(p) THEN e \in Reached(p, t + 1) ELSE LookupRight(p, e)
    <2>1. failed = {} /\ ~r.fault
      BY <1>2, <1>7, <1>8 DEF Note
    <2>2. QED
      BY <1>1, <1>2, <1>3, <1>4, <1>8, <2>1, RoundFinds
  <1>9. Lookable(p)' <=> Lookable(p)
    BY <1>3, LookablePrimed
  <1>10. CASE e # NoEntry /\ t + 1 < Len(p)
    <2>1. PICK c : c = call'
      OBVIOUS
    <2>2. c = [call EXCEPT !.dir = e, !.taken = t + 1]
      BY <1>2, <1>4, <1>10, <2>1
    <2>3. c.pc = "find" /\ c.op = "none" /\ c.path = p /\ c.taken = t + 1 /\ c.dir = e
      BY <1>3, <1>4, <1>5, <2>2 DEF CallRecord
    <2>4. (Reached(p, t + 1))' = Reached(p, t + 1)
      BY <1>3, ReachedPrimed
    <2>5. ASSUME failed' = {}, Lookable(p)' PROVE e \in (Reached(p, t + 1))'
      BY <1>8, <1>9, <1>10, <2>4, <2>5
    <2>6. call' = c
      BY <2>1
    <2>7. Looking'
      BY <1>5, <1>10, <2>3, <2>5, <2>6 DEF Looking
    <2>8. QED
      BY <2>3, <2>6, <2>7 DEF FindInv
  <1>11. CASE ~(e # NoEntry /\ t + 1 < Len(p))
    <2>1. call' = [Idle EXCEPT !.op = "find", !.path = p] /\ entry' = e
      BY <1>2, <1>4, <1>11
    <2>2. call'.pc = "idle" /\ call'.path = p
      BY <2>1, IdleIs DEF CallRecord
    <2>3. ASSUME failed' = {}, Lookable(p)' PROVE LookupRight(p, e)'
      <3>1. LookupRight(p, e)
        BY <1>8, <1>9, <1>11, <2>3
      <3>2. QED
        BY <1>3, <3>1, LookupPrimed
    <2>4. QED
      BY <2>1, <2>2, <2>3 DEF FindInv
  <1>12. QED
    BY <1>10, <1>11

(* Only find leaves what it found. *)
LEMMA CallsNotFinding ==
  ASSUME FileInv, Next, ~FindIn
  PROVE  call'.op # "find" /\ (call'.pc = "find" => \E path \in Paths : CallFind(path))
  <1>1. CallRecord(call) /\ (call.pc \notin {"idle", "load"} => call.op = "none")
    BY DEF FileInv, CallOK
  <1>2. CASE Probe
    BY <1>2, IdleIs DEF Probe, CallRecord
  <1>3. CASE CreateVolume
    BY <1>3, IdleIs DEF CreateVolume, CallRecord
  <1>4. CASE InitRound
    <2>1. call.op = "none" /\ call.pc = "init"
      BY <1>1, <1>4 DEF InitRound
    <2>2. PICK l, b : \/ call' = [Idle EXCEPT !.op = "mount"]
                      \/ call' = [Idle EXCEPT !.pc = "panic"]
                      \/ call' = [call EXCEPT !.lba = l, !.buf = b]
      BY <1>4 DEF InitRound
    <2>3. QED
      BY <1>1, <2>1, <2>2, IdleIs DEF CallRecord
  <1>5. CASE Readdir
    <2>1. PICK n : call' = [Idle EXCEPT !.op = "readdir", !.names = n]
      BY <1>5 DEF Readdir
    <2>2. QED
      BY <2>1, IdleIs DEF CallRecord
  <1>6. CASE IsElf
    <2>1. PICK b : call' = [Idle EXCEPT !.op = "read", !.range = <<0, HeaderSize>>, !.bytes = b]
      BY <1>6 DEF IsElf
    <2>2. QED
      BY <2>1, IdleIs DEF CallRecord
  <1>7. CASE ConstructExecutable
    BY <1>7, IdleIs DEF ConstructExecutable, CallRecord
  <1>8. CASE ReadAll
    <2>1. call.op = "none" /\ call.pc = "readAll"
      BY <1>1, <1>8 DEF ReadAll
    <2>2. call' = [Idle EXCEPT !.pc = "load"] \/ call' = [call EXCEPT !.pos = @ + 1]
      BY <1>8 DEF ReadAll
    <2>3. QED
      BY <1>1, <2>1, <2>2, IdleIs DEF CallRecord
  <1>9. CASE Constructed
    BY <1>9, IdleIs DEF Constructed
  <1>10. ASSUME NEW path \in Paths, CallFind(path) PROVE call'.op # "find"
    BY <1>10, IdleIs DEF CallFind, CallRecord
  <1>11. ASSUME NEW range \in Ranges, ReadObject(range) PROVE call'.op # "find" /\ call'.pc # "find"
    <2>1. PICK b : call' = [call EXCEPT !.op = "read", !.range = range, !.bytes = b]
      BY <1>11 DEF ReadObject
    <2>2. call.pc = "load"
      BY <1>11 DEF ReadObject
    <2>3. QED
      BY <1>1, <2>1, <2>2 DEF CallRecord
  <1>12. QED
    BY <1>2, <1>3, <1>4, <1>5, <1>6, <1>7, <1>8, <1>9, <1>10, <1>11 DEF Next

LEMMA CallFindLooks ==
  ASSUME FileInv, MountInv, NEW path \in Paths, CallFind(path)
  PROVE  Looking'
  <1>1. /\ disk' = disk /\ failed' = failed \cap {"mount"} /\ root # NoEntry
        /\ call' = [Idle EXCEPT !.pc = "find", !.path = path, !.dir = root]
    BY DEF CallFind
  <1>2. PICK d : d = root
    OBVIOUS
  <1>3. call'.path = path /\ call'.taken = 0 /\ call'.dir = d
    BY <1>1, <1>2, IdleIs DEF CallRecord
  <1>4. ASSUME failed' = {}, Lookable(path)' PROVE d \in (Reached(path, 0))'
    <2>1. Lookable(path)
      BY <1>1, <1>4, LookablePrimed
    <2>2. root \in Roots
      BY <1>1, <1>4, <2>1, MountedRoot DEF Lookable
    <2>3. Reached(path, 0) = Roots
      BY PathsAre, ReachedIs
    <2>4. QED
      BY <1>1, <1>2, <2>2, <2>3, ReachedPrimed
  <1>5. QED
    BY <1>3, <1>4 DEF Looking

LEMMA StepFind ==
  ASSUME FileInv, MountInv, FindInv, [Next]_vars
  PROVE  FindInv'
  <1>1. CASE UNCHANGED vars
    <2>1. disk' = disk /\ entry' = entry /\ failed' = failed /\ call' = call
      BY <1>1 DEF vars
    <2>2. PICK p, t, e : p = call.path /\ t = call.taken /\ e = entry
      OBVIOUS
    <2>3. /\ Lookable(p)' <=> Lookable(p) /\ (Reached(p, t))' = Reached(p, t)
          /\ LookupRight(p, e) => LookupRight(p, e)'
      BY <2>1, LookablePrimed, ReachedPrimed, LookupPrimed
    <2>4. ASSUME call.pc = "find" PROVE Looking'
      <3>1. Looking
        BY <2>4 DEF FindInv
      <3>2. QED
        BY <2>1, <2>2, <2>3, <3>1 DEF Looking
    <2>5. ASSUME call.op = "find", failed = {}, Lookable(p)' PROVE LookupRight(p, e)'
      <3>1. Lookable(p)
        BY <2>3, <2>5
      <3>2. LookupRight(p, e)
        BY <2>2, <2>5, <3>1 DEF FindInv
      <3>3. QED
        BY <2>3, <3>2
    <2>6. QED
      BY <2>1, <2>2, <2>4, <2>5 DEF FindInv
  <1>2. CASE FindIn
    BY <1>2, FindInFinds
  <1>3. CASE Next /\ ~FindIn
    BY <1>3, CallsNotFinding, CallFindLooks DEF FindInv
  <1>4. QED
    BY <1>1, <1>2, <1>3

LEMMA InitFind == Init => FindInv
  BY IdleIs DEF Init, FindInv

(* find returns the entry that a path leads to, or nothing if it leads     *)
(* nowhere, on every well-formed volume with orderly directories, however  *)
(* deep the path is.                                                       *)
THEOREM FindLooksUp == Spec => []FindIsLookup
  <1>1. Init => FileInv /\ MountInv /\ FindInv
    BY InitFiles, InitMount, InitFind
  <1>2. FileInv /\ MountInv /\ FindInv /\ [Next]_vars => (FileInv /\ MountInv /\ FindInv)'
    BY StepFiles, StepMount, StepFind
  <1>3. FindInv => FindIsLookup
    BY FindInvLooksUp
  <1>4. QED
    BY <1>1, <1>2, <1>3, PTL DEF Spec

=============================================================================
