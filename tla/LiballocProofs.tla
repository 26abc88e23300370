--------------------------- MODULE LiballocProofs ---------------------------
(***************************************************************************)
(* Proofs about the heap: the blocks that malloc, realloc and free hand    *)
(* out and take back are private, and the pages behind them accounted for. *)
(*                                                                         *)
(* The lists are described locally: what a header's pointers say about the *)
(* set of the headers in its major.  That each list is then one chain      *)
(* through all of its headers, that `usage' is the sum of what the blocks  *)
(* of a major take up, and that a search which fails has looked at every   *)
(* gap, come after the first theorems and rest on the same invariant.      *)
(***************************************************************************)
EXTENDS Liballoc, WellFoundedInduction, FiniteSetTheorems, TLAPS

(* x is the least element of S above y, or Null if there is none; Null is  *)
(* below every address, so that `first' is what follows it.                *)
NextIn(S, y, x) ==
  \/ x = Null /\ \A z \in S : z <= y
  \/ x \in S /\ x > y /\ \A z \in S : z <= y \/ x <= z

(* x is the greatest element of S below y, or Null. *)
PrevIn(S, y, x) ==
  \/ x = Null /\ \A z \in S : z >= y
  \/ x \in S /\ x < y /\ \A z \in S : z >= y \/ z <= x

-----------------------------------------------------------------------------
(* The majors: runs of pages, apart from each other, in one list. *)

IsMajor(r) ==
  r = [pages |-> r.pages, size |-> r.size, usage |-> r.usage,
       first |-> r.first, prev |-> r.prev, next |-> r.next]

MajorOK(ma) ==
  \A x \in DOMAIN ma :
    /\ IsMajor(ma[x])
    /\ \E k \in HeapPages : x = k * PageSize
    /\ ma[x].pages \in Nat \ {0}
    /\ ma[x].size = ma[x].pages * PageSize
    /\ ma[x].usage \in Int
    /\ ma[x].prev \in DOMAIN ma \cup {Null}
    /\ ma[x].next \in DOMAIN ma \cup {Null}

MajorsApart(ma) ==
  \A x, y \in DOMAIN ma : x < y => x + ma[x].size <= y

RunsAre(ma, rs) == rs = {<<x \div PageSize, ma[x].pages>> : x \in DOMAIN ma}

(* prev and next agree, and only the root has no predecessor. *)
Linked(ma, root) ==
  /\ root \in DOMAIN ma \cup {Null}
  /\ \A x \in DOMAIN ma :
       /\ ma[x].next # Null => ma[ma[x].next].prev = x
       /\ ma[x].prev # Null => ma[ma[x].prev].next = x
       /\ ma[x].prev = Null => x = root

(* The list does not go round: there is a numbering that grows along it.   *)
Ranked(ma) ==
  \E rank \in [DOMAIN ma -> Nat] :
    \A x \in DOMAIN ma : ma[x].next # Null => rank[x] < rank[ma[x].next]

MajorsInv(ma, root, rs) ==
  MajorOK(ma) /\ MajorsApart(ma) /\ RunsAre(ma, rs) /\ Linked(ma, root) /\ Ranked(ma)

-----------------------------------------------------------------------------
(* The minors: inside of their major, apart, in the order of addresses. *)

IsMinor(r) ==
  r = [prev |-> r.prev, next |-> r.next, block |-> r.block, size |-> r.size, req |-> r.req]

(* What clients may ask for. *)
Sizes == Requests \cup Resizes

Mine(mi, maj) == {m \in DOMAIN mi : mi[m].block = maj}
End(mi, m) == m + MinorSize + mi[m].size

MinorOK(ma, mi) ==
  \A m \in DOMAIN mi :
    /\ IsMinor(mi[m])
    /\ m \in Nat
    /\ mi[m].block \in DOMAIN ma
    /\ mi[m].size \in Nat
    /\ mi[m].req \in Nat /\ mi[m].req \in Sizes
    /\ mi[m].req + 2 * Alignment <= mi[m].size
    /\ mi[m].block + MajorSize <= m
    /\ End(mi, m) <= mi[m].block + ma[mi[m].block].size

MinorsApart(mi) ==
  \A m, n \in DOMAIN mi : mi[m].block = mi[n].block /\ m < n => End(mi, m) <= n

Chained(ma, mi) ==
  /\ \A maj \in DOMAIN ma : NextIn(Mine(mi, maj), Null, ma[maj].first)
  /\ \A m \in DOMAIN mi : /\ NextIn(Mine(mi, mi[m].block), m, mi[m].next)
                          /\ PrevIn(Mine(mi, mi[m].block), m, mi[m].prev)

MinorsInv(ma, mi) == MinorOK(ma, mi) /\ MinorsApart(mi) /\ Chained(ma, mi)

-----------------------------------------------------------------------------
(* The pointers that were returned, and the call in progress. *)

HeaderOf(pd, p) == p - pd[p] - MinorSize

PadOK(mi, pd) ==
  \A p \in DOMAIN pd : /\ p \in Nat
                       /\ pd[p] \in Nat
                       /\ pd[p] = AlignDiff(p - pd[p])
                       /\ HeaderOf(pd, p) \in DOMAIN mi

LiveOK(mi, pd, lv) ==
  \A p \in DOMAIN lv : p \in DOMAIN pd /\ lv[p] = mi[HeaderOf(pd, p)].req

IsCall(c) ==
  c = [at |-> c.at, req |-> c.req, old |-> c.old, maj |-> c.maj, min |-> c.min,
       bet |-> c.bet, best |-> c.best]

Searching(c) == c.at \in {"start", "major", "case2", "case4"}

CallOK(ma, mi, pd, lv, c) ==
  /\ IsCall(c)
  /\ c.at \in Labels
  /\ c.at = "idle" => c = Idle
  /\ Searching(c) \/ c.at = "copy" => /\ c.req \in Nat /\ c.req \in Sizes
                                      /\ c.old = Null \/ c.old \in DOMAIN lv
  /\ c.maj \in DOMAIN ma \cup {Null}
  /\ c.at \in {"major", "case2", "case4"} => c.maj \in DOMAIN ma
  /\ c.at = "case2" => ma[c.maj].first = Null
  /\ c.at = "case4" => c.min \in Mine(mi, c.maj)
  /\ c.at = "copy" => /\ c.old # Null
                      /\ c.min # Null => /\ c.min \in DOMAIN pd
                                         /\ c.min \notin DOMAIN lv
                                         /\ mi[HeaderOf(pd, c.min)].req = c.req

(* A major that holds no block is the one malloc has just obtained, and it *)
(* has room for the request.                                               *)
EmptyOK(ma, c) ==
  \A x \in DOMAIN ma : ma[x].first = Null =>
    /\ ma[x].usage = MajorSize
    /\ MajorSize + Need(c.req) <= ma[x].size
    /\ \/ c.at = "start" /\ DOMAIN ma = {x}
       \/ c.at \in {"major", "case2"} /\ c.maj = x

Inv ==
  /\ MajorsInv(majors, memRoot, runs)
  /\ bestBet \in DOMAIN majors \cup {Null}
  /\ MinorsInv(majors, minors)
  /\ PadOK(minors, pad)
  /\ call.at # "failed" => LiveOK(minors, pad, live)
  /\ CallOK(majors, minors, pad, live, call)
  /\ EmptyOK(majors, call)

-----------------------------------------------------------------------------
(* Ordered sets of addresses. *)

Addresses(S) == S \subseteq Nat \ {0}

(* An address is put behind m, with nothing in between. *)
LEMMA InsertNext ==
  ASSUME NEW S, Addresses(S), NEW m \in S \cup {Null}, NEW next, NextIn(S, m, next),
         NEW a \in Nat, m < a, \A z \in S : z <= m \/ a < z
  PROVE  /\ NextIn(S \cup {a}, a, next)
         /\ NextIn(S \cup {a}, m, a)
         /\ \A x : \A y \in S \cup {Null} : y # m /\ NextIn(S, y, x) => NextIn(S \cup {a}, y, x)
  <1>0. m \in Nat /\ Null \in Nat /\ (\A z \in S : z \in Nat /\ z > Null) /\ Null = 0
    BY DEF Addresses, Null
  <1>1. NextIn(S \cup {a}, a, next)
    <2>1. CASE next = Null /\ \A z \in S : z <= m
      <3>1. \A z \in S \cup {a} : z <= a
        BY <1>0, <2>1
      <3>2. QED
        BY <2>1, <3>1 DEF NextIn
    <2>2. CASE next \in S /\ next > m /\ \A z \in S : z <= m \/ next <= z
      <3>1. next > a /\ \A z \in S \cup {a} : z <= a \/ next <= z
        BY <1>0, <2>2
      <3>2. QED
        BY <2>2, <3>1 DEF NextIn
    <2>3. QED
      BY <2>1, <2>2 DEF NextIn
  <1>2. NextIn(S \cup {a}, m, a)
    BY <1>0 DEF NextIn
  <1>3. ASSUME NEW y \in S \cup {Null}, NEW x, y # m, NextIn(S, y, x)
        PROVE  NextIn(S \cup {a}, y, x)
    <2>1. y \in Nat /\ (x \in S \/ x = Null)
      BY <1>0, <1>3 DEF NextIn
    <2>2. CASE y < m
      <3>1. m \in S
        BY <1>0, <2>1, <2>2
      <3>2. x \in S /\ x <= m /\ x > y /\ (\A z \in S : z <= y \/ x <= z)
        BY <1>0, <1>3, <2>1, <2>2, <3>1 DEF NextIn
      <3>3. QED
        BY <1>0, <2>1, <3>2 DEF NextIn
    <2>3. CASE y > m
      <3>1. y \in S /\ a < y
        BY <1>0, <2>1, <2>3
      <3>2. QED
        BY <1>0, <1>3, <2>1, <3>1 DEF NextIn
    <2>4. QED
      BY <1>0, <1>3, <2>1, <2>2, <2>3
  <1>4. QED
    BY <1>1, <1>2, <1>3

LEMMA InsertPrev ==
  ASSUME NEW S, Addresses(S), NEW m \in S \cup {Null}, NEW next, NextIn(S, m, next),
         NEW a \in Nat, m < a, \A z \in S : z <= m \/ a < z
  PROVE  /\ PrevIn(S \cup {a}, a, m)
         /\ next # Null => PrevIn(S \cup {a}, next, a)
         /\ \A x : \A y \in S : y # next /\ PrevIn(S, y, x) => PrevIn(S \cup {a}, y, x)
  <1>0. m \in Nat /\ Null \in Nat /\ (\A z \in S : z \in Nat /\ z > Null) /\ Null = 0
    BY DEF Addresses, Null
  <1>1. PrevIn(S \cup {a}, a, m)
    BY <1>0 DEF PrevIn
  <1>2. ASSUME next # Null PROVE PrevIn(S \cup {a}, next, a)
    <2>1. next \in S /\ next > m /\ \A z \in S : z <= m \/ next <= z
      BY <1>2 DEF NextIn
    <2>2. QED
      BY <1>0, <2>1 DEF PrevIn
  <1>3. ASSUME NEW y \in S, NEW x, y # next, PrevIn(S, y, x)
        PROVE  PrevIn(S \cup {a}, y, x)
    <2>1. y \in Nat /\ (x \in S \/ x = Null)
      BY <1>0, <1>3 DEF PrevIn
    <2>2. CASE y <= m
      BY <1>0, <1>3, <2>1, <2>2 DEF PrevIn
    <2>3. CASE y > m
      <3>1. next \in S /\ next > m /\ next < y
        <4>1. next \in S /\ next > m /\ \A z \in S : z <= m \/ next <= z
          BY <1>0, <1>3, <2>1, <2>3 DEF NextIn
        <4>2. next <= y
          BY <1>0, <2>1, <2>3, <4>1
        <4>3. QED
          BY <1>0, <1>3, <2>1, <4>1, <4>2
      <3>2. x \in S /\ x < y /\ (\A z \in S : z >= y \/ z <= x)
        BY <1>0, <1>3, <2>1, <3>1 DEF PrevIn
      <3>3. next <= x /\ a < next
        BY <1>0, <2>1, <3>1, <3>2
      <3>4. QED
        BY <1>0, <2>1, <3>1, <3>2, <3>3 DEF PrevIn
    <2>4. QED
      BY <1>0, <2>1, <2>2, <2>3
  <1>4. QED
    BY <1>1, <1>2, <1>3

(* An address is taken out. *)
LEMMA RemoveNext ==
  ASSUME NEW S, Addresses(S), NEW m \in S, NEW next, NextIn(S, m, next), NEW prev, PrevIn(S, m, prev)
  PROVE  /\ NextIn(S \ {m}, prev, next)
         /\ \A x : \A y \in (S \ {m}) \cup {Null} : y # prev /\ NextIn(S, y, x) => NextIn(S \ {m}, y, x)
  <1>0. m \in Nat /\ Null \in Nat /\ (\A z \in S : z \in Nat /\ z > Null) /\ Null = 0
    BY DEF Addresses, Null
  <1>1. prev \in S \cup {Null} /\ prev < m /\ prev \in Nat /\ \A z \in S : z >= m \/ z <= prev
    BY <1>0 DEF PrevIn
  <1>2. NextIn(S \ {m}, prev, next)
    <2>1. CASE next = Null /\ \A z \in S : z <= m
      <3>1. \A z \in S \ {m} : z <= prev
        BY <1>0, <1>1, <2>1
      <3>2. QED
        BY <2>1, <3>1 DEF NextIn
    <2>2. CASE next \in S /\ next > m /\ \A z \in S : z <= m \/ next <= z
      <3>1. next \in S \ {m} /\ next > prev /\ \A z \in S \ {m} : z <= prev \/ next <= z
        BY <1>0, <1>1, <2>2
      <3>2. QED
        BY <3>1 DEF NextIn
    <2>3. QED
      BY <2>1, <2>2 DEF NextIn
  <1>3. ASSUME NEW y \in (S \ {m}) \cup {Null}, NEW x, y # prev, NextIn(S, y, x)
        PROVE  NextIn(S \ {m}, y, x)
    <2>1. y \in Nat /\ (x \in S \/ x = Null)
      BY <1>0, <1>3 DEF NextIn
    <2>2. x # m
      <3>1. SUFFICES ASSUME x = m PROVE FALSE
        OBVIOUS
      <3>2. y < m /\ \A z \in S : z <= y \/ m <= z
        BY <1>0, <1>3, <2>1, <3>1 DEF NextIn
      <3>3. y <= prev
        BY <1>0, <1>1, <2>1, <3>2
      <3>4. prev <= y
        BY <1>0, <1>1, <2>1, <3>2
      <3>5. QED
        BY <1>1, <1>3, <2>1, <3>3, <3>4
    <2>3. QED
      BY <1>0, <1>3, <2>1, <2>2 DEF NextIn
  <1>4. QED
    BY <1>2, <1>3

LEMMA RemovePrev ==
  ASSUME NEW S, Addresses(S), NEW m \in S, NEW next, NextIn(S, m, next), NEW prev, PrevIn(S, m, prev)
  PROVE  /\ next # Null => PrevIn(S \ {m}, next, prev)
         /\ \A x : \A y \in S \ {m} : y # next /\ PrevIn(S, y, x) => PrevIn(S \ {m}, y, x)
  <1>0. m \in Nat /\ Null \in Nat /\ (\A z \in S : z \in Nat /\ z > Null) /\ Null = 0
    BY DEF Addresses, Null
  <1>1. prev \in S \cup {Null} /\ prev < m /\ prev \in Nat /\ \A z \in S : z >= m \/ z <= prev
    BY <1>0 DEF PrevIn
  <1>2. ASSUME next # Null PROVE PrevIn(S \ {m}, next, prev)
    <2>1. next \in S /\ next > m /\ \A z \in S : z <= m \/ next <= z
      BY <1>2 DEF NextIn
    <2>2. CASE prev = Null
      <3>1. \A z \in S \ {m} : z >= next
        BY <1>0, <1>1, <2>1, <2>2
      <3>2. QED
        BY <2>2, <3>1 DEF PrevIn
    <2>3. CASE prev # Null
      <3>1. prev \in S \ {m} /\ prev < next /\ \A z \in S \ {m} : z >= next \/ z <= prev
        BY <1>0, <1>1, <2>1, <2>3
      <3>2. QED
        BY <3>1 DEF PrevIn
    <2>4. QED
      BY <2>2, <2>3
  <1>3. ASSUME NEW y \in S \ {m}, NEW x, y # next, PrevIn(S, y, x)
        PROVE  PrevIn(S \ {m}, y, x)
    <2>1. y \in Nat /\ (x \in S \/ x = Null)
      BY <1>0, <1>3 DEF PrevIn
    <2>2. x # m
      <3>1. SUFFICES ASSUME x = m PROVE FALSE
        OBVIOUS
      <3>2. m < y /\ \A z \in S : z >= y \/ z <= m
        BY <1>0, <1>3, <2>1, <3>1 DEF PrevIn
      <3>3. next \in S /\ next > m /\ next <= y
        BY <1>0, <2>1, <3>2 DEF NextIn
      <3>4. y <= next
        BY <1>0, <2>1, <3>2, <3>3
      <3>5. QED
        BY <1>0, <1>3, <2>1, <3>3, <3>4
    <2>3. QED
      BY <1>0, <1>3, <2>1, <2>2 DEF PrevIn
  <1>4. QED
    BY <1>2, <1>3

-----------------------------------------------------------------------------
(* Sizes and addresses. *)

LEMMA Constants ==
  /\ MajorSize \in Nat /\ MajorSize > 0 /\ MinorSize \in Nat /\ MinorSize > 0
  /\ PageSize \in Nat /\ PageSize > 0 /\ PageCount \in Nat /\ PageCount > 0
  /\ Alignment \in Nat /\ Alignment >= 2
  /\ \A k \in HeapPages : k \in Nat /\ k > 0
  /\ \A q \in Requests \cup Resizes : q \in Nat
  /\ Null = 0
  BY LiballocAssumption DEF Null

(* ALIGN moves a pointer by one or two alignments, to an aligned address.  *)
LEMMA Aligned ==
  ASSUME NEW a \in Nat
  PROVE  /\ AlignDiff(a) \in Nat
         /\ AlignDiff(a) >= Alignment
         /\ AlignDiff(a) < 2 * Alignment
         /\ (a + AlignDiff(a)) % Alignment = 0
  <1> DEFINE r == (-a) % Alignment
             q == (-a) \div Alignment
  <1>1. r \in 0 .. Alignment - 1 /\ q \in Int /\ -a = q * Alignment + r
    BY Constants
  <1>2. AlignDiff(a) = Alignment + r
    BY DEF AlignDiff
  <1>3. a + AlignDiff(a) = (1 - q) * Alignment
    <2>1. (1 - q) * Alignment = Alignment - q * Alignment
      BY <1>1, Constants
    <2>2. q * Alignment \in Int
      BY <1>1, Constants
    <2> HIDE DEF r, q
    <2>3. QED
      BY <1>1, <1>2, <2>1, <2>2, Constants
  <1>4. \A k \in Int : (k * Alignment) % Alignment = 0
    BY Constants
  <1> HIDE DEF r, q
  <1>5. (a + AlignDiff(a)) % Alignment = 0
    BY <1>1, <1>3, <1>4
  <1>6. QED
    BY <1>1, <1>2, <1>5, Constants

(* The pages allocate_new_page asks for hold the request and its headers.  *)
LEMMA PagesSuffice ==
  ASSUME NEW req \in Nat
  PROVE  /\ Size(req) \in Nat /\ Need(req) \in Nat
         /\ Size(req) = req + 2 * Alignment
         /\ Need(req) = Size(req) + MinorSize
         /\ PagesFor(Size(req)) \in Nat \ {0}
         /\ MajorSize + Need(req) <= PagesFor(Size(req)) * PageSize
  <1>1. Size(req) \in Nat /\ Size(req) = req + 2 * Alignment /\ Need(req) \in Nat /\ Need(req) = Size(req) + MinorSize
    BY Constants DEF Size, Need
  <1> DEFINE t == Size(req) + MajorSize + MinorSize
             st == (t + PageSize - 1) \div PageSize
             n == PagesFor(Size(req))
  <1>2. t \in Nat /\ t = MajorSize + Need(req) /\ t > 0
    BY <1>1, Constants
  <1>3. st \in Nat /\ t <= st * PageSize
    <2> HIDE DEF t
    <2>1. t + PageSize - 1 \in Nat
      BY <1>2, Constants
    <2>2. \A x, P \in Nat : P > 0 => /\ x \div P \in Nat
                                     /\ x = (x \div P) * P + (x % P)
                                     /\ x % P \in 0 .. P - 1
      OBVIOUS
    <2>3. st \in Nat /\ t + PageSize - 1 = st * PageSize + ((t + PageSize - 1) % PageSize)
          /\ (t + PageSize - 1) % PageSize \in 0 .. PageSize - 1
      BY <2>1, <2>2, Constants
    <2>4. st * PageSize \in Nat
      BY <2>3, Constants
    <2> HIDE DEF st
    <2>5. QED
      BY <1>2, <2>3, <2>4, Constants
  <1>4. n = IF st < PageCount THEN PageCount ELSE st
    BY DEF PagesFor
  <1> HIDE DEF t, st
  <1>5. n \in Nat /\ n > 0
    <2>1. st # 0
      <3>1. 0 * PageSize = 0
        BY Constants
      <3>2. QED
        BY <1>2, <1>3, <3>1
    <2>2. QED
      BY <1>3, <1>4, <2>1, Constants
  <1>6. st <= n
    BY <1>3, <1>4, Constants
  <1>7. st * PageSize <= n * PageSize
    <2>1. \A x, y, P \in Nat : x <= y => x * P <= y * P
      OBVIOUS
    <2>2. QED
      BY <1>3, <1>5, <1>6, <2>1, Constants
  <1>8. t <= n * PageSize
    <2>1. st * PageSize \in Nat /\ n * PageSize \in Nat
      BY <1>3, <1>5, Constants
    <2>2. QED
      BY <1>2, <1>3, <1>7, <2>1
  <1>9. QED
    BY <1>1, <1>2, <1>5, <1>8

LEMMA PageAddress ==
  ASSUME NEW k \in Nat
  PROVE  /\ k * PageSize \in Nat
         /\ (k * PageSize) \div PageSize = k
         /\ k > 0 => k * PageSize > 0
         /\ \A j, n \in Nat : j + n <= k => j * PageSize + n * PageSize <= k * PageSize
  <1>1. k * PageSize \in Nat /\ (k > 0 => k * PageSize > 0)
    BY Constants
  <1>2. (k * PageSize) \div PageSize = k
    BY Constants
  <1>3. ASSUME NEW j \in Nat, NEW n \in Nat, j + n <= k PROVE j * PageSize + n * PageSize <= k * PageSize
    <2>1. \A x, y, P \in Nat : x <= y => x * P <= y * P
      OBVIOUS
    <2>2. (j + n) * PageSize = j * PageSize + n * PageSize
      BY Constants
    <2>3. (j + n) * PageSize <= k * PageSize
      BY <1>3, <2>1, Constants
    <2>4. QED
      BY <2>2, <2>3
  <1>4. QED
    BY <1>1, <1>2, <1>3

-----------------------------------------------------------------------------
(* The majors. *)

LEMMA MajorFacts ==
  ASSUME NEW ma, MajorOK(ma), NEW x \in DOMAIN ma
  PROVE  /\ x \in Nat /\ x > 0
         /\ x \div PageSize \in HeapPages
         /\ x = (x \div PageSize) * PageSize
         /\ ma[x].pages \in Nat /\ ma[x].pages > 0
         /\ ma[x].size \in Nat /\ ma[x].size > 0
         /\ ma[x].size = ma[x].pages * PageSize
  <1>1. PICK k \in HeapPages : x = k * PageSize
    BY DEF MajorOK
  <1>2. k \in Nat /\ k > 0
    BY Constants
  <1>3. x \in Nat /\ x > 0 /\ x \div PageSize = k
    BY <1>1, <1>2, PageAddress
  <1>4. ma[x].pages \in Nat /\ ma[x].pages > 0 /\ ma[x].size = ma[x].pages * PageSize
    BY DEF MajorOK
  <1>5. ma[x].size \in Nat /\ ma[x].size > 0
    BY <1>4, PageAddress
  <1>6. QED
    BY <1>1, <1>3, <1>4, <1>5

LEMMA Least ==
  ASSUME NEW T \in SUBSET Nat, T # {}
  PROVE  \E n \in T : \A k \in T : n <= k
  <1>1. IsWellFoundedOn(OpToRel(<, Nat), Nat)
    BY NatLessThanWellFounded
  <1>2. PICK n \in T : \A k \in T : ~(<<k, n>> \in OpToRel(<, Nat))
    BY <1>1, WFMin
  <1>3. ASSUME NEW k \in T PROVE n <= k
    <2>1. k \in Nat /\ n \in Nat
      OBVIOUS
    <2>2. <<k, n>> \notin OpToRel(<, Nat)
      BY <1>2
    <2>3. ~(k < n)
      BY <2>1, <2>2 DEF OpToRel
    <2>4. QED
      BY <2>1, <2>3
  <1>4. QED
    BY <1>3

(* If there is a major at all, l_memRoot is one. *)
LEMMA RootExists ==
  ASSUME NEW ma, NEW root, NEW rs, MajorsInv(ma, root, rs), DOMAIN ma # {}
  PROVE  root \in DOMAIN ma
  <1>1. PICK rank \in [DOMAIN ma -> Nat] :
          \A x \in DOMAIN ma : ma[x].next # Null => rank[x] < rank[ma[x].next]
    BY DEF MajorsInv, Ranked
  <1>2. PICK n \in {rank[x] : x \in DOMAIN ma} : \A k \in {rank[x] : x \in DOMAIN ma} : n <= k
    <2>1. {rank[x] : x \in DOMAIN ma} \in SUBSET Nat /\ {rank[x] : x \in DOMAIN ma} # {}
      OBVIOUS
    <2>2. QED
      BY <2>1, Least
  <1>3. PICK x \in DOMAIN ma : n = rank[x]
    BY <1>2
  <1>4. ASSUME ma[x].prev # Null PROVE FALSE
    <2>1. ma[x].prev \in DOMAIN ma /\ ma[ma[x].prev].next = x
      BY <1>4 DEF MajorsInv, MajorOK, Linked
    <2>2. x # Null
      BY MajorFacts, Constants DEF MajorsInv
    <2>3. rank[ma[x].prev] < rank[x]
      BY <1>1, <2>1, <2>2
    <2>4. rank[x] <= rank[ma[x].prev]
      BY <1>2, <1>3, <2>1
    <2>5. rank[x] \in Nat /\ rank[ma[x].prev] \in Nat
      BY <2>1
    <2>6. QED
      BY <2>3, <2>4, <2>5
  <1>5. QED
    BY <1>4 DEF MajorsInv, Linked

(* Only `usage' and `first' of the majors change. *)
SameMajors(ma, ma2) ==
  /\ DOMAIN ma2 = DOMAIN ma
  /\ \A x \in DOMAIN ma :
       /\ IsMajor(ma2[x])
       /\ ma2[x].usage \in Int
       /\ ma2[x].pages = ma[x].pages /\ ma2[x].size = ma[x].size
       /\ ma2[x].prev = ma[x].prev /\ ma2[x].next = ma[x].next

LEMMA MajorsSame ==
  ASSUME NEW ma, NEW root, NEW rs, MajorsInv(ma, root, rs), NEW ma2, SameMajors(ma, ma2)
  PROVE  MajorsInv(ma2, root, rs)
  <1>1. MajorOK(ma2)
    BY DEF MajorsInv, MajorOK, SameMajors
  <1>2. MajorsApart(ma2)
    BY DEF MajorsInv, MajorsApart, SameMajors
  <1>3. RunsAre(ma2, rs)
    BY DEF MajorsInv, RunsAre, SameMajors
  <1>4. Linked(ma2, root)
    <2>1. ASSUME NEW x \in DOMAIN ma2
          PROVE  /\ ma2[x].next # Null => ma2[ma2[x].next].prev = x
                 /\ ma2[x].prev # Null => ma2[ma2[x].prev].next = x
                 /\ ma2[x].prev = Null => x = root
      <3>1. x \in DOMAIN ma /\ ma2[x].next = ma[x].next /\ ma2[x].prev = ma[x].prev
        BY DEF SameMajors
      <3>2. ma[x].next # Null => ma[x].next \in DOMAIN ma /\ ma2[ma[x].next].prev = ma[ma[x].next].prev
        BY <3>1 DEF MajorsInv, MajorOK, SameMajors
      <3>3. ma[x].prev # Null => ma[x].prev \in DOMAIN ma /\ ma2[ma[x].prev].next = ma[ma[x].prev].next
        BY <3>1 DEF MajorsInv, MajorOK, SameMajors
      <3>4. QED
        BY <3>1, <3>2, <3>3 DEF MajorsInv, Linked
    <2>2. QED
      BY <2>1 DEF MajorsInv, Linked, SameMajors
  <1>5. Ranked(ma2)
    <2>1. PICK rank \in [DOMAIN ma -> Nat] :
            \A x \in DOMAIN ma : ma[x].next # Null => rank[x] < rank[ma[x].next]
      BY DEF MajorsInv, Ranked
    <2>2. \A x \in DOMAIN ma2 : ma2[x].next # Null => rank[x] < rank[ma2[x].next]
      BY <2>1 DEF SameMajors
    <2>3. rank \in [DOMAIN ma2 -> Nat]
      BY DEF SameMajors
    <2>4. QED
      BY <2>2, <2>3 DEF Ranked
  <1>6. QED
    BY <1>1, <1>2, <1>3, <1>4, <1>5 DEF MajorsInv

(* A major that allocate_new_page has made is linked behind prev. *)
NewHeader(n, prev) ==
  [pages |-> n, size |-> n * PageSize, usage |-> MajorSize,
   first |-> Null, prev |-> prev, next |-> Null]

AddMajor(ma, maj, n, prev) ==
  With(IF prev = Null THEN ma ELSE [ma EXCEPT ![prev].next = maj], maj, NewHeader(n, prev))

(* The major maj is new; what the others hold is what they held. *)
OneMore(ma, ma2, maj, n) ==
  /\ maj \notin DOMAIN ma
  /\ DOMAIN ma2 = DOMAIN ma \cup {maj}
  /\ ma2[maj].first = Null /\ ma2[maj].usage = MajorSize /\ ma2[maj].size = n * PageSize
  /\ \A x \in DOMAIN ma : /\ ma2[x].size = ma[x].size
                          /\ ma2[x].first = ma[x].first
                          /\ ma2[x].usage = ma[x].usage

FreePages(rs, first, n) ==
  \A p \in first .. first + n - 1 : \A r \in rs : p \notin r[1] .. r[1] + r[2] - 1

(* New pages are apart from those of the other majors. *)
LEMMA NewPages ==
  ASSUME NEW ma, NEW root, NEW rs, MajorsInv(ma, root, rs),
         NEW first \in HeapPages, NEW n \in Nat \ {0}, FreePages(rs, first, n), NEW x \in DOMAIN ma
  PROVE  \/ x + ma[x].size <= first * PageSize
         \/ first * PageSize + n * PageSize <= x
  <1> DEFINE k == x \div PageSize
             c == ma[x].pages
  <1>1. /\ k \in Nat /\ c \in Nat /\ c > 0 /\ first \in Nat
        /\ x = k * PageSize /\ ma[x].size = c * PageSize
    BY MajorFacts, Constants DEF MajorsInv
  <1>2. <<k, c>> \in rs
    BY DEF MajorsInv, RunsAre
  <1>3. <<k, c>>[1] = k /\ <<k, c>>[2] = c
    OBVIOUS
  <1> HIDE DEF k, c
  <1>4. \A p \in first .. first + n - 1 : p \notin k .. k + c - 1
    BY <1>2, <1>3 DEF FreePages
  <1>5. k + c <= first \/ first + n <= k
    <2>1. SUFFICES ASSUME first < k + c, k < first + n PROVE FALSE
      BY <1>1
    <2>2. CASE k <= first
      <3>1. first \in first .. first + n - 1 /\ first \in k .. k + c - 1
        BY <1>1, <2>1, <2>2
      <3>2. QED
        BY <1>4, <3>1
    <2>3. CASE first < k
      <3>1. k \in first .. first + n - 1 /\ k \in k .. k + c - 1
        BY <1>1, <2>1, <2>3
      <3>2. QED
        BY <1>4, <3>1
    <2>4. QED
      BY <1>1, <2>2, <2>3
  <1>6. QED
    BY <1>1, <1>5, PageAddress

LEMMA MajorAdded ==
  ASSUME NEW ma, NEW root, NEW rs, MajorsInv(ma, root, rs),
         NEW first \in HeapPages, NEW n \in Nat \ {0}, FreePages(rs, first, n),
         NEW prev, NEW root2, NEW maj, maj = first * PageSize,
         \/ prev = Null /\ root = Null /\ root2 = maj
         \/ prev \in DOMAIN ma /\ ma[prev].next = Null /\ root2 = root,
         NEW ma2, ma2 = AddMajor(ma, maj, n, prev)
  PROVE  /\ MajorsInv(ma2, root2, rs \cup {<<first, n>>})
         /\ OneMore(ma, ma2, maj, n)
  <1>1. first \in Nat /\ first > 0 /\ n \in Nat /\ n > 0
    BY Constants
  <1>2. /\ maj \in Nat /\ maj > 0 /\ maj \div PageSize = first
        /\ n * PageSize \in Nat /\ n * PageSize > 0
    BY <1>1, PageAddress
  <1>3. \A x \in DOMAIN ma : /\ x \in Nat /\ x > 0 /\ ma[x].size \in Nat /\ ma[x].size > 0
                             /\ x + ma[x].size <= maj \/ maj + n * PageSize <= x
    BY MajorFacts, NewPages DEF MajorsInv
  <1>4. maj \notin DOMAIN ma
    BY <1>2, <1>3
  <1>5. Null \notin DOMAIN ma /\ maj # Null
    BY <1>2, <1>3, Constants
  <1>6. CASE prev = Null
    <2>1. DOMAIN ma = {}
      BY <1>5, <1>6, RootExists
    <2>2. DOMAIN ma2 = {maj} /\ ma2[maj] = NewHeader(n, Null)
      BY <1>6, <2>1 DEF AddMajor, With
    <2>3. ma2[maj].pages = n /\ ma2[maj].size = n * PageSize /\ ma2[maj].usage = MajorSize
          /\ ma2[maj].first = Null /\ ma2[maj].prev = Null /\ ma2[maj].next = Null /\ IsMajor(ma2[maj])
      BY <2>2 DEF NewHeader, IsMajor
    <2>4. MajorOK(ma2)
      BY <1>1, <2>2, <2>3, Constants DEF MajorOK
    <2>5. MajorsApart(ma2)
      BY <1>2, <2>2 DEF MajorsApart
    <2>6. RunsAre(ma2, rs \cup {<<first, n>>})
      <3>1. rs = {}
        BY <2>1 DEF MajorsInv, RunsAre
      <3>2. QED
        BY <1>2, <2>2, <2>3, <3>1 DEF RunsAre
    <2>7. Linked(ma2, root2)
      BY <1>5, <1>6, <2>2, <2>3 DEF Linked
    <2>8. Ranked(ma2)
      <3>1. [x \in {maj} |-> 0] \in [DOMAIN ma2 -> Nat]
        BY <2>2
      <3>2. QED
        BY <2>2, <2>3, <3>1 DEF Ranked
    <2>9. OneMore(ma, ma2, maj, n)
      BY <2>1, <2>2, <2>3 DEF OneMore
    <2>10. QED
      BY <2>4, <2>5, <2>6, <2>7, <2>8, <2>9 DEF MajorsInv
  <1>7. CASE prev \in DOMAIN ma /\ ma[prev].next = Null /\ root2 = root
    <2>1. prev # Null
      BY <1>5, <1>7
    <2>2. /\ DOMAIN ma2 = DOMAIN ma \cup {maj}
          /\ ma2[maj] = NewHeader(n, prev)
          /\ ma2[prev] = [ma[prev] EXCEPT !.next = maj]
          /\ \A x \in DOMAIN ma : x # prev => ma2[x] = ma[x]
      BY <1>4, <1>7, <2>1 DEF AddMajor, With
    <2>3. ma2[maj].pages = n /\ ma2[maj].size = n * PageSize /\ ma2[maj].usage = MajorSize
          /\ ma2[maj].first = Null /\ ma2[maj].prev = prev /\ ma2[maj].next = Null /\ IsMajor(ma2[maj])
      BY <2>2 DEF NewHeader, IsMajor
    <2>4. \A x \in DOMAIN ma : IsMajor(ma[x])
      BY DEF MajorsInv, MajorOK
    <2>5. ma2[prev] = [pages |-> ma[prev].pages, size |-> ma[prev].size, usage |-> ma[prev].usage,
                       first |-> ma[prev].first, prev |-> ma[prev].prev, next |-> maj]
      BY <1>7, <2>2, <2>4 DEF IsMajor
    <2>6. \A x \in DOMAIN ma : /\ ma2[x].pages = ma[x].pages /\ ma2[x].size = ma[x].size
                               /\ ma2[x].usage = ma[x].usage /\ ma2[x].first = ma[x].first
                               /\ ma2[x].prev = ma[x].prev
                               /\ ma2[x].next = IF x = prev THEN maj ELSE ma[x].next
                               /\ IsMajor(ma2[x])
      BY <2>2, <2>4, <2>5 DEF IsMajor
    <2>7. MajorOK(ma2)
      BY <1>1, <1>7, <2>2, <2>3, <2>6, Constants DEF MajorOK, MajorsInv
    <2>8. MajorsApart(ma2)
      BY <1>2, <1>3, <2>2, <2>3, <2>6 DEF MajorsApart, MajorsInv
    <2>9. RunsAre(ma2, rs \cup {<<first, n>>})
      BY <1>2, <2>2, <2>3, <2>6 DEF RunsAre, MajorsInv
    <2>10. Linked(ma2, root2)
      <3>1. /\ root \in DOMAIN ma \cup {Null}
            /\ \A x \in DOMAIN ma :
                 /\ ma[x].next \in DOMAIN ma \cup {Null}
                 /\ ma[x].prev \in DOMAIN ma \cup {Null}
                 /\ ma[x].next # Null => ma[ma[x].next].prev = x
                 /\ ma[x].prev # Null => ma[ma[x].prev].next = x
                 /\ ma[x].prev = Null => x = root
        BY DEF MajorsInv, Linked, MajorOK
      <3>2. root \in DOMAIN ma
        BY <1>7, RootExists
      <3>3. ASSUME NEW x \in DOMAIN ma
            PROVE  /\ ma2[x].next # Null => ma2[ma2[x].next].prev = x
                   /\ ma2[x].prev # Null => ma2[ma2[x].prev].next = x
                   /\ ma2[x].prev = Null => x = root
        <4>1. CASE x = prev
          BY <1>4, <1>7, <2>3, <2>6, <3>1, <4>1
        <4>2. CASE x # prev
          <5>1. x # Null /\ ma2[x].next = ma[x].next /\ ma2[x].prev = ma[x].prev
            BY <1>5, <2>6, <4>2
          <5>2. ma[x].next # Null => ma2[ma[x].next].prev = x
            BY <2>6, <3>1
          <5>3. ASSUME ma[x].prev # Null PROVE ma2[ma[x].prev].next = x
            <6>1. ma[x].prev \in DOMAIN ma /\ ma[ma[x].prev].next = x
              BY <3>1, <5>3
            <6>2. ma[x].prev # prev
              BY <1>7, <5>1, <6>1
            <6>3. QED
              BY <2>6, <6>1, <6>2
          <5>4. ma[x].prev = Null => x = root
            BY <3>1
          <5>5. QED
            BY <5>1, <5>2, <5>3, <5>4
        <4>3. QED
          BY <4>1, <4>2
      <3>4. ma2[maj].next = Null /\ ma2[maj].prev = prev /\ ma2[prev].next = maj
        BY <1>7, <2>3, <2>6
      <3>5. QED
        BY <1>7, <2>1, <2>2, <3>2, <3>3, <3>4 DEF Linked
    <2>11. Ranked(ma2)
      <3>1. PICK rank \in [DOMAIN ma -> Nat] :
              \A x \in DOMAIN ma : ma[x].next # Null => rank[x] < rank[ma[x].next]
        BY DEF MajorsInv, Ranked
      <3> DEFINE rank2 == [x \in DOMAIN ma2 |-> IF x = maj THEN rank[prev] + 1 ELSE rank[x]]
      <3>2. rank2 \in [DOMAIN ma2 -> Nat]
        BY <1>7, <2>2
      <3>3. \A x \in DOMAIN ma : ma[x].next \in DOMAIN ma \cup {Null}
        BY DEF MajorsInv, MajorOK
      <3>4. ASSUME NEW x \in DOMAIN ma2, ma2[x].next # Null PROVE rank2[x] < rank2[ma2[x].next]
        <4>1. x # maj /\ x \in DOMAIN ma
          BY <2>2, <2>3, <3>4
        <4>2. CASE x = prev
          <5>1. ma2[x].next = maj /\ rank[x] \in Nat
            BY <2>6, <4>1, <4>2
          <5>2. QED
            BY <2>2, <4>1, <4>2, <5>1
        <4>3. CASE x # prev
          <5>1. ma2[x].next = ma[x].next /\ ma[x].next \in DOMAIN ma /\ ma[x].next # maj
            BY <1>4, <2>6, <3>3, <3>4, <4>1, <4>3
          <5>2. QED
            BY <2>2, <3>1, <3>4, <4>1, <5>1
        <4>4. QED
          BY <4>2, <4>3
      <3> HIDE DEF rank2
      <3>5. QED
        BY <3>2, <3>4 DEF Ranked
    <2>12. OneMore(ma, ma2, maj, n)
      BY <1>4, <2>2, <2>3, <2>6 DEF OneMore
    <2>13. QED
      BY <2>7, <2>8, <2>9, <2>10, <2>11, <2>12 DEF MajorsInv
  <1>8. QED
    BY <1>6, <1>7

(* The completely unused major maj leaves the list. *)
RemoveMajor(ma, maj) ==
  [x \in DOMAIN ma \ {maj} |->
     IF x = ma[maj].prev THEN [ma[x] EXCEPT !.next = ma[maj].next]
     ELSE IF x = ma[maj].next THEN [ma[x] EXCEPT !.prev = ma[maj].prev]
     ELSE ma[x]]

OneLess(ma, ma2, maj) ==
  /\ DOMAIN ma2 = DOMAIN ma \ {maj}
  /\ \A x \in DOMAIN ma2 : /\ ma2[x].size = ma[x].size
                           /\ ma2[x].first = ma[x].first
                           /\ ma2[x].usage = ma[x].usage

LEMMA MajorRemoved ==
  ASSUME NEW ma, NEW root, NEW rs, MajorsInv(ma, root, rs), NEW maj \in DOMAIN ma,
         NEW root2, root2 = (IF root = maj THEN ma[maj].next ELSE root),
         NEW ma2, ma2 = RemoveMajor(ma, maj)
  PROVE  /\ MajorsInv(ma2, root2, rs \ {<<maj \div PageSize, ma[maj].pages>>})
         /\ OneLess(ma, ma2, maj)
  <1>1. PICK rank \in [DOMAIN ma -> Nat] :
          \A x \in DOMAIN ma : ma[x].next # Null => rank[x] < rank[ma[x].next]
    BY DEF MajorsInv, Ranked
  <1>2. /\ root \in DOMAIN ma \cup {Null}
        /\ \A x \in DOMAIN ma :
             /\ ma[x].next \in DOMAIN ma \cup {Null}
             /\ ma[x].prev \in DOMAIN ma \cup {Null}
             /\ ma[x].next # Null => ma[ma[x].next].prev = x
             /\ ma[x].prev # Null => ma[ma[x].prev].next = x
             /\ ma[x].prev = Null => x = root
    BY DEF MajorsInv, Linked, MajorOK
  <1>3. \A x \in DOMAIN ma : x # Null /\ x = (x \div PageSize) * PageSize
    BY MajorFacts, Constants DEF MajorsInv
  <1>4. \A x \in DOMAIN ma : rank[x] \in Nat
    OBVIOUS
  <1>5. PICK prev : prev = ma[maj].prev
    OBVIOUS
  <1>6. PICK next : next = ma[maj].next
    OBVIOUS
  <1>7. /\ next # Null => next \in DOMAIN ma /\ next # maj /\ ma[next].prev = maj /\ rank[maj] < rank[next]
        /\ prev # Null => prev \in DOMAIN ma /\ prev # maj /\ ma[prev].next = maj /\ rank[prev] < rank[maj]
    <2>1. next # Null => next \in DOMAIN ma /\ ma[next].prev = maj /\ rank[maj] < rank[next]
      BY <1>1, <1>2, <1>6
    <2>2. prev # Null => prev \in DOMAIN ma /\ ma[prev].next = maj
      BY <1>2, <1>5
    <2>3. prev # Null => rank[prev] < rank[maj]
      BY <1>1, <1>3, <2>2
    <2>4. QED
      BY <1>4, <2>1, <2>2, <2>3
  <1>8. next # Null /\ prev # Null => next # prev /\ rank[prev] < rank[next]
    BY <1>4, <1>7
  <1>9. \A x \in DOMAIN ma : IsMajor(ma[x])
    BY DEF MajorsInv, MajorOK
  <1>10. /\ DOMAIN ma2 = DOMAIN ma \ {maj}
         /\ \A x \in DOMAIN ma2 :
              ma2[x] = IF x = prev THEN [ma[x] EXCEPT !.next = next]
                       ELSE IF x = next THEN [ma[x] EXCEPT !.prev = prev]
                       ELSE ma[x]
    BY <1>5, <1>6 DEF RemoveMajor
  <1>11. ASSUME NEW x \in DOMAIN ma2
         PROVE  /\ IsMajor(ma2[x])
                /\ ma2[x].pages = ma[x].pages /\ ma2[x].size = ma[x].size
                /\ ma2[x].usage = ma[x].usage /\ ma2[x].first = ma[x].first
                /\ ma2[x].next = IF x = prev THEN next ELSE ma[x].next
                /\ ma2[x].prev = IF x = next THEN prev ELSE ma[x].prev
    <2>1. x \in DOMAIN ma /\ x # Null /\ IsMajor(ma[x])
      BY <1>3, <1>9, <1>10
    <2>2. CASE x = prev
      <3>1. ma2[x] = [pages |-> ma[x].pages, size |-> ma[x].size, usage |-> ma[x].usage,
                      first |-> ma[x].first, prev |-> ma[x].prev, next |-> next]
        BY <1>10, <2>1, <2>2 DEF IsMajor
      <3>2. x # next
        BY <1>8, <2>1, <2>2
      <3>3. QED
        BY <2>2, <3>1, <3>2 DEF IsMajor
    <2>3. CASE x # prev /\ x = next
      <3>1. ma2[x] = [pages |-> ma[x].pages, size |-> ma[x].size, usage |-> ma[x].usage,
                      first |-> ma[x].first, prev |-> prev, next |-> ma[x].next]
        BY <1>10, <2>1, <2>3 DEF IsMajor
      <3>2. QED
        BY <2>3, <3>1 DEF IsMajor
    <2>4. CASE x # prev /\ x # next
      BY <1>10, <2>1, <2>4
    <2>5. QED
      BY <2>2, <2>3, <2>4
  <1>12. MajorOK(ma2)
    <2>1. ASSUME NEW x \in DOMAIN ma2
          PROVE  /\ ma2[x].prev \in DOMAIN ma2 \cup {Null}
                 /\ ma2[x].next \in DOMAIN ma2 \cup {Null}
      <3>1. x \in DOMAIN ma /\ x # maj /\ x # Null
        BY <1>3, <1>10
      <3>2. x # prev => ma[x].next # maj
        BY <1>2, <1>3, <1>5, <3>1
      <3>3. x # next => ma[x].prev # maj
        BY <1>2, <1>3, <1>6, <3>1
      <3>4. QED
        BY <1>2, <1>7, <1>10, <1>11, <3>1, <3>2, <3>3
    <2>2. QED
      BY <1>10, <1>11, <2>1 DEF MajorsInv, MajorOK
  <1>13. MajorsApart(ma2)
    BY <1>10, <1>11 DEF MajorsInv, MajorsApart
  <1>14. RunsAre(ma2, rs \ {<<maj \div PageSize, ma[maj].pages>>})
    <2>1. rs = {<<x \div PageSize, ma[x].pages>> : x \in DOMAIN ma}
      BY DEF MajorsInv, RunsAre
    <2>2. \A x \in DOMAIN ma : x # maj => <<x \div PageSize, ma[x].pages>> # <<maj \div PageSize, ma[maj].pages>>
      BY <1>3
    <2>3. rs \ {<<maj \div PageSize, ma[maj].pages>>} = {<<x \div PageSize, ma[x].pages>> : x \in DOMAIN ma \ {maj}}
      BY <2>1, <2>2
    <2>4. QED
      BY <1>10, <1>11, <2>3 DEF RunsAre
  <1>15. Linked(ma2, root2)
    <2>1. ASSUME NEW x \in DOMAIN ma2
          PROVE  /\ ma2[x].next # Null => ma2[ma2[x].next].prev = x
                 /\ ma2[x].prev # Null => ma2[ma2[x].prev].next = x
                 /\ ma2[x].prev = Null => x = root2
      <3>1. x \in DOMAIN ma /\ x # maj /\ x # Null
        BY <1>3, <1>10
      <3>2. ASSUME ma2[x].next # Null PROVE ma2[ma2[x].next].prev = x
        <4>1. ma2[x].next \in DOMAIN ma2
          BY <1>12, <3>2 DEF MajorOK
        <4>2. CASE x = prev
          BY <1>11, <3>2, <4>1, <4>2
        <4>3. CASE x # prev
          <5>1. ma2[x].next = ma[x].next /\ ma[ma[x].next].prev = x
            BY <1>2, <1>11, <3>1, <3>2, <4>3
          <5>2. ma[x].next # next
            BY <1>7, <3>1, <3>2, <5>1
          <5>3. QED
            BY <1>11, <4>1, <5>1, <5>2
        <4>4. QED
          BY <4>2, <4>3
      <3>3. ASSUME ma2[x].prev # Null PROVE ma2[ma2[x].prev].next = x
        <4>1. ma2[x].prev \in DOMAIN ma2
          BY <1>12, <3>3 DEF MajorOK
        <4>2. CASE x = next
          BY <1>11, <3>3, <4>1, <4>2
        <4>3. CASE x # next
          <5>1. ma2[x].prev = ma[x].prev /\ ma[ma[x].prev].next = x
            BY <1>2, <1>11, <3>1, <3>3, <4>3
          <5>2. ma[x].prev # prev
            BY <1>7, <3>1, <3>3, <5>1
          <5>3. QED
            BY <1>11, <4>1, <5>1, <5>2
        <4>4. QED
          BY <4>2, <4>3
      <3>4. ASSUME ma2[x].prev = Null PROVE x = root2
        <4>1. CASE x = next
          BY <1>2, <1>5, <1>6, <1>11, <3>4, <4>1
        <4>2. CASE x # next
          BY <1>2, <1>11, <3>1, <3>4, <4>2
        <4>3. QED
          BY <4>1, <4>2
      <3>5. QED
        BY <3>2, <3>3, <3>4
    <2>2. root2 \in DOMAIN ma2 \cup {Null}
      BY <1>2, <1>6, <1>7, <1>10
    <2>3. QED
      BY <2>1, <2>2 DEF Linked
  <1>16. Ranked(ma2)
    <2> DEFINE rank2 == [x \in DOMAIN ma2 |-> rank[x]]
    <2>1. rank2 \in [DOMAIN ma2 -> Nat]
      BY <1>4, <1>10
    <2>2. ASSUME NEW x \in DOMAIN ma2, ma2[x].next # Null PROVE rank2[x] < rank2[ma2[x].next]
      <3>1. ma2[x].next \in DOMAIN ma2
        BY <1>12, <2>2 DEF MajorOK
      <3>2. rank[x] < rank[ma2[x].next]
        <4>1. CASE x = prev
          BY <1>3, <1>8, <1>10, <1>11, <2>2, <4>1
        <4>2. CASE x # prev
          BY <1>1, <1>10, <1>11, <2>2, <4>2
        <4>3. QED
          BY <4>1, <4>2
      <3>3. QED
        BY <3>1, <3>2
    <2> HIDE DEF rank2
    <2>3. QED
      BY <2>1, <2>2 DEF Ranked
  <1>17. OneLess(ma, ma2, maj)
    BY <1>10, <1>11 DEF OneLess
  <1>18. QED
    BY <1>12, <1>13, <1>14, <1>15, <1>16, <1>17 DEF MajorsInv

-----------------------------------------------------------------------------
(* The minors. *)

LEMMA MinorFacts ==
  ASSUME NEW ma, NEW mi, MajorOK(ma), MinorsInv(ma, mi), NEW m \in DOMAIN mi
  PROVE  /\ m \in Nat /\ m > 0
         /\ mi[m].block \in DOMAIN ma /\ mi[m].block \in Nat
         /\ mi[m].size \in Nat /\ mi[m].req \in Nat
         /\ mi[m].req + 2 * Alignment <= mi[m].size
         /\ End(mi, m) \in Nat /\ End(mi, m) = m + MinorSize + mi[m].size /\ m < End(mi, m)
         /\ mi[m].block + MajorSize <= m
         /\ End(mi, m) <= mi[m].block + ma[mi[m].block].size
  <1>1. /\ m \in Nat /\ mi[m].block \in DOMAIN ma /\ mi[m].size \in Nat /\ mi[m].req \in Nat
        /\ mi[m].req + 2 * Alignment <= mi[m].size
        /\ mi[m].block + MajorSize <= m
        /\ End(mi, m) <= mi[m].block + ma[mi[m].block].size
    BY DEF MinorsInv, MinorOK
  <1>2. mi[m].block \in Nat /\ mi[m].block > 0
    BY <1>1, MajorFacts
  <1>3. QED
    BY <1>1, <1>2, Constants DEF End

LEMMA MineAddresses ==
  ASSUME NEW ma, NEW mi, MajorOK(ma), MinorsInv(ma, mi), NEW maj
  PROVE  Addresses(Mine(mi, maj))
  BY MinorFacts DEF Mine, Addresses

(* Two blocks never overlap, whichever majors they are in. *)
LEMMA BlocksApart ==
  ASSUME NEW ma, NEW mi, MajorOK(ma), MajorsApart(ma), MinorsInv(ma, mi),
         NEW m \in DOMAIN mi, NEW n \in DOMAIN mi, m # n
  PROVE  End(mi, m) <= n \/ End(mi, n) <= m
  <1>1. /\ m \in Nat /\ n \in Nat /\ End(mi, m) \in Nat /\ End(mi, n) \in Nat
        /\ mi[m].block \in DOMAIN ma /\ mi[n].block \in DOMAIN ma
        /\ mi[m].block \in Nat /\ mi[n].block \in Nat
        /\ mi[m].block + MajorSize <= m /\ End(mi, m) <= mi[m].block + ma[mi[m].block].size
        /\ mi[n].block + MajorSize <= n /\ End(mi, n) <= mi[n].block + ma[mi[n].block].size
    BY MinorFacts
  <1>2. ma[mi[m].block].size \in Nat /\ ma[mi[n].block].size \in Nat
    BY <1>1, MajorFacts
  <1>3. CASE mi[m].block = mi[n].block
    BY <1>1, <1>3 DEF MinorsInv, MinorsApart
  <1>4. CASE mi[m].block < mi[n].block
    <2>1. mi[m].block + ma[mi[m].block].size <= mi[n].block
      BY <1>1, <1>4 DEF MajorsApart
    <2>2. QED
      BY <1>1, <1>2, <2>1, Constants
  <1>5. CASE mi[n].block < mi[m].block
    <2>1. mi[n].block + ma[mi[n].block].size <= mi[m].block
      BY <1>1, <1>5 DEF MajorsApart
    <2>2. QED
      BY <1>1, <1>2, <2>1, Constants
  <1>6. QED
    BY <1>1, <1>3, <1>4, <1>5

(* Majors come and go that hold no block. *)
SameMinors(ma, ma2, mi) ==
  /\ \A x \in DOMAIN ma : Mine(mi, x) # {} => x \in DOMAIN ma2
  /\ \A x \in DOMAIN ma \cap DOMAIN ma2 : ma2[x].size = ma[x].size /\ ma2[x].first = ma[x].first
  /\ \A x \in DOMAIN ma2 \ DOMAIN ma : ma2[x].first = Null

LEMMA MinorsSame ==
  ASSUME NEW ma, NEW ma2, NEW mi, MinorsInv(ma, mi), SameMinors(ma, ma2, mi)
  PROVE  MinorsInv(ma2, mi)
  <1>1. \A m \in DOMAIN mi : mi[m].block \in DOMAIN ma /\ mi[m].block \in DOMAIN ma2
    BY DEF MinorsInv, MinorOK, SameMinors, Mine
  <1>2. \A m \in DOMAIN mi : ma2[mi[m].block].size = ma[mi[m].block].size
    BY <1>1 DEF SameMinors
  <1>3. MinorOK(ma2, mi)
    BY <1>1, <1>2 DEF MinorsInv, MinorOK
  <1>4. ASSUME NEW x \in DOMAIN ma2 PROVE NextIn(Mine(mi, x), Null, ma2[x].first)
    <2>1. CASE x \in DOMAIN ma
      BY <2>1 DEF SameMinors, MinorsInv, Chained
    <2>2. CASE x \notin DOMAIN ma
      <3>1. Mine(mi, x) = {}
        BY <1>1, <2>2 DEF Mine
      <3>2. ma2[x].first = Null
        BY <2>2 DEF SameMinors
      <3>3. QED
        BY <3>1, <3>2 DEF NextIn
    <2>3. QED
      BY <2>1, <2>2
  <1>5. Chained(ma2, mi)
    BY <1>4 DEF MinorsInv, Chained
  <1>6. QED
    BY <1>3, <1>5 DEF MinorsInv

LEMMA MinorsOneMore ==
  ASSUME NEW ma, NEW ma2, NEW mi, MinorsInv(ma, mi), NEW maj, NEW n, OneMore(ma, ma2, maj, n)
  PROVE  MinorsInv(ma2, mi)
  <1>1. SameMinors(ma, ma2, mi)
    BY DEF OneMore, SameMinors
  <1>2. QED
    BY <1>1, MinorsSame

(* realloc keeps a block that is large enough. *)
Resized(mi, m, req) == [mi EXCEPT ![m].req = req]

SameBlocks(mi, mi2, m, req) ==
  /\ DOMAIN mi2 = DOMAIN mi
  /\ \A x \in DOMAIN mi : /\ IsMinor(mi2[x])
                          /\ mi2[x].prev = mi[x].prev /\ mi2[x].next = mi[x].next
                          /\ mi2[x].block = mi[x].block /\ mi2[x].size = mi[x].size
                          /\ mi2[x].req = IF x = m THEN req ELSE mi[x].req

LEMMA MinorResized ==
  ASSUME NEW ma, NEW mi, MinorsInv(ma, mi), NEW m \in DOMAIN mi,
         NEW req \in Nat, req \in Sizes, mi[m].req >= req, NEW mi2, mi2 = Resized(mi, m, req)
  PROVE  MinorsInv(ma, mi2) /\ SameBlocks(mi, mi2, m, req)
  <1>1. \A x \in DOMAIN mi : IsMinor(mi[x])
    BY DEF MinorsInv, MinorOK
  <1>2. mi2[m] = [prev |-> mi[m].prev, next |-> mi[m].next, block |-> mi[m].block, size |-> mi[m].size, req |-> req]
    BY <1>1 DEF Resized, IsMinor
  <1>3. SameBlocks(mi, mi2, m, req)
    <2>1. DOMAIN mi2 = DOMAIN mi /\ \A x \in DOMAIN mi : x # m => mi2[x] = mi[x]
      BY DEF Resized
    <2>2. QED
      BY <1>1, <1>2, <2>1 DEF SameBlocks, IsMinor
  <1>4. MinorOK(ma, mi2)
    <2>1. ASSUME NEW x \in DOMAIN mi2
          PROVE  /\ mi2[x].req \in Nat /\ mi2[x].req \in Sizes
                 /\ mi2[x].req + 2 * Alignment <= mi2[x].size
      <3>1. x \in DOMAIN mi /\ mi[x].req \in Nat /\ mi[x].req \in Sizes /\ mi[x].size \in Nat /\ mi[x].req + 2 * Alignment <= mi[x].size
            /\ mi[m].req \in Nat
        BY <1>3 DEF MinorsInv, MinorOK, SameBlocks
      <3>2. mi2[x].size = mi[x].size /\ mi2[x].req = IF x = m THEN req ELSE mi[x].req
        BY <1>3, <3>1 DEF SameBlocks
      <3>3. QED
        BY <3>1, <3>2, Constants
    <2>2. QED
      BY <1>3, <2>1 DEF MinorsInv, MinorOK, SameBlocks, End
  <1>5. MinorsApart(mi2)
    BY <1>3 DEF MinorsInv, MinorsApart, SameBlocks, End
  <1>6. Chained(ma, mi2)
    <2>1. \A maj : Mine(mi2, maj) = Mine(mi, maj)
      BY <1>3 DEF SameBlocks, Mine
    <2>2. \A x \in DOMAIN mi2 : x \in DOMAIN mi /\ mi2[x].block = mi[x].block /\ mi2[x].next = mi[x].next /\ mi2[x].prev = mi[x].prev
      BY <1>3 DEF SameBlocks
    <2>3. QED
      BY <2>1, <2>2 DEF MinorsInv, Chained
  <1>7. QED
    BY <1>3, <1>4, <1>5, <1>6 DEF MinorsInv

-----------------------------------------------------------------------------
(* A block is put into a gap. *)

BehindIn(mi, maj, m) == IF m = Null THEN maj + MajorSize ELSE End(mi, m)
FollowerIn(ma, mi, maj, m) == IF m = Null THEN ma[maj].first ELSE mi[m].next

(* There is room for the request behind m, which begins at address a. *)
RoomAt(ma, mi, maj, m, a, next, req) ==
  /\ maj \in DOMAIN ma
  /\ m = Null \/ m \in Mine(mi, maj)
  /\ a = BehindIn(mi, maj, m)
  /\ next = FollowerIn(ma, mi, maj, m)
  /\ req \in Nat /\ req \in Sizes
  /\ a + Need(req) <= IF next = Null THEN maj + ma[maj].size ELSE next

NewBlock(maj, m, next, req) ==
  [prev |-> m, next |-> next, block |-> maj, size |-> Size(req), req |-> req]

InsertMinor(mi, maj, m, a, next, req) ==
  [x \in DOMAIN mi \cup {a} |->
     IF x = a THEN NewBlock(maj, m, next, req)
     ELSE IF x = m THEN [mi[x] EXCEPT !.next = a]
     ELSE IF x = next THEN [mi[x] EXCEPT !.prev = a]
     ELSE mi[x]]

CountMinor(ma, maj, m, a, req) ==
  [ma EXCEPT ![maj].usage = @ + Need(req), ![maj].first = IF m = Null THEN a ELSE @]

(* What the search knows of the place it has found. *)
Placeable(mi, maj, m, a, next) ==
  LET S == Mine(mi, maj)
  IN  /\ a \in Nat /\ a > 0 /\ m \in S \cup {Null} /\ m < a /\ m \in Nat
      /\ NextIn(S, m, next)
      /\ \A z \in S : z <= m \/ a < z
      /\ next = Null \/ next \in S
      /\ next # m \/ next = Null

LEMMA RoomIsPlace ==
  ASSUME NEW ma, NEW mi, MajorOK(ma), MinorsInv(ma, mi),
         NEW maj, NEW m, NEW a, NEW next, NEW req, RoomAt(ma, mi, maj, m, a, next, req)
  PROVE  Placeable(mi, maj, m, a, next)
  <1> DEFINE S == Mine(mi, maj)
  <1>1. maj \in Nat /\ maj > 0 /\ maj \in DOMAIN ma /\ ma[maj].size \in Nat
    BY MajorFacts DEF RoomAt
  <1>2. \A z \in S : z \in Nat /\ z > 0 /\ End(mi, z) \in Nat /\ z < End(mi, z) /\ z \in DOMAIN mi
    BY MinorFacts DEF Mine
  <1>3. NextIn(S, m, next)
    BY <1>1 DEF RoomAt, FollowerIn, MinorsInv, Chained, Mine
  <1>4. m \in S \cup {Null} /\ m \in Nat
    BY <1>2, Constants DEF RoomAt
  <1>5. a \in Nat /\ m < a
    BY <1>1, <1>2, Constants DEF RoomAt, BehindIn
  <1>6. Need(req) \in Nat /\ Need(req) > 0 /\ req \in Nat
    BY PagesSuffice, Constants DEF RoomAt
  <1> HIDE DEF S
  <1>7. next = Null \/ (next \in S /\ next > m /\ next \in Nat)
    BY <1>2, <1>3 DEF NextIn
  <1>8. next # Null => a < next
    BY <1>5, <1>6, <1>7 DEF RoomAt
  <1>9. ASSUME NEW z \in S PROVE z <= m \/ a < z
    <2>1. z <= m \/ (next \in S /\ next <= z /\ next # Null)
      BY <1>2, <1>3, Constants DEF NextIn
    <2>2. QED
      BY <1>2, <1>5, <1>7, <1>8, <2>1
  <1>10. QED
    BY <1>3, <1>4, <1>5, <1>7, <1>9 DEF Placeable, S

(* The headers after the block has been put behind m. *)
OneBlockMore(mi, mi2, maj, m, a, next, req) ==
  /\ DOMAIN mi2 = DOMAIN mi \cup {a}
  /\ mi2[a] = NewBlock(maj, m, next, req)
  /\ \A x \in DOMAIN mi : /\ IsMinor(mi2[x])
                          /\ mi2[x].next = IF x = m THEN a ELSE mi[x].next
                          /\ mi2[x].prev = IF x = next THEN a ELSE mi[x].prev
                          /\ mi2[x].block = mi[x].block /\ mi2[x].size = mi[x].size
                          /\ mi2[x].req = mi[x].req

LEMMA MinorInserted ==
  ASSUME NEW ma, NEW mi, MajorOK(ma), MajorsApart(ma), MinorsInv(ma, mi),
         NEW maj, NEW m, NEW a, NEW next, NEW req, RoomAt(ma, mi, maj, m, a, next, req),
         NEW mi2, mi2 = InsertMinor(mi, maj, m, a, next, req)
  PROVE  a \notin DOMAIN mi /\ OneBlockMore(mi, mi2, maj, m, a, next, req)
  <1>1. Placeable(mi, maj, m, a, next)
    BY RoomIsPlace
  <1>2. \A x \in DOMAIN mi : IsMinor(mi[x])
    BY DEF MinorsInv, MinorOK
  <1>3. a \notin DOMAIN mi
    <2>1. SUFFICES ASSUME a \in DOMAIN mi PROVE FALSE
      OBVIOUS
    <2>2. maj \in Nat /\ maj > 0 /\ maj \in DOMAIN ma /\ ma[maj].size \in Nat
      BY MajorFacts DEF RoomAt
    <2>3. /\ mi[a].block \in DOMAIN ma /\ mi[a].block \in Nat /\ a \in Nat
          /\ mi[a].block + MajorSize <= a /\ a < End(mi, a) /\ End(mi, a) \in Nat
          /\ End(mi, a) <= mi[a].block + ma[mi[a].block].size
          /\ ma[mi[a].block].size \in Nat
      BY <2>1, MinorFacts, MajorFacts
    <2>4. mi[a].block # maj
      <3>1. a \notin Mine(mi, maj)
        BY <1>1 DEF Placeable
      <3>2. QED
        BY <2>1, <3>1 DEF Mine
    <2>5. maj + MajorSize <= a /\ a < maj + ma[maj].size
      <3>1. Need(req) \in Nat /\ Need(req) > 0
        BY PagesSuffice, Constants DEF RoomAt
      <3>2. maj + MajorSize <= a
        <4>1. m # Null => m \in DOMAIN mi /\ mi[m].block = maj
          BY DEF RoomAt, Mine
        <4>2. m # Null => m \in Nat /\ maj + MajorSize <= m /\ m < End(mi, m) /\ End(mi, m) \in Nat
          BY <4>1, MinorFacts
        <4>3. QED
          BY <2>2, <2>3, <4>2, Constants DEF RoomAt, BehindIn
      <3>3. a < maj + ma[maj].size
        <4>1. CASE next = Null
          BY <2>2, <2>3, <3>1, <4>1 DEF RoomAt
        <4>2. CASE next # Null
          <5>1. next \in DOMAIN mi /\ mi[next].block = maj
            BY <1>1, <4>2 DEF Placeable, Mine
          <5>2. next \in Nat /\ next < End(mi, next) /\ End(mi, next) \in Nat /\ End(mi, next) <= maj + ma[maj].size
            BY <5>1, MinorFacts
          <5>3. a + Need(req) <= next
            BY <4>2 DEF RoomAt
          <5>4. QED
            BY <2>2, <2>3, <3>1, <5>2, <5>3
        <4>3. QED
          BY <4>1, <4>2
      <3>4. QED
        BY <3>2, <3>3
    <2>6. CASE maj < mi[a].block
      <3>1. maj + ma[maj].size <= mi[a].block
        BY <2>2, <2>3, <2>6 DEF MajorsApart
      <3>2. QED
        BY <2>2, <2>3, <2>5, <3>1, Constants
    <2>7. CASE mi[a].block < maj
      <3>1. mi[a].block + ma[mi[a].block].size <= maj
        BY <2>2, <2>3, <2>7 DEF MajorsApart
      <3>2. QED
        BY <2>2, <2>3, <2>5, <3>1, Constants
    <2>8. QED
      BY <2>2, <2>3, <2>4, <2>6, <2>7
  <1>4. /\ DOMAIN mi2 = DOMAIN mi \cup {a}
        /\ mi2[a] = NewBlock(maj, m, next, req)
        /\ \A x \in DOMAIN mi : mi2[x] = IF x = m THEN [mi[x] EXCEPT !.next = a]
                                         ELSE IF x = next THEN [mi[x] EXCEPT !.prev = a]
                                         ELSE mi[x]
    BY <1>3 DEF InsertMinor
  <1>5. ASSUME NEW x \in DOMAIN mi
        PROVE  /\ IsMinor(mi2[x])
               /\ mi2[x].next = IF x = m THEN a ELSE mi[x].next
               /\ mi2[x].prev = IF x = next THEN a ELSE mi[x].prev
               /\ mi2[x].block = mi[x].block /\ mi2[x].size = mi[x].size
               /\ mi2[x].req = mi[x].req
    <2>1. x \in Nat /\ x # Null /\ IsMinor(mi[x])
      BY <1>2, MinorFacts, Constants
    <2>2. CASE x = m
      <3>1. mi2[x] = [prev |-> mi[x].prev, next |-> a, block |-> mi[x].block, size |-> mi[x].size, req |-> mi[x].req]
        BY <1>4, <2>1, <2>2 DEF IsMinor
      <3>2. x # next
        BY <1>1, <2>1, <2>2 DEF Placeable
      <3>3. QED
        BY <2>2, <3>1, <3>2 DEF IsMinor
    <2>3. CASE x # m /\ x = next
      <3>1. mi2[x] = [prev |-> a, next |-> mi[x].next, block |-> mi[x].block, size |-> mi[x].size, req |-> mi[x].req]
        BY <1>4, <2>1, <2>3 DEF IsMinor
      <3>2. QED
        BY <2>3, <3>1 DEF IsMinor
    <2>4. CASE x # m /\ x # next
      BY <1>4, <2>1, <2>4
    <2>5. QED
      BY <2>2, <2>3, <2>4
  <1>6. QED
    BY <1>3, <1>4, <1>5 DEF OneBlockMore

LEMMA MajorCounted ==
  ASSUME NEW ma, MajorOK(ma), NEW maj \in DOMAIN ma, NEW m, NEW a, NEW req \in Nat,
         NEW ma2, ma2 = CountMinor(ma, maj, m, a, req)
  PROVE  /\ SameMajors(ma, ma2)
         /\ ma2[maj].first = IF m = Null THEN a ELSE ma[maj].first
         /\ ma2[maj].usage = ma[maj].usage + Need(req)
         /\ \A x \in DOMAIN ma : x # maj => ma2[x] = ma[x]
  <1>1. \A x \in DOMAIN ma : IsMajor(ma[x]) /\ ma[x].usage \in Int
    BY DEF MajorOK
  <1>2. DOMAIN ma2 = DOMAIN ma /\ \A x \in DOMAIN ma : x # maj => ma2[x] = ma[x]
    BY DEF CountMinor
  <1>3. ma2[maj] = [pages |-> ma[maj].pages, size |-> ma[maj].size, usage |-> ma[maj].usage + Need(req),
                    first |-> IF m = Null THEN a ELSE ma[maj].first, prev |-> ma[maj].prev, next |-> ma[maj].next]
    <2> DEFINE mid == [ma EXCEPT ![maj].usage = @ + Need(req)]
    <2>1. ma2 = [mid EXCEPT ![maj].first = IF m = Null THEN a ELSE @]
      BY DEF CountMinor
    <2>2. /\ DOMAIN mid = DOMAIN ma
          /\ mid[maj] = [pages |-> ma[maj].pages, size |-> ma[maj].size, usage |-> ma[maj].usage + Need(req),
                         first |-> ma[maj].first, prev |-> ma[maj].prev, next |-> ma[maj].next]
      BY <1>1 DEF IsMajor
    <2> HIDE DEF mid
    <2>3. ma2[maj] = [mid[maj] EXCEPT !.first = IF m = Null THEN a ELSE @]
      BY <2>1, <2>2
    <2>4. QED
      BY <2>2, <2>3
  <1>4. Need(req) \in Nat
    BY PagesSuffice
  <1>5. QED
    BY <1>1, <1>2, <1>3, <1>4 DEF SameMajors, IsMajor

(* The lists are sound again once the block is linked into them. *)
LEMMA MinorPlaced ==
  ASSUME NEW ma, NEW mi, MajorOK(ma), MajorsApart(ma), MinorsInv(ma, mi),
         NEW maj, NEW m, NEW a, NEW next, NEW req, RoomAt(ma, mi, maj, m, a, next, req),
         NEW mi2, mi2 = InsertMinor(mi, maj, m, a, next, req),
         NEW ma2, ma2 = CountMinor(ma, maj, m, a, req)
  PROVE  MinorsInv(ma2, mi2)
  <1>1. Placeable(mi, maj, m, a, next)
    BY RoomIsPlace
  <1>2. a \notin DOMAIN mi /\ OneBlockMore(mi, mi2, maj, m, a, next, req)
    BY MinorInserted
  <1>3. maj \in DOMAIN ma /\ req \in Nat
    BY DEF RoomAt
  <1>4. /\ SameMajors(ma, ma2)
        /\ ma2[maj].first = IF m = Null THEN a ELSE ma[maj].first
        /\ \A x \in DOMAIN ma : x # maj => ma2[x] = ma[x]
    BY <1>3, MajorCounted
  <1>5. /\ mi2[a].prev = m /\ mi2[a].next = next /\ mi2[a].block = maj
        /\ mi2[a].size = Size(req) /\ mi2[a].req = req /\ IsMinor(mi2[a])
    BY <1>2 DEF OneBlockMore, NewBlock, IsMinor
  <1>6. /\ Size(req) \in Nat /\ Need(req) \in Nat
        /\ Size(req) = req + 2 * Alignment /\ Need(req) = Size(req) + MinorSize
    BY <1>3, PagesSuffice
  <1>7. maj \in Nat /\ ma[maj].size \in Nat
    BY <1>3, MajorFacts
  <1>8. /\ a \in Nat /\ a > 0 /\ m \in Nat /\ m \in Mine(mi, maj) \cup {Null} /\ m < a
        /\ NextIn(Mine(mi, maj), m, next)
        /\ next = Null \/ next \in Mine(mi, maj)
        /\ \A z \in Mine(mi, maj) : z <= m \/ a < z
    BY <1>1 DEF Placeable
  <1>9. End(mi2, a) = a + Need(req) /\ End(mi2, a) \in Nat
    BY <1>5, <1>6, <1>8, Constants DEF End
  <1>10. \A x \in DOMAIN mi : End(mi2, x) = End(mi, x)
    BY <1>2 DEF OneBlockMore, End
  <1>11. \A z \in Mine(mi, maj) : /\ z \in DOMAIN mi /\ z \in Nat /\ End(mi, z) \in Nat /\ z < End(mi, z)
                                  /\ maj + MajorSize <= z /\ End(mi, z) <= maj + ma[maj].size
    BY MinorFacts DEF Mine
  <1>12. maj + MajorSize <= a
    BY <1>7, <1>8, <1>11, Constants DEF RoomAt, BehindIn
  <1>13. End(mi2, a) <= maj + ma[maj].size
    <2>1. CASE next = Null
      BY <1>9, <2>1 DEF RoomAt
    <2>2. CASE next # Null
      <3>1. End(mi2, a) <= next
        BY <1>9, <2>2 DEF RoomAt
      <3>2. next \in Mine(mi, maj)
        BY <1>8, <2>2
      <3>3. QED
        BY <1>7, <1>9, <1>11, <3>1, <3>2
    <2>3. QED
      BY <2>1, <2>2
  <1>14. MinorOK(ma2, mi2)
    <2>1. DOMAIN ma2 = DOMAIN ma /\ \A x \in DOMAIN ma : ma2[x].size = ma[x].size
      BY <1>4 DEF SameMajors
    <2>2. ASSUME NEW x \in DOMAIN mi
          PROVE  /\ IsMinor(mi2[x]) /\ x \in Nat /\ mi2[x].block \in DOMAIN ma2
                 /\ mi2[x].size \in Nat /\ mi2[x].req \in Nat /\ mi2[x].req + 2 * Alignment <= mi2[x].size
                 /\ mi2[x].block + MajorSize <= x
                 /\ End(mi2, x) <= mi2[x].block + ma2[mi2[x].block].size
                 /\ mi2[x].req \in Sizes
      <3>0. mi[x].req \in Sizes
        BY DEF MinorsInv, MinorOK
      <3>1. /\ IsMinor(mi2[x]) /\ mi2[x].block = mi[x].block /\ mi2[x].size = mi[x].size /\ mi2[x].req = mi[x].req
        BY <1>2 DEF OneBlockMore
      <3>2. QED
        BY <1>10, <2>1, <3>0, <3>1, MinorFacts
    <2>3. DOMAIN mi2 = DOMAIN mi \cup {a}
      BY <1>2 DEF OneBlockMore
    <2>4. /\ IsMinor(mi2[a]) /\ a \in Nat /\ mi2[a].block \in DOMAIN ma2
          /\ mi2[a].size \in Nat /\ mi2[a].req \in Nat /\ mi2[a].req + 2 * Alignment <= mi2[a].size
          /\ mi2[a].block + MajorSize <= a
          /\ End(mi2, a) <= mi2[a].block + ma2[mi2[a].block].size
          /\ mi2[a].req \in Sizes
      <3>0. req \in Sizes
        BY DEF RoomAt
      <3>1. mi2[a].req + 2 * Alignment <= mi2[a].size
        BY <1>3, <1>5, <1>6, Constants
      <3>2. QED
        BY <1>3, <1>5, <1>6, <1>8, <1>12, <1>13, <2>1, <3>0, <3>1
    <2>5. QED
      BY <2>2, <2>3, <2>4 DEF MinorOK
  <1>15. MinorsApart(mi2)
    <2>1. DOMAIN mi2 = DOMAIN mi \cup {a} /\ \A x \in DOMAIN mi : mi2[x].block = mi[x].block
      BY <1>2 DEF OneBlockMore
    <2>2. ASSUME NEW x \in Mine(mi, maj), x < a PROVE End(mi, x) <= a
      <3>0. x \in Nat /\ End(mi, x) \in Nat /\ (x <= m \/ a < x)
        BY <1>8, <1>11
      <3>1. x <= m /\ x \in Nat
        BY <1>8, <2>2, <3>0
      <3>2. m \in Mine(mi, maj) /\ m # Null
        BY <1>8, <3>1, <1>11, MinorFacts, Constants DEF Mine
      <3>3. a = End(mi, m)
        BY <3>2 DEF RoomAt, BehindIn
      <3>4. x # m => End(mi, x) <= m
        <4>1. x \in DOMAIN mi /\ m \in DOMAIN mi /\ mi[x].block = mi[m].block
          BY <2>2, <3>2 DEF Mine
        <4>2. QED
          BY <1>8, <3>1, <4>1 DEF MinorsInv, MinorsApart
      <3>5. QED
        <4>1. m < End(mi, m) /\ End(mi, m) \in Nat
          BY <1>11, <3>2
        <4>2. QED
          BY <1>8, <3>0, <3>3, <3>4, <4>1
    <2>3. ASSUME NEW x \in Mine(mi, maj), a < x PROVE End(mi2, a) <= x
      <3>0. x \in Nat
        BY <1>11
      <3>1. x \in Nat /\ ~(x <= m)
        BY <1>8, <2>3, <3>0
      <3>2. next \in Mine(mi, maj) /\ next <= x /\ next # Null
        BY <1>8, <1>11, <3>1, MinorFacts, Constants DEF NextIn, Mine
      <3>3. End(mi2, a) <= next
        BY <1>9, <3>2 DEF RoomAt
      <3>4. QED
        BY <1>9, <1>11, <3>1, <3>2, <3>3
    <2>4. ASSUME NEW x \in DOMAIN mi2, NEW y \in DOMAIN mi2, mi2[x].block = mi2[y].block, x < y
          PROVE  End(mi2, x) <= y
      <3>1. CASE x \in DOMAIN mi /\ y \in DOMAIN mi
        BY <1>10, <2>1, <2>4, <3>1 DEF MinorsInv, MinorsApart
      <3>2. CASE x = a /\ y \in DOMAIN mi
        <4>1. y \in Mine(mi, maj)
          BY <1>5, <2>1, <2>4, <3>2 DEF Mine
        <4>2. QED
          BY <2>3, <2>4, <3>2, <4>1
      <3>3. CASE y = a /\ x \in DOMAIN mi
        <4>1. x \in Mine(mi, maj)
          BY <1>5, <2>1, <2>4, <3>3 DEF Mine
        <4>2. QED
          BY <1>10, <2>2, <2>4, <3>3, <4>1
      <3>4. CASE x = a /\ y = a
        BY <1>8, <2>4, <3>4
      <3>5. QED
        BY <2>1, <3>1, <3>2, <3>3, <3>4
    <2>5. QED
      BY <2>4 DEF MinorsApart
  <1>16. Chained(ma2, mi2)
    <2>1. DOMAIN mi2 = DOMAIN mi \cup {a} /\ \A x \in DOMAIN mi : mi2[x].block = mi[x].block
      BY <1>2 DEF OneBlockMore
    <2>2. Mine(mi2, maj) = Mine(mi, maj) \cup {a}
      BY <1>2, <1>5, <2>1 DEF Mine
    <2>3. \A j : j # maj => Mine(mi2, j) = Mine(mi, j)
      BY <1>2, <1>5, <2>1 DEF Mine
    <2>4. PICK S : S = Mine(mi, maj)
      OBVIOUS
    <2>5. Addresses(S) /\ m \in S \cup {Null} /\ NextIn(S, m, next) /\ a \in Nat /\ m < a /\ \A z \in S : z <= m \/ a < z
      BY <1>8, <2>4, MineAddresses
    <2>6. /\ NextIn(S \cup {a}, a, next)
          /\ NextIn(S \cup {a}, m, a)
          /\ \A x : \A y \in S \cup {Null} : y # m /\ NextIn(S, y, x) => NextIn(S \cup {a}, y, x)
      BY <2>5, InsertNext
    <2>7. /\ PrevIn(S \cup {a}, a, m)
          /\ next # Null => PrevIn(S \cup {a}, next, a)
          /\ \A x : \A y \in S : y # next /\ PrevIn(S, y, x) => PrevIn(S \cup {a}, y, x)
      BY <2>5, InsertPrev
    <2>8. ASSUME NEW j \in DOMAIN ma2 PROVE NextIn(Mine(mi2, j), Null, ma2[j].first)
      <3>1. j \in DOMAIN ma /\ NextIn(Mine(mi, j), Null, ma[j].first)
        BY <1>4 DEF SameMajors, MinorsInv, Chained
      <3>2. CASE j # maj
        BY <1>4, <2>3, <3>1, <3>2
      <3>3. CASE j = maj /\ m = Null
        BY <1>4, <2>2, <2>4, <2>6, <3>3
      <3>4. CASE j = maj /\ m # Null
        BY <1>4, <2>2, <2>4, <2>6, <3>1, <3>4
      <3>5. QED
        BY <3>2, <3>3, <3>4
    <2>9. ASSUME NEW x \in DOMAIN mi2
          PROVE  NextIn(Mine(mi2, mi2[x].block), x, mi2[x].next) /\ PrevIn(Mine(mi2, mi2[x].block), x, mi2[x].prev)
      <3>1. CASE x = a
        BY <1>5, <2>2, <2>4, <2>6, <2>7, <3>1
      <3>2. CASE x \in DOMAIN mi
        <4>1. /\ NextIn(Mine(mi, mi[x].block), x, mi[x].next)
              /\ PrevIn(Mine(mi, mi[x].block), x, mi[x].prev)
              /\ mi2[x].block = mi[x].block
              /\ mi2[x].next = IF x = m THEN a ELSE mi[x].next
              /\ mi2[x].prev = IF x = next THEN a ELSE mi[x].prev
          BY <1>2, <3>2 DEF MinorsInv, Chained, OneBlockMore
        <4>2. CASE mi[x].block # maj
          <5>1. x \notin Mine(mi, maj) /\ x # Null
            BY <3>2, <4>2, MinorFacts, Constants DEF Mine
          <5>2. x # m /\ x # next
            BY <1>8, <5>1
          <5>3. QED
            BY <2>3, <4>1, <4>2, <5>2
        <4>3. CASE mi[x].block = maj
          <5>1. x \in S /\ x # Null /\ mi2[x].block = maj
            BY <2>4, <3>2, <4>1, <4>3, MinorFacts, Constants DEF Mine
          <5>2. NextIn(S \cup {a}, x, mi2[x].next)
            <6>1. CASE x = m
              BY <2>6, <4>1, <6>1
            <6>2. CASE x # m
              BY <2>4, <2>6, <4>1, <4>3, <5>1, <6>2
            <6>3. QED
              BY <6>1, <6>2
          <5>3. PrevIn(S \cup {a}, x, mi2[x].prev)
            <6>1. CASE x = next
              BY <2>7, <4>1, <5>1, <6>1
            <6>2. CASE x # next
              BY <2>4, <2>7, <4>1, <4>3, <5>1, <6>2
            <6>3. QED
              BY <6>1, <6>2
          <5>4. QED
            BY <2>2, <2>4, <5>1, <5>2, <5>3
        <4>4. QED
          BY <4>2, <4>3
      <3>3. QED
        BY <2>1, <3>1, <3>2
    <2>10. QED
      BY <2>8, <2>9 DEF Chained
  <1>17. QED
    BY <1>14, <1>15, <1>16 DEF MinorsInv

-----------------------------------------------------------------------------
(* The pointers. *)

(* A pointer lies in the block it belongs to, with room for the request.   *)
LEMMA PointerFacts ==
  ASSUME NEW ma, NEW mi, NEW pd, MajorOK(ma), MinorsInv(ma, mi), PadOK(mi, pd),
         NEW p \in DOMAIN pd, NEW h, h = HeaderOf(pd, p)
  PROVE  /\ p \in Nat /\ h \in DOMAIN mi /\ h \in Nat
         /\ h + MinorSize + Alignment <= p
         /\ p + mi[h].req <= End(mi, h) /\ p < End(mi, h)
         /\ p % Alignment = 0
         /\ p = h + MinorSize + AlignDiff(h + MinorSize)
  <1>1. p \in Nat /\ pd[p] \in Nat /\ pd[p] = AlignDiff(p - pd[p]) /\ h \in DOMAIN mi
    BY DEF PadOK
  <1>2. /\ h \in Nat /\ mi[h].size \in Nat /\ mi[h].req \in Nat
        /\ mi[h].req + 2 * Alignment <= mi[h].size
        /\ End(mi, h) = h + MinorSize + mi[h].size
    BY <1>1, MinorFacts
  <1>3. p - pd[p] = h + MinorSize /\ h + MinorSize \in Nat
    BY <1>1, <1>2, Constants DEF HeaderOf
  <1>4. PICK d : d = AlignDiff(h + MinorSize)
    OBVIOUS
  <1>5. d \in Nat /\ d >= Alignment /\ d < 2 * Alignment /\ (h + MinorSize + d) % Alignment = 0
    BY <1>3, <1>4, Aligned
  <1>6. p = h + MinorSize + d
    BY <1>1, <1>3, <1>4, <1>5
  <1>7. p + mi[h].req <= End(mi, h) /\ p < End(mi, h) /\ h + MinorSize + Alignment <= p
    BY <1>2, <1>5, <1>6, Constants
  <1>8. QED
    BY <1>1, <1>2, <1>4, <1>5, <1>6, <1>7

(* Two pointers that were returned belong to different blocks. *)
LEMMA HeadersDiffer ==
  ASSUME NEW ma, NEW mi, NEW pd, MajorOK(ma), MinorsInv(ma, mi), PadOK(mi, pd),
         NEW p \in DOMAIN pd, NEW q \in DOMAIN pd, HeaderOf(pd, p) = HeaderOf(pd, q)
  PROVE  p = q
  BY PointerFacts

Padded(pd, pd2, p, a) ==
  /\ p \notin DOMAIN pd /\ p \in Nat /\ p # Null
  /\ DOMAIN pd2 = DOMAIN pd \cup {p}
  /\ HeaderOf(pd2, p) = a
  /\ \A q \in DOMAIN pd : HeaderOf(pd2, q) = HeaderOf(pd, q)

(* ALIGN on a new block. *)
LEMMA PointerAdded ==
  ASSUME NEW ma, NEW mi, NEW pd, PadOK(mi, pd),
         NEW mi2, MajorOK(ma), MajorsApart(ma), MinorsInv(ma, mi2),
         NEW a, a \notin DOMAIN mi, DOMAIN mi2 = DOMAIN mi \cup {a},
         NEW p, p = a + MinorSize + AlignDiff(a + MinorSize),
         NEW pd2, pd2 = With(pd, p, AlignDiff(a + MinorSize))
  PROVE  PadOK(mi2, pd2) /\ Padded(pd, pd2, p, a)
  <1>1. PICK d : d = AlignDiff(a + MinorSize)
    OBVIOUS
  <1>2. /\ a \in Nat /\ mi2[a].size \in Nat /\ mi2[a].req \in Nat
        /\ mi2[a].req + 2 * Alignment <= mi2[a].size
        /\ End(mi2, a) = a + MinorSize + mi2[a].size
    BY MinorFacts
  <1>3. a + MinorSize \in Nat /\ d \in Nat /\ d >= Alignment /\ d < 2 * Alignment
    BY <1>1, <1>2, Aligned, Constants
  <1>4. p = a + MinorSize + d /\ p \in Nat /\ p # Null /\ a < p /\ p < End(mi2, a)
    BY <1>1, <1>2, <1>3, Constants
  <1>5. PadOK(mi2, pd)
    BY DEF PadOK
  <1>6. p \notin DOMAIN pd
    <2>1. SUFFICES ASSUME p \in DOMAIN pd PROVE FALSE
      OBVIOUS
    <2>2. PICK h : h = HeaderOf(pd, p)
      OBVIOUS
    <2>3. h \in Nat /\ h + MinorSize + Alignment <= p /\ p < End(mi2, h) /\ h \in DOMAIN mi2
      BY <1>5, <2>1, <2>2, PointerFacts
    <2>4. h # a
      BY <2>1, <2>2 DEF PadOK
    <2>5. End(mi2, h) <= a \/ End(mi2, a) <= h
      BY <2>3, <2>4, BlocksApart
    <2>6. End(mi2, h) \in Nat /\ End(mi2, a) \in Nat
      BY <2>3, MinorFacts
    <2>7. QED
      BY <1>2, <1>4, <2>3, <2>5, <2>6, Constants
  <1>7. /\ DOMAIN pd2 = DOMAIN pd \cup {p} /\ pd2[p] = d
        /\ \A q \in DOMAIN pd : pd2[q] = pd[q]
    BY <1>1, <1>6 DEF With
  <1>8. p - d = a + MinorSize /\ HeaderOf(pd2, p) = a
    BY <1>2, <1>3, <1>4, <1>7, Constants DEF HeaderOf
  <1>9. Padded(pd, pd2, p, a)
    BY <1>4, <1>6, <1>7, <1>8 DEF Padded, HeaderOf
  <1>10. PadOK(mi2, pd2)
    <2>1. \A q \in DOMAIN pd : /\ q \in Nat /\ pd2[q] \in Nat /\ pd2[q] = AlignDiff(q - pd2[q])
                               /\ HeaderOf(pd2, q) \in DOMAIN mi2
      BY <1>5, <1>7 DEF PadOK, HeaderOf
    <2>2. p \in Nat /\ pd2[p] \in Nat /\ pd2[p] = AlignDiff(p - pd2[p]) /\ HeaderOf(pd2, p) \in DOMAIN mi2
      BY <1>1, <1>3, <1>4, <1>7, <1>8
    <2>3. QED
      BY <1>7, <2>1, <2>2 DEF PadOK
  <1>11. QED
    BY <1>9, <1>10

-----------------------------------------------------------------------------
(* malloc returns a block: Place. *)

LEMMA PlaceStep ==
  ASSUME Inv, Searching(call), NEW maj, NEW m,
         RoomAt(majors, minors, maj, m, GapStart(maj, m), GapNext(maj, m), call.req),
         \A x \in DOMAIN majors : majors[x].first = Null => x = maj,
         bestBet' \in DOMAIN majors \cup {Null}, Place(maj, m)
  PROVE  Inv'
  <1>1. /\ MajorsInv(majors, memRoot, runs) /\ MinorsInv(majors, minors) /\ PadOK(minors, pad)
        /\ LiveOK(minors, pad, live) /\ CallOK(majors, minors, pad, live, call)
    BY DEF Inv, Searching
  <1>2. MajorOK(majors) /\ MajorsApart(majors)
    BY <1>1 DEF MajorsInv
  <1>3. PICK a : a = GapStart(maj, m)
    OBVIOUS
  <1>4. PICK next : next = GapNext(maj, m)
    OBVIOUS
  <1>5. PICK req : req = call.req
    OBVIOUS
  <1>6. PICK p : p = a + MinorSize + AlignDiff(a + MinorSize)
    OBVIOUS
  <1>7. RoomAt(majors, minors, maj, m, a, next, req)
    BY <1>3, <1>4, <1>5
  <1>8. /\ minors' = InsertMinor(minors, maj, m, a, next, req)
        /\ majors' = CountMinor(majors, maj, m, a, req)
        /\ pad' = With(pad, p, AlignDiff(a + MinorSize))
        /\ Return(p)
        /\ memRoot' = memRoot /\ runs' = runs
    BY <1>3, <1>4, <1>5, <1>6 DEF Place, InsertMinor, NewBlock, CountMinor
  <1>9. /\ maj \in DOMAIN majors /\ req \in Nat
        /\ m = Null \/ m \in Mine(minors, maj)
    BY <1>7 DEF RoomAt
  <1>10. a \notin DOMAIN minors /\ OneBlockMore(minors, minors', maj, m, a, next, req)
    BY <1>1, <1>2, <1>7, <1>8, MinorInserted
  <1>11. /\ SameMajors(majors, majors')
         /\ majors'[maj].first = IF m = Null THEN a ELSE majors[maj].first
         /\ \A x \in DOMAIN majors : x # maj => majors'[x] = majors[x]
    BY <1>2, <1>8, <1>9, MajorCounted
  <1>12. MajorsInv(majors', memRoot', runs')
    BY <1>1, <1>8, <1>11, MajorsSame
  <1>13. MinorsInv(majors', minors')
    BY <1>1, <1>2, <1>7, <1>8, MinorPlaced
  <1>14. DOMAIN minors' = DOMAIN minors \cup {a} /\ minors'[a].req = req
         /\ \A x \in DOMAIN minors : minors'[x].req = minors[x].req
    BY <1>10 DEF OneBlockMore, NewBlock
  <1>15. PadOK(minors', pad') /\ Padded(pad, pad', p, a)
    <2>1. MajorOK(majors') /\ MajorsApart(majors')
      BY <1>12 DEF MajorsInv
    <2>2. QED
      BY <1>1, <1>6, <1>8, <1>10, <1>13, <1>14, <2>1, PointerAdded
  <1>16. bestBet' \in DOMAIN majors' \cup {Null}
    BY <1>11 DEF SameMajors
  <1>17. \A q \in DOMAIN live : /\ q \in DOMAIN pad' /\ q # p
                                /\ live[q] = minors'[HeaderOf(pad', q)].req
    <2>1. \A q \in DOMAIN live : q \in DOMAIN pad /\ live[q] = minors[HeaderOf(pad, q)].req /\ HeaderOf(pad, q) \in DOMAIN minors
      BY <1>1 DEF LiveOK, PadOK
    <2>2. QED
      BY <1>14, <1>15, <2>1 DEF Padded
  <1>18. p # Null /\ p \in DOMAIN pad' /\ p \notin DOMAIN live /\ minors'[HeaderOf(pad', p)].req = req
    BY <1>14, <1>15, <1>17 DEF Padded
  <1>19. EmptyOK(majors', call')
    <2>1. majors'[maj].first # Null
      <3>1. CASE m = Null
        <4>1. a # Null
          BY <1>1, <1>2, <1>7, <1>9, RoomIsPlace, Constants DEF Placeable
        <4>2. QED
          BY <1>11, <3>1, <4>1
      <3>2. CASE m # Null
        <4>1. m \in Mine(minors, maj) /\ m \in Nat /\ m > 0
          BY <1>1, <1>2, <1>9, <3>2, MinorFacts DEF Mine
        <4>2. NextIn(Mine(minors, maj), Null, majors[maj].first)
          BY <1>1, <1>9 DEF MinorsInv, Chained
        <4>3. majors[maj].first # Null
          <5>1. SUFFICES ASSUME majors[maj].first = Null PROVE FALSE
            OBVIOUS
          <5>2. m <= Null
            BY <4>1, <4>2, <5>1, Constants DEF NextIn
          <5>3. QED
            BY <4>1, <5>2, Constants
        <4>4. QED
          BY <1>11, <3>2, <4>3
      <3>3. QED
        BY <3>1, <3>2
    <2>2. \A x \in DOMAIN majors' : majors'[x].first # Null
      BY <1>11, <2>1 DEF SameMajors
    <2>3. QED
      BY <2>2 DEF EmptyOK
  <1>20. CASE call.old = Null
    <2>1. live' = With(live, p, req) /\ call' = Idle
      BY <1>5, <1>8, <1>18, <1>20 DEF Return
    <2>2. LiveOK(minors', pad', live')
      BY <1>17, <1>18, <2>1 DEF LiveOK, With
    <2>3. CallOK(majors', minors', pad', live', call')
      BY <2>1 DEF CallOK, Idle, IsCall, Searching, Labels
    <2>4. QED
      BY <1>12, <1>13, <1>15, <1>16, <1>19, <2>2, <2>3 DEF Inv
  <1>21. CASE call.old # Null
    <2>1. call' = [call EXCEPT !.at = "copy", !.min = p] /\ live' = live
      BY <1>8, <1>21 DEF Return
    <2>2. LiveOK(minors', pad', live')
      BY <1>17, <2>1 DEF LiveOK
    <2>3. IsCall(call) /\ call.old \in DOMAIN live
      BY <1>1, <1>21 DEF CallOK
    <2>4. call' = [at |-> "copy", req |-> req, old |-> call.old, maj |-> call.maj, min |-> p,
                   bet |-> call.bet, best |-> call.best]
      BY <1>5, <2>1, <2>3 DEF IsCall
    <2>5. CallOK(majors', minors', pad', live', call')
      <3>0. req \in Sizes /\ call.maj \in DOMAIN majors' \cup {Null}
        BY <1>1, <1>7, <1>11 DEF RoomAt, CallOK, SameMajors
      <3>1. /\ call'.at = "copy" /\ call'.req = req /\ call'.old = call.old /\ call'.min = p
            /\ call'.maj = call.maj /\ IsCall(call')
        BY <2>4 DEF IsCall
      <3>2. call'.old \in DOMAIN live' /\ p \notin DOMAIN live'
        BY <1>18, <2>1, <2>3, <3>1
      <3>3. QED
        BY <1>9, <1>18, <1>21, <3>0, <3>1, <3>2 DEF CallOK, Searching, Labels
    <2>6. QED
      BY <1>12, <1>13, <1>15, <1>16, <1>19, <2>2, <2>5 DEF Inv
  <1>22. QED
    BY <1>20, <1>21

-----------------------------------------------------------------------------
(* A block is taken out of its list: free. *)

UnlinkMinor(mi, m) ==
  [x \in DOMAIN mi \ {m} |->
     IF x = mi[m].next THEN [mi[x] EXCEPT !.prev = mi[m].prev]
     ELSE IF x = mi[m].prev THEN [mi[x] EXCEPT !.next = mi[m].next]
     ELSE mi[x]]

UncountMinor(ma, mi, m) ==
  [ma EXCEPT ![mi[m].block].usage = @ - (mi[m].size + MinorSize),
             ![mi[m].block].first = IF mi[m].prev = Null THEN mi[m].next ELSE @]

OneBlockLess(mi, mi2, m) ==
  /\ DOMAIN mi2 = DOMAIN mi \ {m}
  /\ \A x \in DOMAIN mi2 : /\ IsMinor(mi2[x])
                           /\ mi2[x].next = IF x = mi[m].prev THEN mi[m].next ELSE mi[x].next
                           /\ mi2[x].prev = IF x = mi[m].next THEN mi[m].prev ELSE mi[x].prev
                           /\ mi2[x].block = mi[x].block /\ mi2[x].size = mi[x].size
                           /\ mi2[x].req = mi[x].req

LEMMA MinorUnlinked ==
  ASSUME NEW ma, NEW mi, MajorOK(ma), MinorsInv(ma, mi), NEW m \in DOMAIN mi,
         NEW mi2, mi2 = UnlinkMinor(mi, m)
  PROVE  OneBlockLess(mi, mi2, m)
  <1>1. \A x \in DOMAIN mi : IsMinor(mi[x]) /\ x \in Nat /\ x # Null
    BY MinorFacts, Constants DEF MinorsInv, MinorOK
  <1>2. PICK prev : prev = mi[m].prev
    OBVIOUS
  <1>3. PICK next : next = mi[m].next
    OBVIOUS
  <1>4. /\ next # Null => next \in Nat /\ next > m
        /\ prev # Null => prev \in Nat /\ prev < m
    <2>1. NextIn(Mine(mi, mi[m].block), m, next) /\ PrevIn(Mine(mi, mi[m].block), m, prev)
      BY <1>2, <1>3 DEF MinorsInv, Chained
    <2>2. \A z \in Mine(mi, mi[m].block) : z \in Nat
      BY <1>1 DEF Mine
    <2>3. QED
      BY <2>1, <2>2 DEF NextIn, PrevIn
  <1>5. next # Null /\ prev # Null => next # prev
    BY <1>1, <1>4
  <1>6. /\ DOMAIN mi2 = DOMAIN mi \ {m}
        /\ \A x \in DOMAIN mi2 : mi2[x] = IF x = next THEN [mi[x] EXCEPT !.prev = prev]
                                          ELSE IF x = prev THEN [mi[x] EXCEPT !.next = next]
                                          ELSE mi[x]
    BY <1>2, <1>3 DEF UnlinkMinor
  <1>7. ASSUME NEW x \in DOMAIN mi2
        PROVE  /\ IsMinor(mi2[x])
               /\ mi2[x].next = IF x = prev THEN next ELSE mi[x].next
               /\ mi2[x].prev = IF x = next THEN prev ELSE mi[x].prev
               /\ mi2[x].block = mi[x].block /\ mi2[x].size = mi[x].size
               /\ mi2[x].req = mi[x].req
    <2>1. x \in DOMAIN mi /\ x # Null /\ IsMinor(mi[x])
      BY <1>1, <1>6
    <2>2. CASE x = next
      <3>1. mi2[x] = [prev |-> prev, next |-> mi[x].next, block |-> mi[x].block, size |-> mi[x].size, req |-> mi[x].req]
        BY <1>6, <2>1, <2>2 DEF IsMinor
      <3>2. x # prev
        BY <1>5, <2>1, <2>2
      <3>3. QED
        BY <2>2, <3>1, <3>2 DEF IsMinor
    <2>3. CASE x # next /\ x = prev
      <3>1. mi2[x] = [prev |-> mi[x].prev, next |-> next, block |-> mi[x].block, size |-> mi[x].size, req |-> mi[x].req]
        BY <1>6, <2>1, <2>3 DEF IsMinor
      <3>2. QED
        BY <2>3, <3>1 DEF IsMinor
    <2>4. CASE x # next /\ x # prev
      BY <1>6, <2>1, <2>4
    <2>5. QED
      BY <2>2, <2>3, <2>4
  <1>8. QED
    BY <1>2, <1>3, <1>6, <1>7 DEF OneBlockLess

LEMMA MajorUncounted ==
  ASSUME NEW ma, NEW mi, MajorOK(ma), MinorsInv(ma, mi), NEW m \in DOMAIN mi,
         NEW ma2, ma2 = UncountMinor(ma, mi, m), NEW maj, maj = mi[m].block
  PROVE  /\ SameMajors(ma, ma2)
         /\ ma2[maj].first = IF mi[m].prev = Null THEN mi[m].next ELSE ma[maj].first
         /\ ma2[maj].usage = ma[maj].usage - (mi[m].size + MinorSize)
         /\ \A x \in DOMAIN ma : x # maj => ma2[x] = ma[x]
  <1>0. maj \in DOMAIN ma /\ mi[m].size \in Nat
    BY MinorFacts
  <1>1. \A x \in DOMAIN ma : IsMajor(ma[x]) /\ ma[x].usage \in Int
    BY DEF MajorOK
  <1>2. DOMAIN ma2 = DOMAIN ma /\ \A x \in DOMAIN ma : x # maj => ma2[x] = ma[x]
    BY DEF UncountMinor
  <1>3. PICK d : d = mi[m].size + MinorSize
    OBVIOUS
  <1>4. ma2[maj] = [pages |-> ma[maj].pages, size |-> ma[maj].size, usage |-> ma[maj].usage - d,
                    first |-> IF mi[m].prev = Null THEN mi[m].next ELSE ma[maj].first,
                    prev |-> ma[maj].prev, next |-> ma[maj].next]
    <2> DEFINE mid == [ma EXCEPT ![maj].usage = @ - d]
    <2>1. ma2 = [mid EXCEPT ![maj].first = IF mi[m].prev = Null THEN mi[m].next ELSE @]
      BY <1>3 DEF UncountMinor
    <2>2. /\ DOMAIN mid = DOMAIN ma
          /\ mid[maj] = [pages |-> ma[maj].pages, size |-> ma[maj].size, usage |-> ma[maj].usage - d,
                         first |-> ma[maj].first, prev |-> ma[maj].prev, next |-> ma[maj].next]
      BY <1>0, <1>1 DEF IsMajor
    <2> HIDE DEF mid
    <2>3. ma2[maj] = [mid[maj] EXCEPT !.first = IF mi[m].prev = Null THEN mi[m].next ELSE @]
      BY <1>0, <2>1, <2>2
    <2>4. QED
      BY <2>2, <2>3
  <1>5. d \in Nat
    BY <1>0, <1>3, Constants
  <1>6. ma2[maj].usage \in Int
    BY <1>0, <1>1, <1>4, <1>5
  <1>7. QED
    BY <1>0, <1>1, <1>2, <1>3, <1>4, <1>6 DEF SameMajors, IsMajor

LEMMA MinorRemoved ==
  ASSUME NEW ma, NEW mi, MajorOK(ma), MinorsInv(ma, mi), NEW m \in DOMAIN mi,
         NEW mi2, mi2 = UnlinkMinor(mi, m), NEW ma2, ma2 = UncountMinor(ma, mi, m)
  PROVE  MinorsInv(ma2, mi2)
  <1>1. PICK maj : maj = mi[m].block
    OBVIOUS
  <1>2. PICK prev : prev = mi[m].prev
    OBVIOUS
  <1>3. PICK next : next = mi[m].next
    OBVIOUS
  <1>4. OneBlockLess(mi, mi2, m)
    BY MinorUnlinked
  <1>5. /\ SameMajors(ma, ma2)
        /\ ma2[maj].first = IF prev = Null THEN next ELSE ma[maj].first
        /\ \A x \in DOMAIN ma : x # maj => ma2[x] = ma[x]
    BY <1>1, <1>2, <1>3, MajorUncounted
  <1>6. /\ DOMAIN mi2 = DOMAIN mi \ {m}
        /\ \A x \in DOMAIN mi2 : /\ x \in DOMAIN mi /\ IsMinor(mi2[x]) /\ End(mi2, x) = End(mi, x)
                                 /\ mi2[x].next = IF x = prev THEN next ELSE mi[x].next
                                 /\ mi2[x].prev = IF x = next THEN prev ELSE mi[x].prev
                                 /\ mi2[x].block = mi[x].block /\ mi2[x].size = mi[x].size
                                 /\ mi2[x].req = mi[x].req
    BY <1>2, <1>3, <1>4 DEF OneBlockLess, End
  <1>7. DOMAIN ma2 = DOMAIN ma /\ \A x \in DOMAIN ma : ma2[x].size = ma[x].size
    BY <1>5 DEF SameMajors
  <1>8. MinorOK(ma2, mi2)
    BY <1>6, <1>7 DEF MinorsInv, MinorOK
  <1>9. MinorsApart(mi2)
    BY <1>6 DEF MinorsInv, MinorsApart
  <1>10. Chained(ma2, mi2)
    <2>1. Mine(mi2, maj) = Mine(mi, maj) \ {m}
      BY <1>6 DEF Mine
    <2>2. \A j : j # maj => Mine(mi2, j) = Mine(mi, j)
      BY <1>1, <1>6 DEF Mine
    <2>3. PICK S : S = Mine(mi, maj)
      OBVIOUS
    <2>4. Addresses(S) /\ m \in S /\ NextIn(S, m, next) /\ PrevIn(S, m, prev)
      BY <1>1, <1>2, <1>3, <2>3, MineAddresses DEF MinorsInv, Chained, Mine
    <2>5. /\ NextIn(S \ {m}, prev, next)
          /\ \A x : \A y \in (S \ {m}) \cup {Null} : y # prev /\ NextIn(S, y, x) => NextIn(S \ {m}, y, x)
      BY <2>4, RemoveNext
    <2>6. /\ next # Null => PrevIn(S \ {m}, next, prev)
          /\ \A x : \A y \in S \ {m} : y # next /\ PrevIn(S, y, x) => PrevIn(S \ {m}, y, x)
      BY <2>4, RemovePrev
    <2>7. next = Null \/ next \in S
      BY <2>4 DEF NextIn
    <2>8. prev = Null \/ prev \in S
      BY <2>4 DEF PrevIn
    <2>9. ASSUME NEW j \in DOMAIN ma2 PROVE NextIn(Mine(mi2, j), Null, ma2[j].first)
      <3>1. j \in DOMAIN ma /\ NextIn(Mine(mi, j), Null, ma[j].first)
        BY <1>7 DEF MinorsInv, Chained
      <3>2. CASE j # maj
        BY <1>5, <2>2, <3>1, <3>2
      <3>3. CASE j = maj /\ prev = Null
        BY <1>5, <2>1, <2>3, <2>5, <3>3
      <3>4. CASE j = maj /\ prev # Null
        BY <1>5, <2>1, <2>3, <2>5, <3>1, <3>4
      <3>5. QED
        BY <3>2, <3>3, <3>4
    <2>10. ASSUME NEW x \in DOMAIN mi2
           PROVE  NextIn(Mine(mi2, mi2[x].block), x, mi2[x].next) /\ PrevIn(Mine(mi2, mi2[x].block), x, mi2[x].prev)
      <3>1. /\ NextIn(Mine(mi, mi[x].block), x, mi[x].next)
            /\ PrevIn(Mine(mi, mi[x].block), x, mi[x].prev)
        BY <1>6 DEF MinorsInv, Chained
      <3>2. x \in DOMAIN mi /\ x # m /\ x # Null /\ mi2[x].block = mi[x].block
        BY <1>6, MinorFacts, Constants
      <3>3. CASE mi[x].block # maj
        <4>1. x \notin S
          BY <2>3, <3>3 DEF Mine
        <4>2. x # prev /\ x # next
          BY <2>7, <2>8, <3>2, <4>1
        <4>3. QED
          BY <1>6, <2>2, <3>1, <3>2, <3>3, <4>2
      <3>4. CASE mi[x].block = maj
        <4>1. x \in S \ {m}
          BY <2>3, <3>2, <3>4 DEF Mine
        <4>2. NextIn(S, x, mi[x].next) /\ PrevIn(S, x, mi[x].prev)
          BY <2>3, <3>1, <3>4
        <4>3. NextIn(S \ {m}, x, mi2[x].next)
          <5>1. CASE x = prev
            BY <1>6, <2>5, <5>1
          <5>2. CASE x # prev
            BY <1>6, <2>5, <4>1, <4>2, <5>2
          <5>3. QED
            BY <5>1, <5>2
        <4>4. PrevIn(S \ {m}, x, mi2[x].prev)
          <5>1. CASE x = next
            BY <1>6, <2>6, <3>2, <5>1
          <5>2. CASE x # next
            BY <1>6, <2>6, <4>1, <4>2, <5>2
          <5>3. QED
            BY <5>1, <5>2
        <4>5. QED
          BY <2>1, <2>3, <3>2, <3>4, <4>3, <4>4
      <3>5. QED
        BY <3>3, <3>4
    <2>11. QED
      BY <2>9, <2>10 DEF Chained
  <1>11. QED
    BY <1>8, <1>9, <1>10 DEF MinorsInv

(* What the other pointers lead to once p is gone. *)
OthersKept(mi, pd, mi2, pd2, p) ==
  /\ DOMAIN pd2 = DOMAIN pd \ {p}
  /\ \A q \in DOMAIN pd2 : mi2[HeaderOf(pd2, q)].req = mi[HeaderOf(pd, q)].req

NoneEmpty(ma) == \A x \in DOMAIN ma : ma[x].first # Null

LEMMA PointerRemoved ==
  ASSUME NEW ma, NEW mi, NEW pd, MajorOK(ma), MinorsInv(ma, mi), PadOK(mi, pd),
         NEW p \in DOMAIN pd, NEW m, m = HeaderOf(pd, p),
         NEW mi2, OneBlockLess(mi, mi2, m), NEW pd2, pd2 = Without(pd, p)
  PROVE  PadOK(mi2, pd2) /\ OthersKept(mi, pd, mi2, pd2, p)
  <1>1. DOMAIN pd2 = DOMAIN pd \ {p} /\ \A q \in DOMAIN pd2 : pd2[q] = pd[q]
    BY DEF Without
  <1>2. \A q \in DOMAIN pd2 : q \in DOMAIN pd /\ HeaderOf(pd2, q) = HeaderOf(pd, q)
    BY <1>1 DEF HeaderOf
  <1>3. \A q \in DOMAIN pd2 : HeaderOf(pd, q) \in DOMAIN mi2
    <2>1. ASSUME NEW q \in DOMAIN pd2 PROVE HeaderOf(pd, q) # m
      <3>1. q # p /\ q \in DOMAIN pd
        BY <1>1
      <3>2. QED
        BY <3>1, HeadersDiffer
    <2>2. \A q \in DOMAIN pd2 : HeaderOf(pd, q) \in DOMAIN mi
      BY <1>1 DEF PadOK
    <2>3. QED
      BY <2>1, <2>2 DEF OneBlockLess
  <1>4. PadOK(mi2, pd2)
    BY <1>1, <1>2, <1>3 DEF PadOK
  <1>5. OthersKept(mi, pd, mi2, pd2, p)
    BY <1>1, <1>2, <1>3 DEF OthersKept, OneBlockLess
  <1>6. QED
    BY <1>4, <1>5

LEMMA FreeBlockStep ==
  ASSUME Inv, call.at \in {"idle", "copy"}, NEW p \in DOMAIN pad, FreeBlock(p)
  PROVE  /\ MajorsInv(majors', memRoot', runs')
         /\ bestBet' \in DOMAIN majors' \cup {Null}
         /\ MinorsInv(majors', minors')
         /\ PadOK(minors', pad')
         /\ NoneEmpty(majors')
         /\ OthersKept(minors, pad, minors', pad', p)
  <1>1. /\ MajorsInv(majors, memRoot, runs) /\ MinorsInv(majors, minors) /\ PadOK(minors, pad)
        /\ bestBet \in DOMAIN majors \cup {Null} /\ EmptyOK(majors, call)
    BY DEF Inv
  <1>2. MajorOK(majors) /\ MajorsApart(majors)
    BY <1>1 DEF MajorsInv
  <1>3. PICK m : m = HeaderOf(pad, p)
    OBVIOUS
  <1>4. PICK maj : maj = minors[m].block
    OBVIOUS
  <1>5. PICK red : red = UncountMinor(majors, minors, m)
    OBVIOUS
  <1>6. m \in DOMAIN minors
    BY <1>1, <1>3 DEF PadOK
  <1>7. maj \in DOMAIN majors
    BY <1>1, <1>2, <1>4, <1>6, MinorFacts
  <1>8. MinorOf(p) = m /\ Reduced(m) = red /\ Unlinked(m) = UnlinkMinor(minors, m)
    BY <1>3, <1>5 DEF MinorOf, HeaderOf, Reduced, UncountMinor, Unlinked, UnlinkMinor
  <1>9. /\ minors' = UnlinkMinor(minors, m)
        /\ pad' = Without(pad, p)
        /\ red[maj].first = Null => ReleaseMajor(maj)
        /\ red[maj].first # Null => KeepMajor(m, maj)
    BY <1>4, <1>8 DEF FreeBlock
  <1>10. OneBlockLess(minors, minors', m)
    BY <1>1, <1>2, <1>6, <1>9, MinorUnlinked
  <1>11. PadOK(minors', pad') /\ OthersKept(minors, pad, minors', pad', p)
    BY <1>1, <1>2, <1>3, <1>9, <1>10, PointerRemoved
  <1>12. SameMajors(majors, red) /\ \A x \in DOMAIN majors : x # maj => red[x] = majors[x]
    BY <1>1, <1>2, <1>4, <1>5, <1>6, MajorUncounted
  <1>13. MinorsInv(red, minors')
    BY <1>1, <1>2, <1>5, <1>6, <1>9, MinorRemoved
  <1>14. NoneEmpty(majors)
    BY <1>1 DEF EmptyOK, NoneEmpty
  <1>15. CASE red[maj].first # Null
    <2>1. majors' = red /\ memRoot' = memRoot /\ runs' = runs
      BY <1>8, <1>9, <1>15 DEF KeepMajor
    <2>2. bestBet' \in {maj, bestBet}
      BY <1>9, <1>15 DEF KeepMajor
    <2>3. MajorsInv(majors', memRoot', runs')
      BY <1>1, <1>12, <2>1, MajorsSame
    <2>4. bestBet' \in DOMAIN majors' \cup {Null}
      BY <1>1, <1>7, <1>12, <2>1, <2>2 DEF SameMajors
    <2>5. NoneEmpty(majors')
      BY <1>12, <1>14, <1>15, <2>1 DEF NoneEmpty, SameMajors
    <2>6. QED
      BY <1>11, <1>13, <2>1, <2>3, <2>4, <2>5
  <1>16. CASE red[maj].first = Null
    <2>1. /\ majors' = RemoveMajor(majors, maj)
          /\ memRoot' = (IF memRoot = maj THEN majors[maj].next ELSE memRoot)
          /\ bestBet' = IF bestBet = maj THEN Null ELSE bestBet
          /\ runs' = runs \ {<<maj \div PageSize, majors[maj].pages>>}
      BY <1>9, <1>16 DEF ReleaseMajor, RemoveMajor
    <2>2. /\ MajorsInv(majors', memRoot', runs \ {<<maj \div PageSize, majors[maj].pages>>})
          /\ OneLess(majors, majors', maj)
      BY <1>1, <1>7, <2>1, MajorRemoved
    <2>3. Mine(minors', maj) = {}
      <3>1. SUFFICES ASSUME NEW x \in Mine(minors', maj) PROVE FALSE
        OBVIOUS
      <3>2. x \in DOMAIN minors /\ x \in Nat /\ x > 0
        BY <1>1, <1>2, <1>10, MinorFacts DEF Mine, OneBlockLess
      <3>3. maj \in DOMAIN red
        BY <1>7, <1>12 DEF SameMajors
      <3>4. NextIn(Mine(minors', maj), Null, Null)
        BY <1>13, <1>16, <3>3 DEF MinorsInv, Chained
      <3>5. ~(Null > Null)
        BY Constants
      <3>6. x <= Null
        BY <3>4, <3>5 DEF NextIn
      <3>7. QED
        BY <3>2, <3>6, Constants
    <2>4. SameMinors(red, majors', minors')
      <3>1. DOMAIN red = DOMAIN majors /\ DOMAIN majors' = DOMAIN majors \ {maj}
        BY <1>12, <2>2 DEF SameMajors, OneLess
      <3>2. \A x \in DOMAIN majors' : majors'[x].size = red[x].size /\ majors'[x].first = red[x].first
        BY <1>12, <2>2, <3>1 DEF OneLess
      <3>3. QED
        BY <2>3, <3>1, <3>2 DEF SameMinors
    <2>5. MinorsInv(majors', minors')
      BY <1>13, <2>4, MinorsSame
    <2>6. bestBet' \in DOMAIN majors' \cup {Null}
      BY <1>1, <2>1, <2>2 DEF OneLess
    <2>7. NoneEmpty(majors')
      BY <1>14, <2>2 DEF NoneEmpty, OneLess
    <2>8. QED
      BY <1>11, <2>1, <2>2, <2>5, <2>6, <2>7
  <1>17. QED
    BY <1>15, <1>16

LEMMA FreeStep ==
  ASSUME Inv, NEW p \in DOMAIN live, Free(p)
  PROVE  Inv'
  <1>1. call = Idle /\ call' = Idle /\ FreeBlock(p) /\ live' = Without(live, p)
    BY DEF Free
  <1>2. call.at = "idle" /\ call'.at = "idle"
    BY <1>1 DEF Idle
  <1>3. LiveOK(minors, pad, live)
    BY <1>2 DEF Inv
  <1>4. p \in DOMAIN pad
    BY <1>3 DEF LiveOK
  <1>5. /\ MajorsInv(majors', memRoot', runs')
        /\ bestBet' \in DOMAIN majors' \cup {Null}
        /\ MinorsInv(majors', minors')
        /\ PadOK(minors', pad')
        /\ NoneEmpty(majors')
        /\ OthersKept(minors, pad, minors', pad', p)
    BY <1>1, <1>2, <1>4, FreeBlockStep
  <1>6. LiveOK(minors', pad', live')
    BY <1>1, <1>3, <1>5 DEF LiveOK, OthersKept, Without
  <1>7. CallOK(majors', minors', pad', live', call')
    BY <1>1 DEF CallOK, Idle, IsCall, Searching, Labels
  <1>8. EmptyOK(majors', call')
    BY <1>5 DEF NoneEmpty, EmptyOK
  <1>9. QED
    BY <1>5, <1>6, <1>7, <1>8 DEF Inv

LEMMA ReallocStep ==
  ASSUME Inv, NEW p \in DOMAIN live, NEW req \in Resizes, Realloc(p, req)
  PROVE  Inv'
  <1>1. call = Idle /\ call.at = "idle"
    BY DEF Realloc, Idle
  <1>2. /\ MajorsInv(majors, memRoot, runs) /\ MinorsInv(majors, minors) /\ PadOK(minors, pad)
        /\ bestBet \in DOMAIN majors \cup {Null} /\ EmptyOK(majors, call)
        /\ LiveOK(minors, pad, live)
    BY <1>1 DEF Inv
  <1>3. MajorOK(majors) /\ p \in DOMAIN pad /\ req \in Nat /\ req \in Sizes
    BY <1>2, Constants DEF MajorsInv, LiveOK, Sizes
  <1>4. PICK m : m = HeaderOf(pad, p)
    OBVIOUS
  <1>5. m = MinorOf(p) /\ m \in DOMAIN minors
    BY <1>2, <1>3, <1>4 DEF MinorOf, HeaderOf, PadOK
  <1>6. CASE Free(p)
    BY <1>6, FreeStep
  <1>7. CASE /\ minors[m].req >= req
             /\ minors' = [minors EXCEPT ![m].req = req]
             /\ live' = [live EXCEPT ![p] = req]
             /\ UNCHANGED <<majors, memRoot, bestBet, pad, runs, call>>
    <2>1. minors' = Resized(minors, m, req)
      BY <1>7 DEF Resized
    <2>2. MinorsInv(majors, minors') /\ SameBlocks(minors, minors', m, req)
      BY <1>2, <1>3, <1>5, <1>7, <2>1, MinorResized
    <2>3. PadOK(minors', pad)
      BY <1>2, <2>2 DEF PadOK, SameBlocks
    <2>4. ASSUME NEW q \in DOMAIN live' PROVE q \in DOMAIN pad /\ live'[q] = minors'[HeaderOf(pad, q)].req
      <3>1. q \in DOMAIN live /\ q \in DOMAIN pad /\ HeaderOf(pad, q) \in DOMAIN minors
        BY <1>2, <1>7 DEF LiveOK, PadOK
      <3>2. CASE q = p
        BY <1>4, <1>5, <1>7, <2>2, <3>1, <3>2 DEF SameBlocks
      <3>3. CASE q # p
        <4>1. HeaderOf(pad, q) # m
          BY <1>2, <1>3, <1>4, <3>1, <3>3, HeadersDiffer
        <4>2. live'[q] = live[q]
          BY <1>7, <3>1, <3>3
        <4>3. QED
          BY <1>2, <2>2, <3>1, <4>1, <4>2 DEF SameBlocks, LiveOK
      <3>4. QED
        BY <3>2, <3>3
    <2>5. LiveOK(minors', pad, live')
      BY <2>4 DEF LiveOK
    <2>6. CallOK(majors, minors', pad, live', call)
      BY <1>1 DEF CallOK, Idle, IsCall, Searching, Labels
    <2>7. QED
      BY <1>2, <1>7, <2>2, <2>3, <2>5, <2>6 DEF Inv
  <1>8. CASE /\ call' = [Idle EXCEPT !.at = "start", !.req = req, !.old = p]
             /\ UNCHANGED <<majors, minors, memRoot, bestBet, pad, runs, live>>
    <2>1. call' = [at |-> "start", req |-> req, old |-> p, maj |-> Null, min |-> Null, bet |-> FALSE, best |-> 0]
      BY <1>8 DEF Idle
    <2>2. call'.at = "start" /\ call'.req = req /\ call'.old = p /\ call'.maj = Null /\ IsCall(call')
      BY <2>1 DEF IsCall
    <2>3. CallOK(majors, minors, pad, live, call')
      BY <1>3, <2>2 DEF CallOK, Searching, Labels
    <2>4. EmptyOK(majors, call')
      BY <1>1, <1>2 DEF EmptyOK
    <2>5. QED
      BY <1>2, <1>8, <2>3, <2>4 DEF Inv
  <1>9. QED
    BY <1>5, <1>6, <1>7, <1>8 DEF Realloc

(* realloc frees the old block; when malloc had failed, the client's       *)
(* pointer leads nowhere from then on.                                     *)
LEMMA ReallocCopyStep ==
  ASSUME Inv, ReallocCopy
  PROVE  Inv'
  <1>1. call.at = "copy" /\ FreeBlock(call.old)
    BY DEF ReallocCopy
  <1>2. LiveOK(minors, pad, live) /\ CallOK(majors, minors, pad, live, call)
    BY <1>1 DEF Inv
  <1>3. PICK p : p = call.old
    OBVIOUS
  <1>4. p \in DOMAIN live /\ p # Null /\ p \in DOMAIN pad
    BY <1>1, <1>2, <1>3 DEF CallOK, LiveOK
  <1>5. /\ MajorsInv(majors', memRoot', runs')
        /\ bestBet' \in DOMAIN majors' \cup {Null}
        /\ MinorsInv(majors', minors')
        /\ PadOK(minors', pad')
        /\ NoneEmpty(majors')
        /\ OthersKept(minors, pad, minors', pad', p)
    BY <1>1, <1>3, <1>4, FreeBlockStep
  <1>6. EmptyOK(majors', call')
    BY <1>5 DEF NoneEmpty, EmptyOK
  <1>7. CASE call.min # Null
    <2>1. live' = With(Without(live, p), call.min, call.req) /\ call' = Idle
      BY <1>3, <1>7 DEF ReallocCopy
    <2>2. /\ call.min \in DOMAIN pad /\ call.min \notin DOMAIN live
          /\ minors[HeaderOf(pad, call.min)].req = call.req
      BY <1>1, <1>2, <1>7 DEF CallOK
    <2>3. call.min \in DOMAIN pad' /\ minors'[HeaderOf(pad', call.min)].req = call.req
      BY <1>4, <1>5, <2>2 DEF OthersKept
    <2>4. LiveOK(minors', pad', live')
      BY <1>2, <1>5, <2>1, <2>3 DEF LiveOK, OthersKept, With, Without
    <2>5. CallOK(majors', minors', pad', live', call')
      BY <2>1 DEF CallOK, Idle, IsCall, Searching, Labels
    <2>6. QED
      BY <1>5, <1>6, <2>4, <2>5 DEF Inv
  <1>8. CASE call.min = Null
    <2>1. call' = [Idle EXCEPT !.at = "failed", !.old = p]
      BY <1>3, <1>8 DEF ReallocCopy
    <2>2. call' = [at |-> "failed", req |-> 0, old |-> p, maj |-> Null, min |-> Null, bet |-> FALSE, best |-> 0]
      BY <2>1 DEF Idle
    <2>3. call'.at = "failed" /\ call'.maj = Null /\ IsCall(call')
      BY <2>2 DEF IsCall
    <2>4. CallOK(majors', minors', pad', live', call')
      BY <2>3 DEF CallOK, Searching, Labels
    <2>5. QED
      BY <1>5, <1>6, <2>3, <2>4 DEF Inv
  <1>9. QED
    BY <1>7, <1>8

-----------------------------------------------------------------------------
(* malloc's search. *)

(* The call goes on and nothing but l_bestBet and the call changes. *)
LEMMA CallGoesOn ==
  ASSUME Inv, call.at # "failed",
         UNCHANGED <<majors, minors, memRoot, pad, runs, live>>,
         bestBet' \in DOMAIN majors \cup {Null},
         CallOK(majors, minors, pad, live, call'), EmptyOK(majors, call')
  PROVE  Inv'
  BY DEF Inv

(* An empty major has room for the request. *)
LEMMA EmptyHasRoom ==
  ASSUME Inv, Searching(call), NEW x \in DOMAIN majors, majors[x].first = Null
  PROVE  /\ Unused(x) >= Need(call.req)
         /\ x + MajorSize + Need(call.req) <= x + majors[x].size
  <1>1. MajorOK(majors) /\ EmptyOK(majors, call) /\ call.req \in Nat
    BY DEF Inv, MajorsInv, CallOK
  <1>2. majors[x].usage = MajorSize /\ MajorSize + Need(call.req) <= majors[x].size
    BY <1>1 DEF EmptyOK
  <1>3. x \in Nat /\ majors[x].size \in Nat /\ Need(call.req) \in Nat
    BY <1>1, MajorFacts, PagesSuffice
  <1>4. QED
    BY <1>2, <1>3, Constants DEF Unused

(* allocate_new_page succeeds. *)
LEMMA GrowStep ==
  ASSUME Inv, Searching(call), NoneEmpty(majors),
         NEW first \in HeapPages, NEW prev, NewMajor(first, prev),
         \/ prev = Null /\ memRoot = Null /\ memRoot' = first * PageSize /\ call'.at = "start"
            /\ call'.maj = call.maj
         \/ /\ prev \in DOMAIN majors /\ majors[prev].next = Null /\ memRoot' = memRoot
            /\ call'.at \in {"case2", "major"} /\ call'.maj = first * PageSize,
         IsCall(call'), call'.req = call.req, call'.old = call.old,
         bestBet' \in DOMAIN majors \cup {Null}, UNCHANGED <<minors, pad, live>>
  PROVE  Inv'
  <1>1. /\ MajorsInv(majors, memRoot, runs) /\ MinorsInv(majors, minors) /\ PadOK(minors, pad)
        /\ LiveOK(minors, pad, live) /\ CallOK(majors, minors, pad, live, call)
    BY DEF Inv, Searching
  <1>2. /\ call.req \in Nat /\ call.req \in Sizes /\ call.maj \in DOMAIN majors \cup {Null}
        /\ call.old = Null \/ call.old \in DOMAIN live
    BY <1>1 DEF CallOK
  <1>3. PICK n : n = PagesFor(Size(call.req))
    OBVIOUS
  <1>4. PICK maj : maj = first * PageSize
    OBVIOUS
  <1>5. n \in Nat \ {0} /\ MajorSize + Need(call.req) <= n * PageSize
    BY <1>2, <1>3, PagesSuffice
  <1>6. /\ first \in FreeRuns(n) /\ runs' = runs \cup {<<first, n>>}
        /\ majors' = AddMajor(majors, maj, n, prev)
    BY <1>3, <1>4 DEF NewMajor, IsFirstRun, AddMajor, NewHeader
  <1>7. FreePages(runs, first, n)
    BY <1>6 DEF FreeRuns, FreePages
  <1>8. \/ prev = Null /\ memRoot = Null /\ memRoot' = maj
        \/ prev \in DOMAIN majors /\ majors[prev].next = Null /\ memRoot' = memRoot
    BY <1>4
  <1>9. /\ MajorsInv(majors', memRoot', runs \cup {<<first, n>>})
        /\ OneMore(majors, majors', maj, n)
    BY <1>1, <1>4, <1>5, <1>6, <1>7, <1>8, MajorAdded
  <1>10. MinorsInv(majors', minors)
    BY <1>1, <1>9, MinorsOneMore
  <1>11. bestBet' \in DOMAIN majors' \cup {Null}
    BY <1>9 DEF OneMore
  <1>12. CallOK(majors', minors, pad, live, call')
    <2>1. DOMAIN majors' = DOMAIN majors \cup {maj} /\ majors'[maj].first = Null
      BY <1>9 DEF OneMore
    <2>2. CASE call'.at = "start"
      BY <1>2, <2>1, <2>2 DEF CallOK, Searching, Labels
    <2>3. CASE call'.at \in {"case2", "major"} /\ call'.maj = maj
      BY <1>2, <2>1, <2>3 DEF CallOK, Searching, Labels
    <2>4. QED
      BY <1>4, <2>2, <2>3
  <1>13. EmptyOK(majors', call')
    <2>1. \A x \in DOMAIN majors' : majors'[x].first = Null => x = maj
      BY <1>9 DEF OneMore, NoneEmpty
    <2>2. majors'[maj].usage = MajorSize /\ majors'[maj].size = n * PageSize /\ DOMAIN majors' = DOMAIN majors \cup {maj}
      BY <1>9 DEF OneMore
    <2>3. call'.at = "start" => DOMAIN majors' = {maj}
      <3>1. ASSUME call'.at = "start" PROVE DOMAIN majors = {}
        <4>1. memRoot = Null
          BY <3>1
        <4>2. Null \notin DOMAIN majors
          BY <1>1, MajorFacts, Constants DEF MajorsInv
        <4>3. QED
          BY <1>1, <4>1, <4>2, RootExists
      <3>2. QED
        BY <2>2, <3>1
    <2>4. MajorSize + Need(call'.req) <= majors'[maj].size
      BY <1>5, <2>2
    <2>5. QED
      BY <1>4, <2>1, <2>2, <2>3, <2>4 DEF EmptyOK
  <1>14. QED
    BY <1>1, <1>6, <1>9, <1>10, <1>11, <1>12, <1>13 DEF Inv

(* liballoc_alloc returned NULL, and so does malloc. *)
LEMMA NoPagesStep ==
  ASSUME Inv, Searching(call), NoneEmpty(majors), NoPages,
         bestBet' \in DOMAIN majors \cup {Null}, UNCHANGED <<minors, memRoot, pad>>
  PROVE  Inv'
  <1>1. Return(Null) /\ majors' = majors /\ runs' = runs
    BY DEF NoPages
  <1>2. CallOK(majors, minors, pad, live, call)
    BY DEF Inv
  <1>3. EmptyOK(majors, call')
    BY DEF NoneEmpty, EmptyOK
  <1>4. CASE call.old = Null
    <2>1. live' = live /\ call' = Idle
      BY <1>1, <1>4 DEF Return
    <2>2. CallOK(majors, minors, pad, live, call')
      BY <2>1 DEF CallOK, Idle, IsCall, Searching, Labels
    <2>3. QED
      BY <1>1, <1>3, <2>1, <2>2, CallGoesOn DEF Searching
  <1>5. CASE call.old # Null
    <2>1. live' = live /\ call' = [call EXCEPT !.at = "copy", !.min = Null]
      BY <1>1, <1>5 DEF Return
    <2>2. /\ IsCall(call) /\ call.old \in DOMAIN live /\ call.req \in Nat /\ call.req \in Sizes
          /\ call.maj \in DOMAIN majors \cup {Null}
      BY <1>2, <1>5 DEF CallOK
    <2>3. call' = [at |-> "copy", req |-> call.req, old |-> call.old, maj |-> call.maj, min |-> Null,
                   bet |-> call.bet, best |-> call.best]
      BY <2>1, <2>2 DEF IsCall
    <2>4. /\ call'.at = "copy" /\ call'.req = call.req /\ call'.old = call.old /\ call'.min = Null
          /\ call'.maj = call.maj /\ IsCall(call')
      BY <2>3 DEF IsCall
    <2>5. CallOK(majors, minors, pad, live, call')
      BY <1>5, <2>2, <2>4 DEF CallOK, Searching, Labels
    <2>6. QED
      BY <1>1, <1>3, <2>1, <2>5, CallGoesOn DEF Searching
  <1>6. QED
    BY <1>4, <1>5

LEMMA MallocStep ==
  ASSUME Inv, NEW req \in Requests, Malloc(req)
  PROVE  Inv'
  <1>1. call = Idle /\ call.at = "idle" /\ req \in Nat /\ req \in Sizes
    BY Constants DEF Malloc, Idle, Sizes
  <1>2. call' = [at |-> "start", req |-> req, old |-> Null, maj |-> Null, min |-> Null, bet |-> FALSE, best |-> 0]
    BY DEF Malloc, Idle
  <1>3. call'.at = "start" /\ call'.req = req /\ call'.old = Null /\ call'.maj = Null /\ IsCall(call')
    BY <1>2 DEF IsCall
  <1>4. CallOK(majors, minors, pad, live, call')
    BY <1>1, <1>3 DEF CallOK, Searching, Labels
  <1>5. EmptyOK(majors, call')
    <2>1. EmptyOK(majors, call)
      BY DEF Inv
    <2>2. QED
      BY <1>1, <2>1 DEF EmptyOK
  <1>6. bestBet' \in DOMAIN majors \cup {Null}
    BY DEF Inv, Malloc
  <1>7. QED
    BY <1>1, <1>4, <1>5, <1>6, CallGoesOn DEF Malloc

LEMMA FirstMajorStep ==
  ASSUME Inv, FirstMajor
  PROVE  Inv'
  <1>1. /\ call.at = "start" /\ memRoot = Null /\ Searching(call) /\ IsCall(call)
        /\ MajorsInv(majors, memRoot, runs) /\ bestBet' \in DOMAIN majors \cup {Null}
    BY DEF FirstMajor, Searching, Inv, CallOK
  <1>2. Null \notin DOMAIN majors
    BY <1>1, MajorFacts, Constants DEF MajorsInv
  <1>3. NoneEmpty(majors)
    BY <1>1, <1>2, RootExists DEF NoneEmpty
  <1>4. ASSUME NEW first \in HeapPages, NewMajor(first, Null), memRoot' = first * PageSize, UNCHANGED <<live, call>>
        PROVE  Inv'
    <2>1. UNCHANGED <<minors, pad, live>> /\ call' = call
      BY <1>4 DEF FirstMajor
    <2>2. QED
      BY <1>1, <1>3, <1>4, <2>1, GrowStep
  <1>5. ASSUME NoPages, UNCHANGED memRoot PROVE Inv'
    BY <1>1, <1>3, <1>5, NoPagesStep DEF FirstMajor
  <1>6. QED
    BY <1>4, <1>5 DEF FirstMajor

LEMMA StartSearchStep ==
  ASSUME Inv, StartSearch
  PROVE  Inv'
  <1>1. /\ call.at = "start" /\ memRoot # Null /\ Searching(call)
        /\ MajorsInv(majors, memRoot, runs) /\ CallOK(majors, minors, pad, live, call)
        /\ EmptyOK(majors, call) /\ bestBet \in DOMAIN majors \cup {Null}
    BY DEF StartSearch, Searching, Inv
  <1>2. PICK best : best = IF bestBet = Null THEN 0 ELSE Unused(bestBet)
    OBVIOUS
  <1>3. PICK bet : bet = (best > Need(call.req))
    OBVIOUS
  <1>4. PICK maj : maj = IF bet THEN bestBet ELSE memRoot
    OBVIOUS
  <1>5. call' = [call EXCEPT !.at = "major", !.maj = maj, !.bet = bet, !.best = best]
    BY <1>2, <1>3, <1>4 DEF StartSearch
  <1>6. /\ IsCall(call) /\ call.req \in Nat /\ call.req \in Sizes
        /\ call.old = Null \/ call.old \in DOMAIN live
    BY <1>1 DEF CallOK
  <1>7. call' = [at |-> "major", req |-> call.req, old |-> call.old, maj |-> maj, min |-> call.min,
                 bet |-> bet, best |-> best]
    BY <1>5, <1>6 DEF IsCall
  <1>8. call'.at = "major" /\ call'.req = call.req /\ call'.old = call.old /\ call'.maj = maj /\ IsCall(call')
    BY <1>7 DEF IsCall
  <1>9. maj \in DOMAIN majors
    <2>1. memRoot \in DOMAIN majors
      BY <1>1 DEF MajorsInv, Linked
    <2>2. bet => bestBet # Null
      <3>1. Need(call.req) \in Nat
        BY <1>6, PagesSuffice
      <3>2. bestBet = Null => ~(best > Need(call.req))
        BY <1>2, <3>1
      <3>3. QED
        BY <1>3, <3>2, Zenon
    <2>3. QED
      BY <1>1, <1>4, <2>1, <2>2
  <1>10. CallOK(majors, minors, pad, live, call')
    BY <1>6, <1>8, <1>9 DEF CallOK, Searching, Labels
  <1>11. EmptyOK(majors, call')
    BY <1>1, <1>8, <1>9 DEF EmptyOK
  <1>12. QED
    BY <1>1, <1>10, <1>11, CallGoesOn DEF StartSearch

(* Cases 1 and 5. *)
LEMMA HopOrRestartStep ==
  ASSUME Inv, Searching(call), call.maj \in DOMAIN majors, NoneEmpty(majors), NEW c, IsCall(c),
         c.req = call.req, c.old = call.old, c.maj = call.maj,
         bestBet' \in DOMAIN majors \cup {Null}, HopOrRestart(c)
  PROVE  Inv'
  <1>1. /\ MajorsInv(majors, memRoot, runs) /\ CallOK(majors, minors, pad, live, call)
    BY DEF Inv
  <1>2. /\ call.req \in Nat /\ call.req \in Sizes /\ call.maj \in DOMAIN majors \cup {Null}
        /\ call.old = Null \/ call.old \in DOMAIN live
    BY <1>1 DEF CallOK
  <1>3. /\ call'.at = "major" /\ call'.req = call.req /\ call'.old = call.old /\ call'.maj \in DOMAIN majors
        /\ IsCall(call')
    <2>1. CASE /\ majors[c.maj].next # Null
               /\ call' = [c EXCEPT !.at = "major", !.maj = majors[c.maj].next]
      <3>1. call' = [at |-> "major", req |-> c.req, old |-> c.old, maj |-> majors[c.maj].next, min |-> c.min,
                     bet |-> c.bet, best |-> c.best]
        BY <2>1 DEF IsCall
      <3>2. majors[c.maj].next \in DOMAIN majors
        BY <1>1, <2>1 DEF MajorsInv, MajorOK
      <3>3. QED
        BY <3>1, <3>2 DEF IsCall
    <2>2. CASE call' = [c EXCEPT !.at = "major", !.maj = memRoot, !.bet = FALSE]
      <3>1. call' = [at |-> "major", req |-> c.req, old |-> c.old, maj |-> memRoot, min |-> c.min,
                     bet |-> FALSE, best |-> c.best]
        BY <2>2 DEF IsCall
      <3>2. memRoot \in DOMAIN majors
        BY <1>1, RootExists
      <3>3. QED
        BY <3>1, <3>2 DEF IsCall
    <2>3. QED
      BY <2>1, <2>2 DEF HopOrRestart
  <1>4. CallOK(majors, minors, pad, live, call')
    BY <1>2, <1>3 DEF CallOK, Searching, Labels
  <1>5. EmptyOK(majors, call')
    BY DEF NoneEmpty, EmptyOK
  <1>6. UNCHANGED <<majors, minors, memRoot, pad, runs, live>> /\ call.at # "failed"
    BY DEF HopOrRestart, Searching
  <1>7. QED
    BY <1>4, <1>5, <1>6, CallGoesOn

LEMMA GrowAndGoToStep ==
  ASSUME Inv, Searching(call), call.maj \in DOMAIN majors, NoneEmpty(majors), NEW c, IsCall(c),
         c.req = call.req, c.old = call.old, c.maj = call.maj,
         bestBet' \in DOMAIN majors \cup {Null},
         NEW label \in {"case2", "major"}, GrowAndGoTo(c, label)
  PROVE  Inv'
  <1>1. majors[c.maj].next = Null /\ UNCHANGED <<minors, memRoot, pad>>
    BY DEF GrowAndGoTo, AtLastMajor
  <1>2. ASSUME NEW first \in HeapPages, NewMajor(first, c.maj),
               call' = [c EXCEPT !.at = label, !.maj = first * PageSize], UNCHANGED live
        PROVE  Inv'
    <2>1. PICK maj : maj = first * PageSize
      OBVIOUS
    <2>2. call' = [at |-> label, req |-> c.req, old |-> c.old, maj |-> maj, min |-> c.min,
                   bet |-> c.bet, best |-> c.best]
      BY <1>2, <2>1 DEF IsCall
    <2>3. call'.at = label /\ call'.req = call.req /\ call'.old = call.old /\ call'.maj = maj /\ IsCall(call')
      BY <2>2 DEF IsCall
    <2>4. QED
      BY <1>1, <1>2, <2>1, <2>3, GrowStep
  <1>3. ASSUME NoPages PROVE Inv'
    BY <1>1, <1>3, NoPagesStep
  <1>4. QED
    BY <1>2, <1>3 DEF GrowAndGoTo

(* A gap that is large enough has room for the request. *)
LEMMA GapIsRoom ==
  ASSUME Inv, NEW maj \in DOMAIN majors, NEW m, m = Null \/ m \in Mine(minors, maj),
         NEW req \in Nat, req \in Sizes, Gap(maj, m) >= Need(req)
  PROVE  RoomAt(majors, minors, maj, m, GapStart(maj, m), GapNext(maj, m), req)
  <1>1. MajorOK(majors) /\ MinorsInv(majors, minors)
    BY DEF Inv, MajorsInv
  <1>2. \A z \in Mine(minors, maj) : /\ z \in Nat /\ z # Null /\ End(minors, z) \in Nat
                                     /\ NextIn(Mine(minors, maj), z, minors[z].next)
    <2>1. TAKE z \in Mine(minors, maj)
    <2>2. z \in DOMAIN minors /\ minors[z].block = maj
      BY DEF Mine
    <2>3. z \in Nat /\ z # Null /\ End(minors, z) \in Nat
      BY <1>1, <2>2, MinorFacts, Constants
    <2>4. QED
      BY <1>1, <2>2, <2>3 DEF MinorsInv, Chained
  <1>3. maj \in Nat /\ majors[maj].size \in Nat /\ NextIn(Mine(minors, maj), Null, majors[maj].first)
    BY <1>1, MajorFacts DEF MinorsInv, Chained
  <1>4. PICK a : a = GapStart(maj, m)
    OBVIOUS
  <1>5. PICK next : next = GapNext(maj, m)
    OBVIOUS
  <1>6. a = BehindIn(minors, maj, m) /\ next = FollowerIn(majors, minors, maj, m)
    BY <1>4, <1>5 DEF GapStart, GapNext, BehindIn, FollowerIn, End
  <1>7. a \in Nat
    BY <1>2, <1>3, <1>6, Constants DEF BehindIn
  <1>8. next # Null => next \in Nat
    BY <1>2, <1>3, <1>6 DEF FollowerIn, NextIn
  <1>9. PICK end : end = IF next = Null THEN maj + majors[maj].size ELSE next
    OBVIOUS
  <1>10. end \in Nat
    BY <1>3, <1>8, <1>9
  <1>11. Gap(maj, m) = end - a
    BY <1>4, <1>5, <1>9 DEF Gap
  <1>12. a + Need(req) <= end
    <2>1. Need(req) \in Nat
      BY PagesSuffice
    <2>2. QED
      BY <1>7, <1>10, <1>11, <2>1
  <1>13. RoomAt(majors, minors, maj, m, a, next, req)
    BY <1>6, <1>9, <1>12 DEF RoomAt
  <1>14. QED
    BY <1>4, <1>5, <1>13

(* Where LookAtMajor, UseNewMajor and LookAtMinor place a block, there is  *)
(* room for it.                                                            *)
LEMMA RoomAtStart ==
  ASSUME Inv, call.at \in {"major", "case2"}, NEW maj, maj = call.maj,
         majors[maj].first = Null \/ Gap(maj, Null) >= Need(call.req)
  PROVE  RoomAt(majors, minors, maj, Null, GapStart(maj, Null), GapNext(maj, Null), call.req)
  <1>1. Searching(call) /\ MajorOK(majors) /\ CallOK(majors, minors, pad, live, call)
    BY DEF Searching, Inv, MajorsInv
  <1>2. maj \in DOMAIN majors /\ call.req \in Nat /\ call.req \in Sizes
    BY <1>1 DEF CallOK
  <1>3. Gap(maj, Null) >= Need(call.req)
    <2>1. SUFFICES ASSUME majors[maj].first = Null PROVE Gap(maj, Null) >= Need(call.req)
      OBVIOUS
    <2>2. maj + MajorSize + Need(call.req) <= maj + majors[maj].size
      BY <1>1, <1>2, <2>1, EmptyHasRoom
    <2>3. maj \in Nat /\ majors[maj].size \in Nat /\ Need(call.req) \in Nat
      BY <1>1, <1>2, MajorFacts, PagesSuffice
    <2>4. GapNext(maj, Null) = Null /\ GapStart(maj, Null) = maj + MajorSize
      BY <2>1 DEF GapNext, GapStart
    <2>5. Gap(maj, Null) = (maj + majors[maj].size) - (maj + MajorSize)
      BY <2>4 DEF Gap
    <2>6. QED
      BY <2>2, <2>3, <2>5, Constants
  <1>4. QED
    BY <1>2, <1>3, GapIsRoom

LEMMA RoomInNewMajor ==
  ASSUME Inv, call.at = "case2", NEW maj, maj = call.maj
  PROVE  RoomAt(majors, minors, maj, Null, GapStart(maj, Null), GapNext(maj, Null), call.req)
  <1>1. majors[maj].first = Null
    BY DEF Inv, CallOK
  <1>2. QED
    BY <1>1, RoomAtStart

LEMMA RoomBehindMinor ==
  ASSUME Inv, call.at = "case4", NEW maj, maj = call.maj, NEW m, m = call.min,
         Gap(maj, m) >= Need(call.req)
  PROVE  RoomAt(majors, minors, maj, m, GapStart(maj, m), GapNext(maj, m), call.req)
  <1>1. maj \in DOMAIN majors /\ m \in Mine(minors, maj) /\ call.req \in Nat /\ call.req \in Sizes
    BY DEF Inv, CallOK, Searching
  <1>2. QED
    BY <1>1, GapIsRoom

LEMMA LookAtMajorStep ==
  ASSUME Inv, LookAtMajor
  PROVE  Inv'
  <1>1. /\ call.at = "major" /\ Searching(call)
        /\ MajorsInv(majors, memRoot, runs) /\ MinorsInv(majors, minors)
        /\ CallOK(majors, minors, pad, live, call)
        /\ EmptyOK(majors, call) /\ bestBet \in DOMAIN majors \cup {Null}
    BY DEF LookAtMajor, Searching, Inv
  <1>2. PICK maj : maj = call.maj
    OBVIOUS
  <1>3. /\ maj \in DOMAIN majors /\ call.req \in Nat /\ call.req \in Sizes /\ IsCall(call)
        /\ call.old = Null \/ call.old \in DOMAIN live
    BY <1>1, <1>2 DEF CallOK
  <1>4. MajorOK(majors) /\ maj \in Nat /\ maj > 0 /\ majors[maj].size \in Nat /\ majors[maj].usage \in Int
    BY <1>1, <1>3, MajorFacts DEF MajorsInv, MajorOK
  <1>5. Need(call.req) \in Nat /\ Unused(maj) \in Int
    BY <1>3, <1>4, PagesSuffice DEF Unused
  <1>6. PICK best : best = IF call.best < Unused(maj) THEN Unused(maj) ELSE call.best
    OBVIOUS
  <1>7. PICK c : c = [call EXCEPT !.best = best]
    OBVIOUS
  <1>8. c = [at |-> call.at, req |-> call.req, old |-> call.old, maj |-> call.maj, min |-> call.min,
             bet |-> call.bet, best |-> best]
    BY <1>3, <1>7 DEF IsCall
  <1>9. IsCall(c) /\ c.req = call.req /\ c.old = call.old /\ c.maj = call.maj
    BY <1>8 DEF IsCall
  <1>10. bestBet' \in DOMAIN majors \cup {Null}
    BY <1>1, <1>2, <1>3 DEF LookAtMajor
  <1>11. \A x \in DOMAIN majors : majors[x].first = Null => x = maj
    BY <1>1, <1>2 DEF EmptyOK
  <1>12. ASSUME Unused(maj) < Need(call.req) PROVE NoneEmpty(majors)
    <2>1. ASSUME NEW x \in DOMAIN majors, majors[x].first = Null PROVE FALSE
      BY <1>1, <1>5, <1>11, <1>12, <2>1, EmptyHasRoom
    <2>2. QED
      BY <2>1 DEF NoneEmpty
  <1>13. ASSUME Unused(maj) < Need(call.req), HopOrRestart(c) PROVE Inv'
    BY <1>1, <1>2, <1>3, <1>9, <1>10, <1>12, <1>13, HopOrRestartStep
  <1>14. ASSUME Unused(maj) < Need(call.req), GrowAndGoTo(c, "case2") PROVE Inv'
    BY <1>1, <1>2, <1>3, <1>9, <1>10, <1>12, <1>14, GrowAndGoToStep
  <1>15. ASSUME majors[maj].first = Null \/ Gap(maj, Null) >= Need(call.req), Place(maj, Null) PROVE Inv'
    <2>1. RoomAt(majors, minors, maj, Null, GapStart(maj, Null), GapNext(maj, Null), call.req)
      BY <1>1, <1>2, <1>15, RoomAtStart
    <2>2. QED
      BY <1>1, <1>10, <1>11, <1>15, <2>1, PlaceStep
  <1>16. ASSUME majors[maj].first # Null, call' = [c EXCEPT !.at = "case4", !.min = majors[maj].first],
                UNCHANGED <<majors, minors, memRoot, pad, runs, live>>
         PROVE  Inv'
    <2>1. call' = [at |-> "case4", req |-> call.req, old |-> call.old, maj |-> maj, min |-> majors[maj].first,
                   bet |-> call.bet, best |-> best]
      BY <1>2, <1>8, <1>16
    <2>2. call'.at = "case4" /\ call'.req = call.req /\ call'.old = call.old /\ call'.maj = maj
          /\ call'.min = majors[maj].first /\ IsCall(call')
      BY <2>1 DEF IsCall
    <2>3. NextIn(Mine(minors, maj), Null, majors[maj].first)
      BY <1>1, <1>3 DEF MinorsInv, Chained
    <2>4. majors[maj].first \in Mine(minors, maj)
      BY <1>16, <2>3 DEF NextIn
    <2>5. CallOK(majors, minors, pad, live, call')
      BY <1>3, <2>2, <2>4 DEF CallOK, Searching, Labels
    <2>6. EmptyOK(majors, call')
      BY <1>11, <1>16 DEF EmptyOK
    <2>7. QED
      BY <1>1, <1>10, <1>16, <2>5, <2>6, CallGoesOn
  <1>17. c = [call EXCEPT !.best = IF call.best < Unused(call.maj) THEN Unused(call.maj) ELSE @]
    BY <1>2, <1>6, <1>7
  <1>18. \/ Unused(maj) < Need(call.req) /\ HopOrRestart(c)
         \/ Unused(maj) < Need(call.req) /\ GrowAndGoTo(c, "case2")
         \/ (majors[maj].first = Null \/ Gap(maj, Null) >= Need(call.req)) /\ Place(maj, Null)
         \/ /\ majors[maj].first # Null /\ call' = [c EXCEPT !.at = "case4", !.min = majors[maj].first]
            /\ UNCHANGED <<majors, minors, memRoot, pad, runs, live>>
    BY <1>2, <1>17 DEF LookAtMajor
  <1>19. QED
    BY <1>13, <1>14, <1>15, <1>16, <1>18

LEMMA UseNewMajorStep ==
  ASSUME Inv, UseNewMajor
  PROVE  Inv'
  <1>1. /\ call.at = "case2" /\ Searching(call) /\ Place(call.maj, Null)
        /\ EmptyOK(majors, call) /\ bestBet' \in DOMAIN majors \cup {Null}
    BY DEF UseNewMajor, Searching, Inv
  <1>2. PICK maj : maj = call.maj
    OBVIOUS
  <1>3. RoomAt(majors, minors, maj, Null, GapStart(maj, Null), GapNext(maj, Null), call.req)
    BY <1>1, <1>2, RoomInNewMajor
  <1>4. \A x \in DOMAIN majors : majors[x].first = Null => x = maj
    BY <1>1, <1>2 DEF EmptyOK
  <1>5. QED
    BY <1>1, <1>2, <1>3, <1>4, PlaceStep

LEMMA LookAtMinorStep ==
  ASSUME Inv, LookAtMinor
  PROVE  Inv'
  <1>1. /\ call.at = "case4" /\ Searching(call)
        /\ MajorsInv(majors, memRoot, runs) /\ MinorsInv(majors, minors)
        /\ CallOK(majors, minors, pad, live, call)
        /\ EmptyOK(majors, call) /\ bestBet' \in DOMAIN majors \cup {Null}
    BY DEF LookAtMinor, Searching, Inv
  <1>2. PICK maj : maj = call.maj
    OBVIOUS
  <1>3. PICK m : m = call.min
    OBVIOUS
  <1>4. /\ maj \in DOMAIN majors /\ m \in Mine(minors, maj) /\ call.req \in Nat /\ call.req \in Sizes /\ IsCall(call)
        /\ call.old = Null \/ call.old \in DOMAIN live
    BY <1>1, <1>2, <1>3 DEF CallOK
  <1>5. m \in DOMAIN minors /\ minors[m].block = maj
    BY <1>4 DEF Mine
  <1>6. /\ MajorOK(majors) /\ maj \in Nat /\ majors[maj].size \in Nat
        /\ m \in Nat /\ m # Null /\ End(minors, m) \in Nat
    BY <1>1, <1>4, <1>5, MajorFacts, MinorFacts, Constants DEF MajorsInv
  <1>7. NoneEmpty(majors)
    BY <1>1 DEF EmptyOK, NoneEmpty
  <1>8. NextIn(Mine(minors, maj), m, minors[m].next)
    BY <1>1, <1>5 DEF MinorsInv, Chained
  <1>9. minors[m].next # Null => minors[m].next \in Mine(minors, maj)
    BY <1>8 DEF NextIn
  <1>10. ASSUME Gap(maj, m) >= Need(call.req), Place(maj, m) PROVE Inv'
    <2>1. RoomAt(majors, minors, maj, m, GapStart(maj, m), GapNext(maj, m), call.req)
      BY <1>1, <1>2, <1>3, <1>10, RoomBehindMinor
    <2>2. \A x \in DOMAIN majors : majors[x].first = Null => x = maj
      BY <1>7 DEF NoneEmpty
    <2>3. QED
      BY <1>1, <1>10, <2>1, <2>2, PlaceStep
  <1>11. ASSUME minors[m].next # Null, call' = [call EXCEPT !.min = minors[m].next],
                UNCHANGED <<majors, minors, memRoot, pad, runs, live>>
         PROVE  Inv'
    <2>1. call' = [at |-> call.at, req |-> call.req, old |-> call.old, maj |-> call.maj, min |-> minors[m].next,
                   bet |-> call.bet, best |-> call.best]
      BY <1>4, <1>11 DEF IsCall
    <2>2. call'.at = "case4" /\ call'.req = call.req /\ call'.old = call.old /\ call'.maj = maj
          /\ call'.min = minors[m].next /\ IsCall(call')
      BY <1>1, <1>2, <2>1 DEF IsCall
    <2>3. CallOK(majors, minors, pad, live, call')
      BY <1>4, <1>9, <1>11, <2>2 DEF CallOK, Searching, Labels
    <2>4. EmptyOK(majors, call')
      BY <1>7 DEF EmptyOK, NoneEmpty
    <2>5. QED
      BY <1>1, <1>11, <2>3, <2>4, CallGoesOn
  <1>12. PICK c : c = [call EXCEPT !.min = Null]
    OBVIOUS
  <1>13. c = [at |-> call.at, req |-> call.req, old |-> call.old, maj |-> call.maj, min |-> Null,
              bet |-> call.bet, best |-> call.best]
    BY <1>4, <1>12 DEF IsCall
  <1>14. IsCall(c) /\ c.req = call.req /\ c.old = call.old /\ c.maj = call.maj
    BY <1>13 DEF IsCall
  <1>15. ASSUME HopOrRestart(c) PROVE Inv'
    BY <1>1, <1>2, <1>4, <1>7, <1>14, <1>15, HopOrRestartStep
  <1>16. ASSUME GrowAndGoTo(c, "major") PROVE Inv'
    BY <1>1, <1>2, <1>4, <1>7, <1>14, <1>16, GrowAndGoToStep
  <1>17. QED
    BY <1>2, <1>3, <1>10, <1>11, <1>12, <1>15, <1>16 DEF LookAtMinor

-----------------------------------------------------------------------------
(* What the blocks of a set take up.  The sum is defined by a fold that    *)
(* takes the elements in an order of its own; these lemmas say that the    *)
(* order does not matter.                                                  *)

Taken(mi, S) == MapThenSumSet(LAMBDA m : MinorSize + mi[m].size, S)

Weight(mi, m) == MinorSize + mi[m].size

PickOf(s) == CHOOSE x \in s : TRUE

SumStep(mi, g, s) == IF s = {} THEN 0 ELSE Weight(mi, PickOf(s)) + g[s \ {PickOf(s)}]

IsSum(mi, D, g) == g = [s \in D |-> SumStep(mi, g, s)]

LEMMA PickIn ==
  ASSUME NEW s, s # {}
  PROVE  PickOf(s) \in s
  BY DEF PickOf

LEMMA TakenIs ==
  ASSUME NEW mi, NEW S
  PROVE  Taken(mi, S) = (CHOOSE g : IsSum(mi, SUBSET S, g))[S]
  BY Zenon DEF Taken, MapThenSumSet, MapThenFoldSet, IsSum, SumStep, Weight, PickOf

(* The subsets of up to n elements have a sum, for every n. *)
LEMMA SumExists ==
  ASSUME NEW mi, NEW S, IsFiniteSet(S)
  PROVE  \E g : IsSum(mi, SUBSET S, g)
  <1> DEFINE Small(n) == {s \in SUBSET S : Cardinality(s) <= n}
             Failing == {n \in Nat : ~ \E g : IsSum(mi, Small(n), g)}
  <1>0. \A s \in SUBSET S : /\ IsFiniteSet(s) /\ Cardinality(s) \in Nat
                            /\ Cardinality(s) <= Cardinality(S)
    BY FS_Subset, FS_CardinalityType
  <1>1. Failing = {}
    <2>1. SUFFICES ASSUME Failing # {} PROVE FALSE
      OBVIOUS
    <2>2. PICK n \in Failing : \A k \in Failing : n <= k
      BY <2>1, Least
    <2>3. CASE n = 0
      <3> DEFINE g == [s \in Small(0) |-> 0]
      <3>1. \A s \in Small(0) : s = {}
        BY <1>0, FS_EmptySet
      <3>2. \A s \in Small(0) : SumStep(mi, g, s) = 0
        BY <3>1 DEF SumStep
      <3>3. g = [s \in Small(0) |-> SumStep(mi, g, s)]
        BY <3>2
      <3>4. IsSum(mi, Small(0), g)
        BY <3>3, Zenon DEF IsSum
      <3>5. QED
        BY <2>2, <2>3, <3>4
    <2>4. CASE n # 0
      <3>1. n \in Nat /\ n - 1 \in Nat /\ n - 1 < n
        BY <2>4
      <3>2. n - 1 \notin Failing
        <4> HIDE DEF Failing
        <4>1. QED
          BY <2>2, <3>1
      <3>3. PICK g : IsSum(mi, Small(n - 1), g)
        BY <3>1, <3>2
      <3> DEFINE h == [s \in Small(n) |-> SumStep(mi, g, s)]
      <3>4. \A s \in Small(n - 1) : s \in Small(n) /\ h[s] = g[s]
        <4>1. \A s \in Small(n - 1) : s \in Small(n)
          BY <1>0, <3>1
        <4>2. \A s \in Small(n - 1) : g[s] = SumStep(mi, g, s)
          BY <3>3, Zenon DEF IsSum
        <4>3. QED
          BY <4>1, <4>2
      <3>5. \A s \in Small(n) : SumStep(mi, h, s) = SumStep(mi, g, s)
        <4>1. TAKE s \in Small(n)
        <4>2. CASE s = {}
          BY <4>2 DEF SumStep
        <4>3. CASE s # {}
          <5>1. s \ {PickOf(s)} \in Small(n - 1)
            <6>1. PickOf(s) \in s
              BY <4>3, PickIn
            <6>2. Cardinality(s \ {PickOf(s)}) = Cardinality(s) - 1
              BY <1>0, <6>1, FS_RemoveElement
            <6>3. QED
              BY <1>0, <3>1, <6>2
          <5>2. h[s \ {PickOf(s)}] = g[s \ {PickOf(s)}]
            BY <3>4, <5>1
          <5>3. QED
            BY <4>3, <5>2 DEF SumStep
        <4>4. QED
          BY <4>2, <4>3
      <3>6. h = [s \in Small(n) |-> SumStep(mi, h, s)]
        BY <3>5
      <3>7. IsSum(mi, Small(n), h)
        BY <3>6, Zenon DEF IsSum
      <3>8. QED
        BY <2>2, <3>7
    <2>5. QED
      BY <2>3, <2>4
  <1>2. Small(Cardinality(S)) = SUBSET S
    BY <1>0
  <1>3. Cardinality(S) \in Nat
    BY FS_CardinalityType
  <1>4. \E g : IsSum(mi, Small(Cardinality(S)), g)
    BY <1>1, <1>3
  <1>5. QED
    BY <1>2, <1>4

(* Two sums of what weighs the same agree on every set both know. *)
LEMMA SumUnique ==
  ASSUME NEW mi, NEW mi2, NEW S, IsFiniteSet(S), NEW A, NEW B, S \subseteq A, S \subseteq B,
         \A m \in S : Weight(mi, m) = Weight(mi2, m),
         NEW g, NEW h, IsSum(mi, SUBSET A, g), IsSum(mi2, SUBSET B, h)
  PROVE  g[S] = h[S]
  <1> DEFINE Failing == {n \in Nat : \E s \in SUBSET S : Cardinality(s) = n /\ g[s] # h[s]}
  <1>0. \A s \in SUBSET S : IsFiniteSet(s) /\ Cardinality(s) \in Nat
    BY FS_Subset, FS_CardinalityType
  <1>1. \A s \in SUBSET S : g[s] = SumStep(mi, g, s) /\ h[s] = SumStep(mi2, h, s)
    <2>1. \A s \in SUBSET A : g[s] = SumStep(mi, g, s)
      BY Zenon DEF IsSum
    <2>2. \A s \in SUBSET B : h[s] = SumStep(mi2, h, s)
      BY Zenon DEF IsSum
    <2>3. QED
      BY <2>1, <2>2
  <1>2. Failing = {}
    <2>1. SUFFICES ASSUME Failing # {} PROVE FALSE
      OBVIOUS
    <2>2. PICK n \in Failing : \A k \in Failing : n <= k
      BY <2>1, Least
    <2>3. PICK s \in SUBSET S : Cardinality(s) = n /\ g[s] # h[s]
      BY <2>2
    <2>4. s # {}
      <3>1. SUFFICES ASSUME s = {} PROVE FALSE
        OBVIOUS
      <3>2. g[s] = 0 /\ h[s] = 0
        BY <1>1, <3>1 DEF SumStep
      <3>3. QED
        BY <2>3, <3>2
    <2>5. PickOf(s) \in s /\ PickOf(s) \in S
      BY <2>4, PickIn
    <2> DEFINE r == s \ {PickOf(s)}
    <2>6. r \in SUBSET S /\ Cardinality(r) = n - 1
      BY <1>0, <2>3, <2>5, FS_RemoveElement
    <2>7. g[r] = h[r]
      <3>1. Cardinality(r) \in Nat /\ Cardinality(r) < n
        BY <1>0, <2>6
      <3>2. Cardinality(r) \notin Failing
        <4>1. Failing \subseteq Nat
          OBVIOUS
        <4> HIDE DEF Failing
        <4>2. QED
          BY <2>2, <3>1, <4>1
      <3>3. QED
        BY <1>0, <2>6, <3>1, <3>2
    <2>8. g[s] = Weight(mi, PickOf(s)) + g[r] /\ h[s] = Weight(mi2, PickOf(s)) + h[r]
      BY <1>1, <2>4 DEF SumStep
    <2>9. QED
      BY <2>3, <2>5, <2>7, <2>8
  <1>3. QED
    BY <1>0, <1>2

LEMMA TakenSame ==
  ASSUME NEW mi, NEW mi2, NEW S, IsFiniteSet(S),
         \A m \in S : Weight(mi, m) = Weight(mi2, m)
  PROVE  Taken(mi, S) = Taken(mi2, S)
  <1>1. IsSum(mi, SUBSET S, CHOOSE g : IsSum(mi, SUBSET S, g))
    BY SumExists, Zenon
  <1>2. IsSum(mi2, SUBSET S, CHOOSE g : IsSum(mi2, SUBSET S, g))
    BY SumExists, Zenon
  <1>3. (CHOOSE g : IsSum(mi, SUBSET S, g))[S] = (CHOOSE g : IsSum(mi2, SUBSET S, g))[S]
    BY <1>1, <1>2, SumUnique
  <1>4. QED
    BY <1>3, TakenIs

LEMMA TakenPicked ==
  ASSUME NEW mi, NEW S, IsFiniteSet(S)
  PROVE  /\ S = {} => Taken(mi, S) = 0
         /\ S # {} => Taken(mi, S) = Weight(mi, PickOf(S)) + Taken(mi, S \ {PickOf(S)})
  <1> DEFINE g == CHOOSE f : IsSum(mi, SUBSET S, f)
             r == S \ {PickOf(S)}
             h == CHOOSE f : IsSum(mi, SUBSET r, f)
  <1>0. IsFiniteSet(r)
    BY FS_RemoveElement
  <1>1. IsSum(mi, SUBSET S, g) /\ IsSum(mi, SUBSET r, h)
    BY <1>0, SumExists, Zenon
  <1>2. Taken(mi, S) = g[S] /\ Taken(mi, r) = h[r]
    BY TakenIs
  <1> HIDE DEF g, h
  <1>3. g[S] = SumStep(mi, g, S)
    <2>1. \A s \in SUBSET S : g[s] = SumStep(mi, g, s)
      BY <1>1, Zenon DEF IsSum
    <2>2. QED
      BY <2>1
  <1>4. g[r] = h[r]
    <2>1. r \subseteq S /\ r \subseteq r /\ \A m \in r : Weight(mi, m) = Weight(mi, m)
      OBVIOUS
    <2> HIDE DEF r
    <2>2. QED
      BY <1>0, <1>1, <2>1, SumUnique
  <1>5. QED
    BY <1>2, <1>3, <1>4 DEF SumStep

(* Whichever block is taken out first. *)
LEMMA TakenOne ==
  ASSUME NEW mi, NEW S, IsFiniteSet(S), \A m \in S : Weight(mi, m) \in Nat
  PROVE  /\ Taken(mi, S) \in Nat
         /\ \A m \in S : Taken(mi, S) = Weight(mi, m) + Taken(mi, S \ {m})
  <1> DEFINE Fine(s) == /\ Taken(mi, s) \in Nat
                        /\ \A m \in s : Taken(mi, s) = Weight(mi, m) + Taken(mi, s \ {m})
             Failing == {n \in Nat : \E s \in SUBSET S : Cardinality(s) = n /\ ~Fine(s)}
  <1>0. \A s \in SUBSET S : IsFiniteSet(s) /\ Cardinality(s) \in Nat
    BY FS_Subset, FS_CardinalityType
  <1>1. Failing = {}
    <2>1. SUFFICES ASSUME Failing # {} PROVE FALSE
      OBVIOUS
    <2>2. PICK n \in Failing : \A k \in Failing : n <= k
      BY <2>1, Least
    <2>3. PICK s \in SUBSET S : Cardinality(s) = n /\ ~Fine(s)
      BY <2>2
    <2>4. \A r \in SUBSET S : Cardinality(r) < n => Fine(r)
      <3>1. TAKE r \in SUBSET S
      <3>2. Cardinality(r) \in Nat
        BY <1>0
      <3> HIDE DEF Fine
      <3>3. QED
        BY <2>2, <3>2
    <2>5. \A m \in s : s \ {m} \in SUBSET S /\ Cardinality(s \ {m}) < n
      BY <1>0, <2>3, FS_RemoveElement
    <2>6. s # {}
      <3>1. Taken(mi, {}) = 0
        BY TakenPicked, FS_EmptySet
      <3>2. QED
        BY <2>3, <3>1
    <2> DEFINE p == PickOf(s)
    <2>7. p \in s /\ Weight(mi, p) \in Nat
      BY <2>6, PickIn
    <2>8. Taken(mi, s) = Weight(mi, p) + Taken(mi, s \ {p})
      BY <1>0, <2>6, TakenPicked
    <2> HIDE DEF p
    <2>9. Taken(mi, s \ {p}) \in Nat
      BY <2>4, <2>5, <2>7
    <2>10. ASSUME NEW m \in s PROVE Taken(mi, s) = Weight(mi, m) + Taken(mi, s \ {m})
      <3>1. CASE m = p
        BY <2>8, <3>1
      <3>2. CASE m # p
        <4>1. m \in s \ {p} /\ p \in s \ {m}
          BY <2>7, <3>2
        <4>2. (s \ {p}) \ {m} = (s \ {m}) \ {p}
          OBVIOUS
        <4>3. Taken(mi, s \ {p}) = Weight(mi, m) + Taken(mi, (s \ {p}) \ {m})
          BY <2>4, <2>5, <2>7, <4>1
        <4>4. Taken(mi, s \ {m}) = Weight(mi, p) + Taken(mi, (s \ {m}) \ {p})
          BY <2>4, <2>5, <4>1
        <4>5. (s \ {p}) \ {m} \in SUBSET S /\ Cardinality((s \ {p}) \ {m}) < n
          <5>1. IsFiniteSet(s \ {p}) /\ Cardinality(s \ {p}) \in Nat /\ Cardinality(s \ {p}) < n
            BY <1>0, <2>5, <2>7
          <5>2. Cardinality((s \ {p}) \ {m}) = Cardinality(s \ {p}) - 1
            BY <4>1, <5>1, FS_RemoveElement
          <5>3. QED
            BY <5>1, <5>2
        <4>6. Taken(mi, (s \ {p}) \ {m}) \in Nat
          BY <2>4, <4>5
        <4>7. Weight(mi, m) \in Nat
          OBVIOUS
        <4> DEFINE t == Taken(mi, (s \ {p}) \ {m})
        <4>8. Taken(mi, s \ {p}) = Weight(mi, m) + t /\ Taken(mi, s \ {m}) = Weight(mi, p) + t /\ t \in Nat
          BY <4>2, <4>3, <4>4, <4>6
        <4> HIDE DEF t
        <4>9. QED
          BY <2>7, <2>8, <4>7, <4>8
      <3>3. QED
        BY <3>1, <3>2
    <2>11. Taken(mi, s) \in Nat
      BY <2>7, <2>8, <2>9
    <2>12. QED
      BY <2>3, <2>10, <2>11
  <1>2. Fine(S)
    <2> HIDE DEF Fine
    <2>1. QED
      BY <1>0, <1>1
  <1>3. QED
    BY <1>2

-----------------------------------------------------------------------------
(* The invariant, and what follows from it. *)

LEMMA InitInv ==
  ASSUME Init
  PROVE  Inv
  <1>1. DOMAIN majors = {} /\ DOMAIN minors = {} /\ DOMAIN pad = {} /\ DOMAIN live = {}
    BY DEF Init
  <1>2. call = Idle /\ memRoot = Null /\ bestBet = Null /\ runs = {}
    BY DEF Init
  <1>3. Ranked(majors)
    <2>1. [x \in {} |-> 0] \in [DOMAIN majors -> Nat]
      BY <1>1
    <2>2. QED
      BY <1>1, <2>1 DEF Ranked
  <1>4. MajorsInv(majors, memRoot, runs)
    BY <1>1, <1>2, <1>3 DEF MajorsInv, MajorOK, MajorsApart, RunsAre, Linked
  <1>5. MinorsInv(majors, minors)
    BY <1>1 DEF MinorsInv, MinorOK, MinorsApart, Chained
  <1>6. PadOK(minors, pad) /\ LiveOK(minors, pad, live) /\ EmptyOK(majors, call)
    BY <1>1 DEF PadOK, LiveOK, EmptyOK
  <1>7. CallOK(majors, minors, pad, live, call)
    BY <1>2 DEF CallOK, Idle, IsCall, Searching, Labels
  <1>8. QED
    BY <1>2, <1>4, <1>5, <1>6, <1>7 DEF Inv

LEMMA NextInv ==
  ASSUME Inv, [Next]_heapVars
  PROVE  Inv'
  <1>1. CASE FirstMajor
    BY <1>1, FirstMajorStep
  <1>2. CASE StartSearch
    BY <1>2, StartSearchStep
  <1>3. CASE LookAtMajor
    BY <1>3, LookAtMajorStep
  <1>4. CASE UseNewMajor
    BY <1>4, UseNewMajorStep
  <1>5. CASE LookAtMinor
    BY <1>5, LookAtMinorStep
  <1>6. CASE ReallocCopy
    BY <1>6, ReallocCopyStep
  <1>7. ASSUME NEW req \in Requests, Malloc(req) PROVE Inv'
    BY <1>7, MallocStep
  <1>8. ASSUME NEW p \in DOMAIN live, Free(p) PROVE Inv'
    BY <1>8, FreeStep
  <1>9. ASSUME NEW p \in DOMAIN live, NEW req \in Resizes, Realloc(p, req) PROVE Inv'
    BY <1>9, ReallocStep
  <1>10. CASE UNCHANGED heapVars
    BY <1>10 DEF heapVars, Inv
  <1>11. QED
    BY <1>1, <1>2, <1>3, <1>4, <1>5, <1>6, <1>7, <1>8, <1>9, <1>10 DEF Next, SearchStep

(* The lists of majors and minors, the pointers and the call in progress   *)
(* are consistent after any sequence of calls: Inv holds in every state.   *)
THEOREM HeapIsSound == Spec => []Inv
  <1>1. Init => Inv
    BY InitInv
  <1>2. Inv /\ [Next]_heapVars => Inv'
    BY NextInv
  <1>3. QED
    BY <1>1, <1>2, PTL DEF Spec

LEMMA MajorHoldsHeader ==
  ASSUME Inv, NEW x \in DOMAIN majors
  PROVE  MajorSize <= majors[x].size
  <1>1. /\ MajorOK(majors) /\ MinorsInv(majors, minors) /\ EmptyOK(majors, call)
        /\ x \in Nat /\ majors[x].size \in Nat
    BY MajorFacts DEF Inv, MajorsInv
  <1>2. CASE majors[x].first # Null
    <2>1. PICK m : m = majors[x].first
      OBVIOUS
    <2>2. NextIn(Mine(minors, x), Null, m)
      BY <1>1, <2>1 DEF MinorsInv, Chained
    <2>3. m \in DOMAIN minors /\ minors[m].block = x
      BY <1>2, <2>1, <2>2 DEF NextIn, Mine
    <2>4. m \in Nat /\ End(minors, m) \in Nat /\ x + MajorSize <= m /\ m < End(minors, m) /\ End(minors, m) <= x + majors[x].size
      BY <1>1, <2>3, MinorFacts
    <2>5. QED
      BY <1>1, <2>4, Constants
  <1>3. CASE majors[x].first = Null
    <2>1. /\ MajorSize + Need(call.req) <= majors[x].size
          /\ call.at \in {"start", "major", "case2"}
      BY <1>1, <1>3 DEF EmptyOK
    <2>2. call.req \in Nat
      BY <2>1 DEF Inv, CallOK, Searching
    <2>3. Need(call.req) \in Nat
      BY <2>2, PagesSuffice
    <2>4. QED
      BY <1>1, <2>1, <2>3, Constants
  <1>4. QED
    BY <1>2, <1>3

(* The words of a payload belong to the block of its pointer. *)
InBlock(m, b) == b \in Int /\ m + MinorSize + Alignment <= b /\ b < End(minors, m)

LEMMA PayloadInBlock ==
  ASSUME Inv, call.at # "failed", NEW p \in DOMAIN live, NEW h, h = HeaderOf(pad, p)
  PROVE  /\ h \in DOMAIN minors /\ p \in DOMAIN pad /\ p \in Nat
         /\ p % Alignment = 0
         /\ InBlock(h, p)
         /\ \A b \in Payload(p) : InBlock(h, b)
  <1>1. /\ MajorOK(majors) /\ MinorsInv(majors, minors) /\ PadOK(minors, pad) /\ LiveOK(minors, pad, live)
    BY DEF Inv, MajorsInv
  <1>2. p \in DOMAIN pad /\ live[p] = minors[h].req
    BY <1>1 DEF LiveOK
  <1>3. /\ p \in Nat /\ h \in DOMAIN minors /\ h \in Nat
        /\ h + MinorSize + Alignment <= p
        /\ p + minors[h].req <= End(minors, h) /\ p < End(minors, h)
        /\ p % Alignment = 0
    BY <1>1, <1>2, PointerFacts
  <1>4. minors[h].req \in Nat /\ End(minors, h) \in Nat
    BY <1>1, <1>3, MinorFacts
  <1>5. ASSUME NEW b \in Payload(p) PROVE InBlock(h, b)
    <2>1. b \in Int /\ p <= b /\ b <= p + minors[h].req - 1
      BY <1>2, <1>3, <1>4 DEF Payload
    <2>2. QED
      BY <1>3, <1>4, <2>1, Constants DEF InBlock
  <1>6. QED
    BY <1>2, <1>3, <1>5 DEF InBlock

LEMMA BlockHoldsNoHeader ==
  ASSUME Inv, NEW h \in DOMAIN minors, NEW b, InBlock(h, b)
  PROVE  b \notin Headers
  <1>1. /\ MajorOK(majors) /\ MajorsApart(majors) /\ MinorsInv(majors, minors)
    BY DEF Inv, MajorsInv
  <1>2. PICK maj : maj = minors[h].block
    OBVIOUS
  <1>3. /\ maj \in DOMAIN majors /\ maj \in Nat /\ h \in Nat /\ maj + MajorSize <= h
        /\ End(minors, h) \in Nat /\ End(minors, h) <= maj + majors[maj].size /\ majors[maj].size \in Nat
    BY <1>1, <1>2, MinorFacts, MajorFacts
  <1>4. b \in Int /\ h + MinorSize + Alignment <= b /\ b < End(minors, h)
    BY DEF InBlock
  <1>5. ASSUME NEW x \in DOMAIN majors PROVE b \notin x .. x + MajorSize - 1
    <2>1. x \in Nat /\ majors[x].size \in Nat /\ MajorSize <= majors[x].size
      BY <1>1, MajorFacts, MajorHoldsHeader
    <2>2. CASE x = maj
      BY <1>3, <1>4, <2>1, <2>2, Constants
    <2>3. CASE x < maj
      <3>1. x + majors[x].size <= maj
        BY <1>1, <1>3, <2>3 DEF MajorsApart
      <3>2. QED
        BY <1>3, <1>4, <2>1, <3>1, Constants
    <2>4. CASE maj < x
      <3>1. maj + majors[maj].size <= x
        BY <1>1, <1>3, <2>4 DEF MajorsApart
      <3>2. QED
        BY <1>3, <1>4, <2>1, <3>1, Constants
    <2>5. QED
      BY <1>3, <2>1, <2>2, <2>3, <2>4
  <1>6. ASSUME NEW n \in DOMAIN minors PROVE b \notin n .. n + MinorSize - 1
    <2>1. n \in Nat /\ End(minors, n) \in Nat /\ minors[n].size \in Nat /\ End(minors, n) = n + MinorSize + minors[n].size
      BY <1>1, MinorFacts
    <2>2. CASE n = h
      BY <1>3, <1>4, <2>2, Constants
    <2>3. CASE n # h
      <3>1. End(minors, n) <= h \/ End(minors, h) <= n
        BY <1>1, <2>3, BlocksApart
      <3>2. QED
        BY <1>3, <1>4, <2>1, <3>1, Constants
    <2>4. QED
      BY <2>2, <2>3
  <1>7. b \in Headers => \/ \E x \in DOMAIN majors : b \in x .. x + MajorSize - 1
                        \/ \E n \in DOMAIN minors : b \in n .. n + MinorSize - 1
    BY Zenon DEF Headers
  <1>8. QED
    BY <1>5, <1>6, <1>7

(* What malloc and realloc return to a client is aligned, overlaps neither *)
(* the payload of another client nor the byte ALIGN stored for it, holds   *)
(* no header of the heap, and lies in pages taken from the MMU - after any *)
(* sequence of malloc, realloc and free, for all sizes of the headers, of  *)
(* pages and of the alignment.                                             *)
THEOREM PayloadsArePrivate == Spec => []PayloadsPrivate
  <1>1. Inv => PayloadsPrivate
    <2>1. SUFFICES ASSUME Inv, call.at # "failed", NEW p \in DOMAIN live
                   PROVE  /\ p % Alignment = 0
                          /\ Payload(p) \cap Headers = {}
                          /\ \A q \in DOMAIN live \ {p} : Payload(p) \cap (Payload(q) \cup {q - Alignment}) = {}
                          /\ \E r \in runs : Payload(p) \subseteq r[1] * PageSize .. (r[1] + r[2]) * PageSize - 1
      BY DEF PayloadsPrivate
    <2>2. /\ MajorOK(majors) /\ MajorsApart(majors) /\ RunsAre(majors, runs) /\ MinorsInv(majors, minors)
          /\ PadOK(minors, pad)
      BY <2>1 DEF Inv, MajorsInv
    <2>3. PICK h : h = HeaderOf(pad, p)
      OBVIOUS
    <2>4. /\ h \in DOMAIN minors /\ p \in DOMAIN pad /\ p % Alignment = 0
          /\ \A b \in Payload(p) : InBlock(h, b)
      BY <2>1, <2>3, PayloadInBlock
    <2>5. Payload(p) \cap Headers = {}
      BY <2>1, <2>4, BlockHoldsNoHeader
    <2>6. ASSUME NEW q \in DOMAIN live \ {p} PROVE Payload(p) \cap (Payload(q) \cup {q - Alignment}) = {}
      <3>1. PICK g : g = HeaderOf(pad, q)
        OBVIOUS
      <3>2. /\ g \in DOMAIN minors /\ q \in DOMAIN pad /\ q \in Nat /\ InBlock(g, q)
            /\ \A b \in Payload(q) : InBlock(g, b)
        BY <2>1, <3>1, PayloadInBlock
      <3>3. g # h
        BY <2>2, <2>3, <2>4, <2>6, <3>1, <3>2, HeadersDiffer
      <3>4. /\ End(minors, g) <= h \/ End(minors, h) <= g
            /\ g \in Nat /\ h \in Nat /\ End(minors, g) \in Nat /\ End(minors, h) \in Nat
        BY <2>2, <2>4, <3>2, <3>3, BlocksApart, MinorFacts
      <3>5. ASSUME NEW b \in Payload(p), b \in Payload(q) \cup {q - Alignment} PROVE FALSE
        <4>1. b \in Int /\ h + MinorSize + Alignment <= b /\ b < End(minors, h)
          BY <2>4 DEF InBlock
        <4>2. g <= b /\ b < End(minors, g)
          <5>1. CASE b \in Payload(q)
            <6>1. b \in Int /\ g + MinorSize + Alignment <= b /\ b < End(minors, g)
              BY <3>2, <5>1 DEF InBlock
            <6>2. QED
              BY <3>4, <6>1, Constants
          <5>2. CASE b = q - Alignment
            BY <3>2, <3>4, <5>2, Constants DEF InBlock
          <5>3. QED
            BY <3>5, <5>1, <5>2
        <4>3. QED
          BY <3>4, <4>1, <4>2, Constants
      <3>6. QED
        BY <3>5
    <2>7. \E r \in runs : Payload(p) \subseteq r[1] * PageSize .. (r[1] + r[2]) * PageSize - 1
      <3>1. PICK maj : maj = minors[h].block
        OBVIOUS
      <3>2. PICK k : k = maj \div PageSize
        OBVIOUS
      <3>3. PICK n : n = majors[maj].pages
        OBVIOUS
      <3>4. /\ maj \in DOMAIN majors /\ h \in Nat /\ maj + MajorSize <= h
            /\ End(minors, h) \in Nat /\ End(minors, h) <= maj + majors[maj].size
        BY <2>2, <2>4, <3>1, MinorFacts
      <3>5. /\ maj \in Nat /\ k \in HeapPages /\ maj = k * PageSize
            /\ n \in Nat /\ majors[maj].size = n * PageSize /\ majors[maj].size \in Nat
        BY <2>2, <3>2, <3>3, <3>4, MajorFacts
      <3>6. <<k, n>> \in runs
        BY <2>2, <3>2, <3>3, <3>4 DEF RunsAre
      <3>7. (k + n) * PageSize = maj + majors[maj].size
        BY <3>5, Constants
      <3>8. ASSUME NEW b \in Payload(p) PROVE b \in k * PageSize .. (k + n) * PageSize - 1
        <4>1. b \in Int /\ h + MinorSize + Alignment <= b /\ b < End(minors, h)
          BY <2>4 DEF InBlock
        <4>2. b \in maj .. (maj + majors[maj].size) - 1
          BY <3>4, <3>5, <4>1, Constants
        <4>3. QED
          BY <3>5, <3>7, <4>2
      <3>9. <<k, n>>[1] = k /\ <<k, n>>[2] = n
        OBVIOUS
      <3>10. Payload(p) \subseteq <<k, n>>[1] * PageSize .. (<<k, n>>[1] + <<k, n>>[2]) * PageSize - 1
        BY <3>8, <3>9
      <3>11. QED
        BY <3>6, <3>10
    <2>8. QED
      BY <2>4, <2>5, <2>6, <2>7
  <1>2. QED
    BY <1>1, HeapIsSound, PTL

(* The pages the heap has taken from the MMU are exactly those of its      *)
(* majors, and between calls each major holds a block: free gives the      *)
(* pages of a major back with the last block in it, even when realloc      *)
(* moved that block or malloc had only just obtained the pages.            *)
THEOREM PagesAreAccounted == Spec => []PagesAccounted
  <1>1. Inv => PagesAccounted
    <2>1. SUFFICES ASSUME Inv PROVE PagesAccounted
      OBVIOUS
    <2>2. RunsAre(majors, runs) /\ EmptyOK(majors, call)
      BY <2>1 DEF Inv, MajorsInv
    <2>3. call = Idle => call.at = "idle"
      BY DEF Idle
    <2>4. QED
      BY <2>2, <2>3 DEF PagesAccounted, RunsAre, EmptyOK
  <1>2. QED
    BY <1>1, HeapIsSound, PTL

-----------------------------------------------------------------------------
(* Links that agree with each other and do not go round form one list that *)
(* holds every header.                                                     *)

ListOf(S, root, nx, pv, rank) ==
  /\ nx \in [S -> S \cup {Null}] /\ pv \in [S -> S \cup {Null}] /\ rank \in [S -> Nat]
  /\ Null \notin S /\ root \in S \cup {Null}
  /\ \A x \in S : /\ nx[x] # Null => pv[nx[x]] = x /\ rank[x] < rank[nx[x]]
                  /\ pv[x] # Null => nx[pv[x]] = x
                  /\ pv[x] = Null => x = root

(* The first k headers of the list. *)
IsPath(S, root, nx, rank, k, f) ==
  /\ f \in [1 .. k -> S]
  /\ k > 0 => f[1] = root
  /\ \A i \in 1 .. k : i < k => f[i + 1] = nx[f[i]]
  /\ \A i, j \in 1 .. k : i < j => rank[f[i]] < rank[f[j]]

LEMMA ClosedIsAll ==
  ASSUME NEW S, NEW root, NEW nx, NEW pv, NEW rank, ListOf(S, root, nx, pv, rank),
         NEW T \in SUBSET S, root \in T,
         \A x \in T : nx[x] = Null \/ nx[x] \in T
  PROVE  T = S
  <1>1. SUFFICES ASSUME S \ T # {} PROVE FALSE
    OBVIOUS
  <1>2. PICK n \in {rank[x] : x \in S \ T} : \A k \in {rank[x] : x \in S \ T} : n <= k
    <2>1. {rank[x] : x \in S \ T} \in SUBSET Nat /\ {rank[x] : x \in S \ T} # {}
      BY <1>1 DEF ListOf
    <2>2. QED
      BY <2>1, Least
  <1>3. PICK x \in S \ T : n = rank[x]
    BY <1>2
  <1>4. PICK y : y = pv[x]
    OBVIOUS
  <1>5. y # Null /\ y \in S /\ nx[y] = x /\ x # Null
    BY <1>3, <1>4 DEF ListOf
  <1>6. rank[y] < rank[x] /\ rank[y] \in Nat /\ rank[x] \in Nat
    BY <1>3, <1>5 DEF ListOf
  <1>7. y \in T
    BY <1>2, <1>3, <1>5, <1>6
  <1>8. QED
    BY <1>3, <1>5, <1>7

LEMMA RootIsFirst ==
  ASSUME NEW S, NEW root, NEW nx, NEW pv, NEW rank, ListOf(S, root, nx, pv, rank), S # {}
  PROVE  root \in S /\ pv[root] = Null
  <1>1. PICK n \in {rank[x] : x \in S} : \A k \in {rank[x] : x \in S} : n <= k
    <2>1. {rank[x] : x \in S} \in SUBSET Nat /\ {rank[x] : x \in S} # {}
      BY DEF ListOf
    <2>2. QED
      BY <2>1, Least
  <1>2. PICK x \in S : n = rank[x]
    BY <1>1
  <1>3. ASSUME pv[x] # Null PROVE FALSE
    <2>1. PICK y : y = pv[x]
      OBVIOUS
    <2>2. y \in S /\ nx[y] = x /\ x # Null
      BY <1>2, <1>3, <2>1 DEF ListOf
    <2>3. rank[y] < rank[x] /\ rank[y] \in Nat /\ rank[x] \in Nat
      BY <1>2, <2>2 DEF ListOf
    <2>4. QED
      BY <1>1, <1>2, <2>2, <2>3
  <1>4. QED
    BY <1>2, <1>3 DEF ListOf

LEMMA PathInjective ==
  ASSUME NEW S, NEW root, NEW nx, NEW pv, NEW rank, ListOf(S, root, nx, pv, rank),
         NEW k \in Nat, NEW f, IsPath(S, root, nx, rank, k, f)
  PROVE  \A i, j \in 1 .. k : i # j => f[i] # f[j]
  <1>1. SUFFICES ASSUME NEW i \in 1 .. k, NEW j \in 1 .. k, i # j, f[i] = f[j] PROVE FALSE
    OBVIOUS
  <1>2. rank[f[i]] \in Nat /\ rank[f[j]] \in Nat
    BY DEF IsPath, ListOf
  <1>3. i < j \/ j < i
    BY <1>1
  <1>4. rank[f[i]] < rank[f[j]] \/ rank[f[j]] < rank[f[i]]
    BY <1>3 DEF IsPath
  <1>5. QED
    BY <1>1, <1>2, <1>4

(* A path goes on as long as the last header has a next one. *)
LEMMA PathGoesOn ==
  ASSUME NEW S, NEW root, NEW nx, NEW pv, NEW rank, ListOf(S, root, nx, pv, rank),
         NEW k \in Nat, k > 0, NEW f, IsPath(S, root, nx, rank, k, f), nx[f[k]] # Null,
         NEW g, g = [i \in 1 .. k + 1 |-> IF i = k + 1 THEN nx[f[k]] ELSE f[i]]
  PROVE  IsPath(S, root, nx, rank, k + 1, g)
  <1>1. k \in 1 .. k /\ f[k] \in S /\ nx[f[k]] \in S /\ rank[f[k]] < rank[nx[f[k]]]
    BY DEF IsPath, ListOf
  <1>2. \A i \in 1 .. k + 1 : i \in 1 .. k \/ i = k + 1
    OBVIOUS
  <1>3. \A i \in 1 .. k : g[i] = f[i] /\ f[i] \in S
    BY DEF IsPath
  <1>4. g[k + 1] = nx[f[k]]
    OBVIOUS
  <1>5. g \in [1 .. k + 1 -> S]
    BY <1>1, <1>2, <1>3, <1>4
  <1>6. g[1] = root
    BY <1>3 DEF IsPath
  <1>7. \A i \in 1 .. k + 1 : i < k + 1 => g[i + 1] = nx[g[i]]
    <2>1. TAKE i \in 1 .. k + 1
    <2>2. HAVE i < k + 1
    <2>3. CASE i = k
      BY <1>1, <1>3, <1>4, <2>3
    <2>4. CASE i < k
      BY <1>3, <2>4 DEF IsPath
    <2>5. QED
      BY <2>2, <2>3, <2>4
  <1>8. \A i, j \in 1 .. k + 1 : i < j => rank[g[i]] < rank[g[j]]
    <2>1. TAKE i, j \in 1 .. k + 1
    <2>2. HAVE i < j
    <2>3. CASE j \in 1 .. k
      BY <1>3, <2>2, <2>3 DEF IsPath
    <2>4. CASE j = k + 1
      <3>0. i \in 1 .. k
        BY <2>2, <2>4
      <3>1. i \in 1 .. k /\ rank[f[i]] \in Nat /\ rank[f[k]] \in Nat /\ rank[nx[f[k]]] \in Nat
        BY <1>1, <1>3, <3>0 DEF ListOf
      <3>2. rank[f[i]] < rank[f[k]] \/ i = k
        BY <1>1, <3>1 DEF IsPath
      <3>3. QED
        BY <1>1, <1>3, <1>4, <2>4, <3>1, <3>2
    <2>5. QED
      BY <1>2, <2>3, <2>4
  <1>9. QED
    BY <1>5, <1>6, <1>7, <1>8 DEF IsPath

LEMMA PathExists ==
  ASSUME NEW S, IsFiniteSet(S), NEW root, NEW nx, NEW pv, NEW rank, ListOf(S, root, nx, pv, rank)
  PROVE  \E f : IsPath(S, root, nx, rank, Cardinality(S), f)
  <1> DEFINE Failing == {k \in Nat : k <= Cardinality(S) /\ ~ \E f : IsPath(S, root, nx, rank, k, f)}
  <1>0. Cardinality(S) \in Nat
    BY FS_CardinalityType
  <1>1. Failing = {}
    <2>1. SUFFICES ASSUME Failing # {} PROVE FALSE
      OBVIOUS
    <2>2. PICK n \in Failing : \A k \in Failing : n <= k
      BY <2>1, Least
    <2>3. n \in Nat /\ n <= Cardinality(S) /\ ~ \E f : IsPath(S, root, nx, rank, n, f)
      BY <2>2
    <2>4. CASE n = 0
      <3>1. IsPath(S, root, nx, rank, 0, [i \in 1 .. 0 |-> Null])
        BY DEF IsPath
      <3>2. QED
        BY <2>3, <2>4, <3>1
    <2>5. CASE n = 1
      <3>1. S # {}
        BY <2>3, <2>5, FS_EmptySet
      <3>2. root \in S
        BY <3>1, RootIsFirst
      <3>3. IsPath(S, root, nx, rank, 1, [i \in 1 .. 1 |-> root])
        BY <3>2 DEF IsPath
      <3>4. QED
        BY <2>3, <2>5, <3>3
    <2>6. CASE n > 1
      <3>1. PICK k \in Nat : n = k + 1
        BY <2>3, <2>6
      <3>2. k > 0 /\ k < n /\ k < Cardinality(S)
        BY <1>0, <2>3, <2>6, <3>1
      <3>3. k \notin Failing
        <4> HIDE DEF Failing
        <4>1. QED
          BY <2>2, <2>3, <3>2
      <3>4. PICK f : IsPath(S, root, nx, rank, k, f)
        BY <1>0, <3>2, <3>3
      <3>5. nx[f[k]] # Null
        <4>1. SUFFICES ASSUME nx[f[k]] = Null PROVE FALSE
          OBVIOUS
        <4>2. PICK T : T = {f[i] : i \in 1 .. k}
          OBVIOUS
        <4>3. T \in SUBSET S /\ root \in T
          BY <3>2, <3>4, <4>2 DEF IsPath
        <4>4. \A x \in T : nx[x] = Null \/ nx[x] \in T
          <5>1. TAKE x \in T
          <5>2. PICK i \in 1 .. k : x = f[i]
            BY <4>2
          <5>3. CASE i = k
            BY <4>1, <5>2, <5>3
          <5>4. CASE i < k
            <6>1. f[i + 1] = nx[x] /\ i + 1 \in 1 .. k
              BY <3>4, <5>2, <5>4 DEF IsPath
            <6>2. QED
              BY <4>2, <6>1
          <5>5. QED
            BY <5>3, <5>4
        <4>5. T = S
          BY <4>3, <4>4, ClosedIsAll
        <4>6. f \in Surjection(1 .. k, S)
          BY <3>4, <4>2, <4>5 DEF IsPath, Surjection
        <4>7. Cardinality(S) <= k
          BY <4>6, FS_SurjCardinalityBound DEF ExistsSurjection
        <4>8. QED
          BY <1>0, <3>2, <4>7
      <3>6. PICK g : g = [i \in 1 .. k + 1 |-> IF i = k + 1 THEN nx[f[k]] ELSE f[i]]
        OBVIOUS
      <3>7. IsPath(S, root, nx, rank, n, g)
        BY <3>1, <3>2, <3>4, <3>5, <3>6, PathGoesOn
      <3>8. QED
        BY <2>3, <3>7
    <2>7. QED
      BY <2>3, <2>4, <2>5, <2>6
  <1>2. QED
    BY <1>0, <1>1

(* The list, as ListsSound puts it. *)
InOrder(list, root, nx, pv) ==
  LET at(i) == IF i \in DOMAIN list THEN list[i] ELSE Null
  IN  /\ root = at(1)
      /\ \A i \in DOMAIN list : pv[list[i]] = at(i - 1) /\ nx[list[i]] = at(i + 1)

LEMMA ListExists ==
  ASSUME NEW S, IsFiniteSet(S), NEW root, NEW nx, NEW pv, NEW rank, ListOf(S, root, nx, pv, rank)
  PROVE  \E list \in SetToSeqs(S) : InOrder(list, root, nx, pv)
  <1>1. PICK n \in Nat : n = Cardinality(S)
    BY FS_CardinalityType
  <1>2. PICK f : IsPath(S, root, nx, rank, n, f)
    BY <1>1, PathExists
  <1>3. f \in SetToSeqs(S)
    <2>1. \A i, j \in 1 .. n : i # j => f[i] # f[j]
      BY <1>2, PathInjective
    <2>2. f \in [1 .. n -> S]
      BY <1>2 DEF IsPath
    <2>3. QED
      BY <1>1, <2>1, <2>2 DEF SetToSeqs
  <1>4. DOMAIN f = 1 .. n
    BY <1>2 DEF IsPath
  <1>5. CASE n = 0
    <2>1. S = {}
      BY <1>1, <1>5, FS_EmptySet
    <2>2. root = Null
      BY <2>1 DEF ListOf
    <2>3. DOMAIN f = {}
      BY <1>4, <1>5
    <2>4. QED
      BY <1>3, <2>2, <2>3 DEF InOrder
  <1>6. CASE n > 0
    <2>1. S # {} /\ root \in S /\ pv[root] = Null
      BY <1>1, <1>6, FS_EmptySet, RootIsFirst
    <2>2. f[1] = root /\ 1 \in 1 .. n
      BY <1>2, <1>6 DEF IsPath
    <2>3. nx[f[n]] = Null
      <3>1. SUFFICES ASSUME nx[f[n]] # Null PROVE FALSE
        OBVIOUS
      <3>2. PICK g : g = [i \in 1 .. n + 1 |-> IF i = n + 1 THEN nx[f[n]] ELSE f[i]]
        OBVIOUS
      <3>3. IsPath(S, root, nx, rank, n + 1, g)
        BY <1>2, <1>6, <3>1, <3>2, PathGoesOn
      <3>4. \A i, j \in 1 .. n + 1 : i # j => g[i] # g[j]
        BY <3>3, PathInjective
      <3>5. IsFiniteSet(1 .. n + 1) /\ Cardinality(1 .. n + 1) = n + 1
        BY FS_Interval
      <3>6. g \in [1 .. n + 1 -> S]
        BY <3>3 DEF IsPath
      <3>7. QED
        BY <1>1, <3>4, <3>5, <3>6, FS_PigeonHole
    <2>4. ASSUME NEW i \in 1 .. n
          PROVE  nx[f[i]] = IF i + 1 \in 1 .. n THEN f[i + 1] ELSE Null
      <3>1. CASE i = n
        BY <2>3, <3>1
      <3>2. CASE i < n
        BY <1>2, <3>2 DEF IsPath
      <3>3. QED
        BY <3>1, <3>2
    <2>5. ASSUME NEW i \in 1 .. n
          PROVE  pv[f[i]] = IF i - 1 \in 1 .. n THEN f[i - 1] ELSE Null
      <3>1. CASE i = 1
        BY <2>1, <2>2, <3>1
      <3>2. CASE i > 1
        <4>1. PICK j \in 1 .. n : i = j + 1
          BY <3>2
        <4>2. f[i] = nx[f[j]] /\ f[i] \in S /\ f[j] \in S
          BY <1>2, <4>1 DEF IsPath
        <4>3. pv[f[i]] = f[j]
          BY <4>2 DEF ListOf
        <4>4. i - 1 = j
          BY <4>1
        <4>5. QED
          BY <4>3, <4>4
      <3>3. QED
        BY <3>1, <3>2
    <2>6. InOrder(f, root, nx, pv)
      BY <1>4, <2>2, <2>4, <2>5 DEF InOrder
    <2>7. QED
      BY <1>3, <2>6
  <1>7. QED
    BY <1>5, <1>6

(* The majors are such a list, and so are the minors of a major.           *)
LEMMA MajorsAreList ==
  ASSUME NEW ma, NEW root, NEW rs, MajorsInv(ma, root, rs)
  PROVE  \E rank : ListOf(DOMAIN ma, root, [x \in DOMAIN ma |-> ma[x].next], [x \in DOMAIN ma |-> ma[x].prev], rank)
  <1>1. PICK rank \in [DOMAIN ma -> Nat] :
          \A x \in DOMAIN ma : ma[x].next # Null => rank[x] < rank[ma[x].next]
    BY DEF MajorsInv, Ranked
  <1>2. PICK nx : nx = [x \in DOMAIN ma |-> ma[x].next]
    OBVIOUS
  <1>3. PICK pv : pv = [x \in DOMAIN ma |-> ma[x].prev]
    OBVIOUS
  <1>4. \A x \in DOMAIN ma : /\ nx[x] = ma[x].next /\ pv[x] = ma[x].prev
                             /\ nx[x] \in DOMAIN ma \cup {Null} /\ pv[x] \in DOMAIN ma \cup {Null}
    BY <1>2, <1>3 DEF MajorsInv, MajorOK
  <1>5. nx \in [DOMAIN ma -> DOMAIN ma \cup {Null}] /\ pv \in [DOMAIN ma -> DOMAIN ma \cup {Null}]
    BY <1>2, <1>3, <1>4
  <1>6. Null \notin DOMAIN ma /\ root \in DOMAIN ma \cup {Null}
    BY MajorFacts, Constants DEF MajorsInv, Linked
  <1>7. \A x \in DOMAIN ma : /\ nx[x] # Null => pv[nx[x]] = x /\ rank[x] < rank[nx[x]]
                             /\ pv[x] # Null => nx[pv[x]] = x
                             /\ pv[x] = Null => x = root
    BY <1>1, <1>4 DEF MajorsInv, Linked
  <1>8. ListOf(DOMAIN ma, root, nx, pv, rank)
    BY <1>5, <1>6, <1>7 DEF ListOf
  <1>9. QED
    BY <1>2, <1>3, <1>8

LEMMA MinorsAreList ==
  ASSUME NEW ma, NEW mi, MajorOK(ma), MinorsInv(ma, mi), NEW maj \in DOMAIN ma,
         NEW S, S = Mine(mi, maj)
  PROVE  ListOf(S, ma[maj].first, [x \in S |-> mi[x].next], [x \in S |-> mi[x].prev], [x \in S |-> x])
  <1>1. \A x \in S : x \in Nat /\ x > 0
    BY MinorFacts DEF Mine
  <1>2. \A x \in S : NextIn(S, x, mi[x].next) /\ PrevIn(S, x, mi[x].prev)
    BY DEF MinorsInv, Chained, Mine
  <1>3. NextIn(S, Null, ma[maj].first)
    BY DEF MinorsInv, Chained
  <1>4. PICK nx : nx = [x \in S |-> mi[x].next]
    OBVIOUS
  <1>5. PICK pv : pv = [x \in S |-> mi[x].prev]
    OBVIOUS
  <1>6. PICK rank : rank = [x \in S |-> x]
    OBVIOUS
  <1>7. \A x \in S : nx[x] = mi[x].next /\ pv[x] = mi[x].prev /\ rank[x] = x
    BY <1>4, <1>5, <1>6
  <1>8. \A x \in S : nx[x] \in S \cup {Null} /\ pv[x] \in S \cup {Null}
    BY <1>2, <1>7 DEF NextIn, PrevIn
  <1>9. /\ nx \in [S -> S \cup {Null}] /\ pv \in [S -> S \cup {Null}] /\ rank \in [S -> Nat]
        /\ Null \notin S /\ ma[maj].first \in S \cup {Null}
    <2>1. Null \notin S /\ ma[maj].first \in S \cup {Null}
      BY <1>1, <1>3, Constants DEF NextIn
    <2>2. rank \in [S -> Nat]
      BY <1>1, <1>6
    <2>3. nx \in [S -> S \cup {Null}] /\ pv \in [S -> S \cup {Null}]
      BY <1>4, <1>5, <1>7, <1>8
    <2>4. QED
      BY <2>1, <2>2, <2>3
  <1>10. ASSUME NEW x \in S PROVE nx[x] # Null => pv[nx[x]] = x /\ rank[x] < rank[nx[x]]
    <2>1. SUFFICES ASSUME nx[x] # Null PROVE pv[nx[x]] = x /\ rank[x] < rank[nx[x]]
      OBVIOUS
    <2>2. PICK y : y = nx[x]
      OBVIOUS
    <2>3. y \in S /\ y > x /\ \A z \in S : z <= x \/ y <= z
      BY <1>2, <1>7, <2>1, <2>2 DEF NextIn
    <2>4. PICK p : p = pv[y]
      OBVIOUS
    <2>5. PrevIn(S, y, p)
      BY <1>2, <1>7, <2>3, <2>4
    <2>6. p \in S /\ p < y /\ \A z \in S : z >= y \/ z <= p
      BY <1>1, <2>3, <2>5 DEF PrevIn
    <2>7. p = x
      BY <1>1, <2>3, <2>6
    <2>8. QED
      BY <1>1, <1>7, <2>2, <2>3, <2>4, <2>7
  <1>11. ASSUME NEW x \in S PROVE pv[x] # Null => nx[pv[x]] = x
    <2>1. SUFFICES ASSUME pv[x] # Null PROVE nx[pv[x]] = x
      OBVIOUS
    <2>2. PICK p : p = pv[x]
      OBVIOUS
    <2>3. p \in S /\ p < x /\ \A z \in S : z >= x \/ z <= p
      BY <1>2, <1>7, <2>1, <2>2 DEF PrevIn
    <2>4. PICK y : y = nx[p]
      OBVIOUS
    <2>5. NextIn(S, p, y)
      BY <1>2, <1>7, <2>3, <2>4
    <2>6. y \in S /\ y > p /\ \A z \in S : z <= p \/ y <= z
      BY <1>1, <2>3, <2>5 DEF NextIn
    <2>7. y = x
      BY <1>1, <2>3, <2>6
    <2>8. QED
      BY <2>2, <2>4, <2>7
  <1>12. ASSUME NEW x \in S PROVE pv[x] = Null => x = ma[maj].first
    <2>1. SUFFICES ASSUME pv[x] = Null PROVE x = ma[maj].first
      OBVIOUS
    <2>2. \A z \in S : z >= x
      BY <1>1, <1>2, <1>7, <1>9, <2>1 DEF PrevIn
    <2>3. ma[maj].first \in S /\ \A z \in S : z <= Null \/ ma[maj].first <= z
      BY <1>1, <1>3, Constants DEF NextIn
    <2>4. QED
      BY <1>1, <2>2, <2>3, Constants
  <1>13. ListOf(S, ma[maj].first, nx, pv, rank)
    BY <1>9, <1>10, <1>11, <1>12 DEF ListOf
  <1>14. QED
    BY <1>4, <1>5, <1>6, <1>13

-----------------------------------------------------------------------------
(* `usage' counts what the blocks of a major take up. *)

Counted(ma, mi) ==
  \A x \in DOMAIN ma : ma[x].usage = MajorSize + Taken(mi, Mine(mi, x))

LEMMA MineFinite ==
  ASSUME NEW ma, NEW mi, MajorOK(ma), MinorsInv(ma, mi), NEW x \in DOMAIN ma
  PROVE  IsFiniteSet(Mine(mi, x)) /\ \A m \in Mine(mi, x) : Weight(mi, m) \in Nat
  <1>1. \A m \in Mine(mi, x) : m \in Nat /\ m <= x + ma[x].size /\ mi[m].size \in Nat
    <2>1. TAKE m \in Mine(mi, x)
    <2>2. m \in DOMAIN mi /\ mi[m].block = x
      BY DEF Mine
    <2>3. /\ m \in Nat /\ mi[m].size \in Nat /\ End(mi, m) \in Nat /\ m < End(mi, m)
          /\ End(mi, m) <= x + ma[x].size
      BY <2>2, MinorFacts
    <2>4. x \in Nat /\ ma[x].size \in Nat
      BY MajorFacts
    <2>5. QED
      BY <2>3, <2>4
  <1>2. x + ma[x].size \in Nat
    BY MajorFacts
  <1>3. IsFiniteSet(Mine(mi, x))
    BY <1>1, <1>2, FS_BoundedSetOfNaturals
  <1>4. QED
    BY <1>1, <1>3, Constants DEF Weight

(* Majors come and go without blocks, and blocks keep their place. *)
LEMMA CountedSame ==
  ASSUME NEW ma, NEW mi, MajorOK(ma), MinorsInv(ma, mi), Counted(ma, mi), NEW ma2, NEW mi2,
         \A x \in DOMAIN ma2 : \/ x \in DOMAIN ma /\ ma2[x].usage = ma[x].usage
                               \/ x \notin DOMAIN ma /\ ma2[x].usage = MajorSize,
         DOMAIN mi2 = DOMAIN mi,
         \A m \in DOMAIN mi : mi2[m].block = mi[m].block /\ mi2[m].size = mi[m].size
  PROVE  Counted(ma2, mi2)
  <1>1. SUFFICES ASSUME NEW x \in DOMAIN ma2
                 PROVE  ma2[x].usage = MajorSize + Taken(mi2, Mine(mi2, x))
    BY DEF Counted
  <1>2. Mine(mi2, x) = Mine(mi, x)
    BY DEF Mine
  <1>3. CASE x \in DOMAIN ma
    <2>1. IsFiniteSet(Mine(mi, x)) /\ \A m \in Mine(mi, x) : Weight(mi, m) = Weight(mi2, m)
      BY <1>3, MineFinite DEF Mine, Weight
    <2>2. Taken(mi, Mine(mi, x)) = Taken(mi2, Mine(mi, x))
      BY <2>1, TakenSame
    <2>3. QED
      BY <1>2, <1>3, <2>2 DEF Counted
  <1>4. CASE x \notin DOMAIN ma
    <2>1. Mine(mi, x) = {}
      BY <1>4 DEF Mine, MinorsInv, MinorOK
    <2>2. Taken(mi2, {}) = 0
      BY FS_EmptySet, TakenPicked
    <2>3. QED
      BY <1>2, <1>4, <2>1, <2>2, Constants
  <1>5. QED
    BY <1>3, <1>4

LEMMA CountedOneMore ==
  ASSUME NEW ma, NEW mi, MajorOK(ma), MajorsApart(ma), MinorsInv(ma, mi), Counted(ma, mi),
         NEW maj, NEW m, NEW a, NEW next, NEW req, RoomAt(ma, mi, maj, m, a, next, req),
         NEW mi2, mi2 = InsertMinor(mi, maj, m, a, next, req),
         NEW ma2, ma2 = CountMinor(ma, maj, m, a, req)
  PROVE  Counted(ma2, mi2)
  <1>1. a \notin DOMAIN mi /\ OneBlockMore(mi, mi2, maj, m, a, next, req)
    BY MinorInserted
  <1>2. maj \in DOMAIN ma /\ req \in Nat
    BY DEF RoomAt
  <1>3. /\ DOMAIN ma2 = DOMAIN ma /\ ma2[maj].usage = ma[maj].usage + Need(req)
        /\ \A x \in DOMAIN ma : x # maj => ma2[x] = ma[x]
    BY <1>2, MajorCounted DEF SameMajors
  <1>4. /\ DOMAIN mi2 = DOMAIN mi \cup {a} /\ mi2[a].block = maj /\ mi2[a].size = Size(req)
        /\ \A x \in DOMAIN mi : mi2[x].block = mi[x].block /\ mi2[x].size = mi[x].size
    BY <1>1 DEF OneBlockMore, NewBlock
  <1>5. ASSUME NEW x \in DOMAIN ma
        PROVE  /\ IsFiniteSet(Mine(mi, x)) /\ Taken(mi2, Mine(mi, x)) = Taken(mi, Mine(mi, x))
               /\ \A z \in Mine(mi, x) : Weight(mi2, z) \in Nat
    <2>1. IsFiniteSet(Mine(mi, x)) /\ \A z \in Mine(mi, x) : Weight(mi, z) \in Nat
      BY MineFinite
    <2>2. \A z \in Mine(mi, x) : Weight(mi, z) = Weight(mi2, z)
      BY <1>4 DEF Mine, Weight
    <2>3. QED
      BY <2>1, <2>2, TakenSame
  <1>6. ASSUME NEW x \in DOMAIN ma, x # maj PROVE ma2[x].usage = MajorSize + Taken(mi2, Mine(mi2, x))
    <2>1. Mine(mi2, x) = Mine(mi, x)
      BY <1>1, <1>4, <1>6 DEF Mine
    <2>2. QED
      BY <1>3, <1>5, <1>6, <2>1 DEF Counted
  <1>7. ma2[maj].usage = MajorSize + Taken(mi2, Mine(mi2, maj))
    <2> DEFINE S == Mine(mi, maj)
    <2>1. Mine(mi2, maj) = S \cup {a} /\ a \notin S
      BY <1>1, <1>4 DEF Mine
    <2>2. Weight(mi2, a) = Need(req) /\ Need(req) \in Nat
      BY <1>2, <1>4, PagesSuffice, Constants DEF Weight, Need, Size
    <2>3. IsFiniteSet(S) /\ Taken(mi2, S) = Taken(mi, S) /\ \A z \in S : Weight(mi2, z) \in Nat
      BY <1>2, <1>5
    <2>4. ma[maj].usage = MajorSize + Taken(mi, S)
      BY <1>2 DEF Counted
    <2> HIDE DEF S
    <2>5. IsFiniteSet(S \cup {a}) /\ (S \cup {a}) \ {a} = S
      BY <2>1, <2>3, FS_AddElement
    <2>6. \A z \in S \cup {a} : Weight(mi2, z) \in Nat
      BY <2>2, <2>3
    <2>7. Taken(mi2, S \cup {a}) = Weight(mi2, a) + Taken(mi2, (S \cup {a}) \ {a})
      BY <2>5, <2>6, TakenOne
    <2>8. Taken(mi2, S) \in Nat
      BY <2>3, TakenOne
    <2>9. QED
      BY <1>3, <2>1, <2>2, <2>3, <2>4, <2>5, <2>7, <2>8, Constants
  <1>8. QED
    BY <1>3, <1>6, <1>7 DEF Counted

LEMMA CountedOneLess ==
  ASSUME NEW ma, NEW mi, MajorOK(ma), MinorsInv(ma, mi), Counted(ma, mi), NEW m \in DOMAIN mi,
         NEW mi2, mi2 = UnlinkMinor(mi, m), NEW ma2, ma2 = UncountMinor(ma, mi, m)
  PROVE  Counted(ma2, mi2)
  <1>1. OneBlockLess(mi, mi2, m)
    BY MinorUnlinked
  <1>2. PICK maj : maj = mi[m].block
    OBVIOUS
  <1>3. maj \in DOMAIN ma /\ mi[m].size \in Nat
    BY <1>2, MinorFacts
  <1>4. /\ DOMAIN ma2 = DOMAIN ma /\ ma2[maj].usage = ma[maj].usage - (mi[m].size + MinorSize)
        /\ \A x \in DOMAIN ma : x # maj => ma2[x] = ma[x]
    BY <1>2, MajorUncounted DEF SameMajors
  <1>5. /\ DOMAIN mi2 = DOMAIN mi \ {m}
        /\ \A x \in DOMAIN mi2 : mi2[x].block = mi[x].block /\ mi2[x].size = mi[x].size
    BY <1>1 DEF OneBlockLess
  <1>6. ASSUME NEW x \in DOMAIN ma
        PROVE  /\ IsFiniteSet(Mine(mi2, x)) /\ Taken(mi2, Mine(mi2, x)) = Taken(mi, Mine(mi2, x))
               /\ Mine(mi2, x) = Mine(mi, x) \ {m}
    <2>1. IsFiniteSet(Mine(mi, x))
      BY MineFinite
    <2>2. Mine(mi2, x) = Mine(mi, x) \ {m}
      BY <1>5 DEF Mine
    <2>3. \A z \in Mine(mi2, x) : Weight(mi2, z) = Weight(mi, z)
      BY <1>5 DEF Mine, Weight
    <2>4. IsFiniteSet(Mine(mi2, x))
      BY <2>1, <2>2, FS_RemoveElement
    <2>5. QED
      BY <2>2, <2>3, <2>4, TakenSame
  <1>7. ASSUME NEW x \in DOMAIN ma, x # maj PROVE ma2[x].usage = MajorSize + Taken(mi2, Mine(mi2, x))
    <2>1. Mine(mi, x) \ {m} = Mine(mi, x)
      BY <1>2, <1>7 DEF Mine
    <2>2. QED
      BY <1>4, <1>6, <1>7, <2>1 DEF Counted
  <1>8. ma2[maj].usage = MajorSize + Taken(mi2, Mine(mi2, maj))
    <2> DEFINE S == Mine(mi, maj)
    <2>1. m \in S
      BY <1>2 DEF Mine
    <2>2. IsFiniteSet(S) /\ \A z \in S : Weight(mi, z) \in Nat
      BY <1>3, MineFinite
    <2>3. Taken(mi2, Mine(mi2, maj)) = Taken(mi, S \ {m})
      BY <1>3, <1>6
    <2>4. ma[maj].usage = MajorSize + Taken(mi, S)
      BY <1>3 DEF Counted
    <2> HIDE DEF S
    <2>5. Taken(mi, S) = Weight(mi, m) + Taken(mi, S \ {m})
      BY <2>1, <2>2, TakenOne
    <2>6. Taken(mi, S \ {m}) \in Nat
      <3>1. IsFiniteSet(S \ {m}) /\ \A z \in S \ {m} : Weight(mi, z) \in Nat
        BY <2>2, FS_RemoveElement
      <3>2. QED
        BY <3>1, TakenOne
    <2>7. Weight(mi, m) = mi[m].size + MinorSize
      BY <1>3, Constants DEF Weight
    <2>8. QED
      BY <1>3, <1>4, <2>3, <2>4, <2>5, <2>6, <2>7, Constants
  <1>9. QED
    BY <1>4, <1>7, <1>8 DEF Counted

LEMMA PlaceCounts ==
  ASSUME Inv, Counted(majors, minors), NEW maj, NEW m, Place(maj, m),
         RoomAt(majors, minors, maj, m, GapStart(maj, m), GapNext(maj, m), call.req)
  PROVE  Counted(majors, minors)'
  <1>1. MajorOK(majors) /\ MajorsApart(majors) /\ MinorsInv(majors, minors)
    BY DEF Inv, MajorsInv
  <1>2. PICK a : a = GapStart(maj, m)
    OBVIOUS
  <1>3. PICK next : next = GapNext(maj, m)
    OBVIOUS
  <1>4. PICK req : req = call.req
    OBVIOUS
  <1>5. /\ minors' = InsertMinor(minors, maj, m, a, next, req)
        /\ majors' = CountMinor(majors, maj, m, a, req)
    BY <1>2, <1>3, <1>4 DEF Place, InsertMinor, NewBlock, CountMinor
  <1>6. RoomAt(majors, minors, maj, m, a, next, req)
    BY <1>2, <1>3, <1>4
  <1>7. QED
    BY <1>1, <1>5, <1>6, CountedOneMore

LEMMA FreeCounts ==
  ASSUME Inv, Counted(majors, minors), NEW p \in DOMAIN pad, FreeBlock(p)
  PROVE  Counted(majors, minors)'
  <1>1. MajorsInv(majors, memRoot, runs) /\ MajorOK(majors) /\ MinorsInv(majors, minors) /\ PadOK(minors, pad)
    BY DEF Inv, MajorsInv
  <1>2. PICK m : m = HeaderOf(pad, p)
    OBVIOUS
  <1>3. PICK maj : maj = minors[m].block
    OBVIOUS
  <1>4. PICK red : red = UncountMinor(majors, minors, m)
    OBVIOUS
  <1>5. m \in DOMAIN minors /\ maj \in DOMAIN majors
    BY <1>1, <1>2, <1>3, MinorFacts DEF PadOK
  <1>6. MinorOf(p) = m /\ Reduced(m) = red /\ Unlinked(m) = UnlinkMinor(minors, m)
    BY <1>2, <1>4 DEF MinorOf, HeaderOf, Reduced, UncountMinor, Unlinked, UnlinkMinor
  <1>7. minors' = UnlinkMinor(minors, m)
    BY <1>6 DEF FreeBlock
  <1>8. Counted(red, minors')
    BY <1>1, <1>4, <1>5, <1>7, CountedOneLess
  <1>9. CASE KeepMajor(m, maj)
    BY <1>6, <1>8, <1>9 DEF KeepMajor
  <1>10. CASE ReleaseMajor(maj)
    <2>1. majors' = RemoveMajor(majors, maj)
      BY <1>10 DEF ReleaseMajor, RemoveMajor
    <2>2. PICK root2 : root2 = IF memRoot = maj THEN majors[maj].next ELSE memRoot
      OBVIOUS
    <2>3. OneLess(majors, majors', maj)
      BY <1>1, <1>5, <2>1, <2>2, MajorRemoved
    <2>4. SameMajors(majors, red) /\ \A x \in DOMAIN majors : x # maj => red[x] = majors[x]
      BY <1>1, <1>3, <1>4, <1>5, MajorUncounted
    <2>5. \A x \in DOMAIN majors' : x \in DOMAIN red /\ majors'[x].usage = red[x].usage
      BY <2>3, <2>4 DEF OneLess, SameMajors
    <2>6. QED
      BY <1>8, <2>5 DEF Counted
  <1>11. QED
    BY <1>3, <1>6, <1>9, <1>10 DEF FreeBlock

LEMMA NewMajorCounts ==
  ASSUME Inv, Counted(majors, minors), call.req \in Nat, NEW first \in HeapPages, NEW prev,
         NewMajor(first, prev), minors' = minors,
         \/ prev = Null /\ memRoot = Null
         \/ prev \in DOMAIN majors /\ majors[prev].next = Null
  PROVE  Counted(majors, minors)'
  <1>1. MajorsInv(majors, memRoot, runs) /\ MajorOK(majors) /\ MinorsInv(majors, minors)
    BY DEF Inv, MajorsInv
  <1>2. PICK n : n = PagesFor(Size(call.req))
    OBVIOUS
  <1>3. PICK maj : maj = first * PageSize
    OBVIOUS
  <1>4. PICK root2 : root2 = IF prev = Null THEN maj ELSE memRoot
    OBVIOUS
  <1>5. n \in Nat \ {0}
    BY <1>2, PagesSuffice
  <1>6. first \in FreeRuns(n) /\ majors' = AddMajor(majors, maj, n, prev)
    BY <1>2, <1>3 DEF NewMajor, IsFirstRun, AddMajor, NewHeader
  <1>7. FreePages(runs, first, n)
    BY <1>6 DEF FreeRuns, FreePages
  <1>8. Null \notin DOMAIN majors
    BY <1>1, MajorFacts, Constants
  <1>9. \/ prev = Null /\ memRoot = Null /\ root2 = maj
        \/ prev \in DOMAIN majors /\ majors[prev].next = Null /\ root2 = memRoot
    BY <1>4, <1>8
  <1>10. OneMore(majors, majors', maj, n)
    BY <1>1, <1>3, <1>5, <1>6, <1>7, <1>9, MajorAdded
  <1>11. \A x \in DOMAIN majors' : \/ x \in DOMAIN majors /\ majors'[x].usage = majors[x].usage
                                   \/ x \notin DOMAIN majors /\ majors'[x].usage = MajorSize
    BY <1>10 DEF OneMore
  <1>12. QED
    BY <1>1, <1>11, CountedSame

(* What a step does to the lists. *)
Changed ==
  \/ UNCHANGED <<majors, minors>>
  \/ /\ Searching(call) /\ minors' = minors
     /\ \E first \in HeapPages, prev \in DOMAIN majors \cup {Null} :
          /\ NewMajor(first, prev)
          /\ \/ prev = Null /\ memRoot = Null
             \/ prev \in DOMAIN majors /\ majors[prev].next = Null
  \/ /\ Searching(call)
     /\ \E maj \in DOMAIN majors, m \in DOMAIN minors \cup {Null} :
          /\ RoomAt(majors, minors, maj, m, GapStart(maj, m), GapNext(maj, m), call.req)
          /\ Place(maj, m)
  \/ \E p \in DOMAIN pad : FreeBlock(p)
  \/ /\ majors' = majors
     /\ \E m \in DOMAIN minors, req \in Resizes : minors[m].req >= req /\ minors' = Resized(minors, m, req)

LEMMA GrowChanges ==
  ASSUME Inv, Searching(call), call.maj \in DOMAIN majors, NEW c, c.maj = call.maj,
         NEW label, GrowAndGoTo(c, label)
  PROVE  Changed
  <1>1. majors[c.maj].next = Null /\ minors' = minors
    BY DEF GrowAndGoTo, AtLastMajor
  <1>2. \/ \E first \in HeapPages : NewMajor(first, c.maj)
        \/ UNCHANGED <<majors, minors>>
    BY DEF GrowAndGoTo, NoPages
  <1>3. QED
    BY <1>1, <1>2 DEF Changed

LEMMA PlaceChanges ==
  ASSUME Searching(call), NEW maj, NEW m, Place(maj, m),
         RoomAt(majors, minors, maj, m, GapStart(maj, m), GapNext(maj, m), call.req)
  PROVE  Changed
  <1>1. maj \in DOMAIN majors /\ m \in DOMAIN minors \cup {Null}
    BY DEF RoomAt, Mine
  <1>2. QED
    BY <1>1 DEF Changed

LEMMA NextChanges ==
  ASSUME Inv, [Next]_heapVars
  PROVE  Changed
  <1>0. CallOK(majors, minors, pad, live, call) /\ PadOK(minors, pad)
    BY DEF Inv
  <1>1. CASE FirstMajor
    <2>1. call.at = "start" /\ memRoot = Null /\ minors' = minors
      BY <1>1 DEF FirstMajor
    <2>2. \/ \E first \in HeapPages : NewMajor(first, Null)
          \/ majors' = majors
      BY <1>1 DEF FirstMajor, NoPages
    <2>3. QED
      BY <2>1, <2>2 DEF Changed, Searching
  <1>2. CASE StartSearch
    BY <1>2 DEF StartSearch, Changed
  <1>3. CASE LookAtMajor
    <2>1. call.at = "major" /\ Searching(call)
      BY <1>3 DEF LookAtMajor, Searching
    <2>2. call.maj \in DOMAIN majors
      BY <1>0, <2>1 DEF CallOK
    <2>3. PICK c : /\ c.maj = call.maj
                   /\ \/ HopOrRestart(c)
                      \/ GrowAndGoTo(c, "case2")
                      \/ /\ majors[call.maj].first = Null \/ Gap(call.maj, Null) >= Need(call.req)
                         /\ Place(call.maj, Null)
                      \/ UNCHANGED <<majors, minors>>
      <3>1. PICK d : d = [call EXCEPT !.best = IF call.best < Unused(call.maj) THEN Unused(call.maj) ELSE @]
        OBVIOUS
      <3>2. d.maj = call.maj
        BY <1>0, <3>1 DEF CallOK, IsCall
      <3>3. QED
        BY <1>3, <3>1, <3>2 DEF LookAtMajor
    <2>4. CASE HopOrRestart(c)
      BY <2>4 DEF HopOrRestart, Changed
    <2>5. CASE GrowAndGoTo(c, "case2")
      BY <2>1, <2>2, <2>3, <2>5, GrowChanges
    <2>6. CASE /\ majors[call.maj].first = Null \/ Gap(call.maj, Null) >= Need(call.req)
               /\ Place(call.maj, Null)
      <3>1. RoomAt(majors, minors, call.maj, Null, GapStart(call.maj, Null), GapNext(call.maj, Null), call.req)
        BY <2>1, <2>6, RoomAtStart
      <3>2. QED
        BY <2>1, <2>6, <3>1, PlaceChanges
    <2>7. QED
      BY <2>3, <2>4, <2>5, <2>6 DEF Changed
  <1>4. CASE UseNewMajor
    <2>1. call.at = "case2" /\ Searching(call) /\ Place(call.maj, Null)
      BY <1>4 DEF UseNewMajor, Searching
    <2>2. RoomAt(majors, minors, call.maj, Null, GapStart(call.maj, Null), GapNext(call.maj, Null), call.req)
      BY <2>1, RoomInNewMajor
    <2>3. QED
      BY <2>1, <2>2, PlaceChanges
  <1>5. CASE LookAtMinor
    <2>1. call.at = "case4" /\ Searching(call)
      BY <1>5 DEF LookAtMinor, Searching
    <2>2. call.maj \in DOMAIN majors
      BY <1>0, <2>1 DEF CallOK
    <2>3. PICK c : /\ c.maj = call.maj
                   /\ \/ HopOrRestart(c)
                      \/ GrowAndGoTo(c, "major")
                      \/ Gap(call.maj, call.min) >= Need(call.req) /\ Place(call.maj, call.min)
                      \/ UNCHANGED <<majors, minors>>
      <3>1. PICK d : d = [call EXCEPT !.min = Null]
        OBVIOUS
      <3>2. d.maj = call.maj
        BY <1>0, <3>1 DEF CallOK, IsCall
      <3>3. QED
        BY <1>5, <3>1, <3>2 DEF LookAtMinor
    <2>4. CASE HopOrRestart(c)
      BY <2>4 DEF HopOrRestart, Changed
    <2>5. CASE GrowAndGoTo(c, "major")
      BY <2>1, <2>2, <2>3, <2>5, GrowChanges
    <2>6. CASE Gap(call.maj, call.min) >= Need(call.req) /\ Place(call.maj, call.min)
      <3>1. PICK m : m = call.min
        OBVIOUS
      <3>2. RoomAt(majors, minors, call.maj, m, GapStart(call.maj, m), GapNext(call.maj, m), call.req)
        BY <2>1, <2>6, <3>1, RoomBehindMinor
      <3>3. QED
        BY <2>1, <2>6, <3>1, <3>2, PlaceChanges
    <2>7. QED
      BY <2>3, <2>4, <2>5, <2>6 DEF Changed
  <1>6. CASE ReallocCopy
    <2>1. call.at = "copy" /\ FreeBlock(call.old)
      BY <1>6 DEF ReallocCopy
    <2>2. call.old \in DOMAIN pad
      BY <1>0, <2>1 DEF CallOK, Inv, LiveOK
    <2>3. QED
      BY <2>1, <2>2 DEF Changed
  <1>7. ASSUME NEW req \in Requests, Malloc(req) PROVE Changed
    BY <1>7 DEF Malloc, Changed
  <1>8. ASSUME NEW p \in DOMAIN live, Free(p) PROVE Changed
    <2>1. call.at = "idle" /\ FreeBlock(p)
      BY <1>8 DEF Free, Idle
    <2>2. p \in DOMAIN pad
      BY <2>1 DEF Inv, LiveOK
    <2>3. QED
      BY <2>1, <2>2 DEF Changed
  <1>9. ASSUME NEW p \in DOMAIN live, NEW req \in Resizes, Realloc(p, req) PROVE Changed
    <2>1. call.at = "idle"
      BY <1>9 DEF Realloc, Idle
    <2>2. p \in DOMAIN pad
      BY <2>1 DEF Inv, LiveOK
    <2>3. MinorOf(p) \in DOMAIN minors
      BY <1>0, <2>2 DEF PadOK, MinorOf, HeaderOf
    <2>4. \/ Free(p)
          \/ /\ majors' = majors /\ minors[MinorOf(p)].req >= req
             /\ minors' = Resized(minors, MinorOf(p), req)
          \/ UNCHANGED <<majors, minors>>
      BY <1>9 DEF Realloc, Resized
    <2>5. QED
      BY <1>8, <2>3, <2>4 DEF Changed
  <1>10. CASE UNCHANGED heapVars
    BY <1>10 DEF heapVars, Changed
  <1>11. QED
    BY <1>1, <1>2, <1>3, <1>4, <1>5, <1>6, <1>7, <1>8, <1>9, <1>10 DEF Next, SearchStep

LEMMA CountedStep ==
  ASSUME Inv, Counted(majors, minors), [Next]_heapVars
  PROVE  Counted(majors, minors)'
  <1>0. MajorOK(majors) /\ MinorsInv(majors, minors) /\ (Searching(call) => call.req \in Nat)
    BY DEF Inv, MajorsInv, CallOK
  <1>1. CASE UNCHANGED <<majors, minors>>
    BY <1>1
  <1>2. ASSUME NEW first \in HeapPages, NEW prev, NewMajor(first, prev), Searching(call), minors' = minors,
               \/ prev = Null /\ memRoot = Null
               \/ prev \in DOMAIN majors /\ majors[prev].next = Null
        PROVE  Counted(majors, minors)'
    BY <1>0, <1>2, NewMajorCounts
  <1>3. ASSUME NEW maj, NEW m, Place(maj, m),
               RoomAt(majors, minors, maj, m, GapStart(maj, m), GapNext(maj, m), call.req)
        PROVE  Counted(majors, minors)'
    BY <1>3, PlaceCounts
  <1>4. ASSUME NEW p \in DOMAIN pad, FreeBlock(p) PROVE Counted(majors, minors)'
    BY <1>4, FreeCounts
  <1>5. ASSUME NEW m \in DOMAIN minors, NEW req \in Resizes, majors' = majors, minors[m].req >= req,
               minors' = Resized(minors, m, req)
        PROVE  Counted(majors, minors)'
    <2>1. SameBlocks(minors, minors', m, req)
      BY <1>0, <1>5, MinorResized, Constants DEF Sizes
    <2>2. QED
      BY <1>0, <1>5, <2>1, CountedSame DEF SameBlocks
  <1>6. QED
    BY <1>1, <1>2, <1>3, <1>4, <1>5, NextChanges DEF Changed

-----------------------------------------------------------------------------
(* Blocks that do not overlap take up no more than the space they lie in. *)

LEMMA Packed ==
  ASSUME NEW mi, NEW S \in SUBSET Nat, IsFiniteSet(S), NEW hi \in Nat,
         \A m \in S : Weight(mi, m) \in Nat /\ Weight(mi, m) > 0 /\ m + Weight(mi, m) <= hi,
         \A m, n \in S : m < n => m + Weight(mi, m) <= n,
         NEW lo \in Nat, lo <= hi, \A m \in S : lo <= m
  PROVE  lo + Taken(mi, S) <= hi
  <1> DEFINE Over(s, l) == l <= hi /\ (\A m \in s : l <= m) /\ ~(l + Taken(mi, s) <= hi)
             Failing == {n \in Nat : \E s \in SUBSET S, l \in Nat : Cardinality(s) = n /\ Over(s, l)}
  <1>0. \A s \in SUBSET S : IsFiniteSet(s) /\ Cardinality(s) \in Nat
    BY FS_Subset, FS_CardinalityType
  <1>1. Failing = {}
    <2>1. SUFFICES ASSUME Failing # {} PROVE FALSE
      OBVIOUS
    <2>2. PICK n \in Failing : \A k \in Failing : n <= k
      BY <2>1, Least
    <2>3. PICK s \in SUBSET S, l \in Nat : Cardinality(s) = n /\ Over(s, l)
      BY <2>2
    <2>4. s # {}
      <3>1. Taken(mi, {}) = 0
        BY TakenPicked, FS_EmptySet
      <3>2. QED
        BY <2>3, <3>1
    <2>5. PICK m \in s : \A k \in s : m <= k
      BY <2>4, Least
    <2> DEFINE r == s \ {m}
               w == Weight(mi, m)
    <2>6. m \in Nat /\ w \in Nat /\ w > 0 /\ m + w <= hi /\ l <= m
      BY <2>3
    <2>7. r \in SUBSET S /\ Cardinality(r) \in Nat /\ Cardinality(r) < n
      BY <1>0, <2>3, FS_RemoveElement
    <2>8. \A x \in r : m + w <= x
      <3>1. TAKE x \in r
      <3>2. x \in Nat /\ x \in S /\ m < x
        BY <2>5
      <3>3. QED
        BY <3>2
    <2>9. Cardinality(r) \notin Failing
      <3>1. n \in Nat
        BY <2>2
      <3> HIDE DEF Failing, r
      <3>2. QED
        BY <2>2, <2>7, <3>1
    <2>10. ~Over(r, m + w)
      <3> HIDE DEF Over, r
      <3>1. m + w \in Nat
        BY <2>6
      <3>2. QED
        BY <2>7, <2>9, <3>1
    <2>11. m + w + Taken(mi, r) <= hi
      <3> HIDE DEF r, w
      <3>1. QED
        BY <2>6, <2>8, <2>10
    <2>12. Taken(mi, s) = w + Taken(mi, r) /\ Taken(mi, r) \in Nat
      <3>1. IsFiniteSet(s) /\ \A x \in s : Weight(mi, x) \in Nat
        BY <1>0
      <3>2. IsFiniteSet(r) /\ \A x \in r : Weight(mi, x) \in Nat
        BY <1>0, <2>7
      <3>3. \A x \in s : Taken(mi, s) = Weight(mi, x) + Taken(mi, s \ {x})
        BY <3>1, TakenOne
      <3>4. Taken(mi, s) = w + Taken(mi, r)
        BY <3>3
      <3> HIDE DEF r
      <3>5. Taken(mi, r) \in Nat
        BY <3>2, TakenOne
      <3>6. QED
        BY <3>4, <3>5
    <2>13. l <= hi /\ ~(l + Taken(mi, s) <= hi)
      BY <2>3
    <2> HIDE DEF r, w
    <2>14. QED
      BY <2>6, <2>11, <2>12, <2>13
  <1>2. ~Over(S, lo)
    <2>1. Cardinality(S) \in Nat /\ Cardinality(S) \notin Failing /\ S \in SUBSET S
      BY <1>0, <1>1
    <2> HIDE DEF Over
    <2>2. QED
      BY <2>1
  <1>3. QED
    BY <1>2

LEMMA UsageFits ==
  ASSUME NEW ma, NEW mi, MajorOK(ma), MinorsInv(ma, mi), Counted(ma, mi), NEW x \in DOMAIN ma,
         MajorSize <= ma[x].size
  PROVE  ma[x].usage \in MajorSize .. ma[x].size
  <1>1. x \in Nat /\ ma[x].size \in Nat
    BY MajorFacts
  <1>2. PICK S : S = Mine(mi, x)
    OBVIOUS
  <1>3. IsFiniteSet(S) /\ \A m \in S : Weight(mi, m) \in Nat
    BY <1>2, MineFinite
  <1>4. \A m \in S : /\ m \in Nat /\ mi[m].size \in Nat /\ m + Weight(mi, m) = End(mi, m)
                     /\ End(mi, m) <= x + ma[x].size /\ x + MajorSize <= m /\ m \in DOMAIN mi
    <2>1. TAKE m \in S
    <2>2. m \in DOMAIN mi /\ mi[m].block = x
      BY <1>2 DEF Mine
    <2>3. m \in Nat /\ mi[m].size \in Nat /\ End(mi, m) <= x + ma[x].size /\ x + MajorSize <= m
      BY <2>2, MinorFacts
    <2>4. QED
      BY <2>2, <2>3, Constants DEF Weight, End
  <1>5. \A m \in S : Weight(mi, m) > 0 /\ m + Weight(mi, m) <= x + ma[x].size
    BY <1>3, <1>4, Constants DEF Weight
  <1>6. \A m, n \in S : m < n => m + Weight(mi, m) <= n
    BY <1>2, <1>4 DEF MinorsInv, MinorsApart, Mine
  <1>7. PICK lo \in Nat : lo = x + MajorSize
    BY <1>1, Constants
  <1>8. PICK hi \in Nat : hi = x + ma[x].size
    BY <1>1
  <1>9. lo + Taken(mi, S) <= hi
    <2>1. S \in SUBSET Nat
      BY <1>4
    <2>2. lo <= hi /\ \A m \in S : lo <= m
      BY <1>1, <1>4, <1>7, <1>8, Constants
    <2>3. \A m \in S : Weight(mi, m) \in Nat /\ Weight(mi, m) > 0 /\ m + Weight(mi, m) <= hi
      BY <1>3, <1>5, <1>8
    <2>4. QED
      BY <1>3, <1>6, <2>1, <2>2, <2>3, Packed
  <1>10. Taken(mi, S) \in Nat
    BY <1>3, TakenOne
  <1>11. ma[x].usage = MajorSize + Taken(mi, S)
    BY <1>2 DEF Counted
  <1>12. QED
    BY <1>1, <1>7, <1>8, <1>9, <1>10, <1>11, Constants

(* A major with less unused space than the request needs has no gap for    *)
(* it, so that CASE 1 may skip it.                                         *)
LEMMA NoRoomNoGap ==
  ASSUME Inv, Counted(majors, minors), NEW maj \in DOMAIN majors,
         NEW req \in Nat, req \in Sizes, Unused(maj) < Need(req),
         NEW m, m = Null \/ m \in Mine(minors, maj)
  PROVE  Gap(maj, m) < Need(req)
  <1>1. /\ MajorOK(majors) /\ MajorsApart(majors) /\ MinorsInv(majors, minors)
        /\ MajorsInv(majors, memRoot, runs)
    BY DEF Inv, MajorsInv
  <1>2. Need(req) \in Nat /\ majors[maj].size \in Nat /\ majors[maj].usage \in Int
    BY <1>1, PagesSuffice, MajorFacts DEF MajorOK
  <1>3. ASSUME Gap(maj, m) >= Need(req) PROVE FALSE
    <2>1. PICK a : a = GapStart(maj, m)
      OBVIOUS
    <2>2. PICK next : next = GapNext(maj, m)
      OBVIOUS
    <2>3. RoomAt(majors, minors, maj, m, a, next, req)
      BY <1>3, <2>1, <2>2, GapIsRoom
    <2>4. PICK mi2 : mi2 = InsertMinor(minors, maj, m, a, next, req)
      OBVIOUS
    <2>5. PICK ma2 : ma2 = CountMinor(majors, maj, m, a, req)
      OBVIOUS
    <2>6. MinorsInv(ma2, mi2) /\ Counted(ma2, mi2)
      BY <1>1, <2>3, <2>4, <2>5, MinorPlaced, CountedOneMore
    <2>7. SameMajors(majors, ma2) /\ ma2[maj].usage = majors[maj].usage + Need(req)
      BY <1>1, <2>5, MajorCounted
    <2>8. MajorOK(ma2) /\ maj \in DOMAIN ma2 /\ ma2[maj].size = majors[maj].size
      BY <1>1, <2>7, MajorsSame DEF MajorsInv, SameMajors
    <2>9. MajorSize <= ma2[maj].size
      BY <2>8, MajorHoldsHeader
    <2>10. ma2[maj].usage \in MajorSize .. ma2[maj].size
      BY <2>6, <2>8, <2>9, UsageFits
    <2>11. QED
      BY <1>2, <2>7, <2>8, <2>10, Constants DEF Unused
  <1>4. Gap(maj, m) \in Int
    <2>1. maj \in Nat
      BY <1>1, MajorFacts
    <2>2. GapStart(maj, m) \in Int
      BY <1>1, <2>1, MinorFacts, Constants DEF GapStart, Mine
    <2>3. \A z \in Mine(minors, maj) : z \in Nat /\ z \in DOMAIN minors /\ minors[z].block = maj
      BY <1>1, MinorFacts DEF Mine
    <2>4. NextIn(Mine(minors, maj), Null, majors[maj].first)
      BY <1>1 DEF MinorsInv, Chained
    <2>5. m # Null => NextIn(Mine(minors, maj), m, minors[m].next)
      BY <1>1, <2>3 DEF MinorsInv, Chained
    <2>6. GapNext(maj, m) \in Int
      BY <2>3, <2>4, <2>5, Constants DEF GapNext, NextIn
    <2>7. QED
      BY <1>2, <2>1, <2>2, <2>6 DEF Gap
  <1>5. QED
    BY <1>2, <1>3, <1>4

-----------------------------------------------------------------------------
(* malloc gives up only after it has seen every major full. *)

Full(x, req) == \A m \in {Null} \cup Mine(minors, x) : Gap(x, m) < Need(req)

(* The majors that the search has passed since it was last at l_memRoot.   *)
Passed(seen, maj, req) ==
  /\ seen \subseteq DOMAIN majors
  /\ memRoot \in seen \cup {maj}
  /\ \A x \in seen : Full(x, req) /\ majors[x].next \in seen \cup {maj}

(* A search that did not begin at the best bet, or has come back from it,  *)
(* has left nothing out: neither a major nor, in the present one, a gap.   *)
NothingSkipped ==
  call.at \in {"major", "case4"} /\ ~call.bet =>
    /\ \E seen \in SUBSET DOMAIN majors : Passed(seen, call.maj, call.req)
    /\ call.at = "case4" =>
         \A m \in {Null} \cup Mine(minors, call.maj) : m < call.min => Gap(call.maj, m) < Need(call.req)

(* The list of majors is all there is. *)
LEMMA ListCovers ==
  ASSUME NEW ma, NEW root, NEW rs, MajorsInv(ma, root, rs), NEW T \in SUBSET DOMAIN ma, root \in T,
         \A x \in T : ma[x].next = Null \/ ma[x].next \in T
  PROVE  T = DOMAIN ma
  <1>1. PICK nx : nx = [x \in DOMAIN ma |-> ma[x].next]
    OBVIOUS
  <1>2. \A x \in T : nx[x] = Null \/ nx[x] \in T
    BY <1>1
  <1>3. PICK pv, rank : ListOf(DOMAIN ma, root, nx, pv, rank)
    BY <1>1, MajorsAreList
  <1>4. QED
    BY <1>2, <1>3, ClosedIsAll

LEMMA GapUnchanged ==
  ASSUME minors' = minors, NEW x, majors'[x].size = majors[x].size, majors'[x].first = majors[x].first,
         NEW req, Full(x, req)
  PROVE  Full(x, req)'
  BY DEF Full, Gap, GapNext, GapStart

(* Hop: the major that was looked at last is passed. *)
LEMMA PassedOneMore ==
  ASSUME NEW seen, NEW maj, NEW req, Passed(seen, maj, req), maj \in DOMAIN majors, Full(maj, req),
         NEW next, majors[maj].next = next
  PROVE  Passed(seen \cup {maj}, next, req)
  BY DEF Passed

(* What NothingSkipped asks of the call after a hop, in the next state. *)
LEMMA SkipsNothing ==
  ASSUME NEW seen, NEW maj, NEW req, Passed(seen, maj, req)', call'.maj = maj, call'.req = req,
         call'.at \in {"major", "case2"}
  PROVE  NothingSkipped'
  BY DEF NothingSkipped, Passed

LEMMA HopSkipsNothing ==
  ASSUME Inv, call.at \in {"major", "case4"}, NothingSkipped, ~call.bet => Full(call.maj, call.req),
         NEW c, IsCall(c), c.req = call.req, c.maj = call.maj, c.bet = call.bet, HopOrRestart(c)
  PROVE  NothingSkipped'
  <1>1. call.maj \in DOMAIN majors /\ MajorsInv(majors, memRoot, runs)
    BY DEF Inv, CallOK
  <1>2. UNCHANGED <<majors, minors, memRoot>>
    BY DEF HopOrRestart
  <1>3. PICK maj : maj = call.maj
    OBVIOUS
  <1>4. PICK req : req = call.req
    OBVIOUS
  <1>5. PICK next : next = majors[maj].next
    OBVIOUS
  <1>6. PICK root : root = memRoot
    OBVIOUS
  <1>7. CASE call' = [c EXCEPT !.at = "major", !.maj = majors[c.maj].next]
    <2>1. call' = [at |-> "major", req |-> c.req, old |-> c.old, maj |-> next, min |-> c.min,
                   bet |-> c.bet, best |-> c.best]
      BY <1>3, <1>5, <1>7 DEF IsCall
    <2>2. call'.at = "major" /\ call'.req = req /\ call'.bet = call.bet /\ call'.maj = next
      BY <1>4, <2>1
    <2>3. CASE call.bet
      BY <2>2, <2>3 DEF NothingSkipped
    <2>4. CASE ~call.bet
      <3>1. PICK seen \in SUBSET DOMAIN majors : Passed(seen, maj, req)
        BY <1>3, <1>4, <2>4 DEF NothingSkipped
      <3>2. Passed(seen \cup {maj}, next, req)
        BY <1>1, <1>3, <1>4, <1>5, <2>4, <3>1, PassedOneMore
      <3>3. Passed(seen \cup {maj}, next, req)'
        BY <1>2, <3>2 DEF Passed, Full, Gap, GapNext, GapStart
      <3>4. QED
        BY <2>2, <3>3, SkipsNothing
    <2>5. QED
      BY <2>3, <2>4
  <1>8. CASE call' = [c EXCEPT !.at = "major", !.maj = memRoot, !.bet = FALSE]
    <2>1. call' = [at |-> "major", req |-> c.req, old |-> c.old, maj |-> root, min |-> c.min,
                   bet |-> FALSE, best |-> c.best]
      BY <1>6, <1>8 DEF IsCall
    <2>2. call'.at = "major" /\ call'.maj = root /\ call'.req = req
      BY <1>4, <2>1
    <2>3. Passed({}, root, req)'
      BY <1>2, <1>6 DEF Passed
    <2>4. QED
      BY <2>2, <2>3, SkipsNothing
  <1>9. QED
    BY <1>7, <1>8 DEF HopOrRestart

LEMMA GrowSkipsNothing ==
  ASSUME Inv, call.at \in {"major", "case4"}, NothingSkipped, ~call.bet => Full(call.maj, call.req), call.req \in Nat,
         NEW c, IsCall(c), c.req = call.req, c.maj = call.maj, c.bet = call.bet,
         NEW first \in HeapPages, NewMajor(first, c.maj), AtLastMajor(c), NEW label \in {"major", "case2"},
         call' = [c EXCEPT !.at = label, !.maj = first * PageSize], UNCHANGED <<minors, memRoot>>
  PROVE  NothingSkipped'
  <1>0. PICK old : old = call.maj
    OBVIOUS
  <1>1. old \in DOMAIN majors /\ MajorsInv(majors, memRoot, runs) /\ MajorOK(majors)
    BY <1>0 DEF Inv, CallOK, MajorsInv
  <1>2. ~call.bet /\ majors[old].next = Null
    BY <1>0 DEF AtLastMajor
  <1>3. PICK req : req = call.req
    OBVIOUS
  <1>4. PICK n : n = PagesFor(Size(call.req))
    OBVIOUS
  <1>5. PICK maj : maj = first * PageSize
    OBVIOUS
  <1>6. n \in Nat \ {0}
    BY <1>4, PagesSuffice
  <1>7. first \in FreeRuns(n) /\ majors' = AddMajor(majors, maj, n, old)
    BY <1>0, <1>4, <1>5 DEF NewMajor, IsFirstRun, AddMajor, NewHeader
  <1>8. FreePages(runs, first, n)
    BY <1>7 DEF FreeRuns, FreePages
  <1>9. OneMore(majors, majors', maj, n)
    BY <1>1, <1>2, <1>5, <1>6, <1>7, <1>8, MajorAdded
  <1>10. /\ majors'[old].next = maj
         /\ \A x \in DOMAIN majors : x # old => majors'[x].next = majors[x].next
    <2>1. IsMajor(majors[old]) /\ Null \notin DOMAIN majors /\ maj \notin DOMAIN majors
      BY <1>1, <1>9, MajorFacts, Constants DEF MajorOK, OneMore
    <2>2. \A x \in DOMAIN majors : majors'[x] = [majors EXCEPT ![old].next = maj][x]
      BY <1>1, <1>7, <2>1 DEF AddMajor, With
    <2>3. [majors[old] EXCEPT !.next = maj].next = maj
      BY <2>1 DEF IsMajor
    <2>4. QED
      BY <1>1, <2>2, <2>3
  <1>11. call' = [at |-> label, req |-> c.req, old |-> c.old, maj |-> maj, min |-> c.min,
                  bet |-> c.bet, best |-> c.best]
    BY <1>5 DEF IsCall
  <1>12. call'.at = label /\ call'.req = req /\ call'.maj = maj
    <2>1. call'.at = label /\ call'.req = c.req /\ call'.maj = maj
      BY ONLY <1>11
    <2>2. QED
      BY <1>3, <2>1
  <1>13. PICK seen \in SUBSET DOMAIN majors : Passed(seen, old, req)
    BY <1>0, <1>2, <1>3 DEF NothingSkipped
  <1>14. Passed(seen \cup {old}, maj, req)'
    <2>1. ASSUME NEW x \in seen \cup {old} PROVE Full(x, req)'
      BY <1>0, <1>1, <1>2, <1>3, <1>9, <1>13, GapUnchanged DEF Passed, OneMore
    <2>2. \A x \in seen \cup {old} : majors'[x].next \in seen \cup {old} \cup {maj}
      BY <1>10, <1>13 DEF Passed
    <2>3. seen \cup {old} \subseteq DOMAIN majors'
      BY <1>1, <1>9 DEF OneMore
    <2>4. memRoot' \in seen \cup {old} \cup {maj}
      BY <1>13 DEF Passed
    <2>5. QED
      BY <2>1, <2>2, <2>3, <2>4 DEF Passed
  <1>15. QED
    BY <1>12, <1>14, SkipsNothing

(* The last gap of a major has been looked at. *)
LEMMA LastGap ==
  ASSUME Inv, call.at = "case4", NothingSkipped, Gap(call.maj, call.min) < Need(call.req),
         minors[call.min].next = Null, ~call.bet
  PROVE  Full(call.maj, call.req)
  <1>1. MajorOK(majors) /\ MinorsInv(majors, minors) /\ CallOK(majors, minors, pad, live, call)
    BY DEF Inv, MajorsInv
  <1>2. call.maj \in DOMAIN majors /\ call.min \in Mine(minors, call.maj)
    BY <1>1 DEF CallOK
  <1>3. \A z \in Mine(minors, call.maj) : z \in Nat /\ z > 0
    BY <1>1, MinorFacts DEF Mine
  <1>4. NextIn(Mine(minors, call.maj), call.min, Null)
    BY <1>1, <1>2 DEF MinorsInv, Chained, Mine
  <1>5. \A z \in Mine(minors, call.maj) : z <= call.min
    BY <1>2, <1>3, <1>4, Constants DEF NextIn
  <1>6. \A z \in {Null} \cup Mine(minors, call.maj) : z = call.min \/ z < call.min
    BY <1>2, <1>3, <1>5, Constants
  <1>7. QED
    BY <1>6 DEF NothingSkipped, Full

(* Every major is full when allocate_new_page is called. *)
LEMMA AllFull ==
  ASSUME Inv, call.at \in {"major", "case4"}, NothingSkipped, ~call.bet, Full(call.maj, call.req),
         majors[call.maj].next = Null
  PROVE  \A x \in DOMAIN majors : Full(x, call.req)
  <1>1. call.maj \in DOMAIN majors /\ MajorsInv(majors, memRoot, runs)
    BY DEF Inv, CallOK
  <1>2. PICK seen \in SUBSET DOMAIN majors : Passed(seen, call.maj, call.req)
    BY DEF NothingSkipped
  <1>3. PICK T : T = seen \cup {call.maj}
    OBVIOUS
  <1>4. T \in SUBSET DOMAIN majors /\ memRoot \in T /\ \A x \in T : majors[x].next = Null \/ majors[x].next \in T
    BY <1>1, <1>2, <1>3 DEF Passed
  <1>5. T = DOMAIN majors
    BY <1>1, <1>4, ListCovers
  <1>6. QED
    BY <1>2, <1>3, <1>5 DEF Passed

(* What the search knows when it leaves a major, whichever loop it is in.  *)
Leaves(c) ==
  /\ IsCall(c) /\ c.req = call.req /\ c.maj = call.maj /\ c.bet = call.bet /\ c.old = call.old
  /\ call.at \in {"major", "case4"}
  /\ ~call.bet => Full(call.maj, call.req)

(* malloc's steps, as far as the search is concerned. *)
LEMMA MajorLooked ==
  ASSUME Inv, Counted(majors, minors), LookAtMajor
  PROVE  \E c : \/ Leaves(c) /\ HopOrRestart(c)
                \/ Leaves(c) /\ GrowAndGoTo(c, "case2")
                \/ /\ majors[call.maj].first = Null \/ Gap(call.maj, Null) >= Need(call.req)
                   /\ Place(call.maj, Null)
                \/ /\ Gap(call.maj, Null) < Need(call.req)
                   /\ call' = [c EXCEPT !.at = "case4", !.min = majors[call.maj].first]
                   /\ IsCall(c) /\ c.req = call.req /\ c.maj = call.maj /\ c.bet = call.bet
                   /\ UNCHANGED <<majors, minors, memRoot, pad, runs, live>>
  <1>1. /\ call.at = "major" /\ CallOK(majors, minors, pad, live, call)
    BY DEF LookAtMajor, Inv
  <1>2. call.maj \in DOMAIN majors /\ call.req \in Nat /\ call.req \in Sizes /\ IsCall(call)
    BY <1>1 DEF CallOK, Searching
  <1>3. PICK best : best = IF call.best < Unused(call.maj) THEN Unused(call.maj) ELSE call.best
    OBVIOUS
  <1>4. PICK c : c = [call EXCEPT !.best = best]
    OBVIOUS
  <1>5. c = [at |-> call.at, req |-> call.req, old |-> call.old, maj |-> call.maj, min |-> call.min,
             bet |-> call.bet, best |-> best]
    BY <1>2, <1>4 DEF IsCall
  <1>6. IsCall(c) /\ c.req = call.req /\ c.old = call.old /\ c.maj = call.maj /\ c.bet = call.bet /\ c.at = "major"
    BY <1>1, <1>5 DEF IsCall
  <1>7. Unused(call.maj) < Need(call.req) => Leaves(c)
    <2>1. ASSUME Unused(call.maj) < Need(call.req), NEW m \in {Null} \cup Mine(minors, call.maj)
          PROVE  Gap(call.maj, m) < Need(call.req)
      BY <1>2, <2>1, NoRoomNoGap
    <2>2. QED
      BY <1>1, <1>6, <2>1 DEF Leaves, Full
  <1>8. c = [call EXCEPT !.best = IF call.best < Unused(call.maj) THEN Unused(call.maj) ELSE @]
    BY <1>3, <1>4
  <1>9. QED
    BY <1>6, <1>7, <1>8 DEF LookAtMajor

LEMMA MinorLooked ==
  ASSUME Inv, NothingSkipped, LookAtMinor
  PROVE  \E c : \/ Leaves(c) /\ HopOrRestart(c)
                \/ Leaves(c) /\ GrowAndGoTo(c, "major")
                \/ Gap(call.maj, call.min) >= Need(call.req) /\ Place(call.maj, call.min)
                \/ /\ Gap(call.maj, call.min) < Need(call.req)
                   /\ minors[call.min].next # Null
                   /\ call' = [c EXCEPT !.min = minors[call.min].next]
                   /\ c = call
                   /\ UNCHANGED <<majors, minors, memRoot, pad, runs, live>>
  <1>1. /\ call.at = "case4" /\ CallOK(majors, minors, pad, live, call)
    BY DEF LookAtMinor, Inv
  <1>2. IsCall(call)
    BY <1>1 DEF CallOK
  <1>3. PICK c : c = [call EXCEPT !.min = Null]
    OBVIOUS
  <1>4. c = [at |-> call.at, req |-> call.req, old |-> call.old, maj |-> call.maj, min |-> Null,
             bet |-> call.bet, best |-> call.best]
    BY <1>2, <1>3 DEF IsCall
  <1>5. IsCall(c) /\ c.req = call.req /\ c.old = call.old /\ c.maj = call.maj /\ c.bet = call.bet
    BY <1>4 DEF IsCall
  <1>6. Gap(call.maj, call.min) < Need(call.req) /\ minors[call.min].next = Null => Leaves(c)
    BY <1>1, <1>5, LastGap DEF Leaves
  <1>7. \/ Gap(call.maj, call.min) >= Need(call.req) /\ Place(call.maj, call.min)
        \/ /\ Gap(call.maj, call.min) < Need(call.req)
           /\ minors[call.min].next # Null
           /\ call' = [call EXCEPT !.min = minors[call.min].next]
           /\ UNCHANGED <<majors, minors, memRoot, pad, runs, live>>
        \/ Leaves(c) /\ HopOrRestart(c)
        \/ Leaves(c) /\ GrowAndGoTo(c, "major")
    BY <1>3, <1>6 DEF LookAtMinor
  <1>8. QED
    BY <1>1, <1>7

LEMMA ReturnEnds ==
  ASSUME Inv, NEW p, Return(p)
  PROVE  call'.at \in {"idle", "copy"}
  <1>1. IsCall(call)
    BY DEF Inv, CallOK
  <1>2. CASE call' = Idle
    BY <1>2 DEF Idle
  <1>3. CASE call' = [call EXCEPT !.at = "copy", !.min = p]
    <2>1. call' = [at |-> "copy", req |-> call.req, old |-> call.old, maj |-> call.maj, min |-> p,
                   bet |-> call.bet, best |-> call.best]
      BY <1>1, <1>3 DEF IsCall
    <2>2. QED
      BY ONLY <2>1
  <1>4. QED
    BY <1>2, <1>3 DEF Return

LEMMA StartSkipsNothing ==
  ASSUME Inv, StartSearch
  PROVE  NothingSkipped'
  <1>1. IsCall(call) /\ call.at = "start" /\ UNCHANGED <<majors, minors, memRoot>>
    BY DEF Inv, CallOK, StartSearch
  <1>2. PICK best : best = IF bestBet = Null THEN 0 ELSE Unused(bestBet)
    OBVIOUS
  <1>3. PICK bet : bet = (best > Need(call.req))
    OBVIOUS
  <1>4. PICK maj : maj = IF bet THEN bestBet ELSE memRoot
    OBVIOUS
  <1>5. PICK req : req = call.req
    OBVIOUS
  <1>6. call' = [call EXCEPT !.at = "major", !.maj = maj, !.bet = bet, !.best = best]
    BY <1>2, <1>3, <1>4 DEF StartSearch
  <1>7. call' = [at |-> "major", req |-> call.req, old |-> call.old, maj |-> maj, min |-> call.min,
                 bet |-> bet, best |-> best]
    BY <1>1, <1>6 DEF IsCall
  <1>8. call'.at = "major" /\ call'.req = call.req /\ call'.maj = maj /\ call'.bet = bet
    BY ONLY <1>7
  <1>9. CASE bet
    BY <1>8, <1>9 DEF NothingSkipped
  <1>10. CASE ~bet
    <2>1. Passed({}, maj, req)'
      BY <1>1, <1>4, <1>10 DEF Passed
    <2>2. QED
      BY <1>5, <1>8, <2>1, SkipsNothing
  <1>11. QED
    BY <1>9, <1>10

LEMMA MajorSkipsNothing ==
  ASSUME Inv, Counted(majors, minors), NothingSkipped, LookAtMajor
  PROVE  NothingSkipped'
  <1>1. /\ call.at = "major" /\ call.maj \in DOMAIN majors /\ call.req \in Nat
        /\ MajorOK(majors) /\ MinorsInv(majors, minors)
    BY DEF LookAtMajor, Inv, CallOK, Searching, MajorsInv
  <1>2. PICK c : \/ Leaves(c) /\ HopOrRestart(c)
                 \/ Leaves(c) /\ GrowAndGoTo(c, "case2")
                 \/ /\ majors[call.maj].first = Null \/ Gap(call.maj, Null) >= Need(call.req)
                    /\ Place(call.maj, Null)
                 \/ /\ Gap(call.maj, Null) < Need(call.req)
                    /\ call' = [c EXCEPT !.at = "case4", !.min = majors[call.maj].first]
                    /\ IsCall(c) /\ c.req = call.req /\ c.maj = call.maj /\ c.bet = call.bet
                    /\ UNCHANGED <<majors, minors, memRoot, pad, runs, live>>
    BY MajorLooked
  <1>3. CASE Leaves(c) /\ HopOrRestart(c)
    BY <1>1, <1>3, HopSkipsNothing DEF Leaves
  <1>4. CASE Leaves(c) /\ GrowAndGoTo(c, "case2")
    <2>1. ASSUME NEW first \in HeapPages, NewMajor(first, c.maj),
                 call' = [c EXCEPT !.at = "case2", !.maj = first * PageSize]
          PROVE  NothingSkipped'
      BY <1>1, <1>4, <2>1, GrowSkipsNothing DEF Leaves, GrowAndGoTo
    <2>2. CASE NoPages
      BY <2>2, ReturnEnds DEF NoPages, NothingSkipped
    <2>3. QED
      BY <1>4, <2>1, <2>2 DEF GrowAndGoTo
  <1>5. CASE Place(call.maj, Null)
    BY <1>5, ReturnEnds DEF Place, NothingSkipped
  <1>6. CASE /\ Gap(call.maj, Null) < Need(call.req)
             /\ call' = [c EXCEPT !.at = "case4", !.min = majors[call.maj].first]
             /\ IsCall(c) /\ c.req = call.req /\ c.maj = call.maj /\ c.bet = call.bet
             /\ UNCHANGED <<majors, minors, memRoot, pad, runs, live>>
    <2>1. PICK maj : maj = call.maj
      OBVIOUS
    <2>2. PICK min : min = majors[maj].first
      OBVIOUS
    <2>3. PICK req : req = call.req
      OBVIOUS
    <2>4. call' = [at |-> "case4", req |-> c.req, old |-> c.old, maj |-> c.maj, min |-> min,
                   bet |-> c.bet, best |-> c.best]
      BY <1>6, <2>1, <2>2 DEF IsCall
    <2>5. call'.at = "case4" /\ call'.req = c.req /\ call'.maj = c.maj /\ call'.bet = c.bet /\ call'.min = min
      BY ONLY <2>4
    <2>6. NextIn(Mine(minors, maj), Null, min)
      BY <1>1, <2>1, <2>2 DEF MinorsInv, Chained
    <2>7. \A z \in Mine(minors, maj) : z \in Nat /\ z > 0
      BY <1>1, MinorFacts DEF Mine
    <2>8. \A m \in {Null} \cup Mine(minors, maj) : m < min => m = Null
      BY <2>6, <2>7, Constants DEF NextIn
    <2>9. \A m \in {Null} \cup Mine(minors, maj) : m < min => Gap(maj, m) < Need(req)
      BY <1>6, <2>1, <2>3, <2>8
    <2>10. \A m \in {Null} \cup Mine(minors', maj) : m < min => Gap(maj, m)' < Need(req)
      BY <1>6, <2>9 DEF Gap, GapNext, GapStart
    <2>11. CASE call.bet
      BY <1>6, <2>5, <2>11 DEF NothingSkipped
    <2>12. CASE ~call.bet
      <3>1. PICK seen \in SUBSET DOMAIN majors : Passed(seen, maj, req)
        BY <1>1, <2>1, <2>3, <2>12 DEF NothingSkipped
      <3>2. Passed(seen, maj, req)' /\ seen \in SUBSET DOMAIN majors'
        BY <1>6, <3>1 DEF Passed, Full, Gap, GapNext, GapStart
      <3>3. call'.maj = maj /\ call'.req = req
        BY <1>6, <2>1, <2>3, <2>5
      <3>4. QED
        BY <2>5, <2>10, <3>2, <3>3 DEF NothingSkipped
    <2>13. QED
      BY <2>11, <2>12
  <1>7. QED
    BY <1>2, <1>3, <1>4, <1>5, <1>6

LEMMA MinorSkipsNothing ==
  ASSUME Inv, NothingSkipped, LookAtMinor
  PROVE  NothingSkipped'
  <1>1. /\ call.at = "case4" /\ call.maj \in DOMAIN majors /\ call.req \in Nat
        /\ call.min \in Mine(minors, call.maj) /\ IsCall(call)
        /\ MajorOK(majors) /\ MinorsInv(majors, minors)
    BY DEF LookAtMinor, Inv, CallOK, Searching, MajorsInv
  <1>2. PICK c : \/ Leaves(c) /\ HopOrRestart(c)
                 \/ Leaves(c) /\ GrowAndGoTo(c, "major")
                 \/ Gap(call.maj, call.min) >= Need(call.req) /\ Place(call.maj, call.min)
                 \/ /\ Gap(call.maj, call.min) < Need(call.req)
                    /\ minors[call.min].next # Null
                    /\ call' = [c EXCEPT !.min = minors[call.min].next]
                    /\ c = call
                    /\ UNCHANGED <<majors, minors, memRoot, pad, runs, live>>
    BY MinorLooked
  <1>3. CASE Leaves(c) /\ HopOrRestart(c)
    BY <1>1, <1>3, HopSkipsNothing DEF Leaves
  <1>4. CASE Leaves(c) /\ GrowAndGoTo(c, "major")
    <2>1. ASSUME NEW first \in HeapPages, NewMajor(first, c.maj),
                 call' = [c EXCEPT !.at = "major", !.maj = first * PageSize]
          PROVE  NothingSkipped'
      BY <1>1, <1>4, <2>1, GrowSkipsNothing DEF Leaves, GrowAndGoTo
    <2>2. CASE NoPages
      BY <2>2, ReturnEnds DEF NoPages, NothingSkipped
    <2>3. QED
      BY <1>4, <2>1, <2>2 DEF GrowAndGoTo
  <1>5. CASE Place(call.maj, call.min)
    BY <1>5, ReturnEnds DEF Place, NothingSkipped
  <1>6. CASE /\ Gap(call.maj, call.min) < Need(call.req)
             /\ minors[call.min].next # Null
             /\ call' = [call EXCEPT !.min = minors[call.min].next]
             /\ UNCHANGED <<majors, minors, memRoot, pad, runs, live>>
    <2>1. PICK maj : maj = call.maj
      OBVIOUS
    <2>2. PICK min : min = minors[call.min].next
      OBVIOUS
    <2>3. PICK req : req = call.req
      OBVIOUS
    <2>4. call' = [at |-> call.at, req |-> call.req, old |-> call.old, maj |-> call.maj, min |-> min,
                   bet |-> call.bet, best |-> call.best]
      BY <1>1, <1>6, <2>2 DEF IsCall
    <2>5. /\ call'.at = call.at /\ call'.req = call.req /\ call'.maj = call.maj /\ call'.bet = call.bet
          /\ call'.min = min
      BY ONLY <2>4
    <2>6. NextIn(Mine(minors, maj), call.min, min)
      BY <1>1, <2>1, <2>2 DEF MinorsInv, Chained, Mine
    <2>7. \A z \in Mine(minors, maj) : z \in Nat /\ z > 0
      BY <1>1, MinorFacts DEF Mine
    <2>8. \A m \in {Null} \cup Mine(minors, maj) : m < min => m < call.min \/ m = call.min
      BY <1>1, <1>6, <2>1, <2>2, <2>6, <2>7, Constants DEF NextIn
    <2>9. CASE call.bet
      BY <2>5, <2>9 DEF NothingSkipped
    <2>10. CASE ~call.bet
      <3>1. PICK seen \in SUBSET DOMAIN majors : Passed(seen, maj, req)
        BY <1>1, <2>1, <2>3, <2>10 DEF NothingSkipped
      <3>2. Passed(seen, maj, req)' /\ seen \in SUBSET DOMAIN majors'
        BY <1>6, <3>1 DEF Passed, Full, Gap, GapNext, GapStart
      <3>3. call'.maj = maj /\ call'.req = req
        BY <2>1, <2>3, <2>5
      <3>4. \A m \in {Null} \cup Mine(minors, maj) : m < min => Gap(maj, m) < Need(req)
        BY <1>1, <1>6, <2>1, <2>3, <2>8, <2>10 DEF NothingSkipped
      <3>5. \A m \in {Null} \cup Mine(minors', maj) : m < min => Gap(maj, m)' < Need(req)
        BY <1>6, <3>4 DEF Gap, GapNext, GapStart
      <3>6. QED
        BY <2>5, <3>2, <3>3, <3>5 DEF NothingSkipped
    <2>11. QED
      BY <2>9, <2>10
  <1>7. QED
    BY <1>2, <1>3, <1>4, <1>5, <1>6

LEMMA NothingSkippedStep ==
  ASSUME Inv, Counted(majors, minors), NothingSkipped, [Next]_heapVars
  PROVE  NothingSkipped'
  <1>1. CASE FirstMajor
    <2>1. CASE call' = call
      BY <1>1, <2>1 DEF FirstMajor, NothingSkipped
    <2>2. CASE NoPages
      BY <2>2, ReturnEnds DEF NoPages, NothingSkipped
    <2>3. QED
      BY <1>1, <2>1, <2>2 DEF FirstMajor
  <1>2. CASE StartSearch
    BY <1>2, StartSkipsNothing
  <1>3. CASE LookAtMajor
    BY <1>3, MajorSkipsNothing
  <1>4. CASE UseNewMajor
    BY <1>4, ReturnEnds DEF UseNewMajor, Place, NothingSkipped
  <1>5. CASE LookAtMinor
    BY <1>5, MinorSkipsNothing
  <1>6. CASE ReallocCopy
    <2>1. call'.at \in {"idle", "failed"}
      <3>1. CASE call' = Idle
        BY <3>1 DEF Idle
      <3>2. CASE call' = [Idle EXCEPT !.at = "failed", !.old = call.old]
        BY <3>2 DEF Idle
      <3>3. QED
        BY <1>6, <3>1, <3>2 DEF ReallocCopy
    <2>2. QED
      BY <2>1 DEF NothingSkipped
  <1>7. ASSUME NEW req \in Requests, Malloc(req) PROVE NothingSkipped'
    BY <1>7 DEF Malloc, Idle, NothingSkipped
  <1>8. ASSUME NEW p \in DOMAIN live, Free(p) PROVE NothingSkipped'
    BY <1>8 DEF Free, Idle, NothingSkipped
  <1>9. ASSUME NEW p \in DOMAIN live, NEW req \in Resizes, Realloc(p, req) PROVE NothingSkipped'
    <2>1. call'.at \in {"idle", "start"}
      <3>1. call = Idle /\ call.at = "idle"
        BY <1>9 DEF Realloc, Idle
      <3>2. CASE call' = [Idle EXCEPT !.at = "start", !.req = req, !.old = p]
        BY <3>2 DEF Idle
      <3>3. CASE call' = call
        BY <3>1, <3>3
      <3>4. QED
        BY <1>9, <3>2, <3>3 DEF Realloc, Free
    <2>2. QED
      BY <2>1 DEF NothingSkipped
  <1>10. CASE UNCHANGED heapVars
    BY <1>10 DEF heapVars, NothingSkipped, Passed, Full, Gap, GapNext, GapStart
  <1>11. QED
    BY <1>1, <1>2, <1>3, <1>4, <1>5, <1>6, <1>7, <1>8, <1>9, <1>10 DEF Next, SearchStep

LEMMA PlaceAdds ==
  ASSUME Inv, Searching(call), NEW maj, NEW m, Place(maj, m),
         RoomAt(majors, minors, maj, m, GapStart(maj, m), GapNext(maj, m), call.req)
  PROVE  minors' # minors
  <1>1. MajorOK(majors) /\ MajorsApart(majors) /\ MinorsInv(majors, minors)
    BY DEF Inv, MajorsInv
  <1>2. PICK a : a = GapStart(maj, m)
    OBVIOUS
  <1>3. PICK next : next = GapNext(maj, m)
    OBVIOUS
  <1>4. PICK req : req = call.req
    OBVIOUS
  <1>5. minors' = InsertMinor(minors, maj, m, a, next, req)
    BY <1>2, <1>3, <1>4 DEF Place, InsertMinor, NewBlock
  <1>6. a \notin DOMAIN minors /\ OneBlockMore(minors, minors', maj, m, a, next, req)
    BY <1>1, <1>2, <1>3, <1>4, <1>5, MinorInserted
  <1>7. QED
    BY <1>6 DEF OneBlockMore

(* A call of malloc that returns NULL, from either of its two loops.       *)
LEMMA LeavesEmptyHanded ==
  ASSUME Inv, NothingSkipped, NEW c, NEW label \in {"major", "case2"}, Leaves(c),
         HopOrRestart(c) \/ GrowAndGoTo(c, label), call'.at \in {"idle", "copy"}
  PROVE  /\ \A x \in DOMAIN majors : Full(x, call.req)
         /\ FreeRuns(PagesFor(Size(call.req))) = {}
  <1>1. IsCall(c)
    BY DEF Leaves
  <1>2. ASSUME HopOrRestart(c) PROVE FALSE
    <2>1. CASE call' = [c EXCEPT !.at = "major", !.maj = majors[c.maj].next]
      <3>1. call'.at = "major"
        BY <1>1, <2>1 DEF IsCall
      <3>2. QED
        BY <3>1
    <2>2. CASE call' = [c EXCEPT !.at = "major", !.maj = memRoot, !.bet = FALSE]
      <3>1. call'.at = "major"
        BY <1>1, <2>2 DEF IsCall
      <3>2. QED
        BY <3>1
    <2>3. QED
      BY <1>2, <2>1, <2>2 DEF HopOrRestart
  <1>3. GrowAndGoTo(c, label)
    BY <1>2
  <1>4. NoPages
    <2>1. ASSUME NEW first \in HeapPages, call' = [c EXCEPT !.at = label, !.maj = first * PageSize] PROVE FALSE
      <3>1. call'.at = label
        BY <1>1, <2>1 DEF IsCall
      <3>2. QED
        BY <3>1
    <2>2. QED
      BY <1>3, <2>1 DEF GrowAndGoTo
  <1>5. ~call.bet /\ majors[call.maj].next = Null
    BY <1>3 DEF GrowAndGoTo, AtLastMajor, Leaves
  <1>6. QED
    BY <1>4, <1>5, AllFull DEF Leaves, NoPages

LEMMA FailsOnlyWhenFull ==
  ASSUME Inv, Counted(majors, minors), NothingSkipped, Next,
         call.at \notin {"idle", "copy"}, call'.at \in {"idle", "copy"}, minors' = minors
  PROVE  /\ \A x \in DOMAIN majors : Full(x, call.req)
         /\ FreeRuns(PagesFor(Size(call.req))) = {}
  <1>0. CallOK(majors, minors, pad, live, call)
    BY DEF Inv
  <1>1. CASE FirstMajor
    <2>1. call.at = "start" /\ memRoot = Null /\ MajorsInv(majors, memRoot, runs) /\ MajorOK(majors)
      BY <1>1 DEF FirstMajor, Inv, MajorsInv
    <2>2. NoPages
      BY <1>1, <2>1 DEF FirstMajor
    <2>3. Null \notin DOMAIN majors
      BY <2>1, MajorFacts, Constants
    <2>4. DOMAIN majors = {}
      BY <2>1, <2>3, RootExists
    <2>5. QED
      BY <2>2, <2>4 DEF NoPages
  <1>2. CASE StartSearch
    <2>1. PICK b1, b2, b3 : call' = [call EXCEPT !.at = "major", !.maj = b1, !.bet = b2, !.best = b3]
      BY <1>2 DEF StartSearch
    <2>2. call'.at = "major"
      BY <1>0, <2>1 DEF CallOK, IsCall
    <2>3. QED
      BY <2>2
  <1>3. CASE LookAtMajor
    <2>1. call.at = "major" /\ Searching(call)
      BY <1>3 DEF LookAtMajor, Searching
    <2>2. PICK c : \/ Leaves(c) /\ HopOrRestart(c)
                   \/ Leaves(c) /\ GrowAndGoTo(c, "case2")
                   \/ /\ majors[call.maj].first = Null \/ Gap(call.maj, Null) >= Need(call.req)
                      /\ Place(call.maj, Null)
                   \/ /\ call' = [c EXCEPT !.at = "case4", !.min = majors[call.maj].first]
                      /\ IsCall(c)
      BY <1>3, MajorLooked
    <2>3. CASE Leaves(c) /\ (HopOrRestart(c) \/ GrowAndGoTo(c, "case2"))
      BY <2>3, LeavesEmptyHanded
    <2>4. ASSUME Place(call.maj, Null),
                 majors[call.maj].first = Null \/ Gap(call.maj, Null) >= Need(call.req)
          PROVE  FALSE
      <3>1. PICK maj : maj = call.maj
        OBVIOUS
      <3>2. RoomAt(majors, minors, maj, Null, GapStart(maj, Null), GapNext(maj, Null), call.req)
        BY <2>1, <2>4, <3>1, RoomAtStart
      <3>3. QED
        BY <2>1, <2>4, <3>1, <3>2, PlaceAdds
    <2>5. ASSUME call' = [c EXCEPT !.at = "case4", !.min = majors[call.maj].first], IsCall(c) PROVE FALSE
      <3>1. call'.at = "case4"
        BY <2>5 DEF IsCall
      <3>2. QED
        BY <3>1
    <2>6. QED
      BY <2>2, <2>3, <2>4, <2>5
  <1>4. CASE UseNewMajor
    <2>1. call.at = "case2" /\ Searching(call) /\ Place(call.maj, Null)
      BY <1>4 DEF UseNewMajor, Searching
    <2>2. PICK maj : maj = call.maj
      OBVIOUS
    <2>3. RoomAt(majors, minors, maj, Null, GapStart(maj, Null), GapNext(maj, Null), call.req)
      BY <2>1, <2>2, RoomInNewMajor
    <2>4. QED
      BY <2>1, <2>2, <2>3, PlaceAdds
  <1>5. CASE LookAtMinor
    <2>1. call.at = "case4" /\ Searching(call)
      BY <1>5 DEF LookAtMinor, Searching
    <2>2. PICK c : \/ Leaves(c) /\ HopOrRestart(c)
                   \/ Leaves(c) /\ GrowAndGoTo(c, "major")
                   \/ Gap(call.maj, call.min) >= Need(call.req) /\ Place(call.maj, call.min)
                   \/ call' = [call EXCEPT !.min = minors[call.min].next]
      BY <1>5, MinorLooked
    <2>3. CASE Leaves(c) /\ (HopOrRestart(c) \/ GrowAndGoTo(c, "major"))
      BY <2>3, LeavesEmptyHanded
    <2>4. ASSUME Gap(call.maj, call.min) >= Need(call.req), Place(call.maj, call.min) PROVE FALSE
      <3>1. PICK maj : maj = call.maj
        OBVIOUS
      <3>2. PICK m : m = call.min
        OBVIOUS
      <3>3. RoomAt(majors, minors, maj, m, GapStart(maj, m), GapNext(maj, m), call.req)
        BY <2>1, <2>4, <3>1, <3>2, RoomBehindMinor
      <3>4. QED
        BY <2>1, <2>4, <3>1, <3>2, <3>3, PlaceAdds
    <2>5. ASSUME call' = [call EXCEPT !.min = minors[call.min].next] PROVE FALSE
      <3>1. call'.at = "case4"
        BY <1>0, <2>1, <2>5 DEF CallOK, IsCall
      <3>2. QED
        BY <3>1
    <2>6. QED
      BY <2>2, <2>3, <2>4, <2>5
  <1>6. CASE ReallocCopy
    BY <1>6 DEF ReallocCopy
  <1>7. ASSUME NEW req \in Requests, Malloc(req) PROVE FALSE
    BY <1>7 DEF Malloc, Idle
  <1>8. ASSUME NEW p \in DOMAIN live, Free(p) PROVE FALSE
    BY <1>8 DEF Free, Idle
  <1>9. ASSUME NEW p \in DOMAIN live, NEW req \in Resizes, Realloc(p, req) PROVE FALSE
    BY <1>9 DEF Realloc, Idle
  <1>10. QED
    BY <1>1, <1>2, <1>3, <1>4, <1>5, <1>6, <1>7, <1>8, <1>9 DEF Next, SearchStep

(* The lists with their sums and the search: what `usage' counts is what   *)
(* the blocks take up, and the search has left out no gap.                 *)
SearchInv == Inv /\ Counted(majors, minors) /\ NothingSkipped

LEMMA InitSearch ==
  ASSUME Init
  PROVE  SearchInv
  BY InitInv DEF SearchInv, Init, Counted, NothingSkipped, Idle

(* In every state the lists are consistent, each major's `usage' is the    *)
(* space its blocks take up, and a search has passed over full majors      *)
(* only.                                                                   *)
THEOREM SearchIsSound == Spec => []SearchInv
  <1>1. Init => SearchInv
    BY InitSearch
  <1>2. SearchInv /\ [Next]_heapVars => SearchInv'
    BY NextInv, CountedStep, NothingSkippedStep DEF SearchInv
  <1>3. QED
    BY <1>1, <1>2, PTL DEF Spec

(* MallocNullOnlyWhenFull, for heaps and requests of any size: malloc      *)
(* fails only after it has seen that no major has a gap for the request,   *)
(* although it skips majors by their `usage' and starts anywhere.          *)
THEOREM MallocFailsOnlyWhenFull == Spec => MallocNullOnlyWhenFull
  <1>1. ASSUME SearchInv, Next, call.at \notin {"idle", "copy"}, call'.at \in {"idle", "copy"}, minors' = minors
        PROVE  /\ \A maj \in DOMAIN majors :
                    \A m \in {Null} \cup {x \in DOMAIN minors : minors[x].block = maj} :
                      Gap(maj, m) < Need(call.req)
               /\ FreeRuns(PagesFor(Size(call.req))) = {}
    <2>1. /\ \A x \in DOMAIN majors : Full(x, call.req)
          /\ FreeRuns(PagesFor(Size(call.req))) = {}
      BY <1>1, FailsOnlyWhenFull DEF SearchInv
    <2>2. QED
      BY <2>1 DEF Full, Mine
  <1>2. SearchInv /\ [Next]_heapVars =>
          [ (call.at \notin {"idle", "copy"} /\ call'.at \in {"idle", "copy"} /\ minors' = minors) =>
            /\ \A maj \in DOMAIN majors :
                 \A m \in {Null} \cup {x \in DOMAIN minors : minors[x].block = maj} :
                   Gap(maj, m) < Need(call.req)
            /\ FreeRuns(PagesFor(Size(call.req))) = {} ]_heapVars
    BY <1>1
  <1>3. QED
    BY <1>2, SearchIsSound, PTL DEF Spec, MallocNullOnlyWhenFull

-----------------------------------------------------------------------------
(* ListsSound. *)

LEMMA MajorsFiniteStep ==
  ASSUME Inv, IsFiniteSet(DOMAIN majors), [Next]_heapVars
  PROVE  IsFiniteSet(DOMAIN majors')
  <1>0. MajorsInv(majors, memRoot, runs) /\ MajorOK(majors) /\ MinorsInv(majors, minors) /\ PadOK(minors, pad)
    BY DEF Inv, MajorsInv
  <1>1. CASE majors' = majors
    BY <1>1
  <1>2. ASSUME NEW first \in HeapPages, NEW prev, NewMajor(first, prev) PROVE IsFiniteSet(DOMAIN majors')
    <2>1. DOMAIN majors' = DOMAIN majors \cup {first * PageSize}
      BY <1>2 DEF NewMajor, With
    <2>2. QED
      BY <2>1, FS_AddElement
  <1>3. ASSUME NEW maj, NEW m, Place(maj, m) PROVE IsFiniteSet(DOMAIN majors')
    BY <1>3 DEF Place
  <1>4. ASSUME NEW p \in DOMAIN pad, FreeBlock(p) PROVE IsFiniteSet(DOMAIN majors')
    <2>1. PICK maj : DOMAIN majors' = DOMAIN majors \/ DOMAIN majors' = DOMAIN majors \ {maj}
      BY <1>4 DEF FreeBlock, ReleaseMajor, KeepMajor, Reduced
    <2>2. QED
      BY <2>1, FS_RemoveElement
  <1>5. QED
    BY <1>1, <1>2, <1>3, <1>4, NextChanges DEF Changed

(* The sizes in live; after a realloc that failed they no longer match the *)
(* blocks.                                                                 *)
LiveSizes == \A p \in DOMAIN live : live[p] \in Sizes

LEMMA ReturnKeepsSizes ==
  ASSUME LiveSizes, call.req \in Sizes, NEW p, Return(p)
  PROVE  LiveSizes'
  <1>1. live' = live \/ live' = With(live, p, call.req)
    BY DEF Return
  <1>2. QED
    BY <1>1 DEF LiveSizes, With

LEMMA LiveSizesStep ==
  ASSUME Inv, LiveSizes, [Next]_heapVars
  PROVE  LiveSizes'
  <1>0. Searching(call) \/ call.at = "copy" => call.req \in Sizes
    BY DEF Inv, CallOK
  <1>1. CASE live' = live
    BY <1>1 DEF LiveSizes
  <1>2. ASSUME Searching(call), NEW p, Return(p) PROVE LiveSizes'
    BY <1>0, <1>2, ReturnKeepsSizes
  <1>3. ASSUME Searching(call), NEW c, NEW label, HopOrRestart(c) \/ GrowAndGoTo(c, label) PROVE LiveSizes'
    BY <1>1, <1>2, <1>3 DEF HopOrRestart, GrowAndGoTo, NoPages
  <1>4. ASSUME Searching(call), NEW maj, NEW m, Place(maj, m) PROVE LiveSizes'
    BY <1>2, <1>4 DEF Place
  <1>5. CASE FirstMajor
    BY <1>1, <1>2, <1>5 DEF FirstMajor, Searching, NoPages
  <1>6. CASE StartSearch
    BY <1>1, <1>6 DEF StartSearch
  <1>7. CASE LookAtMajor
    <2>1. Searching(call)
      BY <1>7 DEF LookAtMajor, Searching
    <2>2. PICK c : HopOrRestart(c) \/ GrowAndGoTo(c, "case2") \/ Place(call.maj, Null) \/ live' = live
      BY <1>7 DEF LookAtMajor
    <2>3. QED
      BY <1>1, <1>3, <1>4, <2>1, <2>2
  <1>8. CASE UseNewMajor
    BY <1>4, <1>8 DEF UseNewMajor, Searching
  <1>9. CASE LookAtMinor
    <2>1. Searching(call)
      BY <1>9 DEF LookAtMinor, Searching
    <2>2. PICK c : HopOrRestart(c) \/ GrowAndGoTo(c, "major") \/ Place(call.maj, call.min) \/ live' = live
      BY <1>9 DEF LookAtMinor
    <2>3. QED
      BY <1>1, <1>3, <1>4, <2>1, <2>2
  <1>10. CASE ReallocCopy
    <2>1. live' = live \/ live' = With(Without(live, call.old), call.min, call.req)
      BY <1>10 DEF ReallocCopy
    <2>2. call.req \in Sizes
      BY <1>0, <1>10 DEF ReallocCopy
    <2>3. PICK rest : rest = Without(live, call.old)
      OBVIOUS
    <2>4. \A p \in DOMAIN rest : rest[p] \in Sizes
      BY <2>3 DEF LiveSizes, Without
    <2>5. CASE live' = With(rest, call.min, call.req)
      BY <2>2, <2>4, <2>5 DEF LiveSizes, With
    <2>6. QED
      BY <1>1, <2>1, <2>3, <2>5
  <1>11. ASSUME NEW req \in Requests, Malloc(req) PROVE LiveSizes'
    BY <1>1, <1>11 DEF Malloc
  <1>12. ASSUME NEW p \in DOMAIN live, Free(p) PROVE LiveSizes'
    BY <1>12 DEF Free, LiveSizes, Without
  <1>13. ASSUME NEW p \in DOMAIN live, NEW req \in Resizes, Realloc(p, req) PROVE LiveSizes'
    <2>1. \/ Free(p)
          \/ live' = [live EXCEPT ![p] = req]
          \/ live' = live
      BY <1>13 DEF Realloc
    <2>2. QED
      BY <1>12, <1>13, <2>1 DEF LiveSizes, Sizes
  <1>14. CASE UNCHANGED heapVars
    BY <1>1, <1>14 DEF heapVars
  <1>15. QED
    BY <1>5, <1>6, <1>7, <1>8, <1>9, <1>10, <1>11, <1>12, <1>13, <1>14 DEF Next, SearchStep

(* What ListsSound needs of a state. *)
ListsInv == Inv /\ Counted(majors, minors) /\ IsFiniteSet(DOMAIN majors) /\ LiveSizes

(* A pad read back is the pad that was put there. *)
LEMMA SamePad ==
  ASSUME NEW h \in Nat, NEW m \in Nat, NEW d \in Nat, NEW q \in Nat, NEW p \in Nat,
         h = p - q - m, p = h + m + d
  PROVE  q = d
  OBVIOUS

LEMMA ListsTyped ==
  ASSUME ListsInv
  PROVE  TypeOK
  <1>1. /\ Inv /\ MajorsInv(majors, memRoot, runs) /\ MajorOK(majors) /\ MinorsInv(majors, minors)
        /\ PadOK(minors, pad) /\ CallOK(majors, minors, pad, live, call) /\ Counted(majors, minors)
    BY DEF ListsInv, Inv, MajorsInv
  <1>2. memRoot \in DOMAIN majors \cup {Null} /\ bestBet \in DOMAIN majors \cup {Null}
    BY <1>1 DEF MajorsInv, Linked, Inv
  <1>3. ASSUME NEW x \in DOMAIN majors
        PROVE  majors[x] \in [pages : Nat \ {0}, size : Nat \ {0}, usage : MajorSize .. majors[x].size,
                              first : DOMAIN minors \cup {Null},
                              prev : DOMAIN majors \cup {Null}, next : DOMAIN majors \cup {Null}]
    <2>1. majors[x].usage \in MajorSize .. majors[x].size
      BY <1>1, MajorHoldsHeader, UsageFits
    <2>2. majors[x].pages \in Nat \ {0} /\ majors[x].size \in Nat \ {0} /\ IsMajor(majors[x])
      BY <1>1, MajorFacts DEF MajorOK
    <2>3. majors[x].prev \in DOMAIN majors \cup {Null} /\ majors[x].next \in DOMAIN majors \cup {Null}
      BY <1>1 DEF MajorOK
    <2>4. majors[x].first \in DOMAIN minors \cup {Null}
      <3>1. NextIn(Mine(minors, x), Null, majors[x].first)
        BY <1>1 DEF MinorsInv, Chained
      <3>2. QED
        BY <3>1 DEF NextIn, Mine
    <2>5. QED
      BY <2>1, <2>2, <2>3, <2>4 DEF IsMajor
  <1>4. ASSUME NEW x \in DOMAIN minors
        PROVE  minors[x] \in [prev : DOMAIN minors \cup {Null}, next : DOMAIN minors \cup {Null},
                              block : DOMAIN majors, size : Nat \ {0}, req : Requests \cup Resizes]
    <2>1. /\ minors[x].block \in DOMAIN majors /\ minors[x].size \in Nat /\ minors[x].req \in Nat
          /\ minors[x].req + 2 * Alignment <= minors[x].size
      BY <1>1, MinorFacts
    <2>2. minors[x].size \in Nat \ {0}
      BY <2>1, Constants
    <2>3. IsMinor(minors[x]) /\ minors[x].req \in Requests \cup Resizes
      BY <1>1 DEF MinorsInv, MinorOK, Sizes
    <2>4. minors[x].prev \in DOMAIN minors \cup {Null} /\ minors[x].next \in DOMAIN minors \cup {Null}
      BY <1>1 DEF MinorsInv, Chained, NextIn, PrevIn, Mine
    <2>5. QED
      BY <2>1, <2>2, <2>3, <2>4 DEF IsMinor
  <1>5. ASSUME NEW p \in DOMAIN pad PROVE pad[p] \in Alignment .. 2 * Alignment - 1
    <2>1. PICK h : h = HeaderOf(pad, p)
      OBVIOUS
    <2>2. p \in Nat /\ pad[p] \in Nat /\ h \in Nat /\ p = h + MinorSize + AlignDiff(h + MinorSize)
      BY <1>1, <2>1, PointerFacts DEF PadOK
    <2>3. PICK a \in Nat : a = h + MinorSize
      BY <2>2, Constants
    <2>4. AlignDiff(a) \in Nat /\ AlignDiff(a) >= Alignment /\ AlignDiff(a) < 2 * Alignment
      BY <2>3, Aligned
    <2>5. PICK d : d = AlignDiff(a)
      OBVIOUS
    <2>6. h = p - pad[p] - MinorSize /\ p = h + MinorSize + d
      BY <2>1, <2>2, <2>3, <2>5 DEF HeaderOf
    <2>7. PICK q \in Nat : q = pad[p]
      BY <2>2
    <2>8. d \in Nat /\ d >= Alignment /\ d < 2 * Alignment
      BY <2>4, <2>5
    <2>9. p \in Nat /\ h \in Nat /\ MinorSize \in Nat /\ Alignment \in Nat
      BY <2>2, Constants
    <2>10. h = p - q - MinorSize /\ p = h + MinorSize + d
      BY <2>6, <2>7
    <2>11. q = d
      BY ONLY <2>7, <2>8, <2>9, <2>10, SamePad
    <2>12. d \in Alignment .. 2 * Alignment - 1
      BY ONLY <2>8, <2>9
    <2>13. QED
      BY <2>7, <2>11, <2>12
  <1>6. runs \subseteq HeapPages \X (Nat \ {0})
    <2>1. \A x \in DOMAIN majors : x \div PageSize \in HeapPages /\ majors[x].pages \in Nat \ {0}
      BY <1>1, MajorFacts
    <2>2. runs = {<<x \div PageSize, majors[x].pages>> : x \in DOMAIN majors}
      BY <1>1 DEF MajorsInv, RunsAre
    <2>3. QED
      BY <2>1, <2>2
  <1>7. \A p \in DOMAIN live : live[p] \in Requests \cup Resizes
    BY DEF ListsInv, LiveSizes, Sizes
  <1>8. call.at \in Labels /\ call.maj \in DOMAIN majors \cup {Null}
    BY <1>1 DEF CallOK
  <1>9. QED
    BY <1>2, <1>3, <1>4, <1>5, <1>6, <1>7, <1>8 DEF TypeOK

LEMMA MajorsListed ==
  ASSUME ListsInv
  PROVE  \E list \in SetToSeqs(DOMAIN majors) :
           LET at(i) == IF i \in DOMAIN list THEN list[i] ELSE Null
           IN  /\ memRoot = at(1)
               /\ \A i \in DOMAIN list : majors[list[i]].prev = at(i - 1) /\ majors[list[i]].next = at(i + 1)
  <1>1. IsFiniteSet(DOMAIN majors) /\ MajorsInv(majors, memRoot, runs)
    BY DEF ListsInv, Inv
  <1>2. PICK nx : nx = [x \in DOMAIN majors |-> majors[x].next]
    OBVIOUS
  <1>3. PICK pv : pv = [x \in DOMAIN majors |-> majors[x].prev]
    OBVIOUS
  <1>4. PICK rank : ListOf(DOMAIN majors, memRoot, nx, pv, rank)
    BY <1>1, <1>2, <1>3, MajorsAreList
  <1>5. PICK list \in SetToSeqs(DOMAIN majors) : InOrder(list, memRoot, nx, pv)
    BY <1>1, <1>4, ListExists
  <1>6. \A i \in DOMAIN list : /\ pv[list[i]] = majors[list[i]].prev /\ nx[list[i]] = majors[list[i]].next
    BY <1>2, <1>3, <1>5 DEF SetToSeqs
  <1>7. QED
    BY <1>5, <1>6 DEF InOrder

LEMMA MinorsListed ==
  ASSUME ListsInv, NEW maj \in DOMAIN majors, NEW mine, mine = Mine(minors, maj)
  PROVE  \E order \in SetToSeqs(mine) :
           LET at(i) == IF i \in DOMAIN order THEN order[i] ELSE Null
               end(m) == m + MinorSize + minors[m].size
           IN  /\ majors[maj].first = at(1)
               /\ \A i \in DOMAIN order :
                    /\ minors[order[i]].prev = at(i - 1)
                    /\ minors[order[i]].next = at(i + 1)
                    /\ order[i] >= maj + MajorSize
                    /\ end(order[i]) <= IF at(i + 1) = Null THEN maj + majors[maj].size ELSE at(i + 1)
  <1>1. MajorOK(majors) /\ MinorsInv(majors, minors)
    BY DEF ListsInv, Inv, MajorsInv
  <1>2. IsFiniteSet(mine)
    BY <1>1, MineFinite
  <1>3. PICK nx : nx = [x \in mine |-> minors[x].next]
    OBVIOUS
  <1>4. PICK pv : pv = [x \in mine |-> minors[x].prev]
    OBVIOUS
  <1>5. PICK first : first = majors[maj].first
    OBVIOUS
  <1>6. PICK rank : rank = [x \in mine |-> x]
    OBVIOUS
  <1>7. ListOf(mine, first, nx, pv, rank)
    BY <1>1, <1>3, <1>4, <1>5, <1>6, MinorsAreList
  <1>8. PICK order \in SetToSeqs(mine) : InOrder(order, first, nx, pv)
    BY <1>2, <1>7, ListExists
  <1>9. \A i \in DOMAIN order : order[i] \in mine
    BY <1>8 DEF SetToSeqs
  <1>10. \A m \in mine : /\ nx[m] = minors[m].next /\ pv[m] = minors[m].prev
                         /\ m >= maj + MajorSize /\ m + MinorSize + minors[m].size = End(minors, m)
                         /\ End(minors, m) <= IF minors[m].next = Null THEN maj + majors[maj].size
                                              ELSE minors[m].next
    <2>1. TAKE m \in mine
    <2>2. m \in DOMAIN minors /\ minors[m].block = maj
      BY DEF Mine
    <2>3. /\ maj \in Nat /\ m \in Nat /\ maj + MajorSize <= m /\ End(minors, m) <= maj + majors[maj].size
          /\ m + MinorSize + minors[m].size = End(minors, m)
      BY <1>1, <2>2, MinorFacts
    <2>4. NextIn(mine, m, minors[m].next)
      BY <1>1, <2>2 DEF MinorsInv, Chained
    <2>5. minors[m].next # Null => /\ minors[m].next \in mine /\ m < minors[m].next
      BY <2>4 DEF NextIn
    <2>6. minors[m].next # Null => End(minors, m) <= minors[m].next
      <3>1. SUFFICES ASSUME minors[m].next # Null PROVE End(minors, m) <= minors[m].next
        OBVIOUS
      <3>2. PICK n : n = minors[m].next
        OBVIOUS
      <3>3. n \in DOMAIN minors /\ minors[n].block = maj /\ m < n
        BY <2>3, <2>4, <3>1, <3>2 DEF NextIn, Mine
      <3>4. QED
        BY <1>1, <2>2, <3>2, <3>3 DEF MinorsInv, MinorsApart
    <2>7. nx[m] = minors[m].next /\ pv[m] = minors[m].prev
      BY <1>3, <1>4
    <2>8. QED
      BY <2>3, <2>6, <2>7, Constants
  <1>11. SUFFICES LET at(i) == IF i \in DOMAIN order THEN order[i] ELSE Null
                      end(m) == m + MinorSize + minors[m].size
                  IN  /\ first = at(1)
                      /\ \A i \in DOMAIN order :
                           /\ minors[order[i]].prev = at(i - 1)
                           /\ minors[order[i]].next = at(i + 1)
                           /\ order[i] >= maj + MajorSize
                           /\ end(order[i]) <= IF at(i + 1) = Null THEN maj + majors[maj].size ELSE at(i + 1)
    BY <1>5, <1>8
  <1> DEFINE at(i) == IF i \in DOMAIN order THEN order[i] ELSE Null
  <1>12. first = at(1) /\ \A i \in DOMAIN order : pv[order[i]] = at(i - 1) /\ nx[order[i]] = at(i + 1)
    BY <1>8 DEF InOrder
  <1> HIDE DEF at
  <1>13. \A i \in DOMAIN order :
           /\ minors[order[i]].prev = at(i - 1)
           /\ minors[order[i]].next = at(i + 1)
           /\ order[i] >= maj + MajorSize
           /\ order[i] + MinorSize + minors[order[i]].size
                <= IF at(i + 1) = Null THEN maj + majors[maj].size ELSE at(i + 1)
    <2>1. TAKE i \in DOMAIN order
    <2>2. PICK m \in mine : m = order[i]
      BY <1>9
    <2>3. minors[m].prev = at(i - 1) /\ minors[m].next = at(i + 1)
      BY <1>10, <1>12, <2>2
    <2>4. QED
      BY <1>10, <2>2, <2>3
  <1>14. QED
    BY <1>12, <1>13 DEF at

LEMMA ListsFollow ==
  ASSUME ListsInv
  PROVE  ListsSound
  <1>1. TypeOK
    BY ListsTyped
  <1>2. ASSUME NEW maj \in DOMAIN majors, NEW mine, mine = Mine(minors, maj)
        PROVE  majors[maj].usage = MajorSize + MapThenSumSet(LAMBDA m : MinorSize + minors[m].size, mine)
    BY <1>2 DEF ListsInv, Counted, Taken
  <1>3. QED
    BY <1>1, <1>2, MajorsListed, MinorsListed DEF ListsSound, Mine

(* ListsSound, for heaps of any size and any sequence of calls: the links  *)
(* that malloc, free and realloc maintain always describe one list of      *)
(* majors and one ordered list of blocks in each, and `usage' is exact.    *)
THEOREM ListsAreSound == Spec => []ListsSound
  <1>1. Init => ListsInv
    <2>1. ASSUME Init PROVE ListsInv
      <3>1. Inv /\ DOMAIN majors = {} /\ DOMAIN live = {}
        BY <2>1, InitInv DEF Init
      <3>2. IsFiniteSet(DOMAIN majors)
        BY <3>1, FS_EmptySet
      <3>3. QED
        BY <3>1, <3>2 DEF ListsInv, Counted, LiveSizes
    <2>2. QED
      BY <2>1
  <1>2. ListsInv /\ [Next]_heapVars => ListsInv'
    BY NextInv, CountedStep, MajorsFiniteStep, LiveSizesStep DEF ListsInv
  <1>3. ListsInv => ListsSound
    BY ListsFollow
  <1>4. QED
    BY <1>1, <1>2, <1>3, PTL DEF Spec
=============================================================================
