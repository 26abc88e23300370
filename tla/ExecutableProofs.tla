--------------------------- MODULE ExecutableProofs ---------------------------
(***************************************************************************)
(* Proofs about the program loader: loader and heap hold exactly the pages *)
(* that are present, and a program has all of its pages or none, for every *)
(* set of binaries and objects and every interleaving with the heap.       *)
(***************************************************************************)
EXTENDS Executable, SequenceTheorems, TLAPS

(* The pages present are those of disjoint runs.                           *)
Held(m, B) ==
  /\ m = UNION {PagesOf(b) : b \in B}
  /\ \A b, c \in B : b # c => PagesOf(b) \cap PagesOf(c) = {}

Blocks == {b \in [owner : Objects \cup {Heap}, first : Pages, n : Nat \ {0}] : PagesOf(b) \subseteq Pages}
Owned(e) == {b \in blocks : b.owner = e}
Segments(e) == object[e].segments

(* The runs of those of a program's segments with an index in I, and that  *)
(* no two of them begin on the same page.                                  *)
Takes(s) == s.aligned /\ s.size > 0
BlocksOf(e, segs, I) == {Block(e, segs[j].page, PageCount(segs[j])) : j \in {j \in I : Takes(segs[j])}}
Distinct(segs, I) ==
  \A j, k \in I : (j # k /\ Takes(segs[j]) /\ Takes(segs[k])) => segs[j].page # segs[k].page

(* The runs that the cleanup list would free.                              *)
Listed(list) == {list[k] : k \in {k \in DOMAIN list : list[k].n # 0}}
ListDistinct(list) ==
  \A k, l \in DOMAIN list : (k # l /\ list[k].n # 0 /\ list[l].n # 0) => list[k] # list[l]

CallType == [name : CallNames, obj : Objects \cup {"none"}, i : Nat \ {0},
             cleanup : Seq([owner : Objects, first : Nat, n : Nat])]

ObjectsType ==
  /\ object \in [Objects -> [segments : Images \cup {<<>>}, loaded : BOOLEAN]]
  /\ loader \in CallType
  /\ loader.name # "idle" => loader.obj \in Objects

PagesInv ==
  /\ blocks \subseteq Blocks
  /\ Held(mapped, blocks)

(* An object that no call is loading or unloading has all or nothing.      *)
RestOk(e, segs, loaded, own) ==
  /\ own = IF loaded THEN BlocksOf(e, segs, DOMAIN segs) ELSE {}
  /\ loaded => Distinct(segs, DOMAIN segs)

RestInv ==
  \A e \in Objects :
    (loader.name \in {"idle", "running"} \/ loader.obj # e) =>
      RestOk(e, Segments(e), object[e].loaded, Owned(e))

(* The object of the call has the segments before the next one, or those   *)
(* from it on, and the list in `cleanup' is what it has.                   *)
CallOk(c, segs, loaded, own) ==
  /\ c.name \in {"load", "unload", "destroy"} => c.i <= Len(segs) + 1
  /\ c.name = "load" => own = BlocksOf(c.obj, segs, 1 .. c.i - 1) /\ Distinct(segs, 1 .. c.i - 1)
  /\ c.name \in {"load", "cleanup"} => ~loaded /\ own = Listed(c.cleanup) /\ ListDistinct(c.cleanup)
  /\ c.name \notin {"load", "cleanup"} => c.cleanup = <<>>
  /\ c.name \in {"unload", "destroy"} =>
       loaded /\ own = BlocksOf(c.obj, segs, c.i .. Len(segs)) /\ Distinct(segs, DOMAIN segs)

CallInv == CallOk(loader, Segments(loader.obj), object[loader.obj].loaded, Owned(loader.obj))

Inv == ObjectsType /\ PagesInv /\ RestInv /\ CallInv

-----------------------------------------------------------------------------
(* Runs of pages.                                                          *)

LEMMA HeldAdd ==
  ASSUME NEW m, NEW B, NEW b, Held(m, B), PagesOf(b) \cap m = {}
  PROVE  Held(m \cup PagesOf(b), B \cup {b})
  <1>1. \A c \in B : PagesOf(c) \subseteq m
    BY DEF Held
  <1> HIDE DEF PagesOf
  <1>2. \A c \in B : PagesOf(b) \cap PagesOf(c) = {} /\ PagesOf(c) \cap PagesOf(b) = {}
    BY <1>1
  <1>3. m \cup PagesOf(b) = UNION {PagesOf(c) : c \in B \cup {b}}
    BY DEF Held
  <1>4. QED
    BY <1>2, <1>3 DEF Held

LEMMA HeldRemove ==
  ASSUME NEW m, NEW B, NEW b \in B, Held(m, B)
  PROVE  Held(m \ PagesOf(b), B \ {b})
  <1> HIDE DEF PagesOf
  <1>1. \A c \in B \ {b} : PagesOf(c) \cap PagesOf(b) = {}
    BY DEF Held
  <1>2. m \ PagesOf(b) = UNION {PagesOf(c) : c \in B \ {b}}
    BY <1>1 DEF Held
  <1>3. QED
    BY <1>2 DEF Held

(* A run of no pages is none of those given out.                           *)
LEMMA HeldNothing ==
  ASSUME NEW m, NEW B \in SUBSET Blocks, NEW b, Held(m, B), b.n = 0, b.first \in Nat
  PROVE  Held(m \ PagesOf(b), B \ {b}) /\ m \cup PagesOf(b) = m /\ B \ {b} = B
  <1>1. PagesOf(b) = {}
    BY DEF PagesOf
  <1>2. b \notin B
    BY DEF Blocks
  <1>3. QED
    BY <1>1, <1>2

LEMMA PageCountIs ==
  ASSUME NEW s \in Header
  PROVE  PageCount(s) \in Nat /\ (PageCount(s) = 0 <=> s.size = 0)
  <1> DEFINE q == s.size \div PageUnits
             r == s.size % PageUnits
  <1>1. s.size \in Nat /\ PageUnits \in Nat \ {0}
    BY ExecutableAssumption DEF Header
  <1>2. q \in Nat /\ r \in Nat /\ s.size = PageUnits * q + r
    BY <1>1
  <1>3. s.size = 0 => q = 0 /\ r = 0
    BY <1>1
  <1>4. PageCount(s) = q + (IF r # 0 THEN 1 ELSE 0)
    BY DEF PageCount
  <1> HIDE DEF q, r
  <1>5. q = 0 /\ r = 0 => s.size = 0
    BY <1>1, <1>2
  <1>6. QED
    BY <1>2, <1>3, <1>4, <1>5

(* The run of a segment that takes memory.                                 *)
LEMMA SegmentRun ==
  ASSUME NEW e \in Objects, NEW image \in Images, NEW i \in DOMAIN image
  PROVE  LET s == image[i]
             b == Block(e, s.page, PageCount(s))
         IN /\ s \in Header /\ (PageCount(s) # 0 <=> s.size > 0) /\ PageCount(s) \in Nat
            /\ (s.size > 0 => s.aligned)
            /\ b.owner = e /\ b.first = s.page /\ b.n = PageCount(s) /\ b.first \in Nat
            /\ b \in [owner : Objects, first : Nat, n : Nat]
            /\ s.size > 0 => b \in Blocks /\ s.page \in PagesOf(b)
  <1> DEFINE s == image[i]
             b == Block(e, s.page, PageCount(s))
  <1>1. s \in Header
    BY ExecutableAssumption
  <1>2. s.page \in Nat /\ s.size \in Nat /\ PageCount(s) \in Nat /\ (PageCount(s) # 0 <=> s.size > 0)
    BY <1>1, PageCountIs DEF Header
  <1>3. s.size > 0 => s.aligned /\ (s.page .. s.page + PageCount(s) - 1) \subseteq Pages
    BY ImagesAssumption
  <1> HIDE DEF s
  <1>4. b.owner = e /\ b.first = s.page /\ b.n = PageCount(s) /\ b \in [owner : Objects, first : Nat, n : Nat]
    BY <1>2 DEF Block
  <1>5. ASSUME s.size > 0 PROVE b \in Blocks /\ s.page \in PagesOf(b)
    <2>1. s.page \in s.page .. s.page + PageCount(s) - 1
      BY <1>2, <1>5
    <2>2. s.page \in Pages /\ PageCount(s) \in Nat \ {0}
      BY <1>2, <1>3, <1>5, <2>1
    <2>3. PagesOf(b) = s.page .. s.page + PageCount(s) - 1
      BY <1>4 DEF PagesOf
    <2>4. b \in [owner : Objects \cup {Heap}, first : Pages, n : Nat \ {0}]
      BY <2>2 DEF Block
    <2>5. QED
      BY <1>3, <1>5, <2>1, <2>3, <2>4 DEF Blocks
  <1>6. QED
    BY <1>1, <1>2, <1>3, <1>4, <1>5 DEF s

(* A call's fields.                                                        *)
LEMMA CallIs ==
  ASSUME NEW name \in CallNames, NEW e \in Objects
  PROVE  LET c == LoaderCall(name, e)
         IN /\ c \in CallType
            /\ c.name = name /\ c.obj = e /\ c.i = 1 /\ c.cleanup = <<>>
  <1> DEFINE c == LoaderCall(name, e)
  <1>1. c = [name |-> name, obj |-> e, i |-> 1, cleanup |-> <<>>]
    BY DEF LoaderCall
  <1>2. 1 \in Nat \ {0} /\ <<>> \in Seq([owner : Objects, first : Nat, n : Nat])
    OBVIOUS
  <1> HIDE DEF c
  <1>3. QED
    BY <1>1, <1>2 DEF c, CallType

LEMMA IdleIs ==
  /\ NoLoad \in CallType
  /\ NoLoad.name = "idle" /\ NoLoad.cleanup = <<>>
  <1>1. 1 \in Nat \ {0} /\ <<>> \in Seq([owner : Objects, first : Nat, n : Nat])
    OBVIOUS
  <1>2. QED
    BY <1>1 DEF NoLoad, LoaderCall, CallNames, CallType

LEMMA InvInit == LoaderInit => Inv
  <1> SUFFICES ASSUME LoaderInit PROVE Inv
    OBVIOUS
  <1>1. Absent \in [segments : Images \cup {<<>>}, loaded : BOOLEAN] /\ ~Absent.loaded
    BY DEF Absent
  <1>2. ObjectsType
    BY <1>1, IdleIs DEF LoaderInit, ObjectsType
  <1>3. PagesInv
    BY DEF LoaderInit, PagesInv, Held
  <1>4. RestInv
    BY <1>1 DEF LoaderInit, RestInv, RestOk, Owned
  <1>5. CallInv
    BY IdleIs DEF LoaderInit, CallInv, CallOk
  <1>6. QED
    BY <1>2, <1>3, <1>4, <1>5 DEF Inv

(* The segments of an object, and the next one of a call.                  *)
LEMMA SegmentsAre ==
  ASSUME ObjectsType, NEW e \in Objects
  PROVE  /\ Segments(e) \in Seq(Header) /\ Segments(e) \in Images \cup {<<>>}
         /\ DOMAIN Segments(e) = 1 .. Len(Segments(e)) /\ Len(Segments(e)) \in Nat
         /\ object[e].loaded \in BOOLEAN
  <1>1. Segments(e) \in Images \cup {<<>>} /\ object[e].loaded \in BOOLEAN
    BY DEF ObjectsType, Segments
  <1>2. Segments(e) \in Seq(Header)
    <2>1. <<>> \in Seq(Header) /\ Images \subseteq Seq(Header)
      BY ExecutableAssumption
    <2>2. QED
      BY <1>1, <2>1, Zenon
  <1>3. QED
    BY <1>1, <1>2

LEMMA NextSegment ==
  ASSUME ObjectsType, loader.obj \in Objects, ~AllSegmentsDone
  PROVE  /\ loader.i \in DOMAIN Segments(loader.obj) /\ Segments(loader.obj) \in Images
         /\ SegmentAt = Segments(loader.obj)[loader.i]
         /\ loader.i \in 1 .. Len(Segments(loader.obj)) /\ loader.i \in Nat
  <1>1. loader.i \in Nat \ {0}
    BY DEF ObjectsType, CallType
  <1>2. loader.i <= Len(Segments(loader.obj))
    BY <1>1, SegmentsAre DEF AllSegmentsDone, Segments
  <1>3. Len(Segments(loader.obj)) # 0
    BY <1>1, <1>2
  <1>4. QED
    BY <1>1, <1>2, <1>3, SegmentsAre DEF SegmentAt, Segments

-----------------------------------------------------------------------------
(* Steps that move no page.                                                *)

LEMMA EmptyRanges ==
  ASSUME NEW e, NEW segs
  PROVE  /\ BlocksOf(e, segs, {}) = {} /\ Distinct(segs, {})
         /\ Listed(<<>>) = {} /\ ListDistinct(<<>>) /\ 1 .. 1 - 1 = {}
  BY DEF BlocksOf, Distinct, Listed, ListDistinct

(* A call begins: it loads an object that has nothing, or unloads one that *)
(* has everything.                                                         *)
LEMMA CallBegins ==
  ASSUME Inv, loader = NoLoad, NEW e \in Objects, NEW name \in {"load", "running", "unload", "destroy", "panic"},
         loader' = LoaderCall(name, e), UNCHANGED <<object, mapped, blocks>>,
         name = "load" => ~object[e].loaded,
         name \in {"unload", "destroy"} => object[e].loaded
  PROVE  Inv'
  <1>1. name \in CallNames
    BY DEF CallNames
  <1>2. loader' \in CallType /\ loader'.name = name /\ loader'.obj = e /\ loader'.i = 1 /\ loader'.cleanup = <<>>
    BY <1>1, CallIs DEF CallType
  <1>3. ObjectsType'
    BY <1>2 DEF Inv, ObjectsType, CallType
  <1>4. PagesInv'
    BY DEF Inv, PagesInv
  <1>5. loader.name = "idle"
    BY IdleIs
  <1>6. \A f \in Objects : RestOk(f, Segments(f), object[f].loaded, Owned(f))
    BY <1>5 DEF Inv, RestInv
  <1>7. \A f \in Objects : Segments(f)' = Segments(f) /\ Owned(f)' = Owned(f)
    BY DEF Segments, Owned
  <1>8. RestInv'
    BY <1>6, <1>7 DEF RestInv
  <1>9. CallOk(loader', Segments(e), object[e].loaded, Owned(e))
    <2>1. DOMAIN Segments(e) = 1 .. Len(Segments(e)) /\ Len(Segments(e)) \in Nat
      BY SegmentsAre DEF Inv
    <2>2. RestOk(e, Segments(e), object[e].loaded, Owned(e))
      BY <1>6
    <2>3. 1 <= Len(Segments(e)) + 1
      BY <2>1
    <2>4. QED
      BY <1>2, <2>1, <2>2, <2>3, EmptyRanges DEF RestOk, CallOk
  <1>10. CallInv'
    <2>1. Segments(loader.obj)' = Segments(e) /\ Owned(loader.obj)' = Owned(e) /\ object'[loader'.obj] = object[e]
      BY <1>2 DEF Segments, Owned
    <2>2. QED
      BY <1>9, <2>1 DEF CallInv
  <1>11. QED
    BY <1>3, <1>4, <1>8, <1>10 DEF Inv

(* A call ends in a panic: its object is left as it is.                    *)
LEMMA CallPanics ==
  ASSUME Inv, loader.name \in {"load", "unload", "destroy"}, NEW name \in {"panic", "unloadPanic"},
         loader' = LoaderCall(name, loader.obj), UNCHANGED <<object, mapped, blocks>>
  PROVE  Inv'
  <1>1. name \in CallNames /\ loader.obj \in Objects
    BY DEF CallNames, Inv, ObjectsType
  <1>2. loader' \in CallType /\ loader'.name = name /\ loader'.obj = loader.obj /\ loader'.cleanup = <<>>
    BY <1>1, CallIs DEF CallType
  <1>3. ObjectsType'
    BY <1>1, <1>2 DEF Inv, ObjectsType, CallType
  <1>4. PagesInv'
    BY DEF Inv, PagesInv
  <1>5. \A f \in Objects : Segments(f)' = Segments(f) /\ Owned(f)' = Owned(f)
    BY DEF Segments, Owned
  <1>6. RestInv'
    BY <1>2, <1>5 DEF Inv, RestInv
  <1>7. CallInv'
    BY <1>2 DEF CallInv, CallOk
  <1>8. QED
    BY <1>3, <1>4, <1>6, <1>7 DEF Inv

(* A call ends, and leaves its object with all or nothing.                 *)
LEMMA CallEnds ==
  ASSUME Inv, NEW e \in Objects, loader.obj = e, UNCHANGED <<mapped, blocks>>,
         loader' \in CallType, loader'.name \in {"idle", "running"}, loader'.cleanup = <<>>,
         loader'.name = "running" => loader'.obj = e,
         NEW o \in [segments : Images \cup {<<>>}, loaded : BOOLEAN], object' = [object EXCEPT ![e] = o],
         RestOk(e, o.segments, o.loaded, Owned(e))
  PROVE  Inv'
  <1>1. object \in [Objects -> [segments : Images \cup {<<>>}, loaded : BOOLEAN]]
    BY DEF Inv, ObjectsType
  <1>2. object'[e] = o /\ \A f \in Objects : f # e => object'[f] = object[f]
    BY <1>1
  <1>3. ObjectsType'
    BY <1>1 DEF ObjectsType, CallType
  <1>4. PagesInv'
    BY DEF Inv, PagesInv
  <1>5. \A f \in Objects : f # e => RestOk(f, Segments(f), object[f].loaded, Owned(f))
    BY DEF Inv, RestInv
  <1>6. ASSUME NEW f \in Objects PROVE RestOk(f, Segments(f), object[f].loaded, Owned(f))'
    <2>1. Owned(f)' = Owned(f)
      BY DEF Owned
    <2>2. CASE f = e
      BY <1>2, <2>1, <2>2 DEF Segments
    <2>3. CASE f # e
      BY <1>2, <1>5, <2>1, <2>3 DEF Segments
    <2>4. QED
      BY <2>2, <2>3
  <1>7. RestInv'
    BY <1>6 DEF RestInv
  <1>8. CallInv'
    BY DEF CallInv, CallOk
  <1>9. QED
    BY <1>3, <1>4, <1>7, <1>8 DEF Inv

(* Outside of calls an object that has nothing is replaced.                *)
LEMMA ObjectReplaced ==
  ASSUME Inv, loader = NoLoad, NEW e \in Objects, ~object[e].loaded, UNCHANGED <<mapped, blocks, loader>>,
         NEW o \in [segments : Images \cup {<<>>}, loaded : BOOLEAN], ~o.loaded,
         object' = [object EXCEPT ![e] = o]
  PROVE  Inv'
  <1>1. object \in [Objects -> [segments : Images \cup {<<>>}, loaded : BOOLEAN]]
    BY DEF Inv, ObjectsType
  <1>2. object'[e] = o /\ \A f \in Objects : f # e => object'[f] = object[f]
    BY <1>1
  <1>3. ObjectsType'
    BY <1>1 DEF Inv, ObjectsType
  <1>4. PagesInv'
    BY DEF Inv, PagesInv
  <1>5. \A f \in Objects : RestOk(f, Segments(f), object[f].loaded, Owned(f))
    BY IdleIs DEF Inv, RestInv
  <1>6. ASSUME NEW f \in Objects PROVE RestOk(f, Segments(f), object[f].loaded, Owned(f))'
    <2>1. Owned(f)' = Owned(f)
      BY DEF Owned
    <2>2. CASE f = e
      BY <1>2, <1>5, <2>1, <2>2 DEF RestOk
    <2>3. CASE f # e
      BY <1>2, <1>5, <2>1, <2>3 DEF Segments
    <2>4. QED
      BY <2>2, <2>3
  <1>7. RestInv'
    BY <1>6 DEF RestInv
  <1>8. CallInv'
    BY IdleIs DEF CallInv, CallOk
  <1>9. QED
    BY <1>3, <1>4, <1>7, <1>8 DEF Inv

(* A segment is passed over, and a load turns into its cleanup.         *)
LEMMA LoadGoesOn ==
  ASSUME Inv, SkipSegment \/ LoadFails
  PROVE  Inv'
  <1> DEFINE e == loader.obj
             segs == Segments(loader.obj)
  <1>1. loader.name = "load" /\ ~AllSegmentsDone /\ UNCHANGED <<object, mapped, blocks>>
    BY DEF SkipSegment, LoadFails
  <1>2. ObjectsType /\ e \in Objects /\ loader \in CallType
    BY <1>1 DEF Inv, ObjectsType
  <1>3. /\ loader.i \in Nat /\ loader.i \in 1 .. Len(segs) /\ SegmentAt = segs[loader.i]
        /\ loader.i + 1 \in Nat \ {0} /\ Len(segs) \in Nat
    BY <1>1, <1>2, NextSegment, SegmentsAre
  <1>4. CallOk(loader, segs, object[e].loaded, Owned(e))
    BY DEF Inv, CallInv
  <1>5. PagesInv'
    BY <1>1 DEF Inv, PagesInv
  <1>6. CASE SkipSegment
    <2>1. loader' = [loader EXCEPT !.i = loader.i + 1] /\ ~SegmentAt.aligned
      BY <1>6 DEF SkipSegment
    <2>2. loader' \in CallType
      BY <1>2, <1>3, <2>1, Zenon DEF CallType
    <2>3. loader'.name = "load" /\ loader'.obj = e /\ loader'.i = loader.i + 1 /\ loader'.cleanup = loader.cleanup
      BY <1>1, <1>2, <2>1 DEF CallType
    <2>4. 1 .. loader'.i - 1 = (1 .. loader.i - 1) \cup {loader.i} /\ ~Takes(segs[loader.i])
      BY <1>3, <2>1, <2>3 DEF Takes
    <2>5. /\ BlocksOf(e, segs, 1 .. loader'.i - 1) = BlocksOf(e, segs, 1 .. loader.i - 1)
          /\ Distinct(segs, 1 .. loader.i - 1) => Distinct(segs, 1 .. loader'.i - 1)
      BY <2>4 DEF BlocksOf, Distinct
    <2>6. CallOk(loader', segs, object[e].loaded, Owned(e))
      BY <1>1, <1>3, <1>4, <2>3, <2>5 DEF CallOk
    <2>7. QED
      BY <1>1, <1>2, <1>5, <2>2, <2>3, <2>6 DEF Inv, ObjectsType, RestInv, CallInv, Segments, Owned
  <1>7. CASE LoadFails
    <2>1. loader' = [loader EXCEPT !.name = "cleanup"]
      BY <1>7 DEF LoadFails
    <2>2. "cleanup" \in CallNames
      BY DEF CallNames
    <2>3. loader' \in CallType
      BY <1>2, <2>1, <2>2, Zenon DEF CallType
    <2>4. loader'.name = "cleanup" /\ loader'.obj = e /\ loader'.i = loader.i /\ loader'.cleanup = loader.cleanup
      BY <1>2, <2>1 DEF CallType
    <2>5. CallOk(loader', segs, object[e].loaded, Owned(e))
      BY <1>1, <1>4, <2>4 DEF CallOk
    <2>6. QED
      BY <1>1, <1>2, <1>5, <2>3, <2>4, <2>5 DEF Inv, ObjectsType, RestInv, CallInv, Segments, Owned
  <1>8. QED
    BY <1>6, <1>7

(* The ends of calls.                                                      *)
LEMMA CallStepEnds ==
  ASSUME Inv, CleanUpDone \/ LoadDone \/ ProgramReturns \/ UnloadDone
  PROVE  Inv'
  <1>1. /\ loader.name \in {"cleanup", "load", "running", "unload", "destroy"}
        /\ UNCHANGED <<mapped, blocks>>
    BY DEF CleanUpDone, LoadDone, ProgramReturns, UnloadDone, Unloading
  <1>2. ObjectsType /\ loader.obj \in Objects /\ loader \in CallType
    BY <1>1 DEF Inv, ObjectsType
  <1>3. PICK e \in Objects : e = loader.obj
    BY <1>2
  <1> DEFINE segs == Segments(e)
             T == [segments : Images \cup {<<>>}, loaded : BOOLEAN]
  <1>4. /\ object \in [Objects -> T] /\ object[e] \in T /\ Len(segs) \in Nat /\ DOMAIN segs = 1 .. Len(segs)
        /\ loader.i \in Nat \ {0} /\ segs = object[e].segments
    BY <1>2, SegmentsAre DEF ObjectsType, CallType, Segments
  <1>5. CallOk(loader, segs, object[e].loaded, Owned(e))
    BY <1>3 DEF Inv, CallInv
  <1>6. Absent \in T /\ ~Absent.loaded /\ Absent.segments = <<>>
    BY DEF Absent
  <1>7. CASE CleanUpDone
    <2>1. loader' = NoLoad /\ object' = [object EXCEPT ![e] = object[e]] /\ loader.name = "cleanup" /\ loader.cleanup = <<>>
      BY <1>4, <1>7 DEF CleanUpDone
    <2>2. RestOk(e, object[e].segments, object[e].loaded, Owned(e))
      BY <1>5, <2>1, EmptyRanges DEF CallOk, RestOk
    <2>3. QED
      BY <1>1, <1>3, <1>4, <2>1, <2>2, CallEnds, IdleIs
  <1>8. CASE ProgramReturns
    <2>1. loader' = NoLoad /\ object' = [object EXCEPT ![e] = object[e]] /\ loader.name = "running"
      BY <1>4, <1>8 DEF ProgramReturns
    <2>2. RestOk(e, object[e].segments, object[e].loaded, Owned(e))
      BY <2>1 DEF Inv, RestInv, Segments
    <2>3. QED
      BY <1>1, <1>3, <1>4, <2>1, <2>2, CallEnds, IdleIs
  <1>9. CASE LoadDone
    <2> DEFINE o == [object[e] EXCEPT !.loaded = TRUE]
    <2>1. loader' = LoaderCall("running", e) /\ object' = [object EXCEPT ![e] = o] /\ loader.name = "load" /\ AllSegmentsDone
      BY <1>3, <1>9 DEF LoadDone
    <2>2. o \in T
      BY <1>4, Zenon
    <2>3. o.segments = segs /\ o.loaded
      BY <1>4
    <2>4. loader.i = Len(segs) + 1
      BY <1>3, <1>4, <1>5, <2>1 DEF CallOk, AllSegmentsDone, Segments
    <2>5. 1 .. loader.i - 1 = DOMAIN segs
      BY <1>4, <2>4
    <2>6. RestOk(e, o.segments, o.loaded, Owned(e))
      BY <1>3, <1>5, <2>1, <2>3, <2>5 DEF CallOk, RestOk
    <2>7. "running" \in CallNames
      BY DEF CallNames
    <2> HIDE DEF o
    <2>8. QED
      BY <1>1, <1>3, <2>1, <2>2, <2>6, <2>7, CallEnds, CallIs
  <1>10. CASE UnloadDone
    <2>1. /\ loader' = NoLoad /\ loader.name \in {"unload", "destroy"} /\ AllSegmentsDone
          /\ object' = [object EXCEPT ![e] = IF loader.name = "destroy" THEN Absent
                                             ELSE [object[e] EXCEPT !.loaded = FALSE]]
      BY <1>3, <1>10 DEF UnloadDone, Unloading
    <2> DEFINE o == IF loader.name = "destroy" THEN Absent ELSE [object[e] EXCEPT !.loaded = FALSE]
    <2>2. [object[e] EXCEPT !.loaded = FALSE] \in T
      BY <1>4, Zenon
    <2>3. o \in T /\ ~o.loaded
      BY <1>4, <1>6, <2>2
    <2>4. loader.i .. Len(segs) = {}
      BY <1>3, <1>4, <2>1 DEF AllSegmentsDone, Segments
    <2>5. Owned(e) = {}
      BY <1>5, <2>1, <2>4, EmptyRanges DEF CallOk
    <2> HIDE DEF o
    <2>6. RestOk(e, o.segments, o.loaded, Owned(e))
      BY <2>3, <2>5 DEF RestOk
    <2>7. object' = [object EXCEPT ![e] = o]
      BY <2>1 DEF o
    <2>8. QED
      BY <1>1, <1>3, <2>1, <2>3, <2>6, <2>7, CallEnds, IdleIs
  <1>11. QED
    BY <1>7, <1>8, <1>9, <1>10

(* Constructor, exec, unloadSegments and destructor.                       *)
LEMMA ObjectCalls ==
  ASSUME Inv, NEW e \in Objects,
         Exec(e) \/ Unload(e) \/ DestroyExecutable(e) \/ \E image \in Images : ConstructExecutable(e, image)
  PROVE  Inv'
  <1>1. object[e].loaded \in BOOLEAN
    BY SegmentsAre DEF Inv
  <1>2. Absent \in [segments : Images \cup {<<>>}, loaded : BOOLEAN] /\ ~Absent.loaded
    BY DEF Absent
  <1>3. CASE Exec(e)
    <2>1. CASE object[e].loaded
      BY <1>3, <2>1, CallBegins DEF Exec
    <2>2. CASE ~object[e].loaded
      BY <1>3, <2>2, CallBegins DEF Exec
    <2>3. QED
      BY <2>1, <2>2
  <1>4. CASE Unload(e)
    BY <1>4, CallBegins DEF Unload
  <1>5. CASE DestroyExecutable(e)
    <2>1. CASE object[e].loaded /\ loader' = LoaderCall("destroy", e) /\ UNCHANGED object
      BY <1>5, <2>1, CallBegins DEF DestroyExecutable
    <2>2. CASE ~object[e].loaded /\ object' = [object EXCEPT ![e] = Absent] /\ UNCHANGED loader
      BY <1>2, <1>5, <2>2, ObjectReplaced DEF DestroyExecutable
    <2>3. QED
      BY <1>5, <2>1, <2>2 DEF DestroyExecutable
  <1>6. CASE \E image \in Images : ConstructExecutable(e, image)
    <2>1. PICK image \in Images : ConstructExecutable(e, image)
      BY <1>6
    <2>2. CASE loader' = LoaderCall("panic", e) /\ UNCHANGED object
      BY <2>1, <2>2, CallBegins DEF ConstructExecutable
    <2>3. CASE object' = [object EXCEPT ![e] = [segments |-> image, loaded |-> FALSE]] /\ UNCHANGED loader
      <3> DEFINE o == [segments |-> image, loaded |-> FALSE]
      <3>1. o \in [segments : Images \cup {<<>>}, loaded : BOOLEAN] /\ ~o.loaded
        OBVIOUS
      <3> HIDE DEF o
      <3>2. object' = [object EXCEPT ![e] = o]
        BY <2>3 DEF o
      <3>3. QED
        BY <1>2, <2>1, <2>3, <3>1, <3>2, ObjectReplaced DEF ConstructExecutable
    <2>4. QED
      BY <2>1, <2>2, <2>3 DEF ConstructExecutable
  <1>7. QED
    BY <1>3, <1>4, <1>5, <1>6

-----------------------------------------------------------------------------
(* Steps that move pages.                                                  *)

(* The heap takes and gives back pages that are no object's.               *)
LEMMA HeapSteps ==
  ASSUME Inv, (\E p \in Pages : HeapTakes(p)) \/ (\E b \in blocks : HeapGivesBack(b))
  PROVE  Inv'
  <1>1. object' = object /\ loader' = loader
    BY DEF HeapTakes, HeapGivesBack
  <1>2. blocks \subseteq Blocks /\ Held(mapped, blocks) /\ Heap \notin Objects
    BY ExecutableAssumption DEF Inv, PagesInv, Heap
  <1>3. PagesInv' /\ \A e \in Objects : Owned(e)' = Owned(e)
    <2>1. ASSUME NEW p \in Pages, HeapTakes(p)
          PROVE  PagesInv' /\ \A e \in Objects : Owned(e)' = Owned(e)
      <3> DEFINE b == Block(Heap, p, 1)
      <3>1. p \notin mapped /\ mapped' = mapped \cup {p} /\ blocks' = blocks \cup {b}
        BY <2>1 DEF HeapTakes
      <3>2. /\ b \in [owner : Objects \cup {Heap}, first : Pages, n : Nat \ {0}]
            /\ b.owner = Heap /\ b.first = p /\ b.n = 1
        BY DEF Block
      <3>3. PagesOf(b) = {p}
        BY <3>2, ExecutableAssumption DEF PagesOf
      <3> HIDE DEF b
      <3>4. Held(mapped', blocks')
        BY <1>2, <3>1, <3>3, HeldAdd
      <3>5. \A e \in Objects : Owned(e)' = Owned(e)
        BY <1>2, <3>1, <3>2 DEF Owned
      <3>6. b \in Blocks
        BY <3>2, <3>3 DEF Blocks
      <3>7. QED
        BY <1>2, <3>1, <3>4, <3>5, <3>6 DEF PagesInv
    <2>2. ASSUME NEW b \in blocks, HeapGivesBack(b)
          PROVE  PagesInv' /\ \A e \in Objects : Owned(e)' = Owned(e)
      <3>1. b.owner = Heap /\ mapped' = mapped \ PagesOf(b) /\ blocks' = blocks \ {b}
        BY <2>2 DEF HeapGivesBack, Pfree
      <3>2. Held(mapped', blocks')
        BY <1>2, <3>1, HeldRemove
      <3>3. \A e \in Objects : Owned(e)' = Owned(e)
        BY <1>2, <3>1 DEF Owned
      <3>4. QED
        BY <1>2, <3>1, <3>2, <3>3 DEF PagesInv
    <2>3. QED
      BY <2>1, <2>2
  <1>4. ObjectsType'
    BY <1>1 DEF Inv, ObjectsType
  <1>5. RestInv'
    BY <1>1, <1>3 DEF Inv, RestInv, Segments
  <1>6. CallInv'
    <2>1. CASE loader.name = "idle"
      BY <1>1, <2>1 DEF Inv, CallInv, CallOk
    <2>2. CASE loader.name # "idle"
      <3>1. PICK e \in Objects : e = loader.obj
        BY <2>2 DEF Inv, ObjectsType
      <3>2. CallOk(loader, Segments(e), object[e].loaded, Owned(e))
        BY <3>1 DEF Inv, CallInv
      <3>3. Segments(loader.obj)' = Segments(e) /\ Owned(loader.obj)' = Owned(e)'
        BY <1>1, <3>1 DEF Segments, Owned
      <3>4. QED
        BY <1>1, <1>3, <3>1, <3>2, <3>3 DEF CallInv
    <2>3. QED
      BY <2>1, <2>2
  <1>7. QED
    BY <1>3, <1>4, <1>5, <1>6 DEF Inv

(* A step of a call that moves pages of its object and of no other.        *)
LEMMA CallMovesPages ==
  ASSUME Inv, NEW e \in Objects, loader.obj = e, loader.name \notin {"idle", "running"}, object' = object,
         loader' \in CallType, loader'.name = loader.name, loader'.obj = e, PagesInv',
         \A f \in Objects : f # e => Owned(f)' = Owned(f),
         CallOk(loader', Segments(e), object[e].loaded, Owned(e)')
  PROVE  Inv'
  <1>1. ObjectsType'
    BY DEF Inv, ObjectsType
  <1>2. RestInv'
    BY DEF Inv, RestInv, Segments
  <1>3. CallInv'
    <2>1. Segments(loader.obj)' = Segments(e) /\ Owned(loader.obj)' = Owned(e)'
      BY DEF Segments, Owned
    <2>2. QED
      BY <2>1 DEF CallInv
  <1>4. QED
    BY <1>1, <1>2, <1>3 DEF Inv

LEMMA ListGrows ==
  ASSUME NEW S, NEW list \in Seq(S), NEW b \in S
  PROVE  /\ Listed(Append(list, b)) = Listed(list) \cup (IF b.n # 0 THEN {b} ELSE {})
         /\ (b \notin Listed(list) /\ ListDistinct(list)) => ListDistinct(Append(list, b))
  <1> DEFINE longer == Append(list, b)
  <1>1. /\ DOMAIN longer = DOMAIN list \cup {Len(list) + 1} /\ longer[Len(list) + 1] = b
        /\ Len(list) + 1 \notin DOMAIN list /\ \A k \in DOMAIN list : longer[k] = list[k]
    OBVIOUS
  <1> HIDE DEF longer
  <1>2. Listed(longer) = Listed(list) \cup (IF b.n # 0 THEN {b} ELSE {})
    BY <1>1 DEF Listed
  <1>3. (b \notin Listed(list) /\ ListDistinct(list)) => ListDistinct(longer)
    BY <1>1 DEF Listed, ListDistinct
  <1>4. QED
    BY <1>2, <1>3 DEF longer

LEMMA ListShrinks ==
  ASSUME NEW S, NEW list \in Seq(S), list # <<>>, ListDistinct(list)
  PROVE  /\ Listed(Tail(list)) = Listed(list) \ {Head(list)} /\ ListDistinct(Tail(list))
         /\ Tail(list) \in Seq(S) /\ Head(list) \in S
         /\ Head(list).n # 0 => Head(list) \in Listed(list)
  <1> DEFINE rest == Tail(list)
             h == Head(list)
  <1>1. /\ DOMAIN rest = 1 .. Len(list) - 1 /\ DOMAIN list = 1 .. Len(list) /\ Len(list) \in Nat \ {0}
        /\ \A k \in 1 .. Len(list) - 1 : rest[k] = list[k + 1]
        /\ h = list[1] /\ rest \in Seq(S) /\ h \in S
    OBVIOUS
  <1> HIDE DEF rest, h
  <1>2. \A k \in DOMAIN rest : k + 1 \in DOMAIN list /\ k + 1 # 1
    BY <1>1
  <1>3. \A k \in DOMAIN list : k = 1 \/ (k - 1 \in DOMAIN rest /\ rest[k - 1] = list[k])
    BY <1>1
  <1>4. Listed(rest) = Listed(list) \ {h}
    <2>1. ASSUME NEW x \in Listed(rest) PROVE x \in Listed(list) \ {h}
      <3>1. PICK k \in DOMAIN rest : rest[k].n # 0 /\ x = rest[k]
        BY DEF Listed
      <3>2. k + 1 \in DOMAIN list /\ x = list[k + 1] /\ list[k + 1].n # 0 /\ 1 \in DOMAIN list /\ k + 1 # 1
        BY <1>1, <1>2, <3>1
      <3>3. x # list[1]
        BY <3>2 DEF ListDistinct
      <3>4. QED
        BY <1>1, <3>2, <3>3 DEF Listed
    <2>2. ASSUME NEW x \in Listed(list) \ {h} PROVE x \in Listed(rest)
      <3>1. PICK k \in DOMAIN list : list[k].n # 0 /\ x = list[k]
        BY DEF Listed
      <3>2. k # 1
        BY <1>1, <3>1
      <3>3. QED
        BY <1>3, <3>1, <3>2 DEF Listed
    <2>3. QED
      BY <2>1, <2>2
  <1>5. ListDistinct(rest)
    <2>1. ASSUME NEW k \in DOMAIN rest, NEW l \in DOMAIN rest, k # l, rest[k].n # 0, rest[l].n # 0
          PROVE  rest[k] # rest[l]
      <3>1. k + 1 \in DOMAIN list /\ l + 1 \in DOMAIN list /\ k + 1 # l + 1
        BY <1>1, <2>1
      <3>2. rest[k] = list[k + 1] /\ rest[l] = list[l + 1]
        BY <1>1
      <3>3. QED
        BY <2>1, <3>1, <3>2 DEF ListDistinct
    <2>2. QED
      BY <2>1 DEF ListDistinct
  <1>6. h.n # 0 => h \in Listed(list)
    <2>1. 1 \in DOMAIN list
      BY <1>1
    <2>2. QED
      BY <1>1, <2>1 DEF Listed
  <1>7. QED
    BY <1>1, <1>4, <1>5, <1>6 DEF rest, h

(* A segment is loaded: its pages were nobody's, and the list has them.   *)
LEMMA LoadSegmentStep ==
  ASSUME Inv, LoadSegment
  PROVE  Inv'
  <1>1. loader.name = "load" /\ ~AllSegmentsDone /\ SegmentAt.aligned /\ ~PallocFails(SegmentAt) /\ object' = object
    BY DEF LoadSegment
  <1>2. ObjectsType /\ loader.obj \in Objects /\ loader \in CallType
    BY <1>1 DEF Inv, ObjectsType
  <1>3. PICK e \in Objects : e = loader.obj
    BY <1>2
  <1> DEFINE segs == Segments(e)
             i == loader.i
             s == segs[i]
             b == Block(e, s.page, PageCount(s))
             list == loader.cleanup
             B == [owner : Objects, first : Nat, n : Nat]
  <1>4. /\ i \in DOMAIN segs /\ segs \in Images /\ SegmentAt = s /\ i \in 1 .. Len(segs) /\ i \in Nat
        /\ i + 1 \in Nat \ {0} /\ Len(segs) \in Nat
    BY <1>1, <1>2, <1>3, NextSegment, SegmentsAre
  <1>5. /\ (PageCount(s) # 0 <=> s.size > 0) /\ b.owner = e /\ b.first = s.page /\ b.n = PageCount(s)
        /\ b.first \in Nat /\ b \in B /\ (s.size > 0 => b \in Blocks /\ s.page \in PagesOf(b))
    BY <1>4, SegmentRun
  <1>6. PagesOf(Block(Heap, s.page, PageCount(s))) = PagesOf(b)
    BY DEF Block, PagesOf
  <1>7. PagesOf(b) \cap mapped = {}
    BY <1>1, <1>4, <1>6 DEF PallocFails
  <1>8. /\ mapped' = mapped \cup PagesOf(b) /\ blocks' = (IF b.n = 0 THEN blocks ELSE blocks \cup {b})
        /\ loader' = [loader EXCEPT !.i = i + 1, !.cleanup = Append(list, b)]
    BY <1>3, <1>4 DEF LoadSegment
  <1> HIDE DEF b
  <1>9. blocks \subseteq Blocks /\ Held(mapped, blocks)
    BY DEF Inv, PagesInv
  <1>10. CallOk(loader, segs, object[e].loaded, Owned(e))
    BY <1>3 DEF Inv, CallInv
  <1>11. /\ Owned(e) = BlocksOf(e, segs, 1 .. i - 1) /\ Distinct(segs, 1 .. i - 1) /\ ~object[e].loaded
         /\ Owned(e) = Listed(list) /\ ListDistinct(list)
    BY <1>1, <1>3, <1>10 DEF CallOk
  <1>12. list \in Seq(B) /\ Append(list, b) \in Seq(B)
    BY <1>2, <1>5 DEF CallType
  <1>13. loader' \in CallType
    BY <1>2, <1>4, <1>8, <1>12, Zenon DEF CallType
  <1>14. loader'.name = "load" /\ loader'.obj = e /\ loader'.i = i + 1 /\ loader'.cleanup = Append(list, b)
    BY <1>1, <1>2, <1>3, <1>8 DEF CallType
  <1>15. 1 .. loader'.i - 1 = (1 .. i - 1) \cup {i} /\ i \notin 1 .. i - 1 /\ loader'.i <= Len(segs) + 1
    BY <1>4, <1>14
  <1> HIDE DEF list, B
  <1>16. /\ Listed(Append(list, b)) = Listed(list) \cup (IF b.n # 0 THEN {b} ELSE {})
         /\ (b \notin Listed(list)) => ListDistinct(Append(list, b))
    BY <1>5, <1>11, <1>12, ListGrows
  <1>17. CASE b.n = 0
    <2>1. ~Takes(s)
      BY <1>5, <1>17 DEF Takes
    <2>2. mapped' = mapped /\ blocks' = blocks
      BY <1>5, <1>8, <1>9, <1>17, HeldNothing
    <2>3. PagesInv'
      BY <2>2 DEF Inv, PagesInv
    <2>4. \A f \in Objects : Owned(f)' = Owned(f)
      BY <2>2 DEF Owned
    <2>5. /\ BlocksOf(e, segs, 1 .. loader'.i - 1) = BlocksOf(e, segs, 1 .. i - 1)
          /\ Distinct(segs, 1 .. loader'.i - 1)
      BY <1>11, <1>15, <2>1 DEF BlocksOf, Distinct
    <2>6. b \notin Listed(list)
      BY <1>17 DEF Listed
    <2>7. CallOk(loader', segs, object[e].loaded, Owned(e)')
      BY <1>11, <1>14, <1>15, <1>16, <1>17, <2>4, <2>5, <2>6 DEF CallOk
    <2>8. QED
      BY <1>1, <1>3, <1>13, <1>14, <2>3, <2>4, <2>7, CallMovesPages
  <1>18. CASE b.n # 0
    <2>1. Takes(s) /\ b \in Blocks /\ s.page \in PagesOf(b)
      BY <1>1, <1>4, <1>5, <1>18 DEF Takes
    <2>2. blocks' = blocks \cup {b} /\ mapped' = mapped \cup PagesOf(b)
      BY <1>8, <1>18
    <2>3. PagesInv'
      BY <1>7, <1>9, <2>1, <2>2, HeldAdd DEF PagesInv
    <2>4. Owned(e)' = Owned(e) \cup {b} /\ \A f \in Objects : f # e => Owned(f)' = Owned(f)
      BY <1>5, <2>2 DEF Owned
    <2>5. s.page \notin mapped /\ b \notin blocks
      BY <1>7, <1>9, <2>1 DEF Held
    <2>6. ASSUME NEW j \in 1 .. i - 1, Takes(segs[j]) PROVE segs[j].page \in mapped
      <3>1. j \in DOMAIN segs
        BY <1>2, <1>4, SegmentsAre
      <3>2. segs[j].page \in PagesOf(Block(e, segs[j].page, PageCount(segs[j])))
        BY <1>4, <2>6, <3>1, SegmentRun DEF Takes
      <3>3. Block(e, segs[j].page, PageCount(segs[j])) \in BlocksOf(e, segs, 1 .. i - 1)
        BY <2>6 DEF BlocksOf
      <3>4. Block(e, segs[j].page, PageCount(segs[j])) \in blocks
        BY <1>11, <3>3 DEF Owned
      <3>5. QED
        BY <1>9, <3>2, <3>4 DEF Held
    <2>7. BlocksOf(e, segs, 1 .. loader'.i - 1) = BlocksOf(e, segs, 1 .. i - 1) \cup {b}
      BY <1>15, <2>1 DEF BlocksOf, b
    <2>8. Distinct(segs, 1 .. loader'.i - 1)
      BY <1>11, <1>15, <2>5, <2>6 DEF Distinct
    <2>9. b \notin Listed(list)
      BY <1>11, <2>5 DEF Owned
    <2>10. CallOk(loader', segs, object[e].loaded, Owned(e)')
      BY <1>11, <1>14, <1>15, <1>16, <1>18, <2>4, <2>7, <2>8, <2>9 DEF CallOk
    <2>11. QED
      BY <1>1, <1>3, <1>13, <1>14, <2>3, <2>4, <2>10, CallMovesPages
  <1>19. QED
    BY <1>17, <1>18

(* What a load that failed had mapped goes back, run by run.               *)
LEMMA CleanUpStep ==
  ASSUME Inv, CleanUpSegment
  PROVE  Inv'
  <1>1. /\ loader.name = "cleanup" /\ loader.cleanup # <<>> /\ object' = object
        /\ loader' = [loader EXCEPT !.cleanup = Tail(loader.cleanup)]
    BY DEF CleanUpSegment
  <1>2. loader.obj \in Objects /\ loader \in CallType
    BY <1>1 DEF Inv, ObjectsType
  <1>3. PICK e \in Objects : e = loader.obj
    BY <1>2
  <1> DEFINE list == loader.cleanup
             h == Head(list)
             B == [owner : Objects, first : Nat, n : Nat]
  <1>4. mapped' = mapped \ PagesOf(h) /\ blocks' = blocks \ {h}
    BY DEF CleanUpSegment, Pfree
  <1>5. ~object[e].loaded /\ Owned(e) = Listed(list) /\ ListDistinct(list)
    BY <1>1, <1>3 DEF Inv, CallInv, CallOk
  <1>6. list \in Seq(B)
    BY <1>2 DEF CallType
  <1>7. /\ Listed(Tail(list)) = Listed(list) \ {h} /\ ListDistinct(Tail(list)) /\ Tail(list) \in Seq(B) /\ h \in B
        /\ h.n # 0 => h \in Listed(list)
    BY <1>1, <1>5, <1>6, ListShrinks
  <1> HIDE DEF h
  <1>8. loader' \in CallType
    BY <1>1, <1>2, <1>7, Zenon DEF CallType
  <1>9. loader'.name = "cleanup" /\ loader'.obj = e /\ loader'.cleanup = Tail(list)
    BY <1>1, <1>2, <1>3 DEF CallType
  <1>10. blocks \subseteq Blocks /\ Held(mapped, blocks)
    BY DEF Inv, PagesInv
  <1>11. Held(mapped', blocks') /\ (h \in blocks => h.owner = e)
    <2>1. CASE h.n = 0
      BY <1>4, <1>7, <1>10, <2>1, HeldNothing DEF Blocks
    <2>2. CASE h.n # 0
      <3>1. h \in blocks /\ h.owner = e
        BY <1>5, <1>7, <2>2 DEF Owned
      <3>2. QED
        BY <1>4, <1>10, <3>1, HeldRemove
    <2>3. QED
      BY <2>1, <2>2
  <1>12. PagesInv'
    BY <1>4, <1>10, <1>11 DEF PagesInv
  <1>13. Owned(e)' = Owned(e) \ {h} /\ \A f \in Objects : f # e => Owned(f)' = Owned(f)
    BY <1>4, <1>11 DEF Owned
  <1>14. CallOk(loader', Segments(e), object[e].loaded, Owned(e)')
    BY <1>5, <1>7, <1>9, <1>13 DEF CallOk
  <1>15. QED
    BY <1>1, <1>3, <1>8, <1>9, <1>12, <1>13, <1>14, CallMovesPages

(* A segment is unloaded: its run is held, and no later one is the same.   *)
LEMMA UnloadSegmentStep ==
  ASSUME Inv, UnloadSegment
  PROVE  Inv'
  <1>1. loader.name \in {"unload", "destroy"} /\ ~AllSegmentsDone /\ UnloadPages # 0 /\ object' = object
    BY DEF UnloadSegment, Unloading
  <1>2. ObjectsType /\ loader.obj \in Objects /\ loader \in CallType
    BY <1>1 DEF Inv, ObjectsType
  <1>3. PICK e \in Objects : e = loader.obj
    BY <1>2
  <1> DEFINE segs == Segments(e)
             i == loader.i
             s == segs[i]
             b == Block(e, s.page, PageCount(s))
  <1>4. /\ i \in DOMAIN segs /\ segs \in Images /\ SegmentAt = s /\ i \in 1 .. Len(segs) /\ i \in Nat
        /\ i + 1 \in Nat \ {0} /\ Len(segs) \in Nat /\ DOMAIN segs = 1 .. Len(segs)
    BY <1>1, <1>2, <1>3, NextSegment, SegmentsAre
  <1>5. mapped' = mapped \ PagesOf(b) /\ blocks' = blocks \ {b} /\ loader' = [loader EXCEPT !.i = i + 1]
    BY <1>3, <1>4 DEF UnloadSegment, UnloadPages, Pfree
  <1>6. Takes(s) /\ b.owner = e /\ b.first = s.page
    BY <1>1, <1>4, SegmentRun DEF UnloadPages, Takes
  <1>7. object[e].loaded /\ Owned(e) = BlocksOf(e, segs, i .. Len(segs)) /\ Distinct(segs, DOMAIN segs)
        /\ loader.cleanup = <<>>
    BY <1>1, <1>3 DEF Inv, CallInv, CallOk
  <1>8. i .. Len(segs) = {i} \cup (i + 1 .. Len(segs)) /\ i \notin i + 1 .. Len(segs)
        /\ i .. Len(segs) \subseteq DOMAIN segs
    BY <1>4
  <1>9. b \in Owned(e)
    BY <1>6, <1>7, <1>8 DEF BlocksOf
  <1>10. BlocksOf(e, segs, i + 1 .. Len(segs)) = BlocksOf(e, segs, i .. Len(segs)) \ {b}
    <2>1. \A j \in i + 1 .. Len(segs) : Takes(segs[j]) => Block(e, segs[j].page, PageCount(segs[j])) # b
      <3>1. ASSUME NEW j \in i + 1 .. Len(segs), Takes(segs[j])
            PROVE  Block(e, segs[j].page, PageCount(segs[j])) # b
        <4>1. j # i /\ j \in DOMAIN segs
          BY <1>8
        <4>2. segs[j].page # s.page
          BY <1>4, <1>6, <1>7, <3>1, <4>1 DEF Distinct
        <4>3. Block(e, segs[j].page, PageCount(segs[j])).first = segs[j].page
          BY DEF Block
        <4>4. QED
          BY <1>6, <4>2, <4>3
      <3>2. QED
        BY <3>1
    <2> HIDE DEF s
    <2>2. QED
      BY <1>8, <2>1 DEF BlocksOf, b, s
  <1> HIDE DEF b
  <1>11. blocks \subseteq Blocks /\ Held(mapped, blocks) /\ b \in blocks
    BY <1>9 DEF Inv, PagesInv, Owned
  <1>12. PagesInv'
    BY <1>5, <1>11, HeldRemove DEF PagesInv
  <1>13. Owned(e)' = Owned(e) \ {b} /\ \A f \in Objects : f # e => Owned(f)' = Owned(f)
    BY <1>5, <1>6 DEF Owned
  <1>14. loader' \in CallType
    BY <1>2, <1>4, <1>5, Zenon DEF CallType
  <1>15. loader'.name = loader.name /\ loader'.obj = e /\ loader'.i = i + 1 /\ loader'.cleanup = loader.cleanup
    BY <1>2, <1>3, <1>5 DEF CallType
  <1>16. loader'.i <= Len(segs) + 1
    BY <1>4, <1>15
  <1>17. CallOk(loader', segs, object[e].loaded, Owned(e)')
    BY <1>1, <1>7, <1>10, <1>13, <1>15, <1>16 DEF CallOk
  <1>18. QED
    BY <1>1, <1>3, <1>12, <1>13, <1>14, <1>15, <1>17, CallMovesPages

(* The runs of an object become another's.                                   *)
LEMMA MoveStep ==
  ASSUME Inv, NEW from \in Objects, NEW to \in Objects, MoveConstruct(from, to)
  PROVE  Inv'
  <1> DEFINE ren(b) == IF b.owner = from THEN [b EXCEPT !.owner = to] ELSE b
             T == [segments : Images \cup {<<>>}, loaded : BOOLEAN]
  <1>1. /\ loader = NoLoad /\ object[from] # Absent /\ object[to] = Absent /\ UNCHANGED <<mapped, loader>>
        /\ object' = [object EXCEPT ![to] = object[from], ![from] = Absent]
        /\ blocks' = {ren(b) : b \in blocks} /\ from # to
    BY DEF MoveConstruct
  <1>2. object \in [Objects -> T] /\ Absent \in T /\ ~Absent.loaded /\ object[from] \in T
    BY DEF Inv, ObjectsType, Absent
  <1>3. /\ object'[to] = object[from] /\ object'[from] = Absent
        /\ \A f \in Objects : f \notin {from, to} => object'[f] = object[f]
    BY <1>1, <1>2
  <1>4. object' \in [Objects -> T]
    BY <1>1, <1>2
  <1>5. \A f \in Objects : RestOk(f, Segments(f), object[f].loaded, Owned(f))
    BY <1>1, IdleIs DEF Inv, RestInv
  <1>6. Owned(to) = {} /\ blocks \subseteq Blocks /\ Held(mapped, blocks)
    BY <1>1, <1>2, <1>5 DEF RestOk, Inv, PagesInv
  <1>7. ASSUME NEW b \in blocks
        PROVE  /\ ren(b) \in Blocks /\ PagesOf(ren(b)) = PagesOf(b) /\ b.owner # to
               /\ ren(b).owner = (IF b.owner = from THEN to ELSE b.owner)
               /\ b.owner # from => ren(b) = b
    <2>1. b \in Blocks /\ b.owner # to
      BY <1>6 DEF Owned
    <2>2. [b EXCEPT !.owner = to] \in [owner : Objects \cup {Heap}, first : Pages, n : Nat \ {0}]
      BY <2>1, Zenon DEF Blocks
    <2>3. /\ [b EXCEPT !.owner = to].owner = to /\ [b EXCEPT !.owner = to].first = b.first
          /\ [b EXCEPT !.owner = to].n = b.n
      BY <2>1 DEF Blocks
    <2>4. PagesOf([b EXCEPT !.owner = to]) = PagesOf(b)
      BY <2>3 DEF PagesOf
    <2>5. [b EXCEPT !.owner = to] \in Blocks
      BY <2>1, <2>2, <2>4 DEF Blocks
    <2>6. QED
      BY <2>1, <2>3, <2>4, <2>5
  <1>8. \A segs, j : ren(Block(from, segs[j].page, PageCount(segs[j]))) = Block(to, segs[j].page, PageCount(segs[j]))
    BY DEF Block
  <1> HIDE DEF ren
  <1>9. PagesInv'
    <2>1. blocks' \subseteq Blocks
      BY <1>1, <1>7
    <2>2. mapped' = UNION {PagesOf(x) : x \in blocks'}
      <3>1. {PagesOf(x) : x \in blocks'} = {PagesOf(b) : b \in blocks}
        BY <1>1, <1>7
      <3>2. QED
        BY <1>1, <1>6, <3>1 DEF Held
    <2>3. ASSUME NEW x \in blocks', NEW y \in blocks', x # y PROVE PagesOf(x) \cap PagesOf(y) = {}
      <3>1. PICK b \in blocks, c \in blocks : x = ren(b) /\ y = ren(c)
        BY <1>1
      <3>2. PagesOf(x) = PagesOf(b) /\ PagesOf(y) = PagesOf(c) /\ b # c
        BY <1>7, <2>3, <3>1
      <3>3. PagesOf(b) \cap PagesOf(c) = {}
        BY <1>6, <3>2 DEF Held
      <3>4. QED
        BY <3>2, <3>3
    <2>4. QED
      BY <2>1, <2>2, <2>3 DEF PagesInv, Held
  <1>10. /\ Owned(from)' = {} /\ Owned(to)' = {ren(b) : b \in Owned(from)}
         /\ \A f \in Objects : f \notin {from, to} => Owned(f)' = Owned(f)
    <2>1. Owned(from)' = {}
      BY <1>1, <1>7 DEF Owned
    <2>2. Owned(to)' = {ren(b) : b \in Owned(from)}
      BY <1>1, <1>7 DEF Owned
    <2>3. ASSUME NEW f \in Objects, f \notin {from, to} PROVE Owned(f)' = Owned(f)
      BY <1>1, <1>7, <2>3 DEF Owned
    <2>4. QED
      BY <2>1, <2>2, <2>3
  <1>11. ASSUME NEW f \in Objects PROVE RestOk(f, Segments(f), object[f].loaded, Owned(f))'
    <2>1. CASE f = from
      BY <1>2, <1>3, <1>10, <2>1 DEF RestOk
    <2>2. CASE f = to
      <3>1. Segments(f)' = Segments(from) /\ object'[f].loaded = object[from].loaded
        BY <1>3, <2>2 DEF Segments
      <3>2. RestOk(from, Segments(from), object[from].loaded, Owned(from))
        BY <1>5
      <3>3. CASE ~object[from].loaded
        BY <1>10, <2>2, <3>1, <3>2, <3>3 DEF RestOk
      <3>4. CASE object[from].loaded
        <4> DEFINE segs == Segments(from)
        <4>1. Owned(from) = BlocksOf(from, segs, DOMAIN segs) /\ Distinct(segs, DOMAIN segs)
          BY <3>2, <3>4 DEF RestOk
        <4>2. {ren(b) : b \in BlocksOf(from, segs, DOMAIN segs)} = BlocksOf(to, segs, DOMAIN segs)
          BY <1>8 DEF BlocksOf
        <4>3. QED
          BY <1>10, <2>2, <3>1, <3>4, <4>1, <4>2 DEF RestOk
      <3>5. QED
        BY <3>3, <3>4
    <2>3. CASE f \notin {from, to}
      BY <1>3, <1>5, <1>10, <2>3 DEF Segments
    <2>4. QED
      BY <2>1, <2>2, <2>3
  <1>12. RestInv'
    BY <1>11 DEF RestInv
  <1>13. CallInv'
    BY <1>1, IdleIs DEF CallInv, CallOk
  <1>14. ObjectsType'
    BY <1>1, <1>4 DEF Inv, ObjectsType
  <1>15. QED
    BY <1>9, <1>12, <1>13, <1>14 DEF Inv

LEMMA InvStep == Inv /\ [LoaderNext]_loaderVars => Inv'
  <1> SUFFICES ASSUME Inv, [LoaderNext]_loaderVars PROVE Inv'
    OBVIOUS
  <1>1. CASE UNCHANGED loaderVars
    BY <1>1 DEF loaderVars, Inv, ObjectsType, PagesInv, RestInv, CallInv, Segments, Owned
  <1>2. CASE OutOfFrames
    BY <1>2, CallPanics DEF OutOfFrames
  <1>3. CASE UnloadPanics
    BY <1>3, CallPanics DEF UnloadPanics, Unloading
  <1>4. CASE LoaderNext /\ ~OutOfFrames /\ ~UnloadPanics
    BY <1>4, LoadGoesOn, CallStepEnds, ObjectCalls, HeapSteps, LoadSegmentStep, CleanUpStep, UnloadSegmentStep, MoveStep
       DEF LoaderNext, CallStep
  <1>5. QED
    BY <1>1, <1>2, <1>3, <1>4

LEMMA InvMeans == Inv => MappedIsHeld /\ LoadIsAllOrNothing
  <1> SUFFICES ASSUME Inv PROVE MappedIsHeld /\ LoadIsAllOrNothing
    OBVIOUS
  <1>1. blocks \subseteq Blocks /\ Held(mapped, blocks)
    BY DEF Inv, PagesInv
  <1>2. LoaderTypeOK
    <2>1. mapped \subseteq Pages /\ blocks \subseteq [owner : Objects \cup {Heap}, first : Pages, n : Nat \ {0}]
      BY <1>1 DEF Blocks, Held
    <2>2. \A k \in DOMAIN loader.cleanup : loader.cleanup[k].n = 0 \/ loader.cleanup[k] \in blocks
      <3>1. CASE loader.name \in {"load", "cleanup"}
        <4>1. Owned(loader.obj) = Listed(loader.cleanup)
          BY <3>1 DEF Inv, CallInv, CallOk
        <4>2. QED
          BY <4>1 DEF Owned, Listed
      <3>2. CASE loader.name \notin {"load", "cleanup"}
        BY <3>2 DEF Inv, CallInv, CallOk
      <3>3. QED
        BY <3>1, <3>2
    <2>3. QED
      BY <2>1, <2>2 DEF Inv, ObjectsType, CallType, LoaderTypeOK
  <1>3. LoadIsAllOrNothing
    <2> SUFFICES ASSUME loader.name \in {"idle", "running"}, NEW e \in Objects
                 PROVE  {b \in blocks : b.owner = e} = IF object[e].loaded THEN SegmentBlocks(e) ELSE {}
      BY DEF LoadIsAllOrNothing
    <2>1. RestOk(e, Segments(e), object[e].loaded, Owned(e))
      BY DEF Inv, RestInv
    <2>2. SegmentBlocks(e) = BlocksOf(e, Segments(e), DOMAIN Segments(e))
      BY DEF SegmentBlocks, BlocksOf, Takes, Segments
    <2>3. QED
      BY <2>1, <2>2 DEF RestOk, Owned
  <1>4. QED
    BY <1>1, <1>2, <1>3 DEF Held, MappedIsHeld

(* Whatever is loaded, moved, unloaded, or fails half way, and whatever    *)
(* the heap takes meanwhile: the pages present are exactly those given     *)
(* out, in disjoint runs, which is what the MMU assumes of its clients.    *)
THEOREM LoaderFreesWhatItTook == LoaderSpec => []MappedIsHeld
  <1>1. LoaderSpec => []Inv
    BY InvInit, InvStep, PTL DEF LoaderSpec
  <1>2. QED
    BY <1>1, InvMeans, PTL

(* A program has the pages of all its segments or of none.                 *)
THEOREM ProgramsLoadWholly == LoaderSpec => []LoadIsAllOrNothing
  <1>1. LoaderSpec => []Inv
    BY InvInit, InvStep, PTL DEF LoaderSpec
  <1>2. QED
    BY <1>1, InvMeans, PTL

=============================================================================
