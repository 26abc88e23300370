------------------------------ MODULE Liballoc ------------------------------
(***************************************************************************)
(* The heap (libc/src/stdlib/liballoc.c): malloc, realloc and free on      *)
(* major blocks, runs of pages obtained from the MMU, each of which holds  *)
(* a list of minor blocks, the allocations.                                *)
(*                                                                         *)
(* An address is a number of words; page k begins at k * PageSize and 0 is *)
(* NULL.  A header is known by its address, so that majors and minors are  *)
(* functions on the addresses of the headers that exist.  One step is one  *)
(* label of malloc's loops (`call.at'); free has no loop and is one step.  *)
(* liballoc_lock does nothing, and no interrupt handler allocates.         *)
(*                                                                         *)
(* Requests are assumed small enough not to wrap around an unsigned long,  *)
(* and clients free or reallocate only pointers they hold.                 *)
(***************************************************************************)
EXTENDS Integers, FiniteSets, SequencesExt

CONSTANTS
  MajorSize,   (* sizeof(struct liballoc_major)                            *)
  MinorSize,   (* sizeof(struct liballoc_minor)                            *)
  Alignment,   (* ALIGNMENT, which is also ALIGN_INFO                      *)
  PageSize,    (* l_pageSize                                               *)
  PageCount,   (* l_pageCount                                              *)
  HeapPages,   (* bound: the pages the MMU can give out                    *)
  MaxBlocks,   (* bound: the blocks that clients hold at a time            *)
  Requests,    (* bound: the sizes clients ask malloc for                  *)
  Resizes      (* bound: the sizes clients ask realloc for                 *)

ASSUME LiballocAssumption ==
  /\ {MajorSize, MinorSize, PageSize, PageCount} \subseteq Nat \ {0}
  /\ Alignment \in Nat \ {0, 1}
  /\ HeapPages \subseteq Nat \ {0}
  /\ MaxBlocks \in Nat
  /\ Requests \subseteq Nat \ {0}
  /\ Resizes \subseteq Nat

VARIABLES
  majors,      (* the major blocks, by address                             *)
  minors,      (* the minor blocks, by address                             *)
  memRoot,     (* l_memRoot                                                *)
  bestBet,     (* l_bestBet                                                *)
  pad,         (* what ALIGN stores before a pointer it returns            *)
  runs,        (* the runs of pages the MMU has given out                  *)
  live,        (* the pointers clients hold, with the size they asked for  *)
  call         (* the running call of malloc or realloc                    *)

heapVars == <<majors, minors, memRoot, bestBet, pad, runs, live, call>>

Null == 0

Idle == [at |-> "idle", req |-> 0, old |-> Null, maj |-> Null, min |-> Null, bet |-> FALSE, best |-> 0]

With(f, x, v) == [y \in DOMAIN f \cup {x} |-> IF y = x THEN v ELSE f[y]]
Without(f, x) == [y \in DOMAIN f \ {x} |-> f[y]]

-----------------------------------------------------------------------------
(* Sizes and addresses. *)

(* The size malloc derives from a request, with room to align. *)
Size(req) == req + 2 * Alignment
Need(req) == Size(req) + MinorSize

(* ALIGN: the distance from the end of the header to the pointer. *)
AlignDiff(addr) == Alignment + ((-addr) % Alignment)

(* Mutant of PagesFor: the minor header is forgotten.                      *)
PagesForNoMinor(size) ==
  LET st == (size + MajorSize + PageSize - 1) \div PageSize
  IN  IF st < PageCount THEN PageCount ELSE st

(* allocate_new_page: the pages to ask for. *)
PagesFor(size) ==
  LET st == (size + MajorSize + MinorSize + PageSize - 1) \div PageSize
  IN  IF st < PageCount THEN PageCount ELSE st

(* liballoc_alloc: kernel->palloc returns the first run of n free pages    *)
(* (module MMU), or NULL if there is none.                                 *)
FreeRuns(n) ==
  {first \in HeapPages : \A p \in first .. first + n - 1 :
     p \in HeapPages /\ \A r \in runs : p \notin r[1] .. r[1] + r[2] - 1}

IsFirstRun(first, n) == first \in FreeRuns(n) /\ \A other \in FreeRuns(n) : first <= other

(* The space between minor block m, or the major's header if m is Null,    *)
(* and what follows.                                                       *)
GapStart(maj, m) == IF m = Null THEN maj + MajorSize ELSE m + MinorSize + minors[m].size
GapNext(maj, m) == IF m = Null THEN majors[maj].first ELSE minors[m].next
Gap(maj, m) ==
  LET next == GapNext(maj, m)
  IN  (IF next = Null THEN maj + majors[maj].size ELSE next) - GapStart(maj, m)

Unused(maj) == majors[maj].size - majors[maj].usage

-----------------------------------------------------------------------------
(* malloc. *)

Init ==
  /\ majors = [m \in {} |-> Null]
  /\ minors = [m \in {} |-> Null]
  /\ memRoot = Null
  /\ bestBet = Null
  /\ pad = [p \in {} |-> 0]
  /\ runs = {}
  /\ live = [p \in {} |-> 0]
  /\ call = Idle

(* malloc(req); calloc differs only in what it stores in the block. *)
Malloc(req) ==
  /\ call = Idle
  /\ Cardinality(DOMAIN live) < MaxBlocks
  /\ call' = [Idle EXCEPT !.at = "start", !.req = req]
  /\ UNCHANGED <<majors, minors, memRoot, bestBet, pad, runs, live>>

(* allocate_new_page succeeds with the run that begins at page `first',    *)
(* and the caller links the new major behind `prev'.                       *)
NewMajor(first, prev) ==
  LET n   == PagesFor(Size(call.req))
      maj == first * PageSize
      new == [pages |-> n, size |-> n * PageSize, usage |-> MajorSize,
              first |-> Null, prev |-> prev, next |-> Null]
  IN  /\ IsFirstRun(first, n)
      /\ runs' = runs \cup {<<first, n>>}
      /\ majors' = With(IF prev = Null THEN majors ELSE [majors EXCEPT ![prev].next = maj], maj, new)

(* malloc returns p: to the client, or to realloc. *)
Return(p) ==
  IF call.old = Null
  THEN /\ live' = IF p = Null THEN live ELSE With(live, p, call.req)
       /\ call' = Idle
  ELSE /\ call' = [call EXCEPT !.at = "copy", !.min = p]
       /\ UNCHANGED live

(* liballoc_alloc returned NULL. *)
NoPages ==
  /\ FreeRuns(PagesFor(Size(call.req))) = {}
  /\ Return(Null)
  /\ UNCHANGED <<majors, runs>>

(* "This is the first time we are being used." *)
FirstMajor ==
  /\ call.at = "start"
  /\ memRoot = Null
  /\ \/ \E first \in HeapPages : /\ NewMajor(first, Null)
                                 /\ memRoot' = first * PageSize
                                 /\ UNCHANGED <<live, call>>
     \/ NoPages /\ UNCHANGED memRoot
  /\ UNCHANGED <<minors, bestBet, pad>>

(* "Start at the best bet...." *)
StartSearch ==
  LET best == IF bestBet = Null THEN 0 ELSE Unused(bestBet)
      bet  == best > Need(call.req)
  IN  /\ call.at = "start"
      /\ memRoot # Null
      /\ call' = [call EXCEPT !.at = "major", !.maj = IF bet THEN bestBet ELSE memRoot,
                              !.bet = bet, !.best = best]
      /\ UNCHANGED <<majors, minors, memRoot, bestBet, pad, runs, live>>

(* Mutant of HopOrRestart: startedBet is not reset.                        *)
HopOrRestartAgain(c) ==
  /\ \/ /\ majors[c.maj].next # Null
        /\ call' = [c EXCEPT !.at = "major", !.maj = majors[c.maj].next]
     \/ /\ majors[c.maj].next = Null
        /\ c.bet
        /\ call' = [c EXCEPT !.at = "major", !.maj = memRoot]
  /\ UNCHANGED <<majors, minors, memRoot, pad, runs, live>>

(* Cases 1 and 5: hop to the next major, or, after the last one, go back   *)
(* to the root if the search began at the best bet.                        *)
HopOrRestart(c) ==
  /\ \/ /\ majors[c.maj].next # Null
        /\ call' = [c EXCEPT !.at = "major", !.maj = majors[c.maj].next]
     \/ /\ majors[c.maj].next = Null
        /\ c.bet
        /\ call' = [c EXCEPT !.at = "major", !.maj = memRoot, !.bet = FALSE]
  /\ UNCHANGED <<majors, minors, memRoot, pad, runs, live>>

(* Mutant of AtLastMajor: the search gives up before it has seen them all. *)
AtLastMajorEarly(c) == majors[c.maj].next = Null

(* ... and when that has been done, a new major is needed.                 *)
AtLastMajor(c) == majors[c.maj].next = Null /\ ~c.bet

GrowAndGoTo(c, label) ==
  /\ AtLastMajor(c)
  /\ \/ \E first \in HeapPages : /\ NewMajor(first, c.maj)
                                 /\ call' = [c EXCEPT !.at = label, !.maj = first * PageSize]
                                 /\ UNCHANGED live
     \/ NoPages
  /\ UNCHANGED <<minors, memRoot, pad>>

(* Mutant of Place: the next block's prev is left as it was.               *)
PlaceNoBackLink(maj, m) ==
  LET addr == GapStart(maj, m)
      next == GapNext(maj, m)
      new  == [prev |-> m, next |-> next, block |-> maj, size |-> Size(call.req), req |-> call.req]
      p    == addr + MinorSize + AlignDiff(addr + MinorSize)
  IN  /\ minors' = With(IF m = Null THEN minors ELSE [minors EXCEPT ![m].next = addr], addr, new)
      /\ majors' = [majors EXCEPT ![maj].usage = @ + Need(call.req),
                                  ![maj].first = IF m = Null THEN addr ELSE @]
      /\ pad' = With(pad, p, AlignDiff(addr + MinorSize))
      /\ Return(p)
      /\ UNCHANGED <<memRoot, runs>>

(* A minor block is put into the gap behind m and its pointer returned.    *)
Place(maj, m) ==
  LET addr == GapStart(maj, m)
      next == GapNext(maj, m)
      new  == [prev |-> m, next |-> next, block |-> maj, size |-> Size(call.req), req |-> call.req]
      p    == addr + MinorSize + AlignDiff(addr + MinorSize)
  IN  /\ minors' = [x \in DOMAIN minors \cup {addr} |->
                      IF x = addr THEN new
                      ELSE IF x = m THEN [minors[x] EXCEPT !.next = addr]
                      ELSE IF x = next THEN [minors[x] EXCEPT !.prev = addr]
                      ELSE minors[x]]
      /\ majors' = [majors EXCEPT ![maj].usage = @ + Need(call.req),
                                  ![maj].first = IF m = Null THEN addr ELSE @]
      /\ pad' = With(pad, p, AlignDiff(addr + MinorSize))
      /\ Return(p)
      /\ UNCHANGED <<memRoot, runs>>

(* The loop over the majors comes to the next one: it may be a better bet; *)
(* CASE 1, there is not enough space in it; CASE 2, it is brand new;       *)
(* CASE 3, there is room at its start; else the minors are looked at.      *)
LookAtMajor ==
  LET diff   == Unused(call.maj)
      better == call.best < diff
      c      == [call EXCEPT !.best = IF better THEN diff ELSE @]
  IN  /\ call.at = "major"
      /\ bestBet' = IF better THEN call.maj ELSE bestBet
      /\ \/ /\ diff < Need(call.req)
            /\ HopOrRestart(c) \/ GrowAndGoTo(c, "case2")
         \/ /\ diff >= Need(call.req)
            /\ majors[call.maj].first = Null \/ Gap(call.maj, Null) >= Need(call.req)
            /\ Place(call.maj, Null)
         \/ /\ diff >= Need(call.req)
            /\ majors[call.maj].first # Null
            /\ Gap(call.maj, Null) < Need(call.req)
            /\ call' = [c EXCEPT !.at = "case4", !.min = majors[call.maj].first]
            /\ UNCHANGED <<majors, minors, memRoot, pad, runs, live>>

(* CASE 1 has made a new major and falls through to CASE 2.                *)
UseNewMajor ==
  /\ call.at = "case2"
  /\ Place(call.maj, Null)
  /\ UNCHANGED bestBet

(* CASE 4: room behind the minor block the loop has come to, up to the     *)
(* end of the major (4.1) or the next minor (4.2)?  Behind the last one,   *)
(* CASE 5: the block is full.                                              *)
LookAtMinor ==
  LET room == Gap(call.maj, call.min)
      next == minors[call.min].next
  IN  /\ call.at = "case4"
      /\ \/ /\ room >= Need(call.req)
            /\ Place(call.maj, call.min)
         \/ /\ room < Need(call.req)
            /\ next # Null
            /\ call' = [call EXCEPT !.min = next]
            /\ UNCHANGED <<majors, minors, memRoot, pad, runs, live>>
         \/ /\ room < Need(call.req)
            /\ next = Null
            /\ LET c == [call EXCEPT !.min = Null]
               IN  HopOrRestart(c) \/ GrowAndGoTo(c, "major")
      /\ UNCHANGED bestBet

-----------------------------------------------------------------------------
(* free and realloc. *)

(* UNALIGN, and the header before the block. *)
MinorOf(p) == p - pad[p] - MinorSize

(* The minor lists without block m. *)
Unlinked(m) ==
  [x \in DOMAIN minors \ {m} |->
     IF x = minors[m].next THEN [minors[x] EXCEPT !.prev = minors[m].prev]
     ELSE IF x = minors[m].prev THEN [minors[x] EXCEPT !.next = minors[m].next]
     ELSE minors[x]]

(* The majors once block m no longer counts in its own. *)
Reduced(m) ==
  [majors EXCEPT ![minors[m].block].usage = @ - (minors[m].size + MinorSize),
                 ![minors[m].block].first = IF minors[m].prev = Null THEN minors[m].next ELSE @]

(* "Block completely unused": it leaves the list of majors and its pages   *)
(* go back to the MMU.                                                     *)
ReleaseMajor(maj) ==
  LET prev == majors[maj].prev
      next == majors[maj].next
  IN  /\ majors' = [x \in DOMAIN majors \ {maj} |->
                      IF x = prev THEN [majors[x] EXCEPT !.next = next]
                      ELSE IF x = next THEN [majors[x] EXCEPT !.prev = prev]
                      ELSE majors[x]]
      /\ memRoot' = IF memRoot = maj THEN next ELSE memRoot
      /\ bestBet' = IF bestBet = maj THEN Null ELSE bestBet
      /\ runs' = runs \ {<<maj \div PageSize, majors[maj].pages>>}

(* The major is still in use; it may have become the best bet.             *)
KeepMajor(m, maj) ==
  LET after == Reduced(m)
      room(x) == after[x].size - after[x].usage
  IN  /\ majors' = after
      /\ bestBet' = IF bestBet # Null /\ room(maj) > room(bestBet) THEN maj ELSE bestBet
      /\ UNCHANGED <<memRoot, runs>>

(* Mutant of FreeBlock: the pages of an empty major are kept.              *)
FreeBlockKeepsMajor(p) ==
  LET m   == MinorOf(p)
      maj == minors[m].block
  IN  /\ minors' = Unlinked(m)
      /\ pad' = Without(pad, p)
      /\ KeepMajor(m, maj)

(* free(p). *)
FreeBlock(p) ==
  LET m   == MinorOf(p)
      maj == minors[m].block
  IN  /\ minors' = Unlinked(m)
      /\ pad' = Without(pad, p)
      /\ IF Reduced(m)[maj].first = Null THEN ReleaseMajor(maj) ELSE KeepMajor(m, maj)

Free(p) ==
  /\ call = Idle
  /\ FreeBlock(p)
  /\ live' = Without(live, p)
  /\ UNCHANGED call

(* realloc(p, req): size 0 means free, a block that is large enough is     *)
(* kept, any other is moved.                                               *)
Realloc(p, req) ==
  /\ call = Idle
  /\ \/ /\ req = 0
        /\ Free(p)
     \/ /\ req # 0
        /\ minors[MinorOf(p)].req >= req
        /\ minors' = [minors EXCEPT ![MinorOf(p)].req = req]
        /\ live' = [live EXCEPT ![p] = req]
        /\ UNCHANGED <<majors, memRoot, bestBet, pad, runs, call>>
     \/ /\ minors[MinorOf(p)].req < req
        /\ call' = [Idle EXCEPT !.at = "start", !.req = req, !.old = p]
        /\ UNCHANGED <<majors, minors, memRoot, bestBet, pad, runs, live>>

(* realloc copies the contents to what malloc returned and frees the old   *)
(* block, without a look at whether malloc failed.                         *)
ReallocCopy ==
  /\ call.at = "copy"
  /\ FreeBlock(call.old)
  /\ \/ /\ call.min # Null
        /\ live' = With(Without(live, call.old), call.min, call.req)
        /\ call' = Idle
     \/ /\ call.min = Null
        /\ UNCHANGED live
        /\ call' = [Idle EXCEPT !.at = "failed", !.old = call.old]

SearchStep ==
  FirstMajor \/ StartSearch \/ LookAtMajor \/ UseNewMajor \/ LookAtMinor \/ ReallocCopy

Next ==
  \/ SearchStep
  \/ \E req \in Requests : Malloc(req)
  \/ \E p \in DOMAIN live : Free(p)
  \/ \E p \in DOMAIN live, req \in Resizes : Realloc(p, req)

(* A call that has begun runs to its end: nothing else runs meanwhile.     *)
Spec == Init /\ [][Next]_heapVars /\ WF_heapVars(SearchStep)

-----------------------------------------------------------------------------

Labels == {"idle", "start", "major", "case2", "case4", "copy", "failed"}

(* Types of the state.  In particular every stored pointer is NULL or      *)
(* points at a header that exists: free leaves nothing dangling.           *)
TypeOK ==
  /\ memRoot \in DOMAIN majors \cup {Null}
  /\ bestBet \in DOMAIN majors \cup {Null}
  /\ \A x \in DOMAIN majors :
       majors[x] \in [pages : Nat \ {0}, size : Nat \ {0}, usage : MajorSize .. majors[x].size,
                      first : DOMAIN minors \cup {Null},
                      prev : DOMAIN majors \cup {Null}, next : DOMAIN majors \cup {Null}]
  /\ \A x \in DOMAIN minors :
       minors[x] \in [prev : DOMAIN minors \cup {Null}, next : DOMAIN minors \cup {Null},
                      block : DOMAIN majors, size : Nat \ {0}, req : Requests \cup Resizes]
  /\ \A p \in DOMAIN pad : pad[p] \in Alignment .. 2 * Alignment - 1
  /\ runs \subseteq HeapPages \X (Nat \ {0})
  /\ \A p \in DOMAIN live : live[p] \in Requests \cup Resizes
  /\ call.at \in Labels
  /\ call.maj \in DOMAIN majors \cup {Null}

(* The majors form one list from l_memRoot; in each major the minors form  *)
(* one list in the order of their addresses, without overlap and inside    *)
(* the major; `usage' is what they take up.  Every malloc, free and        *)
(* realloc relinks several headers to keep this so.                        *)
ListsSound ==
  /\ TypeOK
  /\ \E list \in SetToSeqs(DOMAIN majors) :
       LET at(i) == IF i \in DOMAIN list THEN list[i] ELSE Null
       IN  /\ memRoot = at(1)
           /\ \A i \in DOMAIN list : majors[list[i]].prev = at(i - 1) /\ majors[list[i]].next = at(i + 1)
  /\ \A maj \in DOMAIN majors :
       LET mine == {m \in DOMAIN minors : minors[m].block = maj}
       IN  /\ \E order \in SetToSeqs(mine) :
                LET at(i) == IF i \in DOMAIN order THEN order[i] ELSE Null
                    end(m) == m + MinorSize + minors[m].size
                IN  /\ majors[maj].first = at(1)
                    /\ \A i \in DOMAIN order :
                         /\ minors[order[i]].prev = at(i - 1)
                         /\ minors[order[i]].next = at(i + 1)
                         /\ order[i] >= maj + MajorSize
                         /\ end(order[i]) <= IF at(i + 1) = Null THEN maj + majors[maj].size ELSE at(i + 1)
           /\ majors[maj].usage = MajorSize + MapThenSumSet(LAMBDA m : MinorSize + minors[m].size, mine)

Payload(p) == p .. p + live[p] - 1
Headers ==
  (UNION {m .. m + MajorSize - 1 : m \in DOMAIN majors})
    \cup (UNION {m .. m + MinorSize - 1 : m \in DOMAIN minors})

(* What a client may write is aligned, belongs to no other client, holds   *)
(* no header, not the byte that free reads back, and lies in pages that    *)
(* the heap owns.                                                          *)
PayloadsPrivate ==
  call.at # "failed" => \A p \in DOMAIN live :
    /\ p % Alignment = 0
    /\ Payload(p) \cap Headers = {}
    /\ \A q \in DOMAIN live \ {p} : Payload(p) \cap (Payload(q) \cup {q - Alignment}) = {}
    /\ \E r \in runs : Payload(p) \subseteq r[1] * PageSize .. (r[1] + r[2]) * PageSize - 1

(* The pages taken from the MMU are those of the majors, and between calls *)
(* each major holds a block: what is freed goes back to the MMU.           *)
PagesAccounted ==
  /\ runs = {<<m \div PageSize, majors[m].pages>> : m \in DOMAIN majors}
  /\ call = Idle => \A m \in DOMAIN majors : majors[m].first # Null

(* malloc returns NULL only when no gap of any major has room for the      *)
(* request and no pages are left, wherever the search began.               *)
MallocNullOnlyWhenFull ==
  [][ (call.at \notin {"idle", "copy"} /\ call'.at \in {"idle", "copy"} /\ minors' = minors) =>
        /\ \A maj \in DOMAIN majors :
             \A m \in {Null} \cup {x \in DOMAIN minors : minors[x].block = maj} :
               Gap(maj, m) < Need(call.req)
        /\ FreeRuns(PagesFor(Size(call.req))) = {} ]_heapVars

(* Every call of malloc and realloc returns: the search does not go round  *)
(* for ever between the best bet and the root.                             *)
CallsReturn == (call.at # "idle") ~> (call.at \in {"idle", "failed"})

(* stdlib.h on realloc: "NULL if it failed (the original block is left     *)
(* intact)".  The code frees it.                                           *)
FailedReallocKeepsBlock ==
  call.at = "failed" => call.old \in DOMAIN pad

=============================================================================
