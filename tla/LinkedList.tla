----------------------------- MODULE LinkedList -----------------------------
(***************************************************************************)
(* sys::LinkedList and the counted pointers it is made of.  A node is      *)
(* owned by the ArcPtr of its predecessor and by _first or _last; an       *)
(* ArcPtr is a handle on a counter (ArcRefCount), and the counter deletes  *)
(* the node it is of when the last handle is released.  An ArcPtr made     *)
(* from a plain pointer gets a counter of its own.                         *)
(*                                                                         *)
(* Memory is a record: the live nodes, the live counters and `bad', set    *)
(* when freed memory is used or deleted again.  What happens after that is *)
(* undefined, so a behaviour ends there.                                   *)
(***************************************************************************)
EXTENDS Integers, Sequences, FiniteSets, TLC

CONSTANTS
  ListValues,   (* elements                                                *)
  MaxNodes      (* bound: number of nodes and counters made                *)

VARIABLES
  mem,          (* [nodes, counters, bad, fresh]                           *)
  lst,          (* the list's fields: handles first and last, and size     *)
  elements,     (* history: the elements the list should hold              *)
  reowned,      (* history: a node was given to a second counter           *)
  destroyed     (* the list's destructor has run                           *)

listVars == <<mem, lst, elements, reowned, destroyed>>

NoHandle == 0

ListInit ==
  /\ mem = [nodes |-> <<>>, counters |-> <<>>, bad |-> FALSE, fresh |-> 1]
  /\ lst = [first |-> NoHandle, last |-> NoHandle, size |-> 0]
  /\ elements = <<>>
  /\ reowned = FALSE
  /\ destroyed = FALSE

-----------------------------------------------------------------------------
(* Counted pointers. *)

Without(f, x) == [y \in DOMAIN f \ {x} |-> f[y]]

(* The memory m after a step, if what the step uses is alive.              *)
Using(m, alive, after) ==
  IF m.bad \/ ~alive THEN [m EXCEPT !.bad = TRUE] ELSE after

(* ArcRefCount of a plain pointer: a new counter, of 1, for a node         *)
Own(m, n) ==
  [m EXCEPT !.counters = @ @@ (m.fresh :> [of |-> n, count |-> 1]),
            !.fresh = @ + 1]

(* make_arc: a new node with its counter; both are numbered m.fresh        *)
MakeArc(m, v) ==
  Own([m EXCEPT !.nodes =
         @ @@ (m.fresh :> [value |-> v, prev |-> 0, next |-> NoHandle])],
      m.fresh)

Retain(m, c) ==
  IF c = NoHandle THEN m
  ELSE Using(m, c \in DOMAIN m.counters, [m EXCEPT !.counters[c].count = @ + 1])

(* RefCount::release and its destructor: the node goes with its counter.   *)
Delete(m, c) ==
  [m EXCEPT !.nodes = Without(@, m.counters[c].of), !.counters = Without(@, c)]

(* ArcRefCount::release: the last handle deletes the node, which releases  *)
(* the node's own handle on its successor.                                 *)
RECURSIVE Release(_, _)
Release(m, c) ==
  IF c = NoHandle THEN m
  ELSE Using(m, c \in DOMAIN m.counters,
    IF m.counters[c].count > 1
    THEN [m EXCEPT !.counters[c].count = @ - 1]
    ELSE LET n == m.counters[c].of
         IN Using(m, n \in DOMAIN m.nodes,
              Release(Delete(m, c), m.nodes[n].next)))

(* The node a handle is on, and the fields of a node; 0, the null pointer, *)
(* and a freed node have none.                                             *)
Get(m, c) == IF c \in DOMAIN m.counters THEN m.counters[c].of ELSE 0
Field(m, n) ==
  IF n \in DOMAIN m.nodes THEN m.nodes[n] ELSE [prev |-> 0, next |-> NoHandle]

(* n->next = c, a copy assignment: the old handle is released first.       *)
SetNext(m, n, c) ==
  Using(m, n \in DOMAIN m.nodes,
    IF m.nodes[n].next = c THEN m
    ELSE LET released == Release(m, m.nodes[n].next)
         IN Using(released, n \in DOMAIN released.nodes,
                  Retain([released EXCEPT !.nodes[n].next = c], c)))

SetPrev(m, n, p) ==
  Using(m, n \in DOMAIN m.nodes, [m EXCEPT !.nodes[n].prev = p])

-----------------------------------------------------------------------------
(* Node's operations.  A node they make is numbered m.fresh.               *)

(* Node::insertBefore: `n->next = this' makes a second counter for n.      *)
InsertBefore(m, n, v) ==
  LET new == m.fresh
      made == Own(MakeArc(m, v), n)
      linked == [made EXCEPT !.nodes[new].next = new + 1,
                             !.nodes[new].prev = m.nodes[n].prev]
      joined == IF m.nodes[n].prev = 0 THEN linked
                ELSE SetNext(linked, m.nodes[n].prev, new)
  IN Using(m, n \in DOMAIN m.nodes, SetPrev(joined, n, new))

(* Mutant of InsertAfter: the new node does not point back.                *)
InsertAfterOneWay(m, n, v) == SetNext(MakeArc(m, v), n, m.fresh)

(* Node::insertAfter *)
InsertAfter(m, n, v) ==
  LET new == m.fresh
      next == m.nodes[n].next
      made == Retain(MakeArc(m, v), next)
      linked == [made EXCEPT !.nodes[new].prev = n, !.nodes[new].next = next]
      joined == IF next = NoHandle THEN linked
                ELSE SetPrev(linked, Get(linked, next), new)
  IN Using(m, n \in DOMAIN m.nodes, SetNext(joined, n, new))

(* Node::remove: `ArcPtr<Node> self{this}' makes a second counter.         *)
RemoveSelf(m, n) ==
  LET next == Field(m, n).next
      prev == Field(m, n).prev
      held == Own(m, n)
      before == IF prev = 0 THEN held ELSE SetNext(held, prev, next)
  IN [self |-> m.fresh,
      mem |-> Using(before, n \in DOMAIN before.nodes,
                IF next = NoHandle THEN before
                ELSE SetPrev(before, Get(before, next), prev))]

-----------------------------------------------------------------------------
(* The list's operations. *)

ListCall ==
  /\ ~destroyed
  /\ ~mem.bad
  /\ mem.fresh <= MaxNodes

(* LinkedList::push *)
ListPush(v) ==
  /\ ListCall
  /\ IF lst.first = NoHandle
     THEN /\ mem' = Retain(MakeArc(mem, v), mem.fresh)
          /\ lst' = [first |-> mem.fresh, last |-> mem.fresh,
                     size |-> lst.size + 1]
          /\ UNCHANGED reowned
     ELSE /\ mem' = Release(InsertBefore(mem, Get(mem, lst.first), v), lst.first)
          /\ lst' = [lst EXCEPT !.first = mem.fresh, !.size = @ + 1]
          /\ reowned' = TRUE
  /\ elements' = <<v>> \o elements
  /\ UNCHANGED destroyed

(* LinkedList::enqueue; on an empty list it is push *)
ListEnqueue(v) ==
  /\ ListCall
  /\ lst.last # NoHandle
  /\ mem' = Release(InsertAfter(mem, Get(mem, lst.last), v), lst.last)
  /\ lst' = [lst EXCEPT !.last = mem.fresh, !.size = @ + 1]
  /\ elements' = Append(elements, v)
  /\ UNCHANGED <<reowned, destroyed>>

(* Both fields are assigned nullptr.                                       *)
Emptied(m) == Release(Release(m, lst.first), lst.last)

(* LinkedList::pop: the value is moved out of the node last, through a     *)
(* handle taken first.                                                     *)
ListPop ==
  /\ ListCall
  /\ lst.first # NoHandle
  /\ LET n == Get(mem, lst.first)
         held == Retain(mem, lst.first)
         removed == RemoveSelf(held, n)
         next == Field(mem, n).next
         moved == Release(Release(Retain(removed.mem, next), lst.first),
                          removed.self)
         alone == lst.first = lst.last
         left == IF alone THEN Emptied(held) ELSE moved
     IN /\ mem' = Release(Using(left, n \in DOMAIN left.nodes, left), lst.first)
        /\ lst' = [first |-> IF alone THEN NoHandle ELSE next,
                   last |-> IF alone THEN NoHandle ELSE lst.last,
                   size |-> IF lst.size = 0 THEN 0 ELSE lst.size - 1]
        /\ reowned' = (reowned \/ ~alone)
  /\ elements' = SubSeq(elements, 2, Len(elements))
  /\ UNCHANGED destroyed

(* LinkedList::popBack: _last is assigned the plain pointer prev.          *)
ListPopBack ==
  /\ ListCall
  /\ lst.last # NoHandle
  /\ LET n == Get(mem, lst.last)
         held == Retain(mem, lst.last)
         removed == RemoveSelf(held, n)
         prev == Field(mem, n).prev
         reset == IF prev = 0 THEN Release(removed.mem, lst.last)
                  ELSE Own(Release(removed.mem, lst.last), prev)
         alone == lst.first = lst.last
         left == IF alone THEN Emptied(held) ELSE Release(reset, removed.self)
     IN /\ mem' = Release(Using(left, n \in DOMAIN left.nodes, left), lst.last)
        /\ lst' = [first |-> IF alone THEN NoHandle ELSE lst.first,
                   last |-> IF alone \/ prev = 0 THEN NoHandle
                            ELSE removed.mem.fresh,
                   size |-> IF lst.size = 0 THEN 0 ELSE lst.size - 1]
        /\ reowned' = (reowned \/ ~alone)
  /\ elements' = SubSeq(elements, 1, Len(elements) - 1)
  /\ UNCHANGED destroyed

(* LinkedList::nodeAt and the iterator: the nodes from n on, up to the end *)
(* or to one that was freed                                                *)
RECURSIVE NodesFrom(_, _)
NodesFrom(m, n) ==
  IF n = 0 THEN <<>>
  ELSE IF n \notin DOMAIN m.nodes THEN <<n>>
  ELSE <<n>> \o NodesFrom(m, Get(m, m.nodes[n].next))

(* LinkedList::operator[] *)
ValueAt(idx) == mem.nodes[NodesFrom(mem, Get(mem, lst.first))[idx + 1]].value

(* LinkedList::remove: `target' has a counter of its own, so it equals     *)
(* neither _first nor _last.                                               *)
ListRemove(v) ==
  /\ ListCall
  /\ LET nodes == NodesFrom(mem, Get(mem, lst.first))
         found == {i \in DOMAIN nodes :
                     \/ nodes[i] \notin DOMAIN mem.nodes
                     \/ mem.nodes[nodes[i]].value = v}
     IN /\ found # {}
        /\ LET i == CHOOSE j \in found : \A k \in found : j <= k
               it == IF i = 1 THEN lst.first
                     ELSE mem.nodes[nodes[i - 1]].next
               target == RemoveSelf(Retain(mem, it), nodes[i])
           IN /\ mem' = Release(Release(target.mem, target.self), it)
              /\ elements' = SubSeq(elements, 1, i - 1)
                              \o SubSeq(elements, i + 1, Len(elements))
  /\ lst' = [lst EXCEPT !.size = @ - 1]
  /\ reowned' = TRUE
  /\ UNCHANGED destroyed

(* LinkedList::clear *)
ListClear ==
  /\ ListCall
  /\ mem' = Emptied(mem)
  /\ lst' = [first |-> NoHandle, last |-> NoHandle, size |-> 0]
  /\ elements' = <<>>
  /\ UNCHANGED <<reowned, destroyed>>

(* The members are destroyed, _last before _first.                         *)
ListDestroy ==
  /\ ~destroyed
  /\ ~mem.bad
  /\ mem' = Release(Release(mem, lst.last), lst.first)
  /\ lst' = [first |-> NoHandle, last |-> NoHandle, size |-> 0]
  /\ elements' = <<>>
  /\ destroyed' = TRUE
  /\ UNCHANGED reowned

ListNext ==
  \/ \E v \in ListValues : ListPush(v) \/ ListEnqueue(v) \/ ListRemove(v)
  \/ ListPop
  \/ ListPopBack
  \/ ListClear
  \/ ListDestroy

-----------------------------------------------------------------------------
(* Handles on counter c that the list and the live nodes hold.             *)
Handles(c) ==
  Cardinality({f \in {"first", "last"} : lst[f] = c})
  + Cardinality({n \in DOMAIN mem.nodes : mem.nodes[n].next = c})

(* A list that was only filled with enqueue (and push when empty), emptied *)
(* with clear or of its last element, holds the elements it was given, in  *)
(* order from either end; nothing is leaked, freed early or freed twice:   *)
(* each node has one counter and each counter counts the handles on it.    *)
(* Not covered are the calls that give a node that has an owner to a       *)
(* second counter: push, pop and popBack with other elements in the list,  *)
(* and remove.                                                             *)
ListIsSequence ==
  ~reowned =>
    LET nodes == NodesFrom(mem, Get(mem, lst.first))
    IN /\ ~mem.bad
       /\ [i \in DOMAIN nodes |-> ValueAt(i - 1)] = elements
       /\ lst.size = Len(elements)
       /\ DOMAIN mem.nodes = {nodes[i] : i \in DOMAIN nodes}
       /\ \A i \in DOMAIN nodes :
            mem.nodes[nodes[i]].prev = IF i = 1 THEN 0 ELSE nodes[i - 1]
       /\ elements # <<>> => Get(mem, lst.last) = nodes[Len(nodes)]
       /\ {mem.counters[c].of : c \in DOMAIN mem.counters} = DOMAIN mem.nodes
       /\ \A c \in DOMAIN mem.counters : mem.counters[c].count = Handles(c)

(* LinkedList promises it of every pop: it removes the front element and   *)
(* returns it.  With other elements in the list the node is deleted before *)
(* its value is moved out of it.                                           *)
PopReturnsFront == [][(~reowned /\ ListPop) => ~mem'.bad]_listVars

(* From its first node on, the list is of live nodes with its elements.    *)
ListHoldsElements ==
  LET nodes == NodesFrom(mem, Get(mem, lst.first))
  IN /\ ~mem.bad
     /\ \A i \in DOMAIN nodes : nodes[i] \in DOMAIN mem.nodes
     /\ [i \in DOMAIN nodes |-> ValueAt(i - 1)] = elements

(* ... and of remove, that the first element equal to the object goes, and *)
(* no other.  The second counter deletes the node, which _first or the     *)
(* node before it goes on to own.                                          *)
RemoveTakesOne ==
  [][\A v \in ListValues : (~reowned /\ ListRemove(v)) => ListHoldsElements']_listVars
=============================================================================
