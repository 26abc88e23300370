---------------------------- MODULE BasicString -----------------------------
(***************************************************************************)
(* sys::BasicString: a DynamicArray of characters and a size, with a null  *)
(* character behind the last one.  Two strings are modelled, as one can be *)
(* assigned, appended or moved to the other, or to itself.                 *)
(*                                                                         *)
(* A string is a record: whether it is alive (constructed and not yet      *)
(* destroyed), its block, its size, and whether its block was freed        *)
(* already: move assignment of the block deletes the old one, and then     *)
(* swaps the pointer to it into the string that is moved from.             *)
(***************************************************************************)
EXTENDS DynamicArray

CONSTANTS
  StringNames,   (* the strings                                            *)
  Chars,         (* characters                                             *)
  MaxText        (* bound: length of a string, and of a text               *)

ASSUME BasicStringAssumption == MaxText \in Nat /\ "moved" \notin Chars

VARIABLES
  str,           (* the strings                                            *)
  text,          (* history: the characters each should hold, or Moved     *)
  misused,       (* history: a call was made that the class gets wrong     *)
  corrupt        (* freed memory was used or freed again                   *)

stringVars == <<str, text, misused, corrupt>>

Nul == "nul"
Moved == <<"moved">>     (* a string that was moved from holds anything    *)
StringTexts == UNION {[1 .. n -> Chars] : n \in 0 .. MaxText}

Dead == [alive |-> FALSE, block |-> Intact(<<>>), size |-> 0, freed |-> FALSE]

StringInit ==
  /\ str = [x \in StringNames |-> Dead]
  /\ text = [x \in StringNames |-> <<>>]
  /\ misused = FALSE
  /\ corrupt = FALSE

capacity(x) == Len(str[x].block.cells)

-----------------------------------------------------------------------------
(* Constructors. *)

(* BasicString(reserve); the default one reserves 8                        *)
Filled(n) == [i \in 1 .. n + 1 |-> Nul]

(* BasicString(str, len), which the other constructors from text delegate  *)
(* to                                                                      *)
FromText(t) == [Dead EXCEPT !.alive = TRUE, !.size = Len(t),
                            !.block = Intact(Append(t, Nul))]

Construct(x, s, t) ==
  /\ ~misused
  /\ ~str[x].alive
  /\ str' = [str EXCEPT ![x] = s]
  /\ text' = [text EXCEPT ![x] = t]
  /\ UNCHANGED <<misused, corrupt>>

ConstructEmpty(x, reserve) ==
  Construct(x, [Dead EXCEPT !.alive = TRUE, !.block = Intact(Filled(reserve))],
            <<>>)

ConstructFrom(x, t) == Construct(x, FromText(t), t)

(* Mutant of Substring: the length is not cut off at the end.              *)
SubstringUncut(y, start, length) ==
  LET from == IF start > str[y].size THEN str[y].size ELSE start
  IN SubSeq(str[y].block.cells, from + 1,
            IF from + length > capacity(y) THEN capacity(y) ELSE from + length)

(* substring: the start and the length are cut off at the end.             *)
Substring(y, start, length) ==
  LET from == IF start > str[y].size THEN str[y].size ELSE start
      len == IF length > str[y].size - from THEN str[y].size - from ELSE length
  IN SubSeq(str[y].block.cells, from + 1, from + len)

ConstructSubstring(x, y, start, length) ==
  /\ str[y].alive /\ text[y] # Moved
  /\ Construct(x, IF Substring(y, start, length) = <<>>
                  THEN [Dead EXCEPT !.alive = TRUE,
                                    !.block = Intact(Filled(KDefaultSize))]
                  ELSE FromText(Substring(y, start, length)),
               [i \in {j \in 1 .. length : start + j <= Len(text[y])} |->
                  text[y][start + i]])

(* The move constructor: the blocks are swapped, the size is copied.       *)
ConstructMoved(x, y) ==
  /\ ~misused
  /\ ~str[x].alive
  /\ str[y].alive /\ text[y] # Moved
  /\ str' = [str EXCEPT ![x] = str[y], ![y].block = Intact(<<>>)]
  /\ text' = [text EXCEPT ![x] = text[y], ![y] = Moved]
  /\ UNCHANGED <<misused, corrupt>>

(* The destructor frees the block.                                         *)
Destroy(x) ==
  /\ ~misused
  /\ str[x].alive
  /\ str' = [str EXCEPT ![x] = Dead]
  /\ text' = [text EXCEPT ![x] = <<>>]
  /\ corrupt' = str[x].freed
  /\ misused' = str[x].freed

-----------------------------------------------------------------------------
(* Changes.  A caller uses a string that was moved from only to clear it,  *)
(* to assign to it or to destroy it.                                       *)

(* remove(idx); remove of a character finds its first index                *)
StringRemove(x, idx) ==
  /\ ~misused
  /\ str[x].alive /\ text[x] # Moved
  /\ idx < str[x].size
  /\ LET old == str[x].block.cells
         last == str[x].size
     IN str' = [str EXCEPT
          ![x].size = last - 1,
          ![x].block = Intact([i \in DOMAIN old |->
             CASE idx < i /\ i < last -> old[i + 1]
               [] i = last -> Nul
               [] OTHER -> old[i]])]
  /\ text' = [text EXCEPT ![x] = SubSeq(@, 1, idx) \o SubSeq(@, idx + 2, Len(@))]
  /\ UNCHANGED <<misused, corrupt>>

StringRemoveChar(x, c) ==
  /\ ~misused
  /\ str[x].alive /\ text[x] # Moved
  /\ \E idx \in 0 .. str[x].size - 1 :
       /\ str[x].block.cells[idx + 1] = c
       /\ \A j \in 1 .. idx : str[x].block.cells[j] # c
       /\ StringRemove(x, idx)

(* clear writes the first cell, which a string that was moved from lacks.  *)
StringClear(x) ==
  /\ ~misused
  /\ str[x].alive
  /\ str' = [str EXCEPT ![x].size = 0, ![x].block = Put(@, 1, Nul)]
  /\ text' = [text EXCEPT ![x] = <<>>]
  /\ misused' = (text[x] = Moved)
  /\ UNCHANGED corrupt

(* The block s with the characters t behind the first n, one at a time, as *)
(* insert and append(begin, end) write them: the block grows when there is *)
(* no cell for a character, without regard to the null character.          *)
OneByOne(s, n, t) ==
  LET Room(b, used) == IF used = Len(b.cells) THEN [b EXCEPT !.cells = Resize(@, 0, 0)] ELSE b
      after[k \in 0 .. Len(t)] ==
        IF k = 0 THEN s ELSE Put(Room(after[k - 1], n + k - 1), n + k, t[k])
  IN  Put(after[Len(t)], n + Len(t) + 1, Nul)

(* A capacity after n <= MaxText doublings. *)
Doubled(cells, n) ==
  LET after[k \in 0 .. MaxText] == IF k = 0 THEN cells ELSE 2 * after[k - 1] IN after[n]

(* insert, append(ch) and, with more than one character, append(begin, end)*)
StringInsert(x, t) ==
  /\ ~misused
  /\ str[x].alive /\ text[x] # Moved
  /\ str[x].size + Len(t) <= MaxText
  /\ str' = [str EXCEPT ![x].size = @ + Len(t),
                        ![x].block = OneByOne(@, str[x].size, t)]
  /\ text' = [text EXCEPT ![x] = @ \o t]
  /\ misused' = (\E n \in 0 .. MaxText : str[x].size + Len(t) = Doubled(capacity(x), n))
  /\ UNCHANGED corrupt

(* The string s with n characters kept and t appended, as append(str, len) *)
(* does it; `grows' if that takes a new block.                             *)
Grows(s, n, t) == n + Len(t) + 1 > Len(s.block.cells)

Appended(s, n, t) ==
  LET required == n + Len(t) + 1
      old == s.block.cells
      room == IF ~Grows(s, n, t) THEN old
              ELSE Resize(old, IF required > 2 * Len(old) THEN required ELSE 0, 0)
  IN [s EXCEPT !.size = n + Len(t),
               !.block = Intact([i \in DOMAIN room |->
                  CASE n < i /\ i <= n + Len(t) -> t[i - n]
                    [] i = required -> Nul
                    [] OTHER -> room[i]])]

(* append(str): of another string's characters, or of a text               *)
StringAppend(x, t) ==
  /\ ~misused
  /\ str[x].alive /\ text[x] # Moved
  /\ str[x].size + Len(t) <= MaxText
  /\ str' = [str EXCEPT ![x] = Appended(@, @.size, t)]
  /\ text' = [text EXCEPT ![x] = @ \o t]
  /\ UNCHANGED <<misused, corrupt>>

(* append of the string to itself: once the block has grown, the           *)
(* characters are read from the old one.                                   *)
StringAppendSelf(x) ==
  /\ ~misused
  /\ str[x].alive /\ text[x] # Moved
  /\ 2 * str[x].size <= MaxText
  /\ str' = [str EXCEPT ![x] = Appended(@, @.size, text[x])]
  /\ text' = [text EXCEPT ![x] = @ \o @]
  /\ misused' = Grows(str[x], str[x].size, text[x])
  /\ corrupt' = Grows(str[x], str[x].size, text[x])

(* Copy assignment and operator=(str): the size is set to 0 and the text   *)
(* is appended.                                                            *)
StringAssign(x, t) ==
  /\ ~misused
  /\ str[x].alive
  /\ str' = [str EXCEPT ![x] = Appended(@, 0, t)]
  /\ text' = [text EXCEPT ![x] = t]
  /\ corrupt' = (str[x].freed /\ Grows(str[x], 0, t))
  /\ misused' = (str[x].freed /\ Grows(str[x], 0, t))

StringAssignSelf(x) ==
  /\ ~misused
  /\ str[x].alive /\ text[x] # Moved
  /\ str' = [str EXCEPT ![x] = Appended(@, 0, <<>>)]
  /\ misused' = (text[x] # <<>>)
  /\ UNCHANGED <<text, corrupt>>

(* Move assignment *)
StringMove(x, y) ==
  /\ ~misused
  /\ x # y
  /\ str[x].alive /\ str[y].alive /\ text[y] # Moved
  /\ str' = [str EXCEPT
       ![x] = str[y],
       ![y] = [@ EXCEPT !.block = Intact(<<>>), !.freed = str[x].block.cells # <<>>]]
  /\ text' = [text EXCEPT ![x] = text[y], ![y] = Moved]
  /\ corrupt' = str[x].freed
  /\ misused' = str[x].freed

StringNext ==
  \E x \in StringNames :
    \/ \E reserve \in 0 .. KDefaultSize : ConstructEmpty(x, reserve)
    \/ \E t \in StringTexts : \/ ConstructFrom(x, t)
                        \/ StringInsert(x, t)
                        \/ StringAppend(x, t)
                        \/ StringAssign(x, t)
    \/ \E y \in StringNames : \/ ConstructMoved(x, y)
                              \/ StringMove(x, y)
                              \/ \E start, length \in 0 .. MaxText :
                                   ConstructSubstring(x, y, start, length)
    \/ Destroy(x)
    \/ StringClear(x)
    \/ StringAppendSelf(x)
    \/ StringAssignSelf(x)
    \/ \E idx \in 0 .. MaxText : StringRemove(x, idx)
    \/ \E c \in Chars : StringRemoveChar(x, c)

-----------------------------------------------------------------------------
(* Every string that was not moved from holds the text its calls should    *)
(* have made, with a null character behind it, in a block it alone owns.   *)
HoldsText ==
  /\ ~corrupt
  /\ \A x \in StringNames :
       /\ ~str[x].block.over
       /\ (str[x].alive /\ text[x] # Moved) =>
            /\ str[x].size = Len(text[x])
            /\ str[x].size < capacity(x)
            /\ SubSeq(str[x].block.cells, 1, str[x].size + 1)
                 = Append(text[x], Nul)

(* It does so after any sequence of constructions, appends, removals,      *)
(* substrings, assignments, moves and clears, in blocks that grow or are   *)
(* exactly full, of any strings from each other.  Not covered are the      *)
(* calls that make a string as long as its block one character at a time;  *)
(* appending a string to itself when the block must grow, and assigning it *)
(* to itself; clearing a string that was moved from; and destroying,       *)
(* growing or moving to a string that was moved from by assignment.        *)
StringIsSequence == ~misused => HoldsText

(* BasicString promises that insert appends a character, and cstr a string *)
(* with a null character at its end.  When the character fills the block,  *)
(* the null character is written behind it.                                *)
InsertKeepsNull ==
  [][\A x \in StringNames, t \in StringTexts : StringInsert(x, t) => HoldsText']_stringVars

(* ... and of append, that the provided string is appended, the string     *)
(* itself too.  When the block must grow, the characters are read from the *)
(* old one, which was freed.                                               *)
AppendSelfDoubles ==
  [][\A x \in StringNames : StringAppendSelf(x) => HoldsText']_stringVars
=============================================================================
