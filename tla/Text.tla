-------------------------------- MODULE Text --------------------------------
(***************************************************************************)
(* The algorithms on text of libc and libsys: comparison, splitting at     *)
(* delimiters, paths, numbers and memset.  They keep no state: an input is *)
(* chosen at the start, and the properties say what is computed from it.   *)
(*                                                                         *)
(* A character is a number, a string a sequence of characters; in memory   *)
(* the null character 0 is behind the last one.                            *)
(***************************************************************************)
EXTENDS Integers, Sequences, SequencesExt, FiniteSets

CONSTANTS
  Letters,       (* characters that are not delimiters                     *)
  Slash,         (* the delimiter                                          *)
  CompareLength, (* bound: length of the strings compared                  *)
  PathLength,    (* bound: length of the strings split                     *)
  NumberBytes,   (* sizes of the integer types written, in bytes           *)
  Near,          (* bound: distance of a number from a limit, or from 0    *)
  Bases,         (* bases numbers are written in                           *)
  AddressBits,   (* width of a size_t (32), for memset                     *)
  Bits,          (* bits of a byte that may be set, for memset             *)
  MaxSet         (* bound: number of bytes set                             *)

AddressSpace == 2^AddressBits

ASSUME TextAssumption ==
  /\ Letters \subseteq 1 .. 127    (* strcmp compares signed characters *)
  /\ Slash \in Nat \ ({0} \cup Letters)
  /\ Bases \subseteq 2 .. 32
  /\ AddressSpace \in Nat
  /\ MaxSet \in 0 .. AddressSpace - 1

VARIABLE input

StringsOf(chars, n) == UNION {[1 .. k -> chars] : k \in 0 .. n}

(* The numbers of a type, signed or unsigned, near its limits and near 0.  *)
InputNumbers(bytes) ==
  LET least == -(2^(8 * bytes - 1))
      greatest == 2^(8 * bytes) - 1
      near == (least .. least + Near) \cup (-Near .. Near) \cup (greatest - Near .. greatest)
  IN {v \in near : least <= v /\ v <= greatest}

TextInit ==
  \/ \E s, t \in StringsOf(Letters, CompareLength) :
       input = [kind |-> "pair", s |-> s, t |-> t]
  \/ \E s \in StringsOf(Letters \cup {Slash}, PathLength) :
       input = [kind |-> "path", s |-> s]
  \/ \E bytes \in NumberBytes, base \in Bases : \E value \in InputNumbers(bytes) :
       input = [kind |-> "number", bytes |-> bytes, base |-> base, value |-> value]
  \/ \E ptr \in 0 .. 7, num \in 0 .. MaxSet : \E value \in [1 .. 4 -> SUBSET Bits] :
       input = [kind |-> "memset", ptr |-> ptr, num |-> num, value |-> value]

-----------------------------------------------------------------------------
(* Comparison. *)

At(s, i) == IF i <= Len(s) THEN s[i] ELSE 0

(* Where a loop stops that passes equal characters: at the first position  *)
(* where one of the strings ends or they differ.                           *)
Differ(s, t) ==
  CHOOSE i \in 1 .. Len(s) + 1 :
    /\ At(s, i) = 0 \/ At(s, i) # At(t, i)
    /\ \A j \in 1 .. i - 1 : At(s, j) = At(t, j)

(* Mutant of strcmp: the strings are stepped through in the condition of   *)
(* the loop, as strncmp does it.                                           *)
StrcmpPastDifference(s, t) ==
  LET i == Differ(s, t)
      stop == IF At(s, i) # 0 /\ At(t, i) # 0 THEN i + 1 ELSE i
  IN At(s, stop) - At(t, stop)

(* strcmp *)
strcmp(s, t) == At(s, Differ(s, t)) - At(t, Differ(s, t))

(* BasicString's operator<=>: the loop steps past two characters before it *)
(* finds that they differ, and the ones behind them are compared.          *)
Compare(s, t) ==
  LET i == Differ(s, t)
      stop == IF At(s, i) # 0 /\ At(t, i) # 0 THEN i + 1 ELSE i
  IN At(s, stop) - At(t, stop)

(* BasicString's operator== *)
Equal(s, t) == Len(s) = Len(t) /\ Compare(s, t) = 0

(* strncmp: as Compare, and after num equal characters the next ones are   *)
(* compared.                                                               *)
strncmp(s, t, num) ==
  LET i == Differ(s, t)
      stop == IF i > num THEN num + 1
              ELSE IF At(s, i) # 0 /\ At(t, i) # 0 THEN i + 1 ELSE i
  IN At(s, stop) - At(t, stop)

(* BasicStringView's operator==, of views of n characters in front of s    *)
(* and of t                                                                *)
EqualViews(s, t, n) == strncmp(s, t, n) = 0

-----------------------------------------------------------------------------
(* Splitting.  Positions count from 0, as in the code. *)

IsDelim(c) == c = Slash

(* StringTokenizer::tokenStart *)
TokenStart(s, start) ==
  LET found == {i \in start .. Len(s) - 1 : ~IsDelim(s[i + 1])}
  IN IF found = {} THEN Len(s) ELSE CHOOSE i \in found : \A j \in found : i <= j

(* Mutant of TokenEnd: the delimiter is part of the token.                 *)
TokenEndAtDelimiter(s, start) ==
  LET found == {i \in start .. Len(s) - 1 : IsDelim(s[i + 1])}
  IN IF found = {} THEN Len(s) - 1
     ELSE CHOOSE i \in found : \A j \in found : i <= j

(* StringTokenizer::tokenEnd *)
TokenEnd(s, start) ==
  LET found == {i \in start .. Len(s) - 1 : IsDelim(s[i + 1])}
  IN IF found = {} THEN Len(s) - 1
     ELSE (CHOOSE i \in found : \A j \in found : i <= j) - 1

(* while (hasNextToken()) nextToken(), from position `start'               *)
TokensFrom(s, start) ==
  LET from[p \in 0 .. Len(s)] ==
        LET begin == TokenStart(s, p)
            end == TokenEnd(s, begin) + 1
        IN IF begin = Len(s) THEN <<>>
           ELSE <<SubSeq(s, begin + 1, end)>> \o from[end]
  IN from[start]

(* strtok: the first call is given the string, the following ones NULL;    *)
(* the delimiter behind a token is overwritten, and skipped, if there is   *)
(* one.                                                                    *)
StrtokFrom(s, start) ==
  LET from[p \in 0 .. Len(s)] ==
        LET begin == TokenStart(s, p)
            stop == TokenEnd(s, begin) + 1
        IN IF begin = Len(s) THEN <<>>
           ELSE <<SubSeq(s, begin + 1, stop)>>
                \o from[IF stop < Len(s) THEN stop + 1 ELSE stop]
  IN from[start]

(* Path(str): the components, and whether the path is absolute             *)
Components(s) == TokensFrom(s, 0)
IsAbsolute(s) == s # <<>> /\ IsDelim(s[1])

(* Path::pathString: a delimiter is put behind every component that does   *)
(* not compare equal to the last one.                                      *)
PathString(s) ==
  LET parts == Components(s)
  IN (IF IsAbsolute(s) THEN <<Slash>> ELSE <<>>)
     \o FlattenSeq([i \in DOMAIN parts |->
          IF Equal(parts[i], parts[Len(parts)]) THEN parts[i]
          ELSE Append(parts[i], Slash)])

-----------------------------------------------------------------------------
(* Numbers. *)

(* The digits of an unsigned number, as itoa.c's uitoa and append_string   *)
(* write them                                                              *)
Digits(value, base) ==
  LET of[v \in 0 .. value] ==
        IF v < base THEN <<v>> ELSE Append(of[v \div base], v % base)
  IN of[value]

(* Mutant of Written: a negative number is not negated before it is        *)
(* written as an unsigned one.                                             *)
WrittenWrapped(value, base, bytes) ==
  [minus |-> base = 10 /\ value < 0, digits |-> Digits(value % 2^(8 * bytes), base)]

(* itoa, uitoa and the versions for other types, and append_string: signed *)
(* in base 10, the bits of the number in any other.  -value wraps around   *)
(* for the least number, and the cast to unsigned undoes it.               *)
Written(value, base, bytes) ==
  IF base = 10 /\ value < 0
  THEN [minus |-> TRUE, digits |-> Digits((-value) % 2^(8 * bytes), base)]
  ELSE [minus |-> FALSE, digits |-> Digits(value % 2^(8 * bytes), base)]

(* to_string: the characters reserved for the digits                       *)
Reserved(base, bytes) ==
  CASE base < 8 -> 8 * bytes
    [] 8 <= base /\ base < 16 -> 3 * bytes
    [] OTHER -> 2 * bytes

-----------------------------------------------------------------------------
(* A byte is the set of its bits that are 1; an int has 4 of them, the     *)
(* lowest one first.                                                       *)

(* memset_w: v |= v << 8; v |= v << 16                                     *)
WordOf(v) == <<v[1], v[1] \cup v[2], v[1] \cup v[2] \cup v[3],
               v[1] \cup v[2] \cup v[3] \cup v[4]>>

HeadSize(ptr) == ptr % 4

(* Mutant of BytesSet: the tail is what the whole request has beyond whole *)
(* words.                                                                  *)
BytesSetTail(ptr, value, num) ==
  LET head == HeadSize(ptr)
      words == 4 * (((num - head) % AddressSpace) \div 4)
      tail == num % 4
  IN [i \in 1 .. head + words + tail |->
        IF head < i /\ i <= head + words THEN WordOf(value)[((i - head - 1) % 4) + 1]
                                          ELSE value[1]]

(* memset: the bytes written from ptr on.  As many bytes as ptr is past a  *)
(* word boundary are written first, the rest in words and a tail.          *)
BytesSet(ptr, value, num) ==
  LET head == HeadSize(ptr)
      body == (num - head) % AddressSpace
      words == 4 * (body \div 4)
      tail == body % 4
  IN [i \in 1 .. head + words + tail |->
        IF head < i /\ i <= head + words THEN WordOf(value)[((i - head - 1) % 4) + 1]
                                          ELSE value[1]]

-----------------------------------------------------------------------------
(* s is before t in the order of a dictionary. *)
Precedes(s, t) ==
  \E i \in 1 .. Len(t) :
    /\ \A j \in 1 .. i - 1 : j <= Len(s) /\ s[j] = t[j]
    /\ i > Len(s) \/ s[i] < t[i]

(* strcmp, which steps through two strings that may end anywhere, finds    *)
(* their order; String's operators, which step differently, at least take  *)
(* every string to be equal to itself.                                     *)
CompareIsOrder ==
  input.kind = "pair" =>
    LET s == input.s
        t == input.t
    IN /\ strcmp(s, t) < 0 <=> Precedes(s, t)
       /\ strcmp(s, t) = 0 <=> s = t
       /\ s = t => Equal(s, t)

(* String's operator== is its `equality operator'.  It is not: it looks at *)
(* the characters behind the first ones that differ.                       *)
EqualMeansEqual ==
  input.kind = "pair" => (Equal(input.s, input.t) <=> input.s = input.t)

(* ... nor is the one of StringView, which looks at the characters behind  *)
(* the views.                                                              *)
EqualViewsMeanEqual ==
  input.kind = "pair" =>
    \A n \in 0 .. Len(input.s) :
      n <= Len(input.t) =>
        (EqualViews(input.s, input.t, n)
           <=> SubSeq(input.s, 1, n) = SubSeq(input.t, 1, n))

(* The maximal runs of characters that are not delimiters, in order.       *)
Fields(s) ==
  LET inside(a, b) == \A i \in a .. b : ~IsDelim(s[i])
      runs == {r \in (1 .. Len(s)) \X (1 .. Len(s)) :
                 /\ r[1] <= r[2] /\ inside(r[1], r[2])
                 /\ r[1] = 1 \/ IsDelim(s[r[1] - 1])
                 /\ r[2] = Len(s) \/ IsDelim(s[r[2] + 1])}
      inOrder == SetToSortSeq(runs, LAMBDA r, q : r[1] < q[1])
  IN [i \in DOMAIN inOrder |-> SubSeq(s, inOrder[i][1], inOrder[i][2])]

(* StringTokenizer and strtok return the fields of a string, each once, in *)
(* order, whatever delimiters lead, trail or repeat; and a Path written    *)
(* back as a string has the same components, provided that no component    *)
(* before the last one is equal to it as String's operator== has it.       *)
TokensAreFields ==
  input.kind = "path" =>
    LET parts == Fields(input.s)
        n == Len(parts)
    IN /\ TokensFrom(input.s, 0) = parts
       /\ StrtokFrom(input.s, 0) = parts
       /\ (\A i \in 1 .. n - 1 : ~Equal(parts[i], parts[n])) =>
            Fields(PathString(input.s)) = parts

(* pathString returns the path as a string, without a condition.  It       *)
(* leaves out the delimiter behind components that compare equal to the    *)
(* last one.                                                               *)
PathReadsBack == input.kind = "path" => Fields(PathString(input.s)) = Fields(input.s)

(* to_string reserves enough for the digits and the sign. *)
Fits(value, base, bytes) ==
  LET w == Written(value, base, bytes)
  IN Len(w.digits) + (IF w.minus THEN 1 ELSE 0) <= Reserved(base, bytes)

(* A number is written so that it can be read back: the value in base 10   *)
(* (the least negative one included), its bits in the other bases; and     *)
(* to_string reserves enough for it, if it is not of one byte or not       *)
(* negative.                                                               *)
NumbersReadBack ==
  input.kind = "number" =>
    LET w == Written(input.value, input.base, input.bytes)
        read == FoldLeft(LAMBDA n, d : n * input.base + d, 0, w.digits)
    IN /\ IF input.base = 10 THEN (IF w.minus THEN -read ELSE read) = input.value
                             ELSE read = input.value % 2^(8 * input.bytes)
       /\ (input.bytes > 1 \/ input.value >= 0) =>
            Fits(input.value, input.base, input.bytes)

(* One byte is to be `representable in 3 chars'.  From -100 down it takes  *)
(* four, and the null character is written behind the block.               *)
DigitsFit ==
  input.kind = "number" => Fits(input.value, input.base, input.bytes)

(* memset of a value of one byte writes that byte, exactly as often as     *)
(* asked, through its head, words and tail, wherever the pointer is in a   *)
(* word: provided that at least as many bytes are asked for as the pointer *)
(* is past a word boundary.  Otherwise the length wraps around.            *)
MemsetIsExact ==
  (input.kind = "memset" /\ \A k \in 2 .. 4 : input.value[k] = {}) =>
    (input.num >= HeadSize(input.ptr) =>
       BytesSet(input.ptr, input.value, input.num) = [i \in 1 .. input.num |-> input.value[1]])

(* The first byte of the value is to be copied over the rest of the word's *)
(* bytes, whatever they are.  They are or'ed with it.                      *)
FirstByteIsCopied ==
  (input.kind = "memset" /\ input.num >= HeadSize(input.ptr)) =>
    \A i \in DOMAIN BytesSet(input.ptr, input.value, input.num) :
      BytesSet(input.ptr, input.value, input.num)[i] = input.value[1]

(* The main body is to be `word-aligned'.  Its first word is twice as far  *)
(* past a word boundary as the pointer is.                                 *)
BodyIsAligned ==
  input.kind = "memset" => (input.ptr + HeadSize(input.ptr)) % 4 = 0
=============================================================================
