------------------------------- MODULE Format -------------------------------
(***************************************************************************)
(* Formatted output: vsprintf_internal, under the printf family of libc,   *)
(* and sys::print, which knows the types of what it is given.              *)
(* A format is a sequence of items, each a literal (text without `%', or   *)
(* `%%') or a conversion: its length modifier and its letter.  Arguments   *)
(* lie on the stack in words of 4 bytes; the word <<i, 1>> is the first    *)
(* one of the argument meant for item i.                                   *)
(***************************************************************************)
EXTENDS Integers, Sequences, FiniteSets

CONSTANTS
  Modifiers,     (* length modifiers, "none" included                      *)
  Conversions,   (* letters behind a `%'                                   *)
  FormatLength   (* bound: number of items                                 *)

ASSUME FormatAssumption == "none" \in Modifiers

VARIABLE format

Literal == <<"literal">>
Specs == Modifiers \X Conversions
IsSpec(item) == item \in Specs

FormatInit ==
  \E n \in 0 .. FormatLength : format \in [1 .. n -> {Literal} \cup Specs]

(* The words of the argument a caller passes for a conversion: two for an  *)
(* integer of 64 bits.                                                     *)
Passed(spec) ==
  IF spec[1] \in {"ll", "j"} /\ spec[2] \in {"d", "i", "u", "x"} THEN 2 ELSE 1

(* The stack: the arguments for the items before and at i                  *)
Arguments(i) ==
  LET upTo[k \in 0 .. Len(format)] ==
        IF k = 0 THEN <<>>
        ELSE IF ~IsSpec(format[k]) THEN upTo[k - 1]
        ELSE upTo[k - 1] \o [w \in 1 .. Passed(format[k]) |-> <<k, w>>]
  IN upTo[i]

Known == {"c", "s", "d", "i", "u", "x"}

(* Mutant of Taken: a conversion takes an int, whatever its modifier.      *)
TakenInt(spec) == 1

(* The words va_arg takes: of the modifiers only the ll of %lld and %lli   *)
(* is looked at.                                                           *)
Taken(spec) == IF spec[1] = "ll" /\ spec[2] \in {"d", "i"} THEN 2 ELSE 1

(* An item's turn.  An unknown letter is printed as it stands, and so are  *)
(* all conversions behind it.                                              *)
AfterItem(p, item) ==
  IF ~IsSpec(item) THEN [p EXCEPT !.words = Append(@, <<>>)]
  ELSE IF p.rejected \/ item[2] \notin Known
  THEN [p EXCEPT !.words = Append(@, <<>>), !.rejected = TRUE]
  ELSE [p EXCEPT !.words = Append(@, SubSeq(Arguments(Len(format)),
                                            p.taken + 1, p.taken + Taken(item))),
                 !.taken = @ + Taken(item)]

(* vsprintf_internal, after i items: the words printed for each of them    *)
(* (none for a literal), how many were taken, and whether a conversion was *)
(* rejected.                                                               *)
Printed(i) ==
  LET upTo[k \in 0 .. Len(format)] ==
        IF k = 0 THEN [words |-> <<>>, taken |-> 0, rejected |-> FALSE]
        ELSE AfterItem(upTo[k - 1], format[k])
  IN upTo[i]

-----------------------------------------------------------------------------
(* sys::print.  Its inputs are numbers (pointers and characters too) or    *)
(* text.                                                                   *)

InputLists == UNION {[1 .. n -> {"number", "text"}] : n \in 1 .. 2}

(* `%' and one of three letters; anything else is literal.                 *)
HasFormatSpec(item) ==
  IsSpec(item) /\ item[1] = "none" /\ item[2] \in {"@", "x", "p"}

(* How an input is shown for a letter: numbers may be shown as addresses.  *)
Form(kind, letter) ==
  IF kind = "number" /\ letter \in {"x", "p"} THEN "address" ELSE kind

(* Item i's turn; template_for shows no input if currentInput is past the  *)
(* last.                                                                   *)
SysAfterItem(inputs, p, i) ==
  LET k == p.currentInput
  IN IF ~HasFormatSpec(format[i]) THEN p
     ELSE [shown |-> IF k > Len(inputs) THEN p.shown
                     ELSE Append(p.shown, <<k, i, Form(inputs[k], format[i][2])>>),
           currentInput |-> k + 1]

(* The inputs shown, after i items                                         *)
SysPrinted(inputs, i) ==
  LET upTo[k \in 0 .. Len(format)] ==
        IF k = 0 THEN [shown |-> <<>>, currentInput |-> 1]
        ELSE SysAfterItem(inputs, upTo[k - 1], k)
  IN upTo[i]

-----------------------------------------------------------------------------
(* printf prints all of the argument that was passed for a conversion, for *)
(* exactly the conversions that have none before them, and are not         *)
(* themselves, of an unknown letter or of 64 bits other than %lld and      *)
(* %lli: an unknown letter stops all conversions behind it, and half of a  *)
(* 64-bit argument is left for the next one.  sys::print shows its inputs  *)
(* in order, each once and where its own conversion stands, as long as     *)
(* there are both; what printf knows and it does not takes no input.       *)
ConversionsGetTheirArguments ==
  LET words == Printed(Len(format)).words
      wide(spec) == Passed(spec) = 2 /\ ~(spec[1] = "ll" /\ spec[2] \in {"d", "i"})
      upset(j) == IsSpec(format[j]) /\ (format[j][2] \notin Known \/ wide(format[j]))
      specs == {i \in DOMAIN format : HasFormatSpec(format[i])}
  IN /\ \A i \in DOMAIN format : IsSpec(format[i]) =>
          (words[i] = [w \in 1 .. Passed(format[i]) |-> <<i, w>>]
             <=> \A j \in 1 .. i : ~upset(j))
     /\ \A inputs \in InputLists :
          LET shown == SysPrinted(inputs, Len(format)).shown
          IN /\ Len(shown) = IF Cardinality(specs) < Len(inputs)
                             THEN Cardinality(specs) ELSE Len(inputs)
             /\ \A k \in DOMAIN shown :
                  LET i == shown[k][2]
                  IN /\ shown[k][1] = k
                     /\ i \in specs /\ Cardinality({j \in specs : j < i}) = k - 1
                     /\ (shown[k][3] = "address")
                          <=> (inputs[k] = "number" /\ format[i][2] # "@")
=============================================================================
