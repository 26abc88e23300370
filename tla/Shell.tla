-------------------------------- MODULE Shell -------------------------------
(***************************************************************************)
(* The shell, kvshell: gets reads a line of keys into an array of the      *)
(* caller, strtok cuts off its first word, and the command of that name is *)
(* given the rest.  A command name is a word of one letter here.           *)
(***************************************************************************)
EXTENDS Integers, Sequences, SequencesExt, FiniteSets

CONSTANTS
  Keys,        (* characters typed, "space" and "backspace" among them      *)
  LineSize,    (* size of the arrays lines are read into (100)             *)
  MaxKeys      (* bound: number of keys typed for a line                   *)

ASSUME ShellAssumption == LineSize \in Nat \ {0} /\ MaxKeys \in Nat

VARIABLES
  line,        (* the array, up to where gets writes next                  *)
  keys,        (* history: the keys typed for this line                    *)
  caller,      (* who reads: "readCommand", "who", or nobody any more:     *)
               (* "exited", "died", "overrun"                              *)
  action       (* what the last line made the shell do, with which text    *)

shellVars == <<line, keys, caller, action>>

ShellInit ==
  /\ line = <<>>
  /\ keys = <<>>
  /\ caller = "readCommand"
  /\ action = <<"none", <<>>>>

CallerReads == caller \in {"readCommand", "who"}

-----------------------------------------------------------------------------
(* Mutant of Edited: the step to the next character is not in an else, and *)
(* is taken after a backspace too.                                         *)
EditedThrough(key) ==
  IF key = "backspace" /\ line # <<>> THEN line ELSE Append(line, key)

(* The loop of gets: what the line is after a key                          *)
Edited(key) ==
  IF key # "backspace" THEN Append(line, key)
  ELSE IF line = <<>> THEN line
  ELSE SubSeq(line, 1, Len(line) - 1)

(* Every key is first stored behind the line, there being room or not.     *)
TypeKey(key) ==
  /\ CallerReads
  /\ Len(keys) < MaxKeys
  /\ keys' = Append(keys, key)
  /\ line' = Edited(key)
  /\ caller' = IF Len(line) < LineSize THEN caller ELSE "overrun"
  /\ action' = <<"none", <<>>>>

(* strtok(str, " ") *)
Indent == CHOOSE n \in 0 .. Len(line) :
            /\ \A i \in 1 .. n : line[i] = "space"
            /\ n = Len(line) \/ line[n + 1] # "space"
Word == SubSeq(line, Indent + 1,
               CHOOSE e \in Indent .. Len(line) :
                 /\ \A i \in Indent + 1 .. e : line[i] # "space"
                 /\ e = Len(line) \/ line[e + 1] = "space")

(* argv: str+toklen+1, or str+toklen if the word is the whole line.  The   *)
(* null character strtok put behind the word ends it if it starts before.  *)
Argv ==
  IF Len(Word) = Len(line) THEN <<>>
  ELSE LET end == Indent + Len(Word)
       IN SubSeq(line, Len(Word) + 2, IF Len(Word) + 1 <= end THEN end ELSE Len(line))

IsDigits(text) == \A i \in DOMAIN text : text[i] = "1"

(* sleep: the seconds, of a text of digits (all of them 1 here)            *)
RECURSIVE Seconds(_)
Seconds(text) ==
  IF text = <<>> THEN 0 ELSE Seconds(Tail(text)) + 10^(Len(text) - 1)

(* parseCommand and the switch of readCommand: the action taken            *)
Perform ==
  CASE Word = <<"e">> -> <<"echo", Argv>>
    [] Word = <<"s">> -> IF IsDigits(Argv) THEN <<"sleep", Seconds(Argv)>>
                                           ELSE <<"none", <<>>>>
    [] Word \in {<<"w">>, <<"q">>, <<"d">>} -> <<"none", <<>>>>
    [] Word = <<>> -> <<"none", <<>>>>
    [] OTHER -> <<"unknown", <<>>>>

(* The end of a line, read by readCommand or by who.                       *)
EnterCommand ==
  /\ caller = "readCommand"
  /\ IF Len(line) >= LineSize
     THEN caller' = "overrun" /\ UNCHANGED <<action, line, keys>>
     ELSE /\ action' = Perform
          /\ caller' = CASE Word = <<"w">> -> "who"
                         [] Word = <<"q">> -> "exited"
                         [] Word = <<"d">> -> "died"
                         [] OTHER -> caller
          /\ line' = <<>>
          /\ keys' = <<>>

EnterName ==
  /\ caller = "who"
  /\ caller' = IF Len(line) >= LineSize THEN "overrun" ELSE "readCommand"
  /\ action' = <<"hello", line>>
  /\ line' = <<>>
  /\ keys' = <<>>

ShellNext == (\E key \in Keys : TypeKey(key)) \/ EnterCommand \/ EnterName
-----------------------------------------------------------------------------
(* The keys that were not taken back: behind them, there was no moment     *)
(* with more backspaces than other keys.                                   *)
Count(test(_), from, to) == Len(SelectSeq(SubSeq(keys, from, to), test))
Erases(key) == key = "backspace"
Writes(key) == key # "backspace"
Kept == {i \in DOMAIN keys :
           /\ Writes(keys[i])
           /\ \A j \in i .. Len(keys) :
                Count(Erases, i + 1, j) <= Count(Writes, i + 1, j)}

(* The line read is the keys that were not taken back, as long as they fit *)
(* the array (nothing stops gets at its end).  What a command gets from it *)
(* is all that follows its name and a space, if its name starts the line;  *)
(* behind leading spaces it gets a piece of these and its own name instead,*)
(* and nothing of its argument.                                            *)
CommandAsTyped ==
  [][/\ CallerReads => /\ Len(line) = Cardinality(Kept)
                   /\ \A i \in Kept :
                        line[Cardinality({j \in Kept : j <= i})] = keys[i]
     /\ caller' = "overrun" <=> caller = "overrun" \/ Len(line) = LineSize
     /\ (keys' = <<>> /\ action'[1] = "echo") =>
          LET name == Indent + Len(Word)
          IN IF Indent = 0 THEN action'[2] = SubSeq(line, name + 2, Len(line))
             ELSE IsSuffix(action'[2], SubSeq(line, 1, name))]_shellVars
=============================================================================
