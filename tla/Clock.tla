------------------------------- MODULE Clock --------------------------------
(***************************************************************************)
(* X86RealTimeClock::currentTime against the clock it reads.  The clock    *)
(* announces an update, then changes its registers one by one, and they    *)
(* read as anything meanwhile.  The announcement comes early enough for a  *)
(* reader that passed the test to read `Window' registers, if nothing      *)
(* interrupts it.                                                          *)
(***************************************************************************)
EXTENDS Integers, Sequences

CONSTANTS
  Moments,        (* the clock's times, one update after the other: a      *)
                  (* sequence of sequences, as `Registers'                 *)
  Window          (* external: reads that fit between warning and update   *)

(* The warning is given 244 microseconds before the update, and a register *)
(* is read in a few: all eight can be read after it.                       *)
ASSUME ClockAssumption ==
  /\ Moments \in Seq([1 .. 8 -> 0 .. 99]) /\ Moments # <<>>
  /\ \A t \in DOMAIN Moments : Moments[t][3] < 24
  /\ Window \in Nat /\ Window >= 8

VARIABLES
  rtc,            (* the clock: at, phase, mode, and reads left to the update *)
  reader          (* the call: next register, values, and what befell it   *)

clockVars == <<rtc, reader>>

Registers == <<"seconds", "minutes", "hours", "weekday",
               "monthday", "month", "year", "century">>
Hours == 3

(* A register holds its value in one of two codes, and hours count to 12   *)
(* with a bit for the afternoon or to 24, as status B says.                *)
Bcd(value) == (value \div 10) * 16 + (value % 10)

Coded(value, r, mode) ==
  LET Code(v) == IF mode.binary THEN v ELSE Bcd(v)
      twelve == IF value % 12 = 0 THEN 12 ELSE value % 12
  IN IF r # Hours \/ mode.hours24 THEN Code(value)
     ELSE Code(twelve) + (IF value < 12 THEN 0 ELSE 128)

ClockInit ==
  /\ rtc \in {[at |-> 1, phase |-> phase, left |-> Window,
               mode |-> [binary |-> binary, hours24 |-> hours24]] :
                phase \in {"still", "warning", "updating"},
                binary \in BOOLEAN, hours24 \in BOOLEAN}
  /\ reader = [next |-> 0, got |-> <<>>, began |-> 0, interrupted |-> FALSE]

ClockRests ==
  /\ rtc = [at |-> 1, phase |-> "still", left |-> Window,
            mode |-> [binary |-> TRUE, hours24 |-> TRUE]]
  /\ reader = [next |-> 9, got |-> Moments[1], began |-> 1, interrupted |-> FALSE]

(* The clock *)
Warn ==
  /\ rtc.phase = "still"
  /\ rtc.at < Len(Moments)
  /\ rtc' = [rtc EXCEPT !.phase = "warning", !.left = Window]
  /\ UNCHANGED reader

Reading == reader.next \in 1 .. 8

BeginUpdate ==
  /\ rtc.phase = "warning"
  /\ rtc.left = 0 \/ reader.interrupted \/ ~Reading
  /\ rtc' = [rtc EXCEPT !.phase = "updating"]
  /\ UNCHANGED reader

EndUpdate ==
  /\ rtc.phase = "updating"
  /\ rtc' = [rtc EXCEPT !.phase = "still",
                        !.at = IF @ < Len(Moments) THEN @ + 1 ELSE @]
  /\ UNCHANGED reader

(* An interrupt routine runs between two reads.                            *)
Interrupt ==
  /\ Reading
  /\ reader' = [reader EXCEPT !.interrupted = TRUE]
  /\ UNCHANGED rtc

(* Mutant of TestUpdateFlag: it passes at once.                            *)
TestUpdateFlagOnce ==
  /\ reader.next = 0
  /\ reader' = [reader EXCEPT !.next = 1, !.began = rtc.at]
  /\ UNCHANGED rtc

(* while (get_update_in_progress_flag());                                  *)
TestUpdateFlag ==
  /\ reader.next = 0
  /\ rtc.phase = "still"
  /\ reader' = [reader EXCEPT !.next = 1, !.began = rtc.at]
  /\ UNCHANGED rtc

convert_bcd_if_needed(value) ==
  IF rtc.mode.binary THEN value ELSE (value % 16) + (value \div 16) * 10

Undefined == 255

ReadRtcRegister ==
  /\ Reading
  /\ LET r == reader.next
         held == Coded(Moments[rtc.at][r], r, rtc.mode)
     IN \E value \in IF rtc.phase = "updating" THEN {held, Undefined} ELSE {held} :
          reader' = [reader EXCEPT !.next = r + 1,
                                   !.got = Append(@, convert_bcd_if_needed(value) % 256)]
  /\ rtc' = [rtc EXCEPT !.left = IF rtc.phase = "warning" /\ @ > 0 THEN @ - 1 ELSE @]

ClockNext ==
  \/ Warn \/ BeginUpdate \/ EndUpdate \/ Interrupt
  \/ TestUpdateFlag \/ ReadRtcRegister

(* A time that was read without an interrupt in between is the time at the *)
(* moment the update flag was found clear: no field is from before an      *)
(* update and another from after it, and all are numbers, not their codes. *)
(* A clock that counts hours to 12 is the exception, in the hours: noon    *)
(* and midnight are both 12, and the bit for the afternoon is read as part *)
(* of the number.                                                          *)
TimeIsOneMoment ==
  (reader.next = 9 /\ ~reader.interrupted) =>
     \A r \in 1 .. 8 :
       reader.got[r] =
         LET value == Moments[reader.began][r]
         IN IF r # Hours \/ rtc.mode.hours24 THEN value
            ELSE CASE value = 0 -> 12
                   [] value \in 1 .. 11 -> value
                   [] value = 12 -> IF rtc.mode.binary THEN 140 ELSE 92
                   [] OTHER -> value - 12 + (IF rtc.mode.binary THEN 128 ELSE 80)
=============================================================================
