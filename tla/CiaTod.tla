------------------------------- MODULE CiaTod --------------------------------
(***************************************************************************)
(* cia.c, the time of day counter of a CIA, which counts vertical or         *)
(* horizontal syncs: three bytes, read and written one at a time, and an     *)
(* alarm, which is compared as it is, half written or not.                  *)
(***************************************************************************)
EXTENDS Integers, Sequences

CONSTANT Byte   \* how many values a byte has

ByteAssumption == Byte \in Nat \ {0}

VARIABLES
  tod, todon,     \* the counter, and whether it counts
  tol, tlatch,    \* what it was when its high byte was read, and whether that is shown
  alarm,
  setsAlarm,      \* bit 7 of control register B: writes go to the alarm
  icr,            \* the alarm has been noticed
  read,           \* the bytes of the reading that is under way, from the high one
  snapshot,       \* the counter when it began
  written         \* the same of a setting of the counter

vars == <<tod, todon, tol, tlatch, alarm, setsAlarm, icr, read, snapshot, written>>

Digits == {"low", "mid", "high"}
Weight == [low |-> 1, mid |-> Byte, high |-> Byte * Byte]
Range_ == Byte * Byte * Byte
Digit(n, d) == (n \div Weight[d]) % Byte
With(n, d, v) == n - Weight[d] * Digit(n, d) + Weight[d] * v
Nothing == <<>>

Init ==
  /\ tod = 0 /\ todon = FALSE /\ tol = 0 /\ tlatch = FALSE
  /\ alarm = 0 /\ setsAlarm = FALSE /\ icr = FALSE
  /\ read = Nothing /\ snapshot = 0 /\ written = Nothing

(* Mutation: the counter stays at its end. *)
CountedToEnd == IF tod + 1 = Range_ THEN tod ELSE tod + 1

Counted == (tod + 1) % Range_

(* CIA_hsync_handler(), CIA_vsync_handler() *)
Sync ==
  /\ tod' = IF todon THEN Counted ELSE tod
  /\ icr' = (icr \/ tod' = alarm)
  /\ UNCHANGED <<todon, tol, tlatch, alarm, setsAlarm, read, snapshot, written>>

(* Mutation: the counter is read as it is. *)
Unlatched(d) == Digit(tod, d)

Shown(d) == Digit(IF tlatch THEN tol ELSE tod, d)

ReadHigh ==
  /\ tlatch' = TRUE /\ tol' = tod
  /\ read' = <<Digit(tod, "high")>> /\ snapshot' = tod
  /\ UNCHANGED <<tod, todon, alarm, setsAlarm, icr, written>>

ReadMid ==
  /\ read' = IF Len(read) = 1 THEN <<read[1], Shown("mid")>> ELSE Nothing
  /\ snapshot' = IF Len(read) = 1 THEN snapshot ELSE 0
  /\ UNCHANGED <<tod, todon, tol, tlatch, alarm, setsAlarm, icr, written>>

ReadLow ==
  /\ tlatch' = FALSE
  /\ read' = Nothing /\ snapshot' = 0
  /\ UNCHANGED <<tod, todon, tol, alarm, setsAlarm, icr, written>>

(* Mutation: only the high byte stops the counter. *)
NotHigh(d) == d # "high"

Starts(d) == d = "low"

\* Writing the low byte starts the counter, writing another stops it.
Write(d, v) ==
  /\ IF setsAlarm
     THEN alarm' = With(alarm, d, v) /\ UNCHANGED <<tod, todon, written>>
     ELSE /\ tod' = With(tod, d, v) /\ todon' = Starts(d)
          /\ written' = CASE d = "high" -> <<v>>
                          [] d = "mid" /\ Len(written) = 1 -> <<written[1], v>>
                          [] OTHER -> Nothing
          /\ UNCHANGED alarm
  /\ UNCHANGED <<tol, tlatch, setsAlarm, icr, read, snapshot>>

SelectAlarm(on) ==
  /\ setsAlarm' = on
  /\ UNCHANGED <<tod, todon, tol, tlatch, alarm, icr, read, snapshot, written>>

ReadIcr ==
  /\ icr' = FALSE
  /\ UNCHANGED <<tod, todon, tol, tlatch, alarm, setsAlarm, read, snapshot, written>>

Next ==
  \/ Sync \/ ReadHigh \/ ReadMid \/ ReadLow \/ ReadIcr
  \/ \E d \in Digits, v \in 0 .. Byte - 1 : Write(d, v)
  \/ \E on \in BOOLEAN : SelectAlarm(on)

Spec == Init /\ [][Next]_vars
FairSpec == Spec /\ WF_vars(Sync)
------------------------------------------------------------------------------
(* The bytes read from the high to the low one are one value, the counter at  *)
(* the first of them, however it counts in between (ReadCIAA(), ciaatol).    *)
ReadIsSnapshot ==
  Len(read) = 2 => Byte * Byte * read[1] + Byte * read[2] + Shown("low") = snapshot

(* The bytes written from the high to the low one are the value the counter   *)
(* goes on from: it does not count in between (WriteCIAA(), ciaatodon).      *)
WrittenExactly ==
  Len(written) = 2 => <<Digit(tod, "high"), Digit(tod, "mid")>> = written

(* The counter wraps around: once the program leaves the counter and the      *)
(* alarm alone, a counter that counts reaches the alarm again and again,     *)
(* whatever they were set to (CIA_vsync_handler(), "ciaatod &= 0xFFFFFF").    *)
LeftAlone ==
  Sync \/ ReadHigh \/ ReadMid \/ ReadLow \/ ReadIcr \/ \E on \in BOOLEAN : SelectAlarm(on)
AlarmComes == (<>[][LeftAlone]_vars) => ([]<>icr \/ <>[]~todon)
==============================================================================
