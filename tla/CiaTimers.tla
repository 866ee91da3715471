------------------------------ MODULE CiaTimers ------------------------------
(***************************************************************************)
(* cia.c, the timers of the two CIAs, and events.h, the clock that drives    *)
(* them.  The chips count a clock for every DIV10 cycles, but are only       *)
(* brought up to date (CIA_update()) when a timer register is written or the *)
(* event comes that CIA_calctimers() has scheduled for the next underflow.   *)
(* Cycles are counted from the last update, control registers are sets of    *)
(* the bits that are set.                                                   *)
(***************************************************************************)
EXTENDS Integers, FiniteSets, FiniteSetsExt

CONSTANTS
  Chip,         \* the CIAs, which share the event and the divider
  Byte,         \* how many values a byte has: a timer has two bytes
  Control,      \* the values a program writes to a control register
  MaxWrites     \* bound: the register writes of a run

DIV10 == 5
Timer == {"a", "b"}
Bits == {"START", "ONESHOT", "LOAD", "CNT", "CASCADE"}

CiaAssumption ==
  Byte \in Nat /\ Byte > 1 /\ Control \subseteq SUBSET Bits /\ MaxWrites \in Nat

VARIABLES
  count, latch,   \* of each chip's timers
  cr,             \* their control registers
  icr, imask,     \* the interrupts each chip has noticed, and those it passes on
  intreq,         \* the chips whose bit is set in INTREQ
  since,          \* cycles - eventtab[ev_cia].oldcycles
  div10, lastdiv10,
  evtime,         \* when the event comes, counted like since; Never if inactive
  lag,            \* cycles that have not been counted yet, as of the last update
  writes

chips == <<count, latch, cr, icr, imask, intreq>>
vars == <<chips, since, div10, lastdiv10, evtime, lag, writes>>

Never == -1

\* timer a counts clocks unless it counts the CNT pin; so does b, or a's underflows
CountsClocks(crs, c, t) ==
  "START" \in crs[c][t] /\ "CNT" \notin crs[c][t] /\ (t = "b" => "CASCADE" \notin crs[c][t])
CountsUnderflows(crs, c) ==
  {"START", "CASCADE"} \subseteq crs[c]["b"] /\ "CNT" \notin crs[c]["b"]

(* CIA_reset() *)
Init ==
  /\ count = [c \in Chip |-> [t \in Timer |-> Byte * Byte - 1]] /\ latch = count
  /\ cr = [c \in Chip |-> [t \in Timer |-> {}]]
  /\ icr = [c \in Chip |-> {}] /\ imask = icr /\ intreq = {}
  /\ since = 0 /\ div10 = 0 /\ lastdiv10 = 0 /\ evtime = Never
  /\ lag = 0 /\ writes = 0
------------------------------------------------------------------------------
(* Mutation: what is left of a division is dropped. *)
CyclesSince == since

\* The remainder of the update before last is added to the cycles.
ccount == since + lastdiv10

(* Mutation: a clock that has begun is counted. *)
ClocksBegun == (ccount + DIV10 - 1) \div DIV10

ciaclocks == ccount \div DIV10

Underflows(c, t) ==
  \/ CountsClocks(cr, c, t) /\ count[c][t] + 1 = ciaclocks
  \/ /\ t = "b" /\ CountsUnderflows(cr, c)
     /\ CountsClocks(cr, c, "a") /\ count[c]["a"] + 1 = ciaclocks
     /\ count[c]["b"] = 0

(* Mutation: b is loaded when a is. *)
CountedTogether(c, t) ==
  IF Underflows(c, t) \/ Underflows(c, "a") THEN latch[c][t]
  ELSE IF CountsClocks(cr, c, t) THEN count[c][t] - ciaclocks ELSE count[c][t]

Counted(c, t) ==
  IF Underflows(c, t) THEN latch[c][t]
  ELSE IF CountsClocks(cr, c, t) THEN count[c][t] - ciaclocks
  ELSE IF t = "b" /\ CountsUnderflows(cr, c) /\ Underflows(c, "a") THEN count[c]["b"] - 1
  ELSE count[c][t]

\* A one-shot timer stops when it underflows.
Stopped(c, t) ==
  IF Underflows(c, t) /\ "ONESHOT" \in cr[c][t] THEN cr[c][t] \ {"START"} ELSE cr[c][t]

Noticed(c) == icr[c] \cup {t \in Timer : Underflows(c, t)}

(* Mutation: an interrupt that was noticed before is enough. *)
RethinkNew(c, new) == new \cap imask[c] # {} /\ icr[c] \cap imask[c] = {}

(* RethinkICRA() and RethinkICRB() *)
Rethink(c, new) == new \cap imask[c] # {}

\* CIA_update(), from which the register writes go on
Updated == [count |-> [c \in Chip |-> [t \in Timer |-> Counted(c, t)]],
            cr |-> [c \in Chip |-> [t \in Timer |-> Stopped(c, t)]]]

UpdateRest ==
  /\ lastdiv10' = div10 /\ div10' = ccount % DIV10
  /\ lag' = lag + since - DIV10 * ciaclocks
  /\ icr' = [c \in Chip |-> Noticed(c)]
  /\ intreq' = intreq \cup
       {c \in Chip : (\E t \in Timer : Underflows(c, t)) /\ Rethink(c, Noticed(c))}
------------------------------------------------------------------------------
\* CIA_calctimers(): cycles to the next underflow of each timer that runs
Time(c, t, n) == DIV10 - div10' + DIV10 * n[c][t]

\* A chip's timers that count clocks, and its timer b if a's underflow is its own
ClockTimes(c, n, crs) == {Time(c, t, n) : t \in {u \in Timer : CountsClocks(crs, c, u)}}

CascadeTimes(c, n, crs) ==
  IF /\ CountsUnderflows(crs, c) /\ CountsClocks(crs, c, "a")
     /\ n[c]["b"] = 0 \/ "ONESHOT" \notin crs[c]["a"]
  THEN {Time(c, "a", n) + latch'[c]["a"] * DIV10 * n[c]["b"]} ELSE {}

Times(n, crs) == UNION {ClockTimes(c, n, crs) \cup CascadeTimes(c, n, crs) : c \in Chip}

(* Mutation: the event is only scheduled if none is. *)
ScheduledOnce(n, crs) ==
  /\ since' = 0
  /\ evtime' = IF Times(n, crs) = {} THEN Never
               ELSE IF evtime > since THEN evtime - since ELSE Min(Times(n, crs))

CIA_calctimers(n, crs) ==
  /\ since' = 0
  /\ evtime' = IF Times(n, crs) = {} THEN Never ELSE Min(Times(n, crs))

\* The timers after an update and the write it precedes.
SetTimers(n, crs) ==
  /\ count' = n /\ cr' = crs
  /\ CIA_calctimers(n, crs)

(* do_cycles_slow() and CIA_handler() *)
Cycle ==
  /\ IF evtime = Never THEN since < 2 * DIV10 ELSE since < evtime
  /\ since' = since + 1
  /\ UNCHANGED <<chips, div10, lastdiv10, evtime, lag, writes>>

CIA_handler ==
  /\ evtime # Never /\ since = evtime
  /\ UpdateRest
  /\ latch' = latch /\ SetTimers(Updated.count, Updated.cr)
  /\ UNCHANGED <<imask, writes>>
------------------------------------------------------------------------------
Between == since # evtime   \* the program runs between two events
Write == Between /\ writes < MaxWrites /\ writes' = writes + 1

\* registers 4 and 6: the low byte of a timer's latch
WriteLow(c, t, v) ==
  /\ Write /\ UpdateRest
  /\ latch' = [latch EXCEPT ![c][t] = (@ \div Byte) * Byte + v]
  /\ SetTimers(Updated.count, Updated.cr)
  /\ UNCHANGED imask

\* A stopped timer is loaded with its latch; a one-shot timer starts, too.
Loads(crs, c, t) == "START" \notin crs[c][t] \/ "ONESHOT" \in crs[c][t]

\* registers 5 and 7: the high byte
WriteHigh(c, t, v) ==
  LET l == v * Byte + (latch[c][t] % Byte)  u == Updated
  IN /\ Write /\ UpdateRest
     /\ latch' = [latch EXCEPT ![c][t] = l]
     /\ SetTimers([u.count EXCEPT ![c][t] = IF Loads(u.cr, c, t) THEN l ELSE @],
                  [u.cr EXCEPT ![c][t] =
                     IF "ONESHOT" \in @ THEN @ \cup {"START"} ELSE @])
     /\ UNCHANGED imask

\* registers 14 and 15
WriteControl(c, t, v) ==
  LET u == Updated
  IN /\ Write /\ UpdateRest /\ UNCHANGED <<latch, imask>>
     /\ SetTimers([u.count EXCEPT ![c][t] = IF "LOAD" \in v THEN latch[c][t] ELSE @],
                  [u.cr EXCEPT ![c][t] = v \ {"LOAD"}])

\* register 13 sets or clears bits of the mask; what was noticed is not looked at
WriteMask(c, s, set) ==
  /\ Write
  /\ imask' = [imask EXCEPT ![c] = IF set THEN @ \cup s ELSE @ \ s]
  /\ UNCHANGED <<count, latch, cr, icr, intreq, since, div10, lastdiv10, evtime, lag>>

\* Reading register 13 clears it; the program clears INTREQ itself.
ReadIcr(c) ==
  /\ Between
  /\ icr' = [icr EXCEPT ![c] = {}] /\ intreq' \in {intreq, intreq \ {c}}
  /\ UNCHANGED <<count, latch, cr, imask, since, div10, lastdiv10, evtime, lag, writes>>

Next ==
  \/ Cycle \/ CIA_handler
  \/ \E c \in Chip :
       \/ ReadIcr(c)
       \/ \E s \in SUBSET Timer, set \in BOOLEAN : WriteMask(c, s, set)
       \/ \E t \in Timer :
            \/ \E v \in 0 .. Byte - 1 : WriteLow(c, t, v) \/ WriteHigh(c, t, v)
            \/ \E v \in Control : WriteControl(c, t, v)

Spec == Init /\ [][Next]_vars
FairSpec == Spec /\ WF_vars(Cycle) /\ WF_vars(CIA_handler)
------------------------------------------------------------------------------
(* The assertions of CIA_update(): whenever the chips are brought up to date, *)
(* no timer that counts clocks has missed its underflow.                     *)
AssertionsHold ==
  \A c \in Chip, t \in Timer : CountsClocks(cr, c, t) => count[c][t] + 1 >= ciaclocks

CountsInRange ==
  \A c \in Chip, t \in Timer : count[c][t] \in 0 .. Byte * Byte - 1

(* However the updates cut the time into pieces, the timers are never ahead   *)
(* of it and behind by no more than the two remainders that are kept, less   *)
(* than two clocks (CIA_update(), div10 and lastdiv10).                      *)
LagBounded == lag \in 0 .. 2 * (DIV10 - 1)

(* Every timer that counts clocks has an event coming for its chip, and not   *)
(* later than its underflow is due (CIA_calctimers()).                       *)
EventComing ==
  \A c \in Chip, t \in Timer : CountsClocks(cr, c, t) =>
    /\ evtime # Never
    /\ since <= evtime /\ evtime <= DIV10 * (count[c][t] + 1)

(* An underflow whose interrupt is enabled sets INTREQ in the same step, even *)
(* if the chip has an older interrupt that nobody has read (RethinkICRA()).  *)
UnderflowStep ==
  \A c \in Chip, t \in Timer : Underflows(c, t) /\ UpdateRest /\ t \in imask[c] => c \in intreq'
UnderflowInterrupts == [][UnderflowStep]_vars

(* A timer that counts the underflows of a running timer a underflows itself  *)
(* sooner or later, unless the program changes one of the two.               *)
Cascading(c) ==
  CountsUnderflows(cr, c) /\ CountsClocks(cr, c, "a") /\ "ONESHOT" \notin cr[c]["a"]
CascadeUnderflows ==
  \A c \in Chip : Cascading(c) ~> "b" \in icr[c] \/ ~Cascading(c)
==============================================================================
