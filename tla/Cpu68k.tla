------------------------------- MODULE Cpu68k -------------------------------
(***************************************************************************)
(* The control of the emulated 68000: exceptions and interrupts, the stack *)
(* pointers behind A7, the status register, STOP, and the flags by which   *)
(* the chips tell the processor's loop that something has happened         *)
(* (newcpu.c, with intlev and INTENA of custom.c and the instructions on   *)
(* the status register that gencpu.c generates).  The processor is the     *)
(* 68020 of uademain.c's default preferences.                              *)
(*                                                                         *)
(* A program runs below all handlers; the handlers acknowledge interrupts  *)
(* and return.  Of the instructions only those are modelled that touch     *)
(* this state; program counters and traces are left out.                   *)
(***************************************************************************)
EXTENDS Integers, Sequences, FiniteSets, FiniteSetsExt

CONSTANTS Bits,      \* the bits of INTREQ and INTENA in use
          Program,   \* the status registers the program gives itself
          Words,     \* how many words the program puts on a stack
          MaxTraps   \* exceptions on top of one another before handlers raise none

CpuAssumption ==
  /\ Bits \subseteq 0..13 /\ MaxTraps \in Nat /\ Words \in Nat
  /\ Program \subseteq [s : BOOLEAN, m : BOOLEAN, intmask : 0..7]

VARIABLES regs,     \* s, m, intmask; a7; and the stack pointers not in use
          flags,    \* regs.spcflags
          intena, master, intreq,
          memory,   \* the exception frames written at each stack address
          phase,    \* where m68k_run_1() is: insn, cycles, special
          calls     \* history: what each exception interrupted

vars == <<regs, flags, intena, master, intreq, memory, phase, calls>>

(* A stack pointer: the stack it points into and how many words are on it. *)
Pointer(stack, n) == [stack |-> stack, n |-> n]
Down(p, words) == [p EXCEPT !.n = @ + words]
Up(p, words) == [p EXCEPT !.n = @ - words]

(* m68k_reset and customreset.  The interrupt requests stay as they are;   *)
(* the first ones are those of a program that starts.                      *)
Init ==
  /\ regs = [s |-> TRUE, m |-> FALSE, intmask |-> 7, a7 |-> Pointer("isp", 0),
             usp |-> Pointer("usp", 0), isp |-> Pointer("isp", 0), msp |-> Pointer("msp", 0)]
  /\ flags = {} /\ intena = {} /\ master = FALSE /\ intreq \in SUBSET Bits
  /\ memory = << >> /\ phase = "insn" /\ calls = << >>

-----------------------------------------------------------------------------
(* intlev(): the level of the highest request that is enabled, 0 for none. *)
LevelOf(b) == CASE b = 13 -> 6 [] b \in {11, 12} -> 5 [] b \in 7..10 -> 4
                [] b \in 4..6 -> 3 [] b = 3 -> 2 [] OTHER -> 1

intlev == IF master THEN Max({0} \cup {LevelOf(b) : b \in intreq \cap intena}) ELSE 0

MakeSR(r) == [s |-> r.s, m |-> r.m, intmask |-> r.intmask]

(* A7 takes the place of the pointer of the mode the register selects.     *)
Selected(s, m) == IF ~s THEN "usp" ELSE IF m THEN "msp" ELSE "isp"

MakeFromSR(r, sr) ==
  LET old == Selected(r.s, r.m)
      new == Selected(sr.s, sr.m)
      kept == IF old = new THEN r
              ELSE IF old = "usp" THEN [r EXCEPT !.usp = r.a7]
              ELSE IF old = "msp" THEN [r EXCEPT !.msp = r.a7]
              ELSE [r EXCEPT !.isp = r.a7]
  IN [kept EXCEPT !.s = sr.s, !.m = sr.m, !.intmask = sr.intmask,
                  !.a7 = IF old = new THEN @ ELSE kept[new]]

(* Mutation: the new mask is not compared with what is pending. *)
CheckedLater(f) == f

(* After each change of the register pending requests are looked at again. *)
Checked(f) == f \cup {"INT"}

-----------------------------------------------------------------------------
(* Exceptions.  A frame is what RTE needs of it: the status register and   *)
(* the format, whose length the 68020 reads from it.                       *)

(* Words of the frame of exception nr. *)
FrameSize(nr) ==
  IF nr \in {2, 3} THEN 16 ELSE IF nr \in {5, 6, 7, 9} THEN 6 ELSE 4

Format(nr) == IF nr \in {2, 3} THEN 10 ELSE IF nr \in {5, 6, 7, 9} THEN 2 ELSE 0

Written(at, frame) == [a \in {at} \cup DOMAIN memory |-> IF a = at THEN frame ELSE memory[a]]

(* An interrupt of a 68020 in master mode leaves its frame on the master   *)
(* stack and a second, empty one on the interrupt stack.                   *)
Throwaway(nr, r) == r.m /\ nr \in 24..31

(* Mutation: the user's stack pointer is not put aside. *)
EnteredHere(r) ==
  IF r.s THEN r
  ELSE [r EXCEPT !.s = TRUE, !.a7 = IF r.m THEN r.msp ELSE r.isp]

Entered(r) ==
  IF r.s THEN r
  ELSE [r EXCEPT !.usp = r.a7, !.s = TRUE,
                 !.a7 = IF r.m THEN r.msp ELSE r.isp]

Exception(nr, mask) ==
  LET sr    == MakeSR(regs)
      r     == Entered(regs)
      first == Down(r.a7, FrameSize(nr))
      last  == IF Throwaway(nr, r) THEN Down(r.isp, 4) ELSE first
      one   == Written(first, [sr |-> sr, fmt |-> Format(nr)])
  IN /\ calls' = Append(calls, [regs |-> regs, nr |-> nr])
     /\ memory' = IF Throwaway(nr, r)
                  THEN [a \in {last} \cup DOMAIN one |->
                          IF a = last THEN [sr |-> [sr EXCEPT !.s = TRUE], fmt |-> 1]
                          ELSE one[a]]
                  ELSE one
     /\ regs' = [r EXCEPT !.msp = IF Throwaway(nr, r) THEN first ELSE @,
                          !.a7 = last, !.m = FALSE, !.intmask = mask]

(* RTE unwinds frames until one that is not empty; each sets the register, *)
(* and by it the stack the next is read from.                              *)
PoppedWords(fmt) ==
  CASE fmt = 2 -> 6 [] fmt = 10 -> 16 [] OTHER -> 4

Popped(r) ==
  LET frame == memory[r.a7]
  IN MakeFromSR([r EXCEPT !.a7 = Up(@, PoppedWords(frame.fmt))], frame.sr)

Frames == {regs.a7} \cup IF memory[regs.a7].fmt = 1 THEN {regs.msp} ELSE {}

RTE ==
  /\ phase = "insn" /\ regs.s /\ calls # << >>
  /\ regs' = IF memory[regs.a7].fmt # 1 THEN Popped(regs)
             ELSE Popped(Popped(regs))
  /\ memory' = [a \in DOMAIN memory \ Frames |-> memory[a]]  \* below the pointers: not kept
  /\ calls' = SubSeq(calls, 1, Len(calls) - 1)
  /\ flags' = Checked(flags) /\ phase' = "cycles"
  /\ UNCHANGED <<intena, master, intreq>>

-----------------------------------------------------------------------------
(* The program's instructions.                                             *)

(* MOVE, AND, OR and EOR to the status register. *)
SetSR(sr) ==
  /\ phase = "insn" /\ calls = << >> /\ regs.s
  /\ regs' = MakeFromSR(regs, sr) /\ flags' = Checked(flags) /\ phase' = "cycles"
  /\ UNCHANGED <<intena, master, intreq, memory, calls>>

STOP(sr) ==
  /\ phase = "insn" /\ calls = << >> /\ regs.s
  /\ regs' = MakeFromSR(regs, sr)
  /\ flags' = Checked(flags) \cup {"STOP"} /\ phase' = "cycles"
  /\ UNCHANGED <<intena, master, intreq, memory, calls>>

(* TRAP #n, CHK, a division by zero, an instruction that is illegal or not *)
(* implemented (op_illg), a privileged one in user mode, a bus error.      *)
Numbers == {2, 4, 5} \cup (IF regs.s THEN {} ELSE {8})

(* In master mode Exception() clears M but goes on with the master stack's *)
(* pointer, which the return then takes for the interrupt stack's: the     *)
(* programs here raise no exception of their own in that mode.             *)
Trap(nr) ==
  /\ ~regs.m /\ Len(calls) < MaxTraps
  /\ phase = "insn" /\ Exception(nr, regs.intmask) /\ phase' = "cycles"
  /\ UNCHANGED <<flags, intena, master, intreq>>

INTENA(set, b) ==
  /\ phase = "insn"
  /\ intena' = IF set THEN intena \cup b ELSE intena \ b
  /\ master' = IF b = {} THEN set ELSE master
  /\ flags' = Checked(flags) /\ phase' = "cycles"
  /\ UNCHANGED <<regs, intreq, memory, calls>>

(* A handler acknowledges its request. *)
Acknowledge(b) ==
  /\ phase = "insn" /\ intreq' = intreq \ {b}
  /\ flags' = Checked(flags) /\ phase' = "cycles"
  /\ UNCHANGED <<regs, intena, master, memory, calls>>

(* RESET resets the chips: customreset(). *)
RESET ==
  /\ phase = "insn" /\ regs.s /\ calls = << >>
  /\ intena' = {} /\ master' = FALSE /\ flags' = {} /\ phase' = "cycles"
  /\ UNCHANGED <<regs, intreq, memory, calls>>

-----------------------------------------------------------------------------
(* After each instruction the chips catch up, then do_specialties() looks  *)
(* at the flags.                                                           *)

(* Mutation: a chip's request does not tell the processor. *)
RequestedQuietly(new) ==
  /\ intreq' = intreq \cup new
  /\ flags' = flags

Requested(new) ==
  /\ intreq' = intreq \cup new
  /\ flags' = IF new = {} THEN flags ELSE Checked(flags)

Cycles ==
  /\ phase = "cycles" /\ phase' = "special"
  /\ \E b \in Bits : Requested({b}) \/ Requested({})
  /\ UNCHANGED <<regs, intena, master, memory, calls>>

(* While the processor is stopped four cycles pass at a time. *)
StoppedCycles ==
  /\ phase = "special" /\ "STOP" \in flags /\ flags \cap {"INT", "DOINT"} = {}
  /\ \E b \in Bits : Requested({b})
  /\ UNCHANGED <<regs, intena, master, memory, phase, calls>>

(* Mutation: an interrupt does not raise the mask. *)
TakenOpen == Exception(24 + intlev, regs.intmask)

Taken == Exception(24 + intlev, intlev)

StoppedCheck ==
  /\ phase = "special" /\ "STOP" \in flags /\ flags \cap {"INT", "DOINT"} # {}
  /\ \/ intlev > regs.intmask /\ Taken /\ flags' = {"INT"}
     \/ intlev <= regs.intmask /\ flags' = {"STOP"} /\ UNCHANGED <<regs, memory, calls>>
  /\ UNCHANGED <<intena, master, intreq, phase>>

(* A request waits in INT for one instruction and then in DOINT. *)
Delayed(f) == IF "INT" \in f THEN {"DOINT"} ELSE {}

Specialties ==
  /\ phase = "special" /\ "STOP" \notin flags /\ phase' = "insn"
  /\ \/ "DOINT" \in flags /\ intlev > regs.intmask /\ Taken /\ flags' = {"DOINT"}
     \/ /\ "DOINT" \in flags => intlev <= regs.intmask
        /\ flags' = Delayed(flags)
        /\ UNCHANGED <<regs, memory, calls>>
  /\ UNCHANGED <<intena, master, intreq>>

(* Any other instruction; the program's may leave a word on its stack. *)
Other ==
  /\ phase = "insn" /\ phase' = "cycles"
  /\ \/ UNCHANGED regs
     \/ calls = << >> /\ regs.a7.n < Words /\ regs' = [regs EXCEPT !.a7 = Down(@, 1)]
  /\ UNCHANGED <<flags, intena, master, intreq, memory, calls>>

Instruction ==
  \/ RTE \/ RESET \/ Other
  \/ \E sr \in Program : SetSR(sr) \/ STOP(sr)
  \/ \E nr \in Numbers : Trap(nr)
  \/ \E set \in BOOLEAN, b \in {{}} \cup {{x} : x \in Bits} : INTENA(set, b)
  \/ \E b \in Bits : Acknowledge(b)

Loop == Cycles \/ StoppedCheck \/ Specialties

Next == Instruction \/ Loop \/ StoppedCycles
Spec == Init /\ [][Next]_vars

(* The program and the loop run on; nothing is said of when chips ask.     *)
FairSpec == Spec /\ WF_vars(Loop)

-----------------------------------------------------------------------------
TypeOK == /\ regs.intmask \in 0..7 /\ flags \subseteq {"INT", "DOINT", "STOP"}
          /\ intreq \subseteq Bits /\ intena \subseteq Bits
          /\ phase \in {"insn", "cycles", "special"}
          /\ \A p \in {regs.a7, regs.usp, regs.isp, regs.msp} : p.n \in Nat

(* A request that may interrupt is never forgotten: as long as it is       *)
(* pending and above the mask one of the flags by which do_specialties()   *)
(* finds it is set, through every change of the mask, of INTENA and INTREQ. *)
NothingForgotten ==
  intlev > regs.intmask => flags \cap {"INT", "DOINT"} # {}

(* What a program sees of the pointers, wherever they are kept. *)
Seen(r) == [k \in {"usp", "isp", "msp"} |->
              IF k = Selected(r.s, r.m) THEN r.a7 ELSE r[k]]

(* The return from an exception brings back the mode, the mask and all     *)
(* three stack pointers the exception found, through nested exceptions and *)
(* throwaway frames (newcpu.c:616-744 against the RTE of gencpu.c).        *)
ReturnStep ==
  Len(calls') < Len(calls) =>
    LET before == calls[Len(calls)].regs IN
    MakeSR(regs') = MakeSR(before) /\ Seen(regs') = Seen(before)
ReturnRestores == [][ReturnStep]_vars

(* An interrupt handler is only interrupted by a higher level.             *)
NestingIncreases ==
  \A i, j \in 1..Len(calls) :
     i < j /\ {calls[i].nr, calls[j].nr} \subseteq 24..31 => calls[i].nr < calls[j].nr

(* STOP ends when an interrupt above the mask is requested.                *)
StopEnds ==
  "STOP" \in flags /\ intlev > regs.intmask ~> "STOP" \notin flags
=============================================================================
