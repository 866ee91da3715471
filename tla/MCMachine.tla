------------------------------ MODULE MCMachine ------------------------------
(***************************************************************************)
(* What the instructions of the emulated 68000 compute: shifts, sums,      *)
(* products and quotients, bit fields, and the ways into memory; and what  *)
(* the chips make of the time that passes between two of them: copper,     *)
(* timers, audio.  The parts keep no state in common: a behaviour is of    *)
(* one of them, and the variables of the others rest.                      *)
(***************************************************************************)
EXTENDS Integers, Sequences

VARIABLES part, op, n, f,
          val0, f0, val, lost,                  \* AluShift
          kind, a, b, r,                        \* AluChain
          form, hi, lo, src, res,               \* AluDivide
          inReg, offset, width, mem, dn, done, mem1, dn1, nflag, zflag, \* BitFields
          s, frames, ops,                       \* Stack68k
          vpos, hpos, program, cop2lc, copcon, cop, eager, event, writes, fresh, synced, \* Copper
          count, latch, cr, icr, imask, intreq, since, div10, lastdiv10, evtime, behind, changes, \* CiaTimers
          paula, on, volume, period, line, lag, overrun, phase   \* Paula

shared   == <<op, n, f>>
shifting == <<val0, f0, val, lost>>
chaining == <<kind, a, b, r>>
dividing == <<form, hi, lo, src, res>>
fielding == <<inReg, offset, width, mem, dn, done, mem1, dn1, nflag, zflag>>
stacking == <<s, frames, ops>>
copping  == <<vpos, hpos, program, cop2lc, copcon, cop, eager, event, writes, fresh, synced>>
timing   == <<count, latch, cr, icr, imask, intreq, since, div10, lastdiv10, evtime, behind, changes>>
playing  == <<paula, on, volume, period, line, lag, overrun, phase>>
instructions == <<shared, shifting, chaining, dividing, fielding, stacking>>
all == <<part, instructions, copping, timing, playing>>

ShiftOps == {"AS.R", "AS.L", "LS.R", "LS.L", "RO.R", "RO.L", "ROX.R", "ROX.L"}
\* Bytes: ends of the range, single bits, runs of ones, mixed patterns
Shift8 == INSTANCE AluShift WITH W <- 8, Ops <- ShiftOps, Operands <-
    {0, 85, 170, 99, 156} \cup {2^i : i \in 0..7} \cup {2^i - 1 : i \in 2..8} \cup {256 - 2^i : i \in 1..6}
\* Words: another reduction of the counts of ROXL and ROXR
Shift16 == INSTANCE AluShift WITH W <- 16, Ops <- {"AS.L", "RO.L", "ROX.R", "ROX.L"},
    Operands <- {0, 43690, 4660, 39612, 65535, 49152} \cup {2^i : i \in {0, 7, 8, 15}}

\* Two words of three bits: every pair of numbers
Words == INSTANCE AluChain WITH W <- 3, Limbs <- 2, Kinds <- {"add", "addx", "subx", "negx"},
    Binary <- 0..7, Decimal <- {}
\* Two bytes of two digits, those at which a carry or a borrow begins or ends
Digits == INSTANCE AluChain WITH W <- 8, Limbs <- 2, Kinds <- {"abcd", "sbcd"},
    Binary <- {}, Decimal <- {16 * t + u : t \in {0, 1, 9}, u \in {0, 1, 5, 9}}
\* One instruction: boundary bytes, every byte of two digits
Single == INSTANCE AluChain WITH W <- 8, Limbs <- 1, Kinds <- {"add", "addx", "sub", "subx", "neg", "negx", "cmp",
      "abcd", "sbcd", "nbcd"},
    Binary <- {0, 85, 170} \cup UNION {{2^i - 1, 2^i, 255 - 2^i} : i \in 0..7},
    Decimal <- {16 * t + u : t \in 0..9, u \in 0..9}

\* Registers of four bits: every dividend, divisor and factor
Division == INSTANCE AluDivide WITH W <- 4, Garbage <- {0, 5, 15}, Forms <-
    [op : {"DIVU", "DIVS", "MULU", "MULS"}, lib : {"word"}, wide : {TRUE}]
      \cup [op : {"DIVU", "DIVS", "MULU", "MULS"}, lib : {"s64", "split"}, wide : BOOLEAN]

\* Bytes of two bits: a long has eight, so a field spans up to five bytes;
\* offsets before and after the address, in every position in a byte
Field == INSTANCE BitFields WITH B <- 2, Bytes <- 7, Base <- 1, Offsets <- -2..3,
    Memories <- {0, 16383, 10922, 5461, 1, 8192, 64, 256, 9876, 6507, 8064}, Inserts <- {0, 255, 165, 90}

\* Two data registers, a frame register and the stack pointer; longs of four
\* bytes of two bits, 0123 and 3210, whose bytes and signs can be told apart
Stack == INSTANCE Stack68k WITH Base <- 4, N <- 2, MemSize <- 16, Values <- {27, 228},
    Masks <- {{0}, {1, 2}, {0, 2, 3}}, Offsets <- {0, 2}, MaxFrames <- 3, MaxOps <- 4

\* Copper lists with a WAIT of this line or the next, with and without a
\* mask, a write of each kind behind it, and a SKIP or a second WAIT
Insn(code, v, h, vm, hm) == [op |-> code, reg |-> "", v |-> v, h |-> h, vm |-> vm, hm |-> hm]
Move(reg) == [Insn("MOVE", 0, 0, 0, 0) EXCEPT !.reg = reg]
Waits == {Insn("WAIT", 0, 6, 3, 14), Insn("WAIT", 0, 10, 3, 6), Insn("WAIT", 1, 0, 3, 14), Insn("WAIT", 1, 6, 3, 14)}
Skip  == Insn("SKIP", 1, 4, 3, 14)
Again == Insn("WAIT", 1, 8, 3, 14)
Copper == INSTANCE Copper WITH mem <- program, maxhpos <- 15, maxvpos <- 2, Lists <- {3, 6}, MaxWrites <- 2,
    Programs <- {<<Move("color"), w, Move(t[1]), t[2], Move("copjmp2"), Move("color")>> :
                   w \in Waits, t \in {<<"intreq", Skip>>, <<"intreq", Again>>, <<"blitter", Again>>, <<"dmacon", Skip>>}}

\* Two CIAs with timers of four values, which share the event and the divider
Cias == INSTANCE CiaTimers WITH lag <- behind, writes <- changes,
    Chip <- {"A", "B"}, Byte <- 2, Control <- {{"START"}}, MaxWrites <- 2

\* One channel that a player feeds by hand or by DMA, with any writes at any
\* cycle of short lines.  Bytes are bits: the word 10 in memory, 01 by hand
Paula == INSTANCE Paula WITH hpos <- line, Channels <- 1, MaxHpos <- 3, MinPer <- 2, MaxPer <- 3, LenMod <- 2,
    AddrMod <- 2, Half <- 1, Unit <- 2, Interval <- 3, Byte <- 2, Mem <- <<2>>,
    Pers <- {0, 1}, Lens <- {1}, LCHs <- {}, LCLs <- {}, Dats <- {1}, DmaBits <- {{0, 1}}

ASSUME MachineAssumption ==
    /\ Shift8!ShiftAssumption /\ Shift16!ShiftAssumption
    /\ Words!ChainAssumption /\ Digits!ChainAssumption /\ Single!ChainAssumption
    /\ Division!DivideAssumption /\ Field!BitFieldAssumption /\ Stack!StackAssumption
    /\ Copper!CopperAssumption /\ Cias!CiaAssumption /\ Paula!PaulaAssumption

-----------------------------------------------------------------------------
NoShift    == val0 = 0 /\ f0 = 0 /\ val = 0 /\ lost = 0
NoChain    == kind = 0 /\ a = 0 /\ b = 0 /\ r = 0
NoDivision == form = 0 /\ hi = 0 /\ lo = 0 /\ src = 0 /\ res = 0
NoField    == /\ inReg = 0 /\ offset = 0 /\ width = 0 /\ mem = 0 /\ dn = 0 /\ done = 0
              /\ mem1 = 0 /\ dn1 = 0 /\ nflag = 0 /\ zflag = 0
NoStack    == s = 0 /\ frames = 0 /\ ops = 0
NoCopper   == /\ vpos = 0 /\ hpos = 0 /\ program = <<>> /\ cop2lc = 0 /\ copcon = FALSE /\ cop = <<>> /\ eager = <<>>
              /\ event = <<FALSE, 0>> /\ writes = 0 /\ fresh = FALSE /\ synced = FALSE

Instructions ==
    \/ /\ \/ part = "shift8" /\ Shift8!Init
          \/ part = "shift16" /\ Shift16!Init
       /\ NoChain /\ NoDivision /\ NoField /\ NoStack
    \/ /\ \/ part = "words" /\ Words!Init
          \/ part = "digits" /\ Digits!Init
          \/ part = "single" /\ Single!Init
       /\ NoShift /\ NoDivision /\ NoField /\ NoStack /\ op = 0
    \/ part = "division" /\ Division!Init /\ NoShift /\ NoChain /\ NoField /\ NoStack /\ op = 0 /\ n = 0 /\ f = 0
    \/ part = "field" /\ Field!Init /\ NoShift /\ NoChain /\ NoDivision /\ NoStack /\ n = 0 /\ f = 0
    \/ part = "stack" /\ Stack!Init /\ NoShift /\ NoChain /\ NoDivision /\ NoField /\ op = 0 /\ n = 0 /\ f = 0

NoInstruction == op = 0 /\ n = 0 /\ f = 0 /\ NoShift /\ NoChain /\ NoDivision /\ NoField /\ NoStack
Init ==
    \/ Instructions /\ NoCopper /\ Cias!Init /\ Paula!Init
    \/ part = "copper" /\ Copper!Init /\ NoInstruction /\ Cias!Init /\ Paula!Init
    \/ part = "cias" /\ Cias!Init /\ NoInstruction /\ NoCopper /\ Paula!Init
    \/ part = "paula" /\ Paula!Init /\ NoInstruction /\ NoCopper /\ Cias!Init

Next ==
    /\ UNCHANGED part
    /\ \/ /\ UNCHANGED <<copping, timing, playing>>
          /\ \/ part = "shift8" /\ Shift8!Next /\ UNCHANGED <<chaining, dividing, fielding, stacking>>
             \/ part = "shift16" /\ Shift16!Next /\ UNCHANGED <<chaining, dividing, fielding, stacking>>
             \/ part = "words" /\ Words!Next /\ UNCHANGED <<op, shifting, dividing, fielding, stacking>>
             \/ part = "digits" /\ Digits!Next /\ UNCHANGED <<op, shifting, dividing, fielding, stacking>>
             \/ part = "single" /\ Single!Next /\ UNCHANGED <<op, shifting, dividing, fielding, stacking>>
             \/ part = "division" /\ Division!Next /\ UNCHANGED <<shared, shifting, chaining, fielding, stacking>>
             \/ part = "field" /\ Field!Execute /\ UNCHANGED <<n, f, shifting, chaining, dividing, stacking>>
             \/ part = "stack" /\ Stack!Next /\ UNCHANGED <<shared, shifting, chaining, dividing, fielding>>
       \/ part = "copper" /\ Copper!Next /\ UNCHANGED <<instructions, timing, playing>>
       \/ part = "cias" /\ Cias!Next /\ UNCHANGED <<instructions, copping, playing>>
       \/ part = "paula" /\ Paula!Next /\ UNCHANGED <<instructions, copping, timing>>

Spec == Init /\ [][Next]_all
-----------------------------------------------------------------------------
(* What the modules say of themselves, each of its own part. *)
\* Shifts and rotations are exact: the result and the flags of a register
\* shifted by a count are those of a memory word shifted as often by one, and
\* together the shifts make the product, quotient or rotation they stand for.
\* (gencpu.c, i_ASR to i_ROXLW; AluShift)
ShiftsExact ==
    /\ part = "shift8" => Shift8!ShiftIsRepeated /\ Shift8!ShiftMeaning
    /\ part = "shift16" => Shift16!ShiftIsRepeated /\ Shift16!ShiftMeaning

\* A program that computes with numbers of several words, binary or decimal,
\* gets the sums and differences, and a Z of the whole number, when the first
\* word is added by ADD or the carry is cleared first: then X is the carry
\* between words.  Of SUB, NEG and NBCD only one word is checked, without X: it
\* is not the carry, so a chain that begins with them goes wrong (ExtendFlag.cfg).
\* Conditions after a comparison are the relations of the numbers.  Products,
\* quotients and remainders are exact, or V says that they do not fit, with
\* 64-bit integers and without.  (gencpu.c, genflags(), duplicate_carry(),
\* i_ADD to i_NBCD; machdep/m68k.h, cctrue(); newcpu.c, m68k_divl(),
\* m68k_mull(); AluChain, AluDivide)
NumbersExact ==
    /\ part = "words" => /\ Words!ResultIsExact /\ Words!ZeroOfTheWhole
                         /\ Words!ExtendIsCarry /\ Words!ConditionsCompare
    /\ part = "digits" => Digits!ResultIsExact /\ Digits!ZeroOfTheWhole /\ Digits!ExtendIsCarry
    /\ part = "single" => Single!ResultIsExact /\ Single!ZeroOfTheWhole /\ Single!ConditionsCompare
                          /\ (kind \notin {"sub", "neg", "nbcd"} => Single!ExtendIsCarry)
    /\ part = "division" => Division!DivisionIsExact /\ Division!ProductIsExact

\* A bit field is read wherever it begins and ends, in a register or in up to
\* five bytes of memory, and written without touching a bit around it; fields
\* of one bit are the bits of BTST to BSET.  (gencpu.c, i_BFTST to i_BFINS,
\* i_BTST to i_BSET; BitFields)
FieldsExact == part = "field" => Field!FieldIsRead /\ Field!OnlyTheField /\ Field!SingleBitAgrees

\* What a frame restores is what it saved, whatever was done in between: the
\* stack pointer stays even when bytes are pushed, the two orders in which
\* MOVEM walks its mask lay registers out alike, and MOVEP reads back what it
\* wrote.  (gencpu.c, genamode(), genmovemel(), genmovemle(), i_LINK, i_UNLK,
\* i_MVPRM, i_MVPMR; Stack68k)
StackRestores ==
    /\ [](part = "stack" => Stack!StackEven /\ Stack!LayoutsAgree /\ Stack!MovepReturns)
    /\ [][part = "stack" => Stack!PopStep]_stacking

\* In the line it was started in, a copper that is caught up in one go
\* performs the MOVEs of one updated in every cycle; the event armed for it
\* lies ahead, so that it never aborts, at the first write that matters.
\* (custom.c, update_copper(), prepare_copper_1(); Copper)
CopperOnTime ==
    /\ [](part = "copper" => Copper!LazyIsEager)
    /\ [][part = "copper" => Copper!AheadStep /\ Copper!ExactStep]_copping

\* Whenever the chips are brought up to date no timer has missed its
\* underflow; however the updates cut the time into pieces, the timers are
\* never ahead of it and behind by no more than two remainders; every running
\* timer has an event coming, and an underflow that may interrupt does.
\* (cia.c, CIA_update(), CIA_calctimers(), RethinkICRA(), RethinkICRB();
\* CiaTimers)
TimersOnTime ==
    /\ [](part = "cias" => Cias!AssertionsHold /\ Cias!LagBounded /\ Cias!EventComing)
    /\ [][part = "cias" => Cias!UnderflowStep]_timing

\* Into however many calls of update_audio() the time between two writes is
\* cut, the same samples come out of the words a channel is given, and it is
\* left in the same state (a write to INTREQ, which changes what a channel does
\* next without such a call, counts as a write); samples come at their times to
\* half a cycle, for ever; and update_audio() always has a cycle to pass and a
\* sum to divide by.
\* (audio.c, update_audio(); Paula)
AudioOnTime == part = "paula" => Paula!Progress /\ Paula!SampleClock /\ Paula!CutDoesNotMatter
=============================================================================
