------------------------------- MODULE MCChips -------------------------------
(***************************************************************************)
(* What the emulated Amiga brings about in the course of time: interrupts  *)
(* of the processor, underflows and alarms of the CIAs, ends of audio      *)
(* blocks.  The parts keep no state in common: a behaviour is of one of    *)
(* them, and the variables of the others rest.                             *)
(***************************************************************************)
EXTENDS Integers, Sequences

VARIABLES
    part,
    \* Cpu68k
    regs, flags, intena, master, intreq, memory, step, calls,
    \* CiaTimers
    count, latch, cr, icr, imask, ciareq, since, div10, lastdiv10, evtime, behind, changes,
    \* CiaTod
    tod, todon, tol, tlatch, alarm, setsAlarm, noticed, read, snapshot, written,
    \* Paula
    paula, on, volume, period, hpos, lag, overrun, phase

cpu     == <<regs, flags, intena, master, intreq, memory, step, calls>>
timers  == <<count, latch, cr, icr, imask, ciareq, since, div10, lastdiv10, evtime, behind, changes>>
clock   == <<tod, todon, tol, tlatch, alarm, setsAlarm, noticed, read, snapshot, written>>
audio   == <<paula, on, volume, period, hpos, lag, overrun, phase>>
all     == <<part, cpu, timers, clock, audio>>

\* Programs in user, supervisor and master mode, masked or not; an audio and
\* a keyboard request
Sr(s, m, mask) == [s |-> s, m |-> m, intmask |-> mask]
Cpu == INSTANCE Cpu68k WITH phase <- step, Bits <- {3, 7}, MaxTraps <- 1, Words <- 1,
    Program <- {Sr(TRUE, FALSE, 0), Sr(FALSE, FALSE, 0), Sr(TRUE, TRUE, 0), Sr(FALSE, TRUE, 3)}

\* A CIA with timers of four values and every way they may count clocks
Control == {{}, {"START"}, {"START", "ONESHOT"}, {"START", "CASCADE"}}
Cia  == INSTANCE CiaTimers WITH intreq <- ciareq, lag <- behind, writes <- changes,
    Chip <- {"A"}, Byte <- 2, Control <- Control, MaxWrites <- 2

\* A counter of three binary digits
Tod == INSTANCE CiaTod WITH icr <- noticed, Byte <- 2

\* One channel that a player feeds by DMA, with any writes at any cycle of
\* short lines
Dma == INSTANCE Paula WITH Channels <- 1, MaxHpos <- 3, MinPer <- 2, MaxPer <- 3, LenMod <- 4,
    AddrMod <- 16, Half <- 1, Unit <- 2, Interval <- 2, Byte <- 1, Mem <- <<0>>,
    Pers <- {0}, Lens <- {0, 1, 3}, LCHs <- {0}, LCLs <- {0}, Dats <- {0}, DmaBits <- {{0, 1}, {1}}

ASSUME ChipsAssumption ==
    /\ Cpu!CpuAssumption /\ Cia!CiaAssumption /\ Tod!ByteAssumption
    /\ Dma!PaulaAssumption

-----------------------------------------------------------------------------
NoCpu    == Cpu!Init /\ intreq = {}
NoTimers == Cia!Init
NoClock  == Tod!Init
NoAudio  == Dma!Init

Init ==
    \/ part = "cpu" /\ Cpu!Init /\ NoTimers /\ NoClock /\ NoAudio
    \/ part = "cascade" /\ Cia!Init /\ NoCpu /\ NoClock /\ NoAudio
    \/ part = "tod" /\ Tod!Init /\ NoCpu /\ NoTimers /\ NoAudio
    \/ part = "dma" /\ Dma!Init /\ NoCpu /\ NoTimers /\ NoClock

Next ==
    /\ UNCHANGED part
    /\ \/ part = "cpu" /\ Cpu!Next /\ UNCHANGED <<timers, clock, audio>>
       \/ part = "cascade" /\ Cia!Next /\ UNCHANGED <<cpu, clock, audio>>
       \/ part = "tod" /\ Tod!Next /\ UNCHANGED <<cpu, timers, audio>>
       \/ part = "dma" /\ Dma!DmaNext /\ UNCHANGED <<cpu, timers, clock>>

\* The fairness that each module states of itself: only the part of the
\* behaviour has steps at all
Goes ==
    \/ part = "cpu" /\ Cpu!Loop /\ UNCHANGED <<timers, clock>>
    \/ part = "cascade" /\ (Cia!Cycle \/ Cia!CIA_handler) /\ UNCHANGED <<cpu, clock>>
    \/ part = "tod" /\ Tod!Sync /\ UNCHANGED <<cpu, timers>>
Spec == Init /\ [][Next]_all /\ WF_<<cpu, timers, clock>>(Goes) /\ WF_hpos(part = "dma" /\ Dma!Tick)
-----------------------------------------------------------------------------
(* What the modules say of themselves, each of its own part. *)
\* A request that may interrupt keeps a flag by which the loop finds it, and
\* ends a STOP; handlers are interrupted from above only, and a return brings
\* back mode, mask and stack pointers.  (newcpu.c, Interrupt(), Exception(),
\* MakeFromSR(), do_specialties(); gencpu.c, i_RTE; Cpu68k)
InterruptsTaken ==
    /\ [](part = "cpu" => Cpu!NothingForgotten /\ Cpu!NestingIncreases)
    /\ [][part = "cpu" => Cpu!ReturnStep]_cpu
    /\ Cpu!StopEnds

\* Every running timer has an event coming no later than its underflow,
\* cascaded ones included, and a timer that counts the underflows of a running
\* one underflows.  (cia.c, CIA_calctimers(), CIA_update(); CiaTimers)
TimersUnderflow ==
    /\ [](part = "cascade" => Cia!EventComing)
    /\ part = "cascade" => Cia!CascadeUnderflows

\* The three bytes of the clock are read as one value it had, and set as one
\* value; a clock that counts and is written to no more, nor its alarm, comes
\* to the alarm again and again, whatever both were when that began.  (cia.c, ReadCIAA(), WriteCIAA(), CIA_vsync_handler(); CiaTod)
ClockKept ==
    /\ [](part = "tod" => Tod!ReadIsSnapshot /\ Tod!WrittenExactly)
    /\ (<>[][part = "tod" => Tod!LeftAlone]_clock) => ([]<>noticed \/ <>[]~todon)

\* The pointer of a channel and the count of words left of its block agree,
\* but for the first pass of a block of two words; no word outside the block
\* the player set up is fetched; and the end of a block is signalled by an
\* interrupt, unless DMA is turned off first or the channel sets the period of
\* another.  (audio.c, audio_handler(); custom.c, hsync_handler(); Paula)
BlocksPlayed ==
    /\ [](part = "dma" => Dma!PointerMatchesCount /\ Dma!FetchInBlock)
    /\ part = "dma" => Dma!BlockSignalled
=============================================================================
