------------------------------- MODULE Paula -------------------------------
(***************************************************************************)
(* The audio channels of the emulated Amiga: audio.c and the parts of      *)
(* custom.c that drive it (DMACON, ADKCON, INTREQ and the fetches of       *)
(* hsync_handler).  Time advances a bus cycle at a time; the channels are  *)
(* brought up to date lazily, by update_audio(), at the start of each line *)
(* and before each write to an audio register.                             *)
(*                                                                         *)
(* The sample clock is a float in the code and a number of 1/Unit cycles   *)
(* here.  Of the sound itself the fetched words are kept, and the sums     *)
(* each channel hands over: volume, mixing and filters are left out.       *)
(* Addresses and lengths count words.                                      *)
(***************************************************************************)
EXTENDS Integers, Sequences, FiniteSets, SequencesExt, FiniteSetsExt

CONSTANTS Channels,   \* how many channels (4 in the chip), numbered from 1
          MaxHpos,    \* bus cycles in a line (227)
          MinPer,     \* AUDxPER limits a period to this (16)
          MaxPer,     \* the period that 0 stands for (65535)
          LenMod,     \* the length registers count modulo this (65536)
          AddrMod,    \* words an address can tell apart (2^31)
          Half,       \* words an address's low register reaches (32768)
          Unit,       \* parts of a cycle the sample clock can tell apart
          Interval,   \* those parts between two samples
          Byte,       \* how many values a byte has (256)
          Mem,        \* the words of chip memory
          Pers, Lens, LCHs, LCLs, Dats, \* values the player writes
          DmaBits     \* and the sets of bits of DMACON, 0 for the master bit

PaulaAssumption ==
  /\ Channels \in Nat \ {0} /\ MaxHpos \in Nat \ {0} /\ LenMod \in Nat \ {0}
  /\ {AddrMod, Byte} \subseteq Nat \ {0}
  /\ MinPer \in 1..MaxPer /\ MaxPer \in Nat /\ Half \in Nat \ {0}
  /\ Unit \in Nat \ {0} /\ Unit % 2 = 0 /\ Interval \in Nat /\ Interval >= Unit
  /\ Pers \cup Lens \cup LCHs \cup LCLs \cup Dats \subseteq Nat
  /\ DmaBits \subseteq SUBSET (0..Channels)

VARIABLES
  paula,    \* what update_audio() works on: see Init
  on,       \* the channels whose DMACON bit is set, 0 for the master bit
  volume, period,  \* ADKCON: the channels attached to the next one
  hpos,     \* current_hpos(): cycles since the last hsync
  lag,      \* cycles - last_audio_cycles
  overrun,  \* a running channel fetched a word outside its block
  phase     \* history: cycles simulated, modulo Interval

vars == <<paula, on, volume, period, hpos, lag, overrun, phase>>

Nr == 1..Channels
Words(l) == IF l = 0 THEN LenMod ELSE l
wget(a) == Mem[(a % Len(Mem)) + 1]
High(w) == w \div Byte
Low(w) == w % Byte

(* audio_reset.  In state 0 the code's evtime counts down past zero and is *)
(* not read before it is set again; here it is 0.                          *)
Init ==
  /\ paula = [ch |-> [c \in Nr |->
                        [state |-> 0, evtime |-> 0, per |-> MaxPer, dat |-> 0,
                         nextdat |-> 0, pt |-> 0, ptend |-> 0, lc |-> 0, len |-> 0,
                         wlen |-> 0, dmaen |-> FALSE, intreq2 |-> FALSE,
                         data_written |-> FALSE, current_sample |-> 0, sum |-> 0]],
              intreq |-> {}, next |-> Interval, accum |-> 0, heard |-> <<>>,
              divided |-> TRUE, stuck |-> FALSE]
  /\ on = {} /\ volume = {} /\ period = {}
  /\ hpos = 0 /\ lag = 0 /\ overrun = FALSE /\ phase = 0

-----------------------------------------------------------------------------
(* The state machine of one channel: audio_handler(nr), called when evtime *)
(* has come down to 0.                                                     *)

napnav(c) == c \in volume \/ c \notin period

Silent(x) == [x EXCEPT !.state = 0, !.evtime = 0, !.current_sample = 0]

State1(p, c) ==
  LET x == p.ch[c] IN
  [p EXCEPT !.intreq = @ \cup {c},
            !.ch[c] = [x EXCEPT !.evtime = MaxHpos, !.state = 5,
                                !.wlen = IF @ = 1 THEN 1 ELSE (@ - 1) % LenMod,
                                !.nextdat = wget(x.pt)]]

State5(p, c) ==
  LET x == p.ch[c] IN
  [p EXCEPT !.ch[c] = [x EXCEPT !.evtime = x.per, !.dat = x.nextdat, !.state = 2,
                                !.current_sample = High(x.nextdat),
                                !.data_written = napnav(c) \/ @]]

State2(p, c) ==
  LET x == p.ch[c]
      moved == [x EXCEPT !.evtime = x.per, !.state = 3, !.current_sample = Low(x.dat)]
      loaded == [moved EXCEPT !.intreq2 = FALSE, !.dat = x.nextdat,
                              !.data_written = x.dmaen \/ @]
      ch == [p.ch EXCEPT ![c] = loaded]
  IN IF c \notin period
     THEN [p EXCEPT !.ch[c] = moved]
     ELSE [p EXCEPT !.intreq = IF x.intreq2 /\ x.dmaen THEN @ \cup {c} ELSE @,
                    !.ch = IF c + 1 \notin Nr THEN ch
                           ELSE [ch EXCEPT ![c + 1].per = IF x.nextdat = 0 THEN MaxPer
                                                          ELSE x.nextdat]]

(* Mutation: the note of the block's end is dropped before it is looked at. *)
State3Forgets(p, c) ==
  LET x == p.ch[c] IN
  IF c \in p.intreq /\ ~x.dmaen
  THEN [p EXCEPT !.ch[c] = Silent(x)]
  ELSE [p EXCEPT !.intreq = IF napnav(c) /\ ~x.dmaen THEN @ \cup {c} ELSE @,
                 !.ch[c] = [x EXCEPT !.evtime = x.per, !.state = 2,
                                     !.intreq2 = FALSE, !.dat = x.nextdat,
                                     !.current_sample = High(x.nextdat),
                                     !.data_written = (x.dmaen /\ napnav(c)) \/ @]]

State3(p, c) ==
  LET x == p.ch[c] IN
  IF c \in p.intreq /\ ~x.dmaen
  THEN [p EXCEPT !.ch[c] = Silent(x)]
  ELSE [p EXCEPT !.intreq = IF napnav(c) /\ (x.intreq2 \/ ~x.dmaen) THEN @ \cup {c} ELSE @,
                 !.ch[c] = [x EXCEPT !.evtime = x.per, !.state = 2,
                                     !.intreq2 = FALSE, !.dat = x.nextdat,
                                     !.current_sample = High(x.nextdat),
                                     !.data_written = (x.dmaen /\ napnav(c)) \/ @]]

audio_handler(p, c) ==
  IF p.ch[c].state = 0 \/ p.ch[c].evtime # 0 THEN p
  ELSE CASE p.ch[c].state = 1 -> State1(p, c)
         [] p.ch[c].state = 5 -> State5(p, c)
         [] p.ch[c].state = 2 -> State2(p, c)
         [] OTHER             -> State3(p, c)

-----------------------------------------------------------------------------
(* update_audio: repeatedly the shortest time to the next sample, the next *)
(* channel event or the present.                                           *)

Rounded(t) == (t + Unit \div 2) \div Unit

(* Mutation: the clock starts a new interval and forgets the remainder. *)
SampledAnew(p) ==
  [p EXCEPT !.next = Interval, !.accum = 0, !.divided = @ /\ p.accum # 0,
            !.heard = Append(@, [c \in Nr |-> <<p.ch[c].sum, p.accum>>]),
            !.ch = [c \in Nr |-> [@[c] EXCEPT !.sum = 0]]]

(* The sample clock is moved on by a whole interval; the average over      *)
(* accum cycles is taken, which must not be zero.                          *)
Sampled(p) ==
  [p EXCEPT !.next = @ + Interval, !.accum = 0, !.divided = @ /\ p.accum # 0,
            !.heard = Append(@, [c \in Nr |-> <<p.ch[c].sum, p.accum>>]),
            !.ch = [c \in Nr |-> [@[c] EXCEPT !.sum = 0]]]

(* A channel that is attached to the next one is not heard (adk_mask). *)
Output(x, c) == IF c \in volume \cup period THEN 0 ELSE x.current_sample

Passed(p, n) ==
  [p EXCEPT !.next = @ - n * Unit, !.accum = @ + n,
            !.ch = [c \in Nr |-> [@[c] EXCEPT
                      !.sum = @ + n * Output(p.ch[c], c),
                      !.evtime = IF p.ch[c].state = 0 THEN @ ELSE @ - n]]]

(* Mutation: a channel in the second half of its word is not looked at. *)
WaitsFirst(p) == {p.ch[c].evtime : c \in {c \in Nr : p.ch[c].state \in {1, 5, 2}}}

Waits(p) == {p.ch[c].evtime : c \in {c \in Nr : p.ch[c].state # 0}}

RECURSIVE Updated(_, _)
Updated(p, n) ==
  LET rounded == Rounded(p.next)
      best    == Min(Waits(p) \cup {rounded, n})
      later   == Passed(p, best)
      played  == IF rounded = best THEN Sampled(later) ELSE later
  IN IF n = 0 THEN p
     ELSE IF best <= 0 THEN [p EXCEPT !.stuck = TRUE]  \* no cycle would ever pass
     ELSE Updated(FoldLeft(audio_handler, played, [c \in Nr |-> c]), n - best)

(* The samples are handed over to the sample buffer. *)
Given(p) == [p EXCEPT !.heard = <<>>]

update_audio == Given(Updated(paula, lag))

Simulated ==
  /\ lag' = 0
  /\ phase' = (phase + lag) % Interval

-----------------------------------------------------------------------------
(* The writes of the 68000 to the registers.                               *)

AUDxDAT(c, v) ==
  LET p == update_audio
      starts == p.ch[c].state = 0 /\ c \notin p.intreq IN
  /\ Simulated
  /\ paula' = [p EXCEPT !.ch[c] = [@ EXCEPT !.dat = v,
                                            !.state = IF starts THEN 2 ELSE @,
                                            !.evtime = IF starts THEN p.ch[c].per ELSE @],
                        !.intreq = IF starts THEN @ \cup {c} ELSE @]
  /\ UNCHANGED <<on, volume, period, hpos, overrun>>

AUDxLCH(c, v) ==
  /\ Simulated
  /\ paula' = [update_audio EXCEPT !.ch[c].lc = (@ % Half) + v * Half]
  /\ UNCHANGED <<on, volume, period, hpos, overrun>>

AUDxLCL(c, v) ==
  /\ Simulated
  /\ paula' = [update_audio EXCEPT !.ch[c].lc = (@ \div Half) * Half + v]
  /\ UNCHANGED <<on, volume, period, hpos, overrun>>

(* Mutation: a period of zero is taken as it is. *)
LimitedNot(v) == v

Limited(v) == IF v = 0 THEN MaxPer ELSE IF v < MinPer THEN MinPer ELSE v

AUDxPER(c, v) ==
  /\ Simulated
  /\ paula' = [update_audio EXCEPT !.ch[c].per = Limited(v)]
  /\ UNCHANGED <<on, volume, period, hpos, overrun>>

AUDxLEN(c, v) ==
  /\ Simulated
  /\ paula' = [update_audio EXCEPT !.ch[c].len = v]
  /\ UNCHANGED <<on, volume, period, hpos, overrun>>

(* Mutation: the channel goes on from where its last block was left. *)
StartedAtOldPointer(x) == [x EXCEPT !.state = 1, !.ptend = (x.lc + Words(x.len)) % AddrMod,
                                    !.wlen = x.len, !.data_written = TRUE,
                                    !.evtime = MaxHpos - hpos]

Started(x) == [x EXCEPT !.state = 1, !.pt = x.lc, !.ptend = (x.lc + Words(x.len)) % AddrMod,
                        !.wlen = x.len, !.data_written = TRUE,
                        !.evtime = MaxHpos - hpos]

(* set: bit 15 of the value, that is whether its bits are set or cleared.  *)
setclr(old, set, bits) == IF set THEN old \cup bits ELSE old \ bits

Enabled(x, dmaen) ==
  LET y == [x EXCEPT !.dmaen = dmaen] IN
  IF dmaen THEN IF x.state = 0 THEN Started(y) ELSE y
  ELSE IF x.state \in {1, 5} THEN Silent(y) ELSE y

DMACON(set, bits) ==
  /\ Simulated
  /\ on' = setclr(on, set, bits)
  /\ paula' = [update_audio EXCEPT
                 !.ch = [c \in Nr |-> Enabled(@[c], {0, c} \subseteq on')]]
  /\ UNCHANGED <<volume, period, hpos, overrun>>

ADKCON(set, vols, pers) ==
  /\ Simulated
  /\ paula' = update_audio
  /\ volume' = setclr(volume, set, vols) /\ period' = setclr(period, set, pers)
  /\ UNCHANGED <<on, hpos, overrun>>

(* INTREQ does not bring the channels up to date first. *)
INTREQ(set, bits) ==
  /\ paula' = [paula EXCEPT !.intreq = setclr(@, set, bits)]
  /\ UNCHANGED <<on, volume, period, hpos, lag, overrun, phase>>

-----------------------------------------------------------------------------
(* The start of a line: one word per channel is fetched.                   *)

Reloaded(x) == [x EXCEPT !.pt = x.lc, !.ptend = (x.lc + Words(x.len)) % AddrMod,
                         !.wlen = x.len, !.intreq2 = TRUE]

(* Mutation: the pointer is also moved when the last word was fetched. *)
FetchedPast(x) ==
  LET y == [x EXCEPT !.data_written = FALSE, !.nextdat = wget(x.pt), !.pt = (@ + 1) % AddrMod] IN
  IF ~x.data_written THEN x
  ELSE IF x.state \notin {2, 3} THEN y
  ELSE IF x.wlen = 0 THEN Reloaded(y)
  ELSE [y EXCEPT !.wlen = (@ - 1) % LenMod]

Fetched(x) ==
  LET y == [x EXCEPT !.data_written = FALSE, !.nextdat = wget(x.pt),
                     !.pt = IF x.wlen = 1 THEN @ ELSE (@ + 1) % AddrMod] IN
  IF ~x.data_written THEN x
  ELSE IF x.state \notin {2, 3} THEN y
  ELSE IF x.wlen = 1 THEN Reloaded(y)
  ELSE [y EXCEPT !.wlen = (@ - 1) % LenMod]

Overruns(x) == x.data_written /\ x.state # 0 /\ x.pt >= x.ptend

hsync_handler ==
  LET p == Given(Updated(paula, lag + 1)) IN
  /\ hpos = MaxHpos - 1 /\ hpos' = 0
  /\ lag' = 0 /\ phase' = (phase + lag + 1) % Interval
  /\ paula' = [p EXCEPT !.ch = [c \in Nr |-> Fetched(@[c])]]
  /\ overrun' = (overrun \/ \E c \in Nr : Overruns(p.ch[c]))
  /\ UNCHANGED <<on, volume, period>>

Cycle ==
  /\ hpos < MaxHpos - 1
  /\ hpos' = hpos + 1 /\ lag' = lag + 1
  /\ UNCHANGED <<paula, on, volume, period, overrun, phase>>

(* A player that leaves the data registers to DMA. *)
DmaWrite ==
  \E c \in Nr :
    \/ \E v \in LCHs : AUDxLCH(c, v)
    \/ \E v \in LCLs : AUDxLCL(c, v)
    \/ \E v \in Pers : AUDxPER(c, v)
    \/ \E v \in Lens : AUDxLEN(c, v)
    \/ \E set \in BOOLEAN, bits \in DmaBits : DMACON(set, bits)
    \/ INTREQ(FALSE, {c})

Attach == \E c \in Nr, set \in BOOLEAN : ADKCON(set, {c}, {}) \/ ADKCON(set, {}, {c})

Manual == \E c \in Nr, v \in Dats : AUDxDAT(c, v)

Time == Cycle \/ hsync_handler

Next == Time \/ DmaWrite \/ Attach \/ Manual
Spec == Init /\ [][Next]_vars

DmaNext == Time \/ DmaWrite \/ Attach

(* Emulated time goes on: the 68000 executes instructions for ever.        *)
Tick == hpos' = (hpos + 1) % MaxHpos
DmaSpec == Init /\ [][DmaNext]_vars /\ WF_hpos(Tick)

-----------------------------------------------------------------------------
TypeOK ==
  /\ \A c \in Nr : /\ paula.ch[c].state \in {0, 1, 2, 3, 5}
                   /\ paula.ch[c].wlen \in 0..(LenMod - 1)
  /\ paula.intreq \subseteq Nr /\ on \subseteq {0} \cup Nr
  /\ hpos \in 0..(MaxHpos - 1) /\ lag \in 0..MaxHpos /\ phase \in 0..(Interval - 1)

(* update_audio() always has a cycle to pass, and never divides by an      *)
(* empty sum: no running channel is due already (audio.c:555-609), whatever *)
(* the player wrote to its period, and whenever the call comes.            *)
Progress == ~update_audio.stuck /\ update_audio.divided

(* The samples come at their times, to half a cycle, for ever: neither the *)
(* lazy calls nor the rounding of each sample's time make the clock drift. *)
SampleClock ==
  /\ (paula.next + Unit * phase) % Interval = 0
  /\ 2 * (paula.next + Unit * paula.accum - Interval) \in (-Unit)..(Unit - 1)

(* "emulates actions of audio state machine since it was last time called" *)
(* (audio.c:523): however the time between two writes is cut into calls,   *)
(* the same samples come out and the channels are left in the same state.  *)
(* Every write that matters to a channel is preceded by a call, but the    *)
(* one to INTREQ: whether a channel without DMA falls silent (State3) does *)
(* depend on which comes first, that write or a call of update_audio().    *)
CutDoesNotMatter ==
  \A n \in 0..lag : Updated(Updated(paula, n), lag - n) = Updated(paula, lag)

(* A channel that plays by DMA has as many words left to fetch as its      *)
(* pointer is away from the end of its block - except in the first pass    *)
(* of a block of two words, whose second word is not fetched.              *)
PointerMatchesCount ==
  \A c \in Nr : LET x == paula.ch[c] IN
    x.state \in {2, 3} =>
      \/ x.ptend - x.pt = Words(x.wlen)
      \/ x.ptend - x.pt = 2 /\ x.wlen = 1

(* The check of AUDIO_DEBUG: "Audio DMA fetch overrun" (custom.c:1258).    *)
FetchInBlock == ~overrun

(* A period is never below the limit: "we limit the value to 16"           *)
(* (audio.c:640).                                                          *)
PeriodLimited == \A c \in Nr : paula.ch[c].per >= MinPer

(* The end of each block is signalled by an interrupt, on which the        *)
(* players that chain samples depend, unless DMA is turned off first or    *)
(* the channel sets the period of another.                                 *)
BlockSignalled ==
  \A c \in Nr : paula.ch[c].intreq2 /\ c \notin paula.intreq
                  ~> c \in paula.intreq \/ ~paula.ch[c].dmaen \/ c \in period
=============================================================================
