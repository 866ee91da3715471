-------------------------------- MODULE Copper --------------------------------
(***************************************************************************)
(* The copper of custom.c: a processor that waits for the beam and writes  *)
(* custom registers.  It is emulated late: only when the 68000 writes a    *)
(* custom register does update_copper() catch up with the beam, in one go. *)
(* When the copper starts, prepare_copper_1() runs a copy of it ahead, to  *)
(* the cycle of the next write that matters, and arms an event there; no   *)
(* dispatcher looks at that event, but abort() is called if it is due at   *)
(* once.                                                                   *)
(*                                                                         *)
(* This build never sets the display window, so the playfield takes no     *)
(* cycles from the copper and cop_state.count equals cop_state.hpos; the   *)
(* blitter is never busy (dmacon & 0x1FFF).  An instruction is a record    *)
(* where the code has two words.                                           *)
(***************************************************************************)
EXTENDS Integers, Sequences, Bitwise

CONSTANTS
    maxhpos,    \* cycles of a line
    maxvpos,    \* lines of a frame
    Programs,   \* copper lists explored, sequences of instructions
    Lists,      \* places cop2lc may point at
    MaxWrites   \* bound: writes of custom registers by the 68000

Even(n) == n - (n % 2)
EndOfLine == Even(maxhpos)
CopperAssumption ==
    /\ maxhpos \in Nat /\ maxhpos > 4 /\ maxvpos \in Nat \ {0}
    /\ Programs # {} /\ Lists \subseteq Nat \ {0} /\ MaxWrites \in Nat

MOVE(reg)           == [op |-> "MOVE", reg |-> reg, v |-> 0, h |-> 0, vm |-> 0, hm |-> 0]
WAIT(v, h, vm, hm)  == [op |-> "WAIT", reg |-> "", v |-> v, h |-> h, vm |-> vm, hm |-> hm]
SKIP(v, h, vm, hm)  == [op |-> "SKIP", reg |-> "", v |-> v, h |-> h, vm |-> vm, hm |-> hm]
END                 == [op |-> "END", reg |-> "", v |-> 0, h |-> 0, vm |-> 0, hm |-> 0]
\* Registers, by what the copper makes of them: colours; INTREQ; DMACON,
\* written to stop the copper; COPJMP1 and COPJMP2; those below 0x40, and
\* those below 0x80, which copcon can allow
Registers == {"color", "intreq", "dmacon", "copjmp1", "copjmp2", "disk", "blitter"}
dangerous_reg(reg) == reg # "color"
Forbidden(reg, copcon) == reg = "disk" \/ (reg = "blitter" /\ ~copcon)

VARIABLES vpos, hpos,       \* the beam
          mem, cop2lc, copcon,
          cop,              \* cop_state, the DMA bit and the writes performed
          eager,            \* a copper updated in every cycle, for comparison
          event,            \* eventtab[ev_copper]: <<active, evtime>> in this line
          writes,
          fresh,            \* the copper was started in this line
          synced            \* and has just caught up with the beam
vars == <<vpos, hpos, mem, cop2lc, copcon, cop, eager, event, writes, fresh, synced>>

Stopped == [st |-> "stop", ir |-> END, ip |-> 1, h |-> 0, v |-> 0, ign |-> FALSE,
            mv |-> FALSE, dma |-> FALSE, done |-> <<>>]
Instr(ip) == IF ip <= Len(mem) THEN mem[ip] ELSE END

\* The comparison of a WAIT or SKIP with the beam's line and the copper's place
Vp(i, vp)   == vp & i.vm
Vcmp(i)     == i.v & i.vm
Hcmp(i)     == i.h & i.hm
Reached(i, vp, h) == Vp(i, vp) > Vcmp(i) \/ (Vp(i, vp) = Vcmp(i) /\ (h & i.hm) >= Hcmp(i))

copper_cant_read(h) == h >= Even(maxhpos - 2)

Later(c) == [c EXCEPT !.h = @ + 2]
Wrap(c)  == IF c.h = EndOfLine THEN [c EXCEPT !.h = 0, !.v = @ + 1] ELSE c

Fetch(c) == [c EXCEPT !.ir = Instr(c.ip), !.st = "read2"]
\* COP_read2: the second word of the instruction, which is decoded
Read2(c, vp) ==
    LET d == [c EXCEPT !.ip = @ + 1]
    IN  CASE c.ign              -> [d EXCEPT !.ign = FALSE, !.st = "read1"]
          [] c.ir.op = "MOVE" /\ ~c.ign -> [d EXCEPT !.mv = TRUE, !.st = "read1"]
          [] c.ir.op = "WAIT" /\ ~c.ign -> [d EXCEPT !.st = "wait1"]
          [] c.ir.op = "END"  /\ ~c.ign -> [d EXCEPT !.st = "stop"]
          [] c.ir.op = "SKIP" /\ ~c.ign -> [d EXCEPT !.ign = Reached(c.ir, vp, c.h), !.st = "read1"]

\* COP_wait2: on an earlier line, straight to the next; else compare
Wait2(c, vp) ==
    IF Vp(c.ir, vp) < Vcmp(c.ir) THEN [c EXCEPT !.v = @ + 1, !.h = 0]
    ELSE IF Reached(c.ir, vp, c.h) THEN Later([c EXCEPT !.st = "read1"])
    ELSE Later(c)

\* COP_wait1, COP_wait1b: on the right line, straight to the place waited for
\* (waitmasktab holds ~0xFF for every mask)
Wait1(c, vp) ==
    LET w == [c EXCEPT !.st = "wait2"]
        t == c.h + 2
        n == IF Hcmp(c.ir) < t THEN t ELSE Hcmp(c.ir)
    IN  IF Vp(c.ir, vp) = Vcmp(c.ir) /\ n < EndOfLine THEN Wait2([w EXCEPT !.h = n], vp)
        ELSE IF c.st = "wait1b" THEN Wait2(w, vp)
        ELSE Later(w)

\* COP_read1 with a MOVE pending: custom_wput_1()
Perform(c) ==
    LET reg == c.ir.reg
        d   == [c EXCEPT !.mv = FALSE, !.done = Append(@, <<reg, c.ip>>)]
    IN  IF Forbidden(reg, copcon) THEN [c EXCEPT !.mv = FALSE, !.st = "stop"]
        ELSE CASE reg = "copjmp1" -> [d EXCEPT !.ip = 1, !.st = "rdelay1"]
               [] reg = "copjmp2" -> [d EXCEPT !.ip = cop2lc, !.st = "rdelay1"]
               [] OTHER           -> Fetch([d EXCEPT !.dma = @ /\ reg # "dmacon"])
\* One cycle of the copper; a stop takes its cycle like the rest
Cycle(c, vp) ==
    CASE c.st = "rdelay1" -> Later([c EXCEPT !.st = "read1"])
      [] c.st = "read1"   -> Later(IF copper_cant_read(c.h) THEN c
                                   ELSE IF c.mv THEN Perform(c) ELSE Fetch(c))
      [] c.st = "read2"   -> Later(IF copper_cant_read(c.h) THEN c ELSE Read2(c, vp))
      [] c.st = "wait1"   -> IF copper_cant_read(c.h) THEN Later(c) ELSE Wait1(c, vp)
      [] c.st = "wait1b"  -> Wait1(c, vp)
      [] c.st = "wait2"   -> Wait2(c, vp)

RECURSIVE Run(_, _, _)
Run(c, vp, until) ==
    LET w == Wrap(c)
        d == IF w.dma THEN w ELSE [w EXCEPT !.st = "stop"]
    IN  IF d.v > vp \/ d.h > until \/ d.st = "stop" THEN d ELSE Run(Cycle(d, vp), vp, until)

Rewait(c) == IF c.st = "wait2" THEN [c EXCEPT !.st = "wait1b"] ELSE c
(* Mutation: the copper is left at the beam's place, not at its own. *)
update_to_beam(c, vp, until) == [Run(Rewait(c), vp, until) EXCEPT !.h = Even(until)]
update_copper_1(c, vp, until) == Run(Rewait(c), vp, until)
update_copper(c, vp, until) ==
    IF c.v > vp \/ c.h > until \/ c.st = "stop" THEN c ELSE update_copper_1(c, vp, until)

\* prepare_copper_1(): the next dangerous write in this line, if any
None == <<FALSE, 0>>
(* Mutation: the event is the fetch after the write. *)
EvAfter(c) == c.h + 2
(* Mutation: the event is the fetch of the MOVE, not its write. *)
EvFetch(c) == c.h - 4
EvTime(c) == c.h
RECURSIVE Ahead(_, _)
Ahead(c, vp) ==
    LET w == Wrap(c)
        d == IF w.dma THEN w ELSE [w EXCEPT !.st = "stop"]
    IN  IF d.v > vp \/ d.st = "stop" THEN None
        ELSE IF d.st = "read1" /\ d.mv /\ ~copper_cant_read(d.h)
             THEN IF Forbidden(d.ir.reg, copcon) THEN None
                  ELSE IF dangerous_reg(d.ir.reg) THEN <<TRUE, EvTime(d)>>
                  ELSE Ahead(Later(Fetch([d EXCEPT !.mv = FALSE])), vp)
             ELSE Ahead(Cycle(d, vp), vp)
prepare_copper(c, vp) ==
    IF c.v > vp \/ c.st = "stop" THEN None ELSE Ahead(Rewait(c), vp)

-----------------------------------------------------------------------------
Init ==
    /\ vpos = 0 /\ hpos = 0
    /\ mem \in Programs /\ cop2lc \in Lists /\ copcon \in BOOLEAN
    /\ cop = Stopped /\ eager = Stopped
    /\ event = None /\ writes = 0 /\ fresh = TRUE /\ synced = TRUE

\* The list starts again: at the top of a frame, or where the 68000 says
Restart(c, ip, v, h) ==
    [c EXCEPT !.ip = ip, !.mv = FALSE, !.ign = FALSE, !.st = "read1", !.v = v, !.h = h, !.done = <<>>]

\* A cycle of the machine: nobody updates the copper, vsync_handler() restarts it
Tick ==
    /\ hpos' = (hpos + 1) % maxhpos
    /\ vpos' = IF hpos' = 0 THEN (vpos + 1) % maxvpos ELSE vpos
    /\ cop' = IF hpos' = 0 /\ vpos' = 0 THEN Restart(cop, 1, 0, 0) ELSE cop
    /\ eager' = update_copper(IF hpos' = 0 /\ vpos' = 0 THEN cop' ELSE eager, vpos', hpos')
    /\ synced' = FALSE /\ fresh' = (IF hpos' = 0 THEN vpos' = 0 ELSE fresh)
    /\ UNCHANGED <<mem, cop2lc, copcon, event, writes>>

\* custom_wput(): the copper catches up, then the register is written.
\* COPJMP1, COPJMP2 and the DMA bit of DMACON start it again.
custom_wput(reg) ==
    /\ writes < MaxWrites /\ writes' = writes + 1
    /\ LET caught == update_copper(cop, vpos, hpos)
           starts == reg \in {"copjmp1", "copjmp2"} \/ (reg = "dmacon" /\ ~caught.dma)
           list   == IF reg = "copjmp2" THEN cop2lc ELSE 1
           off(c) == IF reg = "dmaoff" THEN [c EXCEPT !.dma = FALSE] ELSE c
       IN  IF starts
           THEN \E c \in {[Restart(caught, list, vpos, Even(hpos)) EXCEPT !.dma = @ \/ reg = "dmacon"]} :
                   /\ cop' = c /\ eager' = c /\ fresh' = TRUE
                   /\ event' = prepare_copper(c, vpos)
           ELSE cop' = off(caught) /\ eager' = off(eager) /\ UNCHANGED <<event, fresh>>
    /\ synced' = TRUE
    /\ UNCHANGED <<vpos, hpos, mem, cop2lc, copcon>>

Next == Tick \/ \E reg \in {"color", "copjmp1", "copjmp2", "dmacon", "dmaoff"} : custom_wput(reg)
Spec == Init /\ [][Next]_vars

-----------------------------------------------------------------------------
(* Properties *)
\* The event armed when the copper starts is never due at once: the abort()
\* of COPJMP1(), COPJMP2() and DMACON() is not reached.
AheadStep == event' # event => ~(event'[1] /\ event'[2] = hpos)
EventAhead == [][AheadStep]_vars

\* The copy that runs ahead stops at the very write that the copper, updated
\* cycle by cycle, performs first among those that matter.
\* (prepare_copper_1(), update_copper_1())
RECURSIVE FirstDanger(_, _, _)
FirstDanger(c, vp, h) ==
    IF h >= maxhpos THEN None
    ELSE LET d   == update_copper(c, vp, h)
             new == (Len(c.done) + 1)..Len(d.done)
         IN  IF \E i \in new : dangerous_reg(d.done[i][1]) THEN <<TRUE, h>>
             ELSE FirstDanger(d, vp, h + 1)
ExactStep == event' # event => event' = FirstDanger(cop', vpos, hpos)
EventExact == [][ExactStep]_vars

\* In the line where the copper was started, catching up in one go has the
\* same MOVEs performed as an update in every cycle.  (In later lines
\* update_copper() compares the lines it missed with the current one.)
LazyIsEager == (synced /\ fresh) => cop.done = eager.done
=============================================================================
