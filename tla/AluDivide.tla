----------------------------- MODULE AluDivide -----------------------------
(***************************************************************************)
(* Multiplication and division: MULU, MULS, DIVU and DIVS of the 68000     *)
(* (gencpu.c), whose operands are words, and the long forms of the 68020   *)
(* (m68k_mull() and m68k_divl() in newcpu.c), which exist twice: with      *)
(* 64-bit integers, and without them by halves of words and long division  *)
(* bit by bit.                                                             *)
(*                                                                         *)
(* W stands for the 16 bits of the first group and the 32 of the second.   *)
(***************************************************************************)
EXTENDS Alu68k

CONSTANTS
    Forms,      \* of AllForms
    Garbage     \* values an uninitialised quotient may have

Half == 2^(W \div 2)

\* lib: which code computes it; wide: a long form with extra & 0x400, a
\* dividend or a product of 2 W bits in two registers.
AllForms ==
    [op : {"DIVU", "DIVS", "MULU", "MULS"}, lib : {"word"}, wide : {TRUE}]
      \cup [op : {"DIVU", "DIVS", "MULU", "MULS"}, lib : {"s64", "split"}, wide : BOOLEAN]
DivideAssumption == W % 2 = 0 /\ Garbage \subseteq Vals /\ Forms \subseteq AllForms

VARIABLES form, hi, lo, src, res
vars == <<form, hi, lo, src, res>>

(***************************************************************************)
(* Outcomes: hi and lo are the registers afterwards (Dr and Dq, or the two *)
(* halves of the one register of the short forms).                         *)
(***************************************************************************)
Done(h, l, fl) == [how |-> "done", hi |-> h % M, lo |-> l % M, f |-> fl]
NoFlags == [x |-> FALSE, n |-> FALSE, z |-> FALSE, v |-> FALSE, c |-> FALSE]
\* SET_VFLG (1); SET_NFLG (1); SET_CFLG (0), and no register is written
Overflow == [how |-> "overflow", hi |-> hi, lo |-> lo, f |-> [NoFlags EXCEPT !.v = TRUE, !.n = TRUE]]
\* Exception (5, oldpc)
DivideByZero == [how |-> "zero", hi |-> hi, lo |-> lo, f |-> NoFlags]
\* The host's division instruction traps.
Killed == [how |-> "killed", hi |-> hi, lo |-> lo, f |-> NoFlags]

Abs(v)     == IF v < 0 THEN -v ELSE v
\* The operators / and % of C
Quot(p, q) == LET m == Abs(p) \div Abs(q) IN IF (p < 0) = (q < 0) THEN m ELSE -m
Rem(p, q)  == p - q * Quot(p, q)
SignedWide(v) == IF v >= (M * M) \div 2 THEN v - M * M ELSE v
Fits(v)    == v \in (-(M \div 2))..(M \div 2 - 1)

\* The dividend: a sign- or zero-extended register unless the form is wide
Dividend ==
    LET both == hi * M + lo
    IN  IF form.op = "DIVS" THEN IF form.wide THEN SignedWide(both) ELSE Signed(lo)
        ELSE IF form.wide THEN both ELSE lo

\* i_DIVU, and the unsigned half of m68k_divl()
DivideUnsigned ==
    LET q == Dividend \div src
    IN  {IF q >= M THEN Overflow
         ELSE Done(Dividend % src, q, flag_logical(NoFlags, q))}

\* i_DIVS, and the signed half of m68k_divl().  The most negative dividend
\* divided by -1 overflows the host's division, which is undefined: it traps,
\* or wraps and then looks like an overflow.
DivideSigned ==
    LET s == Signed(src)
        q == Quot(Dividend, s)
        r == Rem(Dividend, s)
        sameSign == Signed(r) < 0 <=> Dividend < 0
    IN  IF q = (M * M) \div 2 THEN {Killed, Overflow}
        ELSE {IF ~Fits(q) THEN Overflow
              ELSE Done(IF sameSign THEN r ELSE -r, q, flag_logical(NoFlags, q))}

(***************************************************************************)
(* The code for hosts without 64-bit integers                              *)
(***************************************************************************)
(* Mutation: the bit shifted out of the upper half is lost. *)
DivStepNoCarry(s, i) ==
    LET h    == Shl(s.h, 1) + Bit(Msb(s.l))
        take == s.d <= h
    IN  [h |-> IF take THEN (h - s.d) % M ELSE h, l |-> Shl(s.l, 1),
         q |-> Shl(s.q, 1) + Bit(take), d |-> s.d]

\* div_unsigned(): 32 steps of long division, W here
DivStep(s, i) ==
    LET cbit == Msb(s.h)
        h    == Shl(s.h, 1) + Bit(Msb(s.l))
        take == cbit \/ s.d <= h
    IN  [h |-> IF take THEN (h - s.d) % M ELSE h, l |-> Shl(s.l, 1),
         q |-> Shl(s.q, 1) + Bit(take), d |-> s.d]

div_unsigned(h, l, d) ==
    FoldLeft(DivStep, [h |-> h, l |-> l, q |-> 0, d |-> d], [i \in 1..W |-> i])

SplitDivideUnsigned ==
    LET h == IF form.wide THEN hi ELSE 0
        s == div_unsigned(h, lo, src)
    IN  {IF src <= h THEN Overflow ELSE Done(s.h, s.q, flag_logical(NoFlags, s.q))}

\* The condition is (div_unsigned() || sign) ? quot > 0x80000000 : quot >
\* 0x7fffffff: when div_unsigned() fails, quot and rem are never set.
SplitDivideSigned ==
    LET h0   == IF form.wide THEN hi ELSE IF Msb(lo) THEN M - 1 ELSE 0
        neg  == Msb(h0)
        sign == Msb(h0) # Msb(src)
        l    == IF neg THEN (-lo) % M ELSE lo
        h    == IF neg THEN (M - 1 - h0 + (IF l = 0 THEN 1 ELSE 0)) % M ELSE h0
        d    == IF Msb(src) THEN (-src) % M ELSE src
        s    == div_unsigned(h, l, d)
        Finish(fails, q, r) ==
            IF IF fails \/ sign THEN q > M \div 2 ELSE q > M \div 2 - 1
            THEN Overflow
            ELSE LET qq == IF sign THEN -q ELSE q
                 IN  Done(IF Msb(r) # neg THEN -r ELSE r, qq, flag_logical(NoFlags, qq))
    IN  IF d <= h THEN {Finish(TRUE, q, r) : q \in Garbage, r \in Garbage}
        ELSE {Finish(FALSE, s.q, s.h)}

(* Mutation: one carry into the upper half for the two additions. *)
mul_unsignedOneCarry(p, q) ==
    LET r1 == (p \div Half) * (q % Half)
        r2 == (p % Half) * (q \div Half)
        l  == (((p % Half) * (q % Half)) + Shl(r1, W \div 2) + Shl(r2, W \div 2)) % M
    IN  [l |-> l, h |-> (((p \div Half) * (q \div Half)) + Bit(l < (p % Half) * (q % Half))
                           + r1 \div Half + r2 \div Half) % M]

\* mul_unsigned(): four products of half words
mul_unsigned(p, q) ==
    LET r0 == (p % Half) * (q % Half)
        r1 == (p \div Half) * (q % Half)
        r2 == (p % Half) * (q \div Half)
        r3 == (p \div Half) * (q \div Half)
        l1 == (r0 + Shl(r1, W \div 2)) % M
        l2 == (l1 + Shl(r2, W \div 2)) % M
    IN  [l |-> l2,
         h |-> (r3 + Bit(l1 < r0) + Bit(l2 < l1) + r1 \div Half + r2 \div Half) % M]

SplitProduct ==
    LET sign == form.op = "MULS" /\ Msb(lo) # Msb(src)
        A(v) == IF form.op = "MULS" /\ Msb(v) THEN (-v) % M ELSE v
        p    == mul_unsigned(A(src), A(lo))
        l    == (-p.l) % M
    IN  IF sign THEN [l |-> l, h |-> (M - 1 - p.h + (IF l = 0 THEN 1 ELSE 0)) % M] ELSE p

\* Both halves of a product of 2 W bits, as the three versions compute it
Product ==
    IF form.lib = "split" THEN SplitProduct
    ELSE LET p == IF form.op = "MULS" THEN Signed(lo) * Signed(src) ELSE lo * src
         IN  [h |-> (p \div M) % M, l |-> p % M]

\* i_MULU, i_MULS and m68k_mull(): V tells that a register lost a part of it.
Multiply ==
    LET p    == Product
        lost == IF form.op = "MULU" THEN p.h # 0
                ELSE p.h # (IF Msb(p.l) THEN M - 1 ELSE 0)
        fl   == [NoFlags EXCEPT !.z = p.h = 0 /\ p.l = 0, !.n = Msb(p.h), !.v = ~form.wide /\ lost]
    IN  {Done(IF form.wide THEN p.h ELSE hi, p.l, fl)}

Outcomes ==
    IF form.op \in {"MULU", "MULS"} THEN Multiply
    ELSE IF src = 0 THEN {DivideByZero}
    ELSE CASE form.op = "DIVU" /\ form.lib # "split" -> DivideUnsigned
           [] form.op = "DIVS" /\ form.lib # "split" -> DivideSigned
           [] form.op = "DIVU" /\ form.lib = "split" -> SplitDivideUnsigned
           [] form.op = "DIVS" /\ form.lib = "split" -> SplitDivideSigned

Pending == [how |-> "pending", hi |-> 0, lo |-> 0, f |-> NoFlags]

Init ==
    /\ form \in Forms
    /\ hi \in Vals /\ lo \in Vals /\ src \in Vals
    /\ res = Pending

Next ==
    /\ res = Pending
    /\ res' \in Outcomes
    /\ UNCHANGED <<form, hi, lo, src>>

Spec == Init /\ [][Next]_vars

IsDivision == res # Pending /\ form.op \in {"DIVU", "DIVS"}
Divisor    == IF form.op = "DIVS" THEN Signed(src) ELSE src
AsResult(v) == IF form.op \in {"DIVS", "MULS"} THEN Signed(v) ELSE v
\* The one case in which the split code works with an uninitialised quotient:
\* div_unsigned() refuses, or would on the negated operands.
Uninitialised ==
    /\ form.lib = "split" /\ form.op = "DIVS"
    /\ src # 0 /\ Abs(Dividend) \div Abs(Divisor) >= M

\* A division gives the quotient and remainder of the numbers, the remainder
\* with the sign of the dividend; it reports an overflow exactly when the
\* quotient has no room, and then leaves the registers (i_DIVU, i_DIVS,
\* m68k_divl() with and without 64-bit integers).
DivisionIsExact ==
    IsDivision /\ res.how # "killed" /\ ~Uninitialised =>
      LET p == Dividend  d == Divisor
          room == IF form.op = "DIVS" THEN Fits(Quot(p, d)) ELSE Quot(p, d) < M
      IN  /\ res.how = "zero" <=> d = 0
          /\ d # 0 => (res.how = "done" <=> room)
          /\ res.how # "done" => res.hi = hi /\ res.lo = lo
          /\ res.how = "done" =>
                LET q == AsResult(res.lo)  r == AsResult(res.hi)
                IN  /\ q * d + r = p /\ Abs(r) < Abs(d)
                    /\ r # 0 => (r < 0 <=> p < 0)
                    /\ res.f.z = (q = 0) /\ res.f.n = Msb(res.lo) /\ ~res.f.v

\* A product is exact in two registers; in one V says that it lost bits.
ProductIsExact ==
    res # Pending /\ form.op \in {"MULU", "MULS"} =>
      LET p == IF form.op = "MULS" THEN Signed(lo) * Signed(src) ELSE lo * src
          whole == res.hi * M + res.lo
      IN  /\ form.wide => p = (IF form.op = "MULS" THEN SignedWide(whole) ELSE whole)
                            /\ ~res.f.v
          /\ ~form.wide => res.hi = hi /\ res.lo = p % M /\ res.f.v = (p # AsResult(res.lo))
          /\ res.f.z = (p = 0)
=============================================================================
