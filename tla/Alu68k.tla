------------------------------- MODULE Alu68k -------------------------------
(***************************************************************************)
(* The integer unit of the emulated 68000: what the C code gencpu.c writes *)
(* for each instruction computes, as operators.  An operator takes the     *)
(* flags before the instruction and its operands and returns the result    *)
(* and the flags after it.  The address modes that fetch the operands and  *)
(* store the result are in another module.                                 *)
(*                                                                         *)
(* W is bit_size(curi->size).  Values are kept modulo 2^W where the code   *)
(* keeps the higher bits of a uae_u32 that nothing reads.                  *)
(***************************************************************************)
EXTENDS Integers, SequencesExt

CONSTANT W      \* the bits of the operand size
WidthAssumption == W \in Nat \ {0, 1}

M    == 2^W
Vals == 0..(M - 1)

\* regflags: cznv and x.
Flags == [x : BOOLEAN, n : BOOLEAN, z : BOOLEAN, v : BOOLEAN, c : BOOLEAN]

Msb(val)    == val % M >= M \div 2
Signed(val) == IF Msb(val) THEN (val % M) - M ELSE val % M
Bit(b)      == IF b THEN 1 ELSE 0
Out(val, f) == [val |-> val % M, f |-> f]

(***************************************************************************)
(* genflags_normal()                                                       *)
(***************************************************************************)
flag_logical_noclobber(f, val) ==
    [f EXCEPT !.z = val % M = 0, !.n = Msb(val)]

flag_logical(f, val) ==
    [flag_logical_noclobber(f, val) EXCEPT !.c = FALSE, !.v = FALSE]

(* Mutation: Z is set afresh. *)
flag_znFresh(f, val) == [f EXCEPT !.z = val % M = 0, !.n = Msb(val)]
\* Z is only ever cleared: a chain of words is zero when each of them is.
flag_zn(f, val) == [f EXCEPT !.z = @ /\ val % M = 0, !.n = Msb(val)]

AddOverflow(s, o, n) == s # n /\ o # n
SubOverflow(s, o, n) == s # o /\ n # o

(* Mutation: the carry is not copied to X. *)
CarryOnly(f, c) == [f EXCEPT !.c = c]

\* SET_CFLG, then COPY_CARRY
Carry(f, c) == [f EXCEPT !.c = c, !.x = c]

flag_add(f, val, src, dst) ==
    [Carry(flag_logical(f, val), M - 1 - dst < src) EXCEPT
        !.v = AddOverflow(Msb(src), Msb(dst), Msb(val))]

flag_cmp(f, val, src, dst) ==
    [flag_logical(f, val) EXCEPT
        !.c = src > dst, !.v = SubOverflow(Msb(src), Msb(dst), Msb(val))]

flag_sub(f, val, src, dst) == flag_cmp(f, val, src, dst)

(* Mutation: the test for a carry that is right without a carry in. *)
flag_addxCompare(f, val, src, dst) ==
    [Carry(f, val % M < src) EXCEPT !.v = AddOverflow(Msb(src), Msb(dst), Msb(val))]

flag_addx(f, val, src, dst) ==
    LET s == Msb(src)  o == Msb(dst)  n == Msb(val)
    IN  [Carry(f, s # (s # o /\ o # n)) EXCEPT !.v = AddOverflow(s, o, n)]

flag_subx(f, val, src, dst) ==
    LET s == Msb(src)  o == Msb(dst)  n == Msb(val)
    IN  [Carry(f, s # (s # n /\ o # n)) EXCEPT !.v = s # o /\ o # n]

flag_sv(f, val, src, dst) ==
    [f EXCEPT !.v = SubOverflow(Msb(src), Msb(dst), Msb(val))]

(***************************************************************************)
(* Addition and subtraction                                                *)
(***************************************************************************)
ADD(f, src, dst) == Out(dst + src, flag_add(f, dst + src, src, dst))
SUB(f, src, dst) == Out(dst - src, flag_sub(f, dst - src, src, dst))
CMP(f, src, dst) == Out(dst, flag_cmp(f, dst - src, src, dst))
NEG(f, src)      == SUB(f, src, 0)

ADDX(f, src, dst) ==
    LET newv == dst + src + Bit(f.x)
    IN  Out(newv, flag_zn(flag_addx(f, newv, src, dst), newv))

SUBX(f, src, dst) ==
    LET newv == dst - src - Bit(f.x)
    IN  Out(newv, flag_zn(flag_subx(f, newv, src, dst), newv))

NEGX(f, src) == SUBX(f, src, 0)

(***************************************************************************)
(* Decimal arithmetic, for bytes: two digits in uae_u16 variables          *)
(***************************************************************************)
U16(n)  == n % 65536
Lo(val) == val % 16
Hi(val) == val - Lo(val)
\* (newv & 0x1F0) > 0x90
AboveNines(newv) == ((newv \div 16) % 32) * 16 > 144

ABCD(f, src, dst) ==
    LET lo   == Lo(src) + Lo(dst) + Bit(f.x)
        sum  == Hi(src) + Hi(dst) + (IF lo > 9 THEN lo + 6 ELSE lo)
        cflg == AboveNines(sum)
        newv == IF cflg THEN sum + 96 ELSE sum
    IN  Out(newv, flag_sv(flag_zn(Carry(f, cflg), newv), newv, src, dst))

\* newv and cflg of SBCD, and of NBCD with dst = 0
DecimalDifference(f, src, dst) ==
    LET lo0  == U16(Lo(dst) - Lo(src) - Bit(f.x))
        hi0  == U16(Hi(dst) - Hi(src))
        lo   == IF lo0 > 9 THEN U16(lo0 - 6) ELSE lo0
        hi   == IF lo0 > 9 THEN U16(hi0 - 16) ELSE hi0
        diff == U16(hi + Lo(lo))
        cflg == AboveNines(hi)
    IN  [newv |-> IF cflg THEN U16(diff - 96) ELSE diff, cflg |-> cflg]

SBCD(f, src, dst) ==
    LET d == DecimalDifference(f, src, dst)
    IN  Out(d.newv, flag_sv(flag_zn(Carry(f, d.cflg), d.newv), d.newv, src, dst))

NBCD(f, src) ==
    LET d == DecimalDifference(f, src, 0)
    IN  Out(d.newv, flag_zn([f EXCEPT !.c = d.cflg], d.newv))

(***************************************************************************)
(* cctrue(): the conditions of Bcc, DBcc, Scc and TRAPcc, by number        *)
(***************************************************************************)
(* Mutation: greater-or-equal forgets the overflow. *)
cctrueNoOverflow(f, cc) ==
    IF cc = 12 THEN ~f.n ELSE IF cc = 13 THEN f.n ELSE
    CASE cc \in {2, 3} -> (cc = 3) = (f.c \/ f.z)
      [] cc \in {4, 5} -> (cc = 5) = f.c
      [] cc \in {6, 7} -> (cc = 7) = f.z
      [] cc \in {14, 15} -> (cc = 15) = (f.z \/ f.n # f.v)

cctrue(f, cc) ==
    CASE cc = 0  -> TRUE
      [] cc = 1  -> FALSE
      [] cc = 2  -> ~f.c /\ ~f.z
      [] cc = 3  -> f.c \/ f.z
      [] cc = 4  -> ~f.c
      [] cc = 5  -> f.c
      [] cc = 6  -> ~f.z
      [] cc = 7  -> f.z
      [] cc = 8  -> ~f.v
      [] cc = 9  -> f.v
      [] cc = 10 -> ~f.n
      [] cc = 11 -> f.n
      [] cc = 12 -> f.n = f.v
      [] cc = 13 -> f.n # f.v
      [] cc = 14 -> ~f.z /\ f.n = f.v
      [] cc = 15 -> f.z \/ f.n # f.v

(***************************************************************************)
(* Shifts and rotations of a data register by a count                      *)
(***************************************************************************)
Cleared(f) == [f EXCEPT !.c = FALSE, !.z = FALSE, !.n = FALSE, !.v = FALSE]
Shifted(f, val) == Out(val, flag_logical_noclobber(f, val))
\* (val << n) modulo 2^W, for n up to W
Shl(val, n) == (val % 2^(W - n)) * 2^n
Shr(val, n) == val \div 2^n
Ones        == M - 1

\* imm is source_is_imm1_8(): the count is a part of the opcode, 1 to 8, and
\* the generated code does not test it for zero.
ASR(f, imm, count, val) ==
    LET cnt  == count % 64
        sign == Msb(val)
        g    == Cleared(f)
        fill == IF sign THEN Shl(Ones, W - cnt) ELSE 0
    IN  IF cnt >= W THEN Shifted(Carry(g, sign), IF sign THEN Ones ELSE 0)
        ELSE IF imm \/ cnt > 0
             THEN Shifted(Carry(g, Shr(val, cnt - 1) % 2 = 1), Shr(val, cnt) + fill)
             ELSE Shifted(g, val)

(* Mutation: V compares the sign before and after. *)
ASLSignOnly(f, imm, count, val) ==
    LET cnt == count % 64
        g   == Cleared(f)
    IN  IF cnt >= W
        THEN Shifted(Carry([g EXCEPT !.v = val # 0], cnt = W /\ val % 2 = 1), 0)
        ELSE IF imm \/ cnt > 0
             THEN Shifted(Carry([g EXCEPT !.v = Msb(val) # Msb(Shl(val, cnt))],
                                Msb(Shl(val, cnt - 1))), Shl(val, cnt))
             ELSE Shifted(g, val)

ASL(f, imm, count, val) ==
    LET cnt  == count % 64
        g    == Cleared(f)
        \* val & mask: the cnt + 1 upper bits of val
        top  == Shr(val, W - 1 - cnt)
        lost == top # 2^(cnt + 1) - 1 /\ top # 0
    IN  IF cnt >= W
        THEN Shifted(Carry([g EXCEPT !.v = val # 0], cnt = W /\ val % 2 = 1), 0)
        ELSE IF imm \/ cnt > 0
             THEN Shifted(Carry([g EXCEPT !.v = lost], Msb(Shl(val, cnt - 1))),
                          Shl(val, cnt))
             ELSE Shifted(g, val)

LSR(f, imm, count, val) ==
    LET cnt == count % 64
        g   == Cleared(f)
    IN  IF cnt >= W THEN Shifted(Carry(g, cnt = W /\ Msb(val)), 0)
        ELSE IF imm \/ cnt > 0
             THEN Shifted(Carry(g, Shr(val, cnt - 1) % 2 = 1), Shr(val, cnt))
             ELSE Shifted(g, val)

LSL(f, imm, count, val) ==
    LET cnt == count % 64
        g   == Cleared(f)
    IN  IF cnt >= W THEN Shifted(Carry(g, cnt = W /\ val % 2 = 1), 0)
        ELSE IF imm \/ cnt > 0
             THEN Shifted(Carry(g, Msb(Shl(val, cnt - 1))), Shl(val, cnt))
             ELSE Shifted(g, val)

\* The rotations leave X alone.
ROL(f, imm, count, val) ==
    LET g   == Cleared(f)
        cnt == (count % 64) % W
        rot == Shl(val, cnt) + Shr(val, W - cnt)
    IN  IF imm \/ count % 64 > 0
        THEN Shifted([g EXCEPT !.c = rot % 2 = 1], rot) ELSE Shifted(g, val)

ROR(f, imm, count, val) ==
    LET g   == Cleared(f)
        cnt == (count % 64) % W
        rot == Shr(val, cnt) + (IF cnt = 0 THEN 0 ELSE Shl(val, W - cnt))
    IN  IF imm \/ count % 64 > 0
        THEN Shifted([g EXCEPT !.c = Msb(rot)], rot) ELSE Shifted(g, val)

\* force_range_for_rox(): a chain of conditional subtractions for each size
RoxSteps == CASE W = 8 -> <<36, 18, 9>> [] W = 16 -> <<34, 17>> [] OTHER -> <<W + 1>>
(* Mutation: the period of a rotation without X. *)
RangeOfRotate(cnt) == cnt % W

force_range_for_rox(cnt) ==
    FoldLeft(LAMBDA n, step : IF n >= step THEN n - step ELSE n, cnt, RoxSteps)

RoxCount(imm, count) == IF imm THEN count % 64 ELSE force_range_for_rox(count % 64)

ROXL(f, imm, count, val) ==
    LET g     == Cleared(f)
        cnt   == RoxCount(imm, count) - 1
        loval == Shr(val, W - 1 - cnt)
        rot   == Shl(val * 2 + Bit(f.x), cnt) + Shr(loval, 1)
    IN  IF imm \/ cnt >= 0
        THEN Shifted(Carry(g, loval % 2 = 1), rot)
        ELSE Shifted([g EXCEPT !.c = f.x], val)

ROXR(f, imm, count, val) ==
    LET g     == Cleared(f)
        cnt   == RoxCount(imm, count) - 1
        hival == Shl(val * 2 + Bit(f.x), W - 1 - cnt)
        rot   == Shr(val, cnt + 1) + hival
    IN  IF imm \/ cnt >= 0
        THEN Shifted(Carry(g, Shr(val, cnt) % 2 = 1), rot)
        ELSE Shifted([g EXCEPT !.c = f.x], val)

(***************************************************************************)
(* Shifts and rotations of a memory operand by one                         *)
(***************************************************************************)
ASRW(f, val) ==
    LET r == Shr(val, 1) + (IF Msb(val) THEN M \div 2 ELSE 0)
    IN  Out(r, Carry(flag_logical(f, r), val % 2 = 1))

ASLW(f, val) ==
    LET r == Shl(val, 1)
        g == Carry(flag_logical(f, r), Msb(val))
    IN  Out(r, [g EXCEPT !.v = @ \/ Msb(r) # Msb(val)])

LSRW(f, val) == Out(Shr(val, 1), Carry(flag_logical(f, Shr(val, 1)), val % 2 = 1))
LSLW(f, val) == Out(Shl(val, 1), Carry(flag_logical(f, Shl(val, 1)), Msb(val)))

ROLW(f, val) ==
    LET r == Shl(val, 1) + Bit(Msb(val))
    IN  Out(r, [flag_logical(f, r) EXCEPT !.c = Msb(val)])

RORW(f, val) ==
    LET r == Shr(val, 1) + (IF val % 2 = 1 THEN M \div 2 ELSE 0)
    IN  Out(r, [flag_logical(f, r) EXCEPT !.c = val % 2 = 1])

ROXLW(f, val) ==
    LET r == Shl(val, 1) + Bit(f.x)
    IN  Out(r, Carry(flag_logical(f, r), Msb(val)))

ROXRW(f, val) ==
    LET r == Shr(val, 1) + (IF f.x THEN M \div 2 ELSE 0)
    IN  Out(r, Carry(flag_logical(f, r), val % 2 = 1))
=============================================================================
