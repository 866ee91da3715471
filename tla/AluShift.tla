------------------------------ MODULE AluShift ------------------------------
(***************************************************************************)
(* A shift or rotation of a register by a count against as many shifts of  *)
(* a memory operand by one: gencpu.c has separate code for the two, the    *)
(* first with special cases for large counts and for the carry.            *)
(*                                                                         *)
(* op, val0 and f0 are the instruction and its operands; val and f are the *)
(* memory word and the flags after n of the one-bit instructions, lost     *)
(* whether one of them set V.                                              *)
(***************************************************************************)
EXTENDS Alu68k

CONSTANTS
    Ops,       \* the instructions, a subset of ShiftOps
    Operands   \* the values shifted, a subset of Vals

ShiftOps == {"AS.R", "AS.L", "LS.R", "LS.L", "RO.R", "RO.L", "ROX.R", "ROX.L"}
ShiftAssumption == WidthAssumption /\ Ops \subseteq ShiftOps /\ Operands \subseteq Vals

VARIABLES op, val0, f0, n, val, f, lost
vars == <<op, val0, f0, n, val, f, lost>>

MaxCount == 63      \* cnt &= 63

\* The register forms of i_ASR ... i_ROXR
ByCount(o, g, imm, cnt, v) ==
    CASE o = "AS.R"  -> ASR(g, imm, cnt, v)
      [] o = "AS.L"  -> ASL(g, imm, cnt, v)
      [] o = "LS.R"  -> LSR(g, imm, cnt, v)
      [] o = "LS.L"  -> LSL(g, imm, cnt, v)
      [] o = "RO.R"  -> ROR(g, imm, cnt, v)
      [] o = "RO.L"  -> ROL(g, imm, cnt, v)
      [] o = "ROX.R" -> ROXR(g, imm, cnt, v)
      [] o = "ROX.L" -> ROXL(g, imm, cnt, v)

\* The memory forms of i_ASRW ... i_ROXRW
ByOne(o, g, v) ==
    CASE o = "AS.R"  -> ASRW(g, v)
      [] o = "AS.L"  -> ASLW(g, v)
      [] o = "LS.R"  -> LSRW(g, v)
      [] o = "LS.L"  -> LSLW(g, v)
      [] o = "RO.R"  -> RORW(g, v)
      [] o = "RO.L"  -> ROLW(g, v)
      [] o = "ROX.R" -> ROXRW(g, v)
      [] o = "ROX.L" -> ROXLW(g, v)

Init ==
    /\ op \in Ops
    /\ val0 \in Operands
    /\ f0 \in {[x |-> b, n |-> TRUE, z |-> TRUE, v |-> TRUE, c |-> TRUE] : b \in BOOLEAN}
    /\ n = 0 /\ val = val0 /\ f = f0 /\ lost = FALSE

Next ==
    /\ n < MaxCount
    /\ LET r == ByOne(op, f, val) IN val' = r.val /\ f' = r.f /\ lost' = (lost \/ r.f.v)
    /\ n' = n + 1
    /\ UNCHANGED <<op, val0, f0>>

Spec == Init /\ [][Next]_vars

\* What n single shifts leave, with the flags of a count: V when the sign has
\* changed at any time; a count of zero leaves X and clears V and C, but the
\* rotations through X copy it to C.
Repeated ==
    [val |-> val,
     f   |-> [x |-> f.x, n |-> Msb(val), z |-> val = 0, v |-> lost,
              c |-> IF n > 0 THEN f.c ELSE op \in {"ROX.R", "ROX.L"} /\ f0.x]]

\* The register form by any count is that many single shifts: the branches for
\* counts of the operand size and above, the reduction of the count of the
\* rotations, the carry out of the last bit and the overflow of ASL at any of
\* the bits that pass the sign; so is the form with the count in the opcode,
\* whose code has no test for zero and no reduction, and only the low six bits
\* of a register's count matter.  (gencpu.c, i_ASR to i_ROXRW)
ShiftIsRepeated ==
    /\ ByCount(op, f0, FALSE, n, val0) = Repeated
    /\ ByCount(op, f0, FALSE, n + 64, val0) = Repeated
    /\ n \in 1..8 => ByCount(op, f0, TRUE, n, val0) = Repeated

\* What the instructions are for: the arithmetic shifts multiply and divide by
\* powers of two (to the floor), V tells that a product did not fit, and a
\* rotation comes back to where it started after all of its bits have passed.
ShiftMeaning ==
    LET r == ByCount(op, f0, FALSE, n, val0)
        p == 2^n
    IN  /\ op = "AS.R" /\ n < 15 => Signed(r.val) = Signed(val0) \div p
        /\ op = "LS.R" /\ n < 15 => r.val = val0 \div p
        /\ op \in {"AS.L", "LS.L"} /\ n < 15 => r.val = (val0 * p) % M
        /\ op = "AS.L" /\ n < 15 =>
              (r.f.v <=> Signed(val0) * p \notin (-(M \div 2))..(M \div 2 - 1))
        /\ op \in {"RO.R", "RO.L"} /\ n % W = 0 => r.val = val0
        /\ op \in {"ROX.R", "ROX.L"} /\ n % (W + 1) = 0 => r.val = val0 /\ r.f.x = f0.x
=============================================================================
