------------------------------ MODULE AluChain ------------------------------
(***************************************************************************)
(* Arithmetic on numbers of several words, the way 68000 programs do it:   *)
(* one instruction for the lowest word, then the forms that take the       *)
(* carry from X and only ever clear Z.  What the flags hold between two    *)
(* instructions is what the result depends on.                             *)
(*                                                                         *)
(* a, b and r are the two numbers and the result so far (dst, src and the  *)
(* stored value, the lowest word first); n is how many words they have.    *)
(***************************************************************************)
EXTENDS Alu68k

CONSTANTS
    Kinds,      \* the chains explored
    Limbs,      \* bound: words of a number
    Binary,     \* operands of the binary chains
    Decimal     \* operands of the decimal chains: bytes of two digits

\* "add", "sub", "neg": ADD, SUB or NEG, then ADDX, SUBX or NEGX.  The others
\* start with X clear and Z set (MOVE #4,CCR).  "cmp" is a CMP alone.
AllKinds     == {"add", "addx", "sub", "subx", "neg", "negx", "cmp", "abcd", "sbcd", "nbcd"}
DecimalKinds == {"abcd", "sbcd", "nbcd"}
SumKinds     == {"add", "addx", "abcd"}

IsBcd(v) == v \in 0..255 /\ Lo(v) < 10 /\ Hi(v) < 160

ChainAssumption ==
    /\ WidthAssumption
    /\ Kinds \subseteq AllKinds
    /\ Limbs \in Nat
    /\ Binary \subseteq Vals
    /\ Decimal \subseteq {v \in Vals : IsBcd(v)}

VARIABLES kind, n, f, a, b, r
vars == <<kind, n, f, a, b, r>>

Base  == IF kind \in DecimalKinds THEN 100 ELSE M
Worth(v) == IF kind \in DecimalKinds THEN (v \div 16) * 10 + Lo(v) ELSE v
Operands == IF kind \in DecimalKinds THEN Decimal ELSE Binary

Step(src, dst) ==
    CASE kind = "add"  -> IF n = 0 THEN ADD(f, src, dst) ELSE ADDX(f, src, dst)
      [] kind = "sub"  -> IF n = 0 THEN SUB(f, src, dst) ELSE SUBX(f, src, dst)
      [] kind = "neg"  -> IF n = 0 THEN NEG(f, src) ELSE NEGX(f, src)
      [] kind = "addx" -> ADDX(f, src, dst)
      [] kind = "subx" -> SUBX(f, src, dst)
      [] kind = "negx" -> NEGX(f, src)
      [] kind = "cmp"  -> CMP(f, src, dst)
      [] kind = "abcd" -> ABCD(f, src, dst)
      [] kind = "sbcd" -> SBCD(f, src, dst)
      [] kind = "nbcd" -> NBCD(f, src)

Init ==
    /\ kind \in Kinds
    /\ n = 0 /\ a = 0 /\ b = 0 /\ r = 0
    /\ f \in Flags
    /\ kind \in {"add", "sub", "neg", "cmp"} => f.z = f.x /\ f.n /\ f.v /\ ~f.c
    /\ kind \notin {"add", "sub", "neg", "cmp"} => ~f.x /\ f.z /\ ~f.n /\ ~f.v /\ ~f.c

Next ==
    /\ n < (IF kind = "cmp" THEN 1 ELSE Limbs)
    /\ \E src \in Operands, dst \in Operands :
          /\ kind \in {"neg", "negx", "nbcd"} => dst = CHOOSE o \in Operands : TRUE
          /\ LET s == Step(src, dst)
             IN  f' = s.f /\ r' = r + Worth(s.val) * Base^n
          /\ a' = a + (IF kind \in {"neg", "negx", "nbcd"} THEN 0 ELSE Worth(dst) * Base^n)
          /\ b' = b + Worth(src) * Base^n
    /\ n' = n + 1
    /\ UNCHANGED kind

Spec == Init /\ [][Next]_vars

Range0 == Base^n
\* The exact result, before it is cut to n words
Exact  == IF kind \in SumKinds THEN a + b ELSE a - b
\* A number of n words as a signed one
SignedWide(v) == IF v >= Range0 \div 2 THEN v - Range0 ELSE v
\* V is computed by the binary instructions alone.
Started == n > 0

\* The stored words are the words of the sum or the difference of the whole
\* numbers, whatever carries went from word to word through X, and C is the
\* carry or borrow out of the whole (gencpu.c, i_ADD to i_NBCD).
ResultIsExact ==
    Started =>
      /\ f.c = (Exact < 0 \/ Exact >= Range0)
      /\ IF kind = "cmp" THEN r = a ELSE r = Exact % Range0

\* Z tells whether the whole number is zero, although only the last word was
\* in the hands of the last instruction.
ZeroOfTheWhole == Started => f.z = (Exact % Range0 = 0)

\* table68k lists X among the flags these instructions set: it is the carry
\* the next word takes.  flag_sub and i_NBCD do not copy it (ExtendFlag.cfg).
ExtendIsCarry == Started /\ kind # "cmp" => f.x = f.c

\* After a subtraction or comparison of whole numbers each condition of
\* cctrue() is the relation its name says, for signed and unsigned numbers; and
\* V says that a signed result does not fit.
ConditionsCompare ==
    LET sa == SignedWide(a)  sb == SignedWide(b)
    IN  /\ Started /\ kind \in {"sub", "subx", "cmp"} =>
              /\ cctrue(f, 2)  = (a > b)    /\ cctrue(f, 3)  = (a <= b)
              /\ cctrue(f, 4)  = (a >= b)   /\ cctrue(f, 5)  = (a < b)
              /\ cctrue(f, 6)  = (a # b)    /\ cctrue(f, 7)  = (a = b)
              /\ cctrue(f, 12) = (sa >= sb) /\ cctrue(f, 13) = (sa < sb)
              /\ cctrue(f, 14) = (sa > sb)  /\ cctrue(f, 15) = (sa <= sb)
        /\ Started /\ kind \notin DecimalKinds =>
              LET s == IF kind \in SumKinds THEN sa + sb ELSE sa - sb
              IN  f.v = (s < -(Range0 \div 2) \/ s >= Range0 \div 2)
=============================================================================
