----------------------------- MODULE BitFields -----------------------------
(***************************************************************************)
(* The bit field instructions of the 68020 and the single-bit ones of the  *)
(* 68000, as gencpu.c generates them: a field of 1 to 32 bits at any bit   *)
(* offset of a data register or of memory, where it may touch five bytes.  *)
(* The code works on a long and a fifth byte with shifts and masks.        *)
(*                                                                         *)
(* B stands for the 8 bits of a byte; a long is four bytes, LB bits.       *)
(***************************************************************************)
EXTENDS Integers, SequencesExt

CONSTANTS
    B,          \* bits of a byte
    Bytes,      \* bytes of the memory
    Base,       \* where the effective address points, a byte
    Memories,   \* contents explored, numbers of Bytes * B bits
    Offsets,    \* bit offsets, of a register of the field's operand
    Inserts     \* registers inserted by BFINS

LB == 4 * B
BitFieldAssumption ==
    /\ B \in Nat \ {0} /\ Bytes \in Nat /\ Base \in 0..Bytes
    /\ Memories \subseteq 0..(2^(B * Bytes) - 1)
    /\ \A o \in Offsets : Base + o \div B \in 0..(Bytes - 5)
    /\ Inserts \subseteq 0..(2^LB - 1)

Ops == {"BFTST", "BFEXTU", "BFCHG", "BFEXTS", "BFCLR", "BFFFO", "BFSET", "BFINS"}
Writers == {"BFCHG", "BFCLR", "BFSET", "BFINS"}

VARIABLES op, inReg, offset, width, mem, dn, done, mem1, dn1, nflag, zflag
vars == <<op, inReg, offset, width, mem, dn, done, mem1, dn1, nflag, zflag>>

\* get_byte(), get_long() and the puts of a memory that is one number, the
\* byte at address 0 first
Below(addr, len)       == 2^(B * (Bytes - addr - len))
Get(m, addr, len)      == (m \div Below(addr, len)) % 2^(B * len)
Put(m, addr, len, val) == m + ((val % 2^(B * len)) - Get(m, addr, len)) * Below(addr, len)

\* The register of the register form: the first long of the memory
Reg(m)         == Get(m, 0, 4)
PutReg(m, val) == Put(m, 0, 4, val)

\* dsta, and offset & 7, or offset & 0x1f of a register
Address == Base + offset \div B
Within  == IF inReg THEN offset % LB ELSE offset % B

\* tmp: the field, moved to the low bits
(* Mutation: the fifth byte is not read. *)
FieldOfFour ==
    LET long == IF inReg THEN Reg(mem) ELSE Get(mem, Address, 4)
    IN  ((long * 2^Within) % 2^LB) \div 2^(LB - width)

Field ==
    LET o    == Within
        long == IF inReg THEN Reg(mem) ELSE Get(mem, Address, 4)
        bf1  == IF inReg THEN 0 ELSE Get(mem, Address + 4, 1)
        top  == ((long * 2^o) % 2^LB) + bf1 \div 2^(IF inReg THEN 0 ELSE B - o)
    IN  top \div 2^(LB - width)

\* while (mask) { if (tmp & mask) break; mask >>= 1; offset++; }
FirstOne(tmp) ==
    LET ones == {i \in 0..(width - 1) : (tmp \div 2^(width - 1 - i)) % 2 = 1}
    IN  IF ones = {} THEN width ELSE CHOOSE i \in ones : \A j \in ones : i <= j

\* What the instruction puts in place of the field, before tmp <<= 32 - width
NewField(tmp) ==
    CASE op = "BFCHG" -> 2^LB - 1 - tmp
      [] op = "BFCLR" -> 0
      [] op = "BFSET" -> 2^LB - 1
      [] op = "BFINS" -> dn

(* Mutation: the bits after the field are lost. *)
OverlayOnly(long, tmp, o) == (long - (long % 2^(LB - o))) + tmp \div 2^o

\* The long with tmp laid over it at o, the bits before and after kept
Overlay(long, tmp, o) ==
    (long - (long % 2^(LB - o))) + tmp \div 2^o
      + (IF o + width >= LB THEN 0 ELSE long % 2^(LB - o - width))

StoreField(new) ==
    LET o   == Within
        tmp == (new * 2^(LB - width)) % 2^LB
        bf1 == Get(mem, Address + 4, 1)
        lng == Put(mem, Address, 4, Overlay(Get(mem, Address, 4), tmp, o))
    IN  IF inReg THEN PutReg(mem, Overlay(Reg(mem), tmp, o))
        ELSE IF o + width > LB
             THEN Put(lng, Address + 4, 1,
                      (bf1 % 2^(B - (width - LB + o))) + ((tmp * 2^(B - o)) % 2^B))
             ELSE lng

\* The result register: BFEXTS extends the sign, BFFFO gives an offset.
Result(tmp) ==
    CASE op = "BFEXTU" -> tmp
      [] op = "BFEXTS" -> IF tmp >= 2^(width - 1) THEN 2^LB - 2^width + tmp ELSE tmp
      [] op = "BFFFO"  -> offset + FirstOne(tmp)
      [] OTHER         -> dn

Init ==
    /\ op \in Ops /\ inReg \in BOOLEAN /\ offset \in Offsets /\ width \in 1..LB
    /\ mem \in Memories
    /\ dn \in Inserts
    /\ done = FALSE /\ mem1 = mem /\ dn1 = dn /\ nflag = FALSE /\ zflag = FALSE

Execute ==
    /\ ~done
    /\ done' = TRUE
    /\ nflag' = (Field >= 2^(width - 1))
    /\ zflag' = (Field = 0)
    /\ mem1' = IF op \in Writers THEN StoreField(NewField(Field)) ELSE mem
    /\ dn1' = Result(Field)
    /\ UNCHANGED <<op, inReg, offset, width, mem, dn>>

Spec == Init /\ [][Execute]_vars

(* Mutation: the bit number is taken modulo the bits of a byte. *)
SingleBitOfByte(o, val, n) ==
    LET b == (val \div 2^(n % B)) % 2
    IN  [z |-> b = 0,
         val |-> CASE o = "BFCHG" -> IF b = 1 THEN val - 2^(n % B) ELSE val + 2^(n % B)
                   [] o = "BFCLR" -> val - b * 2^(n % B)
                   [] o = "BFSET" -> val + (1 - b) * 2^(n % B)
                   [] OTHER -> val]

\* i_BTST, i_BCHG, i_BCLR and i_BSET of a register: the new value and Z
SingleBit(o, val, n) ==
    LET b == (val \div 2^(n % LB)) % 2
        p == 2^(n % LB)
    IN  [z |-> b = 0,
         val |-> CASE o = "BFCHG" -> IF b = 1 THEN val - p ELSE val + p
                   [] o = "BFCLR" -> val - b * p
                   [] o = "BFSET" -> val + (1 - b) * p
                   [] OTHER -> val]

(***************************************************************************)
(* The meaning: memory as a row of bits                                    *)
(***************************************************************************)
BitOf(m, pos) == (m \div 2^(B * Bytes - 1 - pos)) % 2
\* The i-th bit of the field, and its place in the row; a field that runs over
\* the end of a register has no bits there.
Place(i)  == (IF inReg THEN offset % LB ELSE Base * B + offset) + i
Inside(i) == ~inReg \/ Place(i) < LB
FieldBit(i) == IF Inside(i) THEN BitOf(mem, Place(i)) ELSE 0
InField(pos) == \E i \in 0..(width - 1) : Inside(i) /\ Place(i) = pos

\* What BFTST, BFEXTU, BFEXTS and BFFFO report is the value of the bits of the
\* field, wherever it lies in the bytes.
FieldIsRead ==
    done =>
      LET value == FoldLeft(LAMBDA v, i : 2 * v + FieldBit(i - 1), 0, [i \in 1..width |-> i])
      IN  /\ zflag = (value = 0) /\ nflag = (FieldBit(0) = 1)
          /\ op = "BFEXTU" => dn1 = value
          /\ op = "BFEXTS" => (dn1 - value) % 2^width = 0 /\ (dn1 >= 2^(LB - 1) <=> nflag)
          /\ op = "BFFFO" =>
                LET k == dn1 - offset
                IN  /\ k \in 0..width /\ \A i \in 0..(k - 1) : FieldBit(i) = 0
                    /\ k < width => FieldBit(k) = 1

\* A write changes the bits of the field as the instruction says and no other
\* bit of the long or of the bytes around it.
OnlyTheField ==
    done =>
      /\ \A pos \in 0..(B * Bytes - 1) : ~InField(pos) => BitOf(mem1, pos) = BitOf(mem, pos)
      /\ \A i \in {j \in 0..(width - 1) : Inside(j)} :
            BitOf(mem1, Place(i)) =
              CASE op = "BFCHG" -> 1 - FieldBit(i)
                [] op = "BFCLR" -> 0
                [] op = "BFSET" -> 1
                [] op = "BFINS" -> (dn \div 2^(width - 1 - i)) % 2
                [] OTHER -> FieldBit(i)

\* A field of one bit is what BTST, BCHG, BCLR and BSET work on, which count
\* their bits from the other end.
SingleBitAgrees ==
    done /\ inReg /\ width = 1 /\ op \in {"BFTST", "BFCHG", "BFCLR", "BFSET"} =>
      LET s == SingleBit(op, Reg(mem), LB - 1 - (offset % LB))
      IN  s.z = zflag /\ s.val = Reg(mem1)
=============================================================================
