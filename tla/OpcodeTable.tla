----------------------------- MODULE OpcodeTable -----------------------------
(***************************************************************************)
(* From table68k to the table of functions the emulator jumps through.     *)
(* readcpu.c expands every row to the opcodes it matches, do_merges() lets *)
(* opcodes that differ in a register or in small data share the function   *)
(* of the first of them, gencpu.c writes the functions for five kinds of   *)
(* processor and reuses one where the next processor needs no other, and   *)
(* build_cpufunctbl() installs those of the processor chosen.  Each part   *)
(* trusts the others: the function of the first opcode takes its registers *)
(* out of the opcode at run time, from where its own row had them.         *)
(*                                                                         *)
(* A line is the opcodes with the same top four bits; no row spans two.    *)
(***************************************************************************)
EXTENDS Integers, SequencesExt, Table68k

CONSTANT Lines      \* the lines explored
OpcodeAssumption == Lines \subseteq 0..15
ASSUME OpcodeAssumption

VARIABLES line, row, table68k, double, next, handler, mismatch, pass, next_clev,
          last_postfix, smalltbl, installed, cpufunctbl, aborted
read      == <<row, table68k, double>>
merged    == <<next, handler, mismatch>>
generated == <<pass, next_clev, last_postfix, smalltbl>>
built     == <<installed, cpufunctbl, aborted>>
vars == <<line, read, merged, generated, built>>

-----------------------------------------------------------------------------
(* build68k.c: the fixed bits and the fields of a pattern *)
Chars(pattern) == [i \in 1..16 |-> SubSeq(pattern, i, i)]

Bits(c) == CASE c = "0" -> {0} [] c = "1" -> {1} [] OTHER -> {0, 1}
\* The opcodes that agree with the fixed bits
Expand(chars) ==
    FoldLeft(LAMBDA S, c : {2 * x + b : x \in S, b \in Bits(c)}, {0}, chars)

\* bitpos and bitcnt: every field is one run of bits
Fields(chars) ==
    [l \in ToSet(chars) \ {"0", "1"} |->
        LET at == {i \in 1..16 : chars[i] = l}
        IN  [pos |-> 16 - Max(at), span |-> 2^Cardinality(at)]]

LineOf(pattern) == Min(Expand(SubSeq(Chars(pattern), 1, 4)))
defs68k ==
    [i \in 1..Len(Rows) |->
        LET c == Chars(Rows[i].pattern)
        IN  [row |-> Rows[i], opcodes |-> Expand(c), f |-> Fields(c)]]

-----------------------------------------------------------------------------
(* readcpu.c *)
RegModes  == {"Dreg", "Areg", "Aind", "Aipi", "Apdi", "Ad16", "Ad8r"}
NotStored == {"imm", "PC16", "PC8r"}
mode_from_mr(mode, reg) ==
    IF mode < 7 THEN <<"Dreg", "Areg", "Aind", "Aipi", "Apdi", "Ad16", "Ad8r">>[mode + 1]
    ELSE <<"absw", "absl", "PC16", "PC8r", "imm", "illg", "illg", "illg">>[reg + 1]

\* bitval[]: absent fields are 0, and of j 0 is 8
Val(f, o, l) == IF l \in DOMAIN f THEN (o \div 2^(f[l].pos)) % f[l].span ELSE 0
BitJ(v) == IF v = 0 THEN 8 ELSE v

(* Mutation: the condition "never" is taken for one more condition. *)
MatchesNever(f, o) ==
    /\ Val(f, o, "z") # 3
    /\ "I" \in DOMAIN f => Val(f, o, "I") \notin {0, 255}
\* A row does not match for some values of its fields
Matches(f, o) ==
    /\ Val(f, o, "z") # 3
    /\ "C" \in DOMAIN f => Val(f, o, "C") # 1
    /\ "I" \in DOMAIN f => Val(f, o, "I") \notin {0, 255}

Capital == [s |-> "S", d |-> "D"]
\* An effective address: "illg" is goto nomatch
EaMode(op, f, o) ==
    LET m   == mode_from_mr(Val(f, o, op.field), Val(f, o, Capital[op.field]))
        sel == CASE op.how = "all"  -> m
                 [] op.how = "excl" -> IF m \in op.modes THEN "illg" ELSE m
                 [] op.how = "only" -> IF m \in op.modes THEN m ELSE "illg"
                 [] op.how = "repl" -> IF m \in op.modes THEN op.to ELSE "illg"
    IN  IF op.field = "d" /\ op.how # "only" /\ sel \in NotStored THEN "illg" ELSE sel

(* Mutation: the data of MOVEQ is not extended. *)
StypeUnsigned == [i |-> 2, I |-> 1, j |-> 3, J |-> 2, k |-> 4, K |-> 5]
stype == [i |-> 1, I |-> 1, j |-> 3, J |-> 2, k |-> 4, K |-> 5]
Immediate(op, f, o) ==
    IF op.field \in {"z", "0", "1", "2"}
    THEN [mode |-> ("z" :> "imm" @@ "0" :> "imm0" @@ "1" :> "imm1" @@ "2" :> "imm2")[op.field],
          reg |-> 255, pos |-> -1, type |-> 0]
    ELSE LET l == IF op.field = "i" /\ "I" \in DOMAIN f THEN "I" ELSE op.field
             v == Val(f, o, l)
         IN  [mode |-> "immi", reg |-> IF l = "j" THEN BitJ(v) ELSE v,
              pos |-> f[l].pos, type |-> stype[l]]

\* Mode, register, where the register is in the opcode (-1 if it is not
\* taken from there) and the kind of immediate
Decode(op, f, o) ==
    CASE op.kind = "none" -> [mode |-> "unknown", reg |-> 255, pos |-> -1, type |-> 0]
      [] op.kind = "#"    -> Immediate(op, f, o)
      [] op.kind = "ea"   -> LET m == EaMode(op, f, o)
                                 R == Capital[op.field]
                             IN  [mode |-> m, reg |-> Val(f, o, R), type |-> 0,
                                  pos |-> IF m \in RegModes THEN f[R].pos ELSE -1]
      [] OTHER            -> [mode |-> op.kind, reg |-> Val(f, o, op.field),
                              pos |-> f[op.field].pos, type |-> 0]

\* An entry no row has filled; the row of ILLEGAL says no more than that
ILLG == [mnemo |-> <<"ILLG", 0>>]
BitInsns == {"BTST", "BSET", "BCLR", "BCHG"}
\* build_insn() for one variant: the entry of the table, or ILLG for no match
Entry(def, o) ==
    LET r  == def.row
        f  == def.f
        s  == Decode(r.src, f, o)
        d0 == Decode(r.dst, f, o)
        d  == IF d0.mode = "immi" THEN [d0 EXCEPT !.pos = -1] ELSE d0
        sz == IF r.size = "z" THEN <<"B", "W", "L">>[Val(f, o, "z") + 1]
              ELSE IF r.size = "" THEN "L" ELSE r.size
    IN  IF ~Matches(f, o) \/ "illg" \in {s.mode, d.mode}
           \/ (sz = "B" /\ "Areg" \in {s.mode, d.mode})
        THEN ILLG
        ELSE [mnemo |-> IF r.name = "ILLEGAL" THEN ILLG.mnemo ELSE <<r.name, Val(f, o, "f")>>,
              cc    |-> Val(f, o, IF "C" \in DOMAIN f THEN "C" ELSE "c"),
              size  |-> IF r.name \notin BitInsns THEN sz
                        ELSE IF d.mode = "Dreg" THEN "L" ELSE "B",
              smode |-> s.mode, sreg |-> s.reg, spos |-> s.pos, stype |-> s.type,
              dmode |-> d.mode, dreg |-> d.reg, dpos |-> d.pos,
              suse  |-> r.src.kind # "none", duse |-> r.dst.kind # "none",
              plev  |-> r.plev, clev |-> r.clev]

CodesOf(ln) == (4096 * ln)..(4096 * ln + 4095)
RowsOf(ln)  == {i \in 1..Len(Rows) : LineOf(Rows[i].pattern) = ln}
T(o)     == table68k[o]
Legal(o) == T(o).mnemo # ILLG.mnemo
Codes    == CodesOf(line)

\* The entries of a row.  A match with an entry already filled is reported,
\* "Double match", and overwrites it.
build_insn(def) ==
    LET new == [o \in {o \in def.opcodes : Entry(def, o) # ILLG} |-> Entry(def, o)]
    IN  /\ table68k' = new @@ table68k
        /\ double' = double \cup {o \in DOMAIN new : Legal(o)}

\* read_table68k(): one row more
ReadRow ==
    /\ row \in RowsOf(line)
    /\ row' = IF row + 1 \in RowsOf(line) THEN row + 1 ELSE 0
    /\ build_insn(defs68k[row])
    /\ UNCHANGED <<line, merged, generated, built>>

-----------------------------------------------------------------------------
(* do_merges() *)
(* Mutation: the mask of the conditions of floating point is a bit too long. *)
SpanLong(type) == <<8, 256, 16, 8, 8, 128>>[type + 1]
Span(type) == <<8, 256, 16, 8, 8, 64>>[type + 1]
Replace(o, pos, span, v) ==
    IF pos = -1 THEN o ELSE o - 2^pos * ((o \div 2^pos) % span) + v * 2^pos
\* The opcodes with other registers, or other small data, than l
Variants(l) ==
    LET i == T(l)
    IN  {Replace(Replace(l, i.spos, Span(i.stype), s), i.dpos, 8, d) :
            s \in 0..(IF i.spos = -1 THEN 0 ELSE Span(i.stype) - 1),
            d \in 0..(IF i.dpos = -1 THEN 0 ELSE 7)}
\* "Check whether this is in fact the same instruction."
Same(l, code) ==
    LET i == T(l)
        c == T(code)
    IN  /\ c.mnemo = i.mnemo /\ c.size = i.size /\ c.suse = i.suse /\ c.duse = i.duse
        /\ i.suse => c.spos = i.spos /\ c.smode = i.smode /\ c.stype = i.stype
        /\ i.duse => c.dpos = i.dpos /\ c.dmode = i.dmode

\* The next opcode that is legal and has no handler, or the end of the line
End == 4096 * line + 4096
Unmerged == Min({End} \cup {o \in next..(End - 1) : handler[o] = -1 /\ Legal(o)})
handle_merges ==
    /\ row = 0 /\ next < End
    /\ \E l \in {Unmerged} :
        \/ /\ l = End
           /\ next' = End
           /\ UNCHANGED <<handler, mismatch>>
        \/ /\ l < End
           /\ next' = l + 1
           /\ \E others \in {Variants(l) \ {l}} :
              \E shared \in {{o \in others : Same(l, o)}} :
                /\ handler' = [o \in Codes |-> IF o \in shared THEN l ELSE handler[o]]
                /\ mismatch' = {<<l, o>> : o \in others \ shared}
    /\ UNCHANGED <<line, read, generated, built>>

-----------------------------------------------------------------------------
(* gencpu.c *)
Leaders == {o \in Codes : handler[o] = -1 /\ Legal(o)}
read_counts ==
    /\ row = 0 /\ next = End /\ pass = -1
    /\ pass' = 0
    /\ next_clev' = [l \in Leaders |-> 3]
    /\ last_postfix' = [l \in Leaders |-> -1]
    /\ UNCHANGED <<line, read, merged, smalltbl, built>>

\* Where the code written for an instruction asks for the processor: the
\* levels such that above them it is another code
Splits(i) ==
    (IF i.plev = 1 \/ i.mnemo[1] = "RTE" THEN {0} ELSE {})
    \cup (IF {i.smode, i.dmode} \cap {"Ad8r", "PC8r"} # {} THEN {1} ELSE {})
    \cup (IF i.mnemo[1] = "Bcc" /\ i.size = "L" THEN {1} ELSE {})
next_cpu_level(i, level) == Max({-1} \cup {t \in Splits(i) : level > t})

LevelOf(p) == IF p = 4 THEN 0 ELSE 3 - p
\* generate_func(): one kind of processor, the functions of all opcodes.  The
\* last pass writes all of them again, with prefetch.
generate_func ==
    /\ pass \in 0..4
    /\ LET level      == LevelOf(pass)
           nc(l)      == IF pass = 4 THEN 0 ELSE next_clev[l]
           written(l) == T(l).clev <= level /\ nc(l) = level
           known      == DOMAIN next_clev
       IN  /\ smalltbl' = [smalltbl EXCEPT ![pass] =
                              [l \in {l \in known : T(l).clev <= level} |->
                                 IF written(l) THEN pass ELSE last_postfix[l]]]
           /\ next_clev' = [l \in known |-> IF written(l) THEN next_cpu_level(T(l), level) ELSE nc(l)]
           /\ last_postfix' = [l \in known |-> IF written(l) THEN pass ELSE last_postfix[l]]
    /\ pass' = pass + 1
    /\ UNCHANGED <<line, read, merged, built>>

-----------------------------------------------------------------------------
(* newcpu.c *)
Illegal == <<-1, -1>>       \* op_illg_1
(* Mutation: the tables are numbered from the 68000 up. *)
PostfixUp(level, compatible) == IF level = 0 THEN (IF compatible THEN 4 ELSE 0) ELSE level
Postfix(level, compatible) == IF level = 0 THEN (IF compatible THEN 4 ELSE 3) ELSE 3 - level
\* build_cpufunctbl() for the processor chosen
build_cpufunctbl ==
    /\ pass = 5 /\ installed = <<>>
    /\ \E level \in 0..3, compatible \in BOOLEAN :
        LET p         == Postfix(level, compatible)
            Fn(o)     == IF o \in DOMAIN smalltbl[p] THEN <<o, smalltbl[p][o]>> ELSE Illegal
            copied(o) == Legal(o) /\ T(o).clev <= level /\ handler[o] # -1
        IN  /\ installed' = <<level, compatible>>
            /\ aborted' = \E o \in Codes : copied(o) /\ Fn(handler[o]) = Illegal
            /\ cpufunctbl' = [o \in Codes |-> IF copied(o) THEN Fn(handler[o]) ELSE Fn(o)]
    /\ UNCHANGED <<line, read, merged, generated>>

Init ==
    /\ line \in Lines
    /\ row = Min(RowsOf(line) \cup (IF RowsOf(line) = {} THEN {0} ELSE {}))
    /\ table68k = [o \in Codes |-> ILLG] /\ double = {}
    /\ handler = [o \in Codes |-> -1] /\ next = 4096 * line /\ mismatch = {}
    /\ pass = -1 /\ next_clev = <<>> /\ last_postfix = <<>> /\ smalltbl = [p \in 0..4 |-> <<>>]
    /\ installed = <<>> /\ cpufunctbl = <<>> /\ aborted = FALSE
Next == ReadRow \/ handle_merges \/ read_counts \/ generate_func \/ build_cpufunctbl
Spec == Init /\ [][Next]_vars

-----------------------------------------------------------------------------
(* What a function takes out of the opcode at run time *)
Signed8(v) == IF v >= 128 THEN v - 256 ELSE v
Swap(o) == 256 * (o % 256) + o \div 256
\* The field of an opcode; of a swapped opcode, whose bytes come in the order
\* of memory (HAVE_GET_WORD_UNSWAPPED)
Extract(o, pos, span, swapped) ==
    IF ~swapped THEN (o \div 2^pos) % span
    ELSE IF pos < 8 /\ span > 2^(8 - pos)
         THEN ((Swap(o) \div 2^(pos + 8)) + ((Swap(o) % 2^pos) * 2^(8 - pos))) % 8
         ELSE (Swap(o) \div 2^(IF pos < 8 THEN pos + 8 ELSE pos - 8)) % span
imm8_table == <<8, 1, 2, 3, 4, 5, 6, 7>>
srcreg(l, o, swapped) ==
    LET i == T(l)
        v == Extract(o, i.spos, Span(i.stype), swapped)
    IN  IF i.spos = -1 THEN Signed8(i.sreg)
        ELSE CASE i.stype = 3 -> imm8_table[v + 1] [] i.stype = 1 -> Signed8(v) [] OTHER -> v
dstreg(l, o, swapped) ==
    IF T(l).dpos = -1 THEN Signed8(T(l).dreg) ELSE Extract(o, T(l).dpos, 8, swapped)
NoReg == {"imm", "imm0", "imm1", "imm2", "absw", "absl"}

-----------------------------------------------------------------------------
(* Properties *)
\* No opcode matches two rows: which instruction it is does not depend on the
\* order of the rows of table68k.  (build_insn())
NoDoubleMatch == double = {}

\* "The instructions should never differ, except for the Bcc.(BW) case": of
\* the opcodes that differ in a register or small data only, all are the same
\* instruction, except for the displacements 0 and -1 of branches.
\* (handle_merges())
OnlyBranchesDiffer ==
    \A p \in mismatch : T(p[1]).mnemo[1] \in {"Bcc", "BSR"} /\ p[2] % 256 \in {0, 255}

\* An opcode that runs the function of another finds there its own
\* instruction, condition, size and privilege, and the function takes from
\* the opcode, in either byte order, the registers and the data the opcode's
\* own row gives it.  (handle_merges(), generate_one_opcode())
OperandsFit ==
    \A o \in DOMAIN cpufunctbl : cpufunctbl[o] # Illegal =>
        LET l == cpufunctbl[o][1]
        IN  /\ <<T(l).mnemo, T(l).cc, T(l).size, T(l).plev>> = <<T(o).mnemo, T(o).cc, T(o).size, T(o).plev>>
            /\ \A swapped \in BOOLEAN :
                /\ T(o).suse /\ T(o).smode \notin NoReg \cup {"PC8r", "PC16"} =>
                       srcreg(l, o, swapped) = (IF T(o).smode = "immi" THEN Signed8(T(o).sreg) ELSE T(o).sreg)
                /\ T(o).duse /\ T(o).dmode \notin NoReg => dstreg(l, o, swapped) = T(o).dreg

\* The row of table68k an opcode is built from is the only one, and the
\* opcodes that share a function share all that the function does not take
\* out of them.  (readcpu.c, build_insn(), handle_merges(); gencpu.c,
\* generate_one_opcode())
FunctionFits == NoDoubleMatch /\ OnlyBranchesDiffer /\ OperandsFit

\* A table of functions reuses one written for a higher processor only where
\* the two processors do not differ for that instruction, and never one
\* without prefetch for the processor with it.  (generate_func())
RightProcessor ==
    \A o \in DOMAIN cpufunctbl : cpufunctbl[o] # Illegal =>
        LET p     == cpufunctbl[o][2]
            mine  == Postfix(installed[1], installed[2])
            code(q) == {t \in Splits(T(o)) : LevelOf(q) > t}
        IN  /\ p # -1 /\ code(p) = code(mine)
            /\ (p = 4) <=> (mine = 4)

\* Every opcode of the processor has a function and no other has, so the
\* abort() of build_cpufunctbl() is never reached.
LegalOpcodesRun ==
    installed # <<>> =>
        /\ ~aborted
        /\ \A o \in Codes : cpufunctbl[o] # Illegal <=> (Legal(o) /\ T(o).clev <= installed[1])

\* The table of a processor holds a function of that processor for each of
\* its opcodes, and none besides.  (gencpu.c, generate_func(); newcpu.c,
\* build_cpufunctbl())
RightFunction == RightProcessor /\ LegalOpcodesRun

=============================================================================
