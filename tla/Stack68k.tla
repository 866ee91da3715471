------------------------------ MODULE Stack68k ------------------------------
(***************************************************************************)
(* How 68000 programs keep what they need on the stack: the addressing     *)
(* modes of genamode() and genastore(), MOVE, MOVEM, MOVEP, LINK, UNLK and *)
(* EXG of gencpu.c.  A program pushes and pops in frames as compilers do,  *)
(* in any order, and changes its other registers as it likes in between.   *)
(*                                                                         *)
(* Scaled: a byte has Base values, a word is two bytes and a long four;    *)
(* there are N data and N address registers, numbered like regs.regs[],    *)
(* the last of which is the stack pointer.                                 *)
(***************************************************************************)
EXTENDS Integers, Sequences, FiniteSets, SequencesExt

CONSTANTS
    Base, N, MemSize,
    Values,     \* longs a program loads
    Masks,      \* sets of registers a program saves
    Offsets,    \* displacements of LINK: bytes of local variables
    MaxFrames, MaxOps   \* bounds

StackAssumption ==
    /\ Base \in Nat /\ Base % 2 = 0 /\ Base > 0 /\ N \in Nat \ {0} /\ MemSize \in Nat /\ MemSize % 2 = 0
    /\ MemSize < Base * Base * Base * Base
    /\ Masks \subseteq SUBSET (0..(2 * N - 1)) /\ \A d \in Offsets : d \in Nat /\ d % 2 = 0

Regs == 0..(2 * N - 1)
Areg(n) == N + n
SP == Areg(N - 1)
Sizes == {1, 2, 4}  \* sz_byte, sz_word, sz_long
ValuesOf(size) == Base ^ size
Long(x) == x % ValuesOf(4)
\* (uae_s32)(uae_s16), of a long without a sign
SignExtend(x, size) == IF 2 * x >= ValuesOf(size) THEN x + ValuesOf(4) - ValuesOf(size) ELSE x

VARIABLES s,        \* the machine: registers r, and memory m, a byte at an address
          frames,   \* what the program has pushed, and its registers before it did
          ops
vars == <<s, frames, ops>>

-----------------------------------------------------------------------------
(* Memory and addressing modes *)
get(mem, a, size) ==
    LET f[i \in 0..size] == IF i = 0 THEN 0 ELSE f[i - 1] * Base + mem[a + i - 1]
    IN  f[size]
put(mem, a, size, v) ==
    [i \in DOMAIN mem |-> IF i >= a /\ i < a + size THEN (v \div Base ^ (a + size - 1 - i)) % Base ELSE mem[i]]

(* Mutation: the stack pointer moves by one for a byte. *)
inc_one(reg, size) == size
areg_inc(reg, size) == IF size = 1 /\ reg = SP THEN 2 ELSE size

Ea(mode, reg) == [mode |-> mode, reg |-> reg]
\* genamode(): the address an operand has, or 0 for a register
address(t, ea, size) ==
    CASE ea.mode \in {"Aind", "Aipi"} -> t.r[ea.reg]
      [] ea.mode = "Apdi"            -> Long(t.r[ea.reg] - areg_inc(ea.reg, size))
      [] OTHER                       -> 0
\* Its register, once the operand has been fetched or is to be stored
fixed(t, ea, size) ==
    CASE ea.mode = "Aipi" -> [t EXCEPT !.r[ea.reg] = Long(@ + areg_inc(ea.reg, size))]
      [] ea.mode = "Apdi" -> [t EXCEPT !.r[ea.reg] = address(t, ea, size)]
      [] OTHER            -> t
\* getv == 1
value(t, ea, size) ==
    CASE ea.mode \in {"Dreg", "Areg"} -> t.r[ea.reg] % ValuesOf(size)
      [] ea.mode = "imm"             -> ea.reg % ValuesOf(size)
      [] OTHER                       -> get(t.m, address(t, ea, size), size)
genastore(t, ea, a, size, v) ==
    CASE ea.mode = "Dreg" -> [t EXCEPT !.r[ea.reg] = (@ - (@ % ValuesOf(size))) + (v % ValuesOf(size))]
      [] ea.mode = "Areg" -> [t EXCEPT !.r[ea.reg] = Long(v)]
      [] OTHER            -> [t EXCEPT !.m = put(@, a, size, v)]

-----------------------------------------------------------------------------
(* Instructions: the machine after one *)
i_MOVE(t, src, dst, size) ==
    LET u == fixed(t, src, size)
    IN  genastore(fixed(u, dst, size), dst, address(u, dst, size), size, value(t, src, size))
i_MOVEA(t, src, reg, size) ==
    genastore(fixed(t, src, size), Ea("Areg", reg), 0, 4, SignExtend(value(t, src, size), size))
i_EXG(t, x, y) == [t EXCEPT !.r[x] = t.r[y], !.r[y] = t.r[x]]
i_LINK(t, n, offs) ==
    LET push == Ea("Apdi", SP)
        u    == fixed(t, push, 4)
        w    == genastore(u, push, address(t, push, 4), 4, u.r[n])
    IN  [w EXCEPT !.r[n] = w.r[SP], !.r[SP] = Long(w.r[SP] - offs)]
(* Mutation: the stack pointer is left where it is. *)
UnlkTop(t, n) ==
    LET pop == Ea("Aipi", SP) IN [fixed(t, pop, 4) EXCEPT !.r[n] = value(t, pop, 4)]
i_UNLK(t, n) ==
    LET u   == [t EXCEPT !.r[SP] = t.r[n]]
        pop == Ea("Aipi", SP)
    IN  [fixed(u, pop, 4) EXCEPT !.r[n] = value(u, pop, 4)]

\* The registers of a mask word in the order of its bits, movem_next[]: bit b
\* is register b, movem_index1[], or with predecrement the b-th from the last,
\* movem_index2[]
(* Mutation: the mask of predecrement is read like the others. *)
movem_index1(word, down) == SetToSortSeq(word, LAMBDA x, y : x < y)
movem_order(word, down) ==
    LET bits == SetToSortSeq(word, LAMBDA x, y : x < y)
    IN  [i \in DOMAIN bits |-> IF down THEN 2 * N - 1 - bits[i] ELSE bits[i]]
\* What an assembler makes of a set of registers
Word(mask, down) == IF down THEN {2 * N - 1 - x : x \in mask} ELSE mask

\* MOVEM registers to memory: -(An), or from srca up
genmovemle(t, word, size, mode, reg) ==
    LET order == movem_order(word, mode = "Apdi")
        mem[i \in 0..Len(order)] ==
            IF i = 0 THEN t.m
            ELSE put(mem[i - 1], IF mode = "Apdi" THEN t.r[reg] - i * size ELSE t.r[reg] + (i - 1) * size,
                     size, t.r[order[i]])
    IN  [r |-> IF mode = "Apdi" THEN [t.r EXCEPT ![reg] = @ - Len(order) * size] ELSE t.r, m |-> mem[Len(order)]]
\* MOVEM memory to registers: words are extended
genmovemel(t, word, size, mode, reg) ==
    LET order == movem_order(word, FALSE)
    IN  [t EXCEPT !.r = [x \in Regs |->
            IF mode = "Aipi" /\ x = reg THEN t.r[reg] + Len(order) * size
            ELSE IF \E i \in DOMAIN order : order[i] = x
            THEN SignExtend(get(t.m, t.r[reg] + ((CHOOSE i \in DOMAIN order : order[i] = x) - 1) * size, size), size)
            ELSE t.r[x]]]

\* MOVEP: a word or long to every other byte of memory and back
i_MVPRM(t, reg, memp, size) ==
    LET mem[i \in 0..size] ==
          IF i = 0 THEN t.m
          ELSE put(mem[i - 1], memp + 2 * (i - 1), 1, t.r[reg] \div Base ^ (size - i))
    IN  [t EXCEPT !.m = mem[size]]
(* Mutation: the low byte comes first. *)
MvpmrLow(t, memp, reg, size) ==
    LET val[i \in 0..size] == IF i = 0 THEN 0 ELSE val[i - 1] + Base ^ (i - 1) * get(t.m, memp + 2 * (i - 1), 1)
    IN  genastore(t, Ea("Dreg", reg), 0, size, val[size])
i_MVPMR(t, memp, reg, size) ==
    LET val[i \in 0..size] == IF i = 0 THEN 0 ELSE val[i - 1] * Base + get(t.m, memp + 2 * (i - 1), 1)
    IN  genastore(t, Ea("Dreg", reg), 0, size, val[size])

-----------------------------------------------------------------------------
(* The program *)
Init ==
    /\ \E v \in Values : s = [r |-> [x \in Regs |-> IF x = SP THEN MemSize ELSE v], m |-> [a \in 0..(MemSize - 1) |-> 0]]
    /\ frames = <<>> /\ ops = 0

Op == ops < MaxOps /\ ops' = ops + 1
Room(bytes) == Len(frames) < MaxFrames /\ s.r[SP] >= bytes
Frame(kind, what, size) == frames' = Append(frames, [kind |-> kind, what |-> what, size |-> size, before |-> s.r])
Top(kind) == frames # <<>> /\ Last(frames).kind = kind
Linked == {frames[i].what : i \in {j \in DOMAIN frames : frames[j].kind = "link"}}
Free == Regs \ (Linked \cup {SP})

SaveRegisters(mask, size) ==
    /\ Op /\ Room(Cardinality(mask) * size)
    /\ s' = genmovemle(s, Word(mask, TRUE), size, "Apdi", SP)
    /\ Frame("movem", mask, size)
RestoreRegisters ==
    /\ Op /\ Top("movem") /\ Last(frames).what \cap Linked = {}
    /\ s' = genmovemel(s, Word(Last(frames).what, FALSE), Last(frames).size, "Aipi", SP)
    /\ frames' = Front(frames)
Link(n, offs) ==
    /\ Op /\ Room(4 + offs)
    /\ s' = i_LINK(s, n, offs)
    /\ Frame("link", n, 4)
\* Whatever has been pushed since is dropped
Unlink(n) ==
    /\ Op
    /\ \E i \in DOMAIN frames :
         /\ frames[i].kind = "link" /\ frames[i].what = n
         /\ \A j \in (i + 1)..Len(frames) : frames[j].kind # "link"
         /\ frames' = SubSeq(frames, 1, i - 1)
    /\ s' = i_UNLK(s, n)
Push(d, size) ==
    /\ Op /\ Room(4)
    /\ s' = i_MOVE(s, Ea("Dreg", d), Ea("Apdi", SP), size)
    /\ Frame("push", d, size)
Pop(x) ==
    /\ Op /\ Top("push") /\ x \in Free
    /\ s' = IF x < N THEN i_MOVE(s, Ea("Aipi", SP), Ea("Dreg", x), Last(frames).size)
            ELSE i_MOVEA(s, Ea("Aipi", SP), x, Last(frames).size)
    /\ (x >= N => Last(frames).size # 1) /\ frames' = Front(frames)
Load(x, v) ==
    /\ Op /\ x \in Free
    /\ s' = IF x < N THEN i_MOVE(s, Ea("imm", v), Ea("Dreg", x), 4) ELSE i_MOVEA(s, Ea("imm", v), x, 4)
    /\ UNCHANGED frames
Exchange(x, y) ==
    /\ Op /\ {x, y} \subseteq Free /\ x < y
    /\ s' = i_EXG(s, x, y)
    /\ UNCHANGED frames

Next ==
    \/ \E mask \in Masks, size \in {2, 4} : SaveRegisters(mask, size)
    \/ RestoreRegisters
    \/ \E n \in N..(2 * N - 2), offs \in Offsets : Link(n, offs)
    \/ \E n \in N..(2 * N - 2) : Unlink(n)
    \/ \E d \in 0..(N - 1), size \in Sizes : Push(d, size)
    \/ \E x \in Regs : Pop(x)
    \/ \E x \in Regs, v \in Values : Load(x, v)
    \/ \E x, y \in Regs : Exchange(x, y)
Spec == Init /\ [][Next]_vars

-----------------------------------------------------------------------------
(* Properties *)
\* However bytes, words, longs and registers are pushed and popped, the stack
\* pointer stays even: a byte takes a word of the stack.  (areg_byteinc[])
StackEven == s.r[SP] % 2 = 0

\* What is popped is what was pushed, whatever the program did in between, and
\* the stack pointer is back where it was: after MOVEM the registers of the
\* mask, the stack pointer among them, after UNLK the frame register, even if
\* something is still pushed.  (genmovemle(), genmovemel(), i_LINK, i_UNLK)
Extended(v, size) == SignExtend(v % ValuesOf(size), size)
Restored(f) ==
    CASE f.kind = "movem" ->
           \A x \in Regs \ {SP} : s'.r[x] = IF x \in f.what THEN Extended(f.before[x], f.size) ELSE s.r[x]
      [] f.kind = "link"  -> \A x \in Regs \ {SP} : s'.r[x] = IF x = f.what THEN f.before[x] ELSE s.r[x]
      [] f.kind = "push"  ->
           \E x \in Regs \ {SP} :
               /\ (s'.r[x] - f.before[f.what]) % ValuesOf(f.size) = 0
               /\ x >= N => s'.r[x] = Extended(f.before[f.what], f.size)
               /\ \A y \in Regs \ {x, SP} : s'.r[y] = s.r[y]
PopStep ==
    Len(frames') < Len(frames) =>
        \E f \in {frames[Len(frames') + 1]} : s'.r[SP] = f.before[SP] /\ Restored(f)
PopRestores == [][PopStep]_vars

\* Registers lie in memory in one order, whichever way MOVEM goes.
\* (movem_index1[], movem_index2[])
LayoutsAgree ==
    \A mask \in Masks, size \in {2, 4} :
        s.r[SP] >= Cardinality(mask) * size =>
            LET down  == genmovemle(s, Word(mask, TRUE), size, "Apdi", SP)
                below == [s EXCEPT !.r[SP] = s.r[SP] - Cardinality(mask) * size]
            IN  SP \notin mask => down = genmovemle(below, Word(mask, FALSE), size, "Aind", SP)

\* MOVEP to memory and back gives a register its value, and leaves the bytes
\* between alone.  (i_MVPRM, i_MVPMR)
MovepReturns ==
    \A d \in 0..(N - 1), size \in {2, 4}, memp \in {0, 1} :
        LET t == i_MVPRM(s, d, memp, size)
        IN  /\ i_MVPMR([t EXCEPT !.r[d] = 0], memp, d, size).r[d] = s.r[d] % ValuesOf(size)
            /\ \A a \in DOMAIN s.m : (a - memp) % 2 = 1 => t.m[a] = s.m[a]
=============================================================================
