---------------------------- MODULE VparrayProofs -----------------------------
(***************************************************************************)
(* Vparray is the list of DynamicList, in memory that is bounded by the      *)
(* longest list kept, for every length of the list and every set of items.   *)
(*                                                                         *)
(* Halving does not always leave enough cells: three quarters of seven are   *)
(* three to vparray_pop_head(), and half of seven are three, so that four    *)
(* items remain for three cells.  No other length has this fault.  The       *)
(* theorems assume that an array never gets seven cells, which depends on    *)
(* the length it begins with alone (HalvesWell), and which is proved for     *)
(* every first length below seven, the default among them.                   *)
(***************************************************************************)
EXTENDS Vparray, SequenceTheorems, TLAPS

(* The lengths an array may come to: the first one and that of a flushed      *)
(* array, doubled and halved in any order.                                   *)
Closed(S) ==
  /\ FirstLength \in S /\ BASIC_LENGTH \in S
  /\ \A x \in S : 2 * x \in S /\ x \div 2 \in S

Sizes == {x \in Nat : \A S \in SUBSET Nat : Closed(S) => x \in S}

HalvesWell == 7 \notin Sizes

LEMMA SizesFacts ==
  ASSUME VparrayAssumption
  PROVE  /\ FirstLength \in Sizes /\ BASIC_LENGTH \in Sizes /\ FirstLength \in Nat
         /\ \A x \in Sizes : x \in Nat /\ 2 * x \in Sizes /\ x \div 2 \in Sizes
<1>1. FirstLength \in Nat /\ BASIC_LENGTH \in Nat
  BY DEF FirstLength, BASIC_LENGTH, VparrayAssumption
<1>2. FirstLength \in Sizes /\ BASIC_LENGTH \in Sizes BY <1>1 DEF Sizes, Closed
<1>3. ASSUME NEW x \in Sizes PROVE x \in Nat /\ 2 * x \in Sizes /\ x \div 2 \in Sizes
  <2>1. x \in Nat /\ 2 * x \in Nat /\ x \div 2 \in Nat BY DEF Sizes
  <2>2. ASSUME NEW S \in SUBSET Nat, Closed(S) PROVE 2 * x \in S /\ x \div 2 \in S
    BY <2>2 DEF Sizes, Closed
  <2> QED BY <2>1, <2>2 DEF Sizes
<1> QED BY <1>1, <1>2, <1>3

(* Doubling leads from lengths up to six to no odd length of seven or more,  *)
(* and halving not out of the lengths so reached.                           *)
Doubling(S) == {0, 1, 3, 5} \subseteq S /\ \A x \in S : 2 * x \in S

Doubled == {x \in Nat : \A S \in SUBSET Nat : Doubling(S) => x \in S}

LEMMA DoubledFacts ==
  /\ Doubling(Doubled) /\ Doubled \subseteq Nat /\ 7 \notin Doubled
  /\ \A x \in Doubled : x \div 2 \in Doubled
<1>1. {0, 1, 3, 5} \subseteq Doubled BY DEF Doubled, Doubling
<1>2. ASSUME NEW x \in Doubled PROVE 2 * x \in Doubled
  <2>1. x \in Nat /\ 2 * x \in Nat BY DEF Doubled
  <2>2. ASSUME NEW S \in SUBSET Nat, Doubling(S) PROVE 2 * x \in S
    BY <2>2 DEF Doubled, Doubling
  <2> QED BY <2>1, <2>2 DEF Doubled
<1>3. 7 \notin Doubled
  <2> DEFINE S == {x \in Nat : x # 7 /\ (x \in {1, 3, 5} \/ x % 2 = 0)}
  <2>1. S \in SUBSET Nat OBVIOUS
  <2>2. \A x \in Nat : (2 * x) % 2 = 0 /\ 2 * x # 7 /\ 2 * x \in Nat OBVIOUS
  <2>3. Doubling(S) BY <2>2 DEF Doubling
  <2>4. 7 \notin S OBVIOUS
  <2> QED BY <2>1, <2>3, <2>4 DEF Doubled
<1>4. ASSUME NEW x \in Doubled PROVE x \div 2 \in Doubled
  <2> DEFINE S == {y \in Doubled : y \div 2 \in Doubled}
  <2>1. S \in SUBSET Nat /\ Doubled \subseteq Nat BY DEF Doubled
  <2>2. 2 \in Doubled
    <3>1. 1 \in Doubled BY <1>1
    <3>2. 2 * 1 = 2 OBVIOUS
    <3> QED BY <1>2, <3>1, <3>2
  <2>3. {0, 1, 3, 5} \subseteq S
    <3>1. 0 \div 2 = 0 /\ 1 \div 2 = 0 /\ 3 \div 2 = 1 /\ 5 \div 2 = 2 OBVIOUS
    <3> QED BY <1>1, <2>2, <3>1
  <2>4. ASSUME NEW y \in S PROVE 2 * y \in S
    <3>1. y \in Doubled OBVIOUS
    <3>2. (2 * y) \div 2 = y BY <2>1, <3>1
    <3> QED BY <1>2, <3>1, <3>2
  <2>5. x \in S
    <3> HIDE DEF S
    <3> QED BY <2>1, <2>3, <2>4 DEF Doubled, Doubling
  <2> QED BY <2>5
<1> QED BY <1>1, <1>2, <1>3, <1>4 DEF Doubled, Doubling

THEOREM ShortBeginningsHalveWell ==
  ASSUME VparrayAssumption, InitialLength < 7 PROVE HalvesWell
<1>1. FirstLength \in {1, 2, 3, 4, 5, 6} BY DEF FirstLength, BASIC_LENGTH, VparrayAssumption
<1>2. {1, 2, 3, 4, 5, 6} \subseteq Doubled
  <2>1. 2 * 1 = 2 /\ 2 * 2 = 4 /\ 2 * 3 = 6 OBVIOUS
  <2>2. \A x \in Doubled : 2 * x \in Doubled BY DoubledFacts DEF Doubling
  <2>3. 1 \in Doubled /\ 3 \in Doubled /\ 5 \in Doubled BY DoubledFacts DEF Doubling
  <2>4. 2 \in Doubled BY <2>1, <2>2, <2>3
  <2>5. 4 \in Doubled /\ 6 \in Doubled BY <2>1, <2>2, <2>3, <2>4
  <2> QED BY <2>3, <2>4, <2>5
<1>3. Closed(Doubled)
  <2>1. \A x \in Doubled : 2 * x \in Doubled BY DoubledFacts DEF Doubling
  <2> QED BY <1>1, <1>2, <2>1, DoubledFacts DEF Closed, BASIC_LENGTH
<1> QED BY <1>3, DoubledFacts DEF HalvesWell, Sizes
-------------------------------------------------------------------------------
(* The inductive invariant.  A head that is not reclaimed is short of three   *)
(* quarters; only a list of three cells that grows may find it there.        *)
IsCells(cells) == cells = [i \in 0 .. Room - 1 |-> cells[i]]

Window ==
  /\ head \in Nat /\ tail \in Nat /\ head <= tail /\ tail - head <= MaxLen
  /\ tail <= allocated

Unspent(a, h) == a >= 5 => h < 3 * (a \div 4) \/ (a = 6 /\ h = 3)

Inv ==
  /\ Window /\ MemoryBounded
  /\ allocated \in Sizes /\ Unspent(allocated, head)
  /\ IsCells(l)

LEMMA BoundFacts ==
  ASSUME VparrayAssumption, MemoryBounded, allocated \in Nat
  PROVE  allocated < Room /\ Room \in Nat
BY DEF VparrayAssumption, MemoryBounded, Room, FirstLength, BASIC_LENGTH

LEMMA Quarters == ASSUME NEW a \in Nat PROVE \E k \in Nat, r \in 0 .. 3 : a = 4 * k + r
<1>1. PICK k \in Nat : k = a \div 4 OBVIOUS
<1>2. 4 * k <= a /\ a < 4 * k + 4 BY <1>1
<1>3. a - 4 * k \in 0 .. 3 /\ a = 4 * k + (a - 4 * k) BY <1>2
<1> QED BY <1>3

LEMMA HalfIsEnough ==
  ASSUME NEW a \in Nat, a >= 5, a # 7, NEW h \in Nat, NEW t \in Nat, t <= a, h <= t,
         h >= (a \div 4) * 3
  PROVE  t - h <= a \div 2
<1>1. PICK k \in Nat, r \in 0 .. 3 : a = 4 * k + r BY Quarters
<1>2. a \div 4 = k /\ a \div 2 = 2 * k + r \div 2 BY <1>1
<1>3. k >= 1 /\ (r = 3 => k >= 2) BY <1>1
<1>4. r \div 2 = IF r \in {0, 1} THEN 0 ELSE 1 BY <1>1
<1> QED BY <1>1, <1>2, <1>3, <1>4

LEMMA GrowthBounded ==
  ASSUME NEW a \in Nat, NEW h \in Nat, NEW m \in Nat, h <= a, a - h < m, Unspent(a, h)
  PROVE  2 * a <= 8 * m /\ 5 <= 8 * m /\ Unspent(2 * a, h)
<1>1. PICK k \in Nat, r \in 0 .. 3 : a = 4 * k + r BY Quarters
<1>2. a \div 4 = k /\ (2 * a) \div 4 = 2 * k + r \div 2 BY <1>1
<1>3. r \div 2 = IF r \in {0, 1} THEN 0 ELSE 1 BY <1>1
<1>4. m >= 1 OBVIOUS
<1>5. CASE a >= 5
  <2>1. h < 3 * k \/ (a = 6 /\ h = 3) BY <1>2, <1>5 DEF Unspent
  <2> QED BY <1>1, <1>2, <1>3, <1>4, <1>5, <2>1 DEF Unspent
<1>6. CASE a < 5 BY <1>1, <1>2, <1>3, <1>4, <1>6 DEF Unspent
<1> QED BY <1>5, <1>6
-------------------------------------------------------------------------------
(* n cells from the one with index h on. *)
Items(cells, h, n) == [i \in 1 .. n |-> cells[h + i - 1]]

LEMMA InvFacts ==
  ASSUME VparrayAssumption, Inv
  PROVE  /\ head \in Nat /\ tail \in Nat /\ allocated \in Nat /\ MaxLen \in Nat /\ Room \in Nat
         /\ head <= tail /\ tail - head <= MaxLen /\ tail <= allocated /\ allocated < Room
         /\ IsCells(l) /\ Valid = Items(l, head, tail - head)
<1>1. allocated \in Nat BY SizesFacts DEF Inv
<1>2. allocated < Room /\ Room \in Nat BY <1>1, BoundFacts DEF Inv
<1>3. Valid = Items(l, head, tail - head) BY DEF Valid, Items, vparray_len
<1> QED BY <1>1, <1>2, <1>3 DEF Inv, Window, VparrayAssumption

LEMMA InitInv == ASSUME VparrayAssumption, Init PROVE Inv
<1>1. head = 0 /\ tail = 0 /\ allocated = FirstLength /\ l = Cells(<<>>) BY DEF Init
<1>2. FirstLength \in Nat /\ FirstLength \in Sizes BY SizesFacts
<1>3. IsCells(l) BY <1>1 DEF IsCells, Cells
<1>4. Window BY <1>1, <1>2 DEF Window, VparrayAssumption
<1>5. MemoryBounded BY <1>1, <1>2 DEF MemoryBounded
<1>6. Unspent(allocated, head)
  <2>1. PICK a \in Nat : a = FirstLength BY <1>2
  <2>2. a >= 5 => 0 < 3 * (a \div 4) OBVIOUS
  <2> QED BY <1>1, <2>1, <2>2 DEF Unspent
<1> QED BY <1>1, <1>2, <1>3, <1>4, <1>5, <1>6 DEF Inv

(* The items go to the front of a smaller array. *)
LEMMA ShrunkInv ==
  ASSUME VparrayAssumption, Inv, NEW h \in Nat, NEW t \in Nat, h <= t, t - h <= MaxLen,
         NEW cells, NEW size \in Sizes, t - h <= size, size <= allocated, Shrunk(h, t, cells, size)
  PROVE  Inv' /\ Valid' = Items(cells, h, t - h)
<1>1. head' = 0 /\ tail' = t - h /\ allocated' = size BY DEF Shrunk
<1>2. PICK n \in Nat : n = t - h OBVIOUS
<1>3. PICK items : items = [i \in 1 .. n |-> cells[h + i - 1]] OBVIOUS
<1>4. l' = Cells(items) BY <1>2, <1>3 DEF Shrunk
<1>5. size \in Nat BY SizesFacts
<1>6. PICK a \in Nat : a = size BY <1>5
<1>7. n < Room /\ Room \in Nat
  <2>1. n <= allocated /\ allocated \in Nat BY <1>2, <1>5, InvFacts
  <2> QED BY <2>1, InvFacts
<1>8. Window'
  <2>1. n <= a /\ n <= MaxLen BY <1>2, <1>6
  <2>2. 0 <= n /\ n - 0 = n /\ 0 \in Nat BY <1>2
  <2> QED BY <1>1, <1>2, <1>6, <2>1, <2>2 DEF Window
<1>9. MemoryBounded'
  <2>1. PICK c \in {8 * MaxLen, FirstLength, BASIC_LENGTH} : allocated <= c
    BY DEF Inv, MemoryBounded
  <2>2. c \in Nat /\ allocated \in Nat
    BY InvFacts, SizesFacts DEF BASIC_LENGTH
  <2>3. a <= c BY <1>6, <2>1, <2>2
  <2> QED BY <1>1, <1>6, <2>1, <2>3 DEF MemoryBounded
<1>10. Unspent(allocated', head')
  <2>1. a >= 5 => 0 < 3 * (a \div 4) OBVIOUS
  <2> QED BY <1>1, <1>6, <2>1 DEF Unspent
<1>11. IsCells(l') BY <1>4 DEF IsCells, Cells
<1>12. Len(items) = n BY <1>3
<1>13. ASSUME NEW i \in 1 .. n PROVE l'[i - 1] = cells[h + i - 1]
  <2>1. i - 1 \in 0 .. Room - 1 /\ i - 1 < n /\ (i - 1) + 1 = i BY <1>7
  <2>2. l'[i - 1] = items[(i - 1) + 1] BY <1>4, <1>12, <2>1 DEF Cells
  <2> QED BY <1>3, <2>1, <2>2
<1>14. Valid' = Items(cells, h, t - h)
  <2>1. Valid' = [i \in 1 .. n |-> l'[0 + i - 1]] BY <1>1, <1>2 DEF Valid, vparray_len
  <2>2. \A i \in 1 .. n : 0 + i - 1 = i - 1 OBVIOUS
  <2> QED BY <1>2, <1>13, <2>1, <2>2 DEF Items
<1> QED BY <1>1, <1>8, <1>9, <1>10, <1>11, <1>14 DEF Inv

(* The items stay where they are, and so does the array. *)
LEMMA StillInv ==
  ASSUME VparrayAssumption, Inv, NEW h \in Nat, NEW t \in Nat, h <= t, t - h <= MaxLen, t <= allocated,
         NEW cells, IsCells(cells), Unspent(allocated, h),
         head' = h, tail' = t, l' = cells, UNCHANGED allocated
  PROVE  Inv' /\ Valid' = Items(cells, h, t - h)
<1>1. Valid' = Items(cells, h, t - h) BY DEF Valid, vparray_len, Items
<1>2. Inv' BY DEF Inv, Window, MemoryBounded
<1> QED BY <1>1, <1>2
-------------------------------------------------------------------------------
(* What the items are as a sequence. *)
Reads(s, cells, h, n) ==
  /\ \E S : s \in Seq(S)
  /\ Len(s) = n
  /\ \A i \in 1 .. n : s[i] = cells[h + i - 1]

LEMMA ItemsRead ==
  ASSUME NEW cells, NEW h \in Nat, NEW n \in Nat PROVE Reads(Items(cells, h, n), cells, h, n)
<1> DEFINE S == {cells[h + i - 1] : i \in 1 .. n}
           s == Items(cells, h, n)
<1>1. s \in [1 .. n -> S] BY DEF Items
<1>2. \A i \in 1 .. n : s[i] = cells[h + i - 1] BY DEF Items
<1> HIDE DEF S, s
<1>3. s \in Seq(S) BY <1>1
<1>4. Len(s) = n BY <1>1
<1>5. Reads(s, cells, h, n) BY <1>2, <1>3, <1>4 DEF Reads
<1> QED BY <1>5 DEF s

LEMMA ReadItems ==
  ASSUME NEW cells, NEW h \in Nat, NEW n \in Nat, NEW s, Reads(s, cells, h, n)
  PROVE  s = Items(cells, h, n)
<1>1. PICK S : s \in Seq(S) BY DEF Reads
<1>2. Len(s) = n /\ \A i \in 1 .. n : s[i] = cells[h + i - 1] BY DEF Reads
<1>3. s = [i \in 1 .. n |-> s[i]] BY <1>1, <1>2
<1> QED BY <1>2, <1>3 DEF Items

LEMMA EmptyItems ==
  ASSUME NEW cells, NEW h \in Nat, NEW n \in Nat, NEW s, Reads(s, cells, h, n)
  PROVE  s = <<>> <=> n = 0
<1>1. PICK S : s \in Seq(S) BY DEF Reads
<1>2. Len(s) = n BY DEF Reads
<1> QED BY <1>1, <1>2, EmptySeq

LEMMA ItemsTail ==
  ASSUME NEW cells, NEW h \in Nat, NEW n \in Nat, n # 0, NEW s, Reads(s, cells, h, n)
  PROVE  Head(s) = cells[h] /\ Reads(Tail(s), cells, h + 1, n - 1)
<1>1. PICK S : s \in Seq(S) BY DEF Reads
<1>2. Len(s) = n /\ \A i \in 1 .. n : s[i] = cells[h + i - 1] BY DEF Reads
<1>3. s # <<>> BY EmptyItems
<1>4. Head(s) = s[1] /\ s[1] = cells[h]
  <2>1. 1 \in 1 .. n /\ h + 1 - 1 = h OBVIOUS
  <2>2. s[1] = cells[h] BY <1>2, <2>1
  <2> QED BY <1>1, <1>3, <2>2, HeadTailProperties
<1>5. PICK t : t = Tail(s) OBVIOUS
<1>6. t \in Seq(S) /\ Len(t) = n - 1 /\ \A i \in 1 .. n - 1 : t[i] = s[i + 1]
  BY <1>1, <1>2, <1>3, <1>5, HeadTailProperties
<1>7. ASSUME NEW i \in 1 .. n - 1 PROVE t[i] = cells[(h + 1) + i - 1]
  <2>1. i + 1 \in 1 .. n /\ h + (i + 1) - 1 = (h + 1) + i - 1 OBVIOUS
  <2>2. s[i + 1] = cells[h + (i + 1) - 1] BY <1>2, <2>1
  <2> QED BY <1>6, <2>1, <2>2
<1>8. Reads(t, cells, h + 1, n - 1) BY <1>6, <1>7 DEF Reads
<1> QED BY <1>4, <1>5, <1>8

(* All but the last item, from cells that agree on them. *)
SameBut(cells, other, h, n) == \A i \in 1 .. n - 1 : other[h + i - 1] = cells[h + i - 1]

LEMMA ItemsFront ==
  ASSUME NEW cells, NEW other, NEW h \in Nat, NEW n \in Nat, n # 0, NEW s, Reads(s, cells, h, n),
         SameBut(cells, other, h, n)
  PROVE  Reads(Front(s), other, h, n - 1)
<1>1. PICK S : s \in Seq(S) BY DEF Reads
<1>2. Len(s) = n /\ \A i \in 1 .. n : s[i] = cells[h + i - 1] BY DEF Reads
<1>3. PICK f : f = SubSeq(s, 1, n - 1) OBVIOUS
<1>4. f \in Seq(S) /\ Len(f) = n - 1 /\ \A i \in 1 .. n - 1 : f[i] = s[i]
  <2>1. 1 \in 1 .. n + 1 /\ n - 1 \in 1 - 1 .. n OBVIOUS
  <2>2. f = [i \in 1 .. n - 1 |-> s[i]]
    BY <1>1, <1>2, <1>3
  <2>3. \A i \in 1 .. n - 1 : s[i] \in S BY <1>1, <1>2
  <2> QED BY <2>2, <2>3
<1>5. ASSUME NEW i \in 1 .. n - 1 PROVE f[i] = other[h + i - 1]
  BY <1>2, <1>4 DEF SameBut
<1>6. Reads(f, other, h, n - 1) BY <1>4, <1>5 DEF Reads
<1>7. Front(s) = f BY <1>2, <1>3 DEF Front
<1> QED BY <1>6, <1>7

LEMMA ItemsAppend ==
  ASSUME NEW cells, IsCells(cells), NEW h \in Nat, NEW n \in Nat, h + n < Room, Room \in Nat, NEW x,
         NEW s, Reads(s, cells, h, n)
  PROVE  Reads(Append(s, x), [cells EXCEPT ![h + n] = x], h, n + 1)
<1>1. PICK S : s \in Seq(S) BY DEF Reads
<1>2. PICK U : s \in Seq(U) /\ x \in U
  <2>1. s \in Seq(S \cup {x}) BY <1>1
  <2> QED BY <2>1
<1>3. Len(s) = n /\ \A i \in 1 .. n : s[i] = cells[h + i - 1] BY DEF Reads
<1>4. PICK t : t = Append(s, x) OBVIOUS
<1>5. t \in Seq(U) /\ Len(t) = n + 1 /\ t[n + 1] = x /\ \A i \in 1 .. n : t[i] = s[i]
  BY <1>2, <1>3, <1>4, AppendProperties
<1>6. PICK c : c = [cells EXCEPT ![h + n] = x] OBVIOUS
<1>7. ASSUME NEW i \in 1 .. n + 1 PROVE t[i] = c[h + i - 1]
  <2>1. h + i - 1 \in 0 .. Room - 1 OBVIOUS
  <2>2. c[h + i - 1] = IF h + i - 1 = h + n THEN x ELSE cells[h + i - 1]
    BY <1>6, <2>1 DEF IsCells
  <2>3. CASE i = n + 1 BY <1>5, <2>2, <2>3
  <2>4. CASE i # n + 1
    <3>1. i \in 1 .. n /\ h + i - 1 # h + n BY <2>4
    <3> QED BY <1>3, <1>5, <2>2, <3>1
  <2> QED BY <2>3, <2>4
<1>8. Reads(t, c, h, n + 1) BY <1>5, <1>7 DEF Reads
<1> QED BY <1>4, <1>6, <1>8
-------------------------------------------------------------------------------
LEMMA ValidReads ==
  ASSUME VparrayAssumption, Inv, NEW n \in Nat, n = tail - head
  PROVE  Reads(Valid, l, head, n)
<1>1. Valid = Items(l, head, n) /\ head \in Nat BY InvFacts
<1> QED BY <1>1, ItemsRead

(* Cells of which n agree hold the same n items. *)
LEMMA ItemsAgree ==
  ASSUME NEW cells, NEW other, NEW h \in Nat, NEW n \in Nat, SameBut(cells, other, h, n + 1)
  PROVE  Items(cells, h, n) = Items(other, h, n)
<1>1. \A i \in 1 .. n : other[h + i - 1] = cells[h + i - 1]
  <2>1. (n + 1) - 1 = n OBVIOUS
  <2> QED BY <2>1 DEF SameBut
<1> QED BY <1>1 DEF Items

LEMMA CellChanged ==
  ASSUME NEW cells, IsCells(cells), NEW j, NEW x
  PROVE  IsCells([cells EXCEPT ![j] = x])
BY DEF IsCells

LEMMA GrownInv ==
  ASSUME VparrayAssumption, Inv, vparray_len < MaxLen
  PROVE  /\ Grown(tail) \in Sizes /\ tail + 1 <= Grown(tail)
         /\ \E cells \in {8 * MaxLen, FirstLength, BASIC_LENGTH} : Grown(tail) <= cells
         /\ Unspent(Grown(tail), head)
<1>1. PICK a \in Nat, h \in Nat, m \in Nat : a = allocated /\ h = head /\ m = MaxLen BY InvFacts
<1>2. PICK t \in Nat : t = tail /\ h <= t /\ t <= a /\ t - h < m
  BY <1>1, InvFacts DEF vparray_len
<1>3. a \in Sizes /\ Unspent(a, h) BY <1>1 DEF Inv
<1>4. CASE t # a
  <2>1. Grown(tail) = a BY <1>1, <1>2, <1>4 DEF Grown
  <2>2. t + 1 <= a BY <1>2, <1>4
  <2>3. \E cells \in {8 * MaxLen, FirstLength, BASIC_LENGTH} : a <= cells
    BY <1>1 DEF Inv, MemoryBounded
  <2> QED BY <1>1, <1>2, <1>3, <2>1, <2>2, <2>3
<1>5. CASE t = a /\ a = 0
  <2>1. Grown(tail) = 5 BY <1>1, <1>2, <1>5 DEF Grown, BASIC_LENGTH
  <2>2. 5 \in Sizes BY SizesFacts DEF BASIC_LENGTH
  <2>3. 5 <= BASIC_LENGTH BY DEF BASIC_LENGTH
  <2>4. h = 0 /\ t + 1 <= 5 BY <1>2, <1>5
  <2>5. Unspent(5, h)
    <3>1. 5 \div 4 = 1 OBVIOUS
    <3> QED BY <2>4, <3>1 DEF Unspent
  <2> QED BY <1>1, <1>2, <2>1, <2>2, <2>3, <2>4, <2>5
<1>6. CASE t = a /\ a # 0
  <2>1. Grown(tail) = 2 * a BY <1>1, <1>2, <1>6 DEF Grown
  <2>2. 2 * a \in Sizes BY <1>3, SizesFacts
  <2>3. 2 * a <= 8 * m /\ Unspent(2 * a, h) BY <1>2, <1>3, <1>6, GrowthBounded
  <2>4. t + 1 <= 2 * a BY <1>6
  <2> QED BY <1>1, <1>2, <2>1, <2>2, <2>3, <2>4
<1> QED BY <1>4, <1>5, <1>6

LEMMA AppendStep ==
  ASSUME VparrayAssumption, Inv, NEW x \in Item, vparray_append(x)
  PROVE  Inv' /\ List!Append_(x)
<1>1. PICK h \in Nat, t \in Nat, n \in Nat, m \in Nat :
        h = head /\ t = tail /\ n = t - h /\ m = MaxLen /\ h <= t
  BY InvFacts
<1>2. n < m /\ vparray_len = n BY <1>1 DEF vparray_append, vparray_len
<1>3. head' = h /\ tail' = t + 1 /\ allocated' = Grown(tail) /\ l' = [l EXCEPT ![t] = x]
      /\ found' = found
  BY <1>1 DEF vparray_append
<1>4. IsCells(l') BY <1>3, CellChanged, InvFacts
<1>5. Window'
  <2>1. (t + 1) - h <= m /\ h <= t + 1 /\ t + 1 \in Nat BY <1>1, <1>2
  <2>2. t + 1 <= Grown(tail) BY <1>1, <1>2, GrownInv
  <2> QED BY <1>1, <1>3, <2>1, <2>2 DEF Window
<1>6. Grown(tail) \in Sizes /\ Unspent(Grown(tail), h) BY <1>1, <1>2, GrownInv
<1>7. MemoryBounded'
  <2>1. \E cells \in {8 * MaxLen, FirstLength, BASIC_LENGTH} : Grown(tail) <= cells
    BY <1>1, <1>2, GrownInv
  <2> QED BY <1>3, <2>1 DEF MemoryBounded
<1>8. Reads(Valid, l, h, n) BY <1>1, ValidReads
<1>9. h + n = t /\ h + n < Room /\ Room \in Nat BY <1>1, InvFacts
<1>10. Reads(Append(Valid, x), l', h, n + 1)
  <2>1. Reads(Append(Valid, x), [l EXCEPT ![h + n] = x], h, n + 1)
    BY <1>8, <1>9, ItemsAppend, InvFacts
  <2> QED BY <1>3, <1>9, <2>1
<1>11. Valid' = Append(Valid, x)
  <2>1. PICK k \in Nat : k = n + 1 OBVIOUS
  <2>2. Append(Valid, x) = Items(l', h, k) BY <1>10, <2>1, ReadItems
  <2>3. tail' - head' = k BY <1>1, <1>3, <2>1
  <2>4. Valid' = Items(l', h, k) BY <1>3, <2>3 DEF Valid, vparray_len, Items
  <2> QED BY <2>2, <2>4
<1>12. Len(Valid) < MaxLen BY <1>1, <1>2, <1>8 DEF Reads
<1> QED BY <1>3, <1>4, <1>5, <1>6, <1>7, <1>11, <1>12 DEF Inv, List!Append_

LEMMA PopHeadStep ==
  ASSUME VparrayAssumption, HalvesWell, Inv, vparray_pop_head
  PROVE  Inv' /\ List!PopHead
<1>1. PICK h \in Nat, t \in Nat, n \in Nat, a \in Nat :
        h = head /\ t = tail /\ n = t - h /\ a = allocated /\ h <= t /\ t <= a /\ n <= MaxLen
  BY InvFacts
<1>2. PICK g \in Nat, k \in Nat :
        g = h + 1 /\ k = n - 1 /\ n # 0 /\ g <= t /\ t - g = k /\ n = k + 1 /\ k <= MaxLen
  <2>1. h # t BY <1>1 DEF vparray_pop_head
  <2>2. MaxLen \in Nat BY InvFacts
  <2> QED BY <1>1, <2>1, <2>2
<1>3. PICK c : c = [l EXCEPT ![h] = Stale] OBVIOUS
<1>4. found' = l[h] /\ Kept(g, t, c, g >= (a \div 4) * 3)
  BY <1>1, <1>2, <1>3 DEF vparray_pop_head
<1>5. IsCells(c) BY <1>3, CellChanged, InvFacts
<1>6. Reads(Valid, l, h, n) BY <1>1, ValidReads
<1>7. Valid # <<>> BY <1>2, <1>6, EmptyItems
<1>8. Head(Valid) = l[h] /\ Reads(Tail(Valid), l, g, k)
  BY <1>2, <1>6, ItemsTail
<1>9. Tail(Valid) = Items(c, g, k)
  <2>1. SameBut(l, c, g, k + 1)
    <3>1. ASSUME NEW i \in 1 .. k PROVE c[g + i - 1] = l[g + i - 1]
      <4>1. g + i - 1 # h /\ g + i - 1 \in 0 .. Room - 1
        <5>1. g + i - 1 < t /\ g + i - 1 >= 0 /\ g + i - 1 \in Int BY <1>2
        <5>2. t < Room /\ Room \in Nat BY <1>1, InvFacts
        <5> QED BY <1>2, <5>1, <5>2
      <4> QED BY <1>3, <4>1, InvFacts DEF IsCells
    <3>2. (k + 1) - 1 = k OBVIOUS
    <3> QED BY <3>1, <3>2 DEF SameBut
  <2>2. Tail(Valid) = Items(l, g, k) BY <1>8, ReadItems
  <2> QED BY <2>1, <2>2, ItemsAgree
<1>10. Inv' /\ Valid' = Items(c, g, t - g)
  <2>1. CASE a >= 5 /\ g >= (a \div 4) * 3
    <3>1. Shrunk(g, t, c, a \div 2) BY <1>1, <1>4, <2>1 DEF Kept, BASIC_LENGTH
    <3>2. a \in Sizes /\ a # 7 BY <1>1 DEF Inv, HalvesWell
    <3>3. PICK s \in Nat : s = a \div 2 /\ s <= a OBVIOUS
    <3>4. s \in Sizes BY <3>2, <3>3, SizesFacts
    <3>5. t - g <= s BY <1>1, <1>2, <2>1, <3>2, <3>3, HalfIsEnough
    <3>6. t - g <= MaxLen BY <1>2
    <3> QED BY <1>1, <1>2, <3>1, <3>3, <3>4, <3>5, <3>6, ShrunkInv
  <2>2. CASE ~(a >= 5 /\ g >= (a \div 4) * 3)
    <3>1. head' = g /\ tail' = t /\ l' = c /\ UNCHANGED allocated
      BY <1>1, <1>4, <2>2 DEF Kept, BASIC_LENGTH
    <3>2. Unspent(allocated, g)
      <4>1. PICK q \in Nat : q = a \div 4 OBVIOUS
      <4>2. a >= 5 => g < 3 * q BY <2>2, <4>1
      <4> QED BY <1>1, <4>1, <4>2 DEF Unspent
    <3>3. t - g <= MaxLen /\ t <= allocated BY <1>1, <1>2
    <3> QED BY <1>2, <1>5, <3>1, <3>2, <3>3, StillInv
  <2> QED BY <2>1, <2>2
<1> QED BY <1>2, <1>4, <1>7, <1>8, <1>9, <1>10 DEF List!PopHead

LEMMA WithoutTailStep ==
  ASSUME VparrayAssumption, Inv, head # tail, NEW cells, IsCells(cells), WithoutTail(cells),
         NEW k \in Nat, k = (tail - head) - 1
  PROVE  Inv' /\ Valid' = Items(cells, head, k)
<1>1. PICK h \in Nat, t \in Nat, n \in Nat, a \in Nat :
        h = head /\ t = tail /\ n = t - h /\ a = allocated /\ h <= t /\ t <= a /\ n <= MaxLen
  BY InvFacts
<1>2. PICK u \in Nat : u = t - 1 /\ h <= u /\ u <= a /\ u - h = k /\ k <= MaxLen
  <2>1. MaxLen \in Nat BY InvFacts
  <2> QED BY <1>1, <2>1
<1>3. PICK c : c = [cells EXCEPT ![u] = Stale] OBVIOUS
<1>4. IsCells(c) BY <1>3, CellChanged
<1>5. Kept(h, u, c, SmallTail(u)) BY <1>1, <1>2, <1>3 DEF WithoutTail
<1>6. Items(c, h, k) = Items(cells, h, k)
  <2>1. SameBut(cells, c, h, k + 1)
    <3>1. ASSUME NEW i \in 1 .. k PROVE c[h + i - 1] = cells[h + i - 1]
      <4>1. h + i - 1 # u /\ h + i - 1 \in 0 .. Room - 1
        <5>1. h + i - 1 < u /\ h + i - 1 >= 0 /\ h + i - 1 \in Int BY <1>2
        <5>2. u < Room /\ Room \in Nat BY <1>1, <1>2, InvFacts
        <5> QED BY <5>1, <5>2
      <4> QED BY <1>3, <4>1 DEF IsCells
    <3>2. (k + 1) - 1 = k OBVIOUS
    <3> QED BY <3>1, <3>2 DEF SameBut
  <2> QED BY <2>1, ItemsAgree
<1>7. Inv' /\ Valid' = Items(c, h, u - h)
  <2>1. CASE a >= 5 /\ SmallTail(u)
    <3>1. Shrunk(h, u, c, a \div 2) BY <1>1, <1>5, <2>1 DEF Kept, BASIC_LENGTH
    <3>2. PICK s \in Nat : s = a \div 2 /\ s <= a /\ a \div 4 <= s OBVIOUS
    <3>3. s \in Sizes BY <1>1, <3>2, SizesFacts DEF Inv
    <3>4. u - h <= s
      <4>1. PICK q \in Nat : q = a \div 4 OBVIOUS
      <4>2. u < q BY <1>1, <2>1, <4>1 DEF SmallTail
      <4> QED BY <3>2, <4>1, <4>2
    <3>5. u - h <= MaxLen BY <1>2
    <3> QED BY <1>1, <1>2, <3>1, <3>2, <3>3, <3>4, <3>5, ShrunkInv
  <2>2. CASE ~(a >= 5 /\ SmallTail(u))
    <3>1. head' = h /\ tail' = u /\ l' = c /\ UNCHANGED allocated
      BY <1>1, <1>5, <2>2 DEF Kept, BASIC_LENGTH
    <3>2. Unspent(allocated, h) BY <1>1 DEF Inv
    <3>3. u - h <= MaxLen /\ u <= allocated BY <1>1, <1>2
    <3> QED BY <1>2, <1>4, <3>1, <3>2, <3>3, StillInv
  <2> QED BY <2>1, <2>2
<1> QED BY <1>1, <1>2, <1>6, <1>7

LEMMA PopTailStep ==
  ASSUME VparrayAssumption, Inv, vparray_pop_tail
  PROVE  Inv' /\ List!PopTail
<1>1. PICK h \in Nat, n \in Nat : h = head /\ n = tail - head BY InvFacts
<1>2. head # tail /\ WithoutTail(l) /\ found' = found BY DEF vparray_pop_tail
<1>3. PICK k \in Nat : k = n - 1 /\ n # 0
  <2>1. n # 0 BY <1>1, <1>2, InvFacts
  <2> QED BY <2>1
<1>4. Reads(Valid, l, h, n) BY <1>1, ValidReads
<1>5. Valid # <<>> BY <1>3, <1>4, EmptyItems
<1>6. Inv' /\ Valid' = Items(l, h, k)
  <2>1. k = (tail - head) - 1 BY <1>1, <1>3
  <2> QED BY <1>1, <1>2, <2>1, WithoutTailStep, InvFacts
<1>7. Front(Valid) = Items(l, h, k)
  <2>1. SameBut(l, l, h, n) BY DEF SameBut
  <2>2. Reads(Front(Valid), l, h, k) BY <1>3, <1>4, <2>1, ItemsFront
  <2> QED BY <2>2, ReadItems
<1> QED BY <1>2, <1>5, <1>6, <1>7 DEF List!PopTail, List!Front, Front

LEMMA RemoveStep ==
  ASSUME VparrayAssumption, Inv, NEW i \in 0 .. MaxLen - 1, vparray_remove(i)
  PROVE  Inv' /\ List!RemoveAt_(i)
<1>1. PICK h \in Nat, t \in Nat, n \in Nat : h = head /\ t = tail /\ n = t - h /\ h <= t BY InvFacts
<1>2. PICK c : c = [l EXCEPT ![h + i] = l[t - 1]] OBVIOUS
<1>3. i \in Nat /\ i < n /\ WithoutTail(c) /\ found' = found
  <2>1. MaxLen \in Nat BY InvFacts
  <2> QED BY <1>1, <1>2, <2>1 DEF vparray_remove, vparray_len
<1>4. PICK k \in Nat, j \in Nat : k = n - 1 /\ n # 0 /\ j = i + 1 /\ j \in 1 .. n BY <1>3
<1>5. IsCells(c) BY <1>2, CellChanged, InvFacts
<1>6. Inv' /\ Valid' = Items(c, h, k)
  <2>1. k = (tail - head) - 1 /\ head # tail BY <1>1, <1>4
  <2> QED BY <1>1, <1>3, <1>5, <2>1, WithoutTailStep
<1>7. Reads(Valid, l, h, n) BY <1>1, ValidReads
<1>8. PICK s : s = [Valid EXCEPT ![j] = Last(Valid)] OBVIOUS
<1>9. Reads(s, c, h, n)
  <2>1. PICK S : Valid \in Seq(S) BY <1>7 DEF Reads
  <2>2. Len(Valid) = n /\ \A m \in 1 .. n : Valid[m] = l[h + m - 1] BY <1>7 DEF Reads
  <2>3. Last(Valid) = l[t - 1] /\ Last(Valid) \in S
    <3>1. n \in 1 .. n /\ h + n - 1 = t - 1 BY <1>1, <1>4
    <3>2. Last(Valid) = Valid[n] BY <2>2 DEF Last
    <3> QED BY <2>1, <2>2, <3>1, <3>2
  <2>4. s \in Seq(S) /\ Len(s) = n BY <1>4, <1>8, <2>1, <2>2, <2>3
  <2>5. ASSUME NEW m \in 1 .. n PROVE s[m] = c[h + m - 1]
    <3>1. s[m] = IF m = j THEN Last(Valid) ELSE Valid[m] BY <1>8, <2>1, <2>2
    <3>2. h + m - 1 \in 0 .. Room - 1
      <4>1. h + m - 1 < t /\ h + m - 1 >= 0 /\ h + m - 1 \in Int BY <1>1
      <4>2. t < Room /\ Room \in Nat BY <1>1, InvFacts
      <4> QED BY <4>1, <4>2
    <3>3. c[h + m - 1] = IF h + m - 1 = h + i THEN l[t - 1] ELSE l[h + m - 1]
      BY <1>2, <3>2, InvFacts DEF IsCells
    <3>4. h + m - 1 = h + i <=> m = j BY <1>3, <1>4
    <3> QED BY <2>2, <2>3, <3>1, <3>3, <3>4
  <2> QED BY <2>4, <2>5 DEF Reads
<1>10. Front(s) = Items(c, h, k)
  <2>1. SameBut(c, c, h, n) BY DEF SameBut
  <2>2. Reads(Front(s), c, h, k) BY <1>4, <1>9, <2>1, ItemsFront
  <2> QED BY <2>2, ReadItems
<1>11. i < Len(Valid) BY <1>3, <1>7 DEF Reads
<1> QED BY <1>3, <1>4, <1>6, <1>8, <1>10, <1>11
     DEF List!RemoveAt_, List!Front, Front, List!Last, Last

(* The items stay as they are. *)
LEMMA NothingMoves ==
  ASSUME VparrayAssumption, Inv, UNCHANGED <<head, tail, allocated, l>>
  PROVE  Inv' /\ Valid' = Valid
BY DEF Inv, Window, MemoryBounded, Valid, vparray_len

LEMMA FlushStep ==
  ASSUME VparrayAssumption, Inv, vparray_flush
  PROVE  Inv' /\ List!Flush
<1>1. PICK a \in Nat : a = allocated BY InvFacts
<1>2. MaxLen \in Nat BY InvFacts
<1>3. found' = found BY DEF vparray_flush
<1>4. \E cells : Inv' /\ Valid' = Items(cells, 0, 0 - 0)
  <2>1. CASE a >= 10
    <3>1. Shrunk(0, 0, l, 5) BY <1>1, <2>1 DEF vparray_flush, BASIC_LENGTH
    <3>2. 5 \in Sizes BY SizesFacts DEF BASIC_LENGTH
    <3>3. 0 - 0 <= 5 /\ 5 <= allocated /\ 0 - 0 <= MaxLen /\ 0 <= 0 BY <1>1, <1>2, <2>1
    <3> QED BY <3>1, <3>2, <3>3, ShrunkInv
  <2>2. CASE ~(a >= 10)
    <3>1. head' = 0 /\ tail' = 0 /\ l' = Cells(<<>>) /\ UNCHANGED allocated
      BY <1>1, <2>2 DEF vparray_flush, BASIC_LENGTH
    <3>2. IsCells(Cells(<<>>)) BY DEF IsCells, Cells
    <3>3. Unspent(allocated, 0)
      <4>1. a >= 5 => 0 < 3 * (a \div 4) OBVIOUS
      <4> QED BY <1>1, <4>1 DEF Unspent
    <3>4. 0 - 0 <= MaxLen /\ 0 <= allocated /\ 0 <= 0 BY <1>1, <1>2
    <3> QED BY <3>1, <3>2, <3>3, <3>4, StillInv
  <2> QED BY <2>1, <2>2
<1>5. PICK cells : Inv' /\ Valid' = Items(cells, 0, 0 - 0) BY <1>4
<1>6. Items(cells, 0, 0) = <<>>
  <2>1. Reads(Items(cells, 0, 0), cells, 0, 0) BY ItemsRead
  <2> QED BY <2>1, EmptyItems
<1>7. 0 - 0 = 0 OBVIOUS
<1> QED BY <1>3, <1>5, <1>6, <1>7 DEF List!Flush

LEMMA SearchStep ==
  ASSUME VparrayAssumption, Inv, NEW x \in Item, vparray_search(x)
  PROVE  Inv' /\ List!Search(x)
<1>1. Inv' /\ Valid' = Valid BY NothingMoves DEF vparray_search
<1> QED BY <1>1 DEF vparray_search, List!Search, List!Contains, Contains, List!Min, Min

LEMMA SortStep ==
  ASSUME VparrayAssumption, Inv, vparray_sort
  PROVE  Inv' /\ List!Sort
<1>1. PICK h \in Nat, t \in Nat, n \in Nat : h = head /\ t = tail /\ n = t - h /\ h <= t BY InvFacts
<1>2. vparray_len = n BY <1>1 DEF vparray_len
<1>3. PICK p \in Permutations(1 .. n) :
        LET sorted == [i \in 1 .. n |-> Valid[p[i]]]
        IN /\ \A i, j \in 1 .. n : i < j => sorted[i] <= sorted[j]
           /\ l' = [i \in DOMAIN l |-> IF i \in h .. t - 1 THEN sorted[i - h + 1] ELSE l[i]]
           /\ UNCHANGED <<head, tail, allocated, found, last>>
  BY <1>1, <1>2 DEF vparray_sort
<1>4. PICK s : s = [i \in 1 .. n |-> Valid[p[i]]] OBVIOUS
<1>5. /\ \A i, j \in 1 .. n : i < j => s[i] <= s[j]
      /\ l' = [i \in DOMAIN l |-> IF i \in h .. t - 1 THEN s[i - h + 1] ELSE l[i]]
      /\ UNCHANGED <<head, tail, allocated, found, last>>
  BY <1>3, <1>4
<1>6. IsCells(l')
  <2>1. DOMAIN l = 0 .. Room - 1 BY InvFacts DEF IsCells
  <2> QED BY <1>5, <2>1 DEF IsCells
<1>7. Inv' BY <1>5, <1>6 DEF Inv, Window, MemoryBounded
<1>8. Valid' = s
  <2>1. Valid' = [i \in 1 .. n |-> l'[h + i - 1]] BY <1>1, <1>5 DEF Valid, vparray_len
  <2>2. ASSUME NEW i \in 1 .. n PROVE l'[h + i - 1] = s[i]
    <3>1. h + i - 1 \in h .. t - 1 /\ (h + i - 1) - h + 1 = i BY <1>1
    <3>2. h + i - 1 \in DOMAIN l
      <4>1. h + i - 1 < t /\ h + i - 1 >= 0 /\ h + i - 1 \in Int BY <1>1
      <4>2. t < Room /\ Room \in Nat BY <1>1, InvFacts
      <4>3. DOMAIN l = 0 .. Room - 1 BY InvFacts DEF IsCells
      <4> QED BY <4>1, <4>2, <4>3
    <3> QED BY <1>5, <3>1, <3>2
  <2> QED BY <1>4, <2>1, <2>2
<1>9. Len(Valid) = n
  <2>1. Reads(Valid, l, h, n) BY <1>1, ValidReads
  <2> QED BY <2>1 DEF Reads
<1> QED BY <1>4, <1>5, <1>7, <1>8, <1>9 DEF List!Sort
-------------------------------------------------------------------------------
LEMMA NextStep ==
  ASSUME VparrayAssumption, HalvesWell, Inv, [Next]_vars
  PROVE  Inv' /\ [List!Next]_(List!vars)
<1>1. ASSUME NEW x \in Item, vparray_append(x) PROVE Inv' /\ List!Next
  BY <1>1, AppendStep DEF List!Next
<1>2. ASSUME NEW x \in Item, vparray_search(x) PROVE Inv' /\ List!Next
  BY <1>2, SearchStep DEF List!Next
<1>3. ASSUME NEW i \in 0 .. MaxLen - 1, vparray_remove(i) PROVE Inv' /\ List!Next
  BY <1>3, RemoveStep DEF List!Next
<1>4. CASE vparray_pop_head BY <1>4, PopHeadStep DEF List!Next
<1>5. CASE vparray_pop_tail BY <1>5, PopTailStep DEF List!Next
<1>6. CASE vparray_flush BY <1>6, FlushStep DEF List!Next
<1>7. CASE vparray_sort BY <1>7, SortStep DEF List!Next
<1>8. CASE UNCHANGED vars
  <2>1. Inv' /\ Valid' = Valid BY <1>8, NothingMoves DEF vars
  <2> QED BY <1>8, <2>1 DEF vars, List!vars
<1> QED BY <1>1, <1>2, <1>3, <1>4, <1>5, <1>6, <1>7, <1>8 DEF Next

(* The invariant: the window, the bound of the memory, and a head short of   *)
(* three quarters of the array.                                             *)
THEOREM InvHolds == (VparrayAssumption /\ HalvesWell) => (Spec => []Inv)
<1> SUFFICES ASSUME VparrayAssumption, HalvesWell PROVE Spec => []Inv OBVIOUS
<1>1. Init => Inv BY InitInv
<1>2. Inv /\ [Next]_vars => Inv' BY NextStep
<1> QED BY <1>1, <1>2, PTL DEF Spec

(* The list never counts on more memory than it has: vparray_append() and    *)
(* shrink_vparray() write within the allocation, and halving after           *)
(* vparray_pop_head() and vparray_remove() leaves room for what is kept.     *)
THEOREM WindowAllocatedHolds ==
  (VparrayAssumption /\ HalvesWell) => (Spec => []WindowAllocated)
<1> SUFFICES ASSUME VparrayAssumption, HalvesWell PROVE Spec => []WindowAllocated OBVIOUS
<1>1. Inv => WindowAllocated BY DEF Inv, Window, WindowAllocated
<1>2. Spec => []Inv BY InvHolds
<1> QED BY <1>1, <1>2, PTL

(* However long the list is used as a queue, vparray_append() doubles the     *)
(* array only while more than an eighth of it will be in use.                *)
THEOREM MemoryBoundedHolds ==
  (VparrayAssumption /\ HalvesWell) => (Spec => []MemoryBounded)
<1> SUFFICES ASSUME VparrayAssumption, HalvesWell PROVE Spec => []MemoryBounded OBVIOUS
<1>1. Inv => MemoryBounded BY DEF Inv
<1>2. Spec => []Inv BY InvHolds
<1> QED BY <1>1, <1>2, PTL

(* Every operation does to the valid items what vparray.h promises, whatever  *)
(* it does to the array: each step of Vparray is one of DynamicList.          *)
THEOREM ImplementsListHolds ==
  (VparrayAssumption /\ HalvesWell) => (Spec => ImplementsList)
<1> SUFFICES ASSUME VparrayAssumption, HalvesWell PROVE Spec => ImplementsList OBVIOUS
<1>1. Init => List!Init
  <2>1. ASSUME Init PROVE Valid = <<>>
    <3>1. Inv /\ tail - head = 0 BY <2>1, InitInv DEF Init
    <3>2. Reads(Valid, l, head, 0) BY <3>1, ValidReads
    <3>3. head \in Nat BY <3>1, InvFacts
    <3> QED BY <3>2, <3>3, EmptyItems
  <2> QED BY <2>1 DEF Init, List!Init
<1>2. Inv /\ [Next]_vars => [List!Next]_(List!vars) BY NextStep
<1>3. Spec => []Inv BY InvHolds
<1> QED BY <1>1, <1>2, <1>3, PTL DEF Spec, ImplementsList, List!Spec
===============================================================================
