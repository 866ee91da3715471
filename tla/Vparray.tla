------------------------------- MODULE Vparray -------------------------------
(***************************************************************************)
(* frontends/common/vparray.c and vparray.h: a list of pointers in an array  *)
(* that grows at its tail, is consumed at its head and is halved when three  *)
(* quarters of it are unused.  DynamicList is what it implements.           *)
(* Failing allocations end the program and are left out.                    *)
(***************************************************************************)
EXTENDS Integers, Sequences, SequencesExt

CONSTANTS
  Item,            \* the pointers, ordered as integers
  InitialLength,   \* vparray_create()'s argument
  MaxLen           \* bound: the length of the list

Stale == 0   \* what a cell outside the valid items holds: nothing may read it

VparrayAssumption ==
  Item \subseteq Nat \ {Stale} /\ InitialLength \in Nat /\ MaxLen \in Nat

VARIABLES
  head, tail,   \* the valid items are l[head] .. l[tail - 1]
  allocated,    \* cells of l, as the structure counts them
  l,            \* the cells written or read, even beyond the allocation
  found,        \* the result of the last search or of vparray_pop_head()
  last          \* the result of the last vparray_pop_tail()

vars == <<head, tail, allocated, l, found, last>>

BASIC_LENGTH == 5

FirstLength == IF InitialLength = 0 THEN BASIC_LENGTH ELSE InitialLength

Room == 8 * MaxLen + BASIC_LENGTH + InitialLength + 1   \* more cells than are ever allocated

vparray_len == tail - head
Valid == [i \in 1 .. vparray_len |-> l[head + i - 1]]

Cells(items) == [i \in 0 .. Room - 1 |-> IF i < Len(items) THEN items[i + 1] ELSE Stale]

Init ==
  /\ head = 0 /\ tail = 0
  /\ allocated = FirstLength
  /\ l = Cells(<<>>)
  /\ found = -1 /\ last = Stale

(* Mutation: the list grows one item too late. *)
GrownLate(t) == IF t > allocated THEN 2 * allocated ELSE allocated

(* vparray_grow() *)
Grown(t) ==
  IF t # allocated THEN allocated
  ELSE IF allocated = 0 THEN BASIC_LENGTH ELSE 2 * allocated

vparray_append(x) ==
  /\ vparray_len < MaxLen
  /\ allocated' = Grown(tail)
  /\ l' = [l EXCEPT ![tail] = x]
  /\ tail' = tail + 1
  /\ UNCHANGED <<head, found, last>>

(* Mutation: the items are not moved. *)
ShrunkInPlace(h, t, cells, newsize) ==
  /\ head' = 0 /\ tail' = t - h /\ allocated' = newsize
  /\ l' = cells

(* shrink_vparray() of the window h .. t - 1 of the cells: the items go to   *)
(* the front.                                                               *)
Shrunk(h, t, cells, newsize) ==
  /\ head' = 0 /\ tail' = t - h /\ allocated' = newsize
  /\ l' = Cells([i \in 1 .. t - h |-> cells[h + i - 1]])

(* Mutation: the array is not halved. *)
NeverHalved(h, t, cells, halve) == head' = h /\ tail' = t /\ l' = cells /\ UNCHANGED allocated

\* The window as it is, or halved where most of the array is unused.
Kept(h, t, cells, halve) ==
  IF allocated >= BASIC_LENGTH /\ halve
  THEN Shrunk(h, t, cells, allocated \div 2)
  ELSE head' = h /\ tail' = t /\ l' = cells /\ UNCHANGED allocated

vparray_pop_head ==
  /\ head # tail
  /\ found' = l[head]
  /\ Kept(head + 1, tail, [l EXCEPT ![head] = Stale], head + 1 >= (allocated \div 4) * 3)
  /\ UNCHANGED last

\* The list is short enough for half of its cells.
SmallTail(t) == t < allocated \div 4

\* The tail without its last item, the one in l[tail - 1].
WithoutTail(cells) ==
  Kept(head, tail - 1, [cells EXCEPT ![tail - 1] = Stale], SmallTail(tail - 1))

\* The result is l[tail--], the cell after the last item.
vparray_pop_tail ==
  /\ head # tail
  /\ last' = l[tail]
  /\ WithoutTail(l)
  /\ UNCHANGED found

vparray_remove(i) ==
  /\ i < vparray_len
  /\ WithoutTail([l EXCEPT ![head + i] = l[tail - 1]])
  /\ UNCHANGED <<found, last>>

vparray_flush ==
  /\ IF allocated >= 2 * BASIC_LENGTH
     THEN Shrunk(0, 0, l, BASIC_LENGTH)
     ELSE head' = 0 /\ tail' = 0 /\ l' = Cells(<<>>) /\ UNCHANGED allocated
  /\ UNCHANGED <<found, last>>

vparray_search(x) ==
  /\ found' = IF Contains(Valid, x) THEN Min({i \in DOMAIN Valid : Valid[i] = x}) - 1 ELSE -1
  /\ UNCHANGED <<head, tail, allocated, l, last>>

\* qsort() orders the items, somehow.
vparray_sort ==
  \E p \in Permutations(1 .. vparray_len) :
    LET sorted == [i \in 1 .. vparray_len |-> Valid[p[i]]]
    IN /\ \A i, j \in 1 .. vparray_len : i < j => sorted[i] <= sorted[j]
       /\ l' = [i \in DOMAIN l |-> IF i \in head .. tail - 1 THEN sorted[i - head + 1] ELSE l[i]]
       /\ UNCHANGED <<head, tail, allocated, found, last>>

Next ==
  \/ \E x \in Item : vparray_append(x) \/ vparray_search(x)
  \/ \E i \in 0 .. MaxLen - 1 : vparray_remove(i)
  \/ vparray_pop_head \/ vparray_pop_tail \/ vparray_flush \/ vparray_sort

Spec == Init /\ [][Next]_vars
------------------------------------------------------------------------------
(* The indices are those of a window; whatever it does, the list never       *)
(* writes beyond the memory it has (vparray_append(), shrink_vparray()).     *)
WindowAllocated == head <= tail /\ tail <= allocated

(* The memory stays in proportion to the items kept, however long the list   *)
(* is used as a queue: consumed cells are reclaimed (vparray_pop_head(), "If  *)
(* 3/4 of a list is unused, free half the list").  It is the first one, that  *)
(* of vparray_flush(), or at most eight cells for each item of the longest.   *)
MemoryBounded == \E cells \in {8 * MaxLen, FirstLength, BASIC_LENGTH} : allocated <= cells

(* Growing, moving and halving the array are not seen: every operation does  *)
(* to the valid items what the header says of it.                           *)
List == INSTANCE DynamicList WITH list <- Valid
ImplementsList == List!Spec

(* vparray.h: "Functionally same as vparray_remove(v, vparray_len(v) - 1)":  *)
(* the item popped is the last of the list.                                 *)
PopsLastItem == [][vparray_pop_tail => last' = l[tail - 1]]_vars
==============================================================================
