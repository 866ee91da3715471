----------------------------- MODULE DynamicList -----------------------------
(***************************************************************************)
(* What vparray.h promises: a list of pointers, taken from at both ends,     *)
(* without a word on how it is stored.                                      *)
(***************************************************************************)
EXTENDS Integers, Sequences, SequencesExt

CONSTANTS
  Item,      \* the pointers, ordered as integers
  MaxLen     \* bound: the length of the list

VARIABLES
  list,      \* the valid items
  found      \* the result of the last search or of vparray_pop_head()

vars == <<list, found>>

Init == list = <<>> /\ found = -1

Append_(x) == Len(list) < MaxLen /\ list' = Append(list, x) /\ UNCHANGED found

PopHead == list # <<>> /\ list' = Tail(list) /\ found' = Head(list)

PopTail == list # <<>> /\ list' = Front(list) /\ UNCHANGED found

\* The last item takes the place of the one removed.
RemoveAt_(i) ==
  /\ i < Len(list)
  /\ list' = Front([list EXCEPT ![i + 1] = Last(list)])
  /\ UNCHANGED found

Flush == list' = <<>> /\ UNCHANGED found

\* Any order of the same items that is ascending.
Sort ==
  /\ \E p \in Permutations(1 .. Len(list)) : list' = [i \in 1 .. Len(list) |-> list[p[i]]]
  /\ \A i, j \in 1 .. Len(list) : i < j => list'[i] <= list'[j]
  /\ UNCHANGED found

Search(x) ==
  /\ found' = IF Contains(list, x) THEN Min({i \in DOMAIN list : list[i] = x}) - 1 ELSE -1
  /\ UNCHANGED list

Next ==
  \/ \E x \in Item : Append_(x) \/ Search(x)
  \/ \E i \in 0 .. MaxLen - 1 : RemoveAt_(i)
  \/ PopHead \/ PopTail \/ Flush \/ Sort

Spec == Init /\ [][Next]_vars
==============================================================================
