------------------------------ MODULE ByteQueue ------------------------------
(***************************************************************************)
(* What a fifo of frontends/common/fifo.c promises its users: a queue of   *)
(* bytes.  A write appends all of its bytes, or is refused and changes     *)
(* nothing; a read removes and returns the oldest bytes, as many as were   *)
(* asked for or else all there are; erasing the tail takes back the newest *)
(* bytes.  How the bytes are stored, and when storage grows or shrinks,    *)
(* cannot be observed.                                                     *)
(***************************************************************************)
EXTENDS Integers, Sequences

VARIABLES
  contents,         \* the bytes written and not yet read, oldest first
  call,             \* the last operation, with its argument
  result            \* what it returned: ret, and the data read

vars == <<contents, call, result>>

Returned(ret, data) == result' = [ret |-> ret, data |-> data]

Init ==
  /\ contents = <<>>
  /\ call = [op |-> "create"]
  /\ result = [ret |-> 0, data |-> <<>>]

Create ==
  /\ call' = [op |-> "create"]
  /\ contents' = <<>>
  /\ Returned(0, <<>>)

Flush ==
  /\ call' = [op |-> "flush"]
  /\ contents' = <<>>
  /\ Returned(0, <<>>)

Write ==
  /\ call'.op = "write"
  /\ \/ contents' = contents \o call'.data /\ Returned(0, <<>>)
     \/ contents' = contents /\ Returned(-1, <<>>)

Read ==
  /\ call'.op = "read"
  /\ LET n == IF call'.bytes > Len(contents) THEN Len(contents) ELSE call'.bytes
     IN /\ Returned(n, SubSeq(contents, 1, n))
        /\ contents' = SubSeq(contents, n + 1, Len(contents))

EraseTail ==
  /\ call'.op = "erase"
  /\ IF call'.bytes > Len(contents)
     THEN contents' = contents /\ Returned(-1, <<>>)
     ELSE /\ contents' = SubSeq(contents, 1, Len(contents) - call'.bytes)
          /\ Returned(0, <<>>)

Next == Create \/ Flush \/ Write \/ Read \/ EraseTail

Spec == Init /\ [][Next]_vars
==============================================================================
