--------------------------------- MODULE Fifo ---------------------------------
(***************************************************************************)
(* frontends/common/fifo.c: a byte queue in one allocated buffer.  The     *)
(* queued bytes are buf[lower .. upper-1]; the buffer at least doubles     *)
(* when a write does not fit and is compacted and halved when a read       *)
(* leaves no more than a quarter of it in use.  realloc() may fail at      *)
(* either place.  Sizes are unsigned integers up to SizeMax and wrap       *)
(* around like size_t.                                                     *)
(*                                                                         *)
(* A caller never holds more than MaxLen bytes in a fifo: uadestate.c      *)
(* writes one data block to an empty readstash, and refuses to queue a     *)
(* notification once more than 1 MiB of them is waiting.                   *)
(***************************************************************************)
EXTENDS Integers, Sequences

CONSTANTS
  Byte,       \* the values a byte takes
  Undef,      \* the value of allocated memory nobody has written
  SizeMax,    \* (size_t) -1
  MaxLen      \* the most bytes a caller keeps queued

(* The largest offset a window starts at between two calls: fifo_read()      *)
(* reclaims the space in front of it before it is three quarters of a buffer *)
(* of 8 bytes or more.                                                      *)
MaxLower == IF 4 * MaxLen - 1 > 7 THEN 4 * MaxLen - 1 ELSE 7

(* size_t is wide enough for the sizes that occur with such callers: MaxLen  *)
(* is about one MiB.                                                         *)
FifoAssumption ==
  /\ Undef \notin Byte
  /\ SizeMax \in Nat /\ MaxLen \in Nat \ {0}
  /\ 4 * (MaxLower + MaxLen) <= SizeMax

VARIABLES buf, lower, upper, capacity, \* struct fifo
          call, result                 \* the last call and what it returned

fifo == <<buf, lower, upper, capacity>>
vars == <<buf, lower, upper, capacity, call, result>>

fifo_len == upper - lower

Half == SizeMax \div 2

(* What realloc() makes of a buffer: old bytes kept, new ones undefined. *)
Realloc(b, size) ==
  [i \in 0 .. size - 1 |-> IF i \in DOMAIN b THEN b[i] ELSE Undef]

(* Mutation: the copy is one byte late. *)
StoreLate(b, offset, data) ==
  [i \in DOMAIN b |->
     IF offset < i /\ i < offset + Len(data) THEN data[i - offset + 1] ELSE b[i]]

(* memcpy() of data into the buffer, starting at offset. *)
Store(b, offset, data) ==
  [i \in DOMAIN b |->
     IF offset <= i /\ i < offset + Len(data) THEN data[i - offset + 1] ELSE b[i]]

(* Mutation: the bytes stay where they are. *)
MoveNothing(b, offset, len) == b

(* memmove() of len bytes at offset to the start of the buffer. *)
MoveToFront(b, offset, len) ==
  [i \in DOMAIN b |-> IF i < len THEN b[offset + i] ELSE b[i]]

(* The n queued bytes that start at offset. *)
Bytes(b, offset, n) == [i \in 1 .. n |-> b[offset + i - 1]]

Returned(ret, data) == result' = [ret |-> ret, data |-> data]
------------------------------------------------------------------------------
Empty == [i \in 0 .. -1 |-> Undef]

Init ==
  /\ buf = Empty /\ lower = 0 /\ upper = 0 /\ capacity = 0
  /\ call = [op |-> "create"]
  /\ result = [ret |-> 0, data |-> <<>>]

(* A user frees its fifo and creates a new one when it needs one again. *)
fifo_create ==
  /\ call' = [op |-> "create"]
  /\ buf' = Empty /\ lower' = 0 /\ upper' = 0 /\ capacity' = 0
  /\ Returned(0, <<>>)

fifo_flush ==
  /\ call' = [op |-> "flush"]
  /\ lower' = 0 /\ upper' = 0
  /\ Returned(0, <<>>)
  /\ UNCHANGED <<buf, capacity>>

(* Mutation: the length is not checked. *)
EraseUnchecked(bytes) ==
  /\ call' = [op |-> "erase", bytes |-> bytes]
  /\ Returned(0, <<>>) /\ upper' = upper - bytes
  /\ UNCHANGED <<buf, lower, capacity>>

fifo_erase_tail(bytes) ==
  /\ call' = [op |-> "erase", bytes |-> bytes]
  /\ IF fifo_len < bytes
     THEN Returned(-1, <<>>) /\ UNCHANGED upper
     ELSE Returned(0, <<>>) /\ upper' = upper - bytes
  /\ UNCHANGED <<buf, lower, capacity>>

(* Mutation: the capacity is halved even if realloc() fails. *)
CompactedRegardless(low, len) ==
  /\ lower' = 0 /\ upper' = len
  /\ capacity' = capacity \div 2
  /\ buf' = MoveToFront(buf, low, len)

(* halve_fifo(), called with the bounds the read has left behind. *)
Compacted(low, len) ==
  /\ lower' = 0 /\ upper' = len
  /\ \/ /\ capacity' = capacity \div 2
        /\ buf' = Realloc(MoveToFront(buf, low, len), capacity \div 2)
     \/ /\ buf' = MoveToFront(buf, low, len)    \* realloc() failed
        /\ UNCHANGED capacity

(* Mutation: space is never reclaimed. *)
ReadWithoutHalving(bytes) ==
  LET n == IF bytes > fifo_len THEN fifo_len ELSE bytes
  IN /\ call' = [op |-> "read", bytes |-> bytes]
     /\ Returned(n, Bytes(buf, lower, n))
     /\ lower' = lower + n /\ UNCHANGED <<buf, upper, capacity>>

fifo_read(bytes) ==
  LET n   == IF bytes > fifo_len THEN fifo_len ELSE bytes
      low == lower + n
  IN /\ call' = [op |-> "read", bytes |-> bytes]
     /\ Returned(n, Bytes(buf, lower, n))
     /\ IF fifo_len > 0 /\ upper - low <= capacity \div 4 /\ capacity >= 8
        THEN Compacted(low, upper - low)
        ELSE lower' = low /\ UNCHANGED <<buf, upper, capacity>>

NewCapacity(bytes) == ((upper + bytes) * 2) % (SizeMax + 1)

WriteInPlace(data) ==
  /\ upper + Len(data) <= capacity
  /\ buf' = Store(buf, upper, data)
  /\ upper' = upper + Len(data)
  /\ Returned(0, <<>>)
  /\ UNCHANGED <<lower, capacity>>

WriteGrow(data) ==
  /\ upper + Len(data) > capacity
  /\ NewCapacity(Len(data)) <= Half
  /\ capacity' = NewCapacity(Len(data))
  /\ buf' = Store(Realloc(buf, capacity'), upper, data)
  /\ upper' = upper + Len(data)
  /\ Returned(0, <<>>)
  /\ UNCHANGED lower

(* The new size is too large, or realloc() failed. *)
WriteRefused(data) ==
  /\ upper + Len(data) > capacity
  /\ Returned(-1, <<>>)
  /\ UNCHANGED fifo

fifo_write(data) ==
  /\ Len(data) < Half
  /\ fifo_len + Len(data) <= MaxLen
  /\ call' = [op |-> "write", data |-> data]
  /\ WriteInPlace(data) \/ WriteGrow(data) \/ WriteRefused(data)

Data == UNION {[1 .. n -> Byte] : n \in 0 .. MaxLen}

Next ==
  \/ fifo_create \/ fifo_flush
  \/ \E bytes \in 0 .. MaxLen + 1 : fifo_read(bytes) \/ fifo_erase_tail(bytes)
  \/ \E data \in Data : fifo_write(data)

Spec == Init /\ [][Next]_vars
------------------------------------------------------------------------------
Call ==
  [op : {"create", "flush"}] \cup [op : {"read", "erase"}, bytes : Nat]
    \cup [op : {"write"}, data : Data]

TypeOK ==
  /\ lower \in Nat /\ upper \in Nat /\ capacity \in Nat
  /\ buf \in [0 .. capacity - 1 -> Byte \cup {Undef}]
  /\ call \in Call
  /\ result \in [ret : Int, data : Seq(Byte \cup {Undef})]

(* The assertions of fifo_erase_tail(), fifo_read() and fifo_write(): the   *)
(* window of queued bytes is well formed and lies inside the buffer, so no  *)
(* copy reaches outside it.                                                 *)
WindowInBuffer == lower <= upper /\ upper <= capacity

(* No byte is ever handed out that nobody wrote: the whole window is       *)
(* initialised memory, across every growth, compaction and shrinking.      *)
WindowInitialised == \A i \in lower .. upper - 1 : buf[i] \in Byte

(* A window that may be read and written: both of it.  (fifo.c, fifo_read()  *)
(* to fifo_erase_tail())                                                     *)
WindowValid == WindowInBuffer /\ WindowInitialised

(* The memory a fifo occupies stays proportional to the most bytes it was   *)
(* asked to hold, however many bytes pass through it: fifo_read() reclaims  *)
(* the space in front of the window before it can accumulate.               *)
CapacityBounded == capacity <= 2 * (MaxLower + MaxLen)

(* The fifo is a byte queue to its users (see ByteQueue). *)
Queue == INSTANCE ByteQueue WITH contents <- Bytes(buf, lower, fifo_len)
QueueSpec == Queue!Spec
===============================================================================
