------------------------------ MODULE FifoProofs ------------------------------
(***************************************************************************)
(* Proofs about Fifo: for buffers of any size, the window of queued bytes   *)
(* stays inside the buffer and consists of initialised memory, and the      *)
(* memory in use is bounded by the callers' limit.  To its users a fifo is   *)
(* the byte queue of ByteQueue: the window, read as a sequence, is the queue *)
(* at every call.                                                           *)
(***************************************************************************)
EXTENDS Fifo, SequenceTheorems, TLAPS

(* The inductive invariant.  What makes CapacityBounded inductive is the    *)
(* bound on lower: a read that does not compact leaves more than a quarter  *)
(* of the buffer in use, or finds it smaller than 8 bytes.                  *)
BufferOK ==
  /\ lower \in Nat /\ upper \in Nat /\ capacity \in Nat
  /\ buf \in [0 .. capacity - 1 -> Byte \cup {Undef}]

Inv ==
  /\ BufferOK
  /\ WindowInBuffer
  /\ WindowInitialised
  /\ upper - lower <= MaxLen
  /\ lower <= MaxLower
  /\ CapacityBounded

LEMMA MaxLowerNat ==
  ASSUME FifoAssumption
  PROVE  /\ MaxLower \in Nat /\ MaxLower >= 7 /\ MaxLower >= 4 * MaxLen - 1
         /\ MaxLen \in Nat
  BY DEF FifoAssumption, MaxLower

LEMMA InitInv ==
  ASSUME FifoAssumption, Init
  PROVE  Inv
  BY SMT DEF FifoAssumption, Init, Inv, BufferOK, WindowInBuffer, WindowInitialised,
     CapacityBounded, MaxLower, Empty

LEMMA DataProperties ==
  ASSUME FifoAssumption, NEW data \in Data
  PROVE  Len(data) \in Nat /\ data \in [1 .. Len(data) -> Byte]
  BY DEF FifoAssumption, Data

(* A write that fits does not disturb the window in front of it. *)
LEMMA StoreInv ==
  ASSUME FifoAssumption, NEW b, NEW cap \in Nat, NEW up \in Nat, NEW low \in Nat, NEW data \in Data,
         b \in [0 .. cap - 1 -> Byte \cup {Undef}],
         low <= up, up + Len(data) <= cap,
         \A i \in low .. up - 1 : b[i] \in Byte
  PROVE  /\ Store(b, up, data) \in [0 .. cap - 1 -> Byte \cup {Undef}]
         /\ \A i \in low .. (up + Len(data)) - 1 : Store(b, up, data)[i] \in Byte
         /\ \A i \in low .. up - 1 : Store(b, up, data)[i] = b[i]
         /\ \A i \in 1 .. Len(data) : Store(b, up, data)[up + i - 1] = data[i]
<1> DEFINE n == Len(data)
<1>1. n \in Nat /\ data \in [1 .. n -> Byte]
  BY DataProperties
<1>2. \A i \in 0 .. cap - 1 :
        up <= i /\ i < up + n => i - up + 1 \in 1 .. n
  BY <1>1
<1>3. Store(b, up, data)
        = [i \in 0 .. cap - 1 |-> IF up <= i /\ i < up + n THEN data[i - up + 1] ELSE b[i]]
  BY DEF Store
<1> HIDE DEF n
<1>4. \A i \in 0 .. cap - 1 : Store(b, up, data)[i] \in Byte \cup {Undef}
  BY <1>1, <1>2, <1>3
<1>5. \A i \in low .. up - 1 : Store(b, up, data)[i] = b[i]
  BY <1>1, <1>3
<1>6. \A i \in 1 .. n : Store(b, up, data)[up + i - 1] = data[i]
  <2> TAKE i \in 1 .. n
  <2>1. up + i - 1 \in 0 .. cap - 1 /\ (up + i - 1) - up + 1 = i
    BY <1>1 DEF n
  <2> QED BY <2>1, <1>1, <1>3
<1>7. \A i \in low .. (up + n) - 1 : Store(b, up, data)[i] \in Byte
  <2> TAKE i \in low .. (up + n) - 1
  <2>0. n \in Nat /\ up + n <= cap
    BY <1>1 DEF n
  <2>1. CASE i < up
    BY <1>5, <2>1
  <2>2. CASE up <= i
    <3>1. i \in 0 .. cap - 1 /\ i < up + n /\ i - up + 1 \in 1 .. n
      BY <2>0, <2>2
    <3> QED BY <1>1, <1>3, <2>2, <3>1
  <2> QED BY <2>0, <2>1, <2>2
<1> QED BY <1>3, <1>4, <1>5, <1>6, <1>7 DEF n

(* Growing a buffer keeps its bytes. *)
LEMMA GrowInv ==
  ASSUME NEW b, NEW cap \in Nat, NEW size \in Nat, cap <= size,
         b \in [0 .. cap - 1 -> Byte \cup {Undef}]
  PROVE  /\ Realloc(b, size) \in [0 .. size - 1 -> Byte \cup {Undef}]
         /\ \A i \in 0 .. cap - 1 : Realloc(b, size)[i] = b[i]
  BY DEF Realloc

(* Compaction moves the window to the front; shrinking afterwards keeps it. *)
LEMMA MoveInv ==
  ASSUME NEW b, NEW cap \in Nat, NEW low \in Nat, NEW len \in Nat,
         b \in [0 .. cap - 1 -> Byte \cup {Undef}],
         low + len <= cap
  PROVE  /\ MoveToFront(b, low, len) \in [0 .. cap - 1 -> Byte \cup {Undef}]
         /\ \A i \in 0 .. len - 1 : MoveToFront(b, low, len)[i] = b[low + i]
  BY DEF MoveToFront

LEMMA ShrinkInv ==
  ASSUME NEW b, NEW cap \in Nat, NEW size \in Nat, size <= cap,
         b \in [0 .. cap - 1 -> Byte \cup {Undef}]
  PROVE  /\ Realloc(b, size) \in [0 .. size - 1 -> Byte \cup {Undef}]
         /\ \A i \in 0 .. size - 1 : Realloc(b, size)[i] = b[i]
  BY DEF Realloc

(* Compaction and halving keep the window, wherever realloc() fails. *)
LEMMA CompactedKeeps ==
  ASSUME BufferOK, NEW low \in Nat, NEW len \in Nat, low + len <= capacity,
         len <= capacity \div 2, capacity \div 2 \in Nat, capacity \div 2 <= capacity,
         Compacted(low, len)
  PROVE  /\ buf' \in [0 .. capacity' - 1 -> Byte \cup {Undef}]
         /\ \A i \in 0 .. len - 1 : buf'[i] = buf[low + i]
         /\ capacity' \in Nat /\ len <= capacity' /\ capacity' <= capacity
<1> DEFINE moved == MoveToFront(buf, low, len)
           half == capacity \div 2
<1>0. capacity \in Nat /\ half \in Nat /\ len <= half /\ half <= capacity
  BY DEF BufferOK
<1>1. buf \in [0 .. capacity - 1 -> Byte \cup {Undef}]
  BY DEF BufferOK
<1>2. /\ moved \in [0 .. capacity - 1 -> Byte \cup {Undef}]
      /\ \A i \in 0 .. len - 1 : moved[i] = buf[low + i]
  BY <1>0, <1>1, MoveInv
<1>3. \/ capacity' = half /\ buf' = Realloc(moved, half)
      \/ capacity' = capacity /\ buf' = moved
  BY DEF Compacted
<1> HIDE DEF moved, half
<1>4. /\ Realloc(moved, half) \in [0 .. half - 1 -> Byte \cup {Undef}]
      /\ \A i \in 0 .. half - 1 : Realloc(moved, half)[i] = moved[i]
  BY <1>0, <1>2, ShrinkInv
<1>5. \A i \in 0 .. len - 1 : i \in 0 .. half - 1
  BY <1>0
<1> QED BY <1>0, <1>2, <1>3, <1>4, <1>5

(* Within the callers' limit the doubled size neither wraps nor exceeds the *)
(* limit on capacities.                                                     *)
LEMMA NoWrap ==
  ASSUME FifoAssumption, Inv, NEW data \in Data, fifo_len + Len(data) <= MaxLen
  PROVE  /\ NewCapacity(Len(data)) = (upper + Len(data)) * 2
         /\ NewCapacity(Len(data)) <= 2 * (MaxLower + MaxLen)
<1>1. Len(data) \in Nat
  BY DataProperties
<1>2. upper + Len(data) <= MaxLower + MaxLen
  BY <1>1 DEF FifoAssumption, Inv, BufferOK, WindowInBuffer, fifo_len, MaxLower
<1>3. (upper + Len(data)) * 2 \in 0 .. SizeMax
  BY <1>1, <1>2 DEF FifoAssumption, MaxLower, Inv, BufferOK
<1>4. \A k \in 0 .. SizeMax : k % (SizeMax + 1) = k
  BY SMTT(30) DEF FifoAssumption
<1>5. NewCapacity(Len(data)) = (upper + Len(data)) * 2
  BY <1>3, <1>4 DEF NewCapacity
<1> QED BY <1>1, <1>2, <1>5 DEF FifoAssumption, Inv, BufferOK, MaxLower

LEMMA WriteInv ==
  ASSUME FifoAssumption, Inv, NEW data \in Data, fifo_write(data)
  PROVE  Inv'
<1>1. Len(data) \in Nat /\ fifo_len + Len(data) <= MaxLen
  BY DataProperties DEF fifo_write
<1>2. CASE WriteInPlace(data)
  <2>1. /\ buf' = Store(buf, upper, data)
        /\ upper' = upper + Len(data) /\ upper + Len(data) <= capacity
        /\ lower' = lower /\ capacity' = capacity
    BY <1>2 DEF WriteInPlace
  <2> DEFINE b == Store(buf, upper, data)
             up == upper + Len(data)
  <2>2. /\ capacity \in Nat /\ upper \in Nat /\ lower \in Nat
        /\ buf \in [0 .. capacity - 1 -> Byte \cup {Undef}]
        /\ lower <= upper
        /\ \A i \in lower .. upper - 1 : buf[i] \in Byte
    BY DEF Inv, BufferOK, WindowInBuffer, WindowInitialised
  <2>3. b \in [0 .. capacity - 1 -> Byte \cup {Undef}]
    BY <2>1, <2>2, StoreInv
  <2>4. \A i \in lower .. up - 1 : b[i] \in Byte
    BY <2>1, <2>2, StoreInv
  <2>7. BufferOK'
    BY <1>1, <2>1, <2>2, <2>3 DEF BufferOK
  <2> HIDE DEF b, up
  <2>8. WindowInitialised'
    <3>1. buf' = b /\ lower' = lower /\ upper' = up
      BY <2>1 DEF b, up
    <3> QED BY <2>4, <3>1, Zenon DEF WindowInitialised
  <2>5. WindowInBuffer' /\ CapacityBounded' /\ lower' <= MaxLower
    BY <1>1, <2>1 DEF Inv, BufferOK, WindowInBuffer, CapacityBounded
  <2>6. upper' - lower' <= MaxLen
    BY <1>1, <2>1, MaxLowerNat DEF Inv, BufferOK, WindowInBuffer, fifo_len
  <2> QED BY <2>7, <2>8, <2>5, <2>6 DEF Inv
<1>3. CASE WriteGrow(data)
  <2> DEFINE cap == (upper + Len(data)) * 2
             b == Realloc(buf, cap)
  <2>1. /\ capacity' = cap /\ cap <= 2 * (MaxLower + MaxLen)
        /\ buf' = Store(b, upper, data)
        /\ upper' = upper + Len(data) /\ lower' = lower
    BY <1>3, <1>1, NoWrap DEF WriteGrow
  <2>2. cap \in Nat /\ capacity <= cap /\ upper + Len(data) <= cap
    BY <1>1, <1>3 DEF WriteGrow, Inv, BufferOK, WindowInBuffer
  <2>3. /\ b \in [0 .. cap - 1 -> Byte \cup {Undef}]
        /\ \A i \in lower .. upper - 1 : b[i] \in Byte
    <3> HIDE DEF cap
    <3>1. /\ b \in [0 .. cap - 1 -> Byte \cup {Undef}]
          /\ \A i \in 0 .. capacity - 1 : b[i] = buf[i]
      BY <2>2, GrowInv DEF Inv, BufferOK
    <3> QED BY <3>1 DEF Inv, BufferOK, WindowInBuffer, WindowInitialised
  <2> HIDE DEF cap, b
  <2>4. /\ buf' \in [0 .. cap - 1 -> Byte \cup {Undef}]
        /\ \A i \in lower .. (upper + Len(data)) - 1 : buf'[i] \in Byte
    BY <2>1, <2>2, <2>3, StoreInv DEF Inv, BufferOK, WindowInBuffer
  <2> QED
    BY <1>1, <2>1, <2>2, <2>4
    DEF FifoAssumption, Inv, BufferOK, WindowInBuffer, WindowInitialised, CapacityBounded, fifo_len
<1>4. CASE WriteRefused(data)
  BY <1>4 DEF WriteRefused, fifo, Inv, BufferOK, WindowInBuffer, WindowInitialised,
     CapacityBounded
<1> QED BY <1>2, <1>3, <1>4 DEF fifo_write

LEMMA ReadInv ==
  ASSUME FifoAssumption, Inv, NEW bytes \in Nat, fifo_read(bytes)
  PROVE  Inv'
<1> DEFINE n == IF bytes > fifo_len THEN fifo_len ELSE bytes
           low == lower + n
           len == upper - low
<1>1. /\ n \in Nat /\ low \in Nat /\ len \in Nat
      /\ lower <= low /\ low <= upper /\ low + len = upper /\ len <= MaxLen
  BY DEF FifoAssumption, Inv, BufferOK, WindowInBuffer, fifo_len
<1>2. CASE fifo_len > 0 /\ len <= capacity \div 4 /\ capacity >= 8
  <2>1. Compacted(low, len)
    BY <1>2 DEF fifo_read
  <2> HIDE DEF n, low, len
  <2>0. capacity \in Nat
    BY DEF Inv, BufferOK
  <2>2. capacity \div 2 \in Nat /\ len <= capacity \div 2 /\ capacity \div 2 <= capacity
    BY <1>1, <1>2, <2>0
  <2>3. low + len <= capacity
    BY <1>1 DEF Inv, BufferOK, WindowInBuffer
  <2>4. /\ buf' \in [0 .. capacity' - 1 -> Byte \cup {Undef}]
        /\ \A i \in 0 .. len - 1 : buf'[i] = buf[low + i]
        /\ capacity' \in Nat /\ len <= capacity' /\ capacity' <= capacity
    BY <1>1, <2>1, <2>2, <2>3, CompactedKeeps DEF Inv
  <2>5. \A i \in 0 .. len - 1 : low + i \in lower .. upper - 1
    BY <1>1 DEF Inv, BufferOK
  <2>6. WindowInitialised'
    BY <2>1, <2>4, <2>5 DEF Inv, WindowInitialised, Compacted
  <2>7. BufferOK'
    BY <1>1, <2>1, <2>4 DEF Compacted, BufferOK
  <2>8. WindowInBuffer' /\ upper' - lower' <= MaxLen /\ lower' <= MaxLower
    BY <1>1, <2>1, <2>4, MaxLowerNat DEF Compacted, WindowInBuffer
  <2>9. CapacityBounded'
    BY <2>4, <2>0, MaxLowerNat DEF CapacityBounded, Inv
  <2> QED BY <2>6, <2>7, <2>8, <2>9 DEF Inv
<1>3. CASE ~(fifo_len > 0 /\ len <= capacity \div 4 /\ capacity >= 8)
  <2>1. lower' = low /\ UNCHANGED <<buf, upper, capacity>>
    BY <1>3 DEF fifo_read
  <2>2. low <= MaxLower
    <3>1. CASE fifo_len = 0
      BY <3>1, <1>1 DEF Inv, BufferOK, fifo_len
    <3>2. CASE capacity < 8
      <4> HIDE DEF n, low, len
      <4>1. capacity \in Nat /\ upper \in Nat /\ upper <= capacity
        BY DEF Inv, BufferOK, WindowInBuffer
      <4> QED BY <3>2, <4>1, <1>1, MaxLowerNat
    <3>3. CASE len > capacity \div 4
      <4> HIDE DEF n, low, len
      <4>0. capacity \in Nat /\ upper <= capacity
        BY DEF Inv, BufferOK, WindowInBuffer
      <4>1. capacity <= 4 * len - 1
        BY <3>3, <1>1, <4>0
      <4> QED BY <4>0, <4>1, <1>1, MaxLowerNat DEF Inv, BufferOK
    <3> QED
      BY <1>1, <1>3, <3>1, <3>2, <3>3 DEF fifo_len, Inv, BufferOK, WindowInBuffer
  <2> HIDE DEF n, low, len
  <2> QED
    BY <1>1, <2>1, <2>2
    DEF Inv, BufferOK, WindowInBuffer, WindowInitialised, CapacityBounded
<1> QED BY <1>2, <1>3

LEMMA NextInv ==
  ASSUME FifoAssumption, Inv, [Next]_vars
  PROVE  Inv'
<1>1. CASE fifo_create
  <2>1. BufferOK' /\ WindowInitialised'
    BY <1>1 DEF fifo_create, Empty, BufferOK, WindowInitialised
  <2> QED
    BY <1>1, <2>1, MaxLowerNat
    DEF fifo_create, Inv, WindowInBuffer, CapacityBounded
<1>2. ASSUME NEW bytes \in 0 .. MaxLen + 1, fifo_erase_tail(bytes) PROVE Inv'
  <2>1. /\ buf' = buf /\ lower' = lower /\ capacity' = capacity
        /\ upper' \in Nat /\ lower <= upper' /\ upper' <= upper
    BY <1>2, MaxLowerNat DEF fifo_erase_tail, fifo_len, Inv, BufferOK, WindowInBuffer
  <2> DEFINE up == upper'
  <2>2. /\ lower \in Nat /\ upper \in Nat /\ capacity \in Nat
        /\ lower <= upper /\ upper <= capacity /\ upper - lower <= MaxLen
        /\ up \in Nat /\ lower <= up /\ up <= upper
    BY <2>1 DEF Inv, BufferOK, WindowInBuffer
  <2>3. BufferOK'
    BY <2>1 DEF Inv, BufferOK
  <2> HIDE DEF up
  <2>4. up <= capacity /\ up - lower <= MaxLen
    BY <2>2, MaxLowerNat
  <2>5. \A i \in lower .. up - 1 : buf[i] \in Byte
    <3>1. \A i \in lower .. up - 1 : i \in lower .. upper - 1
      BY <2>2
    <3> QED BY <3>1 DEF Inv, WindowInitialised
  <2>6. WindowInitialised' /\ WindowInBuffer' /\ upper' - lower' <= MaxLen
    BY <2>1, <2>2, <2>4, <2>5, Zenon DEF WindowInitialised, WindowInBuffer, up
  <2> QED BY <2>1, <2>3, <2>6 DEF Inv, CapacityBounded
<1>3. ASSUME NEW bytes \in 0 .. MaxLen + 1, fifo_read(bytes) PROVE Inv'
  BY <1>3, ReadInv DEF FifoAssumption
<1>4. ASSUME NEW data \in Data, fifo_write(data) PROVE Inv'
  BY <1>4, WriteInv
<1>5. CASE fifo_flush
  <2>1. /\ lower' = 0 /\ upper' = 0 /\ buf' = buf /\ capacity' = capacity
    BY <1>5 DEF fifo_flush
  <2>2. BufferOK' /\ WindowInitialised'
    BY <2>1 DEF Inv, BufferOK, WindowInitialised
  <2> QED
    BY <2>1, <2>2, MaxLowerNat DEF Inv, BufferOK, WindowInBuffer, CapacityBounded
<1>6. CASE UNCHANGED vars
  BY <1>6 DEF vars, Inv, BufferOK, WindowInBuffer, WindowInitialised, CapacityBounded
<1> QED BY <1>1, <1>2, <1>3, <1>4, <1>5, <1>6 DEF Next

(* The inductive invariant holds in every reachable state. *)
THEOREM InvHolds == FifoAssumption => (Spec => []Inv)
<1> SUFFICES ASSUME FifoAssumption PROVE Spec => []Inv OBVIOUS
<1>1. Inv /\ [Next]_vars => Inv'
  BY NextInv
<1>2. Init => Inv
  BY InitInv
<1> QED BY <1>1, <1>2, PTL DEF Spec

(* The assertions of fifo.h:44 and fifo.c:30, 52, 77, 80, 105 and 110 never  *)
(* fail: the window of queued bytes stays inside the buffer.                *)
THEOREM WindowInBufferHolds == FifoAssumption => (Spec => []WindowInBuffer)
<1> SUFFICES ASSUME FifoAssumption PROVE Spec => []WindowInBuffer OBVIOUS
<1>1. Inv => WindowInBuffer
  BY DEF Inv
<1> QED BY <1>1, InvHolds, PTL

(* fifo_read() never returns a byte of the buffer that nobody wrote. *)
THEOREM WindowInitialisedHolds == FifoAssumption => (Spec => []WindowInitialised)
<1> SUFFICES ASSUME FifoAssumption PROVE Spec => []WindowInitialised OBVIOUS
<1>1. Inv => WindowInitialised
  BY DEF Inv
<1> QED BY <1>1, InvHolds, PTL

(* The window always is inside the buffer, and all of it was written. *)
THEOREM WindowValidHolds == FifoAssumption => (Spec => []WindowValid)
<1> SUFFICES ASSUME FifoAssumption PROVE Spec => []WindowValid OBVIOUS
<1>1. Inv => WindowValid
  BY DEF Inv, WindowValid
<1> QED BY <1>1, InvHolds, PTL

(* The buffer never outgrows a constant multiple of what is queued in it at *)
(* one time, however long it is used.                                       *)
THEOREM CapacityBoundedHolds == FifoAssumption => (Spec => []CapacityBounded)
<1> SUFFICES ASSUME FifoAssumption PROVE Spec => []CapacityBounded OBVIOUS
<1>1. Inv => CapacityBounded
  BY DEF Inv
<1> QED BY <1>1, InvHolds, PTL
------------------------------------------------------------------------------
(* What a range of a buffer holds: bytes, the bytes of another buffer, data. *)
Written(b, off, n) == \A i \in off .. off + n - 1 : b[i] \in Byte
Copied(c, to, b, off, n) == \A i \in 0 .. n - 1 : c[to + i] = b[off + i]
Holds(b, off, data) == \A i \in 1 .. Len(data) : b[off + i - 1] = data[i]

(* The window as a sequence. *)
LEMMA BytesFacts ==
  ASSUME NEW b, NEW off \in Nat, NEW n \in Nat, Written(b, off, n)
  PROVE  /\ Bytes(b, off, n) \in Seq(Byte) /\ Len(Bytes(b, off, n)) = n
         /\ \A i \in 1 .. n : Bytes(b, off, n)[i] = b[off + i - 1]
<1>1. \A i \in 1 .. n : b[off + i - 1] \in Byte
  <2> TAKE i \in 1 .. n
  <2>1. off + i - 1 \in off .. off + n - 1
    OBVIOUS
  <2> QED BY <2>1 DEF Written
<1>2. Bytes(b, off, n) \in [1 .. n -> Byte]
  BY <1>1 DEF Bytes
<1>3. \A i \in 1 .. n : Bytes(b, off, n)[i] = b[off + i - 1]
  BY DEF Bytes
<1> HIDE DEF Bytes
<1>4. Bytes(b, off, n) \in Seq(Byte)
  BY <1>2, SeqDef
<1>5. Len(Bytes(b, off, n)) \in Nat /\ DOMAIN Bytes(b, off, n) = 1 .. Len(Bytes(b, off, n))
  BY <1>4, LenProperties
<1>6. DOMAIN Bytes(b, off, n) = 1 .. n
  BY <1>2
<1>7. \A k, l \in Nat : 1 .. k = 1 .. l => k = l
  <2> SUFFICES ASSUME NEW k \in Nat, NEW l \in Nat, k # l PROVE 1 .. k # 1 .. l
    OBVIOUS
  <2>1. CASE k < l
    <3>1. l \in 1 .. l /\ l \notin 1 .. k
      BY <2>1
    <3> QED BY <3>1
  <2>2. CASE l < k
    <3>1. k \in 1 .. k /\ k \notin 1 .. l
      BY <2>2
    <3> QED BY <3>1
  <2> QED BY <2>1, <2>2
<1> QED BY <1>3, <1>4, <1>5, <1>6, <1>7

(* Copied bytes are the same bytes. *)
LEMMA BytesCopied ==
  ASSUME NEW b, NEW c, NEW off \in Nat, NEW to \in Nat, NEW n \in Nat,
         Copied(c, to, b, off, n)
  PROVE  Bytes(c, to, n) = Bytes(b, off, n)
<1>1. \A i \in 1 .. n : c[to + i - 1] = b[off + i - 1]
  <2> TAKE i \in 1 .. n
  <2>1. PICK j \in 0 .. n - 1 : j = i - 1
    OBVIOUS
  <2>2. to + i - 1 = to + j /\ off + i - 1 = off + j
    BY <2>1
  <2> QED BY <2>2 DEF Copied
<1> QED BY <1>1 DEF Bytes

(* Positions first .. last of a window of n bytes at off are the k bytes at    *)
(* start, and are what SubSeq() cuts out of it.                                *)
Slice(off, n, first, last, start, k) ==
  /\ 1 <= first /\ last = first + k - 1 /\ start = off + first - 1 /\ last <= n

Cut(b, off, n, first, last, start, k) ==
  SubSeq(Bytes(b, off, n), first, last) = Bytes(b, start, k)

LEMMA BytesPart ==
  ASSUME NEW b, NEW off \in Nat, NEW n \in Nat, NEW first \in Nat, NEW last \in Nat,
         NEW start \in Nat, NEW k \in Nat,
         Slice(off, n, first, last, start, k), Written(b, off, n)
  PROVE  Cut(b, off, n, first, last, start, k)
<1>0. PICK m \in Nat : m = first - 1 /\ first = m + 1 /\ last = m + k /\ start = off + m
                      /\ m + k <= n
  BY DEF Slice
<1> DEFINE w == Bytes(b, off, n)
           s == SubSeq(w, m + 1, m + k)
           t == Bytes(b, start, k)
<1>1. /\ Len(w) = n /\ \A i \in 1 .. n : w[i] = b[off + i - 1]
      /\ w \in Seq(Byte)
  BY BytesFacts
<1>2. t \in Seq(Byte) /\ Len(t) = k /\ \A i \in 1 .. k : t[i] = b[start + i - 1]
  <2>1. Written(b, start, k)
    <3>1. ASSUME NEW i \in start .. start + k - 1 PROVE b[i] \in Byte
      <4>1. i \in off .. off + n - 1
        BY <1>0
      <4> QED BY <4>1 DEF Written
    <3> QED BY <3>1 DEF Written
  <2> QED BY <2>1, BytesFacts
<1> HIDE DEF w, t
<1>3. \A i \in m + 1 .. m + k : w[i] \in Byte
  <2> TAKE i \in m + 1 .. m + k
  <2>1. i \in 1 .. n
    BY <1>0
  <2> QED BY <1>1, <2>1, ElementOfSeq
<1>4. /\ s \in Seq(Byte) /\ Len(s) = k
      /\ \A i \in 1 .. k : s[i] = w[m + 1 + i - 1]
  <2>1. /\ s \in Seq(Byte)
        /\ Len(s) = IF m + 1 <= m + k THEN m + k - (m + 1) + 1 ELSE 0
        /\ \A i \in 1 .. m + k - (m + 1) + 1 : s[i] = w[m + 1 + i - 1]
    <3>1. m + 1 \in Int /\ m + k \in Int
      BY <1>0
    <3> HIDE DEF s
    <3>2. s = SubSeq(w, m + 1, m + k)
      BY DEF s
    <3> QED BY <1>3, <3>1, <3>2, SubSeqProperties
  <2> HIDE DEF s
  <2>2. m + k - (m + 1) + 1 = k /\ (m + 1 <= m + k \/ k = 0)
    BY <1>0
  <2> QED BY <2>1, <2>2
<1> HIDE DEF s
<1>5. \A i \in 1 .. k : s[i] = t[i]
  <2> TAKE i \in 1 .. k
  <2>1. m + 1 + i - 1 = m + i /\ m + i \in 1 .. n /\ off + (m + i) - 1 = start + i - 1
    BY <1>0
  <2>2. s[i] = w[m + i] /\ w[m + i] = b[off + (m + i) - 1]
    BY <1>1, <1>4, <2>1
  <2> QED BY <1>2, <2>1, <2>2
<1>6. s = t
  BY <1>0, <1>2, <1>4, <1>5, SeqEqual
<1> QED BY <1>0, <1>6 DEF s, t, w, Cut

(* Data stored behind the window is appended to it. *)
LEMMA BytesJoined ==
  ASSUME FifoAssumption, NEW b, NEW off \in Nat, NEW n \in Nat, NEW data \in Data,
         Written(b, off, n), Holds(b, off + n, data)
  PROVE  Bytes(b, off, n + Len(data)) = Bytes(b, off, n) \o data
<1> DEFINE k == Len(data)
           w == Bytes(b, off, n)
           v == Bytes(b, off, n + k)
<1>1. k \in Nat /\ data \in [1 .. k -> Byte] /\ data \in Seq(Byte)
  <2>1. k \in Nat /\ data \in [1 .. k -> Byte]
    BY DataProperties
  <2> HIDE DEF k
  <2> QED BY <2>1, SeqDef
<1>2. w \in Seq(Byte) /\ Len(w) = n /\ \A i \in 1 .. n : w[i] = b[off + i - 1]
  BY BytesFacts
<1>3. Written(b, off, n + k)
  <2> SUFFICES ASSUME NEW i \in off .. off + (n + k) - 1 PROVE b[i] \in Byte
    BY DEF Written
  <2>1. CASE i < off + n
    <3>1. i \in off .. off + n - 1
      BY <2>1
    <3> QED BY <3>1 DEF Written
  <2>2. CASE i >= off + n
    <3>1. PICK j \in Int : j = i - (off + n) + 1
      BY <1>1
    <3>2. j \in 1 .. k /\ off + n + j - 1 = i
      BY <1>1, <2>2, <3>1
    <3>3. b[i] = data[j]
      BY <3>2 DEF Holds
    <3> QED BY <1>1, <3>2, <3>3
  <2> QED BY <1>1, <2>1, <2>2
<1>4. /\ v \in Seq(Byte) /\ Len(v) = n + k
      /\ \A i \in 1 .. n + k : v[i] = b[off + i - 1]
  <2>1. n + k \in Nat
    BY <1>1
  <2> QED BY <1>3, <2>1, BytesFacts
<1>5. /\ w \o data \in Seq(Byte) /\ Len(w \o data) = n + k
      /\ \A i \in 1 .. n + k : (w \o data)[i] = IF i <= n THEN w[i] ELSE data[i - n]
  <2> HIDE DEF w
  <2> QED BY <1>1, <1>2, ConcatProperties
<1> HIDE DEF w, v
<1>6. \A i \in 1 .. n + k : v[i] = (w \o data)[i]
  <2> TAKE i \in 1 .. n + k
  <2>1. CASE i <= n
    <3>1. i \in 1 .. n
      BY <1>1, <2>1
    <3> QED BY <1>2, <1>4, <1>5, <2>1, <3>1
  <2>2. CASE ~(i <= n)
    <3>1. PICK j \in Int : j = i - n
      BY <1>1
    <3>2. j \in 1 .. k /\ off + n + j - 1 = off + i - 1
      BY <1>1, <2>2, <3>1
    <3>3. b[off + i - 1] = data[j]
      BY <3>2 DEF k, Holds
    <3> QED BY <1>4, <1>5, <2>2, <3>1, <3>3
  <2> QED BY <2>1, <2>2
<1>7. v = w \o data
  BY <1>1, <1>4, <1>5, <1>6, SeqEqual
<1> QED BY <1>7 DEF v, w
------------------------------------------------------------------------------
(* Refinement: each call is a call of a byte queue. *)
WindowOf == Bytes(buf, lower, fifo_len)

LEMMA WindowFacts ==
  ASSUME Inv
  PROVE  /\ lower \in Nat /\ upper \in Nat /\ fifo_len \in Nat /\ lower + fifo_len = upper
         /\ Written(buf, lower, fifo_len)
         /\ WindowOf \in Seq(Byte) /\ Len(WindowOf) = fifo_len
<1>1. /\ lower \in Nat /\ upper \in Nat /\ fifo_len \in Nat /\ lower + fifo_len = upper
  BY DEF Inv, BufferOK, WindowInBuffer, fifo_len
<1>2. Written(buf, lower, fifo_len)
  BY <1>1 DEF Inv, WindowInitialised, Written
<1> QED BY <1>1, <1>2, BytesFacts DEF WindowOf

LEMMA StillNothing == \A b : Bytes(b, 0, 0) = <<>>
<1> SUFFICES ASSUME NEW b PROVE Bytes(b, 0, 0) = <<>>
  OBVIOUS
<1>1. Written(b, 0, 0)
  BY DEF Written
<1>2. Bytes(b, 0, 0) \in Seq(Byte) /\ Len(Bytes(b, 0, 0)) = 0
  BY <1>1, BytesFacts
<1> QED BY <1>2, EmptySeq

LEMMA InitQueue == Init => Queue!Init
<1> SUFFICES ASSUME Init PROVE Queue!Init
  OBVIOUS
<1>1. lower = 0 /\ fifo_len = 0
  BY DEF Init, fifo_len
<1>2. Bytes(buf, lower, fifo_len) = <<>>
  BY <1>1, StillNothing
<1> QED BY <1>2 DEF Init, Queue!Init

(* A store leaves what is in front of it and puts the data where it should. *)
LEMMA StoreKeeps ==
  ASSUME FifoAssumption, NEW b, NEW cap \in Nat, NEW up \in Nat, NEW low \in Nat, NEW data \in Data,
         b \in [0 .. cap - 1 -> Byte \cup {Undef}], up + Len(data) <= cap, low <= up
  PROVE  /\ \A i \in low .. up - 1 : Store(b, up, data)[i] = b[i]
         /\ Holds(Store(b, up, data), up, data)
<1>1. Len(data) \in Nat
  BY DataProperties
<1>2. Store(b, up, data) = [i \in 0 .. cap - 1 |->
          IF up <= i /\ i < up + Len(data) THEN data[i - up + 1] ELSE b[i]]
  BY DEF Store
<1>3. ASSUME NEW i \in 1 .. Len(data) PROVE Store(b, up, data)[up + i - 1] = data[i]
  <2>1. PICK j \in Int : j = up + i - 1
    BY <1>1
  <2>2. j \in 0 .. cap - 1 /\ up <= j /\ j < up + Len(data) /\ j - up + 1 = i
    BY <1>1, <2>1
  <2>3. Store(b, up, data)[j] = data[i]
    BY <1>2, <2>2
  <2> QED BY <2>1, <2>3
<1>4. ASSUME NEW i \in low .. up - 1 PROVE Store(b, up, data)[i] = b[i]
  <2>1. i \in 0 .. cap - 1 /\ ~(up <= i)
    BY <1>1
  <2> QED BY <1>2, <2>1
<1> QED BY <1>3, <1>4 DEF Holds

LEMMA WriteQueue ==
  ASSUME FifoAssumption, Inv, NEW data \in Data, fifo_write(data)
  PROVE  Queue!Write
<1>1. call' = [op |-> "write", data |-> data] /\ Len(data) \in Nat
  BY DataProperties DEF fifo_write
<1>2. fifo_len' = upper' - lower'
  BY DEF fifo_len
<1>3. CASE WriteInPlace(data) \/ WriteGrow(data)
  <2>1. /\ upper' = upper + Len(data) /\ lower' = lower
        /\ result' = [ret |-> 0, data |-> <<>>]
    BY <1>3 DEF WriteInPlace, WriteGrow, Returned
  <2>2. /\ \A i \in lower .. upper - 1 : buf'[i] = buf[i]
        /\ Holds(buf', upper, data)
    <3>1. /\ buf \in [0 .. capacity - 1 -> Byte \cup {Undef}] /\ lower <= upper
          /\ upper <= capacity
          /\ lower \in Nat /\ upper \in Nat /\ capacity \in Nat
      BY DEF Inv, BufferOK, WindowInBuffer
    <3>2. CASE WriteInPlace(data)
      <4>1. buf' = Store(buf, upper, data) /\ upper + Len(data) <= capacity
        BY <3>2 DEF WriteInPlace
      <4>2. /\ \A i \in lower .. upper - 1 : Store(buf, upper, data)[i] = buf[i]
            /\ Holds(Store(buf, upper, data), upper, data)
        BY <3>1, <4>1, StoreKeeps
      <4> QED BY <4>1, <4>2
    <3>3. CASE WriteGrow(data)
      <4> DEFINE cap == (upper + Len(data)) * 2
                 b == Realloc(buf, cap)
      <4>1. buf' = Store(b, upper, data) /\ upper + Len(data) > capacity
        <5>1. fifo_len + Len(data) <= MaxLen
          BY DEF fifo_write
        <5>2. NewCapacity(Len(data)) = cap
          BY <5>1, NoWrap
        <5> QED BY <3>3, <5>2 DEF WriteGrow
      <4>2. cap \in Nat /\ capacity <= cap /\ upper + Len(data) <= cap
        BY <1>1, <3>1, <4>1
      <4> HIDE DEF cap
      <4>3. /\ b \in [0 .. cap - 1 -> Byte \cup {Undef}]
            /\ \A i \in 0 .. capacity - 1 : b[i] = buf[i]
        BY <3>1, <4>2, GrowInv
      <4> HIDE DEF b
      <4>4. /\ \A i \in lower .. upper - 1 : Store(b, upper, data)[i] = b[i]
            /\ Holds(Store(b, upper, data), upper, data)
        BY <3>1, <4>2, <4>3, StoreKeeps
      <4>5. \A i \in lower .. upper - 1 : i \in 0 .. capacity - 1
        BY <3>1
      <4> QED BY <4>1, <4>3, <4>4, <4>5
    <3> QED BY <1>3, <3>2, <3>3
  <2>3. /\ fifo_len' = fifo_len + Len(data) /\ lower + fifo_len = upper
        /\ lower \in Nat /\ fifo_len \in Nat /\ upper \in Nat
    BY <1>1, <1>2, <2>1, WindowFacts
  <2>4. Copied(buf', lower, buf, lower, fifo_len)
    <3>1. ASSUME NEW i \in 0 .. fifo_len - 1 PROVE buf'[lower + i] = buf[lower + i]
      <4>1. PICK j \in lower .. upper - 1 : j = lower + i
        BY <2>3
      <4> QED BY <2>2, <4>1
    <3> QED BY <3>1 DEF Copied
  <2>5. Written(buf', lower, fifo_len)
    <3>1. lower + fifo_len - 1 = upper - 1
      BY <2>3
    <3> QED BY <2>2, <3>1 DEF Written, Inv, WindowInitialised
  <2>6. Bytes(buf', lower, fifo_len + Len(data)) = Bytes(buf', lower, fifo_len) \o data
    BY <2>2, <2>3, <2>5, BytesJoined
  <2>7. Bytes(buf', lower, fifo_len) = Bytes(buf, lower, fifo_len)
    BY <2>3, <2>4, BytesCopied
  <2>8. Bytes(buf', lower', fifo_len') = Bytes(buf, lower, fifo_len) \o data
    BY <2>1, <2>3, <2>6, <2>7
  <2>9. call'.op = "write" /\ call'.data = data
    BY <1>1
  <2> QED BY <2>1, <2>8, <2>9 DEF Queue!Write, Queue!Returned
<1>4. CASE WriteRefused(data)
  <2>1. UNCHANGED <<buf, lower, upper>> /\ result' = [ret |-> -1, data |-> <<>>]
    BY <1>4 DEF WriteRefused, fifo, Returned
  <2>2. fifo_len' = fifo_len
    BY <1>2, <2>1 DEF fifo_len
  <2>3. call'.op = "write"
    BY <1>1
  <2> QED BY <2>1, <2>2, <2>3 DEF Queue!Write, Queue!Returned
<1> QED BY <1>3, <1>4 DEF fifo_write

LEMMA ReadQueue ==
  ASSUME Inv, NEW bytes \in Nat, fifo_read(bytes)
  PROVE  Queue!Read
<1> DEFINE n == IF bytes > fifo_len THEN fifo_len ELSE bytes
           low == lower + n
           len == upper - low
           w == Bytes(buf, lower, fifo_len)
<1>1. /\ n \in Nat /\ low \in Nat /\ len \in Nat /\ n + len = fifo_len /\ n <= fifo_len
      /\ lower \in Nat /\ fifo_len \in Nat /\ low + len = upper /\ Len(w) = fifo_len
      /\ Written(buf, lower, fifo_len)
  <2>1. /\ lower \in Nat /\ fifo_len \in Nat /\ lower + fifo_len = upper
        /\ Len(w) = fifo_len /\ Written(buf, lower, fifo_len)
    BY WindowFacts DEF WindowOf
  <2>2. n \in Nat /\ n <= fifo_len
    BY <2>1
  <2> HIDE DEF n
  <2>3. low \in Nat /\ len \in Nat /\ n + len = fifo_len /\ low + len = upper
    BY <2>1, <2>2
  <2> QED BY <2>1, <2>2, <2>3
<1>2. /\ call'.op = "read" /\ call'.bytes = bytes
      /\ result' = [ret |-> n, data |-> Bytes(buf, lower, n)]
  BY DEF fifo_read, Returned
<1>3. Bytes(buf', lower', fifo_len') = Bytes(buf, low, len)
  <2>1. CASE fifo_len > 0 /\ len <= capacity \div 4 /\ capacity >= 8
    <3>1. Compacted(low, len)
      BY <2>1 DEF fifo_read
    <3> HIDE DEF n, low, len
    <3>2. lower' = 0 /\ fifo_len' = len
      <4>1. lower' = 0 /\ upper' = len
        BY <3>1 DEF Compacted
      <4> QED BY <1>1, <4>1 DEF fifo_len
    <3>3. capacity \in Nat /\ upper <= capacity
      BY DEF Inv, BufferOK, WindowInBuffer
    <3>4. capacity \div 2 \in Nat /\ len <= capacity \div 2 /\ capacity \div 2 <= capacity
      BY <1>1, <2>1, <3>3
    <3>5. low + len <= capacity
      BY <1>1, <3>3
    <3>6. BufferOK
      BY DEF Inv
    <3>7. \A i \in 0 .. len - 1 : buf'[i] = buf[low + i]
      BY <1>1, <3>1, <3>4, <3>5, <3>6, CompactedKeeps
    <3>8. Copied(buf', 0, buf, low, len)
      BY <1>1, <3>7 DEF Copied
    <3> QED BY <1>1, <3>2, <3>8, BytesCopied
  <2>2. CASE ~(fifo_len > 0 /\ len <= capacity \div 4 /\ capacity >= 8)
    <3>1. lower' = low /\ UNCHANGED <<buf, upper, capacity>>
      BY <2>2 DEF fifo_read
    <3>2. fifo_len' = len
      BY <3>1 DEF fifo_len
    <3> QED BY <3>1, <3>2
  <2> QED BY <2>1, <2>2
<1>4. SubSeq(w, 1, n) = Bytes(buf, lower, n)
  <2> HIDE DEF n, low, len
  <2>1. Slice(lower, fifo_len, 1, n, lower, n)
    BY <1>1 DEF Slice
  <2>2. Cut(buf, lower, fifo_len, 1, n, lower, n)
    BY <1>1, <2>1, BytesPart
  <2> QED BY <2>2 DEF Cut
<1>5. SubSeq(w, n + 1, Len(w)) = Bytes(buf, low, len)
  <2>1. low = lower + n
    OBVIOUS
  <2> HIDE DEF n, low, len
  <2>2. Slice(lower, fifo_len, n + 1, fifo_len, low, len)
    BY <1>1, <2>1 DEF Slice
  <2>3. Cut(buf, lower, fifo_len, n + 1, fifo_len, low, len)
    BY <1>1, <2>2, BytesPart
  <2> QED BY <1>1, <2>3 DEF Cut
<1>6. n = IF call'.bytes > Len(w) THEN Len(w) ELSE call'.bytes
  BY <1>1, <1>2
<1> HIDE DEF n, low, len
<1> QED BY <1>2, <1>3, <1>4, <1>5, <1>6 DEF Queue!Read, Queue!Returned

LEMMA EraseQueue ==
  ASSUME Inv, NEW bytes \in Nat, fifo_erase_tail(bytes)
  PROVE  Queue!EraseTail
<1> DEFINE w == Bytes(buf, lower, fifo_len)
<1>1. /\ lower \in Nat /\ fifo_len \in Nat /\ lower + fifo_len = upper /\ Len(w) = fifo_len
      /\ Written(buf, lower, fifo_len)
  BY WindowFacts DEF WindowOf
<1>2. /\ call'.op = "erase" /\ call'.bytes = bytes /\ UNCHANGED <<buf, lower>>
      /\ fifo_len' = upper' - lower'
  BY DEF fifo_erase_tail, fifo_len
<1>3. CASE fifo_len < bytes
  <2>1. upper' = upper /\ result' = [ret |-> -1, data |-> <<>>]
    BY <1>3 DEF fifo_erase_tail, Returned
  <2>2. fifo_len' = fifo_len /\ call'.bytes > Len(w)
    BY <1>1, <1>2, <1>3, <2>1 DEF fifo_len
  <2> HIDE DEF w
  <2>3. Bytes(buf', lower', fifo_len') = w
    BY <1>2, <2>2 DEF w
  <2> QED BY <1>2, <2>1, <2>2, <2>3 DEF Queue!EraseTail, Queue!Returned, w
<1>4. CASE ~(fifo_len < bytes)
  <2>1. upper' = upper - bytes /\ result' = [ret |-> 0, data |-> <<>>]
    BY <1>4 DEF fifo_erase_tail, Returned
  <2>2. fifo_len' = fifo_len - bytes /\ ~(call'.bytes > Len(w)) /\ fifo_len - bytes \in Nat
    BY <1>1, <1>2, <1>4, <2>1
  <2>3. SubSeq(w, 1, fifo_len - bytes) = Bytes(buf, lower, fifo_len - bytes)
    <3>1. Slice(lower, fifo_len, 1, fifo_len - bytes, lower, fifo_len - bytes)
      BY <1>1, <2>2 DEF Slice
    <3>2. Cut(buf, lower, fifo_len, 1, fifo_len - bytes, lower, fifo_len - bytes)
      BY <1>1, <2>2, <3>1, BytesPart
    <3> QED BY <3>2 DEF Cut
  <2>4. Bytes(buf', lower', fifo_len') = SubSeq(w, 1, Len(w) - call'.bytes)
    BY <1>1, <1>2, <2>2, <2>3
  <2> QED BY <1>2, <2>1, <2>2, <2>4 DEF Queue!EraseTail, Queue!Returned
<1> QED BY <1>3, <1>4

LEMMA NextQueue ==
  ASSUME FifoAssumption, Inv, [Next]_vars
  PROVE  [Queue!Next]_(Queue!vars)
<1>1. CASE fifo_create \/ fifo_flush
  <2>1. lower' = 0 /\ upper' = 0 /\ result' = [ret |-> 0, data |-> <<>>]
        /\ call' \in {[op |-> "create"], [op |-> "flush"]}
    BY <1>1 DEF fifo_create, fifo_flush, Returned
  <2>2. lower' = 0 /\ fifo_len' = 0
    BY <2>1 DEF fifo_len
  <2>3. Bytes(buf', lower', fifo_len') = <<>>
    BY <2>2, StillNothing
  <2> QED BY <2>1, <2>3 DEF Queue!Next, Queue!Create, Queue!Flush, Queue!Returned
<1>2. ASSUME NEW bytes \in 0 .. MaxLen + 1, fifo_read(bytes) \/ fifo_erase_tail(bytes)
      PROVE  Queue!Next
  <2>1. bytes \in Nat
    BY DEF FifoAssumption
  <2> QED BY <1>2, <2>1, ReadQueue, EraseQueue DEF Queue!Next
<1>3. ASSUME NEW data \in Data, fifo_write(data) PROVE Queue!Next
  BY <1>3, WriteQueue DEF Queue!Next
<1>4. CASE UNCHANGED vars
  <2>1. UNCHANGED <<buf, lower, upper, call, result>>
    BY <1>4 DEF vars
  <2>2. fifo_len' = fifo_len
    BY <2>1 DEF fifo_len
  <2> QED BY <2>1, <2>2 DEF Queue!vars
<1> QED BY <1>1, <1>2, <1>3, <1>4 DEF Next

(* A fifo is a byte queue to its users: every call returns what the queue of  *)
(* the bytes written and not yet read returns, and leaves that queue in the   *)
(* buffer, whenever the buffer grows, is compacted or halved, and whichever   *)
(* realloc() fails.                                                           *)
THEOREM QueueSpecHolds == FifoAssumption => (Spec => QueueSpec)
<1> SUFFICES ASSUME FifoAssumption PROVE Spec => QueueSpec OBVIOUS
<1>1. Inv /\ [Next]_vars => [Queue!Next]_(Queue!vars)
  BY NextQueue
<1>2. Spec => []Inv
  BY InvHolds
<1> QED BY <1>1, <1>2, InitQueue, PTL DEF Spec, QueueSpec, Queue!Spec
===============================================================================
