---------------------------- MODULE FramingProofs -----------------------------
(***************************************************************************)
(* The bytes of Framing make a channel of whole messages, for every header, *)
(* every limit and every size of the socket buffer.                        *)
(*                                                                         *)
(* Reads and writes only move bytes between the three buffers, so that what *)
(* counts is the stream they make together.  The induction says where in it *)
(* each message begins: the positions are those of a function that exists.  *)
(***************************************************************************)
EXTENDS Framing, SequenceTheorems, TLAPS

Byte == [msg : Nat, len : Nat]

Stream == inputbuffer \o (wire \o toWrite)

Receiving == reader \in {"idle", "header", "body"}

Typed ==
  /\ sent \in Seq(Nat) /\ received \in Seq(Nat)
  /\ toWrite \in Seq(Byte) /\ wire \in Seq(Byte) /\ inputbuffer \in Seq(Byte)
  /\ writer \in {"idle", "writing", "failed", "gone"}
  /\ reader \in {"idle", "header", "body", "eof", "error", "gone"}
  /\ want \in Nat /\ want <= MaxMsg /\ Len(wire) <= Room

(* What each end knows of its own call. *)
Calls ==
  /\ writer = "writing" <=> toWrite # <<>>
  /\ reader \notin {"header", "body"} => inputbuffer = <<>>
  /\ reader \in {"header", "body"} => Len(inputbuffer) <= want
  /\ reader = "header" => want = Header
  /\ reader \in {"eof", "error"} => writer = "gone"
  /\ Len(received) <= Len(sent)

(* Message k begins after the first start[k] bytes of the stream s.  Of the  *)
(* message that is being received, the one after r others, a header may have *)
(* been taken already; n messages have been sent completely.                 *)
Begun(start, r, in, length) ==
  /\ start[r + 1] = IF in = "body" THEN 0 - Header ELSE 0
  /\ in = "body" => start[r + 2] = length

Sized(start, r, n) ==
  \A k \in r + 1 .. n + 1 :
    start[k] + Header <= start[k + 1] /\ start[k + 1] <= start[k] + MaxMsg

Rising(start, r, n) == \A j, k \in r + 1 .. n + 2 : j <= k => start[j] <= start[k]

BodyLength(start, k) == start[k + 1] - start[k] - Header

AsSent(start, r, messages) ==
  \A k \in r + 1 .. Len(messages) : messages[k] = BodyLength(start, k)

Labelled(start, r, n, s) ==
  \A k \in r + 1 .. n + 1 : \A i \in 1 .. Len(s) :
    start[k] < i /\ i <= start[k + 1] => s[i] = [msg |-> k, len |-> BodyLength(start, k)]

(* Where the stream ends: at the end of a message, unless the sender died.   *)
Ends(start, n, length) ==
  /\ writer \in {"idle", "failed"} => length = start[n + 1]
  /\ writer = "writing" =>
       length = start[n + 2] /\ start[n + 1] <= Len(inputbuffer) + Len(wire)
  /\ writer = "gone" => length < start[n + 2]

LaidOut(start) ==
  LET r == Len(received)  n == Len(sent)
  IN /\ Begun(start, r, reader, want)
     /\ Sized(start, r, n) /\ Rising(start, r, n) /\ AsSent(start, r, sent)
     /\ Labelled(start, r, n, Stream) /\ Ends(start, n, Len(Stream))

Inv ==
  /\ Typed /\ Calls
  /\ Receiving => \E start \in [Nat -> Int] : LaidOut(start)
-------------------------------------------------------------------------------
LEMMA InitInv == ASSUME FramingAssumption, Init PROVE Inv
<1>1. Typed /\ Calls
  BY DEF FramingAssumption, Init, Typed, Calls
<1>2. Stream = <<>> /\ Len(sent) = 0 /\ Len(received) = 0
  BY DEF Init, Stream
<1> DEFINE start == [k \in Nat |-> IF k = 2 THEN Header ELSE 0]
<1>3. start \in [Nat -> Int] /\ start[1] = 0 /\ start[2] = Header
  BY DEF FramingAssumption
<1> HIDE DEF start
<1>4. LaidOut(start)
  BY <1>2, <1>3 DEF Init, LaidOut, Begun, Sized, Rising, AsSent, Labelled, Ends, FramingAssumption
<1> QED BY <1>1, <1>3, <1>4 DEF Inv

Regrouped(a, b, c) == (a \o b) \o c = a \o (b \o c)

LEMMA Regrouping ==
  ASSUME NEW X, NEW a \in Seq(X), NEW b \in Seq(X), NEW c \in Seq(X)
  PROVE  Regrouped(a, b, c)
BY ConcatAssociative DEF Regrouped

(* Bytes that go from one buffer to the next change nothing in the stream.   *)
Parts(b, p, q, n) ==
  n <= Len(b) /\ p = SubSeq(b, 1, n) /\ q = SubSeq(b, n + 1, Len(b))

Passed(a, b, p, q, n) ==
  /\ p \in Seq(Byte) /\ q \in Seq(Byte) /\ Len(p) = n /\ Len(p) + Len(q) = Len(b)
  /\ a \o p \in Seq(Byte) /\ Len(a \o p) = Len(a) + n
  /\ (a \o p) \o q = a \o b

LEMMA Moved ==
  ASSUME NEW a \in Seq(Byte), NEW b \in Seq(Byte), NEW n \in Nat, NEW p, NEW q, Parts(b, p, q, n)
  PROVE  Passed(a, b, p, q, n)
<1>0. Len(b) \in Nat /\ Len(a) \in Nat /\ n <= Len(b)
      /\ p = SubSeq(b, 1, n) /\ q = SubSeq(b, n + 1, Len(b))
  BY LenProperties DEF Parts
<1>1. p \in Seq(Byte) /\ Len(p) = n
  BY <1>0, SubSeqProperties, ElementOfSeq
<1>2. q \in Seq(Byte) /\ Len(q) = Len(b) - n
  BY <1>0, SubSeqProperties, ElementOfSeq
<1>3. p \o q = b
  <2>1. 1 \in 1 .. Len(b) + 1 /\ n \in 1 - 1 .. Len(b) /\ Len(b) \in n .. Len(b)
    BY <1>0
  <2>2. SubSeq(b, 1, n) \o SubSeq(b, n + 1, Len(b)) = SubSeq(b, 1, Len(b))
    BY <2>1, ConcatAdjacentSubSeq
  <2> QED BY <1>0, <2>2, SubSeqFull
<1>4. a \o p \in Seq(Byte) /\ Len(a \o p) = Len(a) + n
  BY <1>1, ConcatProperties
<1>5. (a \o p) \o q = a \o b
  <2>1. Regrouped(a, p, q) BY <1>1, <1>2, Regrouping
  <2> QED BY <1>3, <2>1 DEF Regrouped
<1>6. Len(p) + Len(q) = Len(b)
  <2>1. PICK m \in Nat, k \in Int : m = Len(b) /\ k = Len(q) /\ k = m - n BY <1>0, <1>2
  <2> QED BY <1>1, <2>1
<1> QED BY <1>1, <1>2, <1>4, <1>5, <1>6, Zenon DEF Passed

LEMMA LengthFacts ==
  ASSUME Typed, Calls
  PROVE  /\ Len(wire) \in Nat /\ Len(toWrite) \in Nat /\ Len(sent) \in Nat
         /\ Len(received) \in Nat /\ Len(inputbuffer) \in Nat /\ Len(received) <= Len(sent)
<1>1. Len(received) <= Len(sent) BY DEF Calls
<1>2. /\ wire \in Seq(Byte) /\ toWrite \in Seq(Byte) /\ inputbuffer \in Seq(Byte)
      /\ sent \in Seq(Nat) /\ received \in Seq(Nat)
  BY DEF Typed
<1> QED BY <1>1, <1>2, LenProperties

LEMMA StreamFacts ==
  ASSUME Typed
  PROVE  /\ Stream \in Seq(Byte)
         /\ Len(Stream) = Len(inputbuffer) + Len(wire) + Len(toWrite)
         /\ \A i \in 1 .. Len(inputbuffer) : Stream[i] = inputbuffer[i]
         /\ \A i \in 1 .. Len(wire) : Stream[Len(inputbuffer) + i] = wire[i]
         /\ \A i \in 1 .. Len(toWrite) : Stream[Len(inputbuffer) + Len(wire) + i] = toWrite[i]
         /\ inputbuffer = <<>> => Stream = wire \o toWrite
<1> DEFINE w == wire \o toWrite
<1>1. w \in Seq(Byte) /\ Len(w) = Len(wire) + Len(toWrite)
      /\ \A i \in 1 .. Len(w) : w[i] = IF i <= Len(wire) THEN wire[i] ELSE toWrite[i - Len(wire)]
  BY ConcatProperties DEF Typed
<1> HIDE DEF w
<1>2. inputbuffer \o w \in Seq(Byte) /\ Len(inputbuffer \o w) = Len(inputbuffer) + Len(w)
      /\ \A i \in 1 .. Len(inputbuffer) + Len(w) : (inputbuffer \o w)[i] =
           IF i <= Len(inputbuffer) THEN inputbuffer[i] ELSE w[i - Len(inputbuffer)]
  BY <1>1, ConcatProperties DEF Typed
<1>3. Stream = inputbuffer \o w BY DEF Stream, w
<1>4. Len(inputbuffer) \in Nat /\ Len(wire) \in Nat /\ Len(toWrite) \in Nat BY DEF Typed
<1>5. \A i \in 1 .. Len(inputbuffer) : Stream[i] = inputbuffer[i]
  BY <1>1, <1>2, <1>3, <1>4
<1>6. \A i \in 1 .. Len(wire) : Stream[Len(inputbuffer) + i] = wire[i]
  BY <1>1, <1>2, <1>3, <1>4
<1>7. \A i \in 1 .. Len(toWrite) : Stream[Len(inputbuffer) + Len(wire) + i] = toWrite[i]
  <2> SUFFICES ASSUME NEW i \in 1 .. Len(toWrite)
               PROVE  Stream[Len(inputbuffer) + Len(wire) + i] = toWrite[i]
    OBVIOUS
  <2> DEFINE j == Len(wire) + i
  <2>1. w[j] = toWrite[i] BY <1>1, <1>4
  <2>2. Stream[Len(inputbuffer) + j] = w[j] BY <1>1, <1>2, <1>3, <1>4
  <2>3. Len(inputbuffer) + Len(wire) + i = Len(inputbuffer) + j BY <1>4
  <2> QED BY <2>1, <2>2, <2>3
<1>8. inputbuffer = <<>> => Stream = w BY <1>1, <1>3, ConcatEmptySeq
<1>9. Stream \in Seq(Byte) /\ Len(Stream) = Len(inputbuffer) + Len(wire) + Len(toWrite)
  BY <1>1, <1>2, <1>3, <1>4
<1> QED BY <1>5, <1>6, <1>7, <1>8, <1>9 DEF w

(* Where every conjunct of LaidOut sees what it saw before. *)
LEMMA Unmoved ==
  ASSUME Receiving, Stream' = Stream, UNCHANGED <<sent, received>>,
         (reader' = "body") = (reader = "body"), reader = "body" => want' = want,
         NEW start, LaidOut(start), Ends(start, Len(sent), Len(Stream))'
  PROVE  LaidOut(start)'
<1>1. Begun(start, Len(received), reader, want)' BY DEF LaidOut, Begun
<1> QED BY <1>1 DEF LaidOut
-------------------------------------------------------------------------------
LEMMA BytesFacts ==
  ASSUME FramingAssumption, Typed, NEW len \in Lengths
  PROVE  /\ Bytes(len) \in Seq(Byte) /\ Len(Bytes(len)) = Header + len
         /\ Bytes(len) # <<>>
         /\ \A i \in 1 .. Header + len : Bytes(len)[i] = [msg |-> Len(sent) + 1, len |-> len]
<1>1. Header + len \in Nat \ {0} /\ len \in Nat BY DEF FramingAssumption
<1>2. [msg |-> Len(sent) + 1, len |-> len] \in Byte BY <1>1 DEF Typed, Byte
<1> QED BY <1>1, <1>2 DEF Bytes

(* The bytes of the message after n others; its body has len bytes. *)
Message(bytes, n, len) ==
  /\ Len(bytes) = Header + len
  /\ \A i \in 1 .. Header + len : bytes[i] = [msg |-> n + 1, len |-> len]

(* One more message begins, len + Header bytes after the last. *)
Extends(start, old, r, n, end, len) ==
  /\ start[n + 1] = end /\ start[n + 2] = end + Header + len
  /\ \A k \in Nat : k # n + 2 => start[k] = old[k]

Stop(start, n, end) == start[n + 1] = end

LEMMA NewStart ==
  ASSUME NEW r \in Nat, NEW n \in Nat, r <= n, NEW in, NEW length \in Nat,
         NEW len \in Nat, FramingAssumption, valid_message(len),
         NEW old \in [Nat -> Int], NEW end \in Nat, Stop(old, n, end),
         Begun(old, r, in, length), Sized(old, r, n), Rising(old, r, n)
  PROVE  \E start \in [Nat -> Int] :
           /\ Begun(start, r, in, length) /\ Sized(start, r, n) /\ Rising(start, r, n)
           /\ Extends(start, old, r, n, end, len)
<1>0. Header \in Nat /\ Header > 0 /\ MaxMsg \in Nat /\ Header + len <= MaxMsg /\ old[n + 1] = end
  BY DEF FramingAssumption, valid_message, Stop
<1> DEFINE start == [old EXCEPT ![n + 2] = end + Header + len]
<1>1. /\ start \in [Nat -> Int] /\ start[n + 1] = end
      /\ start[n + 2] = end + Header + len
      /\ \A k \in Nat : k # n + 2 => start[k] = old[k]
  BY <1>0
<1> HIDE DEF start
<1>3. Begun(start, r, in, length)
  <2>1. in = "body" => r # n BY <1>0 DEF Begun
  <2> QED BY <1>1, <2>1 DEF Begun
<1>4. Sized(start, r, n) BY <1>0, <1>1 DEF Sized
<1>5. Rising(start, r, n)
  <2> SUFFICES ASSUME NEW j \in r + 1 .. n + 2, NEW k \in r + 1 .. n + 2, j <= k
               PROVE  start[j] <= start[k]
    BY DEF Rising
  <2>1. CASE k # n + 2 BY <1>1, <2>1 DEF Rising
  <2>2. CASE j = n + 2 BY <1>1, <2>2
  <2>3. CASE k = n + 2 /\ j # n + 2
    <3>1. old[j] <= old[n + 1] BY <2>3 DEF Rising
    <3> QED BY <1>0, <1>1, <2>3, <3>1
  <2> QED BY <2>1, <2>2, <2>3
<1>6. Extends(start, old, r, n, end, len) BY <1>1 DEF Extends
<1> QED BY <1>1, <1>3, <1>4, <1>5, <1>6

(* Its bytes are put behind the stream. *)
Grown(start, n, end, s) == start[n + 1] = end /\ start[n + 2] = Len(s)

LEMMA Extended ==
  ASSUME NEW r \in Nat, NEW n \in Nat, r <= n, NEW in, NEW length \in Nat,
         NEW messages \in Seq(Nat), Len(messages) = n, NEW s \in Seq(Byte), NEW len \in Nat,
         FramingAssumption, valid_message(len),
         NEW old \in [Nat -> Int], Begun(old, r, in, length), Sized(old, r, n),
         Rising(old, r, n), AsSent(old, r, messages), Labelled(old, r, n, s),
         NEW end \in Nat, Len(s) = end, Stop(old, n, end),
         NEW more \in Seq(Byte), Message(more, n, len)
  PROVE  \E start \in [Nat -> Int] :
           /\ Begun(start, r, in, length) /\ Sized(start, r, n) /\ Rising(start, r, n)
           /\ AsSent(start, r, messages) /\ Labelled(start, r, n, s \o more)
           /\ Grown(start, n, end, s \o more)
<1>0. Header \in Nat /\ Header > 0 /\ MaxMsg \in Nat /\ Header + len <= MaxMsg /\ old[n + 1] = end
  BY DEF FramingAssumption, valid_message, Stop
<1>1. PICK start \in [Nat -> Int] :
        /\ Begun(start, r, in, length) /\ Sized(start, r, n) /\ Rising(start, r, n)
        /\ Extends(start, old, r, n, end, len)
  BY NewStart
<1>2. /\ start[n + 1] = end /\ start[n + 2] = end + Header + len
      /\ \A k \in Nat : k # n + 2 => start[k] = old[k]
  BY <1>1 DEF Extends
<1>6. AsSent(start, r, messages) BY <1>2 DEF AsSent, BodyLength
<1>7. /\ Len(s \o more) = end + (Header + len)
      /\ \A i \in 1 .. end : (s \o more)[i] = s[i]
      /\ \A i \in 1 .. Header + len : (s \o more)[end + i] = more[i]
  <2>1. Len(more) = Header + len BY DEF Message
  <2>2. /\ Len(s \o more) = Len(s) + Len(more)
        /\ \A i \in 1 .. Len(s) + Len(more) : (s \o more)[i] =
             IF i <= Len(s) THEN s[i] ELSE more[i - Len(s)]
    BY ConcatProperties
  <2>3. \A i \in 1 .. end : (s \o more)[i] = s[i] BY <1>0, <2>1, <2>2
  <2>4. ASSUME NEW i \in 1 .. Header + len PROVE (s \o more)[end + i] = more[i]
    <3>1. end + i \in 1 .. Len(s) + Len(more) /\ ~(end + i <= Len(s)) /\ (end + i) - Len(s) = i
      BY <1>0, <2>1, <2>4
    <3> QED BY <2>2, <3>1
  <2> QED BY <1>0, <2>1, <2>2, <2>3, <2>4
<1>8. Labelled(start, r, n, s \o more)
  <2> SUFFICES ASSUME NEW k \in r + 1 .. n + 1, NEW i \in 1 .. end + (Header + len),
                      start[k] < i, i <= start[k + 1]
               PROVE  (s \o more)[i] = [msg |-> k, len |-> BodyLength(start, k)]
    BY <1>7 DEF Labelled
  <2>1. CASE k = n + 1
    <3>1. PICK j \in 1 .. Header + len : i = end + j
      <4>1. i - end \in 1 .. Header + len /\ i = end + (i - end) BY <1>0, <1>2, <2>1
      <4> QED BY <4>1
    <3>2. (s \o more)[i] = more[j] BY <1>7, <3>1
    <3>3. BodyLength(start, k) = len BY <1>0, <1>2, <2>1 DEF BodyLength
    <3> QED BY <2>1, <3>2, <3>3 DEF Message
  <2>2. CASE k # n + 1
    <3>1. start[k] = old[k] /\ start[k + 1] = old[k + 1] BY <1>2, <2>2
    <3>2. old[k + 1] <= old[n + 1] BY <2>2 DEF Rising
    <3>5. k + 1 \in Nat /\ old[k + 1] \in Int /\ i <= old[k + 1] BY <3>1
    <3>3. i \in 1 .. end BY <1>0, <3>5, <3>2
    <3>4. s[i] = [msg |-> k, len |-> BodyLength(old, k)] BY <3>1, <3>3 DEF Labelled
    <3> QED BY <1>7, <3>1, <3>3, <3>4 DEF BodyLength
  <2> QED BY <2>1, <2>2
<1>9. Grown(start, n, end, s \o more) BY <1>0, <1>2, <1>7 DEF Grown
<1> QED BY <1>1, <1>6, <1>8, <1>9

(* A new message begins where the stream ended. *)
LEMMA SendInv ==
  ASSUME FramingAssumption, Inv, NEW len \in Lengths, SendMessage(len)
  PROVE  Inv'
<1> USE DEF Inv
<1>1. writer = "idle" /\ toWrite = <<>> /\ UNCHANGED <<sent, wire, reader, want, inputbuffer, received>>
  BY DEF SendMessage, Calls, rvars
<1>2. CASE ~valid_message(len)
  <2>1. writer' = "failed" /\ UNCHANGED toWrite BY <1>2 DEF SendMessage
  <2>2. Typed' /\ Calls' /\ Stream' = Stream BY <1>1, <2>1 DEF Typed, Calls, Stream
  <2>3. SUFFICES ASSUME Receiving' PROVE \E start \in [Nat -> Int] : LaidOut(start)'
    BY <2>2, <2>3
  <2>4. PICK start \in [Nat -> Int] : LaidOut(start) BY <1>1, <2>3 DEF Receiving
  <2>5. Ends(start, Len(sent), Len(Stream))' BY <1>1, <2>1, <2>2, <2>4 DEF LaidOut, Ends
  <2>6. LaidOut(start)' BY <1>1, <2>2, <2>3, <2>4, <2>5, Unmoved DEF Receiving
  <2> QED BY <2>6
<1>3. CASE valid_message(len)
  <2>1. writer' = "writing" /\ toWrite' = Bytes(len) BY <1>3 DEF SendMessage
  <2>2. Typed' BY <1>1, <2>1, BytesFacts DEF Typed
  <2>3. Calls' BY <1>1, <2>1, BytesFacts DEF Calls
  <2>4. SUFFICES ASSUME Receiving' PROVE \E start \in [Nat -> Int] : LaidOut(start)'
    BY <2>2, <2>3
  <2>5. PICK old \in [Nat -> Int] : LaidOut(old) BY <1>1, <2>4 DEF Receiving
  <2> DEFINE n == Len(sent)
             r == Len(received)
             s == Stream
             more == Bytes(len)
  <2>6. n \in Nat /\ r \in Nat /\ r <= n /\ want \in Nat /\ sent \in Seq(Nat) /\ len \in Nat
    BY DEF Typed, Calls, FramingAssumption
  <2>15. s \in Seq(Byte) BY StreamFacts
  <2>7. Len(s) = old[n + 1] /\ Len(s) = Len(inputbuffer) + Len(wire)
    BY <1>1, <2>5, StreamFacts DEF LaidOut, Ends, Typed
  <2>8. more \in Seq(Byte) /\ Message(more, n, len)
    BY BytesFacts DEF Message
  <2>9. Stream' = s \o more
    <3>1. Stream = inputbuffer \o wire
      BY <1>1, ConcatEmptySeq DEF Stream, Typed
    <3>2. Regrouped(inputbuffer, wire, Bytes(len)) BY BytesFacts, Regrouping DEF Typed
    <3> QED BY <1>1, <2>1, <3>1, <3>2 DEF Stream, Regrouped
  <2>10. /\ Begun(old, r, reader, want) /\ Sized(old, r, n) /\ Rising(old, r, n)
         /\ AsSent(old, r, sent) /\ Labelled(old, r, n, s)
    BY <2>5 DEF LaidOut
  <2> HIDE DEF n, r, s, more
  <2>14. PICK end \in Nat : Len(s) = end /\ old[n + 1] = end BY <2>15, <2>7, LenProperties
  <2>11. PICK start \in [Nat -> Int] :
           /\ Begun(start, r, reader, want) /\ Sized(start, r, n) /\ Rising(start, r, n)
           /\ AsSent(start, r, sent) /\ Labelled(start, r, n, s \o more)
           /\ Grown(start, n, end, s \o more)
    <3>1. Len(sent) = n BY DEF n
    <3>2. Stop(old, n, end) BY <2>14 DEF Stop
    <3> QED BY <1>3, <2>6, <2>14, <2>15, <2>8, <2>10, <3>1, <3>2, Extended
  <2>12. Ends(start, Len(sent), Len(Stream))'
    BY <1>1, <2>1, <2>7, <2>9, <2>11, <2>14 DEF Ends, Grown, n
  <2>13. LaidOut(start)'
    BY <1>1, <2>9, <2>11, <2>12 DEF LaidOut, n, r
  <2> QED BY <2>13
<1> QED BY <1>2, <1>3

(* The last message begun becomes one that was sent: another may begin.      *)
Agree(start, old, n) == \A k \in Nat : k # n + 3 => start[k] = old[k]

Next1(m, n) == m = n + 1

LEMMA NextStart ==
  ASSUME NEW r \in Nat, NEW n \in Nat, r <= n, NEW m \in Nat, Next1(m, n), NEW in, NEW length \in Nat,
         FramingAssumption, NEW old \in [Nat -> Int],
         Begun(old, r, in, length), Sized(old, r, n), Rising(old, r, n)
  PROVE  \E start \in [Nat -> Int] :
           /\ Begun(start, r, in, length) /\ Sized(start, r, m) /\ Rising(start, r, m)
           /\ Agree(start, old, n)
<1>0. Header \in Nat /\ Header > 0 /\ MaxMsg \in Nat /\ Header <= MaxMsg /\ m = n + 1
  BY DEF FramingAssumption, Next1
<1> DEFINE start == [old EXCEPT ![n + 3] = old[n + 2] + Header]
<1>1. /\ start \in [Nat -> Int] /\ start[n + 3] = old[n + 2] + Header
      /\ \A k \in Nat : k # n + 3 => start[k] = old[k]
  BY <1>0
<1> HIDE DEF start
<1>3. Begun(start, r, in, length) BY <1>0, <1>1 DEF Begun
<1>4. Sized(start, r, m) BY <1>0, <1>1 DEF Sized
<1>5. Rising(start, r, m)
  <2> SUFFICES ASSUME NEW j \in r + 1 .. m + 2, NEW k \in r + 1 .. m + 2, j <= k
               PROVE  start[j] <= start[k]
    BY DEF Rising
  <2>1. CASE k # n + 3 BY <1>0, <1>1, <2>1 DEF Rising
  <2>2. CASE j = n + 3 BY <1>0, <1>1, <2>2
  <2>3. CASE k = n + 3 /\ j # n + 3
    <3>1. old[j] <= old[n + 2] BY <1>0, <2>3 DEF Rising
    <3> QED BY <1>0, <1>1, <2>3, <3>1
  <2> QED BY <2>1, <2>2, <2>3
<1>6. Agree(start, old, n) BY <1>1 DEF Agree
<1> QED BY <1>1, <1>3, <1>4, <1>5, <1>6

(* What the sender is writing are bytes of the message after those sent.    *)
LEMMA Writing ==
  ASSUME FramingAssumption, Typed, Calls, writer = "writing", NEW start \in [Nat -> Int], LaidOut(start)
  PROVE  Head(toWrite).len = BodyLength(start, Len(sent) + 1)
<1>1. toWrite # <<>> /\ Len(toWrite) \in Nat \ {0} /\ Head(toWrite) = toWrite[1]
  BY DEF Calls, Typed
<1> DEFINE i == Len(inputbuffer) + Len(wire) + 1
           n == Len(sent)
           r == Len(received)
<1>2. n \in Nat /\ r \in Nat /\ r <= n /\ Len(inputbuffer) \in Nat /\ Len(wire) \in Nat
  BY DEF Typed, Calls
<1>3. Stream[i] = toWrite[1] /\ i \in 1 .. Len(Stream) /\ Len(Stream) \in Nat
  BY <1>1, <1>2, StreamFacts
<1>4. start[n + 1] < i /\ i <= start[n + 2]
  <2>1. Len(Stream) = start[n + 2] /\ start[n + 1] <= Len(inputbuffer) + Len(wire)
    BY DEF LaidOut, Ends
  <2>2. start[n + 1] \in Int BY <1>2
  <2>3. i <= Len(Stream) BY <1>3
  <2> QED BY <1>2, <2>1, <2>2, <2>3
<1>5. Labelled(start, r, n, Stream) BY DEF LaidOut
<1> HIDE DEF i, n, r
<1>6. n + 1 \in r + 1 .. n + 1 /\ n + 1 + 1 = n + 2 BY <1>2
<1>7. Stream[i] = [msg |-> n + 1, len |-> BodyLength(start, n + 1)]
  BY <1>3, <1>4, <1>5, <1>6 DEF Labelled
<1>8. Head(toWrite).len = BodyLength(start, n + 1) BY <1>1, <1>3, <1>7
<1> QED BY <1>8 DEF n

LEMMA WriteInv ==
  ASSUME FramingAssumption, Inv, NEW n \in Nat, n > 0, Write(n)
  PROVE  Inv'
<1> USE DEF Inv
<1>1. /\ writer = "writing" /\ reader # "gone" /\ n <= Len(toWrite) /\ n + Len(wire) <= Room
      /\ wire' = wire \o SubSeq(toWrite, 1, n)
      /\ toWrite' = SubSeq(toWrite, n + 1, Len(toWrite))
      /\ UNCHANGED <<reader, want, inputbuffer, received>>
  BY DEF Write, ReaderOpen, rvars
<1>2. Receiving BY <1>1 DEF Calls, Typed, Receiving
<1>3. PICK old \in [Nat -> Int] : LaidOut(old) BY <1>2
<1> DEFINE p == SubSeq(toWrite, 1, n)
<1>4. /\ p \in Seq(Byte) /\ toWrite' \in Seq(Byte) /\ Len(p) = n /\ Len(p) + Len(toWrite') = Len(toWrite)
      /\ wire \o p \in Seq(Byte) /\ Len(wire \o p) = Len(wire) + n
      /\ (wire \o p) \o toWrite' = wire \o toWrite
  <2>1. Parts(toWrite, p, toWrite', n) /\ wire' = wire \o p BY <1>1 DEF Parts
  <2>2. wire \in Seq(Byte) /\ toWrite \in Seq(Byte) BY DEF Typed
  <2> HIDE DEF p
  <2>3. Passed(wire, toWrite, p, toWrite', n) BY <2>1, <2>2, Moved
  <2> QED BY <2>3 DEF Passed
<1>5. wire' = wire \o p BY <1>1
<1> HIDE DEF p
<1>6. Stream' = Stream BY <1>1, <1>4, <1>5 DEF Stream
<1>7. PICK w \in Nat, t \in Nat, v \in Nat, s \in Nat, r \in Nat, b \in Nat :
        /\ w = Len(wire) /\ t = Len(toWrite) /\ v = Len(toWrite') /\ s = Len(sent)
        /\ r = Len(received) /\ b = Len(inputbuffer)
  BY <1>4, LengthFacts, LenProperties
<1>8. r <= s /\ n <= t /\ n + v = t /\ n + w <= Room /\ Len(wire') = w + n
  BY <1>1, <1>4, <1>5, <1>7, LengthFacts
<1>9. CASE n # t
  <2>1. UNCHANGED <<sent, writer>> BY <1>7, <1>9 DEF Write
  <2>2. v # 0 BY <1>8, <1>9
  <2>3. toWrite' # <<>> BY <1>7, <2>2
  <2>4. Len(wire') <= Room /\ wire' \in Seq(Byte) BY <1>4, <1>5, <1>8
  <2>5. Typed' BY <1>1, <1>4, <2>1, <2>4 DEF Typed
  <2>6. Calls' BY <1>1, <2>1, <2>3 DEF Calls
  <2>7. Ends(old, Len(sent), Len(Stream))'
    <3>1. old[s + 1] <= b + w /\ Len(Stream) = old[s + 2]
      BY <1>1, <1>3, <1>7 DEF LaidOut, Ends
    <3>2. old[s + 1] \in Int BY <1>7
    <3>3. old[s + 1] <= b + (w + n) BY <3>1, <3>2
    <3> QED BY <1>1, <1>6, <1>7, <1>8, <2>1, <3>1, <3>3 DEF Ends
  <2>8. LaidOut(old)' BY <1>1, <1>2, <1>3, <1>6, <2>1, <2>7, Unmoved
  <2> QED BY <2>5, <2>6, <2>8
<1>10. CASE n = t
  <2> DEFINE len == Head(toWrite).len
  <2>1. sent' = Append(sent, len) /\ writer' = "idle" BY <1>7, <1>10 DEF Write
  <2>2. v = 0 BY <1>8, <1>10
  <2>3. toWrite' = <<>> BY <1>4, <1>7, <2>2, EmptySeq
  <2>4. len = BodyLength(old, s + 1) BY <1>1, <1>3, <1>7, Writing
  <2>5. len \in Nat
    <3>1. Head(toWrite) \in Byte BY <1>1, HeadTailProperties DEF Calls, Typed
    <3> QED BY <3>1 DEF Byte
  <2> HIDE DEF len
  <2>6. sent' \in Seq(Nat) /\ Len(sent') = s + 1 /\ sent'[s + 1] = len
        /\ \A k \in 1 .. s : sent'[k] = sent[k]
    <3>1. sent \in Seq(Nat) BY DEF Typed
    <3> QED BY <1>7, <2>1, <2>5, <3>1, AppendProperties
  <2>7. Len(wire') <= Room /\ wire' \in Seq(Byte) BY <1>4, <1>5, <1>8
  <2>8. Typed' BY <1>1, <1>4, <2>1, <2>6, <2>7 DEF Typed
  <2>9. r <= s + 1 BY <1>8
  <2>10. Calls' BY <1>1, <1>7, <2>1, <2>3, <2>6, <2>9 DEF Calls
  <2>11. /\ Begun(old, r, reader, want) /\ Sized(old, r, s) /\ Rising(old, r, s) /\ AsSent(old, r, sent)
         /\ Labelled(old, r, s, Stream) /\ Len(Stream) = old[s + 2]
    BY <1>1, <1>3, <1>7 DEF LaidOut, Ends
  <2>12. PICK m \in Nat : m = s + 1 OBVIOUS
  <2>13. PICK start \in [Nat -> Int] :
           /\ Begun(start, r, reader, want) /\ Sized(start, r, m) /\ Rising(start, r, m)
           /\ Agree(start, old, s)
    <3>1. Next1(m, s) BY <2>12 DEF Next1
    <3>2. want \in Nat BY DEF Typed
    <3> QED BY <1>8, <2>11, <3>1, <3>2, NextStart
  <2>14. \A k \in 1 .. s + 2 : start[k] = old[k] BY <2>13 DEF Agree
  <2>15. start[s + 2] = old[s + 2] BY <2>14
  <2>16. AsSent(start, r, sent')
    <3> SUFFICES ASSUME NEW k \in r + 1 .. s + 1 PROVE sent'[k] = BodyLength(start, k)
      BY <2>6 DEF AsSent
    <3>1. start[k] = old[k] /\ start[k + 1] = old[k + 1] BY <1>8, <2>14
    <3>2. CASE k = s + 1 BY <2>4, <2>6, <3>1, <3>2 DEF BodyLength
    <3>3. CASE k # s + 1
      <4>1. k \in r + 1 .. s /\ k \in 1 .. s BY <1>8, <3>3
      <4>2. sent[k] = BodyLength(old, k) BY <1>7, <2>11, <4>1 DEF AsSent
      <4> QED BY <2>6, <3>1, <4>1, <4>2 DEF BodyLength
    <3> QED BY <3>2, <3>3
  <2>17. Labelled(start, r, m, Stream)
    <3> SUFFICES ASSUME NEW k \in r + 1 .. m + 1, NEW i \in 1 .. Len(Stream),
                        start[k] < i, i <= start[k + 1]
                 PROVE  Stream[i] = [msg |-> k, len |-> BodyLength(start, k)]
      BY DEF Labelled
    <3>1. CASE k = m + 1
      <4>1. PICK l \in Nat : l = Len(Stream) BY StreamFacts, LenProperties
      <4>2. start[k] = l BY <2>11, <2>12, <2>15, <3>1, <4>1
      <4> QED BY <4>1, <4>2
    <3>2. CASE k # m + 1
      <4>1. k \in r + 1 .. s + 1 BY <2>12, <3>2
      <4>2. start[k] = old[k] /\ start[k + 1] = old[k + 1] BY <2>14, <4>1
      <4>3. Stream[i] = [msg |-> k, len |-> BodyLength(old, k)] BY <2>11, <4>1, <4>2 DEF Labelled
      <4> QED BY <4>2, <4>3 DEF BodyLength
    <3> QED BY <3>1, <3>2
  <2>18. Ends(start, Len(sent), Len(Stream))'
    <3>1. Len(Stream) = start[(s + 1) + 1] BY <2>11, <2>15
    <3> QED BY <1>6, <2>1, <2>6, <3>1 DEF Ends
  <2>19. LaidOut(start)'
    BY <1>1, <1>6, <1>7, <2>6, <2>12, <2>13, <2>16, <2>17, <2>18 DEF LaidOut
  <2> QED BY <2>8, <2>10, <2>19
<1> QED BY <1>9, <1>10

LEMMA ReadInv ==
  ASSUME FramingAssumption, Inv, NEW n \in Nat, Read(n)
  PROVE  Inv'
<1> USE DEF Inv
<1>1. /\ reader \in {"header", "body"} /\ n <= Len(wire) /\ n <= Missing
      /\ inputbuffer' = inputbuffer \o SubSeq(wire, 1, n)
      /\ wire' = SubSeq(wire, n + 1, Len(wire))
      /\ UNCHANGED <<sent, toWrite, writer, reader, want, received>>
  BY DEF Read, wvars
<1>2. Receiving BY <1>1 DEF Receiving
<1>3. PICK start \in [Nat -> Int] : LaidOut(start) BY <1>2
<1> DEFINE p == SubSeq(wire, 1, n)
<1>4. Passed(inputbuffer, wire, p, wire', n)
  <2>1. Parts(wire, p, wire', n) BY <1>1 DEF Parts
  <2>2. wire \in Seq(Byte) /\ inputbuffer \in Seq(Byte) BY DEF Typed
  <2> HIDE DEF p
  <2> QED BY <2>1, <2>2, Moved
<1>5. inputbuffer' = inputbuffer \o p BY <1>1
<1> HIDE DEF p
<1>6. /\ inputbuffer' \in Seq(Byte) /\ wire' \in Seq(Byte) /\ inputbuffer' \o wire' = inputbuffer \o wire
      /\ Len(p) = n /\ Len(p) + Len(wire') = Len(wire) /\ Len(inputbuffer') = Len(inputbuffer) + n
  BY <1>4, <1>5 DEF Passed
<1>7. Stream' = Stream
  <2>1. toWrite \in Seq(Byte) /\ wire \in Seq(Byte) /\ inputbuffer \in Seq(Byte) BY DEF Typed
  <2>2. Regrouped(inputbuffer, wire, toWrite) /\ Regrouped(inputbuffer', wire', toWrite)
    BY <1>6, <2>1, Regrouping
  <2> QED BY <1>1, <1>6, <2>2 DEF Regrouped, Stream
<1>8. PICK w \in Nat, v \in Nat, b \in Nat, c \in Nat :
        w = Len(wire) /\ v = Len(wire') /\ b = Len(inputbuffer) /\ c = Len(inputbuffer')
  BY <1>6, LengthFacts, LenProperties
<1>9. n + v = w /\ c = b + n /\ b + n <= want /\ want \in Nat /\ w <= Room /\ Room \in Nat
  <2>1. n <= want - b BY <1>1, <1>8 DEF Missing
  <2>2. want \in Nat /\ w <= Room BY <1>8 DEF Typed
  <2>3. Room \in Nat BY DEF FramingAssumption
  <2>4. n + v = w /\ c = b + n BY <1>6, <1>8
  <2> QED BY <2>1, <2>2, <2>3, <2>4
<1>10. v <= Room /\ c <= want /\ c + v = b + w BY <1>9
<1>11. Typed' BY <1>1, <1>6, <1>8, <1>10 DEF Typed
<1>12. Calls' BY <1>1, <1>8, <1>10 DEF Calls
<1>13. Ends(start, Len(sent), Len(Stream))'
  BY <1>1, <1>3, <1>7, <1>8, <1>10 DEF LaidOut, Ends
<1>14. LaidOut(start)' BY <1>1, <1>2, <1>3, <1>7, <1>13, Unmoved
<1> QED BY <1>11, <1>12, <1>14
-------------------------------------------------------------------------------
(* The same messages in a stream without its first b bytes. *)
Shifted(start, old, b) == \A k \in Nat : start[k] = old[k] - b

Follows(t, s, b) ==
  /\ Len(t) + b = Len(s)
  /\ \A i \in 1 .. Len(t) : t[i] = s[i + b]

LEMMA Dropping ==
  ASSUME NEW r \in Nat, NEW q \in Nat, r <= q, NEW n \in Nat, NEW b \in Nat,
         NEW old \in [Nat -> Int], NEW start \in [Nat -> Int], Shifted(start, old, b),
         NEW messages \in Seq(Nat), NEW s \in Seq(Byte), NEW t \in Seq(Byte), Follows(t, s, b),
         FramingAssumption,
         Sized(old, r, n), Rising(old, r, n), AsSent(old, r, messages), Labelled(old, r, n, s)
  PROVE  Sized(start, q, n) /\ Rising(start, q, n) /\ AsSent(start, q, messages) /\ Labelled(start, q, n, t)
<1>0. Header \in Nat /\ MaxMsg \in Nat BY DEF FramingAssumption
<1>1. \A k \in Nat : start[k] = old[k] - b BY DEF Shifted
<1>2. Sized(start, q, n)
  <2> SUFFICES ASSUME NEW k \in q + 1 .. n + 1
               PROVE  start[k] + Header <= start[k + 1] /\ start[k + 1] <= start[k] + MaxMsg
    BY DEF Sized
  <2>1. k \in r + 1 .. n + 1 /\ k \in Nat /\ k + 1 \in Nat OBVIOUS
  <2>2. PICK x \in Int, y \in Int : x = old[k] /\ y = old[k + 1] BY <2>1
  <2>3. x + Header <= y /\ y <= x + MaxMsg BY <2>1, <2>2 DEF Sized
  <2>4. start[k] = x - b /\ start[k + 1] = y - b BY <1>1, <2>1, <2>2
  <2> QED BY <1>0, <2>3, <2>4
<1>3. Rising(start, q, n)
  <2> SUFFICES ASSUME NEW j \in q + 1 .. n + 2, NEW k \in q + 1 .. n + 2, j <= k
               PROVE  start[j] <= start[k]
    BY DEF Rising
  <2>1. j \in r + 1 .. n + 2 /\ k \in r + 1 .. n + 2 /\ j \in Nat /\ k \in Nat OBVIOUS
  <2>2. PICK x \in Int, y \in Int : x = old[j] /\ y = old[k] BY <2>1
  <2>3. x <= y BY <2>1, <2>2 DEF Rising
  <2>4. start[j] = x - b /\ start[k] = y - b BY <1>1, <2>1, <2>2
  <2> QED BY <2>3, <2>4
<1>4. ASSUME NEW k \in Nat PROVE BodyLength(start, k) = BodyLength(old, k)
  <2>1. k + 1 \in Nat OBVIOUS
  <2>2. PICK x \in Int, y \in Int : x = old[k] /\ y = old[k + 1] BY <2>1
  <2>3. start[k] = x - b /\ start[k + 1] = y - b BY <1>1, <2>1, <2>2
  <2> QED BY <1>0, <2>2, <2>3 DEF BodyLength
<1>5. AsSent(start, q, messages)
  <2> SUFFICES ASSUME NEW k \in q + 1 .. Len(messages) PROVE messages[k] = BodyLength(start, k)
    BY DEF AsSent
  <2>0. PICK l \in Nat : l = Len(messages) BY LenProperties
  <2>1. k \in r + 1 .. Len(messages) /\ k \in Nat BY <2>0
  <2> QED BY <1>4, <2>1 DEF AsSent
<1>6. Labelled(start, q, n, t)
  <2>0. PICK l \in Nat, m \in Nat : l = Len(t) /\ m = Len(s) /\ l + b = m
    BY LenProperties DEF Follows
  <2> SUFFICES ASSUME NEW k \in q + 1 .. n + 1, NEW i \in 1 .. l, start[k] < i, i <= start[k + 1]
               PROVE  t[i] = [msg |-> k, len |-> BodyLength(start, k)]
    BY <2>0 DEF Labelled
  <2>1. k \in Nat /\ k \in r + 1 .. n + 1 OBVIOUS
  <2>2. i + b \in 1 .. m BY <2>0
  <2>3. old[k] < i + b /\ i + b <= old[k + 1]
    <3>1. k + 1 \in Nat OBVIOUS
    <3>2. PICK x \in Int, y \in Int : x = old[k] /\ y = old[k + 1] BY <2>1, <3>1
    <3>3. x - b < i /\ i <= y - b BY <1>1, <2>1, <3>1, <3>2
    <3>4. i \in Int OBVIOUS
    <3>5. x < i + b /\ i + b <= y BY <3>3, <3>4
    <3> QED BY <3>2, <3>5
  <2>4. s[i + b] = [msg |-> k, len |-> BodyLength(old, k)] BY <2>0, <2>1, <2>2, <2>3 DEF Labelled
  <2>5. t[i] = s[i + b] BY <2>0 DEF Follows
  <2> QED BY <1>4, <2>1, <2>4, <2>5
<1> QED BY <1>2, <1>3, <1>5, <1>6

LEMMA Shifting ==
  ASSUME NEW old \in [Nat -> Int], NEW b \in Nat
  PROVE  \E start \in [Nat -> Int] : Shifted(start, old, b)
<1> DEFINE start == [k \in Nat |-> old[k] - b]
<1>1. start \in [Nat -> Int] /\ Shifted(start, old, b) BY DEF Shifted
<1> QED BY <1>1

LEMMA DroppedStream ==
  ASSUME Typed, Typed', inputbuffer' = <<>>, UNCHANGED <<wire, toWrite>>
  PROVE  Stream' \in Seq(Byte) /\ Stream \in Seq(Byte) /\ Follows(Stream', Stream, Len(inputbuffer))
<1>1. inputbuffer \in Seq(Byte) /\ wire \in Seq(Byte) /\ toWrite \in Seq(Byte) BY DEF Typed
<1>2. PICK t : t = wire \o toWrite OBVIOUS
<1>3. t \in Seq(Byte) BY <1>1, <1>2, ConcatProperties
<1>4. Stream = inputbuffer \o t BY <1>2 DEF Stream
<1>5. Stream' = t BY <1>2, <1>3, ConcatEmptySeq DEF Stream
<1>6. /\ Stream \in Seq(Byte) /\ Len(Stream) = Len(inputbuffer) + Len(t)
      /\ \A i \in 1 .. Len(inputbuffer) + Len(t) : Stream[i] =
           IF i <= Len(inputbuffer) THEN inputbuffer[i] ELSE t[i - Len(inputbuffer)]
  BY <1>1, <1>3, <1>4, ConcatProperties
<1>7. PICK b \in Nat, l \in Nat : b = Len(inputbuffer) /\ l = Len(t) BY <1>1, <1>3, LenProperties
<1>8. Follows(t, Stream, b)
  <2>1. Len(Stream) = b + l BY <1>6, <1>7
  <2>2. ASSUME NEW i \in 1 .. l PROVE t[i] = Stream[i + b]
    <3>1. i + b \in 1 .. b + l /\ ~(i + b <= b) /\ (i + b) - b = i OBVIOUS
    <3> QED BY <1>6, <1>7, <3>1
  <2> QED BY <1>7, <2>1, <2>2 DEF Follows
<1> QED BY <1>3, <1>5, <1>6, <1>7, <1>8

LEMMA DroppedEnds ==
  ASSUME Typed, Calls, Typed', inputbuffer' = <<>>, UNCHANGED <<wire, toWrite, writer, sent>>,
         NEW b \in Nat, Len(inputbuffer) = b, NEW old \in [Nat -> Int], NEW start \in [Nat -> Int],
         Shifted(start, old, b), Ends(old, Len(sent), Len(Stream)),
         Stream' \in Seq(Byte), Stream \in Seq(Byte), Follows(Stream', Stream, b)
  PROVE  Ends(start, Len(sent), Len(Stream))'
<1>1. PICK n \in Nat, w \in Nat : n = Len(sent) /\ w = Len(wire) BY LengthFacts
<1>2. PICK l \in Nat, m \in Nat : l = Len(Stream) /\ m = Len(Stream') BY LenProperties
<1>3. m + b = l BY <1>2 DEF Follows
<1>4. n + 1 \in Nat /\ n + 2 \in Nat OBVIOUS
<1>5. PICK x \in Int, y \in Int : x = old[n + 1] /\ y = old[n + 2] BY <1>4
<1>6. start[n + 1] = x - b /\ start[n + 2] = y - b BY <1>4, <1>5 DEF Shifted
<1>7. Len(inputbuffer') = 0 BY EmptySeq
<1>8. /\ writer \in {"idle", "failed"} => l = x
      /\ writer = "writing" => l = y /\ x <= b + w
      /\ writer = "gone" => l < y
  BY <1>1, <1>2, <1>5 DEF Ends
<1>9. /\ writer \in {"idle", "failed"} => m = x - b
      /\ writer = "writing" => m = y - b /\ x - b <= 0 + w
      /\ writer = "gone" => m < y - b
  BY <1>3, <1>8
<1> QED BY <1>1, <1>2, <1>6, <1>7, <1>9 DEF Ends

-------------------------------------------------------------------------------
(* The byte at the front of the stream, when a header is complete.           *)
LEMMA HeaderRead ==
  ASSUME FramingAssumption, Typed, Calls, reader = "header", Complete(inputbuffer),
         NEW start \in [Nat -> Int], LaidOut(start)
  PROVE  /\ Len(inputbuffer) = Header
         /\ inputbuffer[1].len = BodyLength(start, Len(received) + 1)
         /\ inputbuffer[1].len = start[Len(received) + 2] - Header
         /\ valid_message(inputbuffer[1].len)
         /\ inputbuffer[1].len \in Nat
<1>1. PICK b \in Nat, r \in Nat, n \in Nat :
        b = Len(inputbuffer) /\ r = Len(received) /\ n = Len(sent) /\ r <= n
  BY LengthFacts
<1>2. Header \in Nat /\ Header > 0 /\ MaxMsg \in Nat BY DEF FramingAssumption
<1>3. want = Header /\ b >= want /\ b <= want BY <1>1 DEF Complete, Calls
<1>4. b = Header BY <1>2, <1>3
<1>5. 1 \in 1 .. Len(inputbuffer) /\ 1 \in 1 .. b BY <1>1, <1>2, <1>4
<1>6. inputbuffer[1] \in Byte BY <1>5, ElementOfSeq DEF Typed
<1>7. Stream[1] = inputbuffer[1] BY <1>5, StreamFacts
<1>8. 1 \in 1 .. Len(Stream)
  <2>1. PICK w \in Nat, t \in Nat : w = Len(wire) /\ t = Len(toWrite) BY LengthFacts
  <2>2. Len(Stream) = b + w + t BY <1>1, <2>1, StreamFacts
  <2> QED BY <1>2, <1>4, <2>2
<1>9. Begun(start, r, reader, want) /\ Sized(start, r, n) /\ Labelled(start, r, n, Stream)
  BY <1>1 DEF LaidOut
<1>10. r + 1 \in r + 1 .. n + 1 /\ (r + 1) + 1 = r + 2 /\ r + 1 \in Nat /\ r + 2 \in Nat BY <1>1
<1>11. PICK y \in Int : y = start[r + 2] BY <1>10
<1>12. start[r + 1] = 0 /\ Header <= y /\ y <= MaxMsg
  BY <1>2, <1>9, <1>10, <1>11 DEF Begun, Sized
<1>13. start[r + 1] < 1 /\ 1 <= start[(r + 1) + 1] BY <1>2, <1>10, <1>11, <1>12
<1>14. Stream[1] = [msg |-> r + 1, len |-> BodyLength(start, r + 1)]
  BY <1>8, <1>9, <1>10, <1>13 DEF Labelled
<1>15. inputbuffer[1].len = BodyLength(start, r + 1) BY <1>7, <1>14
<1>16. BodyLength(start, r + 1) = y - Header BY <1>2, <1>10, <1>11, <1>12 DEF BodyLength
<1>17. y - Header \in Nat /\ Header + (y - Header) <= MaxMsg BY <1>2, <1>12
<1> QED BY <1>1, <1>4, <1>11, <1>15, <1>16, <1>17 DEF valid_message

LEMMA HeaderDoneInv ==
  ASSUME FramingAssumption, Inv, HeaderDone
  PROVE  Inv'
<1> USE DEF Inv
<1>1. reader = "header" /\ Complete(inputbuffer)
      /\ inputbuffer' = SubSeq(inputbuffer, Header + 1, Len(inputbuffer))
      /\ UNCHANGED <<sent, toWrite, writer, wire, received>>
  BY DEF HeaderDone, wvars
<1>2. Receiving BY <1>1 DEF Receiving
<1>3. PICK old \in [Nat -> Int] : LaidOut(old) BY <1>2
<1> DEFINE len == inputbuffer[1].len
<1>4. Len(inputbuffer) = Header /\ len = old[Len(received) + 2] - Header /\ valid_message(len) /\ len \in Nat
  BY <1>1, <1>3, HeaderRead
<1>5. reader' = "body" /\ want' = len BY <1>4 DEF HeaderDone
<1> HIDE DEF len
<1>6. Header \in Nat /\ MaxMsg \in Nat BY DEF FramingAssumption
<1>7. inputbuffer' = <<>> BY <1>1, <1>4, <1>6, SubSeqEmpty
<1>8. Typed'
  <2>1. len <= MaxMsg BY <1>4, <1>6 DEF valid_message
  <2>2. <<>> \in Seq(Byte) BY EmptySeq
  <2> QED BY <1>1, <1>4, <1>5, <1>7, <2>1, <2>2 DEF Typed
<1>9. Calls'
  <2>1. Len(inputbuffer') <= want' BY <1>4, <1>5, <1>7, EmptySeq
  <2> QED BY <1>1, <1>5, <1>7, <2>1 DEF Calls
<1>10. PICK r \in Nat, n \in Nat : r = Len(received) /\ n = Len(sent) /\ r <= n BY LengthFacts
<1>11. PICK start \in [Nat -> Int] : Shifted(start, old, Header) BY <1>6, Shifting
<1>12. Stream' \in Seq(Byte) /\ Stream \in Seq(Byte) /\ Follows(Stream', Stream, Header)
  BY <1>1, <1>4, <1>7, <1>8, DroppedStream
<1>13. /\ Begun(old, r, reader, want) /\ Sized(old, r, n) /\ Rising(old, r, n) /\ AsSent(old, r, sent)
       /\ Labelled(old, r, n, Stream) /\ Ends(old, n, Len(Stream))
  BY <1>3, <1>10 DEF LaidOut
<1>14. /\ Sized(start, r, n) /\ Rising(start, r, n) /\ AsSent(start, r, sent)
       /\ Labelled(start, r, n, Stream')
  <2>1. PICK t : t = Stream' OBVIOUS
  <2>2. sent \in Seq(Nat) /\ r <= r BY DEF Typed
  <2>3. t \in Seq(Byte) /\ Follows(t, Stream, Header) BY <1>12, <2>1
  <2>4. /\ Sized(start, r, n) /\ Rising(start, r, n) /\ AsSent(start, r, sent)
        /\ Labelled(start, r, n, t)
    BY <1>6, <1>11, <1>12, <1>13, <2>2, <2>3, Dropping
  <2> QED BY <2>1, <2>4
<1>15. \A k \in Nat : start[k] = old[k] - Header BY <1>11 DEF Shifted
<1>16. Begun(start, r, reader', want')
  <2>1. r + 1 \in Nat /\ r + 2 \in Nat OBVIOUS
  <2>2. old[r + 1] = 0 BY <1>1, <1>13 DEF Begun
  <2>3. start[r + 1] = 0 - Header /\ start[r + 2] = old[r + 2] - Header BY <1>15, <2>1, <2>2
  <2>4. start[r + 2] = len BY <1>4, <1>10, <2>3
  <2> QED BY <1>5, <2>3, <2>4 DEF Begun
<1>17. Ends(start, Len(sent), Len(Stream))'
  BY <1>1, <1>4, <1>6, <1>7, <1>8, <1>10, <1>11, <1>12, <1>13, DroppedEnds
<1>18. LaidOut(start)'
  BY <1>1, <1>10, <1>14, <1>16, <1>17 DEF LaidOut
<1> QED BY <1>8, <1>9, <1>18

(* A body that is complete was sent completely.                             *)
LEMMA BodyRead ==
  ASSUME FramingAssumption, Typed, Calls, reader = "body", Complete(inputbuffer),
         NEW start \in [Nat -> Int], LaidOut(start)
  PROVE  /\ Len(inputbuffer) = want
         /\ want = start[Len(received) + 2]
         /\ Len(received) + 1 <= Len(sent)
         /\ sent[Len(received) + 1] = want
<1>1. PICK b \in Nat, r \in Nat, n \in Nat, w \in Nat, t \in Nat, c \in Nat :
        /\ b = Len(inputbuffer) /\ r = Len(received) /\ n = Len(sent) /\ r <= n
        /\ w = Len(wire) /\ t = Len(toWrite) /\ c = want
  BY LengthFacts DEF Typed
<1>2. Header \in Nat /\ Header > 0 /\ MaxMsg \in Nat BY DEF FramingAssumption
<1>3. b = c
  <2>1. b >= c /\ b <= c BY <1>1 DEF Complete, Calls
  <2> QED BY <2>1
<1>4. r + 1 \in Nat /\ r + 2 \in Nat /\ (r + 1) + 1 = r + 2 OBVIOUS
<1>5. start[r + 1] = 0 - Header /\ start[r + 2] = c
  BY <1>1 DEF LaidOut, Begun
<1>6. PICK l \in Nat : l = Len(Stream) /\ l = b + w + t
  BY <1>1, StreamFacts, LenProperties
<1>7. r # n
  <2> SUFFICES ASSUME r = n PROVE FALSE OBVIOUS
  <2>1. /\ writer \in {"idle", "failed"} => l = start[r + 1]
        /\ writer = "writing" => l = start[r + 2]
        /\ writer = "gone" => l < start[r + 2]
    BY <1>1, <1>6 DEF LaidOut, Ends
  <2>2. CASE writer \in {"idle", "failed"} BY <1>2, <1>5, <2>1, <2>2
  <2>3. CASE writer = "gone" BY <1>3, <1>5, <1>6, <2>1, <2>3
  <2>4. CASE writer = "writing"
    <3>1. t = 0 BY <1>3, <1>5, <1>6, <2>1, <2>4
    <3>2. toWrite = <<>> BY <1>1, <3>1, EmptySeq DEF Typed
    <3> QED BY <2>4, <3>2 DEF Calls
  <2> QED BY <2>2, <2>3, <2>4 DEF Typed
<1>8. r + 1 <= n /\ r + 1 \in r + 1 .. n BY <1>1, <1>7
<1>9. sent[r + 1] = BodyLength(start, r + 1) BY <1>1, <1>8 DEF LaidOut, AsSent
<1>10. BodyLength(start, r + 1) = c BY <1>2, <1>4, <1>5 DEF BodyLength
<1> QED BY <1>1, <1>3, <1>5, <1>8, <1>9, <1>10

LEMMA BodyDoneInv ==
  ASSUME FramingAssumption, Inv, BodyDone
  PROVE  Inv'
<1> USE DEF Inv
<1>1. reader = "body" /\ Complete(inputbuffer) /\ reader' = "idle"
      /\ inputbuffer' = SubSeq(inputbuffer, want + 1, Len(inputbuffer))
      /\ received' = Append(received, want)
      /\ UNCHANGED <<sent, toWrite, writer, wire, want>>
  BY DEF BodyDone, wvars
<1>2. Receiving BY <1>1 DEF Receiving
<1>3. PICK old \in [Nat -> Int] : LaidOut(old) BY <1>2
<1>4. /\ Len(inputbuffer) = want /\ want = old[Len(received) + 2]
      /\ Len(received) + 1 <= Len(sent) /\ want \in Nat
  BY <1>1, <1>3, BodyRead DEF Typed
<1>5. inputbuffer' = <<>> BY <1>1, <1>4, SubSeqEmpty
<1>6. received \in Seq(Nat) BY DEF Typed
<1>7. received' \in Seq(Nat) /\ Len(received') = Len(received) + 1
  BY <1>1, <1>4, <1>6, AppendProperties
<1>8. Typed'
  <2>1. <<>> \in Seq(Byte) BY EmptySeq
  <2> QED BY <1>1, <1>5, <1>7, <2>1 DEF Typed
<1>9. Calls' BY <1>1, <1>4, <1>5, <1>7 DEF Calls
<1>10. PICK r \in Nat, n \in Nat, q \in Nat :
         r = Len(received) /\ n = Len(sent) /\ q = Len(received') /\ q = r + 1
  BY <1>7, LengthFacts, LenProperties
<1>11. PICK start \in [Nat -> Int] : Shifted(start, old, want) BY <1>4, Shifting
<1>12. Stream' \in Seq(Byte) /\ Stream \in Seq(Byte) /\ Follows(Stream', Stream, want)
  BY <1>1, <1>4, <1>5, <1>8, DroppedStream
<1>13. /\ Sized(old, r, n) /\ Rising(old, r, n) /\ AsSent(old, r, sent)
       /\ Labelled(old, r, n, Stream) /\ Ends(old, n, Len(Stream))
  BY <1>3, <1>10 DEF LaidOut
<1>14. /\ Sized(start, q, n) /\ Rising(start, q, n) /\ AsSent(start, q, sent)
       /\ Labelled(start, q, n, Stream')
  <2>1. PICK t : t = Stream' OBVIOUS
  <2>2. sent \in Seq(Nat) BY DEF Typed
  <2>3. r <= q BY <1>10
  <2>4. t \in Seq(Byte) /\ Follows(t, Stream, want) BY <1>12, <2>1
  <2>5. /\ Sized(start, q, n) /\ Rising(start, q, n) /\ AsSent(start, q, sent)
        /\ Labelled(start, q, n, t)
    BY <1>4, <1>11, <1>12, <1>13, <2>2, <2>3, <2>4, Dropping
  <2> QED BY <2>1, <2>5
<1>15. Begun(start, q, reader', want')
  <2>1. q + 1 \in Nat /\ q + 1 = r + 2 BY <1>10
  <2>2. start[q + 1] = old[q + 1] - want BY <1>11, <2>1 DEF Shifted
  <2>3. old[q + 1] = want BY <1>4, <1>10, <2>1
  <2>4. start[q + 1] = 0 BY <1>4, <2>2, <2>3
  <2> QED BY <1>1, <2>4 DEF Begun
<1>16. Ends(start, Len(sent), Len(Stream))'
  BY <1>1, <1>4, <1>5, <1>8, <1>10, <1>11, <1>12, <1>13, DroppedEnds
<1>17. LaidOut(start)'
  BY <1>1, <1>10, <1>14, <1>15, <1>16 DEF LaidOut
<1> QED BY <1>8, <1>9, <1>17

-------------------------------------------------------------------------------
(* A sender that dies takes the last m bytes of the stream with it.          *)
Cut(t, s, m) ==
  /\ Len(t) + m = Len(s)
  /\ \A i \in 1 .. Len(t) : t[i] = s[i]

LEMMA CutStream ==
  ASSUME Typed, toWrite' = <<>>, UNCHANGED <<wire, inputbuffer>>
  PROVE  Stream' \in Seq(Byte) /\ Stream \in Seq(Byte) /\ Cut(Stream', Stream, Len(toWrite))
<1>1. inputbuffer \in Seq(Byte) /\ wire \in Seq(Byte) /\ toWrite \in Seq(Byte) BY DEF Typed
<1>2. PICK t : t = inputbuffer \o wire OBVIOUS
<1>3. t \in Seq(Byte) BY <1>1, <1>2, ConcatProperties
<1>4. Stream = t \o toWrite
  <2>1. Regrouped(inputbuffer, wire, toWrite) BY <1>1, Regrouping
  <2> QED BY <1>2, <2>1 DEF Stream, Regrouped
<1>5. Stream' = t
  <2>1. wire \o <<>> = wire BY <1>1, ConcatEmptySeq
  <2> QED BY <1>2, <2>1 DEF Stream
<1>6. /\ Stream \in Seq(Byte) /\ Len(Stream) = Len(t) + Len(toWrite)
      /\ \A i \in 1 .. Len(t) + Len(toWrite) : Stream[i] =
           IF i <= Len(t) THEN t[i] ELSE toWrite[i - Len(t)]
  BY <1>1, <1>3, <1>4, ConcatProperties
<1>7. PICK l \in Nat, m \in Nat : l = Len(t) /\ m = Len(toWrite) BY <1>1, <1>3, LenProperties
<1>8. Cut(t, Stream, m)
  <2>1. ASSUME NEW i \in 1 .. l PROVE t[i] = Stream[i]
    <3>1. i \in 1 .. l + m /\ i <= l OBVIOUS
    <3> QED BY <1>6, <1>7, <3>1
  <2> QED BY <1>6, <1>7, <2>1 DEF Cut
<1> QED BY <1>3, <1>5, <1>6, <1>7, <1>8

LEMMA CutLabels ==
  ASSUME NEW r \in Nat, NEW n \in Nat, NEW m \in Nat, NEW start \in [Nat -> Int],
         NEW s \in Seq(Byte), NEW t \in Seq(Byte), Cut(t, s, m), Labelled(start, r, n, s)
  PROVE  Labelled(start, r, n, t)
<1>1. PICK l \in Nat, h \in Nat : l = Len(t) /\ h = Len(s) /\ l + m = h BY LenProperties DEF Cut
<1> SUFFICES ASSUME NEW k \in r + 1 .. n + 1, NEW i \in 1 .. l, start[k] < i, i <= start[k + 1]
             PROVE  t[i] = [msg |-> k, len |-> BodyLength(start, k)]
  BY <1>1 DEF Labelled
<1>2. i \in 1 .. h BY <1>1
<1>3. s[i] = [msg |-> k, len |-> BodyLength(start, k)] BY <1>1, <1>2 DEF Labelled
<1> QED BY <1>1, <1>3 DEF Cut

LEMMA CutEnds ==
  ASSUME FramingAssumption, Typed, Calls, NEW start \in [Nat -> Int], LaidOut(start),
         writer # "gone", NEW t \in Seq(Byte), Cut(t, Stream, Len(toWrite))
  PROVE  Len(t) < start[Len(sent) + 2]
<1>1. PICK r \in Nat, n \in Nat, m \in Nat :
        r = Len(received) /\ n = Len(sent) /\ r <= n /\ m = Len(toWrite)
  BY LengthFacts
<1>2. PICK l \in Nat, h \in Nat : l = Len(t) /\ h = Len(Stream) /\ l + m = h
  BY <1>1, LenProperties, StreamFacts DEF Cut
<1>3. n + 1 \in r + 1 .. n + 1 /\ (n + 1) + 1 = n + 2 /\ n + 1 \in Nat /\ n + 2 \in Nat BY <1>1
<1>4. PICK x \in Int, y \in Int : x = start[n + 1] /\ y = start[n + 2] BY <1>3
<1>5. Header \in Nat /\ Header > 0 BY DEF FramingAssumption
<1>6. x + Header <= y BY <1>1, <1>3, <1>4 DEF LaidOut, Sized
<1>7. CASE writer = "writing"
  <2>1. h = y BY <1>1, <1>2, <1>4, <1>7 DEF LaidOut, Ends
  <2>2. m # 0 BY <1>1, <1>7, EmptySeq DEF Calls, Typed
  <2>3. l < y BY <1>2, <2>1, <2>2
  <2> QED BY <1>1, <1>2, <1>4, <2>3
<1>8. CASE writer # "writing"
  <2>1. writer \in {"idle", "failed"} BY <1>8 DEF Typed
  <2>2. h = x BY <1>1, <1>2, <1>4, <2>1 DEF LaidOut, Ends
  <2>3. l < y BY <1>2, <1>5, <1>6, <2>2
  <2> QED BY <1>1, <1>2, <1>4, <2>3
<1> QED BY <1>7, <1>8

LEMMA WriterEndsInv ==
  ASSUME FramingAssumption, Inv, WriterEnds
  PROVE  Inv'
<1> USE DEF Inv
<1>1. writer' = "gone" /\ toWrite' = <<>> /\ writer # "gone"
      /\ UNCHANGED <<sent, wire, reader, want, inputbuffer, received>>
  BY DEF WriterEnds, WriterOpen, rvars
<1>2. Typed'
  <2>1. <<>> \in Seq(Byte) BY EmptySeq
  <2> QED BY <1>1, <2>1 DEF Typed
<1>3. Calls' BY <1>1 DEF Calls
<1>4. SUFFICES ASSUME Receiving' PROVE \E start \in [Nat -> Int] : LaidOut(start)'
  BY <1>2, <1>3
<1>5. PICK start \in [Nat -> Int] : LaidOut(start) BY <1>1, <1>4 DEF Receiving
<1>6. Stream' \in Seq(Byte) /\ Stream \in Seq(Byte) /\ Cut(Stream', Stream, Len(toWrite))
  BY <1>1, CutStream
<1>7. PICK t \in Seq(Byte) : t = Stream' BY <1>6
<1>8. PICK r \in Nat, n \in Nat, m \in Nat :
        r = Len(received) /\ n = Len(sent) /\ r <= n /\ m = Len(toWrite)
  BY LengthFacts
<1>9. Cut(t, Stream, m) BY <1>6, <1>7, <1>8
<1>10. Labelled(start, r, n, Stream) BY <1>5, <1>8 DEF LaidOut
<1>11. Labelled(start, r, n, t) BY <1>6, <1>9, <1>10, CutLabels
<1>12. Len(t) < start[Len(sent) + 2] BY <1>1, <1>5, <1>8, <1>9, CutEnds
<1>13. Ends(start, Len(sent), Len(Stream))' BY <1>1, <1>7, <1>12 DEF Ends
<1>14. LaidOut(start)'
  <2>1. Begun(start, Len(received), reader, want)' BY <1>1, <1>5 DEF LaidOut, Begun
  <2> QED BY <1>1, <1>5, <1>7, <1>8, <1>11, <1>13, <2>1 DEF LaidOut
<1> QED BY <1>14

LEMMA WriteFailsInv ==
  ASSUME Inv, WriteFails
  PROVE  Inv'
<1>1. /\ reader = "gone" /\ writer' = "failed" /\ toWrite' = <<>>
      /\ UNCHANGED <<sent, wire, reader, want, inputbuffer, received>>
  BY DEF WriteFails, ReaderOpen, rvars
<1>2. <<>> \in Seq(Byte) BY EmptySeq
<1> QED BY <1>1, <1>2 DEF Inv, Typed, Calls, Receiving

(* The receiver begins, and meets the end of the link.                       *)
LEMMA ReceiveMessageInv ==
  ASSUME FramingAssumption, Inv, ReceiveMessage
  PROVE  Inv'
<1> USE DEF Inv
<1>1. /\ reader = "idle" /\ reader' = "header" /\ want' = Header
      /\ UNCHANGED <<sent, toWrite, writer, wire, inputbuffer, received>>
  BY DEF ReceiveMessage, wvars
<1>2. Header \in Nat /\ Header <= MaxMsg BY DEF FramingAssumption
<1>3. Typed' BY <1>1, <1>2 DEF Typed
<1>4. Calls'
  <2>1. inputbuffer = <<>> BY <1>1 DEF Calls
  <2> QED BY <1>1, <1>2, <2>1 DEF Calls
<1>5. Receiving BY <1>1 DEF Receiving
<1>6. PICK start \in [Nat -> Int] : LaidOut(start) BY <1>5
<1>7. Stream' = Stream BY <1>1 DEF Stream
<1>8. Ends(start, Len(sent), Len(Stream))' BY <1>1, <1>6, <1>7 DEF LaidOut, Ends
<1>9. LaidOut(start)' BY <1>1, <1>5, <1>6, <1>7, <1>8, Unmoved
<1> QED BY <1>3, <1>4, <1>9

LEMMA EndOfFileInv ==
  ASSUME Inv, EndOfFile
  PROVE  Inv'
<1>1. /\ reader' \in {"eof", "error"} /\ writer = "gone" /\ inputbuffer' = <<>>
      /\ UNCHANGED <<sent, toWrite, writer, wire, want, received>>
  BY DEF EndOfFile, WriterOpen, wvars
<1>2. <<>> \in Seq(Byte) BY EmptySeq
<1> QED BY <1>1, <1>2 DEF Inv, Typed, Calls, Receiving

LEMMA ReaderEndsInv ==
  ASSUME FramingAssumption, Inv, ReaderEnds
  PROVE  Inv'
<1>1. /\ reader' = "gone" /\ wire' = <<>> /\ inputbuffer' = <<>>
      /\ UNCHANGED <<sent, toWrite, writer, want, received>>
  BY DEF ReaderEnds, wvars
<1>2. <<>> \in Seq(Byte) /\ Len(<<>>) <= Room BY EmptySeq DEF FramingAssumption
<1>3. Typed' BY <1>1, <1>2 DEF Inv, Typed
<1>4. Calls' /\ ~Receiving' BY <1>1 DEF Inv, Calls, Receiving
<1> QED BY <1>3, <1>4 DEF Inv

LEMMA NextInv ==
  ASSUME FramingAssumption, Inv, [Next]_vars
  PROVE  Inv'
<1>1. ASSUME NEW len \in Lengths, SendMessage(len) PROVE Inv' BY <1>1, SendInv
<1>2. ASSUME NEW n \in 1 .. Room, Write(n) PROVE Inv'
  <2>1. n \in Nat /\ n > 0 BY DEF FramingAssumption
  <2> QED BY <1>2, <2>1, WriteInv
<1>3. ASSUME NEW n \in 1 .. MaxMsg, Read(n) PROVE Inv'
  <2>1. n \in Nat BY DEF FramingAssumption
  <2> QED BY <1>3, <2>1, ReadInv
<1>4. CASE UNCHANGED vars
  <2>1. Typed' /\ Calls' BY <1>4 DEF vars, Inv, Typed, Calls
  <2>2. ASSUME Receiving' PROVE \E start \in [Nat -> Int] : LaidOut(start)'
    <3>1. Receiving BY <1>4, <2>2 DEF vars, Receiving
    <3>2. PICK start \in [Nat -> Int] : LaidOut(start) BY <3>1 DEF Inv
    <3>3. Stream' = Stream BY <1>4 DEF vars, Stream
    <3>4. Ends(start, Len(sent), Len(Stream))' BY <1>4, <3>2, <3>3 DEF vars, LaidOut, Ends
    <3>5. UNCHANGED <<sent, received, reader, want>> BY <1>4 DEF vars
    <3>6. LaidOut(start)' BY <3>1, <3>2, <3>3, <3>4, <3>5, Unmoved
    <3> QED BY <3>6
  <2> QED BY <2>1, <2>2 DEF Inv
<1> QED
  BY <1>1, <1>2, <1>3, <1>4, WriteFailsInv, WriterEndsInv, ReceiveMessageInv, EndOfFileInv,
     HeaderDoneInv, BodyDoneInv, ReaderEndsInv
  DEF Next, SomeWrite, SomeRead
-------------------------------------------------------------------------------
THEOREM InvHolds == FramingAssumption => (Spec => []Inv)
<1> SUFFICES ASSUME FramingAssumption PROVE Spec => []Inv
  OBVIOUS
<1>1. Init => Inv BY InitInv
<1>2. Inv /\ [Next]_vars => Inv' BY NextInv
<1> QED BY <1>1, <1>2, PTL DEF Spec

(* The buffers of uadeipc.c never overflow: a header that promises more than *)
(* UADE_MAX_MESSAGE_SIZE never makes get_more() ask for it.                  *)
THEOREM TypeOKHolds == FramingAssumption => (Spec => []TypeOK)
<1> SUFFICES ASSUME FramingAssumption PROVE Spec => []TypeOK
  OBVIOUS
<1>1. ASSUME Inv PROVE TypeOK
  <2>1. MaxMsg \in Nat BY DEF FramingAssumption
  <2>2. Len(inputbuffer) \in Nat /\ want \in Nat /\ want <= MaxMsg
    BY <1>1, LengthFacts DEF Inv, Typed
  <2>3. Len(inputbuffer) <= MaxMsg
    <3>1. CASE reader \in {"header", "body"}
      BY <1>1, <2>1, <2>2, <3>1 DEF Inv, Calls
    <3>2. CASE reader \notin {"header", "body"}
      <4>1. Len(inputbuffer) = 0 BY <1>1, <3>2, EmptySeq DEF Inv, Calls
      <4> QED BY <2>1, <4>1
    <3> QED BY <3>1, <3>2
  <2> QED BY <1>1, <2>1, <2>2, <2>3 DEF Inv, Typed, TypeOK
<1> QED BY <1>1, InvHolds, PTL

(* When uade_receive_message() has returned, ipc->inputbuffer holds nothing  *)
(* of the messages after: select() on the descriptor, or a caller that hands *)
(* it on, misses none.                                                       *)
THEOREM NothingReadAheadHolds == FramingAssumption => (Spec => []NothingReadAhead)
<1>1. Inv => NothingReadAhead BY DEF Inv, Calls, NothingReadAhead
<1> QED BY <1>1, InvHolds, PTL

LEMMA InStepWhenReading ==
  ASSUME FramingAssumption, Inv, reader \in {"header", "body"}
  PROVE  InStep
<1> USE DEF Inv
<1>1. PICK start \in [Nat -> Int] : LaidOut(start) BY DEF Receiving
<1>2. PICK b \in Nat, r \in Nat, n \in Nat, w \in Nat, t \in Nat :
        /\ b = Len(inputbuffer) /\ r = Len(received) /\ n = Len(sent) /\ r <= n
        /\ w = Len(wire) /\ t = Len(toWrite)
  BY LengthFacts
<1>3. Header \in Nat /\ Header > 0 /\ MaxMsg \in Nat BY DEF FramingAssumption
<1>4. PICK l \in Nat : l = Len(Stream) /\ l = b + w + t
  BY <1>2, StreamFacts, LenProperties
<1>5. r + 1 \in r + 1 .. n + 1 /\ (r + 1) + 1 = r + 2 /\ r + 1 \in Nat /\ r + 2 \in Nat BY <1>2
<1>6. PICK x \in Int, y \in Int : x = start[r + 1] /\ y = start[r + 2] BY <1>5
<1>7. want \in Nat /\ b <= want BY <1>2 DEF Typed, Calls
<1>8. x <= 0 /\ b <= y
  <2>1. CASE reader = "header"
    <3>1. x = 0 /\ want = Header BY <1>1, <1>2, <1>6, <2>1 DEF LaidOut, Begun, Inv, Calls
    <3>2. x + Header <= y BY <1>1, <1>2, <1>5, <1>6 DEF LaidOut, Sized
    <3> QED BY <1>3, <1>7, <3>1, <3>2
  <2>2. CASE reader = "body"
    <3>1. x = 0 - Header /\ y = want BY <1>1, <1>2, <1>6, <2>2 DEF LaidOut, Begun
    <3> QED BY <1>3, <1>7, <3>1
  <2> QED BY <2>1, <2>2
<1>9. ASSUME NEW i \in 1 .. b
      PROVE  inputbuffer[i] = [msg |-> r + 1, len |-> BodyLength(start, r + 1)]
  <2>1. i \in 1 .. l /\ x < i /\ i <= y BY <1>4, <1>6, <1>8
  <2>2. Stream[i] = inputbuffer[i] BY <1>2, StreamFacts
  <2>3. Labelled(start, r, n, Stream) BY <1>1, <1>2 DEF LaidOut
  <2>4. start[r + 1] < i /\ i <= start[(r + 1) + 1] BY <1>5, <1>6, <2>1
  <2>5. Stream[i] = [msg |-> r + 1, len |-> BodyLength(start, r + 1)]
    BY <1>4, <1>5, <2>1, <2>3, <2>4 DEF Labelled
  <2> QED BY <2>2, <2>5
<1>10. DOMAIN inputbuffer = 1 .. b BY <1>2, LenProperties DEF Typed
<1>11. ASSUME reader = "body", inputbuffer # <<>> PROVE inputbuffer[1].len = want
  <2>1. b # 0 BY <1>2, <1>11, EmptySeq DEF Typed
  <2>2. 1 \in 1 .. b BY <2>1
  <2>3. inputbuffer[1].len = BodyLength(start, r + 1) BY <1>9, <2>2
  <2>4. x = 0 - Header /\ y = want BY <1>1, <1>2, <1>6, <1>11 DEF LaidOut, Begun
  <2>5. BodyLength(start, r + 1) = y - x - Header BY <1>5, <1>6 DEF BodyLength
  <2>6. y - x - Header = want BY <1>3, <1>7, <2>4
  <2> QED BY <2>3, <2>5, <2>6
<1>12. ASSUME NEW i \in DOMAIN inputbuffer PROVE inputbuffer[i].msg = Len(received) + 1
  <2>1. i \in 1 .. b BY <1>10, <1>12
  <2>2. inputbuffer[i] = [msg |-> r + 1, len |-> BodyLength(start, r + 1)] BY <1>9, <2>1
  <2>3. inputbuffer[i].msg = r + 1 BY <2>2
  <2> QED BY <1>2, <2>3
<1> QED BY <1>11, <1>12 DEF InStep

(* However read(2) and write(2) cut the bytes, no body is put together from  *)
(* two messages, and none begins in the middle of another.                  *)
THEOREM InStepHolds == FramingAssumption => (Spec => []InStep)
<1> SUFFICES ASSUME FramingAssumption PROVE Spec => []InStep
  OBVIOUS
<1>1. ASSUME Inv PROVE InStep
  <2>1. CASE reader \in {"header", "body"} BY <1>1, <2>1, InStepWhenReading
  <2>2. CASE reader \notin {"header", "body"}
    <3>1. inputbuffer = <<>> BY <1>1, <2>2 DEF Inv, Calls
    <3>2. DOMAIN inputbuffer = {} BY <3>1
    <3> QED BY <2>2, <3>2 DEF InStep
  <2> QED BY <2>1, <2>2
<1> QED BY <1>1, InvHolds, PTL

(* uade_receive_message() returns -1 only because the sender died: an honest *)
(* sender never makes it find a message invalid.                             *)
THEOREM ErrorMeansTornHolds == FramingAssumption => (Spec => []ErrorMeansTorn)
<1>1. Inv => ErrorMeansTorn BY DEF Inv, Calls, ErrorMeansTorn, WriterOpen
<1> QED BY <1>1, InvHolds, PTL
-------------------------------------------------------------------------------
LEMMA WriteSends ==
  ASSUME FramingAssumption, Inv, NEW n \in Nat, Write(n)
  PROVE  Channel!Send \/ UNCHANGED <<sent, received>>
<1>1. UNCHANGED received BY DEF Write, rvars
<1>2. CASE n # Len(toWrite) BY <1>1, <1>2 DEF Write
<1>3. CASE n = Len(toWrite)
  <2>1. PICK last : sent' = Append(sent, last) BY <1>3 DEF Write
  <2>2. PICK s : s = sent OBVIOUS
  <2>3. PICK m : s \in Seq(Nat) /\ m = Len(s) /\ m \in Nat BY <2>2, LenProperties DEF Inv, Typed
  <2>4. /\ Len(Append(s, last)) = m + 1
        /\ SubSeq(Append(s, last), 1, m) = s
    BY <2>3
  <2> QED BY <1>1, <2>1, <2>2, <2>3, <2>4 DEF Channel!Send
<1> QED BY <1>2, <1>3

LEMMA BodyIsReceived ==
  ASSUME FramingAssumption, Inv, BodyDone
  PROVE  Channel!Receive
<1>1. reader = "body" /\ Complete(inputbuffer) /\ received' = Append(received, want) /\ UNCHANGED sent
  BY DEF BodyDone, wvars
<1>2. PICK start \in [Nat -> Int] : LaidOut(start) BY <1>1 DEF Inv, Receiving
<1>3. Len(received) + 1 <= Len(sent) /\ sent[Len(received) + 1] = want
  BY <1>1, <1>2, BodyRead DEF Inv
<1>4. PICK r \in Nat, n \in Nat : r = Len(received) /\ n = Len(sent) BY LengthFacts DEF Inv
<1>5. r < n BY <1>3, <1>4
<1> QED BY <1>1, <1>3, <1>4, <1>5 DEF Channel!Receive

(* Over the bytes the two programs have the channel of whole messages that   *)
(* IpcLink and UadeSession take for granted: each message that was sent      *)
(* completely is received once, whole and in order, whatever the reads and   *)
(* writes were and wherever either end died.                                 *)
THEOREM ChannelSpecHolds == FramingAssumption => (Spec => ChannelSpec)
<1> SUFFICES ASSUME FramingAssumption PROVE Spec => ChannelSpec
  OBVIOUS
<1>1. Init => Channel!Init BY DEF Init, Channel!Init
<1>2. Inv /\ [Next]_vars => [Channel!Next]_(Channel!chanvars)
  <2> SUFFICES ASSUME Inv, [Next]_vars PROVE [Channel!Next]_(Channel!chanvars)
    OBVIOUS
  <2> USE DEF Channel!chanvars, Channel!Next
  <2>1. ASSUME NEW n \in 1 .. Room, Write(n) PROVE [Channel!Next]_(Channel!chanvars)
    <3>1. n \in Nat BY DEF FramingAssumption
    <3> QED BY <2>1, <3>1, WriteSends
  <2>2. CASE BodyDone BY <2>2, BodyIsReceived
  <2>3. ASSUME NEW len \in Lengths, SendMessage(len) PROVE UNCHANGED <<sent, received>>
    BY <2>3 DEF SendMessage, rvars
  <2>4. ASSUME NEW n \in 1 .. MaxMsg, Read(n) PROVE UNCHANGED <<sent, received>>
    BY <2>4 DEF Read, wvars
  <2>5. ASSUME WriteFails \/ WriterEnds \/ ReceiveMessage \/ EndOfFile \/ HeaderDone \/ ReaderEnds
        PROVE  UNCHANGED <<sent, received>>
    BY <2>5 DEF WriteFails, WriterEnds, ReceiveMessage, EndOfFile, HeaderDone, ReaderEnds, wvars, rvars
  <2>6. ASSUME UNCHANGED vars PROVE UNCHANGED <<sent, received>> BY <2>6 DEF vars
  <2> QED BY <2>1, <2>2, <2>3, <2>4, <2>5, <2>6 DEF Next, SomeWrite, SomeRead
<1>3. Spec => []Inv BY InvHolds
<1> QED BY <1>1, <1>2, <1>3, PTL DEF Spec, ChannelSpec, Channel!Spec
===============================================================================
