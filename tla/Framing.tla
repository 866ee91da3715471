------------------------------- MODULE Framing --------------------------------
(***************************************************************************)
(* One direction of the link as bytes: uade_send_message() and             *)
(* uade_receive_message() of uadeipc.c over uade_atomic_write() and         *)
(* uade_atomic_read() of unixatomic.c.  A message is a header of Header     *)
(* bytes, which says how many bytes of body follow.  The socket takes and   *)
(* gives any number of bytes at a time; a call that is interrupted (EINTR)  *)
(* or would block (EAGAIN) changes nothing and is tried again.  Either      *)
(* process may end between any two of these steps.                          *)
(*                                                                         *)
(* A byte is a record: which message it belongs to, and what the header     *)
(* says the body's length is.  IpcLink takes the messages for granted.      *)
(***************************************************************************)
EXTENDS Integers, Sequences

CONSTANTS
  Header,    \* sizeof(struct uade_msg)
  MaxMsg,    \* UADE_MAX_MESSAGE_SIZE: the longest message, header included
  Lengths,   \* the body lengths a caller may ask for
  Room,      \* what the socket buffer holds
  Count      \* bound: messages sent

FramingAssumption ==
  /\ Header \in 1 .. MaxMsg /\ MaxMsg \in Nat
  /\ Lengths \subseteq Nat /\ Room \in Nat \ {0} /\ Count \in Nat

VARIABLES
  sent,      \* the messages written completely: their body lengths
  toWrite,   \* the bytes that uade_atomic_write() has yet to write
  writer,    \* "idle", "writing", "failed" (-1 was returned) or "gone"
  wire,      \* the socket buffer
  reader,    \* "idle", "header", "body", "eof" (0), "error" (-1) or "gone"
  want,      \* the bytes get_more() asks for
  inputbuffer, \* ipc->inputbuffer; its length is ipc->inputbytes
  received   \* the messages that uade_receive_message() has returned

wvars == <<sent, toWrite, writer>>
rvars == <<reader, want, inputbuffer, received>>
vars == <<sent, toWrite, writer, wire, reader, want, inputbuffer, received>>

ReaderOpen == reader # "gone"
WriterOpen == writer # "gone"

Init ==
  /\ sent = <<>> /\ toWrite = <<>> /\ writer = "idle" /\ wire = <<>>
  /\ reader = "idle" /\ want = 0 /\ inputbuffer = <<>> /\ received = <<>>
------------------------------------------------------------------------------
valid_message(len) == Header + len <= MaxMsg

Bytes(len) == [i \in 1 .. Header + len |-> [msg |-> Len(sent) + 1, len |-> len]]

(* Mutation: the sender does not check the size. *)
SendUnchecked(len) ==
  /\ writer = "idle" /\ Len(sent) < Count
  /\ writer' = "writing" /\ toWrite' = Bytes(len)
  /\ UNCHANGED <<sent, wire, rvars>>

(* uade_send_message(): an invalid message is refused before the first byte. *)
SendMessage(len) ==
  /\ writer = "idle" /\ Len(sent) < Count
  /\ IF valid_message(len)
     THEN writer' = "writing" /\ toWrite' = Bytes(len)
     ELSE writer' = "failed" /\ UNCHANGED toWrite
  /\ UNCHANGED <<sent, wire, rvars>>

(* write(2) takes any part of the bytes that fits.  uade_atomic_write()      *)
(* returns when all are taken.                                              *)
Write(n) ==
  /\ writer = "writing" /\ ReaderOpen
  /\ n <= Len(toWrite) /\ n + Len(wire) <= Room
  /\ wire' = wire \o SubSeq(toWrite, 1, n)
  /\ toWrite' = SubSeq(toWrite, n + 1, Len(toWrite))
  /\ IF n = Len(toWrite)
     THEN sent' = Append(sent, Head(toWrite).len) /\ writer' = "idle"
     ELSE UNCHANGED <<sent, writer>>
  /\ UNCHANGED rvars

(* write(2) fails: the reader has closed its end. *)
WriteFails ==
  /\ writer = "writing" /\ ~ReaderOpen
  /\ writer' = "failed" /\ toWrite' = <<>>
  /\ UNCHANGED <<sent, wire, rvars>>

WriterEnds ==
  /\ WriterOpen
  /\ writer' = "gone" /\ toWrite' = <<>>
  /\ UNCHANGED <<sent, wire, rvars>>
------------------------------------------------------------------------------
(* uade_receive_message() begins with the header.                           *)
ReceiveMessage ==
  /\ reader = "idle"
  /\ reader' = "header" /\ want' = Header
  /\ UNCHANGED <<wvars, wire, inputbuffer, received>>

(* Mutation: read(2) is called with the size of the whole buffer. *)
Asked == MaxMsg - Len(inputbuffer)

(* Mutation: a short read is taken for the whole. *)
AnyByte(buffer) == buffer # <<>> \/ want = 0

(* Mutation: the loop runs once more when all has come. *)
OneMore(buffer) == Len(buffer) > want

(* How much read(2) is asked for: get_more() never reads ahead. *)
Missing == want - Len(inputbuffer)

(* uade_atomic_read() loops until it has all that was asked for. *)
Complete(buffer) == Len(buffer) >= want

Read(n) ==
  /\ reader \in {"header", "body"} /\ ~Complete(inputbuffer)
  /\ n <= Len(wire) /\ n <= Missing
  /\ inputbuffer' = inputbuffer \o SubSeq(wire, 1, n)
  /\ wire' = SubSeq(wire, n + 1, Len(wire))
  /\ UNCHANGED <<wvars, reader, want, received>>

(* read(2) returns 0.  uade_atomic_read() returns 0 whatever it has read     *)
(* before; in the header that makes uade_receive_message() return 0, in the  *)
(* body -1.  ipc->inputbytes was not advanced: those bytes are lost.         *)
EndOfFile ==
  /\ reader \in {"header", "body"} /\ ~Complete(inputbuffer)
  /\ wire = <<>> /\ ~WriterOpen
  /\ reader' = IF reader = "header" THEN "eof" ELSE "error"
  /\ inputbuffer' = <<>>
  /\ UNCHANGED <<wvars, wire, want, received>>

(* The header is there: it is checked, and the body asked for.  get_more()   *)
(* asks for no byte of an empty body.                                       *)
HeaderDone ==
  /\ reader = "header" /\ Complete(inputbuffer)
  /\ inputbuffer' = SubSeq(inputbuffer, Header + 1, Len(inputbuffer))
  /\ IF valid_message(inputbuffer[1].len)
     THEN reader' = "body" /\ want' = inputbuffer[1].len
     ELSE reader' = "error" /\ UNCHANGED want
  /\ UNCHANGED <<wvars, wire, received>>

(* Mutation: the body is copied but stays in the buffer. *)
BodyKept ==
  /\ reader = "body" /\ Complete(inputbuffer)
  /\ received' = Append(received, want)
  /\ reader' = "idle"
  /\ UNCHANGED <<wvars, wire, want, inputbuffer>>

(* copy_from_inputbuffer() takes the body out of the buffer. *)
BodyDone ==
  /\ reader = "body" /\ Complete(inputbuffer)
  /\ inputbuffer' = SubSeq(inputbuffer, want + 1, Len(inputbuffer))
  /\ received' = Append(received, want)
  /\ reader' = "idle"
  /\ UNCHANGED <<wvars, wire, want>>

ReaderEnds ==
  /\ ReaderOpen
  /\ reader' = "gone" /\ wire' = <<>> /\ inputbuffer' = <<>>
  /\ UNCHANGED <<wvars, want, received>>
------------------------------------------------------------------------------
SomeWrite == \E n \in 1 .. Room : Write(n)
SomeRead == \E n \in 1 .. MaxMsg : Read(n)

Next ==
  \/ \E len \in Lengths : SendMessage(len)
  \/ SomeWrite \/ WriteFails \/ WriterEnds
  \/ ReceiveMessage \/ SomeRead \/ EndOfFile \/ HeaderDone \/ BodyDone
  \/ ReaderEnds

Spec == Init /\ [][Next]_vars

(* Both loops run until they are done, and the receiver, which is in R,      *)
(* calls uade_receive_message() again: neither end does anything else while  *)
(* the other speaks.                                                        *)
WriterStep == SomeWrite \/ WriteFails
ReaderStep == ReceiveMessage \/ SomeRead \/ EndOfFile \/ HeaderDone \/ BodyDone
Fairness == WF_vars(WriterStep) /\ WF_vars(ReaderStep)

FairSpec == Spec /\ Fairness
------------------------------------------------------------------------------
TypeOK ==
  /\ writer \in {"idle", "writing", "failed", "gone"}
  /\ reader \in {"idle", "header", "body", "eof", "error", "gone"}
  /\ Len(wire) <= Room /\ want \in 0 .. MaxMsg
  /\ Len(inputbuffer) <= MaxMsg

(* Between two receive calls nothing is left in ipc->inputbuffer, so that    *)
(* what the caller does with the descriptor next (wait for it to become      *)
(* readable, hand it to another process) sees every byte that has come.      *)
NothingReadAhead == reader = "idle" => inputbuffer = <<>>

(* All bytes under one header belong to one message: however the reads and   *)
(* writes were cut, a body is never put together from two messages, and a    *)
(* header never taken from the middle of one.                               *)
InStep ==
  /\ \A i \in DOMAIN inputbuffer :
       ReaderOpen => inputbuffer[i].msg = Len(received) + 1
  /\ reader = "body" /\ inputbuffer # <<>> => inputbuffer[1].len = want

(* A receiver of a link whose sender goes through the same checks never      *)
(* finds an invalid message.  It sees -1 only when a sender dies in a body.  *)
ErrorMeansTorn == reader = "error" => ~WriterOpen

(* The bytes make the channel of whole messages the programs rely on.        *)
Channel == INSTANCE MessageChannel
ChannelSpec == Channel!Spec

(* Whatever was sent completely is received, unless the receiver ends: a     *)
(* sender that dies afterwards takes nothing back.                          *)
AllArrives ==
  ~WriterOpen \/ Len(sent) = Count ~> Len(received) = Len(sent) \/ ~ReaderOpen
===============================================================================
