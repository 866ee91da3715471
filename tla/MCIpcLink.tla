------------------------------- MODULE MCIpcLink -------------------------------
(* Model checking instance of IpcLink: an end that has the turn sends at most *)
(* MaxInFlight messages the other end has not received.  Beside it, and with  *)
(* no state in common, the byte queue in which libuade keeps what it has      *)
(* received and not yet handed out: a behaviour is of one of the two parts.   *)
EXTENDS IpcLink

CONSTANTS MaxInFlight, Byte, Undef

VARIABLES part, buf, lower, upper, capacity, call, result

queued == <<buf, lower, upper, capacity, call, result>>

ReadStash == INSTANCE Fifo WITH SizeMax <- 63, MaxLen <- 2

ASSUME ReadStash!FifoAssumption

InitParts == part \in {"link", "fifo"} /\ Init /\ ReadStash!Init

NextOfPart ==
  /\ UNCHANGED part
  /\ \/ part = "link" /\ Next /\ UNCHANGED queued
     \/ part = "fifo" /\ ReadStash!Next /\ UNCHANGED vars

SpecOfParts == InitParts /\ [][NextOfPart]_<<part, vars, queued>>

InFlightBound == \A p \in Peer : Len(inbox[p]) <= MaxInFlight

(* The window of queued bytes stays inside the buffer, and all of it was      *)
(* written: the assertions of fifo.c.                                        *)
WindowValid == ReadStash!WindowValid

(* The buffer is bounded by what is queued at one time (fifo_read()).         *)
CapacityBounded == ReadStash!CapacityBounded

(* To its users a fifo is a queue of bytes (fifo.c).                          *)
QueueSpec == ReadStash!QueueSpec
===============================================================================
