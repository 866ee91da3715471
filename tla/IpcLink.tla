-------------------------------- MODULE IpcLink --------------------------------
(***************************************************************************)
(* frontends/common/uadeipc.c: the message link between libuade (the       *)
(* client) and uadecore over one socket pair.  Each end keeps a protocol   *)
(* state: INITIAL, S (it may send) or R (it may receive).  The TOKEN       *)
(* message passes the right to send.  A file request passes it behind the  *)
(* back of that state machine: the core sends a request, puts itself into  *)
(* R until the whole file has come and returns to S, while the client puts *)
(* itself into S to send the file and returns to R.                        *)
(*                                                                         *)
(* The operations are those of uadeipc.c.  When they are called is the     *)
(* business of uade.c and uadestate.c; Next keeps their rules: the client  *)
(* speaks first, and a file is sent when, and only when, it was requested. *)
(* An operation called in the wrong state returns -1 and changes nothing.  *)
(***************************************************************************)
EXTENDS Naturals, Sequences

CONSTANTS
  Command,   \* the types of the messages that neither pass the turn nor carry a file
  Payload    \* what messages carry

Peer == {"client", "core"}
Other(p) == IF p = "client" THEN "core" ELSE "client"

VARIABLES
  state,    \* ipc->state of each end
  inbox,    \* the messages sent to each end that it has not received
  duty,     \* where each end stands in a file request
  open      \* the ends whose descriptor is open

vars == <<state, inbox, duty, open>>

(* A file travels as a FILE message with its name and size and, unless it    *)
(* is missing or empty, FILE_DATA messages; the last of these is marked: its *)
(* receiver knows it by the size.                                            *)
FileType == {"FILE", "FILE_DATA"}
Type == Command \cup FileType \cup {"TOKEN", "REQUEST_AMIGA_FILE"}
Message == [type : Type, body : Payload, last : BOOLEAN]

IsToken(m) == m.type = "TOKEN"
IsRequest(m) == m.type = "REQUEST_AMIGA_FILE"
IsLastPiece(m) == m.type \in FileType /\ m.last

ASSUME LinkAssumption ==
  Command \cap (FileType \cup {"TOKEN", "REQUEST_AMIGA_FILE"}) = {}

Init ==
  /\ state = [p \in Peer |-> "INITIAL"]
  /\ inbox = [p \in Peer |-> <<>>]
  /\ duty = [p \in Peer |-> "none"]
  /\ open = Peer
------------------------------------------------------------------------------
(* Mutation: only the header of a message is written. *)
DeliverHeader(p, m) ==
  inbox' = IF Other(p) \in open
           THEN [inbox EXCEPT ![Other(p)] = Append(@, [type |-> m.type])] ELSE inbox

(* uade_atomic_write(): a message reaches the other end if that is open. *)
Deliver(p, m) ==
  inbox' = IF Other(p) \in open
           THEN [inbox EXCEPT ![Other(p)] = Append(@, m)] ELSE inbox

(* Mutation: a sent token leaves the sender in S. *)
SendAndKeepTurn(p, m) ==
  /\ state[p] # "R"
  /\ state' = [state EXCEPT ![p] = "S"]
  /\ Deliver(p, m)
  /\ UNCHANGED open

(* uade_send_message() and uade_send_string().  The state changes before    *)
(* the write, whether or not the write succeeds.                            *)
SendMessage(p, m) ==
  /\ state[p] # "R"
  /\ state' = [state EXCEPT ![p] = IF IsToken(m) THEN "R" ELSE "S"]
  /\ Deliver(p, m)
  /\ UNCHANGED open

(* The first call of a receive function, before any message has come. *)
BeginReceive(p) ==
  /\ state[p] = "INITIAL"
  /\ state' = [state EXCEPT ![p] = "R"]
  /\ UNCHANGED <<inbox, duty, open>>

(* Mutation: a received token does not pass the turn. *)
ReceiveWithoutTurn(p) ==
  /\ state[p] # "S"
  /\ inbox[p] # <<>>
  /\ inbox' = [inbox EXCEPT ![p] = Tail(@)]
  /\ state' = [state EXCEPT ![p] = "R"]
  /\ UNCHANGED open

(* uade_receive_message() *)
ReceiveMessage(p) ==
  /\ state[p] # "S"
  /\ inbox[p] # <<>>
  /\ inbox' = [inbox EXCEPT ![p] = Tail(@)]
  /\ state' = [state EXCEPT ![p] = IF IsToken(Head(inbox[p])) THEN "S" ELSE "R"]
  /\ UNCHANGED open

(* uade_request_amiga_file(), up to its call of uade_receive_file().  If the *)
(* request cannot be written it gives up before it changes the state.        *)
RequestFile(p, m) ==
  /\ state[p] = "S" /\ Other(p) \in open
  /\ Deliver(p, m)
  /\ state' = [state EXCEPT ![p] = "R"]
  /\ duty' = [duty EXCEPT ![p] = "awaiting"]
  /\ UNCHANGED open

(* Mutation: the receiver returns to S with the first piece. *)
ReceiveFirstPiece(p) ==
  /\ duty[p] = "awaiting"
  /\ inbox[p] # <<>>
  /\ inbox' = [inbox EXCEPT ![p] = Tail(@)]
  /\ state' = [state EXCEPT ![p] = "S"]
  /\ duty' = [duty EXCEPT ![p] = "none"]
  /\ UNCHANGED open

(* A receive in uade_receive_file(), and after the last one the return of    *)
(* uade_request_amiga_file().                                                *)
ReceivePiece(p) ==
  /\ duty[p] = "awaiting"
  /\ inbox[p] # <<>>
  /\ inbox' = [inbox EXCEPT ![p] = Tail(@)]
  /\ IF IsLastPiece(Head(inbox[p]))
     THEN /\ state' = [state EXCEPT ![p] = "S"]
          /\ duty' = [duty EXCEPT ![p] = "none"]
     ELSE UNCHANGED <<state, duty>>
  /\ UNCHANGED open

(* Mutation: the client turns to S without sending the file. *)
ReplyForgotten(p) ==
  /\ state[p] = "R" /\ duty[p] = "asked"
  /\ state' = [state EXCEPT ![p] = "S"]
  /\ duty' = [duty EXCEPT ![p] = "none"]
  /\ UNCHANGED <<inbox, open>>

(* send_file_back() forces the client into S, sends the file with          *)
(* uade_send_file() and forces it back into R, unless a write has failed.    *)
BeginReply(p) ==
  /\ state[p] = "R" /\ duty[p] = "asked"
  /\ state' = [state EXCEPT ![p] = "S"]
  /\ duty' = [duty EXCEPT ![p] = "replying"]
  /\ UNCHANGED <<inbox, open>>

SendPiece(p, m) ==
  /\ state[p] = "S" /\ duty[p] = "replying"
  /\ Deliver(p, m)
  /\ IF Other(p) \notin open
     THEN duty' = [duty EXCEPT ![p] = "none"] /\ UNCHANGED state
     ELSE IF m.last
     THEN /\ state' = [state EXCEPT ![p] = "R"]
          /\ duty' = [duty EXCEPT ![p] = "none"]
     ELSE UNCHANGED <<state, duty>>
  /\ UNCHANGED open

(* A process ends, or closes its end of the link. *)
Close(p) ==
  /\ open' = open \ {p}
  /\ inbox' = [inbox EXCEPT ![p] = <<>>]
  /\ UNCHANGED <<state, duty>>
------------------------------------------------------------------------------
(* The core never sends before it has received, and the client never        *)
(* receives before it has sent: uadecore_option() receives the configuration *)
(* that uade_new_state() sends.                                             *)
Speak(p) ==
  /\ duty[p] = "none"
  /\ state[p] = "S" \/ p = "client"
  /\ \E m \in Message : ~IsRequest(m) /\ SendMessage(p, m)
  /\ UNCHANGED duty

Listen(p) ==
  /\ duty[p] = "none"
  /\ state[p] = "R" \/ p = "core"
  /\ ReceiveMessage(p)
  /\ duty' = [duty EXCEPT ![p] = IF IsRequest(Head(inbox[p])) THEN "asked" ELSE @]

Ask(p) ==
  /\ p = "core" /\ duty[p] = "none"
  /\ \E m \in Message : IsRequest(m) /\ RequestFile(p, m)

Answer(p) == \E m \in Message : m.type \in FileType /\ SendPiece(p, m)

PeerNext(p) ==
  /\ p \in open
  /\ \/ Speak(p) \/ Listen(p)
     \/ p = "core" /\ BeginReceive(p)
     \/ Ask(p) \/ ReceivePiece(p)
     \/ BeginReply(p) \/ Answer(p)
     \/ Close(p)

Next == \E p \in Peer : PeerNext(p)

Spec == Init /\ [][Next]_vars
------------------------------------------------------------------------------
TypeOK ==
  /\ state \in [Peer -> {"INITIAL", "S", "R"}]
  /\ inbox \in [Peer -> Seq(Message)]
  /\ duty \in [Peer -> {"none", "asked", "awaiting", "replying"}]
  /\ open \in SUBSET Peer

(* The two ends never hold the right to send at the same time. *)
OneSender == ~ \A p \in Peer : state[p] = "S"

(* Messages travel in one direction at a time, file requests included.  So  *)
(* an end that blocks in a write because the socket buffer is full is        *)
(* waiting for an end that reads, never for one that blocks in a write too. *)
HalfDuplex == \E p \in Peer : inbox[p] = <<>>

(* An end in S has received everything that was sent to it: what it says    *)
(* next answers the last thing it was told.                                  *)
SenderHasReadAll == \A p \in Peer : state[p] = "S" => inbox[p] = <<>>

(* The link carries one conversation: one end speaks, having heard all the   *)
(* other has said, while nothing comes the other way.  (uadeipc.c, the states *)
(* S and R)                                                                   *)
OneDirection == OneSender /\ HalfDuplex /\ SenderHasReadAll

(* The turn is not lost: as long as both ends are open they are not both    *)
(* waiting to receive with nothing on its way, except while the client holds *)
(* a file request it has yet to answer.                                      *)
TurnNotLost ==
  open = Peer /\ (\A p \in Peer : state[p] = "R")
    => \E p \in Peer : inbox[p] # <<>> \/ duty[p] = "asked"

(* Every message a peer reads while it waits for a file is a piece of it.    *)
OnlyPiecesAwaited ==
  \A p \in Peer : duty[p] = "awaiting" =>
    \A i \in 1 .. Len(inbox[p]) : inbox[p][i].type \in FileType
===============================================================================
