--------------------------- MODULE SessionTalkProofs ---------------------------
(***************************************************************************)
(* Proofs about UadeSession, first part.  Libuade and uadecore stay where    *)
(* Control says they may stand together, and whatever they do with the link  *)
(* between them is a step that IpcLink allows.  So the invariant of that     *)
(* link (IpcLinkProofs) holds in every session, and a session implements it. *)
(* As long as the application does not set the filter between songs, the two *)
(* never leave the conversation that Talk describes, whatever the application *)
(* calls and the emulated program does.  So uadecore never meets a message it *)
(* does not expect, a session fails only because uadecore is lost, and        *)
(* uade_stop() leaves nothing behind.                                        *)
(***************************************************************************)
EXTENDS UadeSession, SequenceTheorems, TLAPS

(* The inductive invariant behind the safety properties of a session.  It   *)
(* says where the two programs may stand at the same time, and which         *)
(* messages are then on their way between them, those included that one of   *)
(* them is about to send.                                                    *)
Peers == {"client", "core"}
ClientOpen == "client" \in open
CoreOpen == "core" \in open
BothOpen == ClientOpen /\ CoreOpen

FileTypes == {"FILE", "FILE_DATA"}
Message ==
  [type : (ToCore \cup ToClient) \cup FileTypes \cup {"TOKEN", "REQUEST_AMIGA_FILE"},
   body : Body, last : BOOLEAN]

Has(q, type) == \E i \in 1 .. Len(q) : q[i].type = type
AllIn(q, types) == \A i \in 1 .. Len(q) : q[i].type \in types
(* The last message of q, and no other, is of that type. *)
EndsWith(q, type) ==
  q # <<>> /\ \A i \in 1 .. Len(q) : q[i].type = type <=> i = Len(q)

(* What each side will hear: a send does not change it, a receive takes the *)
(* first message of it.                                                      *)
CoreHears == inbox["core"] \o sending
ClientHears == inbox["client"] \o out
------------------------------------------------------------------------------
(* The types of the variables, as far as the rest depends on them. *)
Typed ==
  /\ state \in [Peers -> {"INITIAL", "S", "R"}]
  /\ inbox \in [Peers -> Seq(Message)]
  /\ duty \in [Peers -> {"none", "asked", "awaiting", "replying"}]
  /\ open \in SUBSET Peers
  /\ sending \in Seq(Message) /\ out \in Seq(Message) /\ write_queue \in Seq(Message)
  /\ song \in 0 .. MaxSongs /\ cur \in Nat /\ led \in {0, 1} /\ wanted \in Nat
  /\ coreSong \in 0 .. MaxSongs /\ cachedfilename \in Nat /\ sndbuf \in Nat
  /\ read_size \in Nat

(* libuade, place by place: the state of the song, the protocol state, the  *)
(* duty in a file request and what it is about to send.                      *)
InSong == {"RECEIVE_MSGS", "SONG_END_PENDING"}
Stopping == pc \in {"drain", "reboot", "settle"}
Replying == pc \in {"asked", "reply"}

PhaseAt ==
  /\ pc \in {"new", "init", "answer", "canplay", "cantplay", "options", "filter"}
       => phase = "INVALID"
  /\ pc = "idle"    => phase \in {"INVALID", "WAIT_SUBSONG_CHANGE"} \cup InSong
  /\ pc = "event"   => phase \in {"INITIALIZED", "WAIT_SUBSONG_CHANGE"} \cup InSong
  /\ pc = "request" => phase \in {"INITIALIZED"} \cup InSong
  /\ pc = "receive" \/ (Replying /\ back = "receive") => phase \in InSong
  /\ Stopping \/ (Replying /\ back # "receive") =>
       /\ phase # "INVALID"
       /\ caller \in {"app", "unplayable", "error", "cleanup"}
       /\ write_queue = <<>>
  /\ pc = "fatal" => phase \in {"INVALID", "ERROR"}
  /\ phase = "INVALID" => write_queue = <<>>

StateAt ==
  /\ pc = "new" => state["client"] \in (IF sending = <<>> THEN {"S"} ELSE {"INITIAL", "S"})
  /\ pc \in {"init", "request", "reboot"} =>
       state["client"] = (IF sending = <<>> THEN "R" ELSE "S")
  /\ pc \in {"options", "filter", "reply"} => state["client"] = "S"
  /\ pc \in {"answer", "canplay", "cantplay", "receive", "asked"} => state["client"] = "R"
  /\ pc = "idle"  => state["client"] = (IF phase = "INVALID" THEN "S" ELSE "R")
  /\ pc = "event" => state["client"] = (IF phase = "INITIALIZED" THEN "S" ELSE "R")
  /\ pc \in {"drain", "settle", "fatal"} => state["client"] \in {"S", "R"}

SendingAt ==
  /\ pc \in {"init", "request", "reboot"} /\ sending # <<>> =>
       AllIn(sending, ToCore \cup FileTypes \cup {"TOKEN"}) /\ EndsWith(sending, "TOKEN")
  /\ pc = "reply" =>
       /\ sending # <<>> /\ AllIn(sending, FileTypes)
       /\ \A i \in 1 .. Len(sending) : sending[i].last <=> i = Len(sending)
  /\ pc \in {"new", "options", "filter"} => AllIn(sending, ToCore)
  /\ pc \notin {"new", "init", "options", "request", "reply", "reboot", "filter"}
       => sending = <<>>
  /\ AllIn(write_queue, {"FILTER"})

(* An answer to a song that asks for a file would end the session. *)
GivenUp == pc \in {"fatal", "close"} /\ phase = "INVALID"

DutyAt ==
  duty["client"] \in (IF GivenUp THEN {"none", "asked"} ELSE IF pc = "asked" THEN {"asked"}
                      ELSE IF pc = "reply" THEN {"replying"} ELSE {"none"})

ClientControl ==
  /\ pc \in {"new", "idle", "init", "answer", "canplay", "cantplay", "options", "event",
             "request", "receive", "asked", "reply", "drain", "reboot", "settle",
             "filter", "fatal", "close", "wait", "gone"}
  /\ back \in {"receive", "drain", "settle"} /\ phase \in Phases
  /\ ClientOpen <=> pc \notin {"wait", "gone"}
  /\ PhaseAt /\ StateAt /\ SendingAt
  /\ ClientOpen => DutyAt

(* uadecore: the same. *)
CoreControl ==
  /\ at \in {"option", "reset", "score", "player", "playerdata", "module", "moduledata",
             "token", "begin", "rstate", "run", "file", "filedata"} \cup Dead
  /\ CoreOpen <=> at \notin Dead
  /\ CoreOpen => duty["core"] = (IF at \in {"file", "filedata"} THEN "awaiting" ELSE "none")
  /\ at = "option" => state["core"] \in {"INITIAL", "R"}
  /\ at = "run" \/ out # <<>> => state["core"] = "S"
  /\ at \notin {"option", "run"} \cup Dead /\ out = <<>> => state["core"] = "R"
  /\ AllIn(out, ToClient \cup {"TOKEN"})
  /\ out # <<>> => at \in {"reset", "score", "begin", "rstate", "run"}
  /\ out # <<>> /\ at # "run" => EndsWith(out, "TOKEN")
  /\ at = "run" => ~Has(out, "TOKEN")
  /\ (at = "token" /\ canPlay) \/ at \in {"begin", "run", "file", "filedata"} => ~reboot

Control == Typed /\ ClientControl /\ CoreControl
------------------------------------------------------------------------------
(* What the two say to each other, as long as both are there.               *)
News == {"SUBSONG_INFO", "MSG", "SONG_END", "DATA"}
Orders == {"CHANGE_SUBSONG", "FILTER", "SET_PLAYER_OPTION"}

(* There is no song. *)
Quiet ==
  /\ pc \in {"new", "idle", "fatal", "close"} /\ phase = "INVALID"
  /\ ClientHears = <<>> /\ read_size = 0
  /\ \/ at = "option" /\ song = 0 /\ Len(CoreHears) = 1 /\ CoreHears[1].type = "CONFIG"
     \/ at \in {"reset", "score"} /\ CoreHears = <<>>

(* A song is sent: what uadecore has still to hear of it is the rest of      *)
(* LoadTypes, and it waits for the first of that.                            *)
LoadTypes(module) ==
  IF module
  THEN <<"CONFIG", "SCORE", "FILE", "FILE_DATA", "FILE", "FILE_DATA", "TOKEN">>
  ELSE <<"CONFIG", "SCORE", "FILE", "FILE_DATA", "FILE", "TOKEN">>

LoadPlaces(module) ==
  IF module
  THEN <<{"option"}, {"reset", "score"}, {"player"}, {"playerdata"}, {"module"},
         {"moduledata"}, {"token"}>>
  ELSE <<{"option"}, {"reset", "score"}, {"player"}, {"playerdata"}, {"module"}, {"token"}>>

Loading ==
  /\ pc \in {"init", "answer"}
  /\ ClientHears = <<>> /\ read_size = 0
  /\ \E module \in BOOLEAN : \E n \in 0 .. Len(LoadTypes(module)) - 1 :
       /\ at \in LoadPlaces(module)[n + 1]
       /\ Len(CoreHears) = Len(LoadTypes(module)) - n
       /\ \A i \in 1 .. Len(CoreHears) :
            /\ CoreHears[i].type = LoadTypes(module)[n + i]
            /\ CoreHears[i].type = "FILE" => (CoreHears[i].last <=> n + i = 5 /\ ~module)

(* uadecore says whether it can play it, and returns the turn. *)
Answering ==
  /\ CoreHears = <<>> /\ read_size = 0
  /\ EndsWith(ClientHears, "TOKEN")
  /\ \/ /\ pc \in {"init", "answer"} /\ Len(ClientHears) = 2
        /\ \/ at \in {"begin", "rstate"} /\ ~reboot /\ ClientHears[1].type = "CAN_PLAY"
           \/ at \in {"reset", "score"} /\ ClientHears[1].type = "CANT_PLAY"
     \/ pc = "canplay" /\ Len(ClientHears) = 1 /\ at \in {"begin", "rstate"} /\ ~reboot
     \/ pc = "cantplay" /\ Len(ClientHears) = 1 /\ at \in {"reset", "score"}

(* The options of the song are on their way; nothing else is, yet. *)
Opening ==
  /\ pc = "options" \/ (pc = "event" /\ phase = "INITIALIZED")
  /\ at \in {"begin", "rstate"} /\ ~reboot /\ read_size = 0
  /\ ClientHears = <<>> /\ AllIn(CoreHears, Orders)

(* libuade waits for uadecore, or will before it says anything else. *)
Listening ==
  /\ pc \in {"idle", "event", "request", "receive"} \/ (pc = "drain" /\ state["client"] = "R")
  /\ phase # "INVALID" /\ ~(pc = "event" /\ phase = "INITIALIZED")

(* Orders, a read request and the turn are on their way. *)
Ordered ==
  /\ Listening
  /\ at \in {"begin", "rstate"} /\ ~reboot /\ ClientHears = <<>>
  /\ CoreHears # <<>>
  /\ \A i \in 1 .. Len(CoreHears) :
       CoreHears[i].type \in (IF i = Len(CoreHears) THEN {"TOKEN"}
                              ELSE IF i = Len(CoreHears) - 1 THEN {"READ"} ELSE Orders)
  /\ read_size = 0 <=> Len(CoreHears) > 1

(* The Amiga program runs. *)
Running ==
  /\ Listening
  /\ at = "run" /\ CoreHears = <<>> /\ read_size # 0
  /\ AllIn(ClientHears, News \ {"DATA"})

(* uadecore waits for a file: it is asked for, looked up, or on its way. *)
Asking ==
  /\ Listening
  /\ at = "file" /\ CoreHears = <<>> /\ read_size # 0
  /\ EndsWith(ClientHears, "REQUEST_AMIGA_FILE")
  /\ AllIn(ClientHears, (News \ {"DATA"}) \cup {"REQUEST_AMIGA_FILE"})

LookingUp ==
  /\ pc = "asked" /\ back # "settle" /\ at = "file" /\ read_size # 0
  /\ CoreHears = <<>> /\ ClientHears = <<>>

Delivering ==
  /\ Listening \/ (pc = "reply" /\ back # "settle")
  /\ ClientHears = <<>> /\ read_size # 0
  /\ \/ /\ at = "file" /\ Len(CoreHears) \in {1, 2} /\ CoreHears[1].type = "FILE"
        /\ CoreHears[1].last <=> Len(CoreHears) = 1
        /\ Len(CoreHears) = 2 => CoreHears[2].type = "FILE_DATA" /\ CoreHears[2].last
     \/ /\ at = "filedata" /\ Len(CoreHears) = 1
        /\ CoreHears[1].type = "FILE_DATA" /\ CoreHears[1].last

(* A block is ready, and with it the turn. *)
Turning ==
  /\ Listening
  /\ at = "rstate" /\ ~reboot /\ CoreHears = <<>> /\ read_size = 0
  /\ EndsWith(ClientHears, "TOKEN") /\ AllIn(ClientHears, News \cup {"TOKEN"})

(* uade_stop(): it has the turn, orders the reboot, and gets the turn back. *)
Drained ==
  /\ pc = "drain" /\ state["client"] = "S"
  /\ at = "rstate" /\ ~reboot /\ read_size = 0
  /\ CoreHears = <<>> /\ ClientHears = <<>>

Rebooting ==
  /\ pc \in {"reboot", "settle"} /\ at = "rstate" /\ read_size = 0
  /\ pc = "settle" => state["client"] = "R"
  /\ ClientHears = <<>> /\ EndsWith(CoreHears, "TOKEN")
  /\ \/ ~reboot /\ Len(CoreHears) = 2 /\ CoreHears[1].type = "REBOOT"
     \/ reboot /\ Len(CoreHears) = 1

Rebooted ==
  /\ pc \in {"reboot", "settle"} /\ at \in {"reset", "score"} /\ read_size = 0
  /\ CoreHears = <<>>
  /\ \/ state["client"] = "S" /\ ClientHears = <<>>
     \/ /\ state["client"] = "R" /\ EndsWith(ClientHears, "TOKEN")
        /\ AllIn(ClientHears, News \cup {"TOKEN"})

Talk ==
  BothOpen =>
    \/ Quiet \/ Loading \/ Answering \/ Opening \/ Ordered
    \/ Running \/ Asking \/ LookingUp \/ Delivering \/ Turning
    \/ Drained \/ Rebooting \/ Rebooted
------------------------------------------------------------------------------
(* From the answer to the song on until uade_stop() has returned. *)
InPlay == phase # "INVALID" \/ pc = "options"

(* What the client will hear, whether or not uadecore is still there: an     *)
(* answer comes first or not at all, and the turn after an answer or a block. *)
Stream ==
  ClientOpen =>
    /\ Replying => ClientHears = <<>>
    /\ \A i \in 1 .. Len(ClientHears) :
         /\ ClientHears[i].type \in {"CAN_PLAY", "CANT_PLAY"} =>
              i = 1 /\ pc \in {"init", "answer"}
         /\ ClientHears[i].type = "TOKEN" /\ ~Stopping =>
              IF i = 1 THEN ~(pc = "receive" /\ phase = "SONG_END_PENDING")
              ELSE ClientHears[i - 1].type \in {"DATA", "CAN_PLAY", "CANT_PLAY"}

(* Everything on its way belongs to the song that is played. *)
OfSong ==
  /\ \A i \in 1 .. Len(CoreHears) :
       CoreHears[i].type # "CONFIG" => CoreHears[i].body.song = song
  /\ ClientOpen => \A i \in 1 .. Len(ClientHears) : ClientHears[i].body.song = song
  /\ \A i \in 1 .. Len(write_queue) : write_queue[i].body.song = song
  /\ at \in {"player", "playerdata", "module", "moduledata", "token", "begin", "rstate",
             "run", "file", "filedata"} \/ out # <<>> => coreSong = song

(* A read request and its answer agree on the size of a block. *)
OfSize ==
  /\ read_size \in {0, ReadBytes}
  /\ \A i \in 1 .. Len(CoreHears) :
       CoreHears[i].type = "READ" => CoreHears[i].body.arg = ReadBytes
  /\ \A i \in 1 .. Len(ClientHears) :
       ClientHears[i].type = "DATA" => ClientHears[i].body.arg = ReadBytes

(* The file that is asked for, looked up and sent is the one uadecore has    *)
(* recorded; when it has come it is the cached one.                          *)
OfFile ==
  /\ at \in {"score", "player", "playerdata", "module", "moduledata", "token", "begin"}
       => cachedfile = NoFile
  /\ at \in {"rstate", "run"} /\ cachedfile # NoFile
       => cachedfile = [song |-> coreSong, arg |-> cachedfilename]
  /\ at \in {"file", "filedata"} =>
       /\ \A i \in 1 .. Len(CoreHears) :
            CoreHears[i].body = [song |-> coreSong, arg |-> cachedfilename]
       /\ \A i \in 1 .. Len(ClientHears) :
            ClientHears[i].type = "REQUEST_AMIGA_FILE"
              => ClientHears[i].body.arg = cachedfilename
       /\ pc \in {"asked", "reply"} => wanted = cachedfilename

(* The options come before the first turn of a song. *)
OptionsFirst ==
  /\ at \in {"run", "file", "filedata"} => epoptions = {coreSong}
  /\ at = "rstate" => epoptions \in {{}, {coreSong}}
  /\ at \in {"begin", "rstate"} /\ ((ClientOpen /\ InPlay) \/ Has(CoreHears, "TOKEN"))
       => Has(CoreHears, "SET_PLAYER_OPTION") \/ (at = "rstate" /\ epoptions = {coreSong})

(* The last filter command that uadecore has obeyed, will hear or is still   *)
(* queued is the application's last word.                                    *)
LastFilter(q) ==
  \E i \in 1 .. Len(q) :
    /\ q[i].type = "FILTER" /\ q[i].body.arg = 2 + led
    /\ \A j \in i + 1 .. Len(q) : q[j].type # "FILTER"

FilterKept ==
  BothOpen /\ InPlay /\ ~Stopping /\ (Replying => back = "receive") =>
    \/ write_queue # <<>> /\ LastFilter(write_queue)
    \/ write_queue = <<>> /\ LastFilter(CoreHears)
    \/ /\ write_queue = <<>> /\ ~Has(CoreHears, "FILTER")
       /\ ledstate = led /\ forced = 2 + led
------------------------------------------------------------------------------
LP == INSTANCE IpcLinkProofs WITH Command <- ToCore \cup ToClient, Payload <- Body
------------------------------------------------------------------------------
(* What is about to be sent is heard already: a send changes nothing. *)
LEMMA SendWord ==
  ASSUME NEW S, NEW q \in Seq(S), NEW s \in Seq(S), s # <<>>
  PROVE  Append(q, Head(s)) \o Tail(s) = q \o s
  <1>1. Head(s) \in S /\ Head(s) = s[1] /\ Tail(s) \in Seq(S) /\ Len(Tail(s)) = Len(s) - 1
        /\ \A i \in 1 .. Len(Tail(s)) : Tail(s)[i] = s[i + 1]
        BY HeadTailProperties
  <1>2. Append(q, Head(s)) \in Seq(S) /\ Len(Append(q, Head(s))) = Len(q) + 1
        /\ \A i \in 1 .. Len(q) : Append(q, Head(s))[i] = q[i]
        /\ Append(q, Head(s))[Len(q) + 1] = s[1]
        BY <1>1, AppendProperties
  <1>3. Len(q) \in Nat /\ Len(s) \in Nat \ {0} BY LenProperties, EmptySeq
  <1> DEFINE a == Append(q, Head(s)) \o Tail(s)
             b == q \o s
  <1>4. /\ a \in Seq(S) /\ b \in Seq(S) /\ Len(a) = Len(b) /\ Len(b) = Len(q) + Len(s)
        BY <1>1, <1>2, <1>3, ConcatProperties
  <1>5. ASSUME NEW i \in 1 .. Len(b) PROVE a[i] = b[i]
    <2>1. a[i] = IF i <= Len(q) + 1 THEN Append(q, Head(s))[i] ELSE Tail(s)[i - (Len(q) + 1)]
          BY <1>1, <1>2, <1>3, <1>4, ConcatProperties
    <2>2. b[i] = IF i <= Len(q) THEN q[i] ELSE s[i - Len(q)]
          BY <1>3, <1>4, ConcatProperties
    <2> HIDE DEF a, b
    <2>3. CASE i <= Len(q) BY <2>1, <2>2, <2>3, <1>2, <1>3
    <2>4. CASE i = Len(q) + 1 BY <2>1, <2>2, <2>4, <1>2, <1>3
    <2>5. CASE i > Len(q) + 1 BY <2>1, <2>2, <2>5, <1>1, <1>3, <1>4
    <2> QED BY <2>3, <2>4, <2>5, <1>3, <1>4
  <1> HIDE DEF a, b
  <1>6. a = b BY <1>4, <1>5, SeqEqual
  <1> QED BY <1>6 DEF a, b

(* A receive takes the first message of what is heard. *)
LEMMA ReceiveWord ==
  ASSUME NEW S, NEW q \in Seq(S), NEW s \in Seq(S), q # <<>>
  PROVE  /\ Tail(q) \o s = Tail(q \o s)
         /\ Head(q) = (q \o s)[1] /\ q \o s # <<>> /\ q \o s \in Seq(S)
  <1>1. Head(q) \in S /\ Head(q) = q[1] /\ Tail(q) \in Seq(S) /\ Len(Tail(q)) = Len(q) - 1
        /\ \A i \in 1 .. Len(Tail(q)) : Tail(q)[i] = q[i + 1]
        BY HeadTailProperties
  <1>2. Len(q) \in Nat \ {0} /\ Len(s) \in Nat BY LenProperties, EmptySeq
  <1> DEFINE w == q \o s
             a == Tail(q) \o s
  <1>3. w \in Seq(S) /\ Len(w) = Len(q) + Len(s)
        /\ \A i \in 1 .. Len(q) + Len(s) : w[i] = IF i <= Len(q) THEN q[i] ELSE s[i - Len(q)]
        BY ConcatProperties
  <1>4. a \in Seq(S) /\ Len(a) = Len(q) - 1 + Len(s)
        /\ \A i \in 1 .. Len(q) - 1 + Len(s) :
             a[i] = IF i <= Len(q) - 1 THEN Tail(q)[i] ELSE s[i - (Len(q) - 1)]
        BY <1>1, ConcatProperties
  <1> HIDE DEF w, a
  <1>5. w # <<>> BY <1>2, <1>3, EmptySeq
  <1>6. Tail(w) \in Seq(S) /\ Len(Tail(w)) = Len(w) - 1
        /\ \A i \in 1 .. Len(Tail(w)) : Tail(w)[i] = w[i + 1]
        BY <1>3, <1>5, HeadTailProperties
  <1>7. ASSUME NEW i \in 1 .. Len(a) PROVE a[i] = Tail(w)[i]
    <2>1. i \in Int /\ i + 1 \in 1 .. Len(q) + Len(s) /\ Tail(w)[i] = w[i + 1]
          BY <1>2, <1>3, <1>4, <1>6
    <2>2. CASE i <= Len(q) - 1
      <3>1. a[i] = q[i + 1] BY <2>1, <2>2, <1>1, <1>2, <1>4
      <3>2. w[i + 1] = q[i + 1] BY <2>1, <2>2, <1>2, <1>3
      <3> QED BY <2>1, <3>1, <3>2
    <2>3. CASE ~(i <= Len(q) - 1)
      <3>1. PICK k \in Int : k = i + 1 - Len(q) /\ k = i - (Len(q) - 1) BY <2>1, <1>2
      <3>2. a[i] = s[k] BY <2>1, <2>3, <3>1, <1>2, <1>4
      <3>3. w[i + 1] = s[k] BY <2>1, <2>3, <3>1, <1>2, <1>3
      <3> QED BY <2>1, <3>2, <3>3
    <2> QED BY <2>2, <2>3
  <1>8. a = Tail(w) BY <1>2, <1>3, <1>4, <1>6, <1>7, SeqEqual
  <1>9. Head(q) = w[1] BY <1>1, <1>2, <1>3
  <1> QED BY <1>3, <1>5, <1>8, <1>9 DEF w, a
------------------------------------------------------------------------------
LinkTyped ==
  /\ state \in [Peers -> {"INITIAL", "S", "R"}]
  /\ inbox \in [Peers -> Seq(Message)]
  /\ duty \in [Peers -> {"none", "asked", "awaiting", "replying"}]
  /\ open \in SUBSET Peers

(* The commands of a session are none of the types the link itself knows. *)
LEMMA LinkAssumed == LP!LinkAssumption
  BY DEF LP!LinkAssumption, ToCore, ToClient, LP!FileType

LEMMA MessageFacts ==
  /\ LP!Message = Message /\ Link!Message = Message
  /\ \A type, s, a : s \in 0 .. MaxSongs /\ a \in Nat
       /\ type \in ToCore \cup ToClient \cup FileTypes \cup {"TOKEN", "REQUEST_AMIGA_FILE"}
       => /\ Msg(type, s, a) \in Message
          /\ Msg(type, s, a).type = type /\ Msg(type, s, a).last = TRUE
          /\ Msg(type, s, a).body = [song |-> s, arg |-> a]
  BY DEF LP!Message, Link!Message, Message, LP!Type, Link!Type, LP!FileType, Link!FileType,
     FileTypes, Msg, Body

(* What the operations of the link do to each side of it, and that each is a *)
(* step of IpcLink.                                                          *)
LEMMA ClientSends ==
  ASSUME LinkTyped, ClientOpen, duty["client"] = "none",
         NEW m \in Message, m.type # "REQUEST_AMIGA_FILE",
         Link!SendMessage("client", m), UNCHANGED duty
  PROVE  /\ LP!Next /\ LinkTyped'
         /\ state'["client"] = (IF m.type = "TOKEN" THEN "R" ELSE "S")
         /\ state'["core"] = state["core"] /\ open' = open
         /\ inbox'["client"] = inbox["client"]
         /\ inbox'["core"] = (IF CoreOpen THEN Append(inbox["core"], m) ELSE inbox["core"])
  <1>1. LP!SendMessage("client", m)
        BY DEF Link!SendMessage, LP!SendMessage, Link!Deliver, LP!Deliver, Link!Other,
               LP!Other, Link!IsToken, LP!IsToken
  <1>2. LP!Next
        BY <1>1, MessageFacts DEF LP!Next, LP!PeerNext, LP!Speak, LP!Peer, LP!IsRequest, ClientOpen
  <1>3. inbox["core"] \in Seq(Message) /\ Append(inbox["core"], m) \in Seq(Message)
        BY AppendProperties DEF LinkTyped, Peers
  <1>4. /\ open' = open /\ duty' = duty
        /\ state' = [state EXCEPT !["client"] = IF m.type = "TOKEN" THEN "R" ELSE "S"]
        /\ inbox' = IF CoreOpen THEN [inbox EXCEPT !["core"] = Append(@, m)] ELSE inbox
        BY DEF Link!SendMessage, Link!Deliver, Link!Other, Link!IsToken, CoreOpen
  <1> QED BY <1>2, <1>3, <1>4 DEF LinkTyped, Peers

LEMMA CoreSends ==
  ASSUME LinkTyped, CoreOpen, duty["core"] = "none", state["core"] = "S",
         NEW m \in Message, m.type # "REQUEST_AMIGA_FILE",
         Link!SendMessage("core", m), UNCHANGED duty
  PROVE  /\ LP!Next /\ LinkTyped'
         /\ state'["core"] = (IF m.type = "TOKEN" THEN "R" ELSE "S")
         /\ state'["client"] = state["client"] /\ open' = open
         /\ inbox'["core"] = inbox["core"]
         /\ inbox'["client"] =
              (IF ClientOpen THEN Append(inbox["client"], m) ELSE inbox["client"])
  <1>1. LP!SendMessage("core", m)
        BY DEF Link!SendMessage, LP!SendMessage, Link!Deliver, LP!Deliver, Link!Other,
               LP!Other, Link!IsToken, LP!IsToken
  <1>2. LP!Next
        BY <1>1, MessageFacts DEF LP!Next, LP!PeerNext, LP!Speak, LP!Peer, LP!IsRequest, CoreOpen
  <1>3. inbox["client"] \in Seq(Message) /\ Append(inbox["client"], m) \in Seq(Message)
        BY AppendProperties DEF LinkTyped, Peers
  <1>4. /\ open' = open /\ duty' = duty
        /\ state' = [state EXCEPT !["core"] = IF m.type = "TOKEN" THEN "R" ELSE "S"]
        /\ inbox' = IF ClientOpen THEN [inbox EXCEPT !["client"] = Append(@, m)] ELSE inbox
        BY DEF Link!SendMessage, Link!Deliver, Link!Other, Link!IsToken, ClientOpen
  <1> QED BY <1>2, <1>3, <1>4 DEF LinkTyped, Peers

LEMMA ClientHearsOne ==
  ASSUME LinkTyped, ClientOpen, duty["client"] = "none", state["client"] = "R",
         inbox["client"] # <<>>, Link!ReceiveMessage("client"),
         duty' = [duty EXCEPT !["client"] =
                    IF NewMessage.type = "REQUEST_AMIGA_FILE" THEN "asked" ELSE @]
  PROVE  /\ LP!Next /\ LinkTyped'
         /\ state'["client"] = (IF NewMessage.type = "TOKEN" THEN "S" ELSE "R")
         /\ duty'["client"] =
              (IF NewMessage.type = "REQUEST_AMIGA_FILE" THEN "asked" ELSE "none")
         /\ state'["core"] = state["core"] /\ duty'["core"] = duty["core"] /\ open' = open
         /\ inbox'["client"] = Tail(inbox["client"]) /\ inbox'["core"] = inbox["core"]
         /\ NewMessage \in Message
  <1>1. LP!ReceiveMessage("client")
        BY DEF Link!ReceiveMessage, LP!ReceiveMessage, Link!IsToken, LP!IsToken
  <1>2. LP!Next
        BY <1>1 DEF LP!Next, LP!PeerNext, LP!Listen, LP!Peer, LP!IsRequest, ClientOpen, NewMessage
  <1>3. /\ inbox["client"] \in Seq(Message) /\ Tail(inbox["client"]) \in Seq(Message)
        /\ NewMessage \in Message
        BY HeadTailProperties DEF LinkTyped, Peers, NewMessage
  <1>4. /\ open' = open /\ inbox' = [inbox EXCEPT !["client"] = Tail(@)]
        /\ state' = [state EXCEPT !["client"] = IF NewMessage.type = "TOKEN" THEN "S" ELSE "R"]
        BY DEF Link!ReceiveMessage, Link!IsToken, NewMessage
  <1> QED BY <1>2, <1>3, <1>4 DEF LinkTyped, Peers

LEMMA CoreHearsOne ==
  ASSUME LinkTyped, CoreOpen, duty["core"] = "none",
         inbox["core"] # <<>>, Link!ReceiveMessage("core"), UNCHANGED duty,
         Next_message.type # "REQUEST_AMIGA_FILE"
  PROVE  /\ LP!Next /\ LinkTyped'
         /\ state'["core"] = (IF Next_message.type = "TOKEN" THEN "S" ELSE "R")
         /\ state'["client"] = state["client"] /\ open' = open
         /\ inbox'["core"] = Tail(inbox["core"]) /\ inbox'["client"] = inbox["client"]
         /\ Next_message \in Message
  <1>1. LP!ReceiveMessage("core")
        BY DEF Link!ReceiveMessage, LP!ReceiveMessage, Link!IsToken, LP!IsToken
  <1>2. duty' = [duty EXCEPT !["core"] = IF LP!IsRequest(Next_message) THEN "asked" ELSE @]
        BY DEF LinkTyped, Peers, LP!IsRequest
  <1>3. LP!Next
        BY <1>1, <1>2 DEF LP!Next, LP!PeerNext, LP!Listen, LP!Peer, CoreOpen, Next_message
  <1>4. /\ inbox["core"] \in Seq(Message) /\ Tail(inbox["core"]) \in Seq(Message)
        /\ Next_message \in Message
        BY HeadTailProperties DEF LinkTyped, Peers, Next_message
  <1>5. /\ open' = open /\ inbox' = [inbox EXCEPT !["core"] = Tail(@)]
        /\ state' = [state EXCEPT !["core"] = IF Next_message.type = "TOKEN" THEN "S" ELSE "R"]
        BY DEF Link!ReceiveMessage, Link!IsToken, Next_message
  <1> QED BY <1>3, <1>4, <1>5 DEF LinkTyped, Peers

LEMMA CoreAsksForFile ==
  ASSUME LinkTyped, CoreOpen, duty["core"] = "none",
         NEW m \in Message, m.type = "REQUEST_AMIGA_FILE", Link!RequestFile("core", m)
  PROVE  /\ LP!Next /\ LinkTyped' /\ ClientOpen /\ state["core"] = "S"
         /\ state'["core"] = "R" /\ duty'["core"] = "awaiting"
         /\ state'["client"] = state["client"] /\ duty'["client"] = duty["client"]
         /\ open' = open /\ inbox'["core"] = inbox["core"]
         /\ inbox'["client"] = Append(inbox["client"], m)
  <1>1. LP!RequestFile("core", m)
        BY DEF Link!RequestFile, LP!RequestFile, Link!Deliver, LP!Deliver, Link!Other, LP!Other
  <1>2. LP!Next
        BY <1>1, MessageFacts DEF LP!Next, LP!PeerNext, LP!Ask, LP!Peer, LP!IsRequest, CoreOpen
  <1>3. inbox["client"] \in Seq(Message) /\ Append(inbox["client"], m) \in Seq(Message)
        BY AppendProperties DEF LinkTyped, Peers
  <1>4. /\ open' = open /\ ClientOpen /\ state["core"] = "S"
        /\ state' = [state EXCEPT !["core"] = "R"]
        /\ duty' = [duty EXCEPT !["core"] = "awaiting"]
        /\ inbox' = [inbox EXCEPT !["client"] = Append(@, m)]
        BY DEF Link!RequestFile, Link!Deliver, Link!Other, ClientOpen
  <1> QED BY <1>2, <1>3, <1>4 DEF LinkTyped, Peers

LEMMA CoreTakesPiece ==
  ASSUME LinkTyped, CoreOpen, inbox["core"] # <<>>, Link!ReceivePiece("core")
  PROVE  /\ LP!Next /\ LinkTyped' /\ Next_message \in Message
         /\ inbox'["core"] = Tail(inbox["core"]) /\ inbox'["client"] = inbox["client"]
         /\ state'["client"] = state["client"] /\ duty'["client"] = duty["client"]
         /\ open' = open
         /\ IF Next_message.type \in FileTypes /\ Next_message.last
            THEN state'["core"] = "S" /\ duty'["core"] = "none"
            ELSE state' = state /\ duty' = duty
  <1>1. LP!ReceivePiece("core")
        BY DEF Link!ReceivePiece, LP!ReceivePiece, Link!IsLastPiece, LP!IsLastPiece,
               Link!FileType, LP!FileType
  <1>2. LP!Next
        BY <1>1 DEF LP!Next, LP!PeerNext, LP!Peer, CoreOpen
  <1>3. /\ inbox["core"] \in Seq(Message) /\ Tail(inbox["core"]) \in Seq(Message)
        /\ Next_message \in Message
        BY HeadTailProperties DEF LinkTyped, Peers, Next_message
  <1>4. /\ open' = open /\ inbox' = [inbox EXCEPT !["core"] = Tail(@)]
        /\ IF Next_message.type \in FileTypes /\ Next_message.last
           THEN /\ state' = [state EXCEPT !["core"] = "S"]
                /\ duty' = [duty EXCEPT !["core"] = "none"]
           ELSE state' = state /\ duty' = duty
        BY DEF Link!ReceivePiece, Link!IsLastPiece, Link!FileType, FileTypes, Next_message
  <1> QED BY <1>2, <1>3, <1>4 DEF LinkTyped, Peers

LEMMA CoreBegins ==
  ASSUME LinkTyped, CoreOpen, Link!BeginReceive("core")
  PROVE  /\ LP!Next /\ LinkTyped'
         /\ state'["core"] = "R" /\ state'["client"] = state["client"]
         /\ UNCHANGED <<inbox, duty, open>>
  <1>1. LP!Next
        BY DEF Link!BeginReceive, LP!BeginReceive, LP!Next, LP!PeerNext, LP!Peer, CoreOpen
  <1> QED BY <1>1 DEF Link!BeginReceive, LinkTyped, Peers

LEMMA ClientBeginsReply ==
  ASSUME LinkTyped, ClientOpen, Link!BeginReply("client")
  PROVE  /\ LP!Next /\ LinkTyped'
         /\ state'["client"] = "S" /\ duty'["client"] = "replying"
         /\ state'["core"] = state["core"] /\ duty'["core"] = duty["core"]
         /\ UNCHANGED <<inbox, open>>
  <1>1. LP!Next
        BY DEF Link!BeginReply, LP!BeginReply, LP!Next, LP!PeerNext, LP!Peer, ClientOpen
  <1> QED BY <1>1 DEF Link!BeginReply, LinkTyped, Peers

LEMMA ClientSendsPiece ==
  ASSUME LinkTyped, ClientOpen, NEW m \in Message, m.type \in FileTypes,
         Link!SendPiece("client", m)
  PROVE  /\ LP!Next /\ LinkTyped' /\ open' = open
         /\ state'["core"] = state["core"] /\ duty'["core"] = duty["core"]
         /\ inbox'["client"] = inbox["client"]
         /\ inbox'["core"] = (IF CoreOpen THEN Append(inbox["core"], m) ELSE inbox["core"])
         /\ IF CoreOpen /\ ~m.last THEN state' = state /\ duty' = duty
            ELSE /\ duty'["client"] = "none"
                 /\ CoreOpen => state'["client"] = "R"
  <1>1. LP!SendPiece("client", m)
        BY DEF Link!SendPiece, LP!SendPiece, Link!Deliver, LP!Deliver, Link!Other, LP!Other
  <1>2. LP!Next
        BY <1>1, MessageFacts DEF LP!Next, LP!PeerNext, LP!Answer, LP!Peer, LP!FileType,
           FileTypes, ClientOpen
  <1>3. inbox["core"] \in Seq(Message) /\ Append(inbox["core"], m) \in Seq(Message)
        BY AppendProperties DEF LinkTyped, Peers
  <1>4. /\ open' = open
        /\ inbox' = IF CoreOpen THEN [inbox EXCEPT !["core"] = Append(@, m)] ELSE inbox
        /\ IF ~CoreOpen
           THEN duty' = [duty EXCEPT !["client"] = "none"] /\ state' = state
           ELSE IF m.last THEN /\ state' = [state EXCEPT !["client"] = "R"]
                               /\ duty' = [duty EXCEPT !["client"] = "none"]
           ELSE state' = state /\ duty' = duty
        BY DEF Link!SendPiece, Link!Deliver, Link!Other, CoreOpen
  <1> QED BY <1>2, <1>3, <1>4 DEF LinkTyped, Peers

LEMMA Closes ==
  ASSUME LinkTyped, NEW p \in Peers, p \in open, Link!Close(p)
  PROVE  /\ LP!Next /\ LinkTyped'
         /\ state' = state /\ duty' = duty /\ open' = open \ {p}
         /\ inbox'[p] = <<>> /\ \A o \in Peers : o # p => inbox'[o] = inbox[o]
  <1>1. LP!Next
        BY DEF Link!Close, LP!Close, LP!Next, LP!PeerNext, LP!Peer, Peers
  <1>2. <<>> \in Seq(Message) BY EmptySeq
  <1> QED BY <1>1, <1>2 DEF Link!Close, LinkTyped, Peers
------------------------------------------------------------------------------
(* Words: what taking the first message leaves of what is known of them.    *)
LEMMA TailWord ==
  ASSUME NEW q \in Seq(Message), q # <<>>
  PROVE  /\ Head(q) = q[1] /\ Head(q) \in Message /\ Tail(q) \in Seq(Message)
         /\ Len(q) \in Nat \ {0} /\ Len(Tail(q)) = Len(q) - 1
         /\ \A i \in 1 .. Len(Tail(q)) : Tail(q)[i] = q[i + 1]
         /\ Tail(q) = <<>> <=> Len(q) = 1
         /\ \A types : AllIn(q, types) => Head(q).type \in types /\ AllIn(Tail(q), types)
         /\ \A type : EndsWith(q, type) =>
              /\ Head(q).type = type <=> Tail(q) = <<>>
              /\ Tail(q) # <<>> => EndsWith(Tail(q), type)
  <1>1. /\ Head(q) \in Message /\ Tail(q) \in Seq(Message)
        /\ Len(Tail(q)) = Len(q) - 1
        /\ \A i \in 1 .. Len(Tail(q)) : Tail(q)[i] = q[i + 1]
        BY HeadTailProperties
  <1>2. Head(q) = q[1] BY DEF Head
  <1>3. Len(q) \in Nat \ {0} /\ Len(Tail(q)) \in Nat
        BY <1>1, EmptySeq, LenProperties
  <1>4. Tail(q) = <<>> <=> Len(q) = 1 BY <1>1, <1>3, EmptySeq
  <1>5. ASSUME NEW types, AllIn(q, types)
        PROVE  Head(q).type \in types /\ AllIn(Tail(q), types)
        BY <1>1, <1>2, <1>3, <1>5 DEF AllIn
  <1>6. ASSUME NEW type, EndsWith(q, type)
        PROVE  /\ Head(q).type = type <=> Tail(q) = <<>>
               /\ Tail(q) # <<>> => EndsWith(Tail(q), type)
    <2>1. \A i \in 1 .. Len(q) : q[i].type = type <=> i = Len(q) BY <1>6 DEF EndsWith
    <2>2. 1 \in 1 .. Len(q) BY <1>3
    <2>3. q[1].type = type <=> Len(q) = 1 BY <2>1, <2>2
    <2>4. \A i \in 1 .. Len(Tail(q)) : Tail(q)[i].type = type <=> i = Len(Tail(q))
      <3>1. ASSUME NEW i \in 1 .. Len(Tail(q))
            PROVE  i + 1 \in 1 .. Len(q) /\ (i + 1 = Len(q) <=> i = Len(Tail(q)))
            BY <1>1, <1>3
      <3> QED BY <3>1, <2>1, <1>1
    <2> QED BY <2>3, <2>4, <1>2, <1>4 DEF EndsWith
  <1> QED BY <1>1, <1>2, <1>3, <1>4, <1>5, <1>6

LEMMA JoinWord ==
  ASSUME NEW x \in Seq(Message), NEW y \in Seq(Message)
  PROVE  /\ x \o y \in Seq(Message) /\ Len(x \o y) = Len(x) + Len(y)
         /\ \A types : AllIn(x \o y, types) <=> AllIn(x, types) /\ AllIn(y, types)
         /\ \A type : Has(x \o y, type) <=> Has(x, type) \/ Has(y, type)
         /\ \A type : ~Has(x, type) /\ EndsWith(y, type) => EndsWith(x \o y, type)
  <1> DEFINE w == x \o y
  <1>1. /\ w \in Seq(Message) /\ Len(w) = Len(x) + Len(y)
        /\ \A i \in 1 .. Len(x) + Len(y) : w[i] = IF i <= Len(x) THEN x[i] ELSE y[i - Len(x)]
        BY ConcatProperties
  <1>2. Len(x) \in Nat /\ Len(y) \in Nat BY LenProperties
  <1> HIDE DEF w
  <1>3. \A i \in 1 .. Len(x) : i \in 1 .. Len(w) /\ w[i] = x[i] BY <1>1, <1>2
  <1>4. ASSUME NEW i \in 1 .. Len(y)
        PROVE  i + Len(x) \in 1 .. Len(w) /\ w[i + Len(x)] = y[i]
    <2>1. i + Len(x) \in 1 .. Len(x) + Len(y) /\ ~(i + Len(x) <= Len(x)) BY <1>2
    <2>2. i + Len(x) - Len(x) = i BY <1>2
    <2> QED BY <2>1, <2>2, <1>1
  <1>5. ASSUME NEW i \in 1 .. Len(w)
        PROVE  \/ i \in 1 .. Len(x) /\ w[i] = x[i]
               \/ i - Len(x) \in 1 .. Len(y) /\ w[i] = y[i - Len(x)]
    <2>1. CASE i <= Len(x) BY <2>1, <1>1, <1>2
    <2>2. CASE ~(i <= Len(x))
      <3>1. i - Len(x) \in 1 .. Len(y) /\ i \in 1 .. Len(x) + Len(y) BY <2>2, <1>1, <1>2
      <3> QED BY <3>1, <2>2, <1>1
    <2> QED BY <2>1, <2>2
  <1>6. ASSUME NEW types PROVE AllIn(w, types) <=> AllIn(x, types) /\ AllIn(y, types)
    <2>1. ASSUME AllIn(w, types) PROVE AllIn(x, types) BY <2>1, <1>3 DEF AllIn
    <2>2. ASSUME AllIn(w, types) PROVE AllIn(y, types) BY <2>2, <1>4 DEF AllIn
    <2>3. ASSUME AllIn(x, types), AllIn(y, types) PROVE AllIn(w, types) BY <2>3, <1>5 DEF AllIn
    <2> QED BY <2>1, <2>2, <2>3
  <1>7. ASSUME NEW type PROVE Has(w, type) <=> Has(x, type) \/ Has(y, type)
    <2>1. ASSUME Has(x, type) PROVE Has(w, type) BY <2>1, <1>3 DEF Has
    <2>2. ASSUME Has(y, type) PROVE Has(w, type) BY <2>2, <1>4 DEF Has
    <2>3. ASSUME Has(w, type) PROVE Has(x, type) \/ Has(y, type) BY <2>3, <1>5 DEF Has
    <2> QED BY <2>1, <2>2, <2>3
  <1>8. ASSUME NEW type, ~Has(x, type), EndsWith(y, type) PROVE EndsWith(w, type)
    <2>1. w # <<>> BY <1>8, <1>1, <1>2, EmptySeq DEF EndsWith
    <2>2. ASSUME NEW i \in 1 .. Len(w) PROVE w[i].type = type <=> i = Len(w)
      <3>1. CASE i \in 1 .. Len(x) /\ w[i] = x[i]
        <4>1. w[i].type # type BY <3>1, <1>8 DEF Has
        <4>2. Len(y) > 0 BY <1>8, <1>2, EmptySeq DEF EndsWith
        <4>3. i # Len(w) BY <3>1, <4>2, <1>1, <1>2
        <4> QED BY <4>1, <4>3
      <3>2. CASE i - Len(x) \in 1 .. Len(y) /\ w[i] = y[i - Len(x)]
        <4>1. w[i].type = type <=> i - Len(x) = Len(y) BY <3>2, <1>8 DEF EndsWith
        <4>2. i - Len(x) = Len(y) <=> i = Len(w) BY <1>1, <1>2
        <4> QED BY <4>1, <4>2
      <3> QED BY <3>1, <3>2, <1>5
    <2> QED BY <2>1, <2>2 DEF EndsWith
  <1>9. QED BY <1>1, <1>6, <1>7, <1>8 DEF w

Joined(a, b, c, d, e, f) ==
  /\ <<a>> \o <<b, c>> \o <<d, e>> \o <<f>> = <<a, b, c, d, e, f>>
  /\ <<a>> \o <<b, c>> \o <<d>> \o <<f>> = <<a, b, c, d, f>>

LEMMA JoinSong ==
  ASSUME NEW a \in Message, NEW b \in Message, NEW c \in Message, NEW d \in Message,
         NEW e \in Message, NEW f \in Message
  PROVE  Joined(a, b, c, d, e, f)
  <1> DEFINE w == <<a>> \o <<b, c>>
             v == <<a, b, c>> \o <<d, e>>
             u == <<a, b, c>> \o <<d>>
             t == <<a, b, c, d, e>> \o <<f>>
             s == <<a, b, c, d>> \o <<f>>
  <1>1. w = <<a, b, c>>
    <2>1. <<a>> \in Seq(Message) /\ <<b, c>> \in Seq(Message) /\ Len(<<a>>) = 1 /\ Len(<<b, c>>) = 2
          OBVIOUS
    <2>2. w \in Seq(Message) /\ Len(w) = 3 /\ w[1] = a /\ w[2] = b /\ w[3] = c
          BY <2>1, ConcatProperties
    <2> HIDE DEF w
    <2> QED BY <2>2, SeqEqual
  <1>2. v = <<a, b, c, d, e>>
    <2>1. /\ <<a, b, c>> \in Seq(Message) /\ <<d, e>> \in Seq(Message)
          /\ Len(<<a, b, c>>) = 3 /\ Len(<<d, e>>) = 2
          OBVIOUS
    <2>2. v \in Seq(Message) /\ Len(v) = 5 /\ v[1] = a /\ v[2] = b /\ v[3] = c /\ v[4] = d /\ v[5] = e
          BY <2>1, ConcatProperties
    <2> HIDE DEF v
    <2> QED BY <2>2, SeqEqual
  <1>3. u = <<a, b, c, d>>
    <2>1. /\ <<a, b, c>> \in Seq(Message) /\ <<d>> \in Seq(Message)
          /\ Len(<<a, b, c>>) = 3 /\ Len(<<d>>) = 1
          OBVIOUS
    <2>2. u \in Seq(Message) /\ Len(u) = 4 /\ u[1] = a /\ u[2] = b /\ u[3] = c /\ u[4] = d
          BY <2>1, ConcatProperties
    <2> HIDE DEF u
    <2> QED BY <2>2, SeqEqual
  <1>4. t = <<a, b, c, d, e, f>>
    <2>1. /\ <<a, b, c, d, e>> \in Seq(Message) /\ <<f>> \in Seq(Message)
          /\ Len(<<a, b, c, d, e>>) = 5 /\ Len(<<f>>) = 1
          OBVIOUS
    <2>2. /\ t \in Seq(Message) /\ Len(t) = 6 /\ t[1] = a /\ t[2] = b /\ t[3] = c /\ t[4] = d
          /\ t[5] = e /\ t[6] = f
          BY <2>1, ConcatProperties
    <2> HIDE DEF t
    <2> QED BY <2>2, SeqEqual
  <1>5. s = <<a, b, c, d, f>>
    <2>1. /\ <<a, b, c, d>> \in Seq(Message) /\ <<f>> \in Seq(Message)
          /\ Len(<<a, b, c, d>>) = 4 /\ Len(<<f>>) = 1
          OBVIOUS
    <2>2. s \in Seq(Message) /\ Len(s) = 5 /\ s[1] = a /\ s[2] = b /\ s[3] = c /\ s[4] = d /\ s[5] = f
          BY <2>1, ConcatProperties
    <2> HIDE DEF s
    <2> QED BY <2>2, SeqEqual
  <1> QED BY <1>1, <1>2, <1>3, <1>4, <1>5 DEF Joined

LEMMA NoWord ==
  /\ <<>> \in Seq(Message) /\ Len(<<>>) = 0
  /\ \A types : AllIn(<<>>, types)
  /\ \A type : ~Has(<<>>, type)
  BY EmptySeq DEF AllIn, Has
------------------------------------------------------------------------------
(* A step of the client leaves the core's side of the link alone. *)
CoreSideKept ==
  state'["core"] = state["core"] /\ duty'["core"] = duty["core"] /\ (CoreOpen' <=> CoreOpen)

ClientSideKept ==
  /\ state'["client"] = state["client"] /\ duty'["client"] = duty["client"]
  /\ ClientOpen' <=> ClientOpen

LinkStep == LP!Next \/ UNCHANGED link

(* Where uade_stop() and a failing uade_get_event() lead. *)
LEMMA StopFacts ==
  ASSUME NEW who \in {"app", "unplayable", "error", "cleanup"}, Stop(who)
  PROVE  /\ caller' = who /\ write_queue' = <<>> /\ sending' = <<>>
         /\ phase' # "INVALID" => pc' = "drain"
         /\ phase' = "INVALID" =>
              pc' = (IF who = "error" THEN "fatal"
                     ELSE IF who = "cleanup" THEN "close" ELSE "idle")
  BY DEF Stop, GoTo

LEMMA StopReturnsFacts ==
  ASSUME NEW ok \in BOOLEAN, StopReturns(ok),
         caller \in {"app", "unplayable", "error", "cleanup"}
  PROVE  /\ UNCHANGED <<caller, song, write_queue>> /\ sending' = <<>>
         /\ phase' = (IF ok THEN "INVALID" ELSE "ERROR")
         /\ cur' \in {0, cur}
         /\ pc' = (IF caller = "cleanup" THEN "close"
                   ELSE IF caller = "error" \/ ~ok THEN "fatal" ELSE "idle")
  BY DEF StopReturns, GoTo

LEMMA EventFailsFacts ==
  ASSUME EventFails
  PROVE  /\ phase' = "ERROR" /\ sending' = <<>>
         /\ \/ pc' = "fatal" /\ UNCHANGED <<caller, write_queue>>
            \/ pc' = "drain" /\ caller' = "error" /\ write_queue' = <<>>
  BY StopFacts DEF EventFails, GoTo

LEMMA ClientSendControl ==
  ASSUME Control, ClientSend, UNCHANGED core
  PROVE  LinkStep /\ Typed' /\ ClientControl' /\ CoreSideKept
  <1> DEFINE m == Head(sending)
  <1>1. /\ m \in Message /\ Tail(sending) \in Seq(Message)
        BY TailWord DEF ClientSend, Control, Typed
  <1>2. /\ ClientOpen /\ pc \in {"new", "init", "options", "request", "reboot", "filter"}
        /\ duty["client"] = "none" /\ state["client"] \in {"INITIAL", "S"}
        BY DEF ClientSend, Control, ClientControl, SendingAt, StateAt, DutyAt, GivenUp
  <1>0. m.type \in ToCore \cup FileTypes \cup {"TOKEN"}
    <2>1. sending # <<>> /\ pc # "reply" /\ sending \in Seq(Message)
          BY DEF ClientSend, Control, Typed
    <2>2. AllIn(sending, ToCore \cup FileTypes \cup {"TOKEN"}) \/ AllIn(sending, ToCore)
          BY <2>1, <1>2 DEF Control, ClientControl, SendingAt
    <2> QED BY <2>1, <2>2, TailWord
  <1>5. m.type # "REQUEST_AMIGA_FILE" BY <1>0 DEF ToCore, FileTypes
  <1>6. LinkTyped BY DEF LinkTyped, Control, Typed
  <1>8. sending # <<>> /\ sending \in Seq(Message) BY DEF ClientSend, Control, Typed
  <1>7. pc \in {"new", "options", "filter"} => m.type # "TOKEN"
    <2>1. pc \in {"new", "options", "filter"} => AllIn(sending, ToCore)
          BY DEF Control, ClientControl, SendingAt
    <2> QED BY <2>1, <1>8, TailWord DEF ToCore
  <1>3. CASE state["client"] = "R" /\ UNCHANGED link BY <1>2, <1>3
  <1>4. CASE Link!SendMessage("client", m) /\ UNCHANGED duty
    <2>1. /\ LinkStep /\ LinkTyped'
          /\ state'["client"] = (IF m.type = "TOKEN" THEN "R" ELSE "S")
          /\ state'["core"] = state["core"] /\ open' = open /\ duty' = duty
          BY <1>1, <1>2, <1>4, <1>5, <1>6, ClientSends DEF LinkStep
    <2>2. CASE CanWrite \/ Optional
      <3>1. sending' = Tail(sending) /\ UNCHANGED <<pc, caller, songstate, write_queue, back, wanted, led>>
            BY <2>2 DEF ClientSend
      <3>2. Typed' BY <2>1, <3>1, <1>1, <1>2 DEF Control, Typed, LinkTyped, core, songstate,
                 control, load, files, sound, filter
      <3>3. PhaseAt' BY <3>1 DEF PhaseAt, Control, ClientControl, Stopping, Replying, songstate
      <3>6. /\ \A types : AllIn(sending, types) => AllIn(sending', types)
            /\ EndsWith(sending, "TOKEN") =>
                 /\ m.type = "TOKEN" <=> sending' = <<>>
                 /\ sending' # <<>> => EndsWith(sending', "TOKEN")
            BY <1>8, <3>1, TailWord
      <3>9. pc \in {"init", "request", "reboot"} => (m.type = "TOKEN" <=> sending' = <<>>)
            BY <1>8, <3>6 DEF Control, ClientControl, SendingAt
      <3>4. StateAt'
            BY <2>1, <1>2, <3>1, <1>7, <3>9 DEF StateAt, songstate
      <3>5. SendingAt'
            BY <1>2, <1>8, <3>1, <3>6 DEF Control, ClientControl, SendingAt
      <3> QED BY <2>1, <1>2, <3>1, <3>2, <3>3, <3>4, <3>5
              DEF ClientControl, Control, ClientOpen, CoreOpen, songstate, CoreSideKept, DutyAt, GivenUp
    <2>3. CASE ~(CanWrite \/ Optional)
      <3>1. ~CoreOpen BY <1>2, <2>3 DEF CanWrite, CoreOpen
      <3>2. state'["client"] \in {"S", "R"} BY <2>1
      <3>3. /\ sending' = <<>> /\ write_queue' \in {<<>>, write_queue}
            /\ UNCHANGED <<back, wanted, led, song>> /\ cur' \in {0, cur}
            /\ phase' \in Phases /\ pc' \in {"close", "fatal", "drain", "idle"}
            /\ pc' = "fatal" => phase' \in {"INVALID", "ERROR"}
            /\ pc' = "drain" => /\ phase' # "INVALID" /\ write_queue' = <<>>
                               /\ caller' \in {"app", "unplayable", "error", "cleanup"}
            /\ pc' = "idle" => phase' = "INVALID" /\ pc = "filter"
            /\ phase' = "INVALID" => write_queue' = <<>>
            BY <1>2, <2>3, StopFacts, StopReturnsFacts, EventFailsFacts
            DEF ClientSend, GoTo, songstate, Control, ClientControl, PhaseAt, Phases, Typed, Stopping
      <3>9. cur \in Nat /\ write_queue \in Seq(Message) BY DEF Control, Typed
      <3>8. cur' \in Nat /\ write_queue' \in Seq(Message) /\ sending' \in Seq(Message)
        <4>1. cur' \in Nat BY <3>3, <3>9
        <4>2. write_queue' \in Seq(Message) BY <3>3, <3>9, NoWord
        <4>3. sending' \in Seq(Message) BY <3>3, NoWord
        <4> QED BY <4>1, <4>2, <4>3
      <3>4. Typed'
            BY <2>1, <3>8, <3>3, NoWord DEF Control, Typed, LinkTyped, core, control, load, files, sound, filter
      <3>5. PhaseAt' BY <3>3 DEF PhaseAt, Stopping, Replying
      <3>6. StateAt' BY <2>1, <3>2, <3>3, <1>7 DEF StateAt
      <3>7. SendingAt' BY <3>3, NoWord DEF SendingAt, Control, ClientControl
      <3> QED BY <2>1, <1>2, <3>3, <3>4, <3>5, <3>6, <3>7
              DEF ClientControl, Control, ClientOpen, CoreOpen, CoreSideKept, DutyAt, GivenUp
    <2> QED BY <2>2, <2>3
  <1> QED BY <1>3, <1>4 DEF ClientSend

(* The types of what the client keeps, and its control after a step that     *)
(* leaves nothing to be sent.                                                *)
ClientTyped ==
  /\ back \in {"receive", "drain", "settle"} /\ phase \in Phases
  /\ song \in 0 .. MaxSongs /\ cur \in Nat /\ led \in {0, 1} /\ wanted \in Nat
  /\ write_queue \in Seq(Message) /\ AllIn(write_queue, {"FILTER"})

Arrived ==
  /\ sending = <<>>
  /\ pc \in {"new", "idle", "init", "answer", "canplay", "cantplay", "options", "event",
             "request", "receive", "drain", "reboot", "settle", "filter", "fatal", "close"}
  /\ PhaseAt /\ StateAt

LEMMA ClientAlone ==
  ASSUME Control, UNCHANGED <<link, core>>, pc \notin {"asked", "reply", "wait", "gone"},
         ClientTyped', Arrived', GivenUp => GivenUp'
  PROVE  LinkStep /\ Typed' /\ ClientControl' /\ CoreSideKept
  <1>1. Typed'
        BY NoWord DEF Control, Typed, ClientTyped, Arrived, link, core, control, load, files,
                      sound, filter
  <1>2. SendingAt' BY NoWord DEF Arrived, ClientTyped, SendingAt
  <1>3. UNCHANGED duty /\ ClientOpen /\ DutyAt
        BY DEF Control, ClientControl, link
  <1>4. DutyAt' BY <1>3 DEF DutyAt, Arrived
  <1> QED BY <1>1, <1>2, <1>4 DEF LinkStep, CoreSideKept, CoreOpen, ClientOpen, ClientControl, Control,
                            Arrived, ClientTyped, link

LEMMA ClientFacts ==
  ASSUME Control
  PROVE  ClientTyped
  BY DEF Control, Typed, ClientControl, SendingAt, ClientTyped

LEMMA GiveEventFacts ==
  ASSUME NEW type \in {"MSG", "DATA", "SUBSONG_INFO", "SONG_END", "EAGAIN"},
         GiveEvent(type), phase' # "INVALID"
  PROVE  /\ sending' = <<>>
         /\ \/ pc' = "idle" /\ caller' = "app" /\ UNCHANGED write_queue
            \/ pc' = "event" /\ caller # "app" /\ UNCHANGED <<caller, write_queue>>
               /\ type \in {"MSG", "DATA"}
            \/ pc' = "drain" /\ caller' \in {"unplayable", "error"} /\ write_queue' = <<>>
  BY StopFacts DEF GiveEvent, GoTo

LEMMA CallsAlone ==
  ASSUME Control, UNCHANGED core,
         \/ uade_new_state \/ AwaitAnswer \/ BeginEvents \/ Requested \/ AwaitReboot \/ Stopped
         \/ FilterSent \/ AppGetEvent \/ AppNextSubsong \/ AppPlayNoSong \/ AppStop \/ AppCleanup
         \/ InitializationFails \/ receive_messages_fails \/ PendingEventsFail
         \/ GetEvent /\ phase # "INITIALIZED"
  PROVE  LinkStep /\ Typed' /\ ClientControl' /\ CoreSideKept
  <1> USE ClientFacts
  <1>1. CASE uade_new_state
    <2>1. ClientTyped' /\ Arrived'
          BY <1>1 DEF Control, ClientControl, uade_new_state, ClientTyped, Arrived, PhaseAt, StateAt, Stopping, Replying,
              GoTo, songstate, link
    <2> QED BY <1>1, <2>1, ClientAlone DEF uade_new_state, GivenUp
  <1>2. CASE AwaitAnswer
    <2>1. ClientTyped' /\ Arrived'
          BY <1>2 DEF Control, ClientControl, AwaitAnswer, ClientTyped, Arrived, PhaseAt, StateAt, Stopping, Replying,
              GoTo, songstate, link
    <2> QED BY <1>2, <2>1, ClientAlone DEF AwaitAnswer, GivenUp
  <1>3. CASE BeginEvents
    <2>1. ClientTyped' /\ Arrived'
          BY <1>3 DEF Control, ClientControl, BeginEvents, ClientTyped, Arrived, PhaseAt, StateAt, Stopping, Replying,
              GoTo, songstate, link, Phases
    <2> QED BY <1>3, <2>1, ClientAlone DEF BeginEvents, GivenUp
  <1>4. CASE Requested
    <2>1. ClientTyped' /\ Arrived'
          BY <1>4, GiveEventFacts, NoWord DEF Control, ClientControl, Requested, ClientTyped, Arrived, PhaseAt, StateAt, Stopping, Replying,
              GoTo, songstate, link, InSong, Phases
    <2> QED BY <1>4, <2>1, ClientAlone DEF Requested, GivenUp
  <1>5. CASE AwaitReboot
    <2>1. ClientTyped' /\ Arrived'
          BY <1>5 DEF Control, ClientControl, AwaitReboot, ClientTyped, Arrived, PhaseAt, StateAt, Stopping, Replying,
              GoTo, songstate, link
    <2> QED BY <1>5, <2>1, ClientAlone DEF AwaitReboot, GivenUp
  <1>6. CASE Stopped
    <2>1. /\ pc = "settle" /\ state["client"] = "S" /\ UNCHANGED <<link, back, wanted, led>>
          /\ UNCHANGED <<caller, song, write_queue>> /\ sending' = <<>>
          /\ phase' = "INVALID" /\ cur' \in {0, cur} /\ write_queue = <<>>
          /\ pc' \in {"close", "fatal", "idle"}
          BY <1>6, StopReturnsFacts DEF Stopped, Control, ClientControl, PhaseAt, Stopping
    <2>2. ClientTyped'
          BY <1>6, <2>1, NoWord DEF ClientTyped, Phases
    <2>3. Arrived'
          BY <1>6, <2>1 DEF Control, ClientControl, Arrived, PhaseAt, StateAt, Stopping, Replying, link
    <2> QED BY <1>6, <2>1, <2>2, <2>3, ClientAlone DEF Stopped, GivenUp
  <1>7. CASE FilterSent
    <2>1. ClientTyped' /\ Arrived'
          BY <1>7 DEF Control, ClientControl, FilterSent, ClientTyped, Arrived, PhaseAt, StateAt, Stopping, Replying,
              GoTo, songstate, link
    <2> QED BY <1>7, <2>1, ClientAlone DEF FilterSent, GivenUp
  <1>8. CASE AppGetEvent
    <2>1. ClientTyped' /\ Arrived'
          BY <1>8 DEF Control, ClientControl, AppGetEvent, ClientTyped, Arrived, PhaseAt, StateAt, Stopping, Replying,
              GoTo, songstate, link, InSong
    <2> QED BY <1>8, <2>1, ClientAlone DEF AppGetEvent, GivenUp
  <1>9. CASE AppNextSubsong
    <2>1. /\ pc = "idle" /\ sending = <<>> /\ UNCHANGED <<pc, sending, back, wanted, caller>>
          /\ UNCHANGED <<link, song, phase, cur, led, write_queue>>
          BY <1>9 DEF AppNextSubsong, call, Control, ClientControl, SendingAt
    <2>2. ClientTyped'
          BY <2>1, NoWord DEF ClientTyped
    <2>3. Arrived'
          BY <2>1 DEF Control, ClientControl, Arrived, PhaseAt, StateAt, Stopping, Replying, link
    <2> QED BY <2>1, <2>2, <2>3, ClientAlone DEF GivenUp
  <1>10. CASE AppPlayNoSong
    <2>1. /\ pc = "idle" /\ sending = <<>> /\ phase = "INVALID" /\ led' \in {0, 1}
          /\ pc' \in {"idle", "fatal"} /\ UNCHANGED <<sending, back, wanted, caller>>
          /\ UNCHANGED <<link, song, phase, cur>> /\ write_queue' = <<>>
          BY <1>10 DEF AppPlayNoSong, songstate, Control, ClientControl, SendingAt, PhaseAt, ClientTyped
    <2>2. ClientTyped'
          BY <2>1, NoWord DEF ClientTyped
    <2>3. Arrived'
          BY <2>1 DEF Control, ClientControl, Arrived, PhaseAt, StateAt, Stopping, Replying, link
    <2> QED BY <2>1, <2>2, <2>3, ClientAlone DEF GivenUp
  <1>11. CASE AppStop
    <2>1. /\ pc = "idle" /\ UNCHANGED <<link, back, wanted, song, phase, cur, led>>
          /\ caller' = "app" /\ write_queue' = <<>> /\ sending' = <<>>
          /\ pc' = (IF phase = "INVALID" THEN "idle" ELSE "drain")
          BY <1>11, StopFacts DEF AppStop
    <2>2. ClientTyped'
          BY <1>11, <2>1, NoWord DEF ClientTyped
    <2>3. Arrived'
          BY <1>11, <2>1 DEF Control, ClientControl, Arrived, PhaseAt, StateAt, Stopping, Replying, link
    <2> QED BY <1>11, <2>1, <2>2, <2>3, ClientAlone DEF AppStop, GivenUp
  <1>12. CASE AppCleanup
    <2>1. /\ pc \in {"idle", "fatal"} /\ UNCHANGED <<link, back, wanted, song, phase, cur, led>>
          /\ caller' = "cleanup" /\ write_queue' = <<>> /\ sending' = <<>>
          /\ pc' = (IF phase = "INVALID" THEN "close" ELSE "drain")
          BY <1>12, StopFacts DEF AppCleanup
    <2>2. ClientTyped'
          BY <1>12, <2>1, NoWord DEF ClientTyped
    <2>3. Arrived'
          BY <1>12, <2>1 DEF Control, ClientControl, Arrived, PhaseAt, StateAt, Stopping, Replying, link
    <2> QED BY <1>12, <2>1, <2>2, <2>3, ClientAlone DEF AppCleanup, GivenUp
  <1>13. CASE InitializationFails
    <2>1. ClientTyped' /\ Arrived'
          BY <1>13, StopFacts, NoWord DEF Control, ClientControl, InitializationFails, ClientTyped, Arrived, PhaseAt, StateAt, Stopping, Replying,
              GoTo, songstate, link, ReceiveFails, Phases
    <2> QED BY <1>13, <2>1, ClientAlone DEF InitializationFails, ReceiveFails, GivenUp
  <1>14. CASE receive_messages_fails
    <2>1. /\ pc = "receive" /\ state["client"] = "R" /\ phase' = "ERROR" /\ sending' = <<>>
          /\ UNCHANGED <<link, back, wanted, song, cur, led>>
          /\ \/ pc' = "fatal" /\ UNCHANGED write_queue
             \/ pc' = "drain" /\ caller' = "error" /\ write_queue' = <<>>
          BY <1>14, EventFailsFacts
          DEF receive_messages_fails, ReceiveFails, Control, ClientControl, StateAt
    <2>2. ClientTyped'
          BY <1>14, <2>1, NoWord DEF ClientTyped, Phases
    <2>3. Arrived'
          BY <1>14, <2>1 DEF Control, ClientControl, Arrived, PhaseAt, StateAt, Stopping, Replying, link
    <2> QED BY <1>14, <2>1, <2>2, <2>3, ClientAlone DEF receive_messages_fails, ReceiveFails, GivenUp
  <1>15. CASE PendingEventsFail
    <2>1. /\ pc \in {"drain", "settle"} /\ UNCHANGED <<link, back, wanted, led>>
          /\ UNCHANGED <<caller, song, write_queue>> /\ sending' = <<>>
          /\ phase' = "ERROR" /\ cur' \in {0, cur} /\ write_queue = <<>>
          /\ pc' \in {"close", "fatal"} /\ state["client"] = "R"
          BY <1>15, StopReturnsFacts
          DEF PendingEventsFail, ReceiveFails, Control, ClientControl, PhaseAt, Stopping
    <2>2. ClientTyped'
          BY <2>1, NoWord DEF ClientTyped, Phases
    <2>3. Arrived'
          BY <2>1 DEF Control, ClientControl, Arrived, PhaseAt, StateAt, Stopping, Replying, link
    <2> QED BY <2>1, <2>2, <2>3, ClientAlone DEF GivenUp
  <1>16. CASE GetEvent /\ phase # "INITIALIZED"
    <2>1. /\ pc = "event" /\ state["client"] = "R" /\ sending' = <<>>
          /\ UNCHANGED <<link, back, wanted, song, cur, led>>
          /\ phase' \in {"RECEIVE_MSGS", "WAIT_SUBSONG_CHANGE"}
          /\ \/ pc' = "receive" /\ phase' = "RECEIVE_MSGS" /\ UNCHANGED write_queue
             \/ pc' \in {"event", "idle"} /\ UNCHANGED write_queue
             \/ /\ pc' = "drain" /\ caller' \in {"unplayable", "error"} /\ write_queue' = <<>>
      <3>1. pc = "event" /\ state["client"] = "R" /\ UNCHANGED <<link, back, wanted, song, cur, led>>
            /\ phase \in {"WAIT_SUBSONG_CHANGE"} \cup InSong
            BY <1>16 DEF GetEvent, Control, ClientControl, PhaseAt, StateAt, Phases
      <3>2. CASE phase = "SONG_END_PENDING"
            BY <3>1, <3>2, <1>16, GiveEventFacts DEF GetEvent
      <3>3. CASE phase = "WAIT_SUBSONG_CHANGE"
            BY <3>1, <3>3, <1>16, GiveEventFacts DEF GetEvent, GoTo
      <3>4. CASE phase = "RECEIVE_MSGS"
            BY <3>1, <3>4, <1>16 DEF GetEvent, GoTo
      <3> QED BY <3>1, <3>2, <3>3, <3>4 DEF InSong
    <2>2. ClientTyped'
          BY <1>16, <2>1, NoWord DEF ClientTyped, Phases, InSong
    <2>3. Arrived'
          BY <1>16, <2>1 DEF Control, ClientControl, Arrived, PhaseAt, StateAt, Stopping, Replying, link, InSong
    <2> QED BY <1>16, <2>1, <2>2, <2>3, ClientAlone DEF GetEvent, GivenUp
  <1> QED BY <1>1, <1>2, <1>3, <1>4, <1>5, <1>6, <1>7, <1>8, <1>9, <1>10, <1>11, <1>12, <1>13,
             <1>14, <1>15, <1>16
------------------------------------------------------------------------------
(* The words the client sends. *)
LEMMA FileWord ==
  ASSUME NEW s \in 0 .. MaxSongs, NEW name \in Nat
  PROVE  \E x, y, z \in Message :
           /\ FileMessages(s, name, TRUE) = <<x, y>> /\ FileMessages(s, name, FALSE) = <<z>>
           /\ x.type = "FILE" /\ ~x.last /\ y.type = "FILE_DATA" /\ y.last
           /\ z.type = "FILE" /\ z.last
           /\ \A m \in {x, y, z} : m.body = [song |-> s, arg |-> name]
  <1> DEFINE x == [Msg("FILE", s, name) EXCEPT !.last = FALSE]
  <1>1. /\ x \in Message /\ x.type = "FILE" /\ ~x.last /\ x.body = [song |-> s, arg |-> name]
        BY DEF Msg, Message, FileTypes, Body
  <1>2. /\ Msg("FILE", s, name) \in Message /\ Msg("FILE_DATA", s, name) \in Message
        BY DEF Msg, Message, FileTypes, Body
  <1> QED BY <1>1, <1>2 DEF FileMessages, Msg

SongWord(s, module) ==
  <<Msg("SCORE", s, 0)>> \o FileMessages(s, 0, TRUE) \o FileMessages(s, 0, module) \o <<Token(s)>>

LEMMA SongWordFacts ==
  ASSUME NEW s \in 0 .. MaxSongs, NEW module \in BOOLEAN
  PROVE  LET w == SongWord(s, module) IN
         /\ w \in Seq(Message) /\ Len(w) = (IF module THEN 6 ELSE 5) /\ w # <<>>
         /\ \A i \in 1 .. Len(w) :
              /\ w[i].type = LoadTypes(module)[i + 1] /\ w[i].body.song = s
              /\ w[i].type = "FILE" => (w[i].last <=> i = 4 /\ ~module)
         /\ AllIn(w, ToCore \cup FileTypes \cup {"TOKEN"}) /\ EndsWith(w, "TOKEN")
  <1> DEFINE w == SongWord(s, module)
  <1>1. PICK x, y, z \in Message :
           /\ FileMessages(s, 0, TRUE) = <<x, y>> /\ FileMessages(s, 0, FALSE) = <<z>>
           /\ x.type = "FILE" /\ ~x.last /\ y.type = "FILE_DATA" /\ y.last
           /\ z.type = "FILE" /\ z.last
           /\ \A m \in {x, y, z} : m.body = [song |-> s, arg |-> 0]
        BY FileWord
  <1> DEFINE a == Msg("SCORE", s, 0)
             f == Token(s)
  <1>2. /\ a \in Message /\ f \in Message /\ a.type = "SCORE" /\ f.type = "TOKEN"
        /\ a.body.song = s /\ f.body.song = s
    <2>1. [song |-> s, arg |-> 0] \in Body BY DEF Body
    <2> QED BY <2>1 DEF Msg, Token, Message, ToCore
  <1>3. x.body.song = s /\ y.body.song = s /\ z.body.song = s BY <1>1
  <1>6. w = <<a>> \o FileMessages(s, 0, TRUE) \o FileMessages(s, 0, module) \o <<f>>
        BY DEF SongWord
  <1> HIDE DEF a, f, w
  <1>4. CASE module
    <2>0. module = TRUE BY <1>4
    <2>1. w = <<a, x, y, x, y, f>>
      <3>1. w = <<a>> \o <<x, y>> \o <<x, y>> \o <<f>> BY <2>0, <1>1, <1>6
      <3>2. Joined(a, x, y, x, y, f) BY <1>1, <1>2, JoinSong
      <3> QED BY <3>1, <3>2 DEF Joined
    <2>2. /\ w \in Seq(Message) /\ Len(w) = 6 /\ w # <<>>
          /\ w[1] = a /\ w[2] = x /\ w[3] = y /\ w[4] = x /\ w[5] = y /\ w[6] = f
          BY <2>1, <1>2
    <2>3. \A i \in 1 .. 6 : i = 1 \/ i = 2 \/ i = 3 \/ i = 4 \/ i = 5 \/ i = 6 OBVIOUS
    <2>4. LoadTypes(module) = <<"CONFIG", "SCORE", "FILE", "FILE_DATA", "FILE", "FILE_DATA", "TOKEN">>
          BY <1>4 DEF LoadTypes
    <2>5. \A i \in 1 .. Len(w) :
              /\ w[i].type = LoadTypes(module)[i + 1] /\ w[i].body.song = s
              /\ w[i].type = "FILE" => (w[i].last <=> i = 4 /\ ~module)
      <3>1. ASSUME NEW i \in 1 .. 6
            PROVE  /\ w[i].type = LoadTypes(module)[i + 1] /\ w[i].body.song = s
                   /\ w[i].type = "FILE" => (w[i].last <=> i = 4 /\ ~module)
        <4>1. CASE i = 1 BY <4>1, <1>1, <1>2, <1>3, <2>0, <2>2, <2>4
        <4>2. CASE i = 2 BY <4>2, <1>1, <1>2, <1>3, <2>0, <2>2, <2>4
        <4>3. CASE i = 3 BY <4>3, <1>1, <1>2, <1>3, <2>0, <2>2, <2>4
        <4>4. CASE i = 4 BY <4>4, <1>1, <1>2, <1>3, <2>0, <2>2, <2>4
        <4>5. CASE i = 5 BY <4>5, <1>1, <1>2, <1>3, <2>0, <2>2, <2>4
        <4>6. CASE i = 6 BY <4>6, <1>1, <1>2, <1>3, <2>0, <2>2, <2>4
        <4> QED BY <4>1, <4>2, <4>3, <4>4, <4>5, <4>6, <2>3
      <3> QED BY <3>1, <2>2
    <2>6. AllIn(w, ToCore \cup FileTypes \cup {"TOKEN"})
          BY <1>1, <1>2, <2>2, <2>3 DEF AllIn, ToCore, FileTypes
    <2>7. EndsWith(w, "TOKEN")
          BY <1>1, <1>2, <2>2, <2>3 DEF EndsWith
    <2> QED BY <1>4, <2>2, <2>5, <2>6, <2>7 DEF w
  <1>5. CASE ~module
    <2>0. module = FALSE BY <1>5
    <2>1. w = <<a, x, y, z, f>>
      <3>1. w = <<a>> \o <<x, y>> \o <<z>> \o <<f>> BY <2>0, <1>1, <1>6
      <3>2. Joined(a, x, y, z, z, f) BY <1>1, <1>2, JoinSong
      <3> QED BY <3>1, <3>2 DEF Joined
    <2>2. /\ w \in Seq(Message) /\ Len(w) = 5 /\ w # <<>>
          /\ w[1] = a /\ w[2] = x /\ w[3] = y /\ w[4] = z /\ w[5] = f
          BY <2>1, <1>2
    <2>3. \A i \in 1 .. 5 : i = 1 \/ i = 2 \/ i = 3 \/ i = 4 \/ i = 5 OBVIOUS
    <2>4. LoadTypes(module) = <<"CONFIG", "SCORE", "FILE", "FILE_DATA", "FILE", "TOKEN">>
          BY <1>5 DEF LoadTypes
    <2>5. \A i \in 1 .. Len(w) :
              /\ w[i].type = LoadTypes(module)[i + 1] /\ w[i].body.song = s
              /\ w[i].type = "FILE" => (w[i].last <=> i = 4 /\ ~module)
      <3>1. ASSUME NEW i \in 1 .. 5
            PROVE  /\ w[i].type = LoadTypes(module)[i + 1] /\ w[i].body.song = s
                   /\ w[i].type = "FILE" => (w[i].last <=> i = 4 /\ ~module)
        <4>1. CASE i = 1 BY <4>1, <1>1, <1>2, <1>3, <2>0, <2>2, <2>4
        <4>2. CASE i = 2 BY <4>2, <1>1, <1>2, <1>3, <2>0, <2>2, <2>4
        <4>3. CASE i = 3 BY <4>3, <1>1, <1>2, <1>3, <2>0, <2>2, <2>4
        <4>4. CASE i = 4 BY <4>4, <1>1, <1>2, <1>3, <2>0, <2>2, <2>4
        <4>5. CASE i = 5 BY <4>5, <1>1, <1>2, <1>3, <2>0, <2>2, <2>4
        <4> QED BY <4>1, <4>2, <4>3, <4>4, <4>5, <2>3
      <3> QED BY <3>1, <2>2
    <2>6. AllIn(w, ToCore \cup FileTypes \cup {"TOKEN"})
          BY <1>1, <1>2, <2>2, <2>3 DEF AllIn, ToCore, FileTypes
    <2>7. EndsWith(w, "TOKEN")
          BY <1>1, <1>2, <2>2, <2>3 DEF EndsWith
    <2> QED BY <1>5, <2>2, <2>5, <2>6, <2>7 DEF w
  <1> QED BY <1>4, <1>5

(* Commands on their way to uadecore. *)
LEMMA CommandWords ==
  ASSUME song \in 0 .. MaxSongs
  PROVE  /\ \E r, t \in Message :
              /\ ReadRequest = <<r, t>> /\ r.type = "READ" /\ t.type = "TOKEN"
              /\ r.body = [song |-> song, arg |-> ReadBytes] /\ t.body.song = song
         /\ \E r, t \in Message :
              /\ <<Msg("REBOOT", song, 0), Token(song)>> = <<r, t>>
              /\ r.type = "REBOOT" /\ t.type = "TOKEN"
              /\ r.body.song = song /\ t.body.song = song
         /\ \A l \in {0, 1} :
              /\ FilterCommand(l) \in Message /\ FilterCommand(l).type = "FILTER"
              /\ FilterCommand(l).body.song = song
              /\ LedForced => FilterCommand(l).body.arg = 2 + l
         /\ Msg("SET_PLAYER_OPTION", song, 0) \in Message
         /\ \A n \in Nat : Msg("CHANGE_SUBSONG", song, n) \in Message
  <1>1. Msg("READ", song, ReadBytes) \in Message /\ Token(song) \in Message
        /\ Msg("REBOOT", song, 0) \in Message
        BY LibUadeAssumption DEF Msg, Token, Message, Body, ToCore
  <1>2. ASSUME NEW l \in {0, 1}
        PROVE  /\ FilterCommand(l) \in Message /\ FilterCommand(l).type = "FILTER"
               /\ FilterCommand(l).body.song = song
               /\ LedForced => FilterCommand(l).body.arg = 2 + l
        BY LibUadeAssumption DEF FilterCommand, Msg, Message, Body, ToCore
  <1>3. Msg("SET_PLAYER_OPTION", song, 0) \in Message
        BY DEF Msg, Message, Body, ToCore
  <1>4. \A n \in Nat : Msg("CHANGE_SUBSONG", song, n) \in Message
        BY DEF Msg, Message, Body, ToCore
  <1> QED BY <1>1, <1>2, <1>3, <1>4 DEF ReadRequest, Msg, Token

LEMMA PairWord ==
  ASSUME NEW x \in Message, NEW y \in Message
  PROVE  /\ <<x>> \in Seq(Message) /\ <<x>> # <<>> /\ Len(<<x>>) = 1
         /\ <<x, y>> \in Seq(Message) /\ <<x, y>> # <<>> /\ Len(<<x, y>>) = 2
         /\ <<x, y>>[1] = x /\ <<x, y>>[2] = y
         /\ \A types : /\ AllIn(<<x>>, types) <=> x.type \in types
                       /\ AllIn(<<x, y>>, types) <=> x.type \in types /\ y.type \in types
         /\ \A type : /\ EndsWith(<<x>>, type) <=> x.type = type
                      /\ EndsWith(<<x, y>>, type) <=> x.type # type /\ y.type = type
                      /\ Has(<<x>>, type) <=> x.type = type
                      /\ Has(<<x, y>>, type) <=> x.type = type \/ y.type = type
  BY DEF AllIn, EndsWith, Has

(* A step that leaves messages to be sent, or does not touch what is left.   *)
ClientPlaces ==
  {"new", "idle", "init", "answer", "canplay", "cantplay", "options", "event", "request",
   "receive", "drain", "reboot", "settle", "filter", "fatal", "close"}

LEMMA ClientTalks ==
  ASSUME Control, UNCHANGED core, LinkStep, LinkTyped', CoreSideKept, ClientOpen',
         ClientTyped', sending' \in Seq(Message), SendingAt', PhaseAt', StateAt',
         pc' \in ClientPlaces \cup {"asked", "reply"}, DutyAt'
  PROVE  LinkStep /\ Typed' /\ ClientControl' /\ CoreSideKept
  <1>1. Typed'
        BY DEF Control, Typed, ClientTyped, LinkTyped, core, control, load, files, sound, filter
  <1> QED BY <1>1 DEF ClientControl, ClientTyped, ClientPlaces

LEMMA LinkKept ==
  ASSUME Control, UNCHANGED link
  PROVE  LinkStep /\ LinkTyped' /\ CoreSideKept /\ ClientSideKept /\ UNCHANGED duty
  BY DEF Control, Typed, LinkTyped, link, LinkStep, CoreSideKept, ClientSideKept, CoreOpen,
         ClientOpen

LEMMA AppPlayControl ==
  ASSUME Control, AppPlay, UNCHANGED core
  PROVE  LinkStep /\ Typed' /\ ClientControl' /\ CoreSideKept
  <1>1. PICK module \in BOOLEAN : sending' = SongWord(song', module)
        BY DEF AppPlay, GoSend, SongWord
  <1>2. /\ pc = "idle" /\ phase = "INVALID" /\ phase' = "INVALID" /\ pc' = "init"
        /\ song' \in 0 .. MaxSongs /\ cur' = 0 /\ led' \in {0, 1}
        /\ UNCHANGED <<link, back, wanted, write_queue>>
        BY SessionAssumption DEF AppPlay, GoSend, Control, Typed
  <1>3. /\ sending' \in Seq(Message) /\ sending' # <<>>
        /\ AllIn(sending', ToCore \cup FileTypes \cup {"TOKEN"}) /\ EndsWith(sending', "TOKEN")
    <2>1. PICK s \in 0 .. MaxSongs : s = song' BY <1>2
    <2>2. SongWord(s, module) \in Seq(Message) /\ EndsWith(SongWord(s, module), "TOKEN")
          BY SongWordFacts
    <2>3. AllIn(SongWord(s, module), ToCore \cup FileTypes \cup {"TOKEN"})
          BY SongWordFacts
    <2>4. SongWord(s, module) # <<>> BY <2>2 DEF EndsWith
    <2> QED BY <1>1, <2>1, <2>2, <2>3, <2>4
  <1>4. ClientTyped' BY <1>2, ClientFacts DEF ClientTyped, Phases
  <1>5. SendingAt' BY <1>2, <1>3 DEF SendingAt, Control, ClientControl
  <1>6. PhaseAt' BY <1>2 DEF PhaseAt, Control, ClientControl, Stopping, Replying
  <1>7. StateAt' BY <1>2, <1>3 DEF StateAt, Control, ClientControl, link
  <1>8. ClientOpen' /\ DutyAt'
        BY <1>2, LinkKept DEF Control, ClientControl, DutyAt, GivenUp, ClientSideKept
  <1> QED BY <1>2, <1>3, <1>4, <1>5, <1>6, <1>7, <1>8, LinkKept, ClientTalks DEF ClientPlaces

LEMMA GetEventInitialized ==
  ASSUME Control, GetEvent, phase = "INITIALIZED", UNCHANGED core
  PROVE  LinkStep /\ Typed' /\ ClientControl' /\ CoreSideKept
  <1>1. /\ pc = "event" /\ pc' = "request" /\ sending' = ReadRequest /\ UNCHANGED phase
        /\ UNCHANGED <<link, back, wanted, song, cur, led, write_queue>>
        BY DEF GetEvent, GoSend
  <1>2. song \in 0 .. MaxSongs /\ state["client"] = "S"
        BY <1>1 DEF Control, Typed, ClientControl, StateAt
  <1>3. /\ sending' \in Seq(Message) /\ sending' # <<>>
        /\ AllIn(sending', ToCore \cup FileTypes \cup {"TOKEN"}) /\ EndsWith(sending', "TOKEN")
    <2>1. PICK r, t \in Message :
              ReadRequest = <<r, t>> /\ r.type = "READ" /\ t.type = "TOKEN"
          BY <1>2, CommandWords
    <2>2. <<r, t>> \in Seq(Message) /\ <<r, t>> # <<>> /\ EndsWith(<<r, t>>, "TOKEN")
          BY <2>1, PairWord
    <2>3. AllIn(<<r, t>>, ToCore \cup FileTypes \cup {"TOKEN"})
          BY <2>1 DEF AllIn, ToCore
    <2> QED BY <1>1, <2>1, <2>2, <2>3
  <1>4. ClientTyped' BY <1>1, ClientFacts DEF ClientTyped
  <1>5. SendingAt' BY <1>1, <1>3 DEF SendingAt, Control, ClientControl
  <1>6. PhaseAt' BY <1>1 DEF PhaseAt, Control, ClientControl, Stopping, Replying
  <1>7. StateAt' BY <1>1, <1>2, <1>3 DEF StateAt, link
  <1>8. ClientOpen' /\ DutyAt'
        BY <1>1, LinkKept DEF Control, ClientControl, DutyAt, GivenUp, ClientSideKept
  <1> QED BY <1>1, <1>3, <1>4, <1>5, <1>6, <1>7, <1>8, LinkKept, ClientTalks DEF ClientPlaces

LEMMA OrderRebootControl ==
  ASSUME Control, OrderReboot, UNCHANGED core
  PROVE  LinkStep /\ Typed' /\ ClientControl' /\ CoreSideKept
  <1>1. /\ pc = "drain" /\ pc' = "reboot" /\ state["client"] = "S" /\ UNCHANGED <<phase, caller>>
        /\ sending' = <<Msg("REBOOT", song, 0), Token(song)>>
        /\ UNCHANGED <<link, back, wanted, song, cur, led, write_queue>>
        BY DEF OrderReboot, GoSend, songstate
  <1>2. song \in 0 .. MaxSongs BY <1>1 DEF Control, Typed
  <1>3. /\ sending' \in Seq(Message) /\ sending' # <<>>
        /\ AllIn(sending', ToCore \cup FileTypes \cup {"TOKEN"}) /\ EndsWith(sending', "TOKEN")
    <2>1. PICK r, t \in Message :
              /\ <<Msg("REBOOT", song, 0), Token(song)>> = <<r, t>>
              /\ r.type = "REBOOT" /\ t.type = "TOKEN"
          BY <1>2, CommandWords
    <2>2. <<r, t>> \in Seq(Message) /\ <<r, t>> # <<>> /\ EndsWith(<<r, t>>, "TOKEN")
          BY <2>1, PairWord
    <2>3. AllIn(<<r, t>>, ToCore \cup FileTypes \cup {"TOKEN"})
          BY <2>1 DEF AllIn, ToCore
    <2> QED BY <1>1, <2>1, <2>2, <2>3
  <1>4. ClientTyped' BY <1>1, ClientFacts DEF ClientTyped
  <1>5. SendingAt' BY <1>1, <1>3 DEF SendingAt, Control, ClientControl
  <1>6. PhaseAt' BY <1>1 DEF PhaseAt, Control, ClientControl, Stopping, Replying
  <1>7. StateAt' BY <1>1, <1>3 DEF StateAt, link
  <1>8. ClientOpen' /\ DutyAt'
        BY <1>1, LinkKept DEF Control, ClientControl, DutyAt, GivenUp, ClientSideKept
  <1> QED BY <1>1, <1>3, <1>4, <1>5, <1>6, <1>7, <1>8, LinkKept, ClientTalks DEF ClientPlaces

LEMMA AppSetFilterControl ==
  ASSUME Control, NEW l \in {0, 1}, AppSetFilter(l), UNCHANGED core
  PROVE  LinkStep /\ Typed' /\ ClientControl' /\ CoreSideKept
  <1>1. /\ pc = "idle" /\ UNCHANGED <<link, back, wanted, song, cur, phase>> /\ led' = l
        /\ sending = <<>>
        BY DEF AppSetFilter, songstate, Control, ClientControl, SendingAt
  <1>2. song \in 0 .. MaxSongs /\ state["client"] = (IF phase = "INVALID" THEN "S" ELSE "R")
        BY <1>1 DEF Control, Typed, ClientControl, StateAt
  <1>3. FilterCommand(l) \in Message /\ FilterCommand(l).type = "FILTER"
        BY <1>2, CommandWords
  <1>8. ClientOpen' /\ UNCHANGED duty /\ duty["client"] = "none"
        BY <1>1, LinkKept DEF Control, ClientControl, DutyAt, GivenUp, ClientSideKept
  <1>4. CASE state["client"] = "S"
    <2>1. pc' = "filter" /\ sending' = <<FilterCommand(l)>> /\ UNCHANGED write_queue
          BY <1>4 DEF AppSetFilter, GoSend
    <2>2. /\ sending' \in Seq(Message) /\ sending' # <<>> /\ AllIn(sending', ToCore)
          BY <2>1, <1>3 DEF AllIn, ToCore
    <2>4. ClientTyped' BY <1>1, <2>1, ClientFacts DEF ClientTyped
    <2>5. SendingAt' BY <2>1, <2>2 DEF SendingAt, Control, ClientControl
    <2>6. PhaseAt'
          BY <1>1, <1>2, <1>4, <2>1 DEF PhaseAt, Control, ClientControl, Stopping, Replying
    <2>7. StateAt' BY <1>1, <1>4, <2>1, <2>2 DEF StateAt, link
    <2>8. DutyAt' BY <2>1, <1>8 DEF DutyAt, GivenUp
    <2> QED BY <1>1, <1>8, <2>1, <2>2, <2>4, <2>5, <2>6, <2>7, <2>8, LinkKept, ClientTalks
            DEF ClientPlaces
  <1>5. CASE state["client"] # "S"
    <2>1. /\ pc' = "idle" /\ sending' = <<>>
          /\ write_queue' = Append(write_queue, FilterCommand(l))
          BY <1>1, <1>5 DEF AppSetFilter
    <2>0. phase # "INVALID" BY <1>2, <1>5
    <2>2. write_queue' = write_queue \o <<FilterCommand(l)>>
          /\ <<FilterCommand(l)>> \in Seq(Message) /\ write_queue \in Seq(Message)
          BY <2>1, <1>3 DEF Control, Typed
    <2>3. write_queue' \in Seq(Message) /\ AllIn(write_queue', {"FILTER"})
      <3>1. AllIn(<<FilterCommand(l)>>, {"FILTER"}) BY <1>3 DEF AllIn
      <3> QED BY <2>2, <3>1, JoinWord, ClientFacts DEF ClientTyped
    <2>4. ClientTyped' BY <1>1, <2>3, ClientFacts DEF ClientTyped
    <2>5. SendingAt' BY <2>1, <2>3, NoWord DEF SendingAt
    <2>6. PhaseAt'
          BY <1>1, <2>0, <2>1 DEF PhaseAt, Control, ClientControl, Stopping, Replying
    <2>7. StateAt' BY <1>1, <2>1 DEF StateAt, link, Control, ClientControl
    <2>8. DutyAt' BY <2>1, <1>8 DEF DutyAt, GivenUp
    <2> QED BY <1>1, <1>8, <2>1, <2>2, <2>4, <2>5, <2>6, <2>7, <2>8, NoWord, LinkKept, ClientTalks
            DEF ClientPlaces
  <1> QED BY <1>4, <1>5

LEMMA ClientEnds ==
  ASSUME Control, UNCHANGED core,
         ClientDies \/ CloseLink \/ \E dead \in BOOLEAN : WaitForCore(dead)
  PROVE  LinkStep /\ Typed' /\ ClientControl' /\ CoreSideKept
  <1>1. /\ pc' \in {"wait", "gone"} /\ sending' = <<>>
        /\ UNCHANGED <<back, wanted, song, cur, phase, led, write_queue>>
        BY DEF ClientDies, CloseLink, WaitForCore, GoTo, songstate
  <1>2. LinkStep /\ LinkTyped' /\ CoreSideKept /\ ~ClientOpen'
    <2>1. CASE \E dead \in BOOLEAN : WaitForCore(dead)
          BY <2>1, LinkKept DEF WaitForCore, Control, ClientControl, ClientSideKept
    <2>2. CASE ClientDies \/ CloseLink
      <3>1. "client" \in open /\ Link!Close("client")
            BY <2>2 DEF ClientDies, CloseLink, Control, ClientControl, ClientOpen
      <3>2. LinkTyped BY DEF Control, Typed, LinkTyped
      <3>3. /\ LP!Next /\ LinkTyped' /\ state' = state /\ duty' = duty
            /\ open' = open \ {"client"}
            BY <3>1, <3>2, Closes DEF Peers
      <3> QED BY <3>3 DEF LinkStep, CoreSideKept, ClientOpen, CoreOpen
    <2> QED BY <2>1, <2>2
  <1>3. Typed'
        BY <1>1, <1>2, NoWord
        DEF Control, Typed, LinkTyped, core, control, load, files, sound, filter
  <1>4. PhaseAt' BY <1>1 DEF PhaseAt, Control, ClientControl, Stopping, Replying
  <1>5. StateAt' BY <1>1 DEF StateAt
  <1>6. SendingAt' BY <1>1, NoWord DEF SendingAt, Control, ClientControl
  <1> QED BY <1>1, <1>2, <1>3, <1>4, <1>5, <1>6 DEF ClientControl, Control, ClientOpen
------------------------------------------------------------------------------
LEMMA ClientReceives ==
  ASSUME Control, NEW place \in {"answer", "canplay", "cantplay", "receive", "drain", "settle"},
         ClientReceive(place), place \in {"drain", "settle"} => state["client"] # "S"
  PROVE  /\ LinkStep /\ LinkTyped' /\ CoreSideKept /\ ClientOpen' /\ ClientOpen
         /\ pc = place /\ sending = <<>> /\ NewMessage \in Message /\ state["client"] = "R"
         /\ state'["client"] = (IF NewMessage.type = "TOKEN" THEN "S" ELSE "R")
         /\ duty'["client"] =
              (IF NewMessage.type = "REQUEST_AMIGA_FILE" THEN "asked" ELSE "none")
         /\ inbox["client"] \in Seq(Message) /\ inbox["client"] # <<>>
         /\ inbox'["client"] = Tail(inbox["client"]) /\ inbox'["core"] = inbox["core"]
         /\ open' = open
  <1>1. pc = place /\ sending = <<>> /\ inbox["client"] # <<>> BY DEF ClientReceive
  <1>2. LinkTyped /\ inbox["client"] \in Seq(Message)
        BY DEF Control, Typed, LinkTyped, Peers
  <1>3. state["client"] = "R"
    <2>1. CASE place \in {"drain", "settle"}
          BY <2>1, <1>1 DEF Control, ClientControl, StateAt
    <2>2. CASE place \notin {"drain", "settle"}
          BY <2>2, <1>1 DEF Control, ClientControl, StateAt
    <2> QED BY <2>1, <2>2
  <1>4. ClientOpen /\ duty["client"] = "none"
        BY <1>1 DEF Control, ClientControl, DutyAt, GivenUp
  <1>5. /\ Link!ReceiveMessage("client")
        /\ duty' = [duty EXCEPT !["client"] =
                    IF NewMessage.type = "REQUEST_AMIGA_FILE" THEN "asked" ELSE @]
        BY DEF ClientReceive
  <1>6. /\ LP!Next /\ LinkTyped'
        /\ state'["client"] = (IF NewMessage.type = "TOKEN" THEN "S" ELSE "R")
        /\ duty'["client"] =
              (IF NewMessage.type = "REQUEST_AMIGA_FILE" THEN "asked" ELSE "none")
        /\ state'["core"] = state["core"] /\ duty'["core"] = duty["core"] /\ open' = open
        /\ inbox'["client"] = Tail(inbox["client"]) /\ inbox'["core"] = inbox["core"]
        /\ NewMessage \in Message
        BY <1>1, <1>2, <1>3, <1>4, <1>5, ClientHearsOne
  <1> QED BY <1>1, <1>2, <1>3, <1>4, <1>6 DEF LinkStep, CoreSideKept, ClientOpen, CoreOpen

(* The rest of a receive that leaves nothing to be sent. *)
LEMMA ClientHeard ==
  ASSUME Control, UNCHANGED core, LinkStep, LinkTyped', CoreSideKept, ClientOpen',
         ClientTyped', Arrived', DutyAt'
  PROVE  LinkStep /\ Typed' /\ ClientControl' /\ CoreSideKept
  <1>1. sending' \in Seq(Message) /\ SendingAt'
        BY NoWord DEF Arrived, ClientTyped, SendingAt
  <1> QED BY <1>1, ClientTalks DEF Arrived, ClientPlaces

LEMMA ReceiveAnswerControl ==
  ASSUME Control, ReceiveAnswer, UNCHANGED core
  PROVE  LinkStep /\ Typed' /\ ClientControl' /\ CoreSideKept
  <1>1. /\ ClientReceive("answer") /\ UNCHANGED <<back, wanted, song, cur, phase, led>>
        /\ sending' = <<>>
        /\ \/ /\ NewMessage.type \in {"CAN_PLAY", "CANT_PLAY"} /\ UNCHANGED write_queue
              /\ pc' = (IF NewMessage.type = "CAN_PLAY" THEN "canplay" ELSE "cantplay")
           \/ NewMessage.type \notin {"CAN_PLAY", "CANT_PLAY"} /\ Stop("error")
        BY StopFacts DEF ReceiveAnswer, GoTo, songstate
  <1>2. pc = "answer" BY <1>1 DEF ClientReceive
  <1>3. phase = "INVALID" BY <1>2 DEF Control, ClientControl, PhaseAt
  <1>4. \/ /\ NewMessage.type \in {"CAN_PLAY", "CANT_PLAY"} /\ UNCHANGED write_queue
           /\ pc' \in {"canplay", "cantplay"}
        \/ pc' = "fatal" /\ write_queue' = <<>>
        BY <1>1, <1>3, StopFacts
  <1>5. ClientTyped' BY <1>1, <1>4, ClientFacts, NoWord DEF ClientTyped
  <1>6. /\ LinkStep /\ LinkTyped' /\ CoreSideKept /\ ClientOpen'
        /\ state'["client"] = (IF NewMessage.type = "TOKEN" THEN "S" ELSE "R")
        /\ duty'["client"] =
              (IF NewMessage.type = "REQUEST_AMIGA_FILE" THEN "asked" ELSE "none")
        BY <1>1, ClientReceives
  <1>7. Arrived'
        BY <1>1, <1>3, <1>4, <1>6
        DEF Arrived, PhaseAt, StateAt, Stopping, Replying, Control, ClientControl
  <1>8. DutyAt' BY <1>1, <1>3, <1>4, <1>6 DEF DutyAt, GivenUp
  <1> QED BY <1>5, <1>6, <1>7, <1>8, ClientHeard

LEMMA ReceiveTurnControl ==
  ASSUME Control, ReceiveTurn, UNCHANGED core
  PROVE  LinkStep /\ Typed' /\ ClientControl' /\ CoreSideKept
  <1>1. UNCHANGED <<back, wanted, song, cur, phase, led>> BY DEF ReceiveTurn, songstate
  <1>2. PICK place \in {"canplay", "cantplay"} :
          /\ ClientReceive(place)
          /\ \/ place = "canplay" /\ NewMessage.type = "TOKEN" /\ UNCHANGED write_queue
                /\ pc' = "options"
                /\ sending' = <<FilterCommand(led), Msg("SET_PLAYER_OPTION", song, 0)>>
             \/ ~(place = "canplay" /\ NewMessage.type = "TOKEN")
                /\ Stop(IF NewMessage.type = "TOKEN" THEN "unplayable" ELSE "error")
        BY DEF ReceiveTurn, GoSend
  <1>3. pc = place /\ phase = "INVALID"
        BY <1>2 DEF ClientReceive, Control, ClientControl, PhaseAt
  <1>6. /\ LinkStep /\ LinkTyped' /\ CoreSideKept /\ ClientOpen'
        /\ state'["client"] = (IF NewMessage.type = "TOKEN" THEN "S" ELSE "R")
        /\ duty'["client"] =
              (IF NewMessage.type = "REQUEST_AMIGA_FILE" THEN "asked" ELSE "none")
        BY <1>2, ClientReceives
  <1>4. CASE pc' = "options" /\ NewMessage.type = "TOKEN" /\ UNCHANGED write_queue
             /\ sending' = <<FilterCommand(led), Msg("SET_PLAYER_OPTION", song, 0)>>
    <2>1. song \in 0 .. MaxSongs /\ led \in {0, 1} BY DEF Control, Typed
    <2>2. /\ FilterCommand(led) \in Message /\ FilterCommand(led).type = "FILTER"
          /\ Msg("SET_PLAYER_OPTION", song, 0) \in Message
          /\ Msg("SET_PLAYER_OPTION", song, 0).type = "SET_PLAYER_OPTION"
          BY <2>1, CommandWords DEF Msg
    <2>3. sending' \in Seq(Message) /\ AllIn(sending', ToCore)
          BY <2>2, <1>4 DEF AllIn, ToCore
    <2>4. ClientTyped' BY <1>1, <1>4, ClientFacts DEF ClientTyped
    <2>5. SendingAt' BY <1>4, <2>3 DEF SendingAt, Control, ClientControl
    <2>6. PhaseAt'
          BY <1>1, <1>3, <1>4 DEF PhaseAt, Control, ClientControl, Stopping, Replying
    <2>7. StateAt' BY <1>4, <1>6 DEF StateAt
    <2>8. DutyAt' BY <1>4, <1>6 DEF DutyAt, GivenUp
    <2> QED BY <1>4, <1>6, <2>3, <2>4, <2>5, <2>6, <2>7, <2>8, ClientTalks DEF ClientPlaces
  <1>5. CASE Stop(IF NewMessage.type = "TOKEN" THEN "unplayable" ELSE "error")
    <2>1. /\ sending' = <<>> /\ write_queue' = <<>>
          /\ pc' = (IF NewMessage.type = "TOKEN" THEN "idle" ELSE "fatal")
          BY <1>1, <1>3, <1>5, StopFacts
    <2>4. ClientTyped' BY <1>1, <2>1, ClientFacts, NoWord DEF ClientTyped
    <2>5. Arrived'
          BY <1>1, <1>3, <1>6, <2>1
          DEF Arrived, PhaseAt, StateAt, Stopping, Replying
    <2>8. DutyAt' BY <1>1, <1>3, <2>1, <1>6 DEF DutyAt, GivenUp
    <2> QED BY <1>6, <2>4, <2>5, <2>8, ClientHeard
  <1> QED BY <1>2, <1>4, <1>5

(* What uade_get_event() does with a message. *)
LEMMA ReadyControl ==
  ASSUME Control, ClientReceive("receive"), Ready, UNCHANGED <<song, led>>, UNCHANGED core
  PROVE  LinkStep /\ Typed' /\ ClientControl' /\ CoreSideKept
  <1>1. /\ NewMessage.type = "TOKEN" /\ pc' = "request" /\ write_queue' = <<>>
        /\ UNCHANGED <<phase, wanted, back>>
        /\ cur' \in {cur, cur + 1}
        /\ sending' = (IF nextsubsong THEN <<Msg("CHANGE_SUBSONG", song, cur + 1)>> ELSE <<>>)
                       \o write_queue \o ReadRequest
        BY DEF Ready, GoSend
  <1>2. /\ pc = "receive" /\ phase \in InSong /\ cur \in Nat /\ cur + 1 \in Nat
        /\ song \in 0 .. MaxSongs /\ write_queue \in Seq(Message)
        /\ AllIn(write_queue, {"FILTER"})
        BY DEF ClientReceive, Control, ClientControl, PhaseAt, Typed, SendingAt
  <1>6. /\ LinkStep /\ LinkTyped' /\ CoreSideKept /\ ClientOpen'
        /\ state'["client"] = "S" /\ duty'["client"] = "none"
        BY <1>1, ClientReceives
  <1> DEFINE change == IF nextsubsong THEN <<Msg("CHANGE_SUBSONG", song, cur + 1)>> ELSE <<>>
             T == ToCore \cup FileTypes \cup {"TOKEN"}
  <1>3. change \in Seq(Message) /\ AllIn(change, T) /\ ~Has(change, "TOKEN")
    <2>1. Msg("CHANGE_SUBSONG", song, cur + 1) \in Message
          /\ Msg("CHANGE_SUBSONG", song, cur + 1).type = "CHANGE_SUBSONG"
          BY <1>2, CommandWords DEF Msg
    <2>2. CASE nextsubsong BY <2>1, <2>2 DEF AllIn, ToCore, Has
    <2>3. CASE ~nextsubsong BY <2>3, NoWord
    <2> QED BY <2>2, <2>3
  <1>4. AllIn(write_queue, T) /\ ~Has(write_queue, "TOKEN")
        BY <1>2 DEF AllIn, ToCore, Has
  <1>5. ReadRequest \in Seq(Message) /\ AllIn(ReadRequest, T) /\ EndsWith(ReadRequest, "TOKEN")
    <2>1. PICK r, t \in Message :
              ReadRequest = <<r, t>> /\ r.type = "READ" /\ t.type = "TOKEN"
          BY <1>2, CommandWords
    <2>2. <<r, t>> \in Seq(Message) /\ EndsWith(<<r, t>>, "TOKEN")
          BY <2>1, PairWord
    <2>3. AllIn(<<r, t>>, T) BY <2>1 DEF AllIn, ToCore
    <2> QED BY <2>1, <2>2, <2>3
  <1> HIDE DEF change, T
  <1>7. /\ change \o write_queue \in Seq(Message) /\ AllIn(change \o write_queue, T)
        /\ ~Has(change \o write_queue, "TOKEN")
        BY <1>2, <1>3, <1>4, JoinWord
  <1>8. /\ change \o write_queue \o ReadRequest \in Seq(Message)
        /\ AllIn(change \o write_queue \o ReadRequest, T)
        /\ EndsWith(change \o write_queue \o ReadRequest, "TOKEN")
        BY <1>5, <1>7, JoinWord
  <1>9. /\ sending' \in Seq(Message) /\ sending' # <<>>
        /\ AllIn(sending', ToCore \cup FileTypes \cup {"TOKEN"}) /\ EndsWith(sending', "TOKEN")
        BY <1>1, <1>8 DEF change, T, EndsWith
  <1>10. ClientTyped' BY <1>1, <1>2, ClientFacts, NoWord DEF ClientTyped
  <1>11. SendingAt' BY <1>1, <1>9, NoWord DEF SendingAt
  <1>12. PhaseAt' BY <1>1, <1>2 DEF PhaseAt, Stopping, Replying
  <1>13. StateAt' BY <1>1, <1>6, <1>9 DEF StateAt
  <1>14. DutyAt' BY <1>1, <1>6 DEF DutyAt, GivenUp
  <1> QED BY <1>1, <1>6, <1>9, <1>10, <1>11, <1>12, <1>13, <1>14, ClientTalks DEF ClientPlaces

LEMMA FileRequestControl ==
  ASSUME Control, UNCHANGED core, UNCHANGED <<song, led, phase, caller, cur, write_queue>>,
         NEW place \in {"receive", "drain", "settle"}, ClientReceive(place),
         place # "receive" => state["client"] # "S",
         NewMessage.type = "REQUEST_AMIGA_FILE",
         GoTo("asked"), wanted' = NewMessage.body.arg, back' = place
  PROVE  LinkStep /\ Typed' /\ ClientControl' /\ CoreSideKept
  <1>1. /\ LinkStep /\ LinkTyped' /\ CoreSideKept /\ ClientOpen' /\ pc = place
        /\ state'["client"] = "R" /\ duty'["client"] = "asked" /\ NewMessage \in Message
        BY ClientReceives
  <1>2. pc' = "asked" /\ sending' = <<>> /\ wanted' \in Nat
        BY <1>1 DEF GoTo, Message, Body
  <1>3. ClientTyped' BY <1>2, ClientFacts DEF ClientTyped
  <1>4. SendingAt' BY <1>2, NoWord DEF SendingAt, Control, ClientControl
  <1>5. PhaseAt' BY <1>1, <1>2 DEF PhaseAt, Stopping, Replying, Control, ClientControl
  <1>6. StateAt' BY <1>1, <1>2 DEF StateAt
  <1>7. DutyAt' BY <1>1, <1>2 DEF DutyAt, GivenUp
  <1> QED BY <1>1, <1>2, <1>3, <1>4, <1>5, <1>6, <1>7, NoWord, ClientTalks DEF ClientPlaces

LEMMA ReceiveMessagesControl ==
  ASSUME Control, receive_messages, UNCHANGED core
  PROVE  LinkStep /\ Typed' /\ ClientControl' /\ CoreSideKept
  <1>1. ClientReceive("receive") /\ UNCHANGED <<song, led>> BY DEF receive_messages
  <1>2. /\ pc = "receive" /\ phase \in InSong /\ sending = <<>>
        BY <1>1 DEF ClientReceive, Control, ClientControl, PhaseAt
  <1>3. CASE Ready BY <1>1, <1>3, ReadyControl
  <1>4. CASE FileRequest BY <1>1, <1>4, FileRequestControl DEF FileRequest
  <1>5. CASE DataBlock \/ SongEnd \/ OtherMessage \/ BadMessage
    <2>1. NewMessage.type \notin {"TOKEN", "REQUEST_AMIGA_FILE"}
          BY <1>5 DEF DataBlock, SongEnd, OtherMessage, BadMessage
    <2>2. /\ LinkStep /\ LinkTyped' /\ CoreSideKept /\ ClientOpen'
          /\ state'["client"] = "R" /\ duty'["client"] = "none"
          BY <1>1, <2>1, ClientReceives
    <2>3. /\ sending' = <<>> /\ UNCHANGED <<cur, wanted, back>>
          /\ phase' \in InSong \cup {"ERROR"}
          /\ \/ pc' = "receive" /\ phase' \in InSong /\ UNCHANGED write_queue
             \/ pc' = "idle" /\ phase' \in InSong /\ UNCHANGED write_queue
             \/ pc' = "event" /\ phase' \in InSong /\ UNCHANGED write_queue
             \/ pc' = "fatal" /\ phase' = "ERROR" /\ UNCHANGED write_queue
             \/ pc' = "drain" /\ caller' \in {"unplayable", "error"} /\ write_queue' = <<>>
      <3>1. CASE DataBlock BY <3>1, <1>2, GiveEventFacts DEF DataBlock, InSong
      <3>2. CASE SongEnd BY <3>2, <1>2 DEF SongEnd, InSong
      <3>3. CASE OtherMessage BY <3>3, <1>2, GiveEventFacts DEF OtherMessage, InSong
      <3>4. CASE BadMessage BY <3>4, <1>2, EventFailsFacts DEF BadMessage
      <3> QED BY <1>5, <3>1, <3>2, <3>3, <3>4
    <2>4. ClientTyped' BY <1>1, <2>3, ClientFacts, NoWord DEF ClientTyped, InSong, Phases
    <2>5. Arrived'
          BY <2>2, <2>3, <1>2
          DEF Arrived, PhaseAt, StateAt, Stopping, Replying, InSong
    <2>6. DutyAt' BY <2>2, <2>3 DEF DutyAt, GivenUp, InSong
    <2> QED BY <2>2, <2>4, <2>5, <2>6, ClientHeard
  <1> QED BY <1>3, <1>4, <1>5 DEF receive_messages

LEMMA PendingEventsControl ==
  ASSUME Control, NEW place \in {"drain", "settle"}, get_pending_events(place), UNCHANGED core
  PROVE  LinkStep /\ Typed' /\ ClientControl' /\ CoreSideKept
  <1>1. /\ ClientReceive(place) /\ pc = place /\ state["client"] # "S"
        /\ UNCHANGED <<song, led, phase, caller, cur, write_queue>>
        BY DEF get_pending_events, songstate
  <1>2. CASE NewMessage.type = "REQUEST_AMIGA_FILE"
    <2>1. GoTo("asked") /\ wanted' = NewMessage.body.arg /\ back' = place
          BY <1>2 DEF get_pending_events
    <2> QED BY <1>1, <1>2, <2>1, FileRequestControl
  <1>3. CASE NewMessage.type # "REQUEST_AMIGA_FILE"
    <2>1. UNCHANGED <<pc, sending, wanted, back>> /\ sending = <<>>
          BY <1>1, <1>3 DEF get_pending_events, ClientReceive
    <2>2. /\ LinkStep /\ LinkTyped' /\ CoreSideKept /\ ClientOpen'
          /\ state'["client"] \in {"S", "R"} /\ duty'["client"] = "none"
          BY <1>1, <1>3, ClientReceives
    <2>3. ClientTyped' BY <1>1, <2>1, ClientFacts DEF ClientTyped
    <2>4. Arrived'
          BY <1>1, <2>1, <2>2
          DEF Arrived, PhaseAt, StateAt, Stopping, Replying, Control, ClientControl
    <2>5. DutyAt' BY <1>1, <2>1, <2>2 DEF DutyAt, GivenUp
    <2> QED BY <2>2, <2>3, <2>4, <2>5, ClientHeard
  <1> QED BY <1>2, <1>3

LEMMA BeginReplyControl ==
  ASSUME Control, send_file_back, UNCHANGED core
  PROVE  LinkStep /\ Typed' /\ ClientControl' /\ CoreSideKept
  <1>1. PICK found \in BOOLEAN : sending' = FileMessages(song, wanted, found)
        BY DEF send_file_back, GoSend
  <1>2. /\ pc = "asked" /\ pc' = "reply" /\ Link!BeginReply("client")
        /\ UNCHANGED <<song, led, phase, caller, cur, write_queue, back, wanted>>
        BY DEF send_file_back, GoSend, songstate
  <1>3. ClientOpen /\ LinkTyped /\ song \in 0 .. MaxSongs /\ wanted \in Nat
        BY <1>2 DEF Control, Typed, ClientControl, LinkTyped
  <1>4. /\ LP!Next /\ LinkTyped'
        /\ state'["client"] = "S" /\ duty'["client"] = "replying"
        /\ state'["core"] = state["core"] /\ duty'["core"] = duty["core"] /\ open' = open
        BY <1>2, <1>3, ClientBeginsReply
  <1>5. /\ sending' \in Seq(Message) /\ sending' # <<>> /\ AllIn(sending', FileTypes)
        /\ \A i \in 1 .. Len(sending') : sending'[i].last <=> i = Len(sending')
    <2>1. PICK x, y, z \in Message :
           /\ FileMessages(song, wanted, TRUE) = <<x, y>>
           /\ FileMessages(song, wanted, FALSE) = <<z>>
           /\ x.type = "FILE" /\ ~x.last /\ y.type = "FILE_DATA" /\ y.last
           /\ z.type = "FILE" /\ z.last
          BY <1>3, FileWord
    <2>2. CASE found
      <3>1. sending' = <<x, y>> BY <1>1, <2>1, <2>2
      <3> QED BY <2>1, <3>1 DEF AllIn, FileTypes
    <2>3. CASE ~found
      <3>1. sending' = <<z>> BY <1>1, <2>1, <2>3
      <3> QED BY <2>1, <3>1 DEF AllIn, FileTypes
    <2> QED BY <2>2, <2>3
  <1>6. ClientTyped' BY <1>2, ClientFacts DEF ClientTyped
  <1>7. SendingAt' BY <1>2, <1>5 DEF SendingAt, Control, ClientControl
  <1>8. PhaseAt' BY <1>2 DEF PhaseAt, Stopping, Replying, Control, ClientControl
  <1>9. StateAt' BY <1>2, <1>4 DEF StateAt
  <1>10. DutyAt' BY <1>2, <1>4 DEF DutyAt, GivenUp
  <1>11. LinkStep /\ CoreSideKept /\ ClientOpen'
         BY <1>3, <1>4 DEF LinkStep, CoreSideKept, ClientOpen, CoreOpen
  <1> QED BY <1>2, <1>4, <1>5, <1>6, <1>7, <1>8, <1>9, <1>10, <1>11, ClientTalks

LEMMA SendReplyControl ==
  ASSUME Control, SendReply, UNCHANGED core
  PROVE  LinkStep /\ Typed' /\ ClientControl' /\ CoreSideKept
  <1> DEFINE m == Head(sending)
  <1>1. /\ pc = "reply" /\ sending # <<>> /\ Link!SendPiece("client", m)
        /\ UNCHANGED <<back, wanted, led>>
        BY DEF SendReply
  <1>2. /\ sending \in Seq(Message) /\ AllIn(sending, FileTypes) /\ LinkTyped
        /\ \A i \in 1 .. Len(sending) : sending[i].last <=> i = Len(sending)
        /\ ClientOpen /\ state["client"] = "S" /\ duty["client"] = "replying"
        BY <1>1 DEF Control, Typed, LinkTyped, ClientControl, SendingAt, StateAt, DutyAt, GivenUp
  <1>3. /\ m = sending[1] /\ m \in Message /\ m.type \in FileTypes
        /\ Tail(sending) \in Seq(Message) /\ Len(sending) \in Nat \ {0}
        /\ Len(Tail(sending)) = Len(sending) - 1
        /\ \A i \in 1 .. Len(Tail(sending)) : Tail(sending)[i] = sending[i + 1]
        /\ AllIn(Tail(sending), FileTypes)
        /\ Tail(sending) = <<>> <=> Len(sending) = 1
        BY <1>1, <1>2, TailWord
  <1>4. m.last <=> Len(sending) = 1
    <2>1. 1 \in 1 .. Len(sending) BY <1>3
    <2>2. sending[1].last <=> 1 = Len(sending) BY <1>2, <2>1
    <2> QED BY <1>3, <2>2
  <1>5. /\ LP!Next /\ LinkTyped' /\ open' = open
        /\ state'["core"] = state["core"] /\ duty'["core"] = duty["core"]
        /\ IF CoreOpen /\ ~m.last THEN state' = state /\ duty' = duty
           ELSE /\ duty'["client"] = "none"
                /\ CoreOpen => state'["client"] = "R"
        BY <1>1, <1>2, <1>3, ClientSendsPiece
  <1>6. LinkStep /\ CoreSideKept /\ ClientOpen'
         BY <1>2, <1>5 DEF LinkStep, CoreSideKept, ClientOpen, CoreOpen
  <1>7. state'["client"] \in {"S", "R"}
        BY <1>1, <1>2, <1>5 DEF Link!SendPiece, Link!Other, CoreOpen
  <1> HIDE DEF m
  <1>8. CASE CoreOpen /\ m.last
    <2>1. pc' = back /\ sending' = <<>> /\ UNCHANGED <<caller, song, phase, cur, write_queue>>
          BY <1>4, <1>8 DEF SendReply, GoTo, songstate, CoreOpen
    <2>2. back \in {"receive", "drain", "settle"} BY DEF Control, ClientControl
    <2>3. ClientTyped' BY <1>1, <2>1, ClientFacts DEF ClientTyped
    <2>4. Arrived'
          BY <1>1, <1>5, <1>8, <2>1, <2>2
          DEF Arrived, PhaseAt, StateAt, Stopping, Replying, Control, ClientControl
    <2>5. DutyAt' BY <1>5, <1>8, <2>1, <2>2 DEF DutyAt, GivenUp
    <2> QED BY <1>5, <1>6, <2>3, <2>4, <2>5, ClientHeard
  <1>9. CASE CoreOpen /\ ~m.last
    <2>1. /\ UNCHANGED pc /\ sending' = Tail(sending)
          /\ UNCHANGED <<caller, song, phase, cur, write_queue>>
          BY <1>4, <1>9 DEF SendReply, songstate, CoreOpen
    <2>2. sending' \in Seq(Message) /\ sending' # <<>> /\ AllIn(sending', FileTypes)
          BY <1>3, <1>4, <1>9, <2>1
    <2>3. ASSUME NEW i \in 1 .. Len(Tail(sending))
          PROVE  Tail(sending)[i].last <=> i = Len(Tail(sending))
      <3>1. i + 1 \in 1 .. Len(sending) /\ (i + 1 = Len(sending) <=> i = Len(Tail(sending)))
            BY <1>3
      <3> QED BY <3>1, <1>2, <1>3
    <2>4. ClientTyped' BY <1>1, <2>1, ClientFacts DEF ClientTyped
    <2>5. SendingAt' BY <1>1, <2>1, <2>2, <2>3 DEF SendingAt, Control, ClientControl
    <2>6. PhaseAt' BY <1>1, <2>1 DEF PhaseAt, Stopping, Replying, Control, ClientControl
    <2>7. StateAt' BY <1>1, <1>2, <1>5, <1>9, <2>1 DEF StateAt
    <2>8. DutyAt' BY <1>1, <1>2, <1>5, <1>9, <2>1 DEF DutyAt, GivenUp
    <2> QED BY <1>1, <1>5, <1>6, <2>1, <2>2, <2>4, <2>5, <2>6, <2>7, <2>8, ClientTalks
  <1>10. CASE ~CoreOpen
    <2>1. IF back = "receive" THEN EventFails /\ UNCHANGED <<song, cur, max, nextsubsong>>
          ELSE StopReturns(FALSE)
          BY <1>10 DEF SendReply, CoreOpen
    <2>2. /\ sending' = <<>> /\ phase' = "ERROR" /\ UNCHANGED song /\ cur' \in {0, cur}
          /\ \/ pc' \in {"fatal", "close"} /\ UNCHANGED write_queue
             \/ pc' = "drain" /\ caller' = "error" /\ write_queue' = <<>>
      <3>1. CASE back = "receive" BY <2>1, <3>1, EventFailsFacts
      <3>2. CASE back # "receive"
        <4>1. caller \in {"app", "unplayable", "error", "cleanup"}
              BY <1>1, <3>2 DEF Control, ClientControl, PhaseAt, Replying
        <4> QED BY <2>1, <3>2, <4>1, StopReturnsFacts
      <3> QED BY <3>1, <3>2
    <2>3. ClientTyped'
      <3>1. ClientTyped BY ClientFacts
      <3>2. write_queue' \in Seq(Message) /\ AllIn(write_queue', {"FILTER"})
            BY <2>2, <3>1, NoWord DEF ClientTyped
      <3> QED BY <1>1, <2>2, <3>1, <3>2 DEF ClientTyped, Phases
    <2>4. Arrived' BY <1>7, <2>2 DEF Arrived, PhaseAt, StateAt, Stopping, Replying
    <2>5. DutyAt' BY <1>5, <1>10, <2>2 DEF DutyAt, GivenUp
    <2> QED BY <1>5, <1>6, <2>3, <2>4, <2>5, ClientHeard
  <1> QED BY <1>8, <1>9, <1>10

(* Every step of libuade and its application. *)
LEMMA ClientSteps ==
  ASSUME Control, UNCHANGED core,
         (\E dead \in BOOLEAN : ClientStep(dead)) \/ App \/ ClientDies
  PROVE  LinkStep /\ Typed' /\ ClientControl' /\ CoreSideKept
  <1>1. CASE \/ uade_new_state \/ AwaitAnswer \/ BeginEvents \/ Requested \/ AwaitReboot
             \/ Stopped \/ FilterSent \/ AppGetEvent \/ AppNextSubsong \/ AppPlayNoSong
             \/ AppStop \/ AppCleanup \/ InitializationFails \/ receive_messages_fails
             \/ PendingEventsFail
             \/ (GetEvent /\ phase # "INITIALIZED")
        BY <1>1, CallsAlone
  <1>2. CASE GetEvent /\ phase = "INITIALIZED" BY <1>2, GetEventInitialized
  <1>3. CASE ClientSend BY <1>3, ClientSendControl
  <1>4. CASE ReceiveAnswer BY <1>4, ReceiveAnswerControl
  <1>5. CASE ReceiveTurn BY <1>5, ReceiveTurnControl
  <1>6. CASE receive_messages BY <1>6, ReceiveMessagesControl
  <1>7. CASE send_file_back BY <1>7, BeginReplyControl
  <1>8. CASE SendReply BY <1>8, SendReplyControl
  <1>9. CASE get_pending_events("drain") BY <1>9, PendingEventsControl
  <1>10. CASE get_pending_events("settle") BY <1>10, PendingEventsControl
  <1>11. CASE OrderReboot BY <1>11, OrderRebootControl
  <1>12. CASE AppPlay BY <1>12, AppPlayControl
  <1>13. CASE \E l \in {0, 1} : AppSetFilter(l) BY <1>13, AppSetFilterControl
  <1>14. CASE ClientDies \/ CloseLink \/ \E dead \in BOOLEAN : WaitForCore(dead)
         BY <1>14, ClientEnds
  <1>15. CASE App BY <1>1, <1>12, <1>13, <1>15 DEF App
  <1>16. CASE \E dead \in BOOLEAN : ClientStep(dead)
    <2>1. PICK dead \in BOOLEAN : ClientStep(dead) BY <1>16
    <2>2. CASE WaitForCore(dead) BY <2>2, <1>14
    <2>3. CASE ReceiveAnswer \/ ReceiveTurn \/ receive_messages \/ send_file_back \/ SendReply
          BY <2>3, <1>4, <1>5, <1>6, <1>7, <1>8
    <2>4. CASE get_pending_events("drain") \/ get_pending_events("settle") \/ OrderReboot
               \/ CloseLink \/ ClientSend
          BY <2>4, <1>3, <1>9, <1>10, <1>11, <1>14
    <2>5. CASE \/ uade_new_state \/ AwaitAnswer \/ InitializationFails \/ BeginEvents
               \/ Requested \/ receive_messages_fails \/ PendingEventsFail \/ AwaitReboot
               \/ Stopped \/ FilterSent
          BY <2>5, <1>1
    <2>6. CASE GetEvent BY <2>6, <1>1, <1>2
    <2> QED BY <2>1, <2>2, <2>3, <2>4, <2>5, <2>6 DEF ClientStep
  <1> QED BY <1>14, <1>15, <1>16
------------------------------------------------------------------------------
(* The steps of uadecore and of the machine it emulates. *)
CoreTyped ==
  /\ coreSong \in 0 .. MaxSongs /\ cachedfilename \in Nat /\ sndbuf \in Nat
  /\ read_size \in Nat /\ out \in Seq(Message)

LEMMA CoreFacts ==
  ASSUME Control
  PROVE  CoreTyped /\ LinkTyped /\ (CoreOpen <=> at \notin Dead)
  BY DEF Control, Typed, LinkTyped, CoreTyped, CoreControl

LEMMA CoreMoves ==
  ASSUME Control, UNCHANGED client, LinkStep, LinkTyped', ClientSideKept, CoreTyped', CoreControl'
  PROVE  LinkStep /\ Typed' /\ CoreControl' /\ ClientSideKept
  BY DEF Control, Typed, CoreTyped, LinkTyped, client, call, songstate

LEMMA Exits ==
  ASSUME Control, UNCHANGED client, at \notin Dead, NEW how \in Dead, Exit(how)
  PROVE  LinkStep /\ Typed' /\ CoreControl' /\ ClientSideKept
  <1>1. CoreOpen /\ LinkTyped /\ CoreTyped BY CoreFacts
  <1>2. /\ at' = how /\ out' = <<>> /\ Link!Close("core")
        /\ UNCHANGED <<coreSong, canPlay, cachedfilename, read_size, sndbuf, reboot>>
        BY DEF Exit, load, files, sound
  <1>3. /\ LP!Next /\ LinkTyped' /\ state' = state /\ duty' = duty
        /\ open' = open \ {"core"}
        BY <1>1, <1>2, Closes DEF Peers, CoreOpen
  <1>4. LinkStep /\ ClientSideKept /\ ~CoreOpen'
        BY <1>3 DEF LinkStep, ClientSideKept, ClientOpen, CoreOpen
  <1>5. CoreTyped' BY <1>1, <1>2, NoWord DEF CoreTyped
  <1>6. CoreControl' BY <1>2, <1>4, NoWord DEF CoreControl, Dead
  <1> QED BY <1>3, <1>4, <1>5, <1>6, CoreMoves

LEMMA CoreReceives ==
  ASSUME Control, NEW type, NEW place \in {"option", "score", "player", "playerdata", "module",
                                 "moduledata", "token", "rstate"},
         CoreReceive(place, type), type # "REQUEST_AMIGA_FILE"
  PROVE  /\ LinkStep /\ LinkTyped' /\ ClientSideKept /\ CoreOpen /\ CoreOpen'
         /\ at = place /\ out = <<>> /\ Next_message \in Message /\ Next_message.type = type
         /\ state["core"] # "S"
         /\ state'["core"] = (IF type = "TOKEN" THEN "S" ELSE "R")
         /\ duty["core"] = "none" /\ duty'["core"] = "none"
         /\ inbox["core"] \in Seq(Message) /\ inbox["core"] # <<>>
         /\ inbox'["core"] = Tail(inbox["core"]) /\ inbox'["client"] = inbox["client"]
         /\ open' = open /\ duty' = duty
  <1>1. /\ at = place /\ out = <<>> /\ inbox["core"] # <<>> /\ Next_message.type = type
        /\ Link!ReceiveMessage("core") /\ UNCHANGED duty
        BY DEF CoreReceive
  <1>2. CoreOpen /\ LinkTyped /\ inbox["core"] \in Seq(Message)
        BY <1>1, CoreFacts DEF Dead, LinkTyped, Peers
  <1>3. duty["core"] = "none" BY <1>1, <1>2 DEF Control, CoreControl
  <1>4. state["core"] # "S" BY <1>1 DEF Link!ReceiveMessage
  <1>5. /\ LP!Next /\ LinkTyped'
        /\ state'["core"] = (IF Next_message.type = "TOKEN" THEN "S" ELSE "R")
        /\ state'["client"] = state["client"] /\ open' = open
        /\ inbox'["core"] = Tail(inbox["core"]) /\ inbox'["client"] = inbox["client"]
        /\ Next_message \in Message
        BY <1>1, <1>2, <1>3, CoreHearsOne
  <1> QED BY <1>1, <1>2, <1>3, <1>4, <1>5 DEF LinkStep, ClientSideKept, ClientOpen, CoreOpen

LEMMA CoreSendControl ==
  ASSUME Control, CoreSend, UNCHANGED client
  PROVE  LinkStep /\ Typed' /\ CoreControl' /\ ClientSideKept
  <1> DEFINE m == Head(out)
  <1>1. /\ out # <<>> /\ at \in {"reset", "score", "begin", "rstate", "run"}
        /\ state["core"] = "S" /\ AllIn(out, ToClient \cup {"TOKEN"})
        /\ at # "run" => EndsWith(out, "TOKEN")
        /\ at = "run" => ~Has(out, "TOKEN")
        BY DEF CoreSend, Control, CoreControl
  <1>2. CoreOpen /\ LinkTyped /\ CoreTyped /\ out \in Seq(Message) /\ at \notin Dead
        BY <1>1, CoreFacts DEF Dead, CoreTyped
  <1>3. duty["core"] = "none" BY <1>1, <1>2 DEF Control, CoreControl
  <1>4. /\ m \in Message /\ m = out[1] /\ Len(out) \in Nat \ {0} /\ Tail(out) \in Seq(Message)
        /\ m.type \in ToClient \cup {"TOKEN"} /\ AllIn(Tail(out), ToClient \cup {"TOKEN"})
        /\ at # "run" => /\ m.type = "TOKEN" <=> Tail(out) = <<>>
                         /\ Tail(out) # <<>> => EndsWith(Tail(out), "TOKEN")
        BY <1>1, <1>2, TailWord
  <1>5. at = "run" => m.type # "TOKEN" /\ ~Has(Tail(out), "TOKEN")
    <2>1. \A i \in 1 .. Len(Tail(out)) : i + 1 \in 1 .. Len(out) /\ Tail(out)[i] = out[i + 1]
      <3>1. /\ Len(Tail(out)) = Len(out) - 1
            /\ \A i \in 1 .. Len(Tail(out)) : Tail(out)[i] = out[i + 1]
            BY <1>1, <1>2, TailWord
      <3> QED BY <3>1, <1>4
    <2>2. 1 \in 1 .. Len(out) BY <1>4
    <2> QED BY <2>1, <2>2, <1>1, <1>4 DEF Has
  <1> HIDE DEF m
  <1>6. CASE \E how \in Dead : Exit(how) BY <1>2, <1>6, Exits
  <1>7. CASE m.type = "MSG" /\ out' = Tail(out)
             /\ UNCHANGED <<link, at, load, epoptions, files, sound, reboot, filter, informed>>
    <2>1. CoreTyped' BY <1>2, <1>4, <1>7 DEF CoreTyped, load, files, sound
    <2>2. CoreControl'
          BY <1>1, <1>2, <1>3, <1>4, <1>5, <1>7 DEF Control, CoreControl, CoreOpen, Dead, link, load
    <2> QED BY <1>7, <2>1, <2>2, LinkKept, CoreMoves
  <1>8. CASE Link!SendMessage("core", m) /\ out' = Tail(out)
             /\ UNCHANGED <<duty, at, load, epoptions, files, sound, reboot, filter, informed>>
    <2>1. m.type # "REQUEST_AMIGA_FILE" BY <1>4 DEF ToClient
    <2>2. /\ LP!Next /\ LinkTyped'
          /\ state'["core"] = (IF m.type = "TOKEN" THEN "R" ELSE "S")
          /\ state'["client"] = state["client"] /\ open' = open /\ duty' = duty
          BY <1>1, <1>2, <1>3, <1>4, <1>8, <2>1, CoreSends
    <2>3. LinkStep /\ ClientSideKept /\ CoreOpen'
          BY <1>2, <2>2 DEF LinkStep, ClientSideKept, ClientOpen, CoreOpen
    <2>4. CoreTyped' BY <1>2, <1>4, <1>8 DEF CoreTyped, load, files, sound
    <2>5. CoreControl'
          BY <1>1, <1>2, <1>3, <1>4, <1>5, <1>8, <2>2, <2>3 DEF Control, CoreControl, Dead, load
    <2> QED BY <2>2, <2>3, <2>4, <2>5, CoreMoves
  <1> QED BY <1>1, <1>6, <1>7, <1>8 DEF CoreSend, ClientGone, Dead, m

LEMMA CoreEndsControl ==
  ASSUME Control, CoreRejects \/ CoreEndOfInput \/ CoreDies, UNCHANGED client
  PROVE  LinkStep /\ Typed' /\ CoreControl' /\ ClientSideKept
  <1>1. at \notin Dead
        BY DEF CoreRejects, CoreEndOfInput, CoreDies, Receiving, Accepts, Dead
  <1>2. \E how \in Dead : Exit(how)
        BY DEF CoreRejects, CoreEndOfInput, CoreDies, Dead
  <1> QED BY <1>1, <1>2, Exits

LEMMA CoreBeginsControl ==
  ASSUME Control, CoreBeginReceive, UNCHANGED client
  PROVE  LinkStep /\ Typed' /\ CoreControl' /\ ClientSideKept
  <1>1. at = "option" /\ Link!BeginReceive("core") /\ UNCHANGED core
        BY DEF CoreBeginReceive
  <1>2. CoreOpen /\ LinkTyped /\ CoreTyped BY <1>1, CoreFacts DEF Dead
  <1>3. /\ LP!Next /\ LinkTyped' /\ state'["core"] = "R" /\ state'["client"] = state["client"]
        /\ UNCHANGED <<inbox, duty, open>>
        BY <1>1, <1>2, CoreBegins
  <1>4. LinkStep /\ ClientSideKept BY <1>3 DEF LinkStep, ClientSideKept, ClientOpen
  <1>5. CoreTyped' BY <1>1, <1>2 DEF CoreTyped, core, control, load, files, sound
  <1>6. CoreControl'
        BY <1>1, <1>2, <1>3 DEF Control, CoreControl, CoreOpen, core, control, load, Dead
  <1> QED BY <1>3, <1>4, <1>5, <1>6, CoreMoves

LEMMA CoreLoadsControl ==
  ASSUME Control, UNCHANGED client,
         uadecore_option \/ ReceiveScore \/ ReceivePlayer \/ ReceiveModule
  PROVE  LinkStep /\ Typed' /\ CoreControl' /\ ClientSideKept
  <1>1. /\ \E place \in {"option", "score", "player", "playerdata", "module", "moduledata"} :
             \E type \in {"CONFIG", "SCORE", "FILE", "FILE_DATA"} : CoreReceive(place, type)
        /\ at' \in {"reset", "player", "playerdata", "module", "moduledata", "token"}
        /\ UNCHANGED <<out, cachedfilename, read_size>>
        /\ sndbuf' \in {0, sndbuf}
        /\ coreSong' \in {coreSong, Next_message.body.song}
        /\ at' = "token" /\ canPlay' => ~reboot'
    <2>1. CASE uadecore_option BY <2>1 DEF uadecore_option, load, files, sound
    <2>2. CASE ReceiveScore BY <2>2 DEF ReceiveScore, load, files, sound
    <2>3. CASE ReceivePlayer BY <2>3 DEF ReceivePlayer, load, files, sound
    <2>4. CASE ReceiveModule BY <2>4 DEF ReceiveModule, LoadSong, files, filter
    <2> QED BY <2>1, <2>2, <2>3, <2>4
  <1>2. /\ LinkStep /\ LinkTyped' /\ ClientSideKept /\ CoreOpen' /\ out = <<>>
        /\ Next_message \in Message /\ state'["core"] = "R" /\ duty'["core"] = "none"
        BY <1>1, CoreReceives
  <1>3. CoreTyped'
        BY <1>1, <1>2, CoreFacts DEF CoreTyped, Message, Body
  <1>4. CoreControl' BY <1>1, <1>2, NoWord DEF CoreControl, Dead
  <1> QED BY <1>2, <1>3, <1>4, CoreMoves

LEMMA CoreAloneControl ==
  ASSUME Control, UNCHANGED client, invalidate_amiga_file_cache \/ BeginSong
  PROVE  LinkStep /\ Typed' /\ CoreControl' /\ ClientSideKept
  <1>1. /\ UNCHANGED <<link, out, coreSong, canPlay, read_size, reboot>> /\ out = <<>>
        /\ \/ at = "reset" /\ at' = "score"
           \/ at = "begin" /\ at' = "rstate"
        /\ sndbuf' \in {0, sndbuf} /\ cachedfilename' \in {0, cachedfilename}
        BY DEF invalidate_amiga_file_cache, BeginSong, load, files, sound
  <1>2. CoreTyped' BY <1>1, CoreFacts DEF CoreTyped
  <1>3. CoreControl' BY <1>1, NoWord DEF Control, CoreControl, CoreOpen, Dead, link
  <1> QED BY <1>1, <1>2, <1>3, LinkKept, CoreMoves

LEMMA CommandsControl ==
  ASSUME Control, UNCHANGED client,
         change_subsong \/ audio_set_filter \/ add_ep_option \/ CommandRead \/ CommandReboot
  PROVE  LinkStep /\ Typed' /\ CoreControl' /\ ClientSideKept
  <1>1. /\ \E type \in {"CHANGE_SUBSONG", "FILTER", "SET_PLAYER_OPTION", "READ", "REBOOT"} :
             CoreReceive("rstate", type)
        /\ UNCHANGED <<at, out, coreSong, canPlay, cachedfilename>>
        /\ sndbuf' \in {0, sndbuf} /\ read_size' \in {read_size, Next_message.body.arg}
    <2>1. CASE change_subsong BY <2>1 DEF change_subsong, control, load, files
    <2>2. CASE audio_set_filter BY <2>2 DEF audio_set_filter, control, load, files, sound
    <2>3. CASE add_ep_option BY <2>3 DEF add_ep_option, control, load, files, sound
    <2>4. CASE CommandRead BY <2>4 DEF CommandRead, control, load, files
    <2>5. CASE CommandReboot BY <2>5 DEF CommandReboot, control, load, files, sound
    <2> QED BY <2>1, <2>2, <2>3, <2>4, <2>5
  <1>2. /\ LinkStep /\ LinkTyped' /\ ClientSideKept /\ CoreOpen' /\ out = <<>> /\ at = "rstate"
        /\ Next_message \in Message /\ state'["core"] = "R" /\ duty'["core"] = "none"
        BY <1>1, CoreReceives
  <1>3. CoreTyped' BY <1>1, <1>2, CoreFacts DEF CoreTyped, Message, Body
  <1>4. CoreControl' BY <1>1, <1>2, NoWord DEF CoreControl, Dead
  <1> QED BY <1>2, <1>3, <1>4, CoreMoves

(* What uadecore says. *)
LEMMA CoreWords ==
  ASSUME coreSong \in 0 .. MaxSongs
  PROVE  /\ Token(coreSong) \in Message /\ Token(coreSong).type = "TOKEN"
         /\ Token(coreSong).body.song = coreSong
         /\ \A type \in ToClient \cup {"REQUEST_AMIGA_FILE"} : \A n \in Nat :
              /\ Msg(type, coreSong, n) \in Message /\ Msg(type, coreSong, n).type = type
              /\ Msg(type, coreSong, n).body = [song |-> coreSong, arg |-> n]
  <1>1. Token(coreSong) \in Message /\ Token(coreSong).type = "TOKEN"
        /\ Token(coreSong).body.song = coreSong
        BY DEF Token, Msg, Message, Body
  <1>2. ASSUME NEW type \in ToClient \cup {"REQUEST_AMIGA_FILE"}, NEW n \in Nat
        PROVE  /\ Msg(type, coreSong, n) \in Message /\ Msg(type, coreSong, n).type = type
               /\ Msg(type, coreSong, n).body = [song |-> coreSong, arg |-> n]
        BY DEF Msg, Message, Body
  <1> QED BY <1>1, <1>2

LEMMA AnswerSongControl ==
  ASSUME Control, UNCHANGED client, AnswerSong
  PROVE  LinkStep /\ Typed' /\ CoreControl' /\ ClientSideKept
  <1>1. PICK type \in {"CAN_PLAY", "CANT_PLAY"} :
          /\ CoreReceive("token", "TOKEN")
          /\ out' = <<Msg(type, coreSong, 0), Token(coreSong)>>
          /\ at' = (IF canPlay THEN "begin" ELSE "score")
          /\ UNCHANGED <<coreSong, canPlay, cachedfilename, read_size, sndbuf, reboot>>
        BY DEF AnswerSong, load, files, sound
  <1>2. /\ LinkStep /\ LinkTyped' /\ ClientSideKept /\ CoreOpen' /\ out = <<>> /\ at = "token"
        /\ state'["core"] = "S" /\ duty'["core"] = "none"
        BY <1>1, CoreReceives
  <1>3. /\ Msg(type, coreSong, 0) \in Message /\ Msg(type, coreSong, 0).type = type
        /\ Token(coreSong) \in Message /\ Token(coreSong).type = "TOKEN"
        BY <1>1, CoreFacts, CoreWords DEF CoreTyped, ToClient
  <1>4. /\ out' \in Seq(Message) /\ out' # <<>> /\ EndsWith(out', "TOKEN")
        /\ AllIn(out', ToClient \cup {"TOKEN"})
    <2>1. /\ out' \in Seq(Message) /\ out' # <<>> /\ EndsWith(out', "TOKEN")
          BY <1>1, <1>3, PairWord
    <2>2. AllIn(out', ToClient \cup {"TOKEN"}) BY <1>1, <1>3 DEF AllIn, ToClient
    <2> QED BY <2>1, <2>2
  <1>5. CoreTyped' BY <1>1, <1>4, CoreFacts DEF CoreTyped
  <1>6. CoreControl' BY <1>1, <1>2, <1>4 DEF Control, CoreControl, Dead
  <1> QED BY <1>2, <1>5, <1>6, CoreMoves

LEMMA LeaveRStateControl ==
  ASSUME Control, UNCHANGED client, LeaveRState
  PROVE  LinkStep /\ Typed' /\ CoreControl' /\ ClientSideKept
  <1>1. /\ CoreReceive("rstate", "TOKEN")
        /\ UNCHANGED <<coreSong, canPlay, cachedfilename, read_size, sndbuf, reboot>>
        BY DEF LeaveRState, load, files, sound
  <1>2. /\ LinkStep /\ LinkTyped' /\ ClientSideKept /\ CoreOpen' /\ out = <<>> /\ at = "rstate"
        /\ state'["core"] = "S" /\ duty'["core"] = "none"
        BY <1>1, CoreReceives
  <1>3. /\ Msg("SONG_END", coreSong, sndbuf) \in Message
        /\ Msg("SONG_END", coreSong, sndbuf).type = "SONG_END"
        /\ Token(coreSong) \in Message /\ Token(coreSong).type = "TOKEN"
        BY <1>1, CoreFacts, CoreWords DEF CoreTyped, ToClient
  <1>4. CASE reboot
    <2>0. /\ at' = "reset"
          /\ \/ out' = <<Token(coreSong)>>
             \/ out' = <<Msg("SONG_END", coreSong, sndbuf), Token(coreSong)>>
          BY <1>4 DEF LeaveRState
    <2>1. /\ out' \in Seq(Message) /\ out' # <<>> /\ EndsWith(out', "TOKEN")
      <3>1. CASE out' = <<Token(coreSong)>> BY <1>3, <3>1, PairWord
      <3>2. CASE out' = <<Msg("SONG_END", coreSong, sndbuf), Token(coreSong)>>
            BY <1>3, <3>2, PairWord
      <3> QED BY <2>0, <3>1, <3>2
    <2>2. AllIn(out', ToClient \cup {"TOKEN"}) BY <2>0, <1>3 DEF AllIn, ToClient
    <2>5. CoreTyped' BY <1>1, <2>1, CoreFacts DEF CoreTyped
    <2>6. CoreControl' BY <1>2, <2>0, <2>1, <2>2 DEF CoreControl, Dead
    <2> QED BY <1>2, <2>5, <2>6, CoreMoves
  <1>5. CASE ~reboot
    <2>1. at' = "run" /\ out' = <<>> BY <1>2, <1>5 DEF LeaveRState
    <2>5. CoreTyped' BY <1>1, <2>1, CoreFacts, NoWord DEF CoreTyped
    <2>6. CoreControl' BY <1>1, <1>2, <1>5, <2>1, NoWord DEF CoreControl, Dead
    <2> QED BY <1>2, <2>5, <2>6, CoreMoves
  <1> QED BY <1>4, <1>5

LEMMA FileArrivesControl ==
  ASSUME Control, UNCHANGED client, ReceiveAmigaFile
  PROVE  LinkStep /\ Typed' /\ CoreControl' /\ ClientSideKept
  <1>1. /\ at \in {"file", "filedata"} /\ out = <<>> /\ inbox["core"] # <<>>
        /\ Next_message.type \in FileTypes /\ Link!ReceivePiece("core")
        /\ UNCHANGED <<coreSong, canPlay, cachedfilename, read_size, sndbuf, reboot>>
        BY DEF ReceiveAmigaFile, Accepts, FileTypes, load, sound
  <1>2. CoreOpen /\ LinkTyped /\ CoreTyped BY <1>1, CoreFacts DEF Dead
  <1>3. /\ LP!Next /\ LinkTyped' /\ Next_message \in Message
        /\ state'["client"] = state["client"] /\ duty'["client"] = duty["client"]
        /\ open' = open
        /\ IF Next_message.last
           THEN state'["core"] = "S" /\ duty'["core"] = "none"
           ELSE state' = state /\ duty' = duty
        BY <1>1, <1>2, CoreTakesPiece
  <1>4. LinkStep /\ ClientSideKept /\ CoreOpen'
        BY <1>2, <1>3 DEF LinkStep, ClientSideKept, ClientOpen, CoreOpen
  <1>5. CASE Next_message.last
    <2>1. at' = "run" /\ out' = <<Msg("MSG", coreSong, 0)>> BY <1>5 DEF ReceiveAmigaFile
    <2>2. Msg("MSG", coreSong, 0) \in Message /\ Msg("MSG", coreSong, 0).type = "MSG"
          BY <1>2, CoreWords DEF CoreTyped, ToClient
    <2>3. /\ out' \in Seq(Message) /\ out' # <<>> /\ AllIn(out', ToClient \cup {"TOKEN"})
          /\ ~Has(out', "TOKEN")
          BY <2>1, <2>2 DEF AllIn, Has, ToClient
    <2>4. CoreTyped' BY <1>1, <1>2, <2>3 DEF CoreTyped
    <2>5. CoreControl'
          BY <1>1, <1>3, <1>4, <1>5, <2>1, <2>3 DEF Control, CoreControl, Dead
    <2> QED BY <1>3, <1>4, <2>4, <2>5, CoreMoves
  <1>6. CASE ~Next_message.last
    <2>1. at' = "filedata" /\ out' = <<>> BY <1>1, <1>6 DEF ReceiveAmigaFile
    <2>2. duty["core"] = "awaiting" /\ state["core"] = "R" /\ ~reboot
          BY <1>1, <1>2 DEF Control, CoreControl, Dead
    <2>4. CoreTyped' BY <1>1, <1>2, <2>1, NoWord DEF CoreTyped
    <2>5. CoreControl'
          BY <1>1, <1>3, <1>4, <1>6, <2>1, <2>2, NoWord DEF CoreControl, Dead
    <2> QED BY <1>3, <1>4, <2>4, <2>5, CoreMoves
  <1> QED BY <1>5, <1>6

(* The emulated program: it may also end uadecore by the assertion. *)
LEMMA EmulatesAlone ==
  ASSUME Control, UNCHANGED client, at = "run", out = <<>>, UNCHANGED link,
         UNCHANGED <<coreSong, canPlay, cachedfilename, reboot>>,
         sndbuf' \in Nat, read_size' \in Nat, out' \in Seq(Message),
         AllIn(out', ToClient \cup {"TOKEN"}),
         \/ at' = "run" /\ ~Has(out', "TOKEN")
         \/ at' = "rstate" /\ EndsWith(out', "TOKEN")
  PROVE  LinkStep /\ Typed' /\ CoreControl' /\ ClientSideKept
  <1>1. CoreTyped' BY CoreFacts DEF CoreTyped
  <1>2. state["core"] = "S" /\ ~reboot BY DEF Control, CoreControl
  <1>3. CoreControl'
        BY <1>2 DEF Control, CoreControl, CoreOpen, Dead, link, EndsWith
  <1> QED BY <1>1, <1>3, LinkKept, CoreMoves

LEMMA EmulateSoundControl ==
  ASSUME Control, UNCHANGED client, EmulateSound
  PROVE  LinkStep /\ Typed' /\ CoreControl' /\ ClientSideKept
  <1>1. at = "run" /\ out = <<>> BY DEF EmulateSound
  <1>2. CoreTyped BY CoreFacts
  <1>3. CASE read_size = 0 BY <1>1, <1>3, Exits DEF EmulateSound, Dead
  <1>4. CASE read_size # 0
    <2>1. UNCHANGED <<link, coreSong, canPlay, cachedfilename, reboot>>
          BY <1>4 DEF EmulateSound, load, files
    <2>2. CASE at' = "rstate" /\ read_size' = 0 /\ sndbuf' = 0
               /\ out' = <<Msg("DATA", coreSong, read_size), Token(coreSong)>>
      <3>1. /\ Msg("DATA", coreSong, read_size) \in Message
            /\ Msg("DATA", coreSong, read_size).type = "DATA"
            /\ Token(coreSong) \in Message /\ Token(coreSong).type = "TOKEN"
            BY <1>2, CoreWords DEF CoreTyped, ToClient
      <3>2. /\ out' \in Seq(Message) /\ out' # <<>> /\ EndsWith(out', "TOKEN")
            BY <2>2, <3>1, PairWord
      <3>3. AllIn(out', ToClient \cup {"TOKEN"}) BY <2>2, <3>1 DEF AllIn, ToClient
      <3> QED BY <1>1, <2>1, <2>2, <3>2, <3>3, EmulatesAlone
    <2>3. CASE UNCHANGED control /\ read_size' = read_size /\ sndbuf' \in {0, sndbuf + 1}
      <3>1. at' = "run" /\ out' = <<>> BY <1>1, <2>3 DEF control
      <3>2. read_size' \in Nat /\ sndbuf' \in Nat BY <1>2, <2>3 DEF CoreTyped
      <3> QED BY <1>1, <2>1, <3>1, <3>2, NoWord, EmulatesAlone
    <2> QED BY <1>4, <2>2, <2>3 DEF EmulateSound
  <1> QED BY <1>3, <1>4

LEMMA EmulateControl ==
  ASSUME Control, UNCHANGED client,
         \/ EmulateSubsongInfo \/ EmulateStartOutput \/ EmulateMessage
         \/ EmulateSongEnd \/ EmulateLed
  PROVE  LinkStep /\ Typed' /\ CoreControl' /\ ClientSideKept
  <1>1. /\ at = "run" /\ out = <<>> /\ UNCHANGED link /\ at' = "run"
        /\ UNCHANGED <<coreSong, canPlay, cachedfilename, reboot, sndbuf, read_size>>
        /\ \/ UNCHANGED out
           \/ \E type \in {"SUBSONG_INFO", "MSG", "SONG_END"} : \E n \in {0, sndbuf} :
                out' = <<Msg(type, coreSong, n)>>
    <2>1. CASE EmulateSubsongInfo BY <2>1 DEF EmulateSubsongInfo, load, files, sound
    <2>2. CASE EmulateStartOutput BY <2>2 DEF EmulateStartOutput, control, load, files
    <2>3. CASE EmulateMessage BY <2>3 DEF EmulateMessage, load, files, sound
    <2>4. CASE EmulateSongEnd BY <2>4 DEF EmulateSongEnd, load, files
    <2>5. CASE EmulateLed BY <2>5 DEF EmulateLed, control, load, files, sound
    <2> QED BY <2>1, <2>2, <2>3, <2>4, <2>5
  <1>2. CoreTyped BY CoreFacts
  <1>3. /\ out' \in Seq(Message) /\ AllIn(out', ToClient \cup {"TOKEN"}) /\ ~Has(out', "TOKEN")
    <2>1. CASE UNCHANGED out BY <1>1, <2>1, NoWord
    <2>2. ASSUME NEW type \in {"SUBSONG_INFO", "MSG", "SONG_END"}, NEW n \in {0, sndbuf},
                 out' = <<Msg(type, coreSong, n)>>
          PROVE  /\ out' \in Seq(Message) /\ AllIn(out', ToClient \cup {"TOKEN"})
                 /\ ~Has(out', "TOKEN")
      <3>1. type \in ToClient /\ type # "TOKEN" /\ n \in Nat BY <1>2, <2>2 DEF ToClient, CoreTyped
      <3>2. Msg(type, coreSong, n) \in Message /\ Msg(type, coreSong, n).type = type
            BY <1>2, <3>1, CoreWords DEF CoreTyped
      <3> QED BY <2>2, <3>1, <3>2 DEF AllIn, Has
    <2> QED BY <1>1, <2>1, <2>2
  <1> QED BY <1>1, <1>2, <1>3, EmulatesAlone DEF CoreTyped

LEMMA LookupControl ==
  ASSUME Control, UNCHANGED client, NEW name \in 1 .. MaxFiles, lookup_amiga_file_cache(name)
  PROVE  LinkStep /\ Typed' /\ CoreControl' /\ ClientSideKept
  <1>1. at = "run" /\ out = <<>> BY DEF lookup_amiga_file_cache
  <1>2. CoreTyped /\ LinkTyped /\ CoreOpen BY <1>1, CoreFacts DEF Dead
  <1>3. CASE "client" \notin open
        BY <1>1, <1>3, Exits DEF lookup_amiga_file_cache, Dead
  <1>4. CASE "client" \in open
    <2>1. /\ Link!RequestFile("core", Msg("REQUEST_AMIGA_FILE", coreSong, name))
          /\ at' = "file" /\ cachedfilename' = name /\ out' = <<>>
          /\ UNCHANGED <<coreSong, canPlay, read_size, sndbuf, reboot>>
          BY <1>1, <1>4 DEF lookup_amiga_file_cache, load, sound
    <2>2. name \in Nat BY SessionAssumption
    <2>3. /\ Msg("REQUEST_AMIGA_FILE", coreSong, name) \in Message
          /\ Msg("REQUEST_AMIGA_FILE", coreSong, name).type = "REQUEST_AMIGA_FILE"
          BY <1>2, <2>2, CoreWords DEF CoreTyped
    <2>4. duty["core"] = "none" /\ ~reboot BY <1>1, <1>2 DEF Control, CoreControl
    <2>5. /\ LP!Next /\ LinkTyped' /\ state'["core"] = "R" /\ duty'["core"] = "awaiting"
          /\ state'["client"] = state["client"] /\ duty'["client"] = duty["client"]
          /\ open' = open
          BY <1>2, <2>1, <2>3, <2>4, CoreAsksForFile
    <2>6. LinkStep /\ ClientSideKept /\ CoreOpen'
          BY <1>2, <2>5 DEF LinkStep, ClientSideKept, ClientOpen, CoreOpen
    <2>7. CoreTyped' BY <1>2, <2>1, <2>2, NoWord DEF CoreTyped
    <2>8. CoreControl' BY <2>1, <2>4, <2>5, <2>6, NoWord DEF CoreControl, Dead
    <2> QED BY <2>5, <2>6, <2>7, <2>8, CoreMoves
  <1> QED BY <1>3, <1>4

LEMMA CoreSteps ==
  ASSUME Control, UNCHANGED client, CoreStep \/ Emulate \/ CoreDies
  PROVE  LinkStep /\ Typed' /\ CoreControl' /\ ClientSideKept
  <1>1. CASE CoreSend BY <1>1, CoreSendControl
  <1>2. CASE CoreRejects \/ CoreEndOfInput \/ CoreDies BY <1>2, CoreEndsControl
  <1>3. CASE CoreBeginReceive BY <1>3, CoreBeginsControl
  <1>4. CASE uadecore_option \/ ReceiveScore \/ ReceivePlayer \/ ReceiveModule
        BY <1>4, CoreLoadsControl
  <1>5. CASE invalidate_amiga_file_cache \/ BeginSong BY <1>5, CoreAloneControl
  <1>6. CASE change_subsong \/ audio_set_filter \/ add_ep_option \/ CommandRead \/ CommandReboot
        BY <1>6, CommandsControl
  <1>7. CASE AnswerSong BY <1>7, AnswerSongControl
  <1>8. CASE LeaveRState BY <1>8, LeaveRStateControl
  <1>9. CASE ReceiveAmigaFile BY <1>9, FileArrivesControl
  <1>10. CASE CoreStep
         BY <1>10, <1>1, <1>2, <1>3, <1>4, <1>5, <1>6, <1>7, <1>8, <1>9 DEF CoreStep
  <1>11. CASE EmulateSound BY <1>11, EmulateSoundControl
  <1>12. CASE \/ EmulateSubsongInfo \/ EmulateStartOutput \/ EmulateMessage
              \/ EmulateSongEnd \/ EmulateLed
         BY <1>12, EmulateControl
  <1>13. CASE \E name \in 1 .. MaxFiles : lookup_amiga_file_cache(name)
         BY <1>13, LookupControl
  <1>14. CASE Emulate BY <1>14, <1>11, <1>12, <1>13 DEF Emulate
  <1> QED BY <1>2, <1>10, <1>14
------------------------------------------------------------------------------
(* What a side keeps of its control while the other side moves. *)
LEMMA CoreUntouched ==
  ASSUME Control, CoreSideKept, UNCHANGED core
  PROVE  CoreControl'
  BY DEF Control, CoreControl, CoreSideKept, core, control, load, Dead

LEMMA ClientUntouched ==
  ASSUME Control, ClientSideKept, UNCHANGED client
  PROVE  ClientControl'
  <1>1. /\ UNCHANGED <<pc, sending, caller, back, phase, write_queue>>
        /\ state'["client"] = state["client"] /\ duty'["client"] = duty["client"]
        /\ ClientOpen' <=> ClientOpen
        BY DEF ClientSideKept, client, call, songstate
  <1>2. PhaseAt' <=> PhaseAt BY <1>1 DEF PhaseAt, Stopping, Replying
  <1>3. StateAt' <=> StateAt BY <1>1 DEF StateAt
  <1>4. SendingAt' <=> SendingAt BY <1>1 DEF SendingAt, AllIn, EndsWith
  <1>5. DutyAt' <=> DutyAt BY <1>1 DEF DutyAt, GivenUp
  <1> QED BY <1>1, <1>2, <1>3, <1>4, <1>5 DEF Control, ClientControl

(* Both programs stay where the invariant says they may stand together, and   *)
(* every step of a session is one that IpcLink allows.                        *)
LEMMA NextControl ==
  ASSUME Control, [Next]_vars
  PROVE  Control' /\ LinkStep
  <1>1. CASE StepOfClient
    <2>1. (\E dead \in BOOLEAN : ClientStep(dead)) /\ UNCHANGED core
      <3>1. CASE at \in Dead
        <4>1. ClientStep(TRUE) BY <1>1, <3>1 DEF StepOfClient, ClientStep, WaitForCore
        <4> QED BY <4>1, <1>1 DEF StepOfClient
      <3>2. CASE at \notin Dead
        <4>1. ClientStep(FALSE) BY <1>1, <3>2 DEF StepOfClient, ClientStep, WaitForCore
        <4> QED BY <4>1, <1>1 DEF StepOfClient
      <3> QED BY <3>1, <3>2
    <2> QED BY <2>1, ClientSteps, CoreUntouched DEF Control
  <1>2. CASE (App \/ ClientDies) /\ UNCHANGED core
        BY <1>2, ClientSteps, CoreUntouched DEF Control
  <1>3. CASE StepOfCore
        BY <1>3, CoreSteps, ClientUntouched DEF StepOfCore, Control
  <1>4. CASE (Emulate \/ CoreDies) /\ UNCHANGED client
        BY <1>4, CoreSteps, ClientUntouched DEF Control
  <1>5. CASE UNCHANGED vars
    <2>1. UNCHANGED link /\ UNCHANGED core /\ UNCHANGED client BY <1>5 DEF vars
    <2>2. Typed'
          BY <2>1, LinkKept
          DEF Control, Typed, LinkTyped, core, control, load, files, sound, filter,
              client, call, songstate
    <2> QED BY <2>1, <2>2, LinkKept, ClientUntouched, CoreUntouched DEF Control
  <1>6. CASE Terminated BY <1>6, <1>5 DEF Terminated
  <1> QED BY <1>1, <1>2, <1>3, <1>4, <1>5, <1>6 DEF Next

LEMMA InitControl ==
  ASSUME Init
  PROVE  Control /\ LP!Init
  <1>1. LP!Init BY DEF Init, Link!Init, LP!Init, Link!Peer, LP!Peer
  <1>2. /\ state = [p \in Peers |-> "INITIAL"] /\ inbox = [p \in Peers |-> <<>>]
        /\ duty = [p \in Peers |-> "none"] /\ open = Peers
        BY DEF Init, Link!Init, Link!Peer, Peers
  <1>3. /\ Msg("CONFIG", 0, 0) \in Message /\ Msg("CONFIG", 0, 0).type = "CONFIG"
        BY SessionAssumption DEF Msg, Message, Body, ToCore
  <1>4. sending \in Seq(Message) /\ sending # <<>> /\ AllIn(sending, ToCore)
    <2>1. sending = <<Msg("CONFIG", 0, 0)>> BY DEF Init, ClientInit
    <2> QED BY <2>1, <1>3 DEF AllIn, ToCore
  <1>5. Typed
        BY <1>2, <1>4, NoWord, SessionAssumption DEF Init, ClientInit, CoreInit, Typed, Peers
  <1>6. ClientControl
    <2>1. pc = "new" /\ phase = "INVALID" /\ write_queue = <<>> /\ back = "receive"
          BY DEF Init, ClientInit
    <2>2. state["client"] = "INITIAL" /\ duty["client"] = "none" /\ ClientOpen
          BY <1>2 DEF Peers, ClientOpen
    <2>3. PhaseAt BY <2>1 DEF PhaseAt, Stopping, Replying
    <2>4. StateAt BY <1>4, <2>1, <2>2 DEF StateAt
    <2>5. SendingAt BY <1>4, <2>1, NoWord DEF SendingAt
    <2> QED BY <2>1, <2>2, <2>3, <2>4, <2>5 DEF ClientControl, Phases, DutyAt, GivenUp
  <1>7. CoreControl
    <2>1. at = "option" /\ out = <<>> BY DEF Init, CoreInit
    <2>2. state["core"] = "INITIAL" /\ duty["core"] = "none" /\ CoreOpen
          BY <1>2 DEF Peers, CoreOpen
    <2> QED BY <2>1, <2>2, NoWord DEF CoreControl, Dead
  <1> QED BY <1>1, <1>5, <1>6, <1>7 DEF Control

(* So the invariant of the link holds in a session (IpcLinkProofs). *)
THEOREM ControlHolds == Spec => [](Control /\ LP!Inv)
  <1>1. Init => Control /\ LP!Inv BY InitControl, LP!InitInv, LinkAssumed
  <1>2. Control /\ LP!Inv /\ [Next]_vars => (Control /\ LP!Inv)'
    <2> SUFFICES ASSUME Control, LP!Inv, [Next]_vars PROVE (Control /\ LP!Inv)'
        OBVIOUS
    <2>1. Control' /\ LinkStep BY NextControl
    <2>2. [LP!Next]_LP!vars BY <2>1 DEF LinkStep, LP!vars, link
    <2>3. LP!Inv' BY <2>2, LP!NextInv, LinkAssumed
    <2> QED BY <2>1, <2>3
  <1> QED BY <1>1, <1>2, PTL DEF Spec
------------------------------------------------------------------------------
(* A session as a behaviour of IpcLink: the commands are one to it. *)
ErasedWord(q) == [i \in DOMAIN q |-> Erased(q[i])]
ErasedInbox == [p \in {"client", "core"} |-> ErasedWord(inbox[p])]

LEMMA ErasedFacts ==
  ASSUME NEW m \in Message
  PROVE  /\ Erased(m) \in Plain!Message
         /\ Erased(m).type = "TOKEN" <=> m.type = "TOKEN"
         /\ Erased(m).type = "REQUEST_AMIGA_FILE" <=> m.type = "REQUEST_AMIGA_FILE"
         /\ Erased(m).type \in FileTypes <=> m.type \in FileTypes
         /\ Erased(m).last = m.last
  <1>1. m.last \in BOOLEAN
        /\ m.type \in (ToCore \cup ToClient) \cup FileTypes \cup {"TOKEN", "REQUEST_AMIGA_FILE"}
        BY DEF Message
  <1>2. CASE m.type \in ToCore \cup ToClient
        BY <1>1, <1>2 DEF Erased, Plain!Message, Plain!Type, Plain!FileType, FileTypes, ToCore, ToClient
  <1>3. CASE m.type \notin ToCore \cup ToClient
        BY <1>1, <1>3 DEF Erased, Plain!Message, Plain!Type, Plain!FileType, FileTypes
  <1> QED BY <1>2, <1>3

LEMMA ErasedWordFacts ==
  ASSUME NEW q \in Seq(Message)
  PROVE  /\ ErasedWord(q) \in Seq(Plain!Message)
         /\ ErasedWord(q) = <<>> <=> q = <<>>
         /\ \A m \in Message : ErasedWord(Append(q, m)) = Append(ErasedWord(q), Erased(m))
         /\ q # <<>> => /\ ErasedWord(Tail(q)) = Tail(ErasedWord(q))
                        /\ Head(ErasedWord(q)) = Erased(Head(q)) /\ Head(q) \in Message
  <1> DEFINE e == ErasedWord(q)
  <1>1. /\ Len(q) \in Nat /\ DOMAIN q = 1 .. Len(q)
        /\ \A i \in 1 .. Len(q) : q[i] \in Message
        BY LenProperties, ElementOfSeq
  <1>2. e \in Seq(Plain!Message) /\ Len(e) = Len(q)
        /\ \A i \in 1 .. Len(q) : e[i] = Erased(q[i])
    <2>1. e = [i \in 1 .. Len(q) |-> Erased(q[i])] BY <1>1 DEF ErasedWord
    <2>2. \A i \in 1 .. Len(q) : Erased(q[i]) \in Plain!Message BY <1>1, ErasedFacts
    <2> QED BY <1>1, <2>1, <2>2
  <1> HIDE DEF e
  <1>3. e = <<>> <=> q = <<>> BY <1>1, <1>2, EmptySeq
  <1>4. ASSUME NEW m \in Message PROVE ErasedWord(Append(q, m)) = Append(e, Erased(m))
    <2> DEFINE a == Append(q, m)
               b == Append(e, Erased(m))
    <2>1. /\ a \in Seq(Message) /\ Len(a) = Len(q) + 1 /\ a[Len(q) + 1] = m
          /\ \A i \in 1 .. Len(q) : a[i] = q[i]
          BY AppendProperties
    <2>2. /\ b \in Seq(Plain!Message) /\ Len(b) = Len(q) + 1 /\ b[Len(q) + 1] = Erased(m)
          /\ \A i \in 1 .. Len(q) : b[i] = e[i]
          BY <1>2, ErasedFacts, AppendProperties
    <2>3. DOMAIN a = 1 .. Len(q) + 1 /\ DOMAIN b = 1 .. Len(q) + 1
          /\ b = [i \in 1 .. Len(q) + 1 |-> b[i]]
          BY <2>1, <2>2, LenProperties
    <2> HIDE DEF a, b
    <2>4. ErasedWord(a) = [i \in 1 .. Len(q) + 1 |-> Erased(a[i])] BY <2>3 DEF ErasedWord
    <2>5. ASSUME NEW i \in 1 .. Len(q) + 1 PROVE Erased(a[i]) = b[i]
      <3>1. CASE i = Len(q) + 1 BY <3>1, <2>1, <2>2
      <3>2. CASE i # Len(q) + 1
        <4>1. i \in 1 .. Len(q) BY <3>2, <1>1
        <4> QED BY <4>1, <1>2, <2>1, <2>2
      <3> QED BY <3>1, <3>2
    <2> QED BY <2>3, <2>4, <2>5 DEF a, b
  <1>5. ASSUME q # <<>>
        PROVE  ErasedWord(Tail(q)) = Tail(e) /\ Head(e) = Erased(Head(q)) /\ Head(q) \in Message
    <2>1. /\ Head(q) = q[1] /\ Head(q) \in Message /\ Tail(q) \in Seq(Message)
          /\ Len(q) \in Nat \ {0} /\ Len(Tail(q)) = Len(q) - 1
          /\ \A i \in 1 .. Len(Tail(q)) : Tail(q)[i] = q[i + 1]
          BY <1>5, TailWord
    <2>2. /\ e # <<>> /\ Tail(e) \in Seq(Plain!Message) /\ Len(Tail(e)) = Len(q) - 1
          /\ \A i \in 1 .. Len(Tail(e)) : Tail(e)[i] = e[i + 1]
          /\ Head(e) = e[1]
          BY <1>2, <1>3, <1>5, HeadTailProperties
    <2>3. Head(e) = Erased(Head(q)) BY <2>1, <2>2, <1>2
    <2>4. /\ DOMAIN Tail(q) = 1 .. Len(q) - 1 /\ DOMAIN Tail(e) = 1 .. Len(q) - 1
          /\ Tail(e) = [i \in 1 .. Len(q) - 1 |-> Tail(e)[i]]
          BY <2>1, <2>2, LenProperties
    <2>5. ErasedWord(Tail(q)) = [i \in 1 .. Len(q) - 1 |-> Erased(Tail(q)[i])]
          BY <2>4 DEF ErasedWord
    <2>6. ASSUME NEW i \in 1 .. Len(q) - 1 PROVE Erased(Tail(q)[i]) = Tail(e)[i]
      <3>1. i + 1 \in 1 .. Len(q) BY <2>1
      <3>2. Tail(q)[i] = q[i + 1] /\ Tail(e)[i] = e[i + 1] BY <2>1, <2>2
      <3> QED BY <3>1, <3>2, <1>2
    <2> QED BY <2>1, <2>3, <2>4, <2>5, <2>6
  <1> QED BY <1>2, <1>3, <1>4, <1>5 DEF e

(* Every step of the link as a session makes it is one of the plain link. *)
LEMMA PlainStep ==
  ASSUME LinkTyped, LP!Next
  PROVE  Plain!Next
  <1> DEFINE box == ErasedInbox
  <1>1. PICK p \in {"client", "core"} : LP!PeerNext(p)
        BY DEF LP!Next, LP!Peer
  <1>2. p \in open BY <1>1 DEF LP!PeerNext
  <1>3. SUFFICES Plain!PeerNext(p) BY DEF Plain!Next, Plain!Peer
  <1>4. /\ inbox["client"] \in Seq(Message) /\ inbox["core"] \in Seq(Message)
        /\ inbox \in [{"client", "core"} -> Seq(Message)] /\ LP!Message = Message
        BY MessageFacts DEF LinkTyped, Peers
  <1>5. /\ LP!Other(p) = Plain!Other(p) /\ Plain!Other(p) \in {"client", "core"}
        BY DEF LP!Other, Plain!Other
  (* The inboxes. *)
  <1>6. ASSUME NEW m \in Message, LP!Deliver(p, m) PROVE Plain!Deliver(p, Erased(m))
    <2>1. inbox' = (IF LP!Other(p) \in open
                    THEN [inbox EXCEPT ![LP!Other(p)] = Append(@, m)] ELSE inbox)
          BY <1>6 DEF LP!Deliver
    <2>2. ErasedInbox' = (IF LP!Other(p) \in open
                    THEN [ErasedInbox EXCEPT ![LP!Other(p)] = Append(@, Erased(m))]
                    ELSE ErasedInbox)
      <3>1. CASE LP!Other(p) \notin open BY <2>1, <3>1 DEF ErasedInbox
      <3>2. CASE LP!Other(p) \in open
        <4>1. PICK o \in {"client", "core"} : o = LP!Other(p) BY <1>5
        <4>2. ErasedWord(Append(inbox[o], m)) = Append(ErasedWord(inbox[o]), Erased(m))
              BY <1>4, <1>6, <4>1, ErasedWordFacts
        <4>3. inbox' = [inbox EXCEPT ![o] = Append(inbox[o], m)] BY <2>1, <3>2, <4>1
        <4> QED BY <1>4, <4>1, <4>2, <4>3, <3>2 DEF ErasedInbox
      <3> QED BY <3>1, <3>2
    <2> QED BY <2>2, <1>5 DEF Plain!Deliver, ErasedInbox, ErasedWord
  <1>7. ASSUME inbox[p] # <<>>, inbox' = [inbox EXCEPT ![p] = Tail(@)]
        PROVE  /\ ErasedInbox[p] # <<>> /\ ErasedInbox' = [ErasedInbox EXCEPT ![p] = Tail(@)]
               /\ Head(ErasedInbox[p]) = Erased(Head(inbox[p])) /\ Head(inbox[p]) \in Message
    <2>1. /\ ErasedWord(Tail(inbox[p])) = Tail(ErasedWord(inbox[p]))
          /\ Head(ErasedWord(inbox[p])) = Erased(Head(inbox[p])) /\ Head(inbox[p]) \in Message
          /\ ErasedWord(inbox[p]) # <<>>
          BY <1>4, <1>7, ErasedWordFacts
    <2> QED BY <2>1, <1>4, <1>7 DEF ErasedInbox
  <1>8. UNCHANGED inbox => UNCHANGED ErasedInbox BY DEF ErasedInbox
  <1> USE DEF Plain!PeerNext
  <1>9. CASE LP!Speak(p)
    <2>1. PICK m \in Message : m.type # "REQUEST_AMIGA_FILE" /\ LP!SendMessage(p, m)
          BY <1>4, <1>9 DEF LP!Speak, LP!IsRequest
    <2>2. Plain!Deliver(p, Erased(m)) BY <1>6, <2>1 DEF LP!SendMessage
    <2>3. Plain!SendMessage(p, Erased(m))
          BY <2>1, <2>2, ErasedFacts
          DEF LP!SendMessage, Plain!SendMessage, LP!IsToken, Plain!IsToken
    <2>4. Plain!Speak(p)
          BY <1>9, <2>1, <2>3, ErasedFacts DEF LP!Speak, Plain!Speak, Plain!IsRequest
    <2> QED BY <1>2, <2>4
  <1>10. CASE LP!Listen(p)
    <2>1. inbox[p] # <<>> /\ inbox' = [inbox EXCEPT ![p] = Tail(@)]
          BY <1>10 DEF LP!Listen, LP!ReceiveMessage
    <2>2. /\ ErasedInbox[p] # <<>> /\ ErasedInbox' = [ErasedInbox EXCEPT ![p] = Tail(@)]
          /\ Head(ErasedInbox[p]) = Erased(Head(inbox[p])) /\ Head(inbox[p]) \in Message
          BY <1>7, <2>1
    <2>3. /\ Head(ErasedInbox[p]).type = "TOKEN" <=> Head(inbox[p]).type = "TOKEN"
          /\ Head(ErasedInbox[p]).type = "REQUEST_AMIGA_FILE"
               <=> Head(inbox[p]).type = "REQUEST_AMIGA_FILE"
          BY <2>2, ErasedFacts
    <2>4. /\ duty[p] = "none" /\ (state[p] = "R" \/ p = "core") /\ state[p] # "S"
          /\ UNCHANGED open
          /\ state' = [state EXCEPT ![p] = IF Head(inbox[p]).type = "TOKEN" THEN "S" ELSE "R"]
          /\ duty' = [duty EXCEPT ![p] = IF Head(inbox[p]).type = "REQUEST_AMIGA_FILE"
                                         THEN "asked" ELSE @]
          BY <1>10 DEF LP!Listen, LP!ReceiveMessage, LP!IsToken, LP!IsRequest
    <2>5. /\ state' = [state EXCEPT ![p] =
                          IF Head(ErasedInbox[p]).type = "TOKEN" THEN "S" ELSE "R"]
          /\ duty' = [duty EXCEPT ![p] =
                          IF Head(ErasedInbox[p]).type = "REQUEST_AMIGA_FILE" THEN "asked" ELSE @]
          BY <2>3, <2>4
    <2>6. Plain!Listen(p)
          BY <2>2, <2>4, <2>5
          DEF Plain!Listen, Plain!ReceiveMessage, Plain!IsToken, Plain!IsRequest, ErasedInbox,
              ErasedWord
    <2> QED BY <1>2, <2>6
  <1>11. CASE p = "core" /\ LP!BeginReceive(p)
         BY <1>2, <1>8, <1>11 DEF LP!BeginReceive, Plain!BeginReceive, ErasedInbox, ErasedWord
  <1>12. CASE LP!Ask(p)
    <2>1. PICK m \in Message : m.type = "REQUEST_AMIGA_FILE" /\ LP!RequestFile(p, m)
          BY <1>4, <1>12 DEF LP!Ask, LP!IsRequest
    <2>2. Plain!Deliver(p, Erased(m)) BY <1>6, <2>1 DEF LP!RequestFile
    <2>3. Plain!RequestFile(p, Erased(m))
          BY <2>1, <2>2, <1>5 DEF LP!RequestFile, Plain!RequestFile
    <2>4. Plain!Ask(p)
          BY <1>12, <2>1, <2>3, ErasedFacts DEF LP!Ask, Plain!Ask, Plain!IsRequest
    <2> QED BY <1>2, <2>4
  <1>13. CASE LP!ReceivePiece(p)
    <2>1. inbox[p] # <<>> /\ inbox' = [inbox EXCEPT ![p] = Tail(@)]
          BY <1>13 DEF LP!ReceivePiece
    <2>2. /\ ErasedInbox[p] # <<>> /\ ErasedInbox' = [ErasedInbox EXCEPT ![p] = Tail(@)]
          /\ Head(ErasedInbox[p]) = Erased(Head(inbox[p])) /\ Head(inbox[p]) \in Message
          BY <1>7, <2>1
    <2>3. Plain!IsLastPiece(Head(ErasedInbox[p])) <=> LP!IsLastPiece(Head(inbox[p]))
          BY <2>2, ErasedFacts
          DEF LP!IsLastPiece, Plain!IsLastPiece, LP!FileType, Plain!FileType, FileTypes
    <2>4. /\ duty[p] = "awaiting" /\ UNCHANGED open
          /\ IF Plain!IsLastPiece(Head(ErasedInbox[p]))
             THEN /\ state' = [state EXCEPT ![p] = "S"]
                  /\ duty' = [duty EXCEPT ![p] = "none"]
             ELSE UNCHANGED <<state, duty>>
          BY <1>13, <2>3 DEF LP!ReceivePiece
    <2>5. Plain!ReceivePiece(p)
          BY <2>2, <2>4 DEF Plain!ReceivePiece, ErasedInbox, ErasedWord
    <2> QED BY <1>2, <2>5
  <1>14. CASE LP!BeginReply(p)
         BY <1>2, <1>8, <1>14 DEF LP!BeginReply, Plain!BeginReply, ErasedInbox, ErasedWord
  <1>15. CASE LP!Answer(p)
    <2>1. PICK m \in Message : m.type \in FileTypes /\ LP!SendPiece(p, m)
          BY <1>4, <1>15 DEF LP!Answer, LP!FileType, FileTypes
    <2>2. Plain!Deliver(p, Erased(m)) BY <1>6, <2>1 DEF LP!SendPiece
    <2>3. Plain!SendPiece(p, Erased(m))
          BY <2>1, <2>2, <1>5, ErasedFacts DEF LP!SendPiece, Plain!SendPiece
    <2>4. Plain!Answer(p)
          BY <2>1, <2>3, ErasedFacts DEF Plain!Answer, Plain!FileType, FileTypes
    <2> QED BY <1>2, <2>4
  <1>16. CASE LP!Close(p)
    <2>1. open' = open \ {p} /\ inbox' = [inbox EXCEPT ![p] = <<>>] /\ UNCHANGED <<state, duty>>
          BY <1>16 DEF LP!Close
    <2>2. ErasedWord(<<>>) = <<>> BY ErasedWordFacts, EmptySeq
    <2>3. ErasedInbox' = [ErasedInbox EXCEPT ![p] = <<>>]
          BY <1>4, <2>1, <2>2 DEF ErasedInbox
    <2>4. Plain!Close(p) BY <2>1, <2>3 DEF Plain!Close, ErasedInbox, ErasedWord
    <2> QED BY <1>2, <2>4
  <1> QED BY <1>1, <1>9, <1>10, <1>11, <1>12, <1>13, <1>14, <1>15, <1>16 DEF LP!PeerNext

(* libuade and uadecore use the link only as uadeipc.c allows it: whatever     *)
(* they do in a session is a behaviour of IpcLink.                            *)
THEOREM LinkSpecHolds == Spec => LinkSpec
  <1>1. Init => Plain!Init
    <2> SUFFICES ASSUME Init PROVE Plain!Init OBVIOUS
    <2>1. ErasedWord(<<>>) = <<>> BY ErasedWordFacts, EmptySeq
    <2>2. /\ state = [p \in {"client", "core"} |-> "INITIAL"]
          /\ inbox = [p \in {"client", "core"} |-> <<>>]
          /\ duty = [p \in {"client", "core"} |-> "none"] /\ open = {"client", "core"}
          BY DEF Init, Link!Init, Link!Peer
    <2>3. ErasedInbox = [p \in {"client", "core"} |-> <<>>] BY <2>1, <2>2 DEF ErasedInbox
    <2> QED BY <2>2, <2>3 DEF Plain!Init, Plain!Peer, ErasedInbox, ErasedWord
  <1>2. Control /\ [Next]_vars => [Plain!Next]_(Plain!vars)
    <2> SUFFICES ASSUME Control, [Next]_vars PROVE [Plain!Next]_(Plain!vars) OBVIOUS
    <2>1. LinkStep /\ LinkTyped BY NextControl, CoreFacts
    <2>2. CASE LP!Next BY <2>1, <2>2, PlainStep
    <2>3. CASE UNCHANGED link BY <2>3 DEF link, Plain!vars
    <2> QED BY <2>1, <2>2, <2>3 DEF LinkStep
  <1> QED BY <1>1, <1>2, ControlHolds, PTL DEF Spec, LinkSpec, Plain!Spec
------------------------------------------------------------------------------
(* The conversation *)

(* What each side will hear, and what one step does to it. *)
LEMMA Heard ==
  ASSUME Control
  PROVE  /\ CoreHears \in Seq(Message) /\ ClientHears \in Seq(Message)
         /\ inbox["core"] \in Seq(Message) /\ inbox["client"] \in Seq(Message)
         /\ sending \in Seq(Message) /\ out \in Seq(Message)
         /\ Len(CoreHears) \in Nat /\ Len(ClientHears) \in Nat
         /\ Len(sending) \in Nat /\ Len(out) \in Nat
         /\ Len(inbox["core"]) \in Nat /\ Len(inbox["client"]) \in Nat
         /\ Len(CoreHears) = Len(inbox["core"]) + Len(sending)
         /\ Len(ClientHears) = Len(inbox["client"]) + Len(out)
         /\ CoreHears = <<>> <=> inbox["core"] = <<>> /\ sending = <<>>
         /\ ClientHears = <<>> <=> inbox["client"] = <<>> /\ out = <<>>
         /\ sending = <<>> => CoreHears = inbox["core"]
         /\ out = <<>> => ClientHears = inbox["client"]
  <1>1. /\ inbox["core"] \in Seq(Message) /\ inbox["client"] \in Seq(Message)
        /\ sending \in Seq(Message) /\ out \in Seq(Message)
        BY DEF Control, Typed, Peers
  <1>2. /\ CoreHears \in Seq(Message) /\ Len(CoreHears) = Len(inbox["core"]) + Len(sending)
        BY <1>1, JoinWord DEF CoreHears
  <1>3. /\ ClientHears \in Seq(Message) /\ Len(ClientHears) = Len(inbox["client"]) + Len(out)
        BY <1>1, JoinWord DEF ClientHears
  <1>4. /\ Len(CoreHears) \in Nat /\ Len(ClientHears) \in Nat
        /\ Len(sending) \in Nat /\ Len(out) \in Nat
        /\ Len(inbox["core"]) \in Nat /\ Len(inbox["client"]) \in Nat
        BY <1>1, <1>2, <1>3, LenProperties
  <1>5. CoreHears = <<>> <=> inbox["core"] = <<>> /\ sending = <<>>
        BY <1>1, <1>2, <1>4, EmptySeq
  <1>6. ClientHears = <<>> <=> inbox["client"] = <<>> /\ out = <<>>
        BY <1>1, <1>3, <1>4, EmptySeq
  <1>7. sending = <<>> => CoreHears = inbox["core"]
        BY <1>1, ConcatEmptySeq DEF CoreHears
  <1>8. out = <<>> => ClientHears = inbox["client"]
        BY <1>1, ConcatEmptySeq DEF ClientHears
  <1> QED BY <1>1, <1>2, <1>3, <1>4, <1>5, <1>6, <1>7, <1>8

(* The client says what it was about to say. *)
LEMMA ClientSays ==
  ASSUME Control, Control', sending # <<>>, UNCHANGED out,
         inbox'["core"] = Append(inbox["core"], Head(sending)), sending' = Tail(sending),
         inbox'["client"] = inbox["client"]
  PROVE  CoreHears' = CoreHears /\ ClientHears' = ClientHears
  <1>1. inbox["core"] \in Seq(Message) /\ sending \in Seq(Message) BY Heard
  <1> QED BY <1>1, SendWord DEF CoreHears, ClientHears

LEMMA CoreSays ==
  ASSUME Control, Control', out # <<>>, UNCHANGED sending,
         inbox'["client"] = Append(inbox["client"], Head(out)), out' = Tail(out),
         inbox'["core"] = inbox["core"]
  PROVE  CoreHears' = CoreHears /\ ClientHears' = ClientHears
  <1>1. inbox["client"] \in Seq(Message) /\ out \in Seq(Message) BY Heard
  <1> QED BY <1>1, SendWord DEF CoreHears, ClientHears

(* It thinks of something new to say, having said everything else. *)
LEMMA ClientThinks ==
  ASSUME Control, Control', UNCHANGED <<link, out>>, sending = <<>>
  PROVE  CoreHears' = CoreHears \o sending' /\ ClientHears' = ClientHears
  <1>1. CoreHears = inbox["core"] BY Heard
  <1> QED BY <1>1 DEF CoreHears, ClientHears, link

LEMMA CoreThinks ==
  ASSUME Control, Control', UNCHANGED <<link, sending>>, out = <<>>
  PROVE  ClientHears' = ClientHears \o out' /\ CoreHears' = CoreHears
  <1>1. ClientHears = inbox["client"] BY Heard
  <1> QED BY <1>1 DEF CoreHears, ClientHears, link

(* It hears a message, and may then think of something to say. *)
LEMMA ClientListens ==
  ASSUME Control, Control', UNCHANGED out, sending = <<>>, inbox["client"] # <<>>,
         inbox'["client"] = Tail(inbox["client"]), inbox'["core"] = inbox["core"]
  PROVE  /\ CoreHears' = CoreHears \o sending'
         /\ ClientHears' = Tail(ClientHears) /\ ClientHears # <<>>
         /\ NewMessage = Head(ClientHears) /\ NewMessage = ClientHears[1]
  <1>1. /\ inbox["client"] \in Seq(Message) /\ out \in Seq(Message)
        /\ CoreHears = inbox["core"] /\ ClientHears \in Seq(Message)
        BY Heard
  <1>2. /\ Tail(inbox["client"]) \o out = Tail(ClientHears)
        /\ Head(inbox["client"]) = ClientHears[1] /\ ClientHears # <<>>
        BY <1>1, ReceiveWord DEF ClientHears
  <1>3. Head(ClientHears) = ClientHears[1] BY DEF Head
  <1> QED BY <1>1, <1>2, <1>3 DEF CoreHears, ClientHears, NewMessage

LEMMA CoreListens ==
  ASSUME Control, Control', UNCHANGED sending, out = <<>>, inbox["core"] # <<>>,
         inbox'["core"] = Tail(inbox["core"]), inbox'["client"] = inbox["client"]
  PROVE  /\ ClientHears' = ClientHears \o out'
         /\ CoreHears' = Tail(CoreHears) /\ CoreHears # <<>>
         /\ Next_message = Head(CoreHears) /\ Next_message = CoreHears[1]
  <1>1. /\ inbox["core"] \in Seq(Message) /\ sending \in Seq(Message)
        /\ ClientHears = inbox["client"] /\ CoreHears \in Seq(Message)
        BY Heard
  <1>2. /\ Tail(inbox["core"]) \o sending = Tail(CoreHears)
        /\ Head(inbox["core"]) = CoreHears[1] /\ CoreHears # <<>>
        BY <1>1, ReceiveWord DEF CoreHears
  <1>3. Head(CoreHears) = CoreHears[1] BY DEF Head
  <1> QED BY <1>1, <1>2, <1>3 DEF CoreHears, ClientHears, Next_message

LEMMA ShortWord ==
  ASSUME NEW x, NEW y, NEW types, x.type \in types, y.type \in types
  PROVE  AllIn(<<x>>, types) /\ AllIn(<<x, y>>, types)
  BY DEF AllIn

LEMMA WithoutWord ==
  ASSUME NEW q \in Seq(Message)
  PROVE  /\ q \o <<>> = q /\ <<>> \o q = q
         /\ q = <<>> <=> Len(q) = 0
         /\ Len(q) \in Nat
  BY ConcatEmptySeq, EmptySeq, LenProperties
------------------------------------------------------------------------------
(* Where the two may stand in each part of the conversation. *)
Exchange == Ordered \/ Running \/ Asking \/ Delivering \/ Turning

LoadLength(module) == IF module THEN 7 ELSE 6

LEMMA LoadTable ==
  ASSUME NEW module \in BOOLEAN
  PROVE  /\ LoadLength(module) \in 6 .. 7 /\ LoadLength(module) = Len(LoadTypes(module))
         /\ LoadTypes(module)[1] = "CONFIG" /\ LoadTypes(module)[2] = "SCORE"
         /\ LoadTypes(module)[3] = "FILE" /\ LoadTypes(module)[4] = "FILE_DATA"
         /\ LoadTypes(module)[5] = "FILE"
         /\ LoadPlaces(module)[1] = {"option"} /\ LoadPlaces(module)[2] = {"reset", "score"}
         /\ LoadPlaces(module)[3] = {"player"} /\ LoadPlaces(module)[4] = {"playerdata"}
         /\ LoadPlaces(module)[5] = {"module"}
         /\ module =>
              /\ LoadLength(module) = 7
              /\ LoadTypes(module)[6] = "FILE_DATA" /\ LoadTypes(module)[7] = "TOKEN"
              /\ LoadPlaces(module)[6] = {"moduledata"} /\ LoadPlaces(module)[7] = {"token"}
         /\ ~module =>
              /\ LoadLength(module) = 6
              /\ LoadTypes(module)[6] = "TOKEN" /\ LoadPlaces(module)[6] = {"token"}
  BY DEF LoadTypes, LoadPlaces, LoadLength

(* The song is sent, and all but the first n messages of it have still to be *)
(* heard.                                                                     *)
LoadingAt(module, n) ==
  /\ n \in 0 .. LoadLength(module) - 1
  /\ pc \in {"init", "answer"} /\ ClientHears = <<>> /\ read_size = 0
  /\ at \in LoadPlaces(module)[n + 1]
  /\ Len(CoreHears) = LoadLength(module) - n
  /\ \A i \in 1 .. Len(CoreHears) :
       /\ CoreHears[i].type = LoadTypes(module)[n + i]
       /\ CoreHears[i].type = "FILE" => (CoreHears[i].last <=> n + i = 5 /\ ~module)

LEMMA LoadingFacts ==
  /\ Loading <=> \E module \in BOOLEAN : \E n \in 0 .. 6 : LoadingAt(module, n)
  /\ \A module \in BOOLEAN : \A n \in 0 .. 6 : LoadingAt(module, n) =>
       /\ at = "option" <=> n = 0
       /\ at \in {"reset", "score"} <=> n = 1
       /\ at = "player" <=> n = 2
       /\ at = "playerdata" <=> n = 3
       /\ at = "module" <=> n = 4
       /\ at = "moduledata" <=> n = 5 /\ module
       /\ at = "token" <=> n = (IF module THEN 6 ELSE 5)
       /\ at \in {"option", "reset", "score", "player", "playerdata", "module", "moduledata",
                  "token"}
  <1> DEFINE Rest(module, n) ==
        /\ at \in LoadPlaces(module)[n + 1]
        /\ Len(CoreHears) = Len(LoadTypes(module)) - n
        /\ \A i \in 1 .. Len(CoreHears) :
             /\ CoreHears[i].type = LoadTypes(module)[n + i]
             /\ CoreHears[i].type = "FILE" => (CoreHears[i].last <=> n + i = 5 /\ ~module)
  <1>1. ASSUME Loading PROVE \E module \in BOOLEAN : \E n \in 0 .. 6 : LoadingAt(module, n)
    <2>0. PICK module \in BOOLEAN :
            \E n \in 0 .. Len(LoadTypes(module)) - 1 : Rest(module, n)
          BY <1>1 DEF Loading
    <2>6. Len(LoadTypes(module)) = LoadLength(module) BY LoadTable
    <2>1. \E n \in 0 .. LoadLength(module) - 1 : LoadingAt(module, n)
          BY <1>1, <2>0, <2>6 DEF Loading, LoadingAt
    <2>2. PICK n \in 0 .. LoadLength(module) - 1 : LoadingAt(module, n)
          BY <2>1
    <2>3. LoadLength(module) \in 6 .. 7 BY LoadTable
    <2>4. n \in 0 .. 6 BY <2>2, <2>3
    <2> QED BY <2>2, <2>4
  <1>2. ASSUME NEW module \in BOOLEAN, NEW n \in 0 .. 6, LoadingAt(module, n) PROVE Loading
    <2>1. Len(LoadTypes(module)) = LoadLength(module) BY LoadTable
    <2>2. n \in 0 .. Len(LoadTypes(module)) - 1 /\ Rest(module, n)
          BY <1>2, <2>1 DEF LoadingAt
    <2>3. pc \in {"init", "answer"} /\ ClientHears = <<>> /\ read_size = 0
          BY <1>2 DEF LoadingAt
    <2>4. \E k \in 0 .. Len(LoadTypes(module)) - 1 : Rest(module, k) BY <2>2
    <2> QED BY <2>3, <2>4 DEF Loading
  <1>3. ASSUME NEW module \in BOOLEAN, NEW n \in 0 .. 6, LoadingAt(module, n)
        PROVE  /\ at = "option" <=> n = 0
               /\ at \in {"reset", "score"} <=> n = 1
               /\ at = "player" <=> n = 2
               /\ at = "playerdata" <=> n = 3
               /\ at = "module" <=> n = 4
               /\ at = "moduledata" <=> n = 5 /\ module
               /\ at = "token" <=> n = (IF module THEN 6 ELSE 5)
               /\ at \in {"option", "reset", "score", "player", "playerdata", "module",
                          "moduledata", "token"}
    <2>1. n \in 0 .. LoadLength(module) - 1 /\ at \in LoadPlaces(module)[n + 1]
          BY <1>3 DEF LoadingAt
    <2>2. CASE n = 0 BY <2>1, <2>2, LoadTable
    <2>3. CASE n = 1 BY <2>1, <2>3, LoadTable
    <2>4. CASE n = 2 BY <2>1, <2>4, LoadTable
    <2>5. CASE n = 3 BY <2>1, <2>5, LoadTable
    <2>6. CASE n = 4 BY <2>1, <2>6, LoadTable
    <2>7. CASE n = 5 BY <2>1, <2>7, LoadTable
    <2>8. CASE n = 6 BY <2>1, <2>8, LoadTable DEF LoadLength
    <2> QED BY <2>2, <2>3, <2>4, <2>5, <2>6, <2>7, <2>8
  <1> QED BY <1>1, <1>2, <1>3

LEMMA LoadingAfter ==
  (\E module \in BOOLEAN : \E n \in 0 .. 6 : LoadingAt(module, n))' => Loading'
  <1>1. (\E module \in BOOLEAN : \E n \in 0 .. 6 : LoadingAt(module, n)) => Loading
        BY LoadingFacts
  <1> QED BY <1>1, PTL

(* Which parts of it a place allows. *)
LEMMA Places ==
  ASSUME Control
  PROVE  /\ Quiet => /\ pc \in {"new", "idle", "fatal", "close"} /\ phase = "INVALID"
                     /\ at \in {"option", "reset", "score"} /\ ClientHears = <<>>
                     /\ at # "option" => CoreHears = <<>>
         /\ Loading => /\ pc \in {"init", "answer"} /\ ClientHears = <<>>
                       /\ at \in {"option", "reset", "score", "player", "playerdata", "module",
                                 "moduledata", "token"}
                       /\ CoreHears # <<>>
         /\ Answering => /\ pc \in {"init", "answer", "canplay", "cantplay"}
                         /\ at \in {"begin", "rstate", "reset", "score"} /\ CoreHears = <<>>
                         /\ ClientHears # <<>>
         /\ Opening => /\ pc = "options" \/ (pc = "event" /\ phase = "INITIALIZED")
                       /\ at \in {"begin", "rstate"} /\ ClientHears = <<>>
         /\ Exchange \/ LookingUp => read_size \in Nat /\ at \notin {"option", "reset", "score"}
         /\ Ordered => Listening /\ at \in {"begin", "rstate"} /\ ClientHears = <<>>
                       /\ CoreHears # <<>>
         /\ Running => Listening /\ at = "run" /\ CoreHears = <<>>
         /\ Asking => Listening /\ at = "file" /\ CoreHears = <<>> /\ ClientHears # <<>>
         /\ LookingUp => pc = "asked" /\ at = "file" /\ CoreHears = <<>> /\ ClientHears = <<>>
         /\ Delivering => /\ Listening \/ (pc = "reply" /\ back # "settle")
                          /\ at \in {"file", "filedata"} /\ ClientHears = <<>>
                          /\ CoreHears # <<>>
         /\ Turning => Listening /\ at = "rstate" /\ CoreHears = <<>> /\ ClientHears # <<>>
         /\ Drained => /\ pc = "drain" /\ state["client"] = "S" /\ at = "rstate"
                       /\ CoreHears = <<>> /\ ClientHears = <<>>
         /\ Rebooting => /\ pc \in {"reboot", "settle"} /\ at = "rstate" /\ ClientHears = <<>>
                         /\ CoreHears # <<>>
                         /\ pc = "settle" => state["client"] = "R"
         /\ Rebooted => /\ pc \in {"reboot", "settle"} /\ at \in {"reset", "score"}
                        /\ CoreHears = <<>>
         /\ Listening => /\ pc \in {"idle", "event", "request", "receive", "drain"}
                         /\ phase # "INVALID" /\ ~(pc = "event" /\ phase = "INITIALIZED")
                         /\ pc = "drain" => state["client"] = "R"
  <1>1. read_size \in Nat BY DEF Control, Typed
  <1>2. Loading => /\ pc \in {"init", "answer"} /\ ClientHears = <<>>
                   /\ at \in {"option", "reset", "score", "player", "playerdata", "module",
                             "moduledata", "token"}
                   /\ CoreHears # <<>>
    <2> SUFFICES ASSUME Loading
                 PROVE  /\ pc \in {"init", "answer"} /\ ClientHears = <<>>
                        /\ at \in {"option", "reset", "score", "player", "playerdata", "module",
                                  "moduledata", "token"}
                        /\ CoreHears # <<>>
        OBVIOUS
    <2>1. PICK module \in BOOLEAN, n \in 0 .. 6 : LoadingAt(module, n) BY LoadingFacts
    <2>2. Len(CoreHears) # 0
      <3>1. /\ n \in 0 .. LoadLength(module) - 1
            /\ Len(CoreHears) = LoadLength(module) - n
            BY <2>1 DEF LoadingAt
      <3>2. LoadLength(module) \in 6 .. 7 BY LoadTable
      <3> QED BY <3>1, <3>2
    <2>3. CoreHears # <<>> BY <2>2, Heard, WithoutWord
    <2> QED BY <2>1, <2>3, LoadingFacts DEF LoadingAt
  <1>3. ASSUME NEW w, EndsWith(w, "TOKEN") \/ EndsWith(w, "REQUEST_AMIGA_FILE")
        PROVE  w # <<>>
        BY <1>3 DEF EndsWith
  <1>4. Quiet => /\ pc \in {"new", "idle", "fatal", "close"} /\ phase = "INVALID"
                 /\ at \in {"option", "reset", "score"} /\ ClientHears = <<>>
                 /\ at # "option" => CoreHears = <<>>
        BY DEF Quiet
  <1>5. Answering => /\ pc \in {"init", "answer", "canplay", "cantplay"}
                     /\ at \in {"begin", "rstate", "reset", "score"} /\ CoreHears = <<>>
                     /\ ClientHears # <<>>
        BY <1>3 DEF Answering
  <1>6. Opening => /\ pc = "options" \/ (pc = "event" /\ phase = "INITIALIZED")
                   /\ at \in {"begin", "rstate"} /\ ClientHears = <<>>
        BY DEF Opening
  <1>7. Ordered => /\ Listening /\ at \in {"begin", "rstate"} /\ ClientHears = <<>>
                   /\ CoreHears # <<>>
        BY DEF Ordered
  <1>8. Running => Listening /\ at = "run" /\ CoreHears = <<>>
        BY DEF Running
  <1>9. Asking => Listening /\ at = "file" /\ CoreHears = <<>> /\ ClientHears # <<>>
        BY <1>3 DEF Asking
  <1>10. LookingUp => pc = "asked" /\ at = "file" /\ CoreHears = <<>> /\ ClientHears = <<>>
        BY DEF LookingUp
  <1>11. Delivering => /\ Listening \/ (pc = "reply" /\ back # "settle")
                       /\ at \in {"file", "filedata"} /\ ClientHears = <<>>
                       /\ CoreHears # <<>>
        BY Heard, WithoutWord DEF Delivering
  <1>12. Turning => Listening /\ at = "rstate" /\ CoreHears = <<>> /\ ClientHears # <<>>
        BY <1>3 DEF Turning
  <1>13. Drained => /\ pc = "drain" /\ state["client"] = "S" /\ at = "rstate"
                    /\ CoreHears = <<>> /\ ClientHears = <<>>
        BY DEF Drained
  <1>14. Rebooting => /\ pc \in {"reboot", "settle"} /\ at = "rstate" /\ ClientHears = <<>>
                      /\ CoreHears # <<>>
                      /\ pc = "settle" => state["client"] = "R"
        BY <1>3 DEF Rebooting
  <1>15. Rebooted => /\ pc \in {"reboot", "settle"} /\ at \in {"reset", "score"}
                     /\ CoreHears = <<>>
        BY DEF Rebooted
  <1>16. Listening => /\ pc \in {"idle", "event", "request", "receive", "drain"}
                      /\ phase # "INVALID" /\ ~(pc = "event" /\ phase = "INITIALIZED")
                      /\ pc = "drain" => state["client"] = "R"
        BY DEF Listening
  <1> QED BY <1>1, <1>2, <1>4, <1>5, <1>6, <1>7, <1>8, <1>9, <1>10, <1>11, <1>12, <1>13, <1>14,
             <1>15, <1>16 DEF Exchange

(* And which a place of libuade leaves. *)
LEMMA TalkOfClient ==
  ASSUME Control, Talk, BothOpen
  PROVE  /\ pc = "new" => Quiet
         /\ pc \in {"init", "answer"} => Loading \/ Answering
         /\ pc \in {"canplay", "cantplay"} => Answering
         /\ pc = "options" => Opening
         /\ pc = "event" /\ phase = "INITIALIZED" => Opening
         /\ pc \in {"idle", "event", "request", "receive"} /\ phase # "INVALID"
              /\ ~(pc = "event" /\ phase = "INITIALIZED") => Exchange
         /\ pc = "idle" /\ phase = "INVALID" => Quiet
         /\ pc = "asked" => LookingUp
         /\ pc = "reply" => Delivering
         /\ pc = "drain" => IF state["client"] = "S" THEN Drained ELSE Exchange
         /\ pc = "reboot" => Rebooting \/ Rebooted
         /\ pc = "settle" => Rebooting \/ Rebooted
         /\ pc \in {"fatal", "close"} => Quiet
         /\ pc # "filter"
  BY Places DEF Talk, Exchange

(* And a place of uadecore. *)
LEMMA TalkOfCore ==
  ASSUME Control, Talk, BothOpen
  PROVE  /\ at = "option" => Quiet \/ Loading
         /\ at \in {"reset", "score"} => Quiet \/ Loading \/ Answering \/ Rebooted
         /\ at \in {"player", "playerdata", "module", "moduledata", "token"} => Loading
         /\ at = "begin" => Answering \/ Opening \/ Ordered
         /\ at = "rstate" => Answering \/ Opening \/ Ordered \/ Turning \/ Drained \/ Rebooting
         /\ at = "run" => Running
         /\ at = "file" => Asking \/ LookingUp \/ Delivering
         /\ at = "filedata" => Delivering
  BY Places DEF Talk, Exchange
------------------------------------------------------------------------------
(* Steps that leave the conversation where it is. *)
LEMMA TalkKept ==
  ASSUME Control, Talk, BothOpen,
         UNCHANGED <<pc, phase, back, song, at, read_size, reboot>>,
         CoreHears' = CoreHears, ClientHears' = ClientHears,
         \/ state'["client"] = state["client"]
         \/ pc \notin {"drain", "settle"} /\ ~Rebooted
  PROVE  Talk'
  <1>1. Quiet => Quiet' BY DEF Quiet
  <1>2. Loading => Loading'
    <2>1. ASSUME NEW module \in BOOLEAN, NEW n \in 0 .. 6, LoadingAt(module, n)
          PROVE  LoadingAt(module, n)'
          BY <2>1 DEF LoadingAt
    <2> QED BY <2>1, LoadingFacts, LoadingAfter
  <1>3. Answering => Answering' BY DEF Answering
  <1>4. Opening => Opening' BY DEF Opening
  <1>5. Listening => Listening' BY DEF Listening
  <1>6. Ordered => Ordered' BY <1>5 DEF Ordered
  <1>7. Running => Running' BY <1>5 DEF Running
  <1>8. Asking => Asking' BY <1>5 DEF Asking
  <1>9. LookingUp => LookingUp' BY DEF LookingUp
  <1>10. Delivering => Delivering' BY <1>5 DEF Delivering
  <1>11. Turning => Turning' BY <1>5 DEF Turning
  <1>12. Drained => Drained' BY DEF Drained
  <1>13. Rebooting => Rebooting' BY DEF Rebooting
  <1>14. Rebooted => Rebooted' BY DEF Rebooted
  <1> QED BY <1>1, <1>2, <1>3, <1>4, <1>6, <1>7, <1>8, <1>9, <1>10, <1>11, <1>12, <1>13, <1>14
          DEF Talk

(* libuade goes on, but listens all the same. *)
LEMMA ExchangeKept ==
  ASSUME Exchange, Listening', UNCHANGED <<at, read_size, reboot>>,
         CoreHears' = CoreHears, ClientHears' = ClientHears
  PROVE  Exchange'
  <1>1. Ordered => Ordered' BY DEF Ordered
  <1>2. Running => Running' BY DEF Running
  <1>3. Asking => Asking' BY DEF Asking
  <1>4. Delivering => Delivering' BY DEF Delivering
  <1>5. Turning => Turning' BY DEF Turning
  <1> QED BY <1>1, <1>2, <1>3, <1>4, <1>5 DEF Exchange

(* It hears some news. *)
LEMMA ExchangeHeard ==
  ASSUME Control, Exchange, ClientHears # <<>>, ClientHears' = Tail(ClientHears),
         UNCHANGED <<at, read_size, reboot>>
  PROVE  LET m == Head(ClientHears) IN
         /\ m.type \in News \cup {"TOKEN", "REQUEST_AMIGA_FILE"}
         /\ m.type = "TOKEN" => Turning /\ ClientHears' = <<>>
         /\ m.type = "REQUEST_AMIGA_FILE" => Asking /\ ClientHears' = <<>>
         /\ m.type \in News /\ Listening' /\ CoreHears' = CoreHears => Exchange'
  <1> DEFINE m == Head(ClientHears)
  <1>1. ClientHears \in Seq(Message) BY Heard
  <1>2. Running \/ Asking \/ Turning BY Places DEF Exchange
  <1>3. /\ \A types : AllIn(ClientHears, types) => m.type \in types /\ AllIn(ClientHears', types)
        /\ \A type : EndsWith(ClientHears, type) =>
             /\ m.type = type <=> ClientHears' = <<>>
             /\ ClientHears' # <<>> => EndsWith(ClientHears', type)
        BY <1>1, TailWord
  <1> HIDE DEF m
  <1>4. CASE Running
    <2>1. AllIn(ClientHears, News \ {"DATA"}) BY <1>4 DEF Running
    <2>2. m.type \in News \ {"DATA"} /\ AllIn(ClientHears', News \ {"DATA"}) BY <2>1, <1>3
    <2>3. Listening' /\ CoreHears' = CoreHears => Running' BY <1>4, <2>2 DEF Running
    <2> QED BY <2>2, <2>3 DEF News, Exchange, m
  <1>5. CASE Asking
    <2>1. /\ AllIn(ClientHears, (News \ {"DATA"}) \cup {"REQUEST_AMIGA_FILE"})
          /\ EndsWith(ClientHears, "REQUEST_AMIGA_FILE")
          BY <1>5 DEF Asking
    <2>2. /\ m.type \in (News \ {"DATA"}) \cup {"REQUEST_AMIGA_FILE"}
          /\ AllIn(ClientHears', (News \ {"DATA"}) \cup {"REQUEST_AMIGA_FILE"})
          /\ m.type = "REQUEST_AMIGA_FILE" <=> ClientHears' = <<>>
          /\ ClientHears' # <<>> => EndsWith(ClientHears', "REQUEST_AMIGA_FILE")
          BY <2>1, <1>3
    <2>3. Listening' /\ ClientHears' # <<>> /\ CoreHears' = CoreHears => Asking' BY <1>5, <2>2 DEF Asking
    <2> QED BY <1>5, <2>2, <2>3 DEF News, Exchange, m
  <1>6. CASE Turning
    <2>1. /\ AllIn(ClientHears, News \cup {"TOKEN"}) /\ EndsWith(ClientHears, "TOKEN")
          BY <1>6 DEF Turning
    <2>2. /\ m.type \in News \cup {"TOKEN"}
          /\ AllIn(ClientHears', News \cup {"TOKEN"})
          /\ m.type = "TOKEN" <=> ClientHears' = <<>>
          /\ ClientHears' # <<>> => EndsWith(ClientHears', "TOKEN")
          BY <2>1, <1>3
    <2>3. Listening' /\ ClientHears' # <<>> /\ CoreHears' = CoreHears => Turning' BY <1>6, <2>2 DEF Turning
    <2> QED BY <1>6, <2>2, <2>3 DEF News, Exchange, m
  <1> QED BY <1>2, <1>4, <1>5, <1>6

(* Orders followed by a read request and the turn. *)
OrderedWord(w) ==
  /\ w # <<>>
  /\ \A i \in 1 .. Len(w) :
       w[i].type \in (IF i = Len(w) THEN {"TOKEN"}
                     ELSE IF i = Len(w) - 1 THEN {"READ"} ELSE Orders)

LEMMA OrdersThenRead ==
  ASSUME NEW w \in Seq(Message), AllIn(w, Orders), song \in 0 .. MaxSongs
  PROVE  /\ OrderedWord(w \o ReadRequest) /\ Len(w \o ReadRequest) > 1
         /\ w \o ReadRequest \in Seq(Message)
  <1>1. PICK r, t \in Message : ReadRequest = <<r, t>> /\ r.type = "READ" /\ t.type = "TOKEN"
        BY CommandWords
  <1> DEFINE v == <<r, t>>
             u == w \o v
  <1>2. v \in Seq(Message) /\ Len(v) = 2 /\ v[1] = r /\ v[2] = t BY PairWord
  <1>3. Len(w) \in Nat BY LenProperties
  <1> HIDE DEF v
  <1>4. /\ u \in Seq(Message) /\ Len(u) = Len(w) + 2
        /\ \A i \in 1 .. Len(w) + 2 : u[i] = IF i <= Len(w) THEN w[i] ELSE v[i - Len(w)]
    <2>1. /\ u \in Seq(Message) /\ Len(u) = Len(w) + Len(v)
          /\ \A i \in 1 .. Len(w) + Len(v) : u[i] = IF i <= Len(w) THEN w[i] ELSE v[i - Len(w)]
          BY <1>2, ConcatProperties
    <2> HIDE DEF u
    <2> QED BY <2>1, <1>2
  <1> HIDE DEF u
  <1>5. u # <<>> BY <1>3, <1>4, EmptySeq
  <1>6. ASSUME NEW i \in 1 .. Len(u)
        PROVE  u[i].type \in (IF i = Len(u) THEN {"TOKEN"}
                             ELSE IF i = Len(u) - 1 THEN {"READ"} ELSE Orders)
    <2>1. CASE i = Len(u)
      <3>1. u[i] = v[2] BY <2>1, <1>3, <1>4
      <3> QED BY <3>1, <2>1, <1>1, <1>2
    <2>2. CASE i = Len(u) - 1
      <3>1. u[i] = v[1] BY <2>2, <1>3, <1>4
      <3> QED BY <3>1, <2>2, <1>1, <1>2, <1>3, <1>4
    <2>3. CASE i # Len(u) /\ i # Len(u) - 1
      <3>1. i \in 1 .. Len(w) /\ u[i] = w[i] BY <2>3, <1>3, <1>4
      <3> QED BY <3>1, <2>3 DEF AllIn
    <2> QED BY <2>1, <2>2, <2>3
  <1>7. OrderedWord(u) BY <1>5, <1>6 DEF OrderedWord
  <1> QED BY <1>1, <1>3, <1>4, <1>7 DEF u, v

LEMMA OrderedTail ==
  ASSUME NEW w \in Seq(Message), OrderedWord(w)
  PROVE  /\ Len(w) \in Nat \ {0}
         /\ w[1].type \in Orders \cup {"READ", "TOKEN"}
         /\ w[1].type = "TOKEN" <=> Len(w) = 1
         /\ w[1].type = "READ" <=> Len(w) = 2
         /\ w[1].type \in Orders <=> Len(w) > 2
         /\ Len(w) > 1 => OrderedWord(Tail(w)) /\ Len(Tail(w)) = Len(w) - 1
         /\ Len(w) = 1 => Tail(w) = <<>>
  <1>1. w # <<>> BY DEF OrderedWord
  <1>2. /\ Tail(w) \in Seq(Message) /\ Len(w) \in Nat \ {0} /\ Len(Tail(w)) = Len(w) - 1
        /\ \A i \in 1 .. Len(Tail(w)) : Tail(w)[i] = w[i + 1]
        /\ Tail(w) = <<>> <=> Len(w) = 1
        BY <1>1, TailWord
  <1>3. 1 \in 1 .. Len(w) BY <1>2
  <1>4. w[1].type \in (IF 1 = Len(w) THEN {"TOKEN"}
                       ELSE IF 1 = Len(w) - 1 THEN {"READ"} ELSE Orders)
        BY <1>3 DEF OrderedWord
  <1>5. /\ w[1].type \in Orders \cup {"READ", "TOKEN"}
        /\ w[1].type = "TOKEN" <=> Len(w) = 1
        /\ w[1].type = "READ" <=> Len(w) = 2
        /\ w[1].type \in Orders <=> Len(w) > 2
    <2>1. CASE Len(w) = 1 BY <2>1, <1>4 DEF Orders
    <2>2. CASE Len(w) = 2 BY <2>2, <1>4 DEF Orders
    <2>3. CASE Len(w) > 2 BY <2>3, <1>2, <1>4 DEF Orders
    <2> QED BY <2>1, <2>2, <2>3, <1>2
  <1>6. ASSUME Len(w) > 1 PROVE OrderedWord(Tail(w))
    <2>1. ASSUME NEW i \in 1 .. Len(Tail(w))
          PROVE  Tail(w)[i].type \in (IF i = Len(Tail(w)) THEN {"TOKEN"}
                             ELSE IF i = Len(Tail(w)) - 1 THEN {"READ"} ELSE Orders)
      <3>1. i + 1 \in 1 .. Len(w) /\ (i + 1 = Len(w) <=> i = Len(Tail(w)))
            /\ (i + 1 = Len(w) - 1 <=> i = Len(Tail(w)) - 1)
            BY <1>2
      <3>2. w[i + 1].type \in (IF i + 1 = Len(w) THEN {"TOKEN"}
                             ELSE IF i + 1 = Len(w) - 1 THEN {"READ"} ELSE Orders)
            BY <3>1 DEF OrderedWord
      <3> QED BY <3>1, <3>2, <1>2
    <2>2. Tail(w) # <<>> BY <1>2, <1>6
    <2> QED BY <2>1, <2>2 DEF OrderedWord
  <1> QED BY <1>2, <1>5, <1>6
------------------------------------------------------------------------------
(* The steps of libuade. *)
LEMMA ClientSendTalk ==
  ASSUME Control, Control', Talk, BothOpen, ClientSend, UNCHANGED core
  PROVE  Talk'
  <1> DEFINE m == Head(sending)
  <1>1. /\ sending # <<>> /\ sending \in Seq(Message) /\ m \in Message /\ LinkTyped
        BY TailWord, CoreFacts DEF ClientSend, Control, Typed
  <1>2. /\ pc \in {"new", "init", "options", "request", "reboot", "filter"}
        /\ duty["client"] = "none" /\ state["client"] \in {"INITIAL", "S"}
        BY DEF ClientSend, Control, ClientControl, SendingAt, StateAt, DutyAt, GivenUp, BothOpen
  <1>3. m.type # "REQUEST_AMIGA_FILE"
    <2>1. AllIn(sending, ToCore \cup FileTypes \cup {"TOKEN"}) \/ AllIn(sending, ToCore)
          BY <1>1, <1>2 DEF Control, ClientControl, SendingAt
    <2> QED BY <1>1, <2>1, TailWord DEF ToCore, FileTypes
  <1>4. CanWrite BY <1>2 DEF CanWrite, BothOpen, CoreOpen
  <1>5. /\ Link!SendMessage("client", m) /\ UNCHANGED duty /\ sending' = Tail(sending)
        /\ UNCHANGED <<pc, song, phase, back>>
        BY <1>2, <1>4 DEF ClientSend, songstate
  <1>6. /\ inbox'["client"] = inbox["client"]
        /\ inbox'["core"] = Append(inbox["core"], m)
        BY <1>1, <1>2, <1>3, <1>5, ClientSends DEF BothOpen
  <1>7. UNCHANGED <<at, out, read_size, reboot>> BY DEF core, control, sound
  <1>8. CoreHears' = CoreHears /\ ClientHears' = ClientHears
        BY <1>1, <1>5, <1>6, <1>7, ClientSays
  <1>9. ~Rebooted BY <1>1, Heard, Places
  <1> QED BY <1>2, <1>5, <1>7, <1>8, <1>9, TalkKept

(* A step of libuade alone that has nothing to say before or after. *)
LEMMA Alone ==
  ASSUME Control, Control', UNCHANGED <<link, core>>, sending = <<>>, sending' = <<>>
  PROVE  /\ CoreHears' = CoreHears /\ ClientHears' = ClientHears
         /\ UNCHANGED <<at, read_size, reboot, out>> /\ state' = state
  BY DEF CoreHears, ClientHears, core, control, sound, link

LEMMA BeginningTalk ==
  ASSUME Control, Control', Talk, BothOpen, UNCHANGED core,
         \/ uade_new_state \/ AwaitAnswer \/ BeginEvents \/ AppPlayNoSong \/ AppNextSubsong
  PROVE  Talk'
  <1>1. CASE uade_new_state
    <2>1. /\ pc = "new" /\ pc' = "idle" /\ sending = <<>> /\ sending' = <<>>
          /\ UNCHANGED <<link, phase, song>>
          BY <1>1 DEF uade_new_state, GoTo, songstate
    <2>2. Quiet BY <2>1, TalkOfClient
    <2>3. Quiet' BY <2>1, <2>2, Alone DEF Quiet
    <2> QED BY <2>3 DEF Talk
  <1>2. CASE AwaitAnswer
    <2>1. /\ pc = "init" /\ pc' = "answer" /\ sending = <<>> /\ sending' = <<>>
          /\ UNCHANGED <<link, phase, song>>
          BY <1>2 DEF AwaitAnswer, GoTo, songstate
    <2>2. /\ CoreHears' = CoreHears /\ ClientHears' = ClientHears
          /\ UNCHANGED <<at, read_size, reboot>>
          BY <2>1, Alone
    <2>3. CASE Loading
      <3>1. PICK module \in BOOLEAN, n \in 0 .. 6 : LoadingAt(module, n) BY <2>3, LoadingFacts
      <3>2. LoadingAt(module, n)' BY <2>1, <2>2, <3>1 DEF LoadingAt
      <3>3. Loading' BY <3>2, LoadingAfter
      <3> QED BY <3>3 DEF Talk
    <2>4. CASE Answering
      <3>1. Answering' BY <2>1, <2>2, <2>4 DEF Answering
      <3> QED BY <3>1 DEF Talk
    <2> QED BY <2>1, <2>3, <2>4, TalkOfClient
  <1>3. CASE BeginEvents
    <2>1. /\ pc = "options" /\ pc' = "event" /\ sending = <<>> /\ sending' = <<>>
          /\ phase' = "INITIALIZED" /\ UNCHANGED <<link, song>>
          BY <1>3 DEF BeginEvents, GoTo
    <2>2. Opening BY <2>1, TalkOfClient
    <2>3. Opening' BY <2>1, <2>2, Alone DEF Opening
    <2> QED BY <2>3 DEF Talk
  <1>4. CASE AppNextSubsong
    <2>1. /\ pc = "idle" /\ UNCHANGED <<link, pc, sending, back, song, phase>>
          BY <1>4 DEF AppNextSubsong, call
    <2>2. sending = <<>> BY <2>1 DEF Control, ClientControl, SendingAt
    <2> QED BY <2>1, <2>2, Alone, TalkKept
  <1>5. CASE AppPlayNoSong
    <2>1. /\ pc = "idle" /\ pc' \in {"idle", "fatal"} /\ phase = "INVALID" /\ phase' = "INVALID"
          /\ UNCHANGED <<link, sending, back, song>>
          BY <1>5 DEF AppPlayNoSong, songstate
    <2>2. sending = <<>> BY <2>1 DEF Control, ClientControl, SendingAt
    <2>3. Quiet BY <2>1, TalkOfClient
    <2>4. Quiet' BY <2>1, <2>2, <2>3, Alone DEF Quiet
    <2> QED BY <2>4 DEF Talk
  <1> QED BY <1>1, <1>2, <1>3, <1>4, <1>5

LEMMA ReceiveAnswerTalk ==
  ASSUME Control, Control', Talk, BothOpen, ReceiveAnswer, UNCHANGED core
  PROVE  Talk'
  <1>1. /\ ClientReceive("answer") /\ UNCHANGED <<phase, song>> /\ sending' = <<>>
        /\ NewMessage.type \in {"CAN_PLAY", "CANT_PLAY"} =>
             pc' = (IF NewMessage.type = "CAN_PLAY" THEN "canplay" ELSE "cantplay")
        BY StopFacts DEF ReceiveAnswer, GoTo, songstate
  <1>2. /\ pc = "answer" /\ sending = <<>> /\ inbox["client"] # <<>>
        /\ inbox'["client"] = Tail(inbox["client"]) /\ inbox'["core"] = inbox["core"]
        BY <1>1, ClientReceives
  <1>3. UNCHANGED <<at, out, read_size, reboot>> BY DEF core, control, sound
  <1>4. /\ CoreHears' = CoreHears \o <<>> /\ ClientHears' = Tail(ClientHears)
        /\ ClientHears # <<>> /\ NewMessage = Head(ClientHears) /\ NewMessage = ClientHears[1]
        BY <1>1, <1>2, <1>3, ClientListens
  <1>5. Answering BY <1>2, <1>4, TalkOfClient, Places
  <1>6. /\ EndsWith(ClientHears, "TOKEN") /\ Len(ClientHears) = 2 /\ read_size = 0
        /\ \/ at \in {"begin", "rstate"} /\ ~reboot /\ ClientHears[1].type = "CAN_PLAY"
           \/ at \in {"reset", "score"} /\ ClientHears[1].type = "CANT_PLAY"
        BY <1>2, <1>5 DEF Answering
  <1>7. CoreHears' = <<>> BY <1>4, <1>5, Places, NoWord, WithoutWord
  <1>8. EndsWith(ClientHears', "TOKEN") /\ Len(ClientHears') = 1
    <2>1. ClientHears \in Seq(Message) BY Heard
    <2>2. /\ Len(Tail(ClientHears)) = 1
          /\ Tail(ClientHears) # <<>> => EndsWith(Tail(ClientHears), "TOKEN")
          BY <1>4, <1>6, <2>1, TailWord
    <2> QED BY <1>4, <2>2, NoWord
  <1>9. Answering' BY <1>1, <1>3, <1>4, <1>6, <1>7, <1>8 DEF Answering
  <1> QED BY <1>9 DEF Talk

LEMMA ReceiveTurnTalk ==
  ASSUME Control, Control', Talk, BothOpen, ReceiveTurn, UNCHANGED core
  PROVE  Talk'
  <1>1. UNCHANGED <<phase, song, led>> BY DEF ReceiveTurn, songstate
  <1>2. PICK place \in {"canplay", "cantplay"} :
          /\ ClientReceive(place)
          /\ NewMessage.type = "TOKEN" =>
               IF place = "canplay"
               THEN /\ pc' = "options"
                    /\ sending' = <<FilterCommand(led), Msg("SET_PLAYER_OPTION", song, 0)>>
               ELSE Stop("unplayable")
        BY DEF ReceiveTurn, GoSend
  <1>3. /\ pc = place /\ sending = <<>> /\ inbox["client"] # <<>>
        /\ inbox'["client"] = Tail(inbox["client"]) /\ inbox'["core"] = inbox["core"]
        BY <1>2, ClientReceives
  <1>4. UNCHANGED <<at, out, read_size, reboot>> BY DEF core, control, sound
  <1>5. /\ CoreHears' = CoreHears \o sending' /\ ClientHears' = Tail(ClientHears)
        /\ ClientHears # <<>> /\ NewMessage = Head(ClientHears) /\ NewMessage = ClientHears[1]
        BY <1>3, <1>4, ClientListens
  <1>6. Answering BY <1>3, TalkOfClient
  <1>7. /\ EndsWith(ClientHears, "TOKEN") /\ Len(ClientHears) = 1 /\ read_size = 0
        /\ CoreHears = <<>> /\ ClientHears \in Seq(Message)
        /\ IF pc = "canplay" THEN at \in {"begin", "rstate"} /\ ~reboot
           ELSE at \in {"reset", "score"}
        BY <1>3, <1>6, Heard DEF Answering
  <1>8. NewMessage.type = "TOKEN" /\ ClientHears' = <<>>
        BY <1>5, <1>7, TailWord
  <1>9. phase = "INVALID" /\ song \in 0 .. MaxSongs /\ led \in {0, 1}
        BY <1>3 DEF Control, ClientControl, PhaseAt, Typed
  <1>10. CASE place = "canplay"
    <2>1. /\ FilterCommand(led) \in Message /\ FilterCommand(led).type = "FILTER"
          /\ Msg("SET_PLAYER_OPTION", song, 0) \in Message
          /\ Msg("SET_PLAYER_OPTION", song, 0).type = "SET_PLAYER_OPTION"
          BY <1>9, CommandWords DEF Msg
    <2>5. PICK x, y \in Message :
            /\ sending' = <<x, y>> /\ x.type = "FILTER" /\ y.type = "SET_PLAYER_OPTION"
          BY <1>2, <1>8, <1>10, <2>1
    <2>6. <<x, y>> \in Seq(Message) /\ AllIn(<<x, y>>, Orders)
          BY <2>5 DEF AllIn, Orders
    <2>2. pc' = "options" /\ sending' \in Seq(Message) /\ AllIn(sending', Orders)
          BY <1>2, <1>8, <1>10, <2>5, <2>6
    <2>3. CoreHears' = sending' BY <1>5, <1>7, <2>2, WithoutWord
    <2>4. Opening' BY <1>3, <1>4, <1>7, <1>8, <1>10, <2>2, <2>3 DEF Opening
    <2> QED BY <2>4 DEF Talk
  <1>11. CASE place = "cantplay"
    <2>1. pc' = "idle" /\ sending' = <<>>
          BY <1>1, <1>2, <1>8, <1>9, <1>11, StopFacts
    <2>2. CoreHears' = <<>> BY <1>5, <1>7, <2>1, NoWord, WithoutWord
    <2>3. Quiet' BY <1>1, <1>3, <1>4, <1>7, <1>8, <1>9, <1>11, <2>1, <2>2 DEF Quiet
    <2> QED BY <2>3 DEF Talk
  <1> QED BY <1>10, <1>11

(* A receive that fails needs a core that is lost, or the turn. *)
LEMMA FailsTalk ==
  ASSUME Control, Talk, BothOpen
  PROVE  ~(InitializationFails \/ receive_messages_fails \/ PendingEventsFail)
  <1>1. ASSUME NEW place \in {"answer", "canplay", "cantplay", "receive"}, ReceiveFails(place)
        PROVE  FALSE
        BY <1>1 DEF ReceiveFails, Control, ClientControl, StateAt, BothOpen, CoreOpen
  <1>2. ~PendingEventsFail
        BY DEF PendingEventsFail, ReceiveFails, BothOpen, CoreOpen
  <1> QED BY <1>1, <1>2 DEF InitializationFails, receive_messages_fails

(* Calls that leave libuade listening. *)
LEMMA ListeningTalk ==
  ASSUME Control, Control', Talk, BothOpen, UNCHANGED core,
         \/ AppGetEvent \/ Requested
         \/ GetEvent /\ phase # "INITIALIZED"
         \/ AppStop /\ phase # "INVALID"
         \/ AppCleanup /\ phase # "INVALID"
  PROVE  Talk'
  <1>1. /\ UNCHANGED link /\ sending = <<>> /\ sending' = <<>>
        /\ pc \in {"idle", "event", "request", "fatal"} /\ phase # "INVALID"
        /\ pc = "event" => phase # "INITIALIZED"
        /\ pc' \in {"idle", "event", "receive", "drain"} /\ phase' # "INVALID"
        /\ pc' = "event" => phase' # "INITIALIZED"
        /\ pc' = "drain" => state["client"] = "R" \/ pc = "fatal"
    <2>1. CASE AppGetEvent
          BY <2>1 DEF AppGetEvent, GoTo, Control, ClientControl, SendingAt, PhaseAt, InSong, songstate
    <2>2. CASE Requested
      <3>1. /\ pc = "request" /\ sending = <<>> /\ phase \in {"INITIALIZED"} \cup InSong
            /\ state["client"] = "R" /\ UNCHANGED link
            BY <2>2 DEF Requested, Control, ClientControl, PhaseAt, StateAt
      <3>2. CASE phase = "INITIALIZED" BY <2>2, <3>1, <3>2 DEF Requested, GoTo
      <3>3. CASE phase # "INITIALIZED"
        <4>1. phase' = phase /\ GiveEvent("EAGAIN") BY <2>2, <3>3 DEF Requested
        <4>2. phase' # "INVALID" /\ phase' # "INITIALIZED" BY <3>1, <3>3, <4>1 DEF InSong
        <4> QED BY <3>1, <3>3, <4>1, <4>2, GiveEventFacts
      <3> QED BY <3>2, <3>3
    <2>4. CASE GetEvent /\ phase # "INITIALIZED"
      <3>1. /\ pc = "event" /\ state["client"] = "R" /\ sending = <<>> /\ UNCHANGED link
            /\ phase \in {"WAIT_SUBSONG_CHANGE"} \cup InSong
            BY <2>4 DEF GetEvent, Control, ClientControl, PhaseAt, StateAt, SendingAt
      <3>2. CASE phase = "SONG_END_PENDING"
            BY <2>4, <3>1, <3>2, GiveEventFacts DEF GetEvent
      <3>3. CASE phase = "WAIT_SUBSONG_CHANGE"
            BY <2>4, <3>1, <3>3, GiveEventFacts DEF GetEvent, GoTo
      <3>4. CASE phase = "RECEIVE_MSGS"
            BY <2>4, <3>1, <3>4 DEF GetEvent, GoTo
      <3> QED BY <3>1, <3>2, <3>3, <3>4 DEF InSong
    <2>5. CASE AppStop /\ phase # "INVALID"
      <3>1. /\ pc = "idle" /\ UNCHANGED <<link, phase>> /\ pc' = "drain" /\ sending' = <<>>
            BY <2>5, StopFacts DEF AppStop
      <3> QED BY <2>5, <3>1 DEF Control, ClientControl, SendingAt, StateAt
    <2>6. CASE AppCleanup /\ phase # "INVALID"
      <3>1. /\ pc \in {"idle", "fatal"} /\ UNCHANGED <<link, phase>> /\ pc' = "drain"
            /\ sending' = <<>>
            BY <2>6, StopFacts DEF AppCleanup
      <3> QED BY <2>6, <3>1 DEF Control, ClientControl, SendingAt, StateAt
    <2> QED BY <2>1, <2>2, <2>4, <2>5, <2>6
  <1>2. pc # "fatal" BY <1>1, TalkOfClient, Places
  <1>3. Exchange BY <1>1, <1>2, TalkOfClient
  <1>4. /\ CoreHears' = CoreHears /\ ClientHears' = ClientHears
        /\ UNCHANGED <<at, read_size, reboot>> /\ state' = state
        BY <1>1, Alone
  <1>5. Listening' BY <1>1, <1>2, <1>4 DEF Listening
  <1>6. Exchange' BY <1>3, <1>4, <1>5, ExchangeKept
  <1> QED BY <1>6 DEF Exchange, Talk

LEMMA FirstRequestTalk ==
  ASSUME Control, Control', Talk, BothOpen, GetEvent, phase = "INITIALIZED", UNCHANGED core
  PROVE  Talk'
  <1>1. /\ pc = "event" /\ pc' = "request" /\ sending' = ReadRequest
        /\ UNCHANGED <<phase, song, link>>
        BY DEF GetEvent, GoSend
  <1>2. sending = <<>> /\ song \in 0 .. MaxSongs
        BY <1>1 DEF Control, ClientControl, SendingAt, Typed
  <1>3. UNCHANGED <<at, out, read_size, reboot>> BY DEF core, control, sound
  <1>4. CoreHears' = CoreHears \o ReadRequest /\ ClientHears' = ClientHears
        BY <1>1, <1>2, <1>3, ClientThinks
  <1>5. Opening /\ CoreHears \in Seq(Message) BY <1>1, TalkOfClient, Heard
  <1>6. /\ at \in {"begin", "rstate"} /\ ~reboot /\ read_size = 0
        /\ ClientHears = <<>> /\ AllIn(CoreHears, Orders)
        BY <1>5 DEF Opening
  <1>7. OrderedWord(CoreHears') /\ Len(CoreHears') > 1
        BY <1>2, <1>4, <1>5, <1>6, OrdersThenRead
  <1>8. Listening' BY <1>1 DEF Listening
  <1>9. Ordered' BY <1>3, <1>4, <1>6, <1>7, <1>8 DEF Ordered, OrderedWord
  <1> QED BY <1>9 DEF Talk

LEMMA ReadyTalk ==
  ASSUME Control, Control', Talk, BothOpen, ClientReceive("receive"), Ready,
         UNCHANGED song, UNCHANGED core
  PROVE  Talk'
  <1> DEFINE change == IF nextsubsong THEN <<Msg("CHANGE_SUBSONG", song, cur + 1)>> ELSE <<>>
  <1>1. /\ NewMessage.type = "TOKEN" /\ pc' = "request" /\ UNCHANGED phase
        /\ sending' = (change \o write_queue) \o ReadRequest
        BY DEF Ready, GoSend
  <1>2. /\ pc = "receive" /\ phase \in InSong /\ cur + 1 \in Nat
        /\ song \in 0 .. MaxSongs /\ write_queue \in Seq(Message)
        /\ AllIn(write_queue, {"FILTER"})
        BY DEF ClientReceive, Control, ClientControl, PhaseAt, Typed, SendingAt
  <1>3. /\ sending = <<>> /\ inbox["client"] # <<>>
        /\ inbox'["client"] = Tail(inbox["client"]) /\ inbox'["core"] = inbox["core"]
        BY ClientReceives
  <1>4. UNCHANGED <<at, out, read_size, reboot>> BY DEF core, control, sound
  <1>5. /\ CoreHears' = CoreHears \o sending' /\ ClientHears' = Tail(ClientHears)
        /\ ClientHears # <<>> /\ NewMessage = Head(ClientHears)
        BY <1>3, <1>4, ClientListens
  <1>6. Exchange BY <1>2, TalkOfClient DEF InSong
  <1>7. \/ Running \/ Asking \/ Turning
        BY <1>5, <1>6, Places DEF Exchange
  <1>8. CoreHears = <<>> BY <1>7, Places
  <1> HIDE DEF change
  <1>9. sending' \in Seq(Message) /\ OrderedWord(sending') /\ Len(sending') > 1
    <2>1. change \in Seq(Message) /\ AllIn(change, Orders)
      <3>1. Msg("CHANGE_SUBSONG", song, cur + 1) \in Message
            /\ Msg("CHANGE_SUBSONG", song, cur + 1).type = "CHANGE_SUBSONG"
            BY <1>2, CommandWords DEF Msg
      <3>2. CASE nextsubsong BY <3>1, <3>2 DEF AllIn, Orders, change
      <3>3. CASE ~nextsubsong BY <3>3, NoWord DEF change
      <3> QED BY <3>2, <3>3
    <2>2. AllIn(write_queue, Orders) BY <1>2 DEF AllIn, Orders
    <2>3. change \o write_queue \in Seq(Message) /\ AllIn(change \o write_queue, Orders)
          BY <1>2, <2>1, <2>2, JoinWord
    <2> QED BY <1>1, <1>2, <2>3, OrdersThenRead
  <1>10. CoreHears' = sending' BY <1>5, <1>8, <1>9, WithoutWord
  <1>11. Turning /\ ClientHears' = <<>>
        BY <1>1, <1>4, <1>5, <1>6, ExchangeHeard
  <1>12. at = "rstate" /\ ~reboot /\ read_size = 0 BY <1>11 DEF Turning
  <1>13. Listening' BY <1>1, <1>2 DEF Listening, InSong
  <1>14. Ordered' BY <1>4, <1>9, <1>10, <1>11, <1>12, <1>13 DEF Ordered, OrderedWord
  <1> QED BY <1>14 DEF Talk

(* A message other than the turn, in uade_get_event() or uade_stop(). *)
LEMMA MessageTalk ==
  ASSUME Control, Control', Talk, BothOpen, NEW place \in {"receive", "drain"},
         ClientReceive(place), state["client"] = "R", UNCHANGED core, sending' = <<>>,
         NewMessage.type # "TOKEN",
         NewMessage.type = "REQUEST_AMIGA_FILE" => pc' = "asked" /\ back' = place,
         NewMessage.type \in News =>
           /\ pc' \in {"idle", "event", "receive", "drain"} /\ phase' # "INVALID"
           /\ pc' = "event" => phase' # "INITIALIZED"
  PROVE  Talk' /\ NewMessage.type \in News \cup {"REQUEST_AMIGA_FILE"}
  <1>1. /\ pc = place /\ sending = <<>> /\ inbox["client"] # <<>>
        /\ inbox'["client"] = Tail(inbox["client"]) /\ inbox'["core"] = inbox["core"]
        /\ state'["client"] = "R"
        BY ClientReceives
  <1>2. phase # "INVALID"
        BY <1>1 DEF Control, ClientControl, PhaseAt, InSong, Stopping
  <1>3. Exchange BY <1>1, <1>2, TalkOfClient
  <1>4. UNCHANGED <<at, out, read_size, reboot>> BY DEF core, control, sound
  <1>5. /\ CoreHears' = CoreHears \o <<>> /\ ClientHears' = Tail(ClientHears)
        /\ ClientHears # <<>> /\ NewMessage = Head(ClientHears)
        BY <1>1, <1>4, ClientListens
  <1>6. CoreHears' = CoreHears BY <1>5, Heard, WithoutWord
  <1>7. /\ NewMessage.type \in News \cup {"TOKEN", "REQUEST_AMIGA_FILE"}
        /\ NewMessage.type = "REQUEST_AMIGA_FILE" => Asking /\ ClientHears' = <<>>
        /\ NewMessage.type \in News /\ Listening' /\ CoreHears' = CoreHears => Exchange'
        BY <1>3, <1>4, <1>5, <1>6, ExchangeHeard
  <1>8. CASE NewMessage.type = "REQUEST_AMIGA_FILE"
    <2>1. at = "file" /\ CoreHears = <<>> /\ read_size # 0 BY <1>7, <1>8 DEF Asking
    <2>2. LookingUp' BY <1>4, <1>6, <1>7, <1>8, <2>1 DEF LookingUp
    <2> QED BY <1>8, <2>2 DEF Talk
  <1>9. CASE NewMessage.type \in News
    <2>1. Listening' BY <1>1, <1>9 DEF Listening
    <2>2. Exchange' BY <1>6, <1>7, <1>9, <2>1
    <2> QED BY <1>9, <2>2 DEF Exchange, Talk
  <1> QED BY <1>7, <1>8, <1>9

LEMMA ReceiveMessagesTalk ==
  ASSUME Control, Control', Talk, BothOpen, receive_messages, UNCHANGED core
  PROVE  Talk'
  <1>1. /\ ClientReceive("receive") /\ UNCHANGED song /\ state["client"] = "R"
        /\ pc = "receive" /\ sending = <<>> /\ phase \in InSong
        BY ClientReceives
        DEF receive_messages, ClientReceive, Control, ClientControl, PhaseAt, StateAt
  <1>2. CASE Ready BY <1>1, <1>2, ReadyTalk
  <1>3. CASE FileRequest
    <2>1. /\ NewMessage.type = "REQUEST_AMIGA_FILE" /\ pc' = "asked" /\ sending' = <<>>
          /\ back' = "receive"
          BY <1>3 DEF FileRequest, GoTo
    <2> QED BY <1>1, <2>1, MessageTalk DEF News
  <1>4. CASE DataBlock \/ SongEnd \/ OtherMessage
    <2>1. /\ NewMessage.type \in News /\ sending' = <<>>
          /\ pc' \in {"idle", "event", "receive", "drain"} /\ phase' # "INVALID"
          /\ phase' # "INITIALIZED"
      <3>1. CASE DataBlock
        <4>1. /\ NewMessage.type = "DATA" /\ phase' = phase
              /\ GiveEvent("DATA") \/ GiveEvent("SONG_END")
              BY <3>1 DEF DataBlock
        <4> QED BY <1>1, <4>1, GiveEventFacts DEF News, InSong
      <3>2. CASE SongEnd BY <1>1, <3>2 DEF SongEnd, News
      <3>3. CASE OtherMessage
        <4>1. /\ NewMessage.type \in {"MSG", "SUBSONG_INFO"} /\ phase' = phase
              /\ UNCHANGED <<pc, sending>> \/ GiveEvent(NewMessage.type)
              BY <3>3 DEF OtherMessage
        <4>2. phase' # "INVALID" BY <1>1, <4>1 DEF InSong
        <4>3. CASE GiveEvent(NewMessage.type)
          <5>1. PICK type \in {"MSG", "SUBSONG_INFO"} : type = NewMessage.type BY <4>1
          <5> QED BY <1>1, <4>1, <4>2, <4>3, <5>1, GiveEventFacts DEF News, InSong
        <4>4. CASE UNCHANGED <<pc, sending>> BY <1>1, <4>1, <4>4 DEF News, InSong
        <4> QED BY <4>1, <4>3, <4>4
      <3> QED BY <1>4, <3>1, <3>2, <3>3
    <2>2. NewMessage.type \notin {"TOKEN", "REQUEST_AMIGA_FILE"} BY <2>1 DEF News
    <2> QED BY <1>1, <2>1, <2>2, MessageTalk
  <1>5. CASE BadMessage
    <2>1. /\ NewMessage.type \in {"CAN_PLAY", "CANT_PLAY"} /\ sending' = <<>>
          BY <1>5, EventFailsFacts DEF BadMessage
    <2>2. NewMessage.type \notin News \cup {"TOKEN", "REQUEST_AMIGA_FILE"} BY <2>1 DEF News
    <2> QED BY <1>1, <2>1, <2>2, MessageTalk
  <1> QED BY <1>2, <1>3, <1>4, <1>5 DEF receive_messages

LEMMA BeginReplyTalk ==
  ASSUME Control, Control', Talk, BothOpen, send_file_back, UNCHANGED core
  PROVE  Talk'
  <1>1. PICK found \in BOOLEAN : sending' = FileMessages(song, wanted, found)
        BY DEF send_file_back, GoSend
  <1>2. /\ pc = "asked" /\ pc' = "reply" /\ UNCHANGED <<inbox, back, song, phase>>
        /\ sending = <<>> /\ song \in 0 .. MaxSongs /\ wanted \in Nat
        BY DEF send_file_back, GoSend, songstate, Link!BeginReply, Control, ClientControl,
               SendingAt, Typed
  <1>3. UNCHANGED <<at, out, read_size, reboot>> BY DEF core, control, sound
  <1>4. LookingUp BY <1>2, TalkOfClient
  <1>5. /\ at = "file" /\ read_size # 0 /\ CoreHears = <<>> /\ ClientHears = <<>>
        /\ back # "settle"
        BY <1>4 DEF LookingUp
  <1>6. /\ inbox["core"] = <<>> /\ ClientHears' = ClientHears BY <1>2, <1>3, <1>5, Heard DEF ClientHears
  <1>7. /\ Len(sending') \in {1, 2} /\ sending'[1].type = "FILE"
        /\ sending'[1].last <=> Len(sending') = 1
        /\ Len(sending') = 2 => sending'[2].type = "FILE_DATA" /\ sending'[2].last
        /\ sending' \in Seq(Message)
    <2>1. PICK x, y, z \in Message :
           /\ FileMessages(song, wanted, TRUE) = <<x, y>>
           /\ FileMessages(song, wanted, FALSE) = <<z>>
           /\ x.type = "FILE" /\ ~x.last /\ y.type = "FILE_DATA" /\ y.last
           /\ z.type = "FILE" /\ z.last
          BY <1>2, FileWord
    <2>2. CASE found
      <3>1. sending' = <<x, y>> BY <1>1, <2>1, <2>2
      <3> QED BY <2>1, <3>1
    <2>3. CASE ~found
      <3>1. sending' = <<z>> BY <1>1, <2>1, <2>3
      <3> QED BY <2>1, <3>1
    <2> QED BY <2>2, <2>3
  <1>8. CoreHears' = sending'
    <2>1. CoreHears' = <<>> \o sending' BY <1>2, <1>6 DEF CoreHears
    <2> QED BY <2>1, <1>7, WithoutWord
  <1>9. Delivering' BY <1>2, <1>3, <1>5, <1>6, <1>7, <1>8 DEF Delivering
  <1> QED BY <1>9 DEF Talk

LEMMA SendReplyTalk ==
  ASSUME Control, Control', Talk, BothOpen, SendReply, UNCHANGED core
  PROVE  Talk'
  <1> DEFINE m == Head(sending)
  <1>1. /\ pc = "reply" /\ sending # <<>> /\ Link!SendPiece("client", m)
        /\ UNCHANGED <<back, song, phase>>
        /\ IF Len(sending) = 1 THEN pc' = back /\ sending' = <<>>
           ELSE sending' = Tail(sending) /\ UNCHANGED pc
        BY DEF SendReply, BothOpen, CoreOpen, GoTo, songstate
  <1>2. /\ sending \in Seq(Message) /\ AllIn(sending, FileTypes) /\ LinkTyped
        BY <1>1, CoreFacts DEF Control, Typed, ClientControl, SendingAt
  <1>3. /\ m \in Message /\ m.type \in FileTypes
        /\ Tail(sending) = <<>> <=> Len(sending) = 1
        BY <1>1, <1>2, TailWord
  <1>4. /\ inbox'["client"] = inbox["client"] /\ inbox'["core"] = Append(inbox["core"], m)
        BY <1>1, <1>2, <1>3, ClientSendsPiece DEF BothOpen
  <1>5. sending' = Tail(sending) BY <1>1, <1>3
  <1>6. UNCHANGED <<at, out, read_size, reboot>> BY DEF core, control, sound
  <1> HIDE DEF m
  <1>7. CoreHears' = CoreHears /\ ClientHears' = ClientHears
        BY <1>1, <1>4, <1>5, <1>6, ClientSays DEF m
  <1>8. Delivering BY <1>1, TalkOfClient
  <1>9. Listening' \/ (pc' = "reply" /\ back' # "settle")
    <2>1. CASE Len(sending) # 1 BY <1>1, <1>8, <2>1, Places DEF Delivering, Listening
    <2>2. CASE Len(sending) = 1
      <3>1. pc' = back /\ back # "settle" /\ back \in {"receive", "drain", "settle"}
            BY <1>1, <1>8, <2>2 DEF Delivering, Listening, Control, ClientControl
      <3>2. pc' = "receive" => phase' # "INVALID"
            BY DEF Control, ClientControl, PhaseAt, InSong
      <3>3. pc' = "drain" => phase' # "INVALID"
            BY DEF Control, ClientControl, PhaseAt, Stopping
      <3>4. state'["client"] = "R"
        <4>1. \A i \in 1 .. Len(sending) : sending[i].last <=> i = Len(sending)
              BY <1>1 DEF Control, ClientControl, SendingAt
        <4>2. m.last
          <5>1. m = sending[1] BY <1>1, <1>2, TailWord DEF m
          <5> QED BY <2>2, <4>1, <5>1
        <4> QED BY <1>1, <1>2, <1>3, <4>2, ClientSendsPiece DEF BothOpen, m
      <3> QED BY <3>1, <3>2, <3>3, <3>4 DEF Listening
    <2> QED BY <2>1, <2>2
  <1>10. Delivering' BY <1>6, <1>7, <1>8, <1>9 DEF Delivering
  <1> QED BY <1>10 DEF Talk

(* uade_stop() *)
LEMMA PendingEventsTalk ==
  ASSUME Control, Control', Talk, BothOpen, NEW place \in {"drain", "settle"},
         get_pending_events(place), UNCHANGED core
  PROVE  Talk'
  <1>1. /\ ClientReceive(place) /\ pc = place /\ state["client"] = "R"
        /\ UNCHANGED <<song, phase>> /\ sending = <<>>
        BY DEF get_pending_events, songstate, ClientReceive, Control, ClientControl, StateAt
  <1>2. /\ inbox["client"] # <<>>
        /\ inbox'["client"] = Tail(inbox["client"]) /\ inbox'["core"] = inbox["core"]
        /\ state'["client"] = (IF NewMessage.type = "TOKEN" THEN "S" ELSE "R")
        BY <1>1, ClientReceives
  <1>3. /\ UNCHANGED <<at, out, read_size, reboot>> /\ sending' = <<>>
        /\ IF NewMessage.type = "REQUEST_AMIGA_FILE" THEN pc' = "asked" /\ back' = place
           ELSE UNCHANGED <<pc, back>>
        BY <1>1 DEF get_pending_events, GoTo, core, control, sound
  <1>4. /\ CoreHears' = CoreHears \o <<>> /\ ClientHears' = Tail(ClientHears)
        /\ ClientHears # <<>> /\ NewMessage = Head(ClientHears)
        BY <1>1, <1>2, <1>3, ClientListens
  <1>5. CoreHears' = CoreHears /\ ClientHears \in Seq(Message) BY <1>4, Heard, WithoutWord
  <1>6. CASE place = "drain" /\ NewMessage.type = "TOKEN"
    <2>1. Exchange BY <1>1, <1>6, TalkOfClient
    <2>2. Turning /\ ClientHears' = <<>> BY <1>3, <1>4, <1>6, <2>1, ExchangeHeard
    <2>3. Drained' BY <1>1, <1>2, <1>3, <1>5, <1>6, <2>2 DEF Drained, Turning
    <2> QED BY <2>3 DEF Talk
  <1>7. CASE place = "drain" /\ NewMessage.type # "TOKEN"
    <2>1. phase' # "INVALID" BY <1>1, <1>7 DEF Control, ClientControl, PhaseAt, Stopping
    <2> QED BY <1>1, <1>3, <1>7, <2>1, MessageTalk DEF News
  <1>8. CASE place = "settle"
    <2>1. Rebooted BY <1>1, <1>4, <1>8, TalkOfClient, Places
    <2>2. /\ EndsWith(ClientHears, "TOKEN") /\ AllIn(ClientHears, News \cup {"TOKEN"})
          /\ at \in {"reset", "score"} /\ read_size = 0 /\ CoreHears = <<>>
          BY <1>1, <2>1 DEF Rebooted
    <2>3. /\ NewMessage.type \in News \cup {"TOKEN"}
          /\ AllIn(ClientHears', News \cup {"TOKEN"})
          /\ NewMessage.type = "TOKEN" <=> ClientHears' = <<>>
          /\ ClientHears' # <<>> => EndsWith(ClientHears', "TOKEN")
          BY <1>4, <1>5, <2>2, TailWord
    <2>4. pc' = "settle" BY <1>1, <1>3, <1>8, <2>3 DEF News
    <2>5. Rebooted' BY <1>2, <1>3, <1>5, <2>2, <2>3, <2>4 DEF Rebooted
    <2> QED BY <2>5 DEF Talk
  <1> QED BY <1>6, <1>7, <1>8

LEMMA StoppingTalk ==
  ASSUME Control, Control', Talk, BothOpen, UNCHANGED core,
         OrderReboot \/ AwaitReboot \/ Stopped
  PROVE  Talk'
  <1>0. UNCHANGED <<at, out, read_size, reboot>> BY DEF core, control, sound
  <1>1. CASE OrderReboot
    <2>1. /\ pc = "drain" /\ pc' = "reboot" /\ state["client"] = "S"
          /\ sending' = <<Msg("REBOOT", song, 0), Token(song)>> /\ UNCHANGED <<link, phase, song>>
          BY <1>1 DEF OrderReboot, GoSend, songstate
    <2>2. sending = <<>> /\ song \in 0 .. MaxSongs
          BY <2>1 DEF Control, ClientControl, SendingAt, Typed
    <2>3. CoreHears' = CoreHears \o sending' /\ ClientHears' = ClientHears
          BY <1>0, <2>1, <2>2, ClientThinks
    <2>4. Drained BY <2>1, TalkOfClient
    <2>5. /\ at = "rstate" /\ ~reboot /\ read_size = 0 /\ CoreHears = <<>> /\ ClientHears = <<>>
          BY <2>4 DEF Drained
    <2>6. /\ sending' \in Seq(Message) /\ EndsWith(sending', "TOKEN")
          /\ Len(sending') = 2 /\ sending'[1].type = "REBOOT"
      <3>1. PICK r, t \in Message :
              /\ <<Msg("REBOOT", song, 0), Token(song)>> = <<r, t>>
              /\ r.type = "REBOOT" /\ t.type = "TOKEN"
            BY <2>2, CommandWords
      <3>2. /\ <<r, t>> \in Seq(Message) /\ EndsWith(<<r, t>>, "TOKEN")
            /\ Len(<<r, t>>) = 2 /\ <<r, t>>[1] = r
            BY <3>1, PairWord
      <3> QED BY <2>1, <3>1, <3>2
    <2>7. CoreHears' = sending' BY <2>3, <2>5, <2>6, WithoutWord
    <2>8. Rebooting' BY <1>0, <2>1, <2>3, <2>5, <2>6, <2>7 DEF Rebooting
    <2> QED BY <2>8 DEF Talk
  <1>2. CASE AwaitReboot
    <2>1. /\ pc = "reboot" /\ pc' = "settle" /\ sending = <<>> /\ sending' = <<>>
          /\ UNCHANGED <<link, phase, song>>
          BY <1>2 DEF AwaitReboot, GoTo, songstate
    <2>2. /\ CoreHears' = CoreHears /\ ClientHears' = ClientHears /\ state' = state
          BY <2>1, Alone
    <2>3. state["client"] = "R" BY <2>1 DEF Control, ClientControl, StateAt
    <2>4. CASE Rebooting
      <3>1. Rebooting' BY <1>0, <2>1, <2>2, <2>3, <2>4 DEF Rebooting
      <3> QED BY <3>1 DEF Talk
    <2>5. CASE Rebooted
      <3>1. Rebooted' BY <1>0, <2>1, <2>2, <2>3, <2>5 DEF Rebooted
      <3> QED BY <3>1 DEF Talk
    <2> QED BY <2>1, <2>4, <2>5, TalkOfClient
  <1>3. CASE Stopped
    <2>1. /\ pc = "settle" /\ state["client"] = "S" /\ UNCHANGED <<link, song>>
          /\ sending = <<>> /\ sending' = <<>> /\ phase' = "INVALID"
          /\ pc' \in {"close", "fatal", "idle"}
          BY <1>3, StopReturnsFacts
          DEF Stopped, Control, ClientControl, PhaseAt, SendingAt, Stopping
    <2>2. /\ CoreHears' = CoreHears /\ ClientHears' = ClientHears
          BY <2>1, Alone
    <2>3. Rebooted BY <2>1, TalkOfClient, Places
    <2>4. Quiet' BY <1>0, <2>1, <2>2, <2>3 DEF Quiet, Rebooted
    <2> QED BY <2>4 DEF Talk
  <1> QED BY <1>1, <1>2, <1>3

(* The calls of an application between songs. *)
LEMMA PlayTalk ==
  ASSUME Control, Control', Talk, BothOpen, AppPlay, UNCHANGED core
  PROVE  Talk'
  <1>1. PICK module \in BOOLEAN : sending' = SongWord(song', module)
        BY DEF AppPlay, GoSend, SongWord
  <1>2. /\ pc = "idle" /\ phase = "INVALID" /\ pc' = "init" /\ UNCHANGED link
        /\ song' \in 0 .. MaxSongs
        BY DEF AppPlay, GoSend, Control, Typed
  <1>3. sending = <<>> BY <1>2 DEF Control, ClientControl, SendingAt
  <1>4. UNCHANGED <<at, out, read_size, reboot>> BY DEF core, control, sound
  <1>5. CoreHears' = CoreHears \o sending' /\ ClientHears' = ClientHears
        BY <1>2, <1>3, <1>4, ClientThinks
  <1>6. Quiet /\ CoreHears \in Seq(Message) BY <1>2, TalkOfClient, Heard
  <1> DEFINE w == sending'
  <1>7. /\ w \in Seq(Message) /\ Len(w) = LoadLength(module) - 1
        /\ \A i \in 1 .. Len(w) :
              /\ w[i].type = LoadTypes(module)[i + 1]
              /\ w[i].type = "FILE" => (w[i].last <=> i = 4 /\ ~module)
    <2>1. PICK s \in 0 .. MaxSongs : s = song' BY <1>2
    <2>2. /\ SongWord(s, module) \in Seq(Message)
          /\ Len(SongWord(s, module)) = (IF module THEN 6 ELSE 5)
          /\ \A i \in 1 .. Len(SongWord(s, module)) :
              /\ SongWord(s, module)[i].type = LoadTypes(module)[i + 1]
              /\ SongWord(s, module)[i].type = "FILE"
                   => (SongWord(s, module)[i].last <=> i = 4 /\ ~module)
          BY SongWordFacts
    <2>3. sending' = SongWord(s, module) BY <1>1, <2>1
    <2>4. Len(SongWord(s, module)) = LoadLength(module) - 1
      <3>1. CASE module BY <2>2, <3>1 DEF LoadLength
      <3>2. CASE ~module BY <2>2, <3>2 DEF LoadLength
      <3> QED BY <3>1, <3>2
    <2> QED BY <2>2, <2>3, <2>4
  <1>8. LoadLength(module) \in 6 .. 7 BY LoadTable
  <1>9. CASE at = "option"
    <2>1. /\ Len(CoreHears) = 1 /\ CoreHears[1].type = "CONFIG"
          /\ ClientHears = <<>> /\ read_size = 0
          BY <1>6, <1>9 DEF Quiet
    <2> DEFINE u == CoreHears'
    <2>2. /\ Len(u) = Len(w) + 1
          /\ \A i \in 1 .. Len(w) + 1 : u[i] = IF i <= 1 THEN CoreHears[1] ELSE w[i - 1]
      <3>0. PICK v \in Seq(Message) : v = w BY <1>7
      <3>3. PICK q \in Seq(Message) : q = CoreHears BY <1>6
      <3>4. /\ Len(q \o v) = Len(q) + Len(v)
            /\ \A i \in 1 .. Len(q) + Len(v) :
                 (q \o v)[i] = IF i <= Len(q) THEN q[i] ELSE v[i - Len(q)]
            BY ConcatProperties
      <3>5. Len(q) = 1 BY <2>1, <3>3
      <3>6. /\ Len(q \o v) = 1 + Len(v)
            /\ \A i \in 1 .. 1 + Len(v) :
                 (q \o v)[i] = IF i <= 1 THEN q[i] ELSE v[i - 1]
            BY <3>4, <3>5
      <3>1. /\ Len(CoreHears \o w) = 1 + Len(w)
            /\ \A i \in 1 .. 1 + Len(w) :
                 (CoreHears \o w)[i] = IF i <= 1 THEN CoreHears[i] ELSE w[i - 1]
            BY <3>0, <3>3, <3>6
      <3>2. u = CoreHears \o w BY <1>5
      <3> HIDE DEF u, w
      <3> QED BY <1>7, <1>8, <3>1, <3>2
    <2> HIDE DEF u, w
    <2>3. Len(u) = LoadLength(module) - 0 BY <1>7, <1>8, <2>2
    <2>4. ASSUME NEW i \in 1 .. Len(u)
          PROVE  /\ u[i].type = LoadTypes(module)[0 + i]
                 /\ u[i].type = "FILE" => (u[i].last <=> 0 + i = 5 /\ ~module)
      <3>1. CASE i = 1
        <4>1. u[i] = CoreHears[1] BY <1>7, <1>8, <2>2, <3>1
        <4>2. LoadTypes(module)[1] = "CONFIG" BY LoadTable
        <4> QED BY <2>1, <3>1, <4>1, <4>2
      <3>2. CASE i # 1
        <4>1. PICK k \in Int : k = i - 1 OBVIOUS
        <4>2. k \in 1 .. Len(w) /\ u[i] = w[k] /\ k + 1 = i /\ 0 + i = i
              BY <1>7, <1>8, <2>2, <2>3, <3>2, <4>1
        <4>3. /\ w[k].type = LoadTypes(module)[k + 1]
              /\ w[k].type = "FILE" => (w[k].last <=> k = 4 /\ ~module)
              BY <1>7, <4>2
        <4>4. k = 4 <=> 0 + i = 5 BY <4>1
        <4> QED BY <4>2, <4>3, <4>4
      <3> QED BY <3>1, <3>2
    <2>5. at \in LoadPlaces(module)[0 + 1] BY <1>9, LoadTable
    <2>6. LoadingAt(module, 0)'
          BY <1>2, <1>4, <1>5, <1>8, <2>1, <2>3, <2>4, <2>5 DEF LoadingAt, u
    <2>7. Loading' BY <2>6, LoadingAfter
    <2> QED BY <2>7 DEF Talk
  <1>10. CASE at # "option"
    <2>1. /\ CoreHears = <<>> /\ at \in {"reset", "score"}
          /\ ClientHears = <<>> /\ read_size = 0
          BY <1>6, <1>10 DEF Quiet
    <2>2. CoreHears' = w BY <1>5, <1>7, <2>1, WithoutWord
    <2> HIDE DEF w
    <2>3. Len(w) = LoadLength(module) - 1 BY <1>7
    <2>4. ASSUME NEW i \in 1 .. Len(w)
          PROVE  /\ w[i].type = LoadTypes(module)[1 + i]
                 /\ w[i].type = "FILE" => (w[i].last <=> 1 + i = 5 /\ ~module)
          BY <1>7, <1>8
    <2>5. at \in LoadPlaces(module)[1 + 1] BY <2>1, LoadTable
    <2>6. LoadingAt(module, 1)'
          BY <1>2, <1>4, <1>5, <1>8, <2>1, <2>2, <2>3, <2>4, <2>5 DEF LoadingAt
    <2>7. Loading' BY <2>6, LoadingAfter
    <2> QED BY <2>7 DEF Talk
  <1> QED BY <1>9, <1>10

LEMMA IdleTalk ==
  ASSUME Control, Control', Talk, BothOpen, UNCHANGED core, ~FilterWhenIdle,
         \/ AppStop /\ phase = "INVALID"
         \/ AppCleanup /\ phase = "INVALID"
         \/ \E newstate \in {0, 1} : AppSetFilter(newstate)
  PROVE  Talk'
  <1>1. CASE (AppStop \/ AppCleanup) /\ phase = "INVALID"
    <2>1. /\ pc \in {"idle", "fatal"} /\ phase' = "INVALID" /\ pc' \in {"idle", "close"}
          /\ UNCHANGED <<link, song>> /\ sending' = <<>>
          BY <1>1, StopFacts DEF AppStop, AppCleanup
    <2>2. sending = <<>> BY <2>1 DEF Control, ClientControl, SendingAt
    <2>3. Quiet BY <1>1, <2>1, TalkOfClient
    <2>4. Quiet' BY <2>1, <2>2, <2>3, Alone DEF Quiet
    <2> QED BY <2>4 DEF Talk
  <1>2. CASE \E newstate \in {0, 1} : AppSetFilter(newstate)
    <2>1. /\ pc = "idle" /\ phase # "INVALID" /\ UNCHANGED <<link, back, song, phase>>
          BY <1>2 DEF AppSetFilter, songstate
    <2>2. sending = <<>> /\ state["client"] = "R"
          BY <2>1 DEF Control, ClientControl, SendingAt, StateAt
    <2>3. UNCHANGED <<pc, sending>> BY <1>2, <2>2 DEF AppSetFilter
    <2> QED BY <2>1, <2>2, <2>3, Alone, TalkKept
  <1> QED BY <1>1, <1>2

LEMMA ClientTalkSteps ==
  ASSUME Control, Control', Talk, BothOpen, BothOpen', ~FilterWhenIdle, UNCHANGED core,
         (\E dead \in BOOLEAN : ClientStep(dead)) \/ App \/ ClientDies
  PROVE  Talk'
  <1>1. CASE uade_new_state \/ AwaitAnswer \/ BeginEvents BY <1>1, BeginningTalk
  <1>2. CASE ReceiveAnswer BY <1>2, ReceiveAnswerTalk
  <1>3. CASE ReceiveTurn BY <1>3, ReceiveTurnTalk
  <1>4. CASE InitializationFails \/ receive_messages_fails \/ PendingEventsFail
        BY <1>4, FailsTalk
  <1>5. CASE Requested BY <1>5, ListeningTalk
  <1>6. CASE GetEvent BY <1>6, ListeningTalk, FirstRequestTalk
  <1>7. CASE receive_messages BY <1>7, ReceiveMessagesTalk
  <1>8. CASE send_file_back BY <1>8, BeginReplyTalk
  <1>9. CASE SendReply BY <1>9, SendReplyTalk
  <1>10. CASE get_pending_events("drain") \/ get_pending_events("settle")
         BY <1>10, PendingEventsTalk
  <1>11. CASE OrderReboot \/ AwaitReboot \/ Stopped BY <1>11, StoppingTalk
  <1>12. CASE FilterSent BY <1>12, TalkOfClient DEF FilterSent
  <1>13. CASE ClientDies \/ CloseLink
    <2>1. pc' \in {"gone", "wait"} BY <1>13 DEF ClientDies, CloseLink, GoTo
    <2> QED BY <2>1 DEF Control, ClientControl, BothOpen
  <1>14. CASE \E dead \in BOOLEAN : WaitForCore(dead)
    <2>1. pc' = "gone" BY <1>14 DEF WaitForCore, GoTo
    <2> QED BY <2>1 DEF Control, ClientControl, BothOpen
  <1>15. CASE ClientSend BY <1>15, ClientSendTalk
  <1>16. CASE App
    <2>1. CASE AppPlay BY <2>1, PlayTalk
    <2>2. CASE AppPlayNoSong \/ AppNextSubsong BY <2>2, BeginningTalk
    <2>3. CASE AppGetEvent BY <2>3, ListeningTalk
    <2>4. CASE AppStop \/ AppCleanup BY <2>4, ListeningTalk, IdleTalk
    <2>5. CASE \E newstate \in {0, 1} : AppSetFilter(newstate) BY <2>5, IdleTalk
    <2> QED BY <1>16, <2>1, <2>2, <2>3, <2>4, <2>5 DEF App
  <1>17. CASE \E dead \in BOOLEAN : ClientStep(dead)
    <2>1. PICK dead \in BOOLEAN : ClientStep(dead) BY <1>17
    <2>2. CASE WaitForCore(dead) BY <2>2, <1>14
    <2> QED BY <2>1, <2>2, <1>1, <1>2, <1>3, <1>4, <1>5, <1>6, <1>7, <1>8, <1>9, <1>10, <1>11,
               <1>12, <1>13, <1>15 DEF ClientStep
  <1> QED BY <1>13, <1>16, <1>17
------------------------------------------------------------------------------
(* The steps of uadecore: one message less to hear for it. *)
LEMMA CoreTakes ==
  ASSUME Control, Control', UNCHANGED client, NEW type,
         NEW place \in {"option", "score", "player", "playerdata", "module", "moduledata",
                        "token", "rstate"},
         CoreReceive(place, type), type # "REQUEST_AMIGA_FILE"
  PROVE  /\ at = place /\ out = <<>> /\ CoreHears' = Tail(CoreHears) /\ CoreHears # <<>>
         /\ Next_message = CoreHears[1] /\ CoreHears[1].type = type
         /\ CoreHears \in Seq(Message) /\ CoreHears[1] \in Message
         /\ CoreHears' = <<>> <=> Len(CoreHears) = 1
         /\ Len(CoreHears) \in Nat \ {0} /\ Len(CoreHears') = Len(CoreHears) - 1
         /\ ClientHears' = ClientHears \o out'
         /\ out' = <<>> => ClientHears' = ClientHears
         /\ state'["client"] = state["client"]
         /\ UNCHANGED <<pc, phase, back, song, sending>>
  <1>1. UNCHANGED <<pc, phase, back, song, sending>> BY DEF client, call, songstate
  <1>2. /\ at = place /\ out = <<>> /\ Next_message.type = type
        /\ inbox["core"] # <<>> /\ inbox'["core"] = Tail(inbox["core"])
        /\ inbox'["client"] = inbox["client"] /\ state'["client"] = state["client"]
        BY CoreReceives DEF ClientSideKept
  <1>3. /\ ClientHears' = ClientHears \o out' /\ CoreHears' = Tail(CoreHears)
        /\ CoreHears # <<>> /\ Next_message = CoreHears[1]
        BY <1>1, <1>2, CoreListens
  <1>4. CoreHears \in Seq(Message) /\ ClientHears \in Seq(Message) BY Heard
  <1>5. /\ CoreHears[1] \in Message /\ Len(CoreHears) \in Nat \ {0}
        /\ Len(Tail(CoreHears)) = Len(CoreHears) - 1
        /\ Tail(CoreHears) = <<>> <=> Len(CoreHears) = 1
        BY <1>3, <1>4, TailWord
  <1>6. out' = <<>> => ClientHears' = ClientHears BY <1>3, <1>4, WithoutWord
  <1> QED BY <1>1, <1>2, <1>3, <1>4, <1>5, <1>6

(* And what it does of its own accord. *)
LEMMA CoreSpeaksAlone ==
  ASSUME Control, Control', UNCHANGED <<link, client>>, out = <<>>
  PROVE  /\ CoreHears' = CoreHears /\ ClientHears' = ClientHears \o out'
         /\ out' = <<>> => ClientHears' = ClientHears
         /\ UNCHANGED <<pc, phase, back, song, sending, state>>
  <1>1. UNCHANGED <<pc, phase, back, song, sending, state>>
        BY DEF client, call, songstate, link
  <1>2. CoreHears' = CoreHears /\ ClientHears' = ClientHears \o out'
        BY <1>1, CoreThinks
  <1>3. ClientHears \in Seq(Message) BY Heard
  <1> QED BY <1>1, <1>2, <1>3, WithoutWord

LEMMA CoreSendTalk ==
  ASSUME Control, Control', Talk, BothOpen, BothOpen', CoreSend, UNCHANGED client
  PROVE  Talk'
  <1> DEFINE m == Head(out)
  <1>1. /\ out # <<>> /\ out \in Seq(Message) /\ AllIn(out, ToClient \cup {"TOKEN"})
        /\ state["core"] = "S" /\ LinkTyped
        BY CoreFacts DEF CoreSend, Control, CoreControl, Typed
  <1>2. duty["core"] = "none"
        BY <1>1 DEF Control, CoreControl, BothOpen, Dead
  <1>3. m \in Message /\ m.type # "REQUEST_AMIGA_FILE"
        BY <1>1, TailWord DEF ToClient
  <1>4. ClientOpen /\ CoreOpen BY DEF BothOpen
  <1>5. /\ Link!SendMessage("core", m) /\ out' = Tail(out) /\ UNCHANGED duty
        /\ UNCHANGED <<at, read_size, reboot>>
        BY <1>1, <1>4 DEF CoreSend, ClientOpen, sound
  <1> HIDE DEF m
  <1>6. /\ state'["client"] = state["client"] /\ inbox'["core"] = inbox["core"]
        /\ inbox'["client"] = Append(inbox["client"], m)
        BY <1>1, <1>2, <1>3, <1>4, <1>5, CoreSends
  <1>7. UNCHANGED <<pc, phase, back, song, sending>> BY DEF client, call, songstate
  <1>8. CoreHears' = CoreHears /\ ClientHears' = ClientHears
        BY <1>1, <1>5, <1>6, <1>7, CoreSays DEF m
  <1> QED BY <1>5, <1>6, <1>7, <1>8, TalkKept

LEMMA CoreBeginsTalk ==
  ASSUME Control, Control', Talk, BothOpen, CoreBeginReceive, UNCHANGED client
  PROVE  Talk'
  <1>1. /\ UNCHANGED <<at, out, read_size, reboot>> /\ Link!BeginReceive("core")
        BY DEF CoreBeginReceive, core, control, sound
  <1>2. LinkTyped /\ CoreOpen BY CoreFacts DEF BothOpen
  <1>3. state'["client"] = state["client"] /\ UNCHANGED inbox BY <1>1, <1>2, CoreBegins
  <1>4. UNCHANGED <<pc, phase, back, song, sending>> BY DEF client, call, songstate
  <1>5. CoreHears' = CoreHears /\ ClientHears' = ClientHears
        BY <1>1, <1>3, <1>4 DEF CoreHears, ClientHears
  <1> QED BY <1>1, <1>3, <1>4, <1>5, TalkKept
------------------------------------------------------------------------------
(* uadecore_reset() receives a song message by message. *)
LEMMA LoadingNext ==
  ASSUME Control, NEW module \in BOOLEAN, NEW n \in 0 .. 6, LoadingAt(module, n),
         n < LoadLength(module) - 1,
         CoreHears' = Tail(CoreHears), ClientHears' = ClientHears,
         UNCHANGED <<pc, read_size>>, NEW k \in 0 .. 7, k = n + 2,
         at' \in LoadPlaces(module)[k]
  PROVE  Loading'
  <1>1. PICK q \in Seq(Message) : q = CoreHears BY Heard
  <1>2. PICK l \in 6 .. 7 : l = LoadLength(module) BY LoadTable
  <1>3. PICK r \in Seq(Message) : r = Tail(q)
    <2>1. Len(q) = l - n BY <1>1, <1>2 DEF LoadingAt
    <2>2. q # <<>> BY <1>2, <2>1, WithoutWord
    <2> QED BY <2>2, TailWord
  <1>4. /\ Len(q) = l - n /\ Len(r) = Len(q) - 1
        /\ \A i \in 1 .. Len(r) : r[i] = q[i + 1]
        /\ Len(r) = l - (n + 1)
    <2>1. Len(q) = l - n BY <1>1, <1>2 DEF LoadingAt
    <2>2. q # <<>> BY <1>2, <2>1, WithoutWord
    <2>3. Len(r) = Len(q) - 1 /\ \A i \in 1 .. Len(r) : r[i] = q[i + 1]
          BY <1>3, <2>2, TailWord
    <2> QED BY <2>1, <2>3
  <1>5. ASSUME NEW i \in 1 .. Len(r)
        PROVE  /\ r[i].type = LoadTypes(module)[(n + 1) + i]
               /\ r[i].type = "FILE" => (r[i].last <=> (n + 1) + i = 5 /\ ~module)
    <2>1. PICK j \in 1 .. Len(q) : j = i + 1 /\ n + j = (n + 1) + i BY <1>2, <1>4
    <2>2. /\ q[j].type = LoadTypes(module)[n + j]
          /\ q[j].type = "FILE" => (q[j].last <=> n + j = 5 /\ ~module)
          BY <1>1, <2>1 DEF LoadingAt
    <2> QED BY <1>4, <2>1, <2>2
  <1>6. /\ n + 1 \in 0 .. LoadLength(module) - 1 /\ n + 1 \in 0 .. 6
        /\ (n + 1) + 1 = k /\ Len(r) = LoadLength(module) - (n + 1)
        BY <1>2, <1>4
  <1>7. CoreHears' = r BY <1>1, <1>3
  <1>8. pc \in {"init", "answer"} /\ ClientHears = <<>> /\ read_size = 0 BY DEF LoadingAt
  <1>9. LoadingAt(module, n + 1)' BY <1>5, <1>6, <1>7, <1>8 DEF LoadingAt
  <1> QED BY <1>6, <1>9, LoadingAfter

LEMMA LoadTalk ==
  ASSUME Control, Control', Talk, BothOpen, UNCHANGED client,
         ReceiveScore \/ ReceivePlayer \/ ReceiveModule
  PROVE  Talk'
  <1>1. CASE ReceiveScore
    <2>1. CoreReceive("score", "SCORE") /\ at' = "player" /\ UNCHANGED <<out, read_size>>
          BY <1>1 DEF ReceiveScore, sound
    <2>2. /\ at = "score" /\ CoreHears' = Tail(CoreHears) /\ ClientHears' = ClientHears
          /\ CoreHears # <<>> /\ UNCHANGED pc
          BY <2>1, CoreTakes
    <2>3. Loading BY <2>2, TalkOfCore, Places
    <2>4. PICK module \in BOOLEAN, n \in 0 .. 6 : LoadingAt(module, n) BY <2>3, LoadingFacts
    <2>5. n = 1 BY <2>2, <2>4, LoadingFacts
    <2>6. LoadLength(module) \in 6 .. 7 /\ at' \in LoadPlaces(module)[3] BY <2>1, LoadTable
    <2>7. n < LoadLength(module) - 1 /\ 3 = n + 2 /\ 3 \in 0 .. 7 BY <2>5, <2>6
    <2>8. Loading' BY <2>1, <2>2, <2>4, <2>6, <2>7, LoadingNext
    <2> QED BY <2>8 DEF Talk
  <1>2. CASE ReceivePlayer
    <2>1. /\ UNCHANGED <<out, read_size>>
          /\ \/ CoreReceive("player", "FILE") /\ at' = "playerdata"
             \/ CoreReceive("playerdata", "FILE_DATA") /\ at' = "module"
          BY <1>2 DEF ReceivePlayer, sound
    <2>2. /\ CoreHears' = Tail(CoreHears) /\ ClientHears' = ClientHears /\ UNCHANGED pc
          /\ \/ at = "player" /\ at' = "playerdata"
             \/ at = "playerdata" /\ at' = "module"
          BY <2>1, CoreTakes
    <2>3. Loading BY <2>2, TalkOfCore
    <2>4. PICK module \in BOOLEAN, n \in 0 .. 6 : LoadingAt(module, n) BY <2>3, LoadingFacts
    <2>5. LoadLength(module) \in 6 .. 7 BY LoadTable
    <2>6. CASE at = "player"
      <3>1. n = 2 /\ at' = "playerdata" BY <2>2, <2>4, <2>6, LoadingFacts
      <3>2. at' \in LoadPlaces(module)[4] BY <3>1, LoadTable
      <3>3. n < LoadLength(module) - 1 /\ 4 = n + 2 /\ 4 \in 0 .. 7 BY <2>5, <3>1
      <3>4. Loading' BY <2>1, <2>2, <2>4, <3>2, <3>3, LoadingNext
      <3> QED BY <3>4 DEF Talk
    <2>7. CASE at = "playerdata"
      <3>1. n = 3 /\ at' = "module" BY <2>2, <2>4, <2>7, LoadingFacts
      <3>2. at' \in LoadPlaces(module)[5] BY <3>1, LoadTable
      <3>3. n < LoadLength(module) - 1 /\ 5 = n + 2 /\ 5 \in 0 .. 7 BY <2>5, <3>1
      <3>4. Loading' BY <2>1, <2>2, <2>4, <3>2, <3>3, LoadingNext
      <3> QED BY <3>4 DEF Talk
    <2> QED BY <2>2, <2>6, <2>7
  <1>3. CASE ReceiveModule
    <2>1. /\ UNCHANGED <<out, read_size>>
          /\ \/ /\ CoreReceive("module", "FILE")
                /\ at' = (IF Next_message.last THEN "token" ELSE "moduledata")
             \/ CoreReceive("moduledata", "FILE_DATA") /\ at' = "token"
          BY <1>3 DEF ReceiveModule, LoadSong
    <2>2. /\ CoreHears' = Tail(CoreHears) /\ ClientHears' = ClientHears /\ UNCHANGED pc
          /\ CoreHears # <<>>
          /\ \/ /\ at = "module" /\ CoreHears[1].type = "FILE"
                /\ at' = (IF CoreHears[1].last THEN "token" ELSE "moduledata")
             \/ at = "moduledata" /\ at' = "token"
          BY <2>1, CoreTakes
    <2>3. Loading BY <2>2, TalkOfCore
    <2>4. PICK module \in BOOLEAN, n \in 0 .. 6 : LoadingAt(module, n) BY <2>3, LoadingFacts
    <2>5. LoadLength(module) \in 6 .. 7 BY LoadTable
    <2>6. CASE at = "module"
      <3>1. n = 4 BY <2>4, <2>6, LoadingFacts
      <3>2. CoreHears[1].last <=> ~module
        <4>1. 1 \in 1 .. Len(CoreHears) BY <2>5, <2>4, <3>1 DEF LoadingAt
        <4>2. CoreHears[1].last <=> n + 1 = 5 /\ ~module
              BY <2>2, <2>4, <2>6, <4>1 DEF LoadingAt
        <4> QED BY <3>1, <4>2
      <3>3. at' \in LoadPlaces(module)[6]
        <4>1. CASE module BY <2>2, <2>6, <3>2, <4>1, LoadTable
        <4>2. CASE ~module BY <2>2, <2>6, <3>2, <4>2, LoadTable
        <4> QED BY <4>1, <4>2
      <3>4. n < LoadLength(module) - 1 /\ 6 = n + 2 /\ 6 \in 0 .. 7 BY <2>5, <3>1
      <3>5. Loading' BY <2>1, <2>2, <2>4, <3>3, <3>4, LoadingNext
      <3> QED BY <3>5 DEF Talk
    <2>7. CASE at = "moduledata"
      <3>1. n = 5 /\ module /\ at' = "token" BY <2>2, <2>4, <2>7, LoadingFacts
      <3>2. at' \in LoadPlaces(module)[7] /\ LoadLength(module) = 7 BY <3>1, LoadTable
      <3>5. LoadLength(module) = 7 /\ n = 5 BY <3>1, <3>2
      <3>6. 5 < 7 - 1 /\ 7 = 5 + 2 /\ 7 \in 0 .. 7 OBVIOUS
      <3>3. n < LoadLength(module) - 1 /\ 7 = n + 2 /\ 7 \in 0 .. 7 BY <3>5, <3>6
      <3>4. Loading' BY <2>1, <2>2, <2>4, <3>2, <3>3, LoadingNext
      <3> QED BY <3>4 DEF Talk
    <2> QED BY <2>2, <2>6, <2>7
  <1> QED BY <1>1, <1>2, <1>3

LEMMA ResetTalk ==
  ASSUME Control, Control', Talk, BothOpen, UNCHANGED client,
         uadecore_option \/ invalidate_amiga_file_cache
  PROVE  Talk'
  <1>1. CASE uadecore_option
    <2>1. CoreReceive("option", "CONFIG") /\ at' = "reset" /\ UNCHANGED <<out, read_size>>
          BY <1>1 DEF uadecore_option, sound
    <2>2. /\ at = "option" /\ CoreHears' = Tail(CoreHears) /\ ClientHears' = ClientHears
          /\ CoreHears' = <<>> <=> Len(CoreHears) = 1
          /\ UNCHANGED <<pc, phase>>
          BY <2>1, CoreTakes
    <2>3. CASE Quiet
      <3>1. Quiet' BY <2>1, <2>2, <2>3 DEF Quiet
      <3> QED BY <3>1 DEF Talk
    <2>4. CASE Loading
      <3>1. PICK module \in BOOLEAN, n \in 0 .. 6 : LoadingAt(module, n) BY <2>4, LoadingFacts
      <3>2. n = 0 BY <2>2, <3>1, LoadingFacts
      <3>3. LoadLength(module) \in 6 .. 7 /\ at' \in LoadPlaces(module)[2] BY <2>1, LoadTable
      <3>4. n < LoadLength(module) - 1 /\ 2 = n + 2 /\ 2 \in 0 .. 7 BY <3>2, <3>3
      <3>5. Loading' BY <2>1, <2>2, <3>1, <3>3, <3>4, LoadingNext
      <3> QED BY <3>5 DEF Talk
    <2> QED BY <2>2, <2>3, <2>4, TalkOfCore
  <1>2. CASE invalidate_amiga_file_cache
    <2>1. /\ at = "reset" /\ at' = "score" /\ out = <<>> /\ UNCHANGED <<link, out, read_size, reboot>>
          BY <1>2 DEF invalidate_amiga_file_cache, sound
    <2>2. /\ CoreHears' = CoreHears /\ ClientHears' = ClientHears
          /\ UNCHANGED <<pc, phase, state>>
          BY <2>1, CoreSpeaksAlone
    <2>3. CASE Quiet
      <3>1. Quiet' BY <2>1, <2>2, <2>3 DEF Quiet
      <3> QED BY <3>1 DEF Talk
    <2>4. CASE Loading
      <3>1. PICK module \in BOOLEAN, n \in 0 .. 6 : LoadingAt(module, n) BY <2>4, LoadingFacts
      <3>2. n = 1 BY <2>1, <3>1, LoadingFacts
      <3>3. at' \in LoadPlaces(module)[1 + 1] BY <2>1, LoadTable
      <3>4. LoadingAt(module, n)' BY <2>1, <2>2, <3>1, <3>2, <3>3 DEF LoadingAt
      <3>5. Loading' BY <3>4, LoadingAfter
      <3> QED BY <3>5 DEF Talk
    <2>5. CASE Answering
      <3>1. Answering' BY <2>1, <2>2, <2>5 DEF Answering
      <3> QED BY <3>1 DEF Talk
    <2>6. CASE Rebooted
      <3>1. Rebooted' BY <2>1, <2>2, <2>6 DEF Rebooted
      <3> QED BY <3>1 DEF Talk
    <2> QED BY <2>1, <2>3, <2>4, <2>5, <2>6, TalkOfCore
  <1> QED BY <1>1, <1>2

LEMMA AnswerSongTalk ==
  ASSUME Control, Control', Talk, BothOpen, UNCHANGED client, AnswerSong
  PROVE  Talk'
  <1>1. /\ CoreReceive("token", "TOKEN") /\ UNCHANGED <<read_size, reboot>>
        /\ at' = (IF canPlay THEN "begin" ELSE "score")
        /\ out' = <<Msg(IF canPlay THEN "CAN_PLAY" ELSE "CANT_PLAY", coreSong, 0), Token(coreSong)>>
        BY DEF AnswerSong, sound
  <1>2. /\ at = "token" /\ CoreHears' = Tail(CoreHears) /\ ClientHears' = ClientHears \o out'
        /\ CoreHears' = <<>> <=> Len(CoreHears) = 1
        /\ UNCHANGED pc
        BY <1>1, CoreTakes
  <1>3. Loading BY <1>2, TalkOfCore
  <1>4. PICK module \in BOOLEAN, n \in 0 .. 6 : LoadingAt(module, n) BY <1>3, LoadingFacts
  <1>5. Len(CoreHears) = 1
    <2>1. n = (IF module THEN 6 ELSE 5) BY <1>2, <1>4, LoadingFacts
    <2>2. Len(CoreHears) = LoadLength(module) - n BY <1>4 DEF LoadingAt
    <2>3. CASE module
      <3>1. n = 6 /\ LoadLength(module) = 7 BY <2>1, <2>3, LoadTable
      <3> QED BY <2>2, <3>1
    <2>4. CASE ~module
      <3>1. n = 5 /\ LoadLength(module) = 6 BY <2>1, <2>4, LoadTable
      <3> QED BY <2>2, <3>1
    <2> QED BY <2>3, <2>4
  <1>6. pc \in {"init", "answer"} /\ ClientHears = <<>> /\ read_size = 0
        BY <1>4 DEF LoadingAt
  <1>7. coreSong \in 0 .. MaxSongs BY DEF Control, Typed
  <1>8. PICK x, t \in Message :
          /\ out' = <<x, t>> /\ t.type = "TOKEN"
          /\ x.type = (IF canPlay THEN "CAN_PLAY" ELSE "CANT_PLAY")
    <2>1. CASE canPlay
      <3>1. "CAN_PLAY" \in ToClient BY DEF ToClient
      <3>2. /\ Msg("CAN_PLAY", coreSong, 0) \in Message
            /\ Msg("CAN_PLAY", coreSong, 0).type = "CAN_PLAY"
            /\ Token(coreSong) \in Message /\ Token(coreSong).type = "TOKEN"
            BY <1>7, <3>1, CoreWords
      <3> QED BY <1>1, <2>1, <3>2
    <2>2. CASE ~canPlay
      <3>1. "CANT_PLAY" \in ToClient BY DEF ToClient
      <3>2. /\ Msg("CANT_PLAY", coreSong, 0) \in Message
            /\ Msg("CANT_PLAY", coreSong, 0).type = "CANT_PLAY"
            /\ Token(coreSong) \in Message /\ Token(coreSong).type = "TOKEN"
            BY <1>7, <3>1, CoreWords
      <3> QED BY <1>1, <2>2, <3>2
    <2> QED BY <2>1, <2>2
  <1>9. /\ <<x, t>> \in Seq(Message) /\ Len(<<x, t>>) = 2 /\ <<x, t>>[1] = x
        /\ EndsWith(<<x, t>>, "TOKEN")
    <2>1. x.type # "TOKEN" BY <1>8
    <2> QED BY <1>8, <2>1, PairWord
  <1>10. ClientHears' = <<x, t>> BY <1>2, <1>6, <1>8, <1>9, WithoutWord
  <1>11. /\ EndsWith(ClientHears', "TOKEN") /\ Len(ClientHears') = 2
         /\ ClientHears'[1].type = (IF canPlay THEN "CAN_PLAY" ELSE "CANT_PLAY")
         BY <1>8, <1>9, <1>10
  <1>12. canPlay => ~reboot BY <1>2 DEF Control, CoreControl
  <1>13. Answering' BY <1>1, <1>2, <1>5, <1>6, <1>11, <1>12 DEF Answering
  <1> QED BY <1>13 DEF Talk

LEMMA BeginSongTalk ==
  ASSUME Control, Control', Talk, BothOpen, UNCHANGED client, BeginSong
  PROVE  Talk'
  <1>1. /\ at = "begin" /\ at' = "rstate" /\ out = <<>> /\ UNCHANGED <<link, out, read_size, reboot>>
        BY DEF BeginSong
  <1>2. /\ CoreHears' = CoreHears /\ ClientHears' = ClientHears
        /\ UNCHANGED <<pc, phase, state>>
        BY <1>1, CoreSpeaksAlone
  <1>3. CASE Answering
    <2>1. Answering' BY <1>1, <1>2, <1>3 DEF Answering
    <2> QED BY <2>1 DEF Talk
  <1>4. CASE Opening
    <2>1. Opening' BY <1>1, <1>2, <1>4 DEF Opening
    <2> QED BY <2>1 DEF Talk
  <1>5. CASE Ordered
    <2>1. Listening' BY <1>2, <1>5 DEF Ordered, Listening
    <2>2. Ordered' BY <1>1, <1>2, <1>5, <2>1 DEF Ordered
    <2> QED BY <2>2 DEF Talk
  <1> QED BY <1>1, <1>3, <1>4, <1>5, TalkOfCore
------------------------------------------------------------------------------
(* uadecore_handle_r_state(): the orders, the read request and the turn. *)
LEMMA OrdersTalk ==
  ASSUME Control, Control', Talk, BothOpen, UNCHANGED client,
         change_subsong \/ audio_set_filter \/ add_ep_option
  PROVE  Talk'
  <1>1. PICK type \in Orders :
          CoreReceive("rstate", type) /\ UNCHANGED <<at, out, read_size, reboot>>
        BY DEF change_subsong, audio_set_filter, add_ep_option, Orders, control, sound
  <1>2. /\ at = "rstate" /\ CoreHears' = Tail(CoreHears) /\ ClientHears' = ClientHears
        /\ CoreHears # <<>> /\ CoreHears[1].type \in Orders /\ CoreHears \in Seq(Message)
        /\ UNCHANGED <<pc, phase>> /\ state'["client"] = state["client"]
    <2>1. type # "REQUEST_AMIGA_FILE" BY DEF Orders
    <2> QED BY <1>1, <2>1, CoreTakes
  <1>3. CASE Opening
    <2>1. AllIn(CoreHears', Orders) BY <1>2, <1>3, TailWord DEF Opening
    <2>2. Opening' BY <1>1, <1>2, <1>3, <2>1 DEF Opening
    <2> QED BY <2>2 DEF Talk
  <1>4. CASE Ordered
    <2>1. Listening' BY <1>2, <1>4 DEF Ordered, Listening
    <2>2. OrderedWord(CoreHears) BY <1>4 DEF Ordered, OrderedWord
    <2>3. /\ OrderedWord(CoreHears') /\ Len(CoreHears) > 2 /\ Len(CoreHears') = Len(CoreHears) - 1
          /\ Len(CoreHears) \in Nat
          BY <1>2, <2>2, OrderedTail
    <2>4. /\ CoreHears' # <<>>
          /\ \A i \in 1 .. Len(CoreHears') :
               CoreHears'[i].type \in (IF i = Len(CoreHears') THEN {"TOKEN"}
                                       ELSE IF i = Len(CoreHears') - 1 THEN {"READ"} ELSE Orders)
          BY <2>3 DEF OrderedWord
    <2>5. read_size' = 0 <=> Len(CoreHears') > 1
      <3>1. Len(CoreHears) > 1 /\ Len(CoreHears') > 1 BY <2>3
      <3>2. read_size = 0 BY <1>4, <3>1 DEF Ordered
      <3> QED BY <1>1, <3>1, <3>2
    <2>6. Ordered' BY <1>1, <1>2, <1>4, <2>1, <2>4, <2>5 DEF Ordered
    <2> QED BY <2>6 DEF Talk
  <1>5. CASE Rebooting
    <2>1. EndsWith(CoreHears, "TOKEN") /\ (Len(CoreHears) = 1 \/ CoreHears[1].type = "REBOOT")
          BY <1>5 DEF Rebooting
    <2>2. CASE Len(CoreHears) = 1
      <3>1. 1 \in 1 .. Len(CoreHears) /\ 1 = Len(CoreHears) BY <2>2
      <3>2. CoreHears[1].type = "TOKEN" BY <2>1, <3>1 DEF EndsWith
      <3> QED BY <3>2, <1>2 DEF Orders
    <2>3. CASE CoreHears[1].type = "REBOOT" BY <2>3, <1>2 DEF Orders
    <2> QED BY <2>1, <2>2, <2>3
  <1> QED BY <1>2, <1>3, <1>4, <1>5, TalkOfCore, Places

LEMMA CommandReadTalk ==
  ASSUME Control, Control', Talk, BothOpen, UNCHANGED client, CommandRead
  PROVE  Talk'
  <1>1. /\ CoreReceive("rstate", "READ") /\ UNCHANGED <<at, out, reboot>> /\ read_size = 0
        /\ read_size' = Next_message.body.arg /\ Next_message.body.arg > 0
        BY DEF CommandRead, control
  <1>2. /\ at = "rstate" /\ CoreHears' = Tail(CoreHears) /\ ClientHears' = ClientHears
        /\ CoreHears # <<>> /\ CoreHears[1].type = "READ" /\ CoreHears \in Seq(Message)
        /\ UNCHANGED <<pc, phase>> /\ state'["client"] = state["client"]
        BY <1>1, CoreTakes
  <1>3. read_size' # 0
    <2>1. read_size' \in Nat BY DEF Control, Typed
    <2> QED BY <1>1, <2>1
  <1>4. ~Opening
    <2>1. AllIn(CoreHears, Orders) => CoreHears[1].type \in Orders BY <1>2, TailWord
    <2> QED BY <1>2, <2>1 DEF Opening, Orders
  <1>5. ~Rebooting
    <2>1. SUFFICES ASSUME Rebooting PROVE FALSE OBVIOUS
    <2>2. EndsWith(CoreHears, "TOKEN") /\ (Len(CoreHears) = 1 \/ CoreHears[1].type = "REBOOT")
          BY <2>1 DEF Rebooting
    <2>3. Len(CoreHears) = 1 BY <1>2, <2>2
    <2>4. 1 \in 1 .. Len(CoreHears) /\ 1 = Len(CoreHears) BY <2>3
    <2> QED BY <1>2, <2>2, <2>4 DEF EndsWith
  <1>6. Ordered BY <1>2, <1>4, <1>5, TalkOfCore, Places
  <1>7. Listening' BY <1>2, <1>6 DEF Ordered, Listening
  <1>8. OrderedWord(CoreHears) BY <1>6 DEF Ordered, OrderedWord
  <1>9. OrderedWord(CoreHears') /\ Len(CoreHears') = 1
    <2>1. PICK q \in Seq(Message) : q = CoreHears BY <1>2
    <2>2. OrderedWord(q) BY <1>8, <2>1
    <2>3. q[1].type = "READ" BY <1>2, <2>1
    <2>4. Len(q) = 2 BY <2>2, <2>3, OrderedTail
    <2>5. OrderedWord(Tail(q)) /\ Len(Tail(q)) = Len(q) - 1 BY <2>2, <2>4, OrderedTail
    <2>6. Len(Tail(q)) = 1 BY <2>4, <2>5
    <2> QED BY <1>2, <2>1, <2>5, <2>6
  <1>10. /\ CoreHears' # <<>>
         /\ \A i \in 1 .. Len(CoreHears') :
              CoreHears'[i].type \in (IF i = Len(CoreHears') THEN {"TOKEN"}
                                      ELSE IF i = Len(CoreHears') - 1 THEN {"READ"} ELSE Orders)
         BY <1>9 DEF OrderedWord
  <1>11. read_size' = 0 <=> Len(CoreHears') > 1 BY <1>3, <1>9
  <1>12. Ordered' BY <1>1, <1>2, <1>6, <1>7, <1>10, <1>11 DEF Ordered
  <1> QED BY <1>12 DEF Talk

LEMMA CommandRebootTalk ==
  ASSUME Control, Control', Talk, BothOpen, UNCHANGED client, CommandReboot
  PROVE  Talk'
  <1>1. CoreReceive("rstate", "REBOOT") /\ UNCHANGED <<at, out, read_size>> /\ reboot'
        BY DEF CommandReboot, control, sound
  <1>2. /\ at = "rstate" /\ CoreHears' = Tail(CoreHears) /\ ClientHears' = ClientHears
        /\ CoreHears # <<>> /\ CoreHears[1].type = "REBOOT" /\ CoreHears \in Seq(Message)
        /\ Len(CoreHears) \in Nat /\ Len(CoreHears') = Len(CoreHears) - 1
        /\ UNCHANGED <<pc, phase>> /\ state'["client"] = state["client"]
        BY <1>1, CoreTakes
  <1>3. ~Opening
    <2>1. AllIn(CoreHears, Orders) => CoreHears[1].type \in Orders BY <1>2, TailWord
    <2> QED BY <1>2, <2>1 DEF Opening, Orders
  <1>4. ~Ordered
    <2>1. SUFFICES ASSUME Ordered PROVE FALSE OBVIOUS
    <2>2. OrderedWord(CoreHears) BY <2>1 DEF Ordered, OrderedWord
    <2> QED BY <1>2, <2>2, OrderedTail DEF Orders
  <1>5. Rebooting BY <1>2, <1>3, <1>4, TalkOfCore, Places
  <1>6. Len(CoreHears) = 2
    <2>1. EndsWith(CoreHears, "TOKEN") /\ (Len(CoreHears) = 1 \/ Len(CoreHears) = 2)
          BY <1>5 DEF Rebooting
    <2>2. ASSUME Len(CoreHears) = 1 PROVE FALSE
      <3>1. 1 \in 1 .. Len(CoreHears) /\ 1 = Len(CoreHears) BY <2>2
      <3> QED BY <1>2, <2>1, <3>1 DEF EndsWith
    <2> QED BY <2>1, <2>2
  <1>7. EndsWith(CoreHears', "TOKEN") /\ Len(CoreHears') = 1
    <2>1. Len(CoreHears') = 1 BY <1>2, <1>6
    <2>2. CoreHears' # <<>>
      <3>1. Tail(CoreHears) = <<>> <=> Len(CoreHears) = 1 BY <1>2, TailWord
      <3> QED BY <1>2, <1>6, <3>1
    <2>3. EndsWith(CoreHears, "TOKEN") BY <1>5 DEF Rebooting
    <2> QED BY <1>2, <2>1, <2>2, <2>3, TailWord
  <1>8. Rebooting' BY <1>1, <1>2, <1>5, <1>7 DEF Rebooting
  <1> QED BY <1>8 DEF Talk

LEMMA LeaveRStateTalk ==
  ASSUME Control, Control', Talk, BothOpen, UNCHANGED client, LeaveRState
  PROVE  Talk'
  <1>1. CoreReceive("rstate", "TOKEN") /\ UNCHANGED <<read_size, reboot>>
        BY DEF LeaveRState, sound
  <1>2. /\ at = "rstate" /\ CoreHears' = Tail(CoreHears) /\ ClientHears' = ClientHears \o out'
        /\ out' = <<>> => ClientHears' = ClientHears
        /\ CoreHears # <<>> /\ CoreHears[1].type = "TOKEN" /\ CoreHears \in Seq(Message)
        /\ CoreHears' = <<>> <=> Len(CoreHears) = 1
        /\ UNCHANGED <<pc, phase>> /\ state'["client"] = state["client"] /\ out = <<>>
        BY <1>1, CoreTakes
  <1>3. ~Opening
    <2>1. AllIn(CoreHears, Orders) => CoreHears[1].type \in Orders BY <1>2, TailWord
    <2> QED BY <1>2, <2>1 DEF Opening, Orders
  <1>4. CASE Ordered
    <2>1. ~reboot /\ ClientHears = <<>> /\ Listening BY <1>4 DEF Ordered
    <2>2. at' = "run" /\ out' = <<>> BY <1>2, <2>1 DEF LeaveRState
    <2>3. OrderedWord(CoreHears) BY <1>4 DEF Ordered, OrderedWord
    <2>4. Len(CoreHears) = 1 BY <1>2, <2>3, OrderedTail
    <2>5. read_size # 0 BY <1>4, <2>4 DEF Ordered
    <2>6. Listening' BY <1>2, <2>1 DEF Listening
    <2>7. ClientHears' = <<>> /\ CoreHears' = <<>> BY <1>2, <2>1, <2>2, <2>4
    <2>8. AllIn(ClientHears', News \ {"DATA"}) BY <2>7, NoWord
    <2>9. Running' BY <1>1, <2>2, <2>5, <2>6, <2>7, <2>8 DEF Running
    <2> QED BY <2>9 DEF Talk
  <1>5. CASE Rebooting
    <2>1. /\ EndsWith(CoreHears, "TOKEN") /\ ClientHears = <<>> /\ read_size = 0
          /\ pc \in {"reboot", "settle"}
          /\ \/ ~reboot /\ Len(CoreHears) = 2
             \/ reboot /\ Len(CoreHears) = 1
          BY <1>5 DEF Rebooting
    <2>2. CoreHears' = <<>> BY <1>2, <2>1, TailWord
    <2>3. reboot
      <3>1. Len(CoreHears) = 1 BY <1>2, <2>2
      <3>2. Len(CoreHears) # 2 BY <3>1
      <3> QED BY <2>1, <3>2
    <2>4. /\ at' = "reset"
          /\ \/ out' = <<Token(coreSong)>>
             \/ out' = <<Msg("SONG_END", coreSong, sndbuf), Token(coreSong)>>
          BY <2>3 DEF LeaveRState
    <2>5. out' \in Seq(Message) /\ EndsWith(out', "TOKEN") /\ AllIn(out', News \cup {"TOKEN"})
      <3>1. /\ Msg("SONG_END", coreSong, sndbuf) \in Message
            /\ Msg("SONG_END", coreSong, sndbuf).type = "SONG_END"
            /\ Token(coreSong) \in Message /\ Token(coreSong).type = "TOKEN"
        <4>1. coreSong \in 0 .. MaxSongs /\ sndbuf \in Nat BY DEF Control, Typed
        <4>2. "SONG_END" \in ToClient BY DEF ToClient
        <4> QED BY <4>1, <4>2, CoreWords
      <3>2. CASE out' = <<Token(coreSong)>> BY <3>1, <3>2, PairWord
      <3>3. CASE out' = <<Msg("SONG_END", coreSong, sndbuf), Token(coreSong)>>
        <4>1. "SONG_END" \in News BY DEF News
        <4>2. PICK x, t \in Message :
                /\ out' = <<x, t>> /\ x.type = "SONG_END" /\ t.type = "TOKEN"
              BY <3>1, <3>3
        <4>3. <<x, t>> \in Seq(Message) /\ EndsWith(<<x, t>>, "TOKEN") BY <4>2, PairWord
        <4>4. AllIn(<<x, t>>, News \cup {"TOKEN"}) BY <4>1, <4>2, ShortWord
        <4> QED BY <4>2, <4>3, <4>4
      <3> QED BY <2>4, <3>2, <3>3
    <2>6. ClientHears' = out' BY <1>2, <2>1, <2>5, WithoutWord
    <2>7. state["client"] = "R"
      <3>0. pc \in {"reboot", "settle"} BY <2>1
      <3>1. CASE pc = "settle" BY <1>5, <3>1 DEF Rebooting
      <3>2. CASE pc = "reboot"
        <4>1. sending = <<>>
          <5>1. Len(CoreHears) = 1 BY <2>1, <2>3
          <5>2. inbox["core"] # <<>> BY <1>1 DEF CoreReceive
          <5>3. PICK a, b \in Nat : a = Len(inbox["core"]) /\ b = Len(sending) BY Heard
          <5>4. a # 0 /\ a + b = 1 BY <5>1, <5>2, <5>3, Heard, WithoutWord
          <5>5. Len(sending) = 0 BY <5>3, <5>4
          <5> QED BY <5>5, Heard, WithoutWord
        <4> QED BY <3>2, <4>1 DEF Control, ClientControl, StateAt
      <3> QED BY <3>0, <3>1, <3>2
    <2>9. pc' \in {"reboot", "settle"} /\ at' \in {"reset", "score"} BY <1>2, <2>1, <2>4
    <2>10. read_size' = 0 /\ CoreHears' = <<>> /\ state'["client"] = "R"
           BY <1>1, <1>2, <2>1, <2>2, <2>7
    <2>11. EndsWith(ClientHears', "TOKEN") /\ AllIn(ClientHears', News \cup {"TOKEN"})
           BY <2>5, <2>6
    <2>8. Rebooted' BY <2>9, <2>10, <2>11 DEF Rebooted
    <2> QED BY <2>8 DEF Talk
  <1> QED BY <1>2, <1>3, <1>4, <1>5, TalkOfCore, Places
------------------------------------------------------------------------------
(* The Amiga program runs, and asks for files. *)
LEMMA FileArrivesTalk ==
  ASSUME Control, Control', Talk, BothOpen, UNCHANGED client, ReceiveAmigaFile
  PROVE  Talk'
  <1>1. /\ at \in {"file", "filedata"} /\ out = <<>> /\ inbox["core"] # <<>>
        /\ Link!ReceivePiece("core") /\ Next_message.type \in FileTypes
        /\ UNCHANGED <<read_size, reboot>>
        /\ at = "file" => Next_message.type = "FILE"
        BY DEF ReceiveAmigaFile, sound, Accepts, FileTypes
  <1>2. LinkTyped /\ CoreOpen BY CoreFacts DEF BothOpen
  <1>3. /\ inbox'["core"] = Tail(inbox["core"]) /\ inbox'["client"] = inbox["client"]
        /\ state'["client"] = state["client"]
        BY <1>1, <1>2, CoreTakesPiece
  <1>4. UNCHANGED <<pc, phase, back, song, sending>> BY DEF client, call, songstate
  <1>5. /\ ClientHears' = ClientHears \o out' /\ CoreHears' = Tail(CoreHears)
        /\ CoreHears # <<>> /\ Next_message = CoreHears[1] /\ CoreHears \in Seq(Message)
        BY <1>1, <1>3, <1>4, CoreListens, Heard
  <1>6. Delivering BY <1>1, <1>5, TalkOfCore, Places
  <1>7. /\ Listening \/ (pc = "reply" /\ back # "settle")
        /\ ClientHears = <<>> /\ read_size # 0
        BY <1>6 DEF Delivering
  <1>8. CASE ~Next_message.last
    <2>1. at' = "filedata" /\ out' = <<>> BY <1>1, <1>8 DEF ReceiveAmigaFile
    <2>2. /\ at = "file" /\ Len(CoreHears) = 2
          /\ CoreHears[2].type = "FILE_DATA" /\ CoreHears[2].last
          BY <1>5, <1>6, <1>8 DEF Delivering
    <2>3. Len(CoreHears') = 1 /\ CoreHears'[1] = CoreHears[2]
      <3>1. /\ Len(Tail(CoreHears)) = Len(CoreHears) - 1
            /\ \A i \in 1 .. Len(Tail(CoreHears)) : Tail(CoreHears)[i] = CoreHears[i + 1]
            BY <1>5, TailWord
      <3>2. Len(Tail(CoreHears)) = 1 BY <2>2, <3>1
      <3>4. 1 \in 1 .. Len(Tail(CoreHears)) BY <3>2
      <3>5. 1 + 1 = 2 OBVIOUS
      <3>3. Tail(CoreHears)[1] = CoreHears[2] BY <3>1, <3>4, <3>5
      <3> QED BY <1>5, <3>2, <3>3
    <2>4. ClientHears' = <<>> BY <1>5, <1>7, <2>1, NoWord, WithoutWord
    <2>5. Listening' \/ (pc' = "reply" /\ back' # "settle") BY <1>3, <1>4, <1>7 DEF Listening
    <2>6. Delivering' BY <1>1, <1>7, <2>1, <2>2, <2>3, <2>4, <2>5 DEF Delivering
    <2> QED BY <2>6 DEF Talk
  <1>9. CASE Next_message.last
    <2>1. at' = "run" /\ out' = <<Msg("MSG", coreSong, 0)>> BY <1>9 DEF ReceiveAmigaFile
    <2>2. Len(CoreHears) = 1 BY <1>5, <1>6, <1>9 DEF Delivering
    <2>3. CoreHears' = <<>> BY <1>5, <2>2, TailWord
    <2>4. out' \in Seq(Message) /\ AllIn(out', News \ {"DATA"})
      <3>1. coreSong \in 0 .. MaxSongs /\ "MSG" \in ToClient /\ "MSG" \in News \ {"DATA"}
            BY DEF Control, Typed, ToClient, News
      <3>2. Msg("MSG", coreSong, 0) \in Message /\ Msg("MSG", coreSong, 0).type = "MSG"
            BY <3>1, CoreWords
      <3>3. PICK x \in Message : out' = <<x>> /\ x.type = "MSG" BY <2>1, <3>2
      <3>4. <<x>> \in Seq(Message) BY <3>3, PairWord
      <3>5. AllIn(<<x>>, News \ {"DATA"}) BY <3>1, <3>3, ShortWord
      <3> QED BY <3>3, <3>4, <3>5
    <2>5. ClientHears' = out' BY <1>5, <1>7, <2>4, WithoutWord
    <2>6. Listening
      <3>1. sending = <<>>
        <4>1. PICK a, b \in Nat : a = Len(inbox["core"]) /\ b = Len(sending) BY Heard
        <4>2. a # 0 /\ a + b = 1 BY <1>1, <2>2, <4>1, Heard, WithoutWord
        <4>3. Len(sending) = 0 BY <4>1, <4>2
        <4> QED BY <4>3, Heard, WithoutWord
      <3>2. pc # "reply" BY <3>1 DEF Control, ClientControl, SendingAt
      <3> QED BY <1>7, <3>2
    <2>7. Listening' BY <1>3, <1>4, <2>6 DEF Listening
    <2>8. Running' BY <1>1, <1>7, <2>1, <2>3, <2>4, <2>5, <2>7 DEF Running
    <2> QED BY <2>8 DEF Talk
  <1> QED BY <1>8, <1>9

LEMMA EmulatesTalk ==
  ASSUME Control, Control', Talk, BothOpen, UNCHANGED client,
         at = "run", out = <<>>, UNCHANGED <<link, reboot, at>>, read_size' = read_size,
         AllIn(out', News \ {"DATA"})
  PROVE  Talk'
  <1>1. Running BY TalkOfCore
  <1>2. /\ CoreHears' = CoreHears /\ ClientHears' = ClientHears \o out'
        /\ UNCHANGED <<pc, phase, state>>
        BY CoreSpeaksAlone
  <1>3. ClientHears \in Seq(Message) /\ out' \in Seq(Message)
        BY Heard DEF Control, Typed
  <1>4. AllIn(ClientHears', News \ {"DATA"}) BY <1>1, <1>2, <1>3, JoinWord DEF Running
  <1>5. Listening' BY <1>1, <1>2 DEF Running, Listening
  <1>6. Running' BY <1>1, <1>2, <1>4, <1>5 DEF Running
  <1> QED BY <1>6 DEF Talk

LEMMA EmulateTalk ==
  ASSUME Control, Control', Talk, BothOpen, UNCHANGED client,
         \/ EmulateSubsongInfo \/ EmulateStartOutput \/ EmulateMessage
         \/ EmulateSongEnd \/ EmulateLed
  PROVE  Talk'
  <1>1. /\ at = "run" /\ out = <<>> /\ UNCHANGED <<link, at, reboot>> /\ read_size' = read_size
        /\ \/ UNCHANGED out
           \/ \E type \in {"SUBSONG_INFO", "MSG", "SONG_END"} : \E n \in {0, sndbuf} :
                out' = <<Msg(type, coreSong, n)>>
    <2>1. CASE EmulateSubsongInfo BY <2>1 DEF EmulateSubsongInfo, sound
    <2>2. CASE EmulateStartOutput BY <2>2 DEF EmulateStartOutput, control
    <2>3. CASE EmulateMessage BY <2>3 DEF EmulateMessage, sound
    <2>4. CASE EmulateSongEnd BY <2>4 DEF EmulateSongEnd
    <2>5. CASE EmulateLed BY <2>5 DEF EmulateLed, control, sound
    <2> QED BY <2>1, <2>2, <2>3, <2>4, <2>5
  <1>2. AllIn(out', News \ {"DATA"})
    <2>1. CASE UNCHANGED out BY <1>1, <2>1, NoWord
    <2>2. ASSUME NEW type \in {"SUBSONG_INFO", "MSG", "SONG_END"}, NEW n \in {0, sndbuf},
                 out' = <<Msg(type, coreSong, n)>>
          PROVE  AllIn(out', News \ {"DATA"})
      <3>1. type \in ToClient /\ type \in News \ {"DATA"} BY <2>2 DEF ToClient, News
      <3>2. n \in Nat /\ coreSong \in 0 .. MaxSongs BY <2>2 DEF Control, Typed
      <3>3. Msg(type, coreSong, n) \in Message /\ Msg(type, coreSong, n).type = type
            BY <3>1, <3>2, CoreWords
      <3>4. PICK x \in Message : out' = <<x>> /\ x.type = type BY <2>2, <3>3
      <3>5. AllIn(<<x>>, News \ {"DATA"}) BY <3>1, <3>4, ShortWord
      <3> QED BY <3>4, <3>5
    <2> QED BY <1>1, <2>1, <2>2
  <1> QED BY <1>1, <1>2, EmulatesTalk

LEMMA EmulateSoundTalk ==
  ASSUME Control, Control', Talk, BothOpen, UNCHANGED client, EmulateSound
  PROVE  Talk'
  <1>1. at = "run" /\ out = <<>> BY DEF EmulateSound
  <1>2. Running BY <1>1, TalkOfCore
  <1>3. read_size # 0 /\ CoreHears = <<>> /\ AllIn(ClientHears, News \ {"DATA"}) /\ Listening
        BY <1>2 DEF Running
  <1>4. UNCHANGED <<link, reboot>> BY <1>3 DEF EmulateSound
  <1>5. CASE at' = "rstate" /\ read_size' = 0
             /\ out' = <<Msg("DATA", coreSong, read_size), Token(coreSong)>>
    <2>1. /\ CoreHears' = CoreHears /\ ClientHears' = ClientHears \o out'
          /\ UNCHANGED <<pc, phase, state>>
          BY <1>1, <1>4, CoreSpeaksAlone
    <2>2. /\ out' \in Seq(Message) /\ EndsWith(out', "TOKEN") /\ AllIn(out', News \cup {"TOKEN"})
      <3>1. coreSong \in 0 .. MaxSongs /\ read_size \in Nat /\ "DATA" \in ToClient /\ "DATA" \in News
            BY DEF Control, Typed, ToClient, News
      <3>2. /\ Msg("DATA", coreSong, read_size) \in Message
            /\ Msg("DATA", coreSong, read_size).type = "DATA"
            /\ Token(coreSong) \in Message /\ Token(coreSong).type = "TOKEN"
            BY <3>1, CoreWords
      <3>3. PICK x, t \in Message :
              /\ out' = <<x, t>> /\ x.type = "DATA" /\ t.type = "TOKEN"
            BY <1>5, <3>2
      <3>4. <<x, t>> \in Seq(Message) /\ EndsWith(<<x, t>>, "TOKEN") BY <3>3, PairWord
      <3>5. AllIn(<<x, t>>, News \cup {"TOKEN"}) BY <3>1, <3>3, ShortWord
      <3> QED BY <3>3, <3>4, <3>5
    <2>3. ClientHears \in Seq(Message) BY Heard
    <2>4. ~Has(ClientHears, "TOKEN") /\ AllIn(ClientHears, News \cup {"TOKEN"})
      <3>1. "TOKEN" \notin News BY DEF News
      <3> QED BY <1>3, <3>1 DEF AllIn, Has
    <2>5. EndsWith(ClientHears', "TOKEN") /\ AllIn(ClientHears', News \cup {"TOKEN"})
          BY <2>1, <2>2, <2>3, <2>4, JoinWord
    <2>6. Listening' BY <1>3, <2>1 DEF Listening
    <2>7. ~reboot BY <1>1 DEF Control, CoreControl
    <2>8. Turning' BY <1>3, <1>4, <1>5, <2>1, <2>5, <2>6, <2>7 DEF Turning
    <2> QED BY <2>8 DEF Talk
  <1>6. CASE UNCHANGED <<at, out, read_size>>
    <2>1. AllIn(out', News \ {"DATA"}) BY <1>1, <1>6, NoWord
    <2> QED BY <1>1, <1>4, <1>6, <2>1, EmulatesTalk
  <1> QED BY <1>3, <1>5, <1>6 DEF EmulateSound, control

LEMMA LookupTalk ==
  ASSUME Control, Control', Talk, BothOpen, UNCHANGED client,
         NEW name \in 1 .. MaxFiles, lookup_amiga_file_cache(name)
  PROVE  Talk'
  <1> DEFINE m == Msg("REQUEST_AMIGA_FILE", coreSong, name)
  <1>1. /\ at = "run" /\ out = <<>> /\ at' = "file" /\ out' = <<>>
        /\ Link!RequestFile("core", m) /\ UNCHANGED <<read_size, reboot>>
        BY DEF lookup_amiga_file_cache, BothOpen, ClientOpen, sound
  <1>2. LinkTyped /\ CoreOpen /\ coreSong \in 0 .. MaxSongs /\ name \in Nat
        BY CoreFacts, SessionAssumption DEF BothOpen, Control, Typed
  <1>3. m \in Message /\ m.type = "REQUEST_AMIGA_FILE"
        BY <1>2, CoreWords
  <1>4. duty["core"] = "none" BY <1>1, <1>2 DEF Control, CoreControl
  <1> HIDE DEF m
  <1>5. /\ state'["client"] = state["client"] /\ inbox'["core"] = inbox["core"]
        /\ inbox'["client"] = Append(inbox["client"], m)
        BY <1>1, <1>2, <1>3, <1>4, CoreAsksForFile
  <1>6. UNCHANGED <<pc, phase, back, song, sending>> BY DEF client, call, songstate
  <1>7. Running BY <1>1, TalkOfCore
  <1>8. /\ Listening /\ CoreHears = <<>> /\ read_size # 0
        /\ AllIn(ClientHears, News \ {"DATA"}) /\ ClientHears \in Seq(Message)
        BY <1>7, Heard DEF Running
  <1>9. CoreHears' = CoreHears BY <1>5, <1>6 DEF CoreHears
  <1>10. ClientHears' = ClientHears \o <<m>>
    <2>1. ClientHears = inbox["client"] BY <1>1, Heard
    <2>2. Append(ClientHears, m) \in Seq(Message) BY <1>3, <1>8, AppendProperties
    <2>3. ClientHears' = Append(ClientHears, m) \o <<>> BY <1>1, <1>5, <2>1 DEF ClientHears
    <2>4. ClientHears' = Append(ClientHears, m) BY <2>2, <2>3, WithoutWord
    <2> QED BY <1>3, <1>8, <2>4, AppendIsConcat
  <1>11. /\ EndsWith(ClientHears', "REQUEST_AMIGA_FILE")
         /\ AllIn(ClientHears', (News \ {"DATA"}) \cup {"REQUEST_AMIGA_FILE"})
    <2>1. ~Has(ClientHears, "REQUEST_AMIGA_FILE")
          /\ AllIn(ClientHears, (News \ {"DATA"}) \cup {"REQUEST_AMIGA_FILE"})
      <3>1. "REQUEST_AMIGA_FILE" \notin News BY DEF News
      <3> QED BY <1>8, <3>1 DEF AllIn, Has
    <2>2. /\ <<m>> \in Seq(Message) /\ EndsWith(<<m>>, "REQUEST_AMIGA_FILE")
          /\ AllIn(<<m>>, (News \ {"DATA"}) \cup {"REQUEST_AMIGA_FILE"})
      <3>1. PICK x \in Message : x = m /\ x.type = "REQUEST_AMIGA_FILE" BY <1>3
      <3>2. <<x>> \in Seq(Message) /\ EndsWith(<<x>>, "REQUEST_AMIGA_FILE") BY <3>1, PairWord
      <3>3. AllIn(<<x>>, (News \ {"DATA"}) \cup {"REQUEST_AMIGA_FILE"}) BY <3>1, ShortWord
      <3> QED BY <3>1, <3>2, <3>3
    <2>0. PICK types : types = (News \ {"DATA"}) \cup {"REQUEST_AMIGA_FILE"} OBVIOUS
    <2>3. PICK w \in Seq(Message) :
            w = <<m>> /\ EndsWith(w, "REQUEST_AMIGA_FILE") /\ AllIn(w, types)
          BY <2>0, <2>2
    <2>4. EndsWith(ClientHears \o w, "REQUEST_AMIGA_FILE")
          BY <1>8, <2>1, <2>3, JoinWord
    <2>5. AllIn(ClientHears, types) BY <2>0, <2>1
    <2>6. AllIn(ClientHears \o w, types)
          BY <1>8, <2>3, <2>5, JoinWord
    <2> QED BY <1>10, <2>0, <2>3, <2>4, <2>6
  <1>12. Listening' BY <1>5, <1>6, <1>8 DEF Listening
  <1>13. Asking' BY <1>1, <1>8, <1>9, <1>11, <1>12 DEF Asking
  <1> QED BY <1>13 DEF Talk

(* uadecore does not end as long as the client is there, unless it is killed. *)
LEMMA CoreTalkSteps ==
  ASSUME Control, Control', Talk, BothOpen, BothOpen', UNCHANGED client,
         CoreStep \/ Emulate \/ CoreDies
  PROVE  Talk'
  <1>1. ASSUME NEW how \in Dead, Exit(how) PROVE FALSE
    <2>1. at' \in Dead BY <1>1 DEF Exit
    <2> QED BY <2>1 DEF Control, CoreControl, BothOpen
  <1>2. CASE CoreRejects \/ CoreEndOfInput \/ CoreDies
        BY <1>1, <1>2 DEF CoreRejects, CoreEndOfInput, CoreDies, Dead
  <1>3. CASE CoreSend BY <1>3, CoreSendTalk
  <1>4. CASE CoreBeginReceive BY <1>4, CoreBeginsTalk
  <1>5. CASE uadecore_option \/ invalidate_amiga_file_cache BY <1>5, ResetTalk
  <1>6. CASE ReceiveScore \/ ReceivePlayer \/ ReceiveModule BY <1>6, LoadTalk
  <1>7. CASE AnswerSong BY <1>7, AnswerSongTalk
  <1>8. CASE BeginSong BY <1>8, BeginSongTalk
  <1>9. CASE change_subsong \/ audio_set_filter \/ add_ep_option BY <1>9, OrdersTalk
  <1>10. CASE CommandRead BY <1>10, CommandReadTalk
  <1>11. CASE CommandReboot BY <1>11, CommandRebootTalk
  <1>12. CASE LeaveRState BY <1>12, LeaveRStateTalk
  <1>13. CASE ReceiveAmigaFile BY <1>13, FileArrivesTalk
  <1>14. CASE CoreStep
         BY <1>14, <1>2, <1>3, <1>4, <1>5, <1>6, <1>7, <1>8, <1>9, <1>10, <1>11, <1>12, <1>13
         DEF CoreStep
  <1>15. CASE Emulate
    <2>1. CASE EmulateSound BY <2>1, EmulateSoundTalk
    <2>2. CASE \/ EmulateSubsongInfo \/ EmulateStartOutput \/ EmulateMessage
               \/ EmulateSongEnd \/ EmulateLed
          BY <2>2, EmulateTalk
    <2>3. CASE \E name \in 1 .. MaxFiles : lookup_amiga_file_cache(name)
          BY <2>3, LookupTalk
    <2> QED BY <1>15, <2>1, <2>2, <2>3 DEF Emulate
  <1> QED BY <1>2, <1>14, <1>15
------------------------------------------------------------------------------
(* A side that is gone does not come back. *)
LEMMA OpenShrinks ==
  ASSUME LinkStep
  PROVE  open' \subseteq open
  BY DEF LinkStep, link, LP!Next, LP!PeerNext, LP!Speak, LP!SendMessage, LP!Listen,
         LP!ReceiveMessage, LP!BeginReceive, LP!Ask, LP!RequestFile, LP!ReceivePiece,
         LP!BeginReply, LP!Answer, LP!SendPiece, LP!Close

LEMMA InitTalk ==
  ASSUME Init
  PROVE  Talk
  <1>1. /\ inbox = [p \in Peers |-> <<>>]
        /\ pc = "new" /\ phase = "INVALID" /\ read_size = 0 /\ at = "option" /\ song = 0
        /\ out = <<>> /\ sending = <<Msg("CONFIG", 0, 0)>>
        BY DEF Init, Link!Init, Link!Peer, Peers, CoreInit, ClientInit
  <1>2. Msg("CONFIG", 0, 0) \in Message /\ Msg("CONFIG", 0, 0).type = "CONFIG"
        BY SessionAssumption DEF Msg, Message, Body, ToCore
  <1>3. ClientHears = <<>>
        BY <1>1, NoWord, WithoutWord DEF ClientHears, Peers
  <1>4. CoreHears = <<Msg("CONFIG", 0, 0)>>
    <2>1. <<Msg("CONFIG", 0, 0)>> \in Seq(Message) BY <1>2, PairWord
    <2> QED BY <1>1, <2>1, WithoutWord DEF CoreHears, Peers
  <1>5. Len(CoreHears) = 1 /\ CoreHears[1].type = "CONFIG"
        BY <1>2, <1>4
  <1>6. Quiet BY <1>1, <1>3, <1>5 DEF Quiet
  <1> QED BY <1>6 DEF Talk

(* A step of a session is one of libuade or one of uadecore. *)
LEMMA StepsOf ==
  ASSUME Control, [Next]_vars
  PROVE  \/ UNCHANGED core /\ ((\E dead \in BOOLEAN : ClientStep(dead)) \/ App \/ ClientDies)
         \/ UNCHANGED client /\ (CoreStep \/ Emulate \/ CoreDies)
         \/ UNCHANGED vars
  <1>1. ClientStep(at \in Dead) => \E dead \in BOOLEAN : ClientStep(dead)
    <2>1. CASE at \in Dead
      <3>1. ClientStep(at \in Dead) => ClientStep(TRUE) BY <2>1 DEF ClientStep, WaitForCore
      <3> QED BY <3>1
    <2>2. CASE at \notin Dead
      <3>1. ClientStep(at \in Dead) => ClientStep(FALSE) BY <2>2 DEF ClientStep, WaitForCore
      <3> QED BY <3>1
    <2> QED BY <2>1, <2>2
  <1> QED BY <1>1 DEF Next, StepOfClient, StepOfCore, Terminated

LEMMA NextTalk ==
  ASSUME Control, Talk, [Next]_vars, ~FilterWhenIdle
  PROVE  Talk'
  <1>1. Control' /\ LinkStep BY NextControl
  <1>2. CASE ~(BothOpen /\ BothOpen')
    <2>1. ~BothOpen'
          BY <1>1, <1>2, OpenShrinks DEF BothOpen, ClientOpen, CoreOpen
    <2> QED BY <2>1 DEF Talk
  <1>3. CASE BothOpen /\ BothOpen'
    <2>1. CASE UNCHANGED core /\ ((\E dead \in BOOLEAN : ClientStep(dead)) \/ App \/ ClientDies)
          BY <1>1, <1>3, <2>1, ClientTalkSteps
    <2>2. CASE UNCHANGED client /\ (CoreStep \/ Emulate \/ CoreDies)
          BY <1>1, <1>3, <2>2, CoreTalkSteps
    <2>3. CASE UNCHANGED vars
      <3>1. UNCHANGED <<inbox, sending, out, state, pc, phase, back, song, at, read_size, reboot>>
            BY <2>3 DEF vars, link, core, client, control, sound, call, songstate
      <3>2. CoreHears' = CoreHears /\ ClientHears' = ClientHears
            BY <3>1 DEF CoreHears, ClientHears
      <3> QED BY <1>3, <3>1, <3>2, TalkKept
    <2> QED BY <2>1, <2>2, <2>3, StepsOf
  <1> QED BY <1>2, <1>3

(* libuade and uadecore never lose the thread: whatever the application calls *)
(* and the emulated program does, they stay in the conversation of Talk, as   *)
(* long as both are there and no filter is set between songs.                 *)
THEOREM TalkHolds == ~FilterWhenIdle /\ Spec => [](Control /\ Talk)
  <1>1. Init => Control /\ Talk BY InitControl, InitTalk
  <1>2. ~FilterWhenIdle /\ Control /\ Talk /\ [Next]_vars => (Control /\ Talk)'
        BY NextControl, NextTalk
  <1>3. CASE FilterWhenIdle BY <1>3
  <1>4. CASE ~FilterWhenIdle
    <2>1. Control /\ Talk /\ [Next]_vars => (Control /\ Talk)' BY <1>2, <1>4
    <2> QED BY <1>1, <2>1, PTL DEF Spec
  <1> QED BY <1>3, <1>4

(* What uade_stop() promises of the next song. *)
THEOREM StopQuiescesHolds == ~FilterWhenIdle /\ Spec => []StopQuiesces
  <1>1. Control /\ Talk => StopQuiesces
    <2> SUFFICES ASSUME Control, Talk, pc = "idle", phase = "INVALID", song > 0, CoreOpen
                 PROVE  /\ state["client"] = "S"
                        /\ inbox["client"] = <<>> /\ inbox["core"] = <<>> /\ out = <<>>
                        /\ read_size = 0 /\ at \in {"reset", "score"}
        BY DEF StopQuiesces, CoreOpen
    <2>1. BothOpen /\ state["client"] = "S"
          BY DEF Control, ClientControl, StateAt, BothOpen
    <2>2. Quiet BY <2>1, TalkOfClient
    <2>3. song # 0 BY DEF Control, Typed
    <2>4. ClientHears = <<>> /\ CoreHears = <<>> /\ read_size = 0 /\ at \in {"reset", "score"}
          BY <2>2, <2>3 DEF Quiet
    <2> QED BY <2>1, <2>4, Heard
  <1> QED BY <1>1, TalkHolds, PTL
===============================================================================
