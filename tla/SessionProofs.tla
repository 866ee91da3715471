----------------------------- MODULE SessionProofs -----------------------------
(***************************************************************************)
(* Proofs about UadeSession, second part: what the messages carry.  With the  *)
(* conversation of SessionTalkProofs this gives the safety properties of a   *)
(* session: neither side gives up on the other, and the numbers in the       *)
(* messages are those of the song, the block and the file at hand.           *)
(***************************************************************************)
EXTENDS SessionTalkProofs

(* The messages of a word, in any order. *)
Said(q) == {q[i] : i \in 1 .. Len(q)}

LEMMA SaidFacts ==
  ASSUME NEW q \in Seq(Message)
  PROVE  /\ Said(q) \subseteq Message
         /\ Said(<<>>) = {}
         /\ q # <<>> => /\ Head(q) \in Said(q) /\ Said(Tail(q)) \subseteq Said(q)
                        /\ q[1] \in Said(q)
         /\ \A i \in 1 .. Len(q) : q[i] \in Said(q)
         /\ \A m \in Message : Said(Append(q, m)) = Said(q) \cup {m}
  <1>1. Said(q) \subseteq Message BY ElementOfSeq DEF Said
  <1>2. Said(<<>>) = {} BY NoWord DEF Said
  <1>3. ASSUME q # <<>>
        PROVE  /\ Head(q) \in Said(q) /\ Said(Tail(q)) \subseteq Said(q)
               /\ q[1] \in Said(q)
    <2>1. /\ Head(q) = q[1] /\ Len(q) \in Nat \ {0} /\ Len(Tail(q)) = Len(q) - 1
          /\ \A i \in 1 .. Len(Tail(q)) : Tail(q)[i] = q[i + 1]
          BY <1>3, TailWord
    <2>2. 1 \in 1 .. Len(q) BY <2>1
    <2>3. \A i \in 1 .. Len(Tail(q)) : i + 1 \in 1 .. Len(q) BY <2>1
    <2> QED BY <2>1, <2>2, <2>3 DEF Said
  <1>4. ASSUME NEW m \in Message PROVE Said(Append(q, m)) = Said(q) \cup {m}
    <2> DEFINE a == Append(q, m)
    <2>1. /\ Len(a) = Len(q) + 1 /\ a[Len(q) + 1] = m /\ Len(q) \in Nat
          /\ \A i \in 1 .. Len(q) : a[i] = q[i]
          BY AppendProperties, LenProperties
    <2> HIDE DEF a
    <2>2. \A i \in 1 .. Len(q) : i \in 1 .. Len(a) BY <2>1
    <2>3. Len(q) + 1 \in 1 .. Len(a) BY <2>1
    <2>4. \A i \in 1 .. Len(a) : i \in 1 .. Len(q) \/ i = Len(q) + 1 BY <2>1
    <2> QED BY <2>1, <2>2, <2>3, <2>4 DEF Said, a
  <1> QED BY <1>1, <1>2, <1>3, <1>4 DEF Said

LEMMA SaidNothing == Said(<<>>) = {}
  BY NoWord DEF Said

LEMMA SaidTogether ==
  ASSUME NEW x \in Seq(Message), NEW y \in Seq(Message)
  PROVE  Said(x \o y) = Said(x) \cup Said(y)
  <1> DEFINE w == x \o y
  <1>1. /\ Len(w) = Len(x) + Len(y) /\ Len(x) \in Nat /\ Len(y) \in Nat
        /\ \A i \in 1 .. Len(x) + Len(y) : w[i] = IF i <= Len(x) THEN x[i] ELSE y[i - Len(x)]
        BY ConcatProperties, LenProperties
  <1> HIDE DEF w
  <1>2. \A i \in 1 .. Len(x) : i \in 1 .. Len(w) /\ w[i] = x[i] BY <1>1
  <1>3. ASSUME NEW i \in 1 .. Len(y)
        PROVE  \E j \in 1 .. Len(w) : w[j] = y[i]
    <2>1. PICK j \in Int : j = i + Len(x) BY <1>1
    <2>2. j \in 1 .. Len(x) + Len(y) /\ ~(j <= Len(x)) /\ j - Len(x) = i BY <1>1, <2>1
    <2>3. w[j] = y[i] BY <1>1, <2>2
    <2> QED BY <1>1, <2>2, <2>3
  <1>4. ASSUME NEW j \in 1 .. Len(w)
        PROVE  (\E i \in 1 .. Len(x) : w[j] = x[i]) \/ (\E i \in 1 .. Len(y) : w[j] = y[i])
    <2>1. CASE j <= Len(x) BY <1>1, <1>2, <2>1
    <2>2. CASE ~(j <= Len(x))
      <3>1. PICK n \in Nat : n = Len(x) BY <1>1
      <3>2. PICK i \in Int : i = j - n BY <3>1
      <3>3. i \in 1 .. Len(y) /\ w[j] = y[i] BY <1>1, <2>2, <3>1, <3>2
      <3> QED BY <3>3
    <2> QED BY <2>1, <2>2
  <1>5. Said(w) \subseteq Said(x) \cup Said(y) BY <1>4 DEF Said
  <1>6. Said(x) \subseteq Said(w) BY <1>2 DEF Said
  <1>7. Said(y) \subseteq Said(w) BY <1>3 DEF Said
  <1> QED BY <1>5, <1>6, <1>7 DEF w

LEMMA SaidShort ==
  ASSUME NEW x \in Message, NEW y \in Message
  PROVE  /\ <<x>> \in Seq(Message) /\ Said(<<x>>) = {x}
         /\ <<x, y>> \in Seq(Message) /\ Said(<<x, y>>) = {x, y}
  BY DEF Said

LEMMA SaidHeard ==
  ASSUME Control
  PROVE  /\ Said(CoreHears) = Said(inbox["core"]) \cup Said(sending)
         /\ Said(ClientHears) = Said(inbox["client"]) \cup Said(out)
         /\ Said(CoreHears) \subseteq Message /\ Said(ClientHears) \subseteq Message
         /\ Said(write_queue) \subseteq Message
  <1>1. /\ inbox["core"] \in Seq(Message) /\ inbox["client"] \in Seq(Message)
        /\ sending \in Seq(Message) /\ out \in Seq(Message) /\ write_queue \in Seq(Message)
        BY DEF Control, Typed, Peers
  <1> QED BY <1>1, SaidFacts, SaidTogether DEF CoreHears, ClientHears
------------------------------------------------------------------------------
(* What libuade says is of the song it plays, and a read request asks for one *)
(* block.                                                                    *)
Spoken ==
  {m \in Message :
     /\ m.type # "CONFIG" /\ m.body.song = song
     /\ m.type = "READ" => m.body.arg = ReadBytes
     /\ m.type \in FileTypes => pc = "init" \/ (pc = "reply" /\ m.body.arg = wanted)}

ClientAdds ==
  /\ Said(inbox'["core"]) \subseteq Said(inbox["core"]) \cup Said(sending)
  /\ Said(inbox'["client"]) \subseteq Said(inbox["client"])
  /\ Said(sending') \subseteq Said(sending) \cup Said(write_queue) \cup Spoken'
  /\ Said(write_queue') \subseteq Said(write_queue) \cup Spoken'

LEMMA AddsNothing ==
  ASSUME Control, UNCHANGED inbox, sending' \in {<<>>, sending}, write_queue' \in {<<>>, write_queue}
  PROVE  ClientAdds
  <1>1. Said(<<>>) = {} BY NoWord DEF Said
  <1> QED BY <1>1 DEF ClientAdds

(* Calls that have nothing to say before or after. *)
LEMMA QuietCalls ==
  ASSUME Control,
         \/ uade_new_state \/ AwaitAnswer \/ BeginEvents \/ Requested \/ AwaitReboot \/ Stopped
         \/ FilterSent \/ AppGetEvent \/ AppNextSubsong \/ AppPlayNoSong \/ AppStop \/ AppCleanup
         \/ InitializationFails \/ receive_messages_fails \/ PendingEventsFail
         \/ GetEvent /\ phase # "INITIALIZED"
         \/ \E dead \in BOOLEAN : WaitForCore(dead)
  PROVE  /\ UNCHANGED <<link, song>> /\ sending = <<>> /\ sending' = <<>>
         /\ write_queue' \in {<<>>, write_queue}
         /\ pc' \notin {"asked", "reply"}
         /\ \/ phase' # "ERROR" \/ phase = "ERROR"
            \/ receive_messages_fails \/ PendingEventsFail
  <1>1. CASE \/ uade_new_state \/ AwaitAnswer \/ AwaitReboot \/ FilterSent \/ AppGetEvent
             \/ \E dead \in BOOLEAN : WaitForCore(dead)
        BY <1>1 DEF uade_new_state, AwaitAnswer, AwaitReboot, FilterSent, AppGetEvent, WaitForCore,
                    GoTo, songstate, Control, ClientControl, SendingAt
  <1>2. CASE BeginEvents BY <1>2 DEF BeginEvents, GoTo
  <1>3. CASE Requested
    <2>1. /\ pc = "request" /\ sending = <<>> /\ UNCHANGED <<link, song>>
          /\ phase \in {"INITIALIZED"} \cup InSong
          BY <1>3 DEF Requested, Control, ClientControl, PhaseAt
    <2> QED BY <1>3, <2>1, GiveEventFacts DEF Requested, GoTo, InSong
  <1>4. CASE Stopped
    <2>1. /\ pc = "settle" /\ UNCHANGED link /\ StopReturns(TRUE)
          BY <1>4 DEF Stopped
    <2>2. caller \in {"app", "unplayable", "error", "cleanup"} /\ sending = <<>>
          BY <2>1 DEF Control, ClientControl, PhaseAt, SendingAt, Stopping
    <2> QED BY <2>1, <2>2, StopReturnsFacts
  <1>5. CASE AppNextSubsong \/ AppPlayNoSong
        BY <1>5 DEF AppNextSubsong, AppPlayNoSong, call, songstate, Control, ClientControl, SendingAt
  <1>6. CASE AppStop
    <2>1. pc = "idle" /\ UNCHANGED <<link, song, phase>> /\ Stop("app") BY <1>6 DEF AppStop
    <2> QED BY <2>1, StopFacts DEF Control, ClientControl, SendingAt
  <1>7. CASE AppCleanup
    <2>1. pc \in {"idle", "fatal"} /\ UNCHANGED <<link, song, phase>> /\ Stop("cleanup")
          BY <1>7 DEF AppCleanup
    <2> QED BY <2>1, StopFacts DEF Control, ClientControl, SendingAt
  <1>8. CASE InitializationFails
    <2>1. sending = <<>> /\ UNCHANGED <<link, song, phase>> /\ Stop("error")
          BY <1>8 DEF InitializationFails, ReceiveFails, songstate
    <2> QED BY <2>1, StopFacts
  <1>9. CASE receive_messages_fails
    <2>1. sending = <<>> /\ UNCHANGED <<link, song>> /\ EventFails
          BY <1>9 DEF receive_messages_fails, ReceiveFails
    <2> QED BY <1>9, <2>1, EventFailsFacts
  <1>10. CASE PendingEventsFail
    <2>1. /\ pc \in {"drain", "settle"} /\ UNCHANGED link /\ StopReturns(FALSE)
          BY <1>10 DEF PendingEventsFail, ReceiveFails
    <2>2. caller \in {"app", "unplayable", "error", "cleanup"} /\ sending = <<>>
          BY <2>1 DEF Control, ClientControl, PhaseAt, SendingAt, Stopping
    <2> QED BY <1>10, <2>1, <2>2, StopReturnsFacts
  <1>11. CASE GetEvent /\ phase # "INITIALIZED"
    <2>1. /\ pc = "event" /\ sending = <<>> /\ UNCHANGED <<link, song>>
          /\ phase \in {"WAIT_SUBSONG_CHANGE"} \cup InSong
          BY <1>11 DEF GetEvent, Control, ClientControl, PhaseAt, SendingAt
    <2>2. CASE phase = "SONG_END_PENDING"
          BY <2>1, <2>2, <1>11, GiveEventFacts DEF GetEvent
    <2>3. CASE phase = "WAIT_SUBSONG_CHANGE"
          BY <2>1, <2>3, <1>11, GiveEventFacts DEF GetEvent, GoTo
    <2>4. CASE phase = "RECEIVE_MSGS"
          BY <2>1, <2>4, <1>11 DEF GetEvent, GoTo
    <2> QED BY <2>1, <2>2, <2>3, <2>4 DEF InSong
  <1> QED BY <1>1, <1>2, <1>3, <1>4, <1>5, <1>6, <1>7, <1>8, <1>9, <1>10, <1>11

(* What the calls that speak have to say. *)
WordsSpoken ==
  /\ Said(ReadRequest) \subseteq Spoken
  /\ \A n \in Nat : Said(<<Msg("CHANGE_SUBSONG", song, n)>>) \subseteq Spoken
  /\ \A l \in {0, 1} : FilterCommand(l) \in Spoken
  /\ Said(<<Msg("REBOOT", song, 0), Token(song)>>) \subseteq Spoken
  /\ Msg("SET_PLAYER_OPTION", song, 0) \in Spoken

LEMMA SpokenWords ==
  ASSUME Control
  PROVE  WordsSpoken
  <1>1. song \in 0 .. MaxSongs BY DEF Control, Typed
  <1>2. Said(ReadRequest) \subseteq Spoken
    <2>1. PICK r, t \in Message :
            /\ ReadRequest = <<r, t>> /\ r.type = "READ" /\ t.type = "TOKEN"
            /\ r.body = [song |-> song, arg |-> ReadBytes] /\ t.body.song = song
          BY <1>1, CommandWords
    <2>2. Said(ReadRequest) = {r, t} BY <2>1, SaidShort
    <2> QED BY <2>1, <2>2 DEF Spoken, FileTypes
  <1>3. ASSUME NEW n \in Nat
        PROVE  Said(<<Msg("CHANGE_SUBSONG", song, n)>>) \subseteq Spoken
    <2>1. PICK m \in Message : m = Msg("CHANGE_SUBSONG", song, n) BY <1>1, CommandWords
    <2>2. m \in Spoken BY <2>1 DEF Msg, Spoken, FileTypes
    <2>3. Said(<<m>>) = {m} BY SaidShort
    <2> QED BY <2>1, <2>2, <2>3
  <1>4. \A l \in {0, 1} : FilterCommand(l) \in Spoken
        BY <1>1, CommandWords DEF Spoken, FileTypes
  <1>5. Said(<<Msg("REBOOT", song, 0), Token(song)>>) \subseteq Spoken
    <2>1. PICK r, t \in Message :
            /\ <<Msg("REBOOT", song, 0), Token(song)>> = <<r, t>>
            /\ r.type = "REBOOT" /\ t.type = "TOKEN" /\ r.body.song = song /\ t.body.song = song
          BY <1>1, CommandWords
    <2>2. Said(<<r, t>>) = {r, t} BY SaidShort
    <2> QED BY <2>1, <2>2 DEF Spoken, FileTypes
  <1>6. Msg("SET_PLAYER_OPTION", song, 0) \in Spoken
        BY <1>1, CommandWords DEF Msg, Spoken, FileTypes
  <1> QED BY <1>2, <1>3, <1>4, <1>5, <1>6 DEF WordsSpoken

LEMMA SpokenNext == Control' => WordsSpoken'
  <1>1. Control => WordsSpoken BY SpokenWords
  <1> QED BY <1>1, PTL

LEMMA SongSpoken ==
  ASSUME Control', pc' = "init", NEW module \in BOOLEAN
  PROVE  Said(SongWord(song', module)) \subseteq Spoken'
  <1>1. PICK s \in 0 .. MaxSongs : s = song' BY DEF Control, Typed
  <1>2. PICK w : w = SongWord(s, module) OBVIOUS
  <1>3. /\ w \in Seq(Message) /\ Len(w) = (IF module THEN 6 ELSE 5)
        /\ \A i \in 1 .. Len(w) :
             w[i].type = LoadTypes(module)[i + 1] /\ w[i].body.song = s
        BY <1>2, SongWordFacts
  <1>4. \A i \in 1 .. Len(w) : w[i] \in Message BY <1>3, ElementOfSeq
  <1>5. \A i \in 1 .. Len(w) : w[i].type \notin {"CONFIG", "READ"}
    <2>1. CASE module BY <2>1, <1>3 DEF LoadTypes
    <2>2. CASE ~module BY <2>2, <1>3 DEF LoadTypes
    <2> QED BY <2>1, <2>2
  <1>6. \A i \in 1 .. Len(w) : w[i] \in Spoken' BY <1>1, <1>3, <1>4, <1>5 DEF Spoken
  <1> QED BY <1>1, <1>2, <1>6 DEF Said

LEMMA FileSpoken ==
  ASSUME Control', pc' = "reply", NEW found \in BOOLEAN
  PROVE  Said(FileMessages(song', wanted', found)) \subseteq Spoken'
  <1>1. PICK s \in 0 .. MaxSongs, name \in Nat : s = song' /\ name = wanted' BY DEF Control, Typed
  <1>2. PICK x, y, z \in Message :
           /\ FileMessages(s, name, TRUE) = <<x, y>> /\ FileMessages(s, name, FALSE) = <<z>>
           /\ x.type = "FILE" /\ ~x.last /\ y.type = "FILE_DATA" /\ y.last
           /\ z.type = "FILE" /\ z.last
           /\ \A m \in {x, y, z} : m.body = [song |-> s, arg |-> name]
        BY FileWord
  <1>3. {x, y, z} \subseteq Spoken' BY <1>1, <1>2 DEF Spoken
  <1>4. Said(<<x, y>>) = {x, y} /\ Said(<<z>>) = {z} BY SaidShort
  <1> QED BY <1>1, <1>2, <1>3, <1>4

(* Every step of libuade and its application adds its own words only. *)
LEMMA Speaking ==
  ASSUME Control, Control',
         \/ AppPlay \/ OrderReboot
         \/ GetEvent /\ phase = "INITIALIZED"
         \/ \E newstate \in {0, 1} : AppSetFilter(newstate)
  PROVE  /\ ClientAdds /\ UNCHANGED link /\ sending = <<>>
         /\ UNCHANGED <<phase, back>> /\ (~AppPlay => UNCHANGED song)
         /\ AppPlay => write_queue' = write_queue
  <1> USE SpokenNext DEF WordsSpoken
  <1>0. Said(<<>>) = {} BY NoWord DEF Said
  <1>1. CASE AppPlay
    <2>1. /\ pc = "idle" /\ phase = "INVALID" /\ phase' = "INVALID" /\ pc' = "init"
          /\ UNCHANGED <<link, write_queue, back>>
          BY <1>1 DEF AppPlay, GoSend
    <2>2. PICK module \in BOOLEAN : sending' = SongWord(song', module)
          BY <1>1 DEF AppPlay, GoSend, SongWord
    <2>3. Said(sending') \subseteq Spoken' BY <2>1, <2>2, SongSpoken
    <2>4. sending = <<>> BY <2>1 DEF Control, ClientControl, SendingAt
    <2> QED BY <1>1, <2>1, <2>3, <2>4 DEF ClientAdds, link
  <1>2. CASE GetEvent /\ phase = "INITIALIZED"
    <2>1. /\ pc = "event" /\ sending' = ReadRequest /\ UNCHANGED <<link, song, phase, back, write_queue>>
          BY <1>2 DEF GetEvent, GoSend
    <2>2. ReadRequest' = ReadRequest BY <2>1 DEF ReadRequest, Msg, Token
    <2>3. Said(sending') \subseteq Spoken' BY <2>1, <2>2 DEF Said
    <2>4. sending = <<>> BY <2>1 DEF Control, ClientControl, SendingAt
    <2>5. ~AppPlay BY <2>1 DEF AppPlay
    <2> QED BY <2>1, <2>3, <2>4, <2>5 DEF ClientAdds, link
  <1>3. CASE OrderReboot
    <2>1. /\ pc = "drain" /\ UNCHANGED <<link, song, phase, back, write_queue>>
          /\ sending' = <<Msg("REBOOT", song, 0), Token(song)>>
          BY <1>3 DEF OrderReboot, GoSend, songstate
    <2>3. Said(sending') \subseteq Spoken' BY <2>1 DEF Said, Msg, Token
    <2>4. sending = <<>> BY <2>1 DEF Control, ClientControl, SendingAt
    <2>5. ~AppPlay BY <2>1 DEF AppPlay
    <2> QED BY <2>1, <2>3, <2>4, <2>5 DEF ClientAdds, link
  <1>4. ASSUME NEW newstate \in {0, 1}, AppSetFilter(newstate)
        PROVE  ClientAdds /\ UNCHANGED link /\ sending = <<>> /\ UNCHANGED <<phase, song, back>>
    <2>1. pc = "idle" /\ UNCHANGED <<link, song, phase, back>>
          BY <1>4 DEF AppSetFilter, songstate
    <2>2. sending = <<>> /\ write_queue \in Seq(Message)
          BY <2>1 DEF Control, Typed, ClientControl, SendingAt
    <2>3. PICK f \in Message : f = FilterCommand(newstate) /\ f \in Spoken'
      <3>1. FilterCommand(newstate)' \in Spoken' OBVIOUS
      <3>2. FilterCommand(newstate)' = FilterCommand(newstate) BY <2>1 DEF FilterCommand, Msg
      <3> QED BY <3>1, <3>2 DEF Spoken
    <2>4. Said(<<f>>) = {f} /\ Said(Append(write_queue, f)) = Said(write_queue) \cup {f}
          BY <2>2, SaidShort, SaidFacts
    <2>5. CASE state["client"] = "S"
      <3>1. sending' = <<f>> /\ UNCHANGED write_queue
            BY <1>4, <2>3, <2>5 DEF AppSetFilter, GoSend
      <3> QED BY <2>1, <2>2, <2>3, <2>4, <3>1 DEF ClientAdds, link
    <2>6. CASE state["client"] # "S"
      <3>1. sending' = <<>> /\ write_queue' = Append(write_queue, f)
            BY <1>4, <2>2, <2>3, <2>6 DEF AppSetFilter
      <3> QED BY <1>0, <2>1, <2>2, <2>3, <2>4, <3>1 DEF ClientAdds, link
    <2> QED BY <2>5, <2>6
  <1>5. (\E newstate \in {0, 1} : AppSetFilter(newstate)) /\ AppPlay => write_queue' = write_queue
        BY DEF AppPlay
  <1> QED BY <1>1, <1>2, <1>3, <1>4, <1>5

LEMMA Listens ==
  ASSUME Control, Control', NEW place \in {"answer", "canplay", "cantplay", "receive", "drain", "settle"},
         ClientReceive(place), place \in {"drain", "settle"} => state["client"] # "S"
  PROVE  /\ Said(inbox'["core"]) = Said(inbox["core"])
         /\ Said(inbox'["client"]) \subseteq Said(inbox["client"])
         /\ NewMessage \in Said(inbox["client"]) /\ NewMessage \in Message
         /\ sending = <<>> /\ pc = place
  <1>1. /\ inbox["client"] \in Seq(Message) /\ inbox["client"] # <<>>
        /\ inbox'["client"] = Tail(inbox["client"]) /\ inbox'["core"] = inbox["core"]
        /\ sending = <<>> /\ NewMessage \in Message /\ pc = place
        BY ClientReceives
  <1> QED BY <1>1, SaidFacts DEF NewMessage

LEMMA ListeningSpeech ==
  ASSUME Control, Control',
         \/ ReceiveAnswer \/ ReceiveTurn \/ receive_messages
         \/ get_pending_events("drain") \/ get_pending_events("settle")
  PROVE  ClientAdds /\ UNCHANGED song
  <1> USE SpokenNext
  <1>0. Said(<<>>) = {} BY NoWord DEF Said
  <1>1. CASE ReceiveAnswer
    <2>1. /\ ClientReceive("answer") /\ UNCHANGED song /\ sending' = <<>>
          /\ write_queue' \in {<<>>, write_queue}
          BY <1>1, StopFacts DEF ReceiveAnswer, GoTo, songstate
    <2> QED BY <1>0, <2>1, Listens DEF ClientAdds
  <1>2. CASE ReceiveTurn
    <2>1. PICK place \in {"canplay", "cantplay"} :
          /\ ClientReceive(place) /\ UNCHANGED <<song, led>> /\ write_queue' \in {<<>>, write_queue}
          /\ \/ sending' = <<>>
             \/ sending' = <<FilterCommand(led), Msg("SET_PLAYER_OPTION", song, 0)>>
          BY <1>2, StopFacts DEF ReceiveTurn, GoSend, songstate
    <2>2. Said(sending') \subseteq Spoken'
      <3>1. CASE sending' = <<>> BY <1>0, <3>1
      <3>2. CASE sending' = <<FilterCommand(led), Msg("SET_PLAYER_OPTION", song, 0)>>
        <4>1. led \in {0, 1} BY DEF Control, Typed
        <4>2. FilterCommand(led)' \in Spoken' BY <2>1, <4>1 DEF WordsSpoken, FilterCommand, Msg
        <4>3. FilterCommand(led)' = FilterCommand(led) BY <2>1 DEF FilterCommand, Msg
        <4>4. Msg("SET_PLAYER_OPTION", song, 0) \in Spoken' BY <2>1 DEF WordsSpoken, Msg
        <4>5. PICK x, y \in Message :
                x = FilterCommand(led) /\ y = Msg("SET_PLAYER_OPTION", song, 0)
              BY <4>2, <4>3, <4>4 DEF Spoken
        <4>6. Said(<<x, y>>) = {x, y} BY SaidShort
        <4> QED BY <3>2, <4>2, <4>3, <4>4, <4>5, <4>6
      <3> QED BY <2>1, <3>1, <3>2
    <2> QED BY <1>0, <2>1, <2>2, Listens DEF ClientAdds
  <1>3. CASE receive_messages
    <2>1. ClientReceive("receive") /\ UNCHANGED <<song, led>> BY <1>3 DEF receive_messages
    <2>2. /\ pc = "receive" /\ phase \in InSong /\ sending = <<>> /\ write_queue \in Seq(Message)
          /\ cur \in Nat /\ cur + 1 \in Nat /\ song \in 0 .. MaxSongs
          BY <2>1 DEF ClientReceive, Control, ClientControl, PhaseAt, Typed
    <2>3. CASE Ready
      <3>1. /\ write_queue' = <<>>
            /\ sending' = (IF nextsubsong THEN <<Msg("CHANGE_SUBSONG", song, cur + 1)>> ELSE <<>>)
                       \o write_queue \o ReadRequest
            BY <2>3 DEF Ready, GoSend
      <3>2. PICK c : c = IF nextsubsong THEN <<Msg("CHANGE_SUBSONG", song, cur + 1)>> ELSE <<>>
            OBVIOUS
      <3>3. c \in Seq(Message) /\ Said(c) \subseteq Spoken'
        <4>1. CASE nextsubsong
          <5>1. PICK m \in Message : m = Msg("CHANGE_SUBSONG", song, cur + 1)
                BY <2>2, CommandWords
          <5>2. c = <<m>> BY <3>2, <4>1, <5>1
          <5>3. Said(<<Msg("CHANGE_SUBSONG", song', cur + 1)>>) \subseteq Spoken'
                BY <2>2 DEF WordsSpoken
          <5>4. c = <<Msg("CHANGE_SUBSONG", song', cur + 1)>> BY <2>1, <5>1, <5>2
          <5> QED BY <5>2, <5>3, <5>4, SaidShort
        <4>2. CASE ~nextsubsong BY <1>0, <3>2, <4>2, NoWord
        <4> QED BY <4>1, <4>2
      <3>4. ReadRequest \in Seq(Message) /\ Said(ReadRequest) \subseteq Spoken'
        <4>1. ReadRequest' = ReadRequest BY <2>1 DEF ReadRequest, Msg, Token
        <4>2. Said(ReadRequest) \subseteq Spoken' BY <4>1 DEF WordsSpoken, Said
        <4>3. PICK r, t \in Message : ReadRequest = <<r, t>> BY <2>2, CommandWords
        <4> QED BY <4>2, <4>3, SaidShort
      <3>5. c \o write_queue \in Seq(Message)
            /\ Said(c \o write_queue) = Said(c) \cup Said(write_queue)
            BY <2>2, <3>3, JoinWord, SaidTogether
      <3>6. PICK v \in Seq(Message) : v = c \o write_queue BY <3>5
      <3>7. sending' = v \o ReadRequest BY <3>1, <3>2, <3>6
      <3>8. Said(v \o ReadRequest) = Said(v) \cup Said(ReadRequest) BY <3>4, SaidTogether
      <3> QED BY <1>0, <2>1, <3>1, <3>3, <3>4, <3>5, <3>6, <3>7, <3>8, Listens DEF ClientAdds
    <2>4. CASE FileRequest \/ DataBlock \/ SongEnd \/ OtherMessage \/ BadMessage
      <3>1. sending' = <<>> /\ write_queue' \in {<<>>, write_queue}
        <4>1. CASE FileRequest BY <4>1 DEF FileRequest, GoTo
        <4>2. CASE DataBlock BY <4>2, <2>2, GiveEventFacts DEF DataBlock, InSong
        <4>3. CASE SongEnd BY <4>3, <2>2 DEF SongEnd
        <4>4. CASE OtherMessage BY <4>4, <2>2, GiveEventFacts DEF OtherMessage, InSong
        <4>5. CASE BadMessage BY <4>5, <2>2, EventFailsFacts DEF BadMessage
        <4> QED BY <2>4, <4>1, <4>2, <4>3, <4>4, <4>5
      <3> QED BY <1>0, <2>1, <3>1, Listens DEF ClientAdds
    <2> QED BY <1>3, <2>3, <2>4 DEF receive_messages
  <1>4. ASSUME NEW place \in {"drain", "settle"}, get_pending_events(place)
        PROVE  ClientAdds /\ UNCHANGED song
    <2>1. /\ ClientReceive(place) /\ state["client"] # "S"
          /\ UNCHANGED <<song, write_queue>> /\ sending' \in {<<>>, sending}
          BY <1>4 DEF get_pending_events, songstate, GoTo
    <2> QED BY <1>0, <2>1, Listens DEF ClientAdds
  <1> QED BY <1>1, <1>2, <1>3, <1>4

LEMMA WritingSpeech ==
  ASSUME Control, Control', ClientSend \/ send_file_back \/ SendReply
  PROVE  ClientAdds /\ UNCHANGED song
  <1> USE SpokenNext
  <1>0. Said(<<>>) = {} BY NoWord DEF Said
  <1>1. ASSUME sending # <<>>, inbox'["client"] = inbox["client"],
               inbox'["core"] \in {inbox["core"], Append(inbox["core"], Head(sending))},
               sending' \in {<<>>, sending, Tail(sending)}, write_queue' \in {<<>>, write_queue}
        PROVE  ClientAdds
    <2>1. sending \in Seq(Message) /\ inbox["core"] \in Seq(Message)
          BY DEF Control, Typed, Peers
    <2>2. /\ Head(sending) \in Message /\ Head(sending) \in Said(sending)
          /\ Said(Tail(sending)) \subseteq Said(sending)
          BY <1>1, <2>1, TailWord, SaidFacts
    <2>3. Said(Append(inbox["core"], Head(sending))) = Said(inbox["core"]) \cup {Head(sending)}
          BY <2>1, <2>2, SaidFacts
    <2> QED BY <1>0, <1>1, <2>2, <2>3 DEF ClientAdds
  <1>2. LinkTyped /\ sending \in Seq(Message) BY CoreFacts DEF Control, Typed
  <1>3. CASE ClientSend
    <2>1. /\ sending # <<>> /\ ClientOpen
          /\ pc \in {"new", "init", "options", "request", "reboot", "filter"}
          /\ duty["client"] = "none" /\ state["client"] \in {"INITIAL", "S"}
          BY <1>3 DEF ClientSend, Control, ClientControl, SendingAt, StateAt, DutyAt, GivenUp
    <2>2. Head(sending) \in Message /\ Head(sending).type # "REQUEST_AMIGA_FILE"
      <3>1. AllIn(sending, ToCore \cup FileTypes \cup {"TOKEN"}) \/ AllIn(sending, ToCore)
            BY <2>1 DEF Control, ClientControl, SendingAt
      <3> QED BY <1>2, <2>1, <3>1, TailWord DEF ToCore, FileTypes
    <2>3. Link!SendMessage("client", Head(sending)) /\ UNCHANGED duty
          BY <1>3, <2>1 DEF ClientSend
    <2>4. /\ inbox'["client"] = inbox["client"]
          /\ inbox'["core"] \in {inbox["core"], Append(inbox["core"], Head(sending))}
          BY <1>2, <2>1, <2>2, <2>3, ClientSends
    <2>5. /\ sending' \in {<<>>, Tail(sending)} /\ write_queue' \in {<<>>, write_queue}
          /\ UNCHANGED song
      <3>1. CASE CanWrite \/ Optional BY <1>3, <3>1 DEF ClientSend, songstate
      <3>2. CASE ~(CanWrite \/ Optional)
        <4>1. pc = "reboot" => caller \in {"app", "unplayable", "error", "cleanup"}
              BY DEF Control, ClientControl, PhaseAt, Stopping
        <4> QED BY <1>3, <2>1, <3>2, <4>1, StopFacts, StopReturnsFacts, EventFailsFacts
                DEF ClientSend, GoTo, songstate
      <3> QED BY <3>1, <3>2
    <2> QED BY <1>1, <2>1, <2>4, <2>5
  <1>4. CASE send_file_back
    <2>1. PICK found \in BOOLEAN : sending' = FileMessages(song, wanted, found)
          BY <1>4 DEF send_file_back, GoSend
    <2>2. /\ pc' = "reply" /\ UNCHANGED <<inbox, song, wanted, write_queue>>
          BY <1>4 DEF send_file_back, GoSend, songstate, Link!BeginReply
    <2>3. Said(FileMessages(song', wanted', found)) \subseteq Spoken' BY <2>2, FileSpoken
    <2>4. Said(sending') \subseteq Spoken' BY <2>1, <2>2, <2>3
    <2> QED BY <2>2, <2>4 DEF ClientAdds
  <1>5. CASE SendReply
    <2>1. /\ pc = "reply" /\ sending # <<>> /\ Link!SendPiece("client", Head(sending))
          BY <1>5 DEF SendReply
    <2>2. ClientOpen /\ Head(sending) \in Message /\ Head(sending).type \in FileTypes
      <3>1. ClientOpen /\ AllIn(sending, FileTypes)
            BY <2>1 DEF Control, ClientControl, SendingAt
      <3> QED BY <1>2, <2>1, <3>1, TailWord
    <2>3. /\ inbox'["client"] = inbox["client"]
          /\ inbox'["core"] \in {inbox["core"], Append(inbox["core"], Head(sending))}
          BY <1>2, <2>1, <2>2, ClientSendsPiece
    <2>4. /\ sending' \in {<<>>, Tail(sending)} /\ write_queue' \in {<<>>, write_queue}
          /\ UNCHANGED song
      <3>1. CASE "core" \in open BY <1>5, <3>1 DEF SendReply, songstate, GoTo
      <3>2. CASE "core" \notin open /\ back = "receive"
            BY <1>5, <3>2, EventFailsFacts DEF SendReply
      <3>3. CASE "core" \notin open /\ back # "receive"
        <4>1. caller \in {"app", "unplayable", "error", "cleanup"}
              BY <2>1, <3>3 DEF Control, ClientControl, PhaseAt, Replying
        <4> QED BY <1>5, <3>3, <4>1, StopReturnsFacts DEF SendReply
      <3> QED BY <3>1, <3>2, <3>3
    <2> QED BY <1>1, <2>1, <2>3, <2>4
  <1> QED BY <1>3, <1>4, <1>5

LEMMA ClientEnding ==
  ASSUME Control, ClientDies \/ CloseLink
  PROVE  /\ ClientAdds /\ UNCHANGED <<song, phase>> /\ ~ClientOpen'
         /\ inbox'["core"] = inbox["core"] /\ inbox'["client"] = <<>> /\ sending' = <<>>
  <1>1. /\ ClientOpen /\ Link!Close("client") /\ sending' = <<>>
        /\ UNCHANGED <<song, phase, write_queue>>
        BY DEF ClientDies, CloseLink, GoTo, songstate, Control, ClientControl, ClientOpen
  <1>2. /\ open' = open \ {"client"} /\ inbox'["client"] = <<>>
        /\ inbox'["core"] = inbox["core"]
        BY <1>1, CoreFacts, Closes DEF Peers, ClientOpen
  <1>3. Said(<<>>) = {} BY NoWord DEF Said
  <1> QED BY <1>1, <1>2, <1>3 DEF ClientAdds, ClientOpen

QuietCall ==
  \/ uade_new_state \/ AwaitAnswer \/ BeginEvents \/ Requested \/ AwaitReboot \/ Stopped
  \/ FilterSent \/ AppGetEvent \/ AppNextSubsong \/ AppPlayNoSong \/ AppStop \/ AppCleanup
  \/ InitializationFails \/ receive_messages_fails \/ PendingEventsFail
  \/ GetEvent /\ phase # "INITIALIZED"
  \/ \E dead \in BOOLEAN : WaitForCore(dead)

ListeningCall ==
  \/ ReceiveAnswer \/ ReceiveTurn \/ receive_messages
  \/ get_pending_events("drain") \/ get_pending_events("settle")

SpeakingCall ==
  \/ AppPlay \/ OrderReboot
  \/ GetEvent /\ phase = "INITIALIZED"
  \/ \E newstate \in {0, 1} : AppSetFilter(newstate)

LEMMA CallsOf ==
  ASSUME (\E dead \in BOOLEAN : ClientStep(dead)) \/ App \/ ClientDies
  PROVE  \/ QuietCall \/ ListeningCall \/ SpeakingCall \/ ClientSend \/ send_file_back \/ SendReply
         \/ ClientDies \/ CloseLink
  <1>1. CASE App
    <2>1. CASE \E newstate \in {0, 1} : AppSetFilter(newstate) BY <2>1 DEF SpeakingCall
    <2>2. CASE AppPlay BY <2>2 DEF SpeakingCall
    <2>3. CASE AppPlayNoSong \/ AppGetEvent \/ AppStop \/ AppCleanup \/ AppNextSubsong
          BY <2>3 DEF QuietCall
    <2> QED BY <1>1, <2>1, <2>2, <2>3 DEF App
  <1>2. CASE \E dead \in BOOLEAN : ClientStep(dead)
    <2>1. PICK dead \in BOOLEAN : ClientStep(dead) BY <1>2
    <2>2. CASE WaitForCore(dead) BY <2>2 DEF QuietCall
    <2>3. CASE GetEvent BY <2>3 DEF QuietCall, SpeakingCall
    <2>4. CASE ~(WaitForCore(dead) \/ GetEvent)
          BY <2>1, <2>4 DEF ClientStep, QuietCall, ListeningCall, SpeakingCall
    <2> QED BY <2>2, <2>3, <2>4
  <1> QED BY <1>1, <1>2

LEMMA ClientSpeech ==
  ASSUME Control, Control',
         (\E dead \in BOOLEAN : ClientStep(dead)) \/ App \/ ClientDies
  PROVE  ClientAdds /\ (~AppPlay => UNCHANGED song)
  <1>1. CASE QuietCall
    <2>1. /\ UNCHANGED <<link, song>> /\ sending' = sending
          /\ write_queue' \in {<<>>, write_queue}
          BY <1>1, QuietCalls DEF QuietCall
    <2> QED BY <2>1, AddsNothing DEF link
  <1>2. CASE ListeningCall BY <1>2, ListeningSpeech DEF ListeningCall
  <1>3. CASE SpeakingCall BY <1>3, Speaking DEF SpeakingCall
  <1>4. CASE ClientSend \/ send_file_back \/ SendReply BY <1>4, WritingSpeech
  <1>5. CASE ClientDies \/ CloseLink BY <1>5, ClientEnding
  <1> QED BY <1>1, <1>2, <1>3, <1>4, <1>5, CallsOf
------------------------------------------------------------------------------
(* What uadecore says is of the song it has loaded, a block is as long as was *)
(* asked for, and a request names the file that is then recorded.            *)
Uttered ==
  {m \in Message :
     /\ at \in {"token", "rstate", "run", "file", "filedata"} /\ m.body.song = coreSong
     /\ m.type = "DATA" => at = "run" /\ read_size # 0 /\ m.body.arg = read_size
     /\ m.type = "REQUEST_AMIGA_FILE" => at = "run" /\ at' = "file" /\ m.body.arg = cachedfilename'}

CoreAdds ==
  /\ Said(inbox'["core"]) \subseteq Said(inbox["core"])
  /\ Said(inbox'["client"]) \subseteq Said(inbox["client"]) \cup Said(out) \cup Uttered
  /\ Said(out') \subseteq Said(out) \cup Uttered
  /\ coreSong' = coreSong \/ ReceiveScore
  /\ read_size' \in {0, read_size} \/ CommandRead

LEMMA ExitAdds ==
  ASSUME Control, at \notin Dead, NEW how, Exit(how)
  PROVE  /\ CoreAdds /\ at' = how /\ out' = <<>> /\ inbox'["core"] = <<>>
         /\ inbox'["client"] = inbox["client"] /\ ~CoreOpen'
  <1>1. /\ CoreOpen /\ Link!Close("core") /\ at' = how /\ out' = <<>>
        /\ UNCHANGED <<coreSong, read_size>>
        BY CoreFacts DEF Exit, load, sound
  <1>2. /\ open' = open \ {"core"} /\ inbox'["core"] = <<>>
        /\ inbox'["client"] = inbox["client"]
        BY <1>1, CoreFacts, Closes DEF Peers, CoreOpen
  <1>3. Said(<<>>) = {} BY NoWord DEF Said
  <1> QED BY <1>1, <1>2, <1>3 DEF CoreAdds, CoreOpen

(* uadecore takes a message, and says nothing to it. *)
CoreTaking ==
  \/ uadecore_option \/ ReceiveScore \/ ReceivePlayer \/ ReceiveModule
  \/ change_subsong \/ audio_set_filter \/ add_ep_option \/ CommandRead \/ CommandReboot

LEMMA CoreTakingFacts ==
  ASSUME Control, CoreTaking
  PROVE  /\ \E place \in {"option", "score", "player", "playerdata", "module", "moduledata",
                          "token", "rstate"} :
              \E type \in {"CONFIG", "SCORE", "FILE", "FILE_DATA", "CHANGE_SUBSONG", "FILTER",
                           "SET_PLAYER_OPTION", "READ", "REBOOT"} :
                CoreReceive(place, type)
         /\ UNCHANGED <<out, cachedfile, cachedfilename>>
         /\ coreSong' = coreSong \/ ReceiveScore
         /\ read_size' = read_size \/ CommandRead
         /\ at' \in {"reset", "player", "playerdata", "module", "moduledata", "token", "rstate"}
         /\ at' = "rstate" => at = "rstate"
  <1>1. CASE uadecore_option BY <1>1 DEF uadecore_option, load, files, sound
  <1>2. CASE ReceiveScore BY <1>2 DEF ReceiveScore, files, sound
  <1>3. CASE ReceivePlayer BY <1>3 DEF ReceivePlayer, load, files, sound
  <1>4. CASE ReceiveModule BY <1>4 DEF ReceiveModule, LoadSong, files
  <1>5. CASE change_subsong BY <1>5 DEF change_subsong, CoreReceive, control, load, files
  <1>6. CASE audio_set_filter BY <1>6 DEF audio_set_filter, CoreReceive, control, load, files, sound
  <1>7. CASE add_ep_option BY <1>7 DEF add_ep_option, CoreReceive, control, load, files, sound
  <1>8. CASE CommandRead BY <1>8 DEF CommandRead, CoreReceive, control, load, files
  <1>9. CASE CommandReboot BY <1>9 DEF CommandReboot, CoreReceive, control, load, files, sound
  <1> QED BY <1>1, <1>2, <1>3, <1>4, <1>5, <1>6, <1>7, <1>8, <1>9 DEF CoreTaking

LEMMA CoreTakesAdds ==
  ASSUME Control, NEW place \in {"option", "score", "player", "playerdata", "module",
                                 "moduledata", "token", "rstate"},
         NEW type, CoreReceive(place, type), type # "REQUEST_AMIGA_FILE"
  PROVE  /\ Said(inbox'["core"]) \subseteq Said(inbox["core"])
         /\ Said(inbox'["client"]) = Said(inbox["client"])
         /\ Next_message \in Said(CoreHears) /\ Next_message \in Message
         /\ Next_message.type = type /\ at = place /\ out = <<>>
  <1>1. /\ inbox["core"] \in Seq(Message) /\ inbox["core"] # <<>>
        /\ inbox'["core"] = Tail(inbox["core"]) /\ inbox'["client"] = inbox["client"]
        /\ Next_message.type = type /\ Next_message \in Message /\ at = place /\ out = <<>>
        BY CoreReceives
  <1> QED BY <1>1, SaidFacts, SaidHeard DEF Next_message

LEMMA CoreSaysAdds ==
  ASSUME Control, AnswerSong \/ LeaveRState
  PROVE  CoreAdds /\ coreSong' = coreSong /\ read_size' = read_size
  <1>1. PICK place \in {"token", "rstate"} : CoreReceive(place, "TOKEN")
        BY DEF AnswerSong, LeaveRState
  <1>2. /\ at = place /\ out = <<>> /\ UNCHANGED <<coreSong, read_size>>
        BY <1>1 DEF AnswerSong, LeaveRState, CoreReceive, load, sound
  <1>3. /\ Token(coreSong) \in Uttered
        /\ \A type \in {"CAN_PLAY", "CANT_PLAY", "SONG_END"} : \A n \in Nat :
             Msg(type, coreSong, n) \in Uttered
    <2>1. coreSong \in 0 .. MaxSongs BY DEF Control, Typed
    <2>2. Token(coreSong) \in Uttered BY <1>2, <2>1, CoreWords DEF Uttered
    <2>3. ASSUME NEW type \in {"CAN_PLAY", "CANT_PLAY", "SONG_END"}, NEW n \in Nat
          PROVE  Msg(type, coreSong, n) \in Uttered
      <3>0. type \in ToClient \cup {"REQUEST_AMIGA_FILE"} BY DEF ToClient
      <3>1. PICK m \in Message : /\ m = Msg(type, coreSong, n) /\ m.type = type
                               /\ m.body = [song |-> coreSong, arg |-> n]
            BY <2>1, <3>0, CoreWords
      <3> QED BY <1>2, <3>1 DEF Uttered
    <2> QED BY <2>2, <2>3
  <1>4. \/ out' = <<>>
        \/ out' = <<Token(coreSong)>>
        \/ \E type \in {"CAN_PLAY", "CANT_PLAY", "SONG_END"} : \E n \in Nat :
             out' = <<Msg(type, coreSong, n), Token(coreSong)>>
    <2>1. CASE AnswerSong BY <2>1 DEF AnswerSong
    <2>2. CASE LeaveRState
      <3>1. sndbuf \in Nat BY DEF Control, Typed
      <3>2. CASE reboot BY <3>1, <3>2, <2>2 DEF LeaveRState
      <3>3. CASE ~reboot BY <1>2, <3>3, <2>2 DEF LeaveRState
      <3> QED BY <3>2, <3>3
    <2> QED BY <2>1, <2>2
  <1>5. Said(out') \subseteq Uttered
    <2>1. CASE out' = <<>> BY <2>1, NoWord DEF Said
    <2>2. CASE out' = <<Token(coreSong)>>
      <3>1. PICK t \in Message : t = Token(coreSong) BY <1>3 DEF Uttered
      <3>2. Said(<<t>>) = {t} BY SaidShort
      <3> QED BY <1>3, <2>2, <3>1, <3>2
    <2>3. ASSUME NEW type \in {"CAN_PLAY", "CANT_PLAY", "SONG_END"}, NEW n \in Nat,
                 out' = <<Msg(type, coreSong, n), Token(coreSong)>>
          PROVE  Said(out') \subseteq Uttered
      <3>1. PICK m, t \in Message : m = Msg(type, coreSong, n) /\ t = Token(coreSong)
            BY <1>3 DEF Uttered
      <3>2. Said(<<m, t>>) = {m, t} BY SaidShort
      <3> QED BY <1>3, <2>3, <3>1, <3>2
    <2> QED BY <1>4, <2>1, <2>2, <2>3
  <1> QED BY <1>1, <1>2, <1>5, CoreTakesAdds DEF CoreAdds

LEMMA CoreSendAdds ==
  ASSUME Control, CoreSend
  PROVE  CoreAdds /\ coreSong' = coreSong /\ read_size' = read_size
  <1>1. /\ out # <<>> /\ at \notin Dead /\ state["core"] = "S" /\ out \in Seq(Message)
        /\ AllIn(out, ToClient \cup {"TOKEN"})
        BY DEF CoreSend, Control, CoreControl, Typed, Dead
  <1>2. /\ Head(out) \in Message /\ Head(out) \in Said(out) /\ Said(Tail(out)) \subseteq Said(out)
        /\ Head(out).type \in ToClient \cup {"TOKEN"}
        BY <1>1, TailWord, SaidFacts
  <1>3. ASSUME NEW how, Exit(how) PROVE CoreAdds /\ coreSong' = coreSong /\ read_size' = read_size
        BY <1>1, <1>3, ExitAdds DEF Exit, load, sound
  <1>4. CASE "client" \notin open
    <2>1. ClientGone BY <1>4 DEF CoreSend
    <2>2. CASE Exit("killed") \/ Exit("exit1") BY <1>3, <2>2
    <2>3. CASE out' = Tail(out) /\ UNCHANGED <<link, load, sound>>
          BY <1>2, <2>3 DEF CoreAdds, link, load, sound
    <2> QED BY <2>1, <2>2, <2>3 DEF ClientGone
  <1>5. CASE "client" \in open
    <2>1. /\ Link!SendMessage("core", Head(out)) /\ out' = Tail(out)
          /\ UNCHANGED duty /\ UNCHANGED <<coreSong, read_size>>
          BY <1>1, <1>5 DEF CoreSend, load, sound
    <2>2. CoreOpen /\ duty["core"] = "none" /\ LinkTyped
          BY <1>1, CoreFacts DEF Control, CoreControl
    <2>3. Head(out).type # "REQUEST_AMIGA_FILE" BY <1>2 DEF ToClient
    <2>4. /\ inbox'["core"] = inbox["core"]
          /\ inbox'["client"] \in {inbox["client"], Append(inbox["client"], Head(out))}
          BY <1>1, <1>2, <2>1, <2>2, <2>3, CoreSends
    <2>5. inbox["client"] \in Seq(Message) BY DEF Control, Typed, Peers
    <2>6. Said(Append(inbox["client"], Head(out))) = Said(inbox["client"]) \cup {Head(out)}
          BY <1>2, <2>5, SaidFacts
    <2> QED BY <1>2, <2>1, <2>4, <2>6 DEF CoreAdds
  <1> QED BY <1>4, <1>5

LEMMA EmulateAdds ==
  ASSUME Control,
         \/ EmulateSound \/ EmulateSubsongInfo \/ EmulateStartOutput \/ EmulateMessage
         \/ EmulateSongEnd \/ EmulateLed
  PROVE  CoreAdds /\ coreSong' = coreSong /\ read_size' \in {0, read_size}
  <1>1. at = "run" /\ out = <<>>
        BY DEF EmulateSound, EmulateSubsongInfo, EmulateStartOutput, EmulateMessage,
               EmulateSongEnd, EmulateLed
  <1>2. CASE EmulateSound /\ read_size = 0
        BY <1>1, <1>2, ExitAdds DEF EmulateSound, Dead, Exit, load, sound
  <1>3. coreSong \in 0 .. MaxSongs /\ sndbuf \in Nat /\ read_size \in Nat
        BY DEF Control, Typed
  <1>4. ASSUME NEW type \in {"MSG", "SUBSONG_INFO", "SONG_END"}, NEW n \in Nat
        PROVE  Said(<<Msg(type, coreSong, n)>>) \subseteq Uttered
    <2>0. type \in ToClient \cup {"REQUEST_AMIGA_FILE"} BY DEF ToClient
    <2>1. PICK m \in Message : /\ m = Msg(type, coreSong, n) /\ m.type = type
                               /\ m.body = [song |-> coreSong, arg |-> n]
          BY <1>3, <2>0, CoreWords
    <2>2. Said(<<m>>) = {m} BY SaidShort
    <2>3. m \in Uttered BY <1>1, <2>1 DEF Uttered
    <2> QED BY <2>1, <2>2, <2>3
  <1>5. CASE EmulateSound /\ read_size # 0
    <2>1. /\ UNCHANGED link /\ coreSong' = coreSong /\ read_size' \in {0, read_size}
          /\ \/ out' = out
             \/ out' = <<Msg("DATA", coreSong, read_size), Token(coreSong)>>
          BY <1>5 DEF EmulateSound, load, control
    <2>2. CASE out' = out BY <2>1, <2>2 DEF CoreAdds, link
    <2>3. CASE out' = <<Msg("DATA", coreSong, read_size), Token(coreSong)>>
      <3>0. "DATA" \in ToClient BY DEF ToClient
      <3>1. PICK m, t \in Message :
              /\ m = Msg("DATA", coreSong, read_size) /\ m.type = "DATA"
              /\ m.body = [song |-> coreSong, arg |-> read_size]
              /\ t = Token(coreSong) /\ t.type = "TOKEN" /\ t.body.song = coreSong
            BY <1>3, <3>0, CoreWords
      <3>2. Said(<<m, t>>) = {m, t} BY SaidShort
      <3>3. m \in Uttered /\ t \in Uttered BY <1>1, <1>5, <3>1 DEF Uttered
      <3>4. Said(out') \subseteq Uttered BY <2>3, <3>1, <3>2, <3>3
      <3> QED BY <2>1, <3>4 DEF CoreAdds, link
    <2> QED BY <2>1, <2>2, <2>3
  <1>6. CASE EmulateSubsongInfo \/ EmulateMessage \/ EmulateSongEnd
    <2>1. /\ UNCHANGED link /\ coreSong' = coreSong /\ read_size' = read_size
          /\ \E type \in {"MSG", "SUBSONG_INFO", "SONG_END"} : \E n \in Nat :
               out' = <<Msg(type, coreSong, n)>>
          BY <1>3, <1>6 DEF EmulateSubsongInfo, EmulateMessage, EmulateSongEnd, load, sound
    <2> QED BY <1>4, <2>1 DEF CoreAdds, link
  <1>7. CASE EmulateStartOutput \/ EmulateLed
    <2>1. UNCHANGED link /\ UNCHANGED <<out, coreSong, read_size>>
          BY <1>7 DEF EmulateStartOutput, EmulateLed, control, load, sound
    <2> QED BY <2>1 DEF CoreAdds, link
  <1> QED BY <1>2, <1>5, <1>6, <1>7

LEMMA AskingAdds ==
  ASSUME Control, NEW name \in 1 .. MaxFiles, lookup_amiga_file_cache(name)
  PROVE  CoreAdds /\ coreSong' = coreSong /\ read_size' = read_size
  <1>1. at = "run" /\ out = <<>> /\ at \notin Dead BY DEF lookup_amiga_file_cache, Dead
  <1>2. CASE "client" \notin open
        BY <1>1, <1>2, ExitAdds DEF lookup_amiga_file_cache, Exit, load, sound
  <1>3. CASE "client" \in open
    <2>1. /\ Link!RequestFile("core", Msg("REQUEST_AMIGA_FILE", coreSong, name))
          /\ at' = "file" /\ cachedfilename' = name /\ out' = <<>>
          /\ UNCHANGED <<coreSong, read_size>>
          BY <1>1, <1>3 DEF lookup_amiga_file_cache, load, sound
    <2>2. coreSong \in 0 .. MaxSongs /\ name \in Nat
          BY SessionAssumption DEF Control, Typed
    <2>3. PICK m \in Message :
            /\ m = Msg("REQUEST_AMIGA_FILE", coreSong, name) /\ m.type = "REQUEST_AMIGA_FILE"
            /\ m.body = [song |-> coreSong, arg |-> name]
          BY <2>2, CoreWords
    <2>4. CoreOpen /\ duty["core"] = "none" /\ LinkTyped
          BY <1>1, CoreFacts DEF Control, CoreControl
    <2>5. /\ inbox'["core"] = inbox["core"]
          /\ inbox'["client"] = Append(inbox["client"], m)
          BY <2>1, <2>3, <2>4, CoreAsksForFile
    <2>6. inbox["client"] \in Seq(Message) BY DEF Control, Typed, Peers
    <2>7. Said(inbox'["client"]) = Said(inbox["client"]) \cup {m}
          BY <2>3, <2>5, <2>6, SaidFacts
    <2>8. m \in Uttered BY <1>1, <2>1, <2>3 DEF Uttered
    <2> QED BY <1>1, <2>1, <2>5, <2>7, <2>8 DEF CoreAdds
  <1> QED BY <1>2, <1>3

LEMMA ArrivingAdds ==
  ASSUME Control, ReceiveAmigaFile
  PROVE  /\ CoreAdds /\ coreSong' = coreSong /\ read_size' = read_size
         /\ Next_message \in Said(CoreHears) /\ Next_message \in Message
  <1>1. /\ at \in {"file", "filedata"} /\ out = <<>> /\ inbox["core"] # <<>>
        /\ Link!ReceivePiece("core") /\ UNCHANGED <<coreSong, read_size>>
        /\ out' = <<>> \/ out' = <<Msg("MSG", coreSong, 0)>>
        BY DEF ReceiveAmigaFile, load, sound
  <1>2. CoreOpen /\ LinkTyped /\ CoreTyped BY <1>1, CoreFacts DEF Dead
  <1>3. /\ inbox'["core"] = Tail(inbox["core"]) /\ inbox'["client"] = inbox["client"]
        /\ Next_message \in Message /\ inbox["core"] \in Seq(Message)
        BY <1>1, <1>2, CoreTakesPiece DEF LinkTyped, Peers
  <1>4. Said(out') \subseteq Uttered
    <2>1. PICK m \in Message : /\ m = Msg("MSG", coreSong, 0) /\ m.type = "MSG"
                               /\ m.body = [song |-> coreSong, arg |-> 0]
          BY <1>2, CoreWords DEF CoreTyped, ToClient
    <2>2. Said(<<m>>) = {m} BY SaidShort
    <2>3. m \in Uttered BY <1>1, <2>1 DEF Uttered
    <2>4. Said(<<>>) = {} BY NoWord DEF Said
    <2> QED BY <1>1, <2>1, <2>2, <2>3, <2>4
  <1>5. Said(Tail(inbox["core"])) \subseteq Said(inbox["core"]) /\ Next_message \in Said(inbox["core"])
        BY <1>1, <1>3, SaidFacts DEF Next_message
  <1> QED BY <1>1, <1>3, <1>4, <1>5, SaidHeard DEF CoreAdds

LEMMA CoreSpeech ==
  ASSUME Control, CoreStep \/ Emulate \/ CoreDies
  PROVE  CoreAdds
  <1>1. CASE CoreSend BY <1>1, CoreSendAdds
  <1>2. CASE CoreRejects \/ CoreEndOfInput \/ CoreDies
    <2>1. at \notin Dead /\ \E how : Exit(how)
          BY <1>2 DEF CoreRejects, CoreEndOfInput, CoreDies, Receiving, Accepts, Dead
    <2> QED BY <2>1, ExitAdds
  <1>3. CASE CoreBeginReceive
    <2>1. UNCHANGED <<inbox, out, coreSong, read_size>>
          BY <1>3 DEF CoreBeginReceive, Link!BeginReceive, core, control, load, sound
    <2> QED BY <2>1 DEF CoreAdds
  <1>4. CASE CoreTaking
    <2>1. PICK place \in {"option", "score", "player", "playerdata", "module", "moduledata",
                          "token", "rstate"},
               type \in {"CONFIG", "SCORE", "FILE", "FILE_DATA", "CHANGE_SUBSONG", "FILTER",
                         "SET_PLAYER_OPTION", "READ", "REBOOT"} :
            CoreReceive(place, type)
          BY <1>4, CoreTakingFacts
    <2> QED BY <1>4, <2>1, CoreTakesAdds, CoreTakingFacts DEF CoreAdds
  <1>5. CASE AnswerSong \/ LeaveRState BY <1>5, CoreSaysAdds
  <1>6. CASE invalidate_amiga_file_cache \/ BeginSong
    <2>1. UNCHANGED <<link, out, coreSong, read_size>>
          BY <1>6 DEF invalidate_amiga_file_cache, BeginSong, load, sound
    <2> QED BY <2>1 DEF CoreAdds, link
  <1>7. CASE ReceiveAmigaFile BY <1>7, ArrivingAdds
  <1>8. CASE CoreStep
        BY <1>8, <1>1, <1>2, <1>3, <1>4, <1>5, <1>6, <1>7 DEF CoreStep, CoreTaking
  <1>9. CASE Emulate
    <2>1. CASE \E name \in 1 .. MaxFiles : lookup_amiga_file_cache(name) BY <2>1, AskingAdds
    <2> QED BY <1>9, <2>1, EmulateAdds DEF Emulate
  <1> QED BY <1>2, <1>8, <1>9
------------------------------------------------------------------------------
(* The size of a block, in terms of the messages alone. *)
SizeSaid ==
  /\ read_size \in {0, ReadBytes}
  /\ \A m \in Said(CoreHears) : m.type = "READ" => m.body.arg = ReadBytes
  /\ \A m \in Said(ClientHears) : m.type = "DATA" => m.body.arg = ReadBytes

LEMMA SizeAsSaid == OfSize <=> SizeSaid
  BY DEF OfSize, SizeSaid, Said

LEMMA SizeAsSaidNext == OfSize' <=> SizeSaid'
  BY SizeAsSaid, PTL

LEMMA SaidHeardNext ==
  Control' => /\ Said(CoreHears') = Said(inbox'["core"]) \cup Said(sending')
              /\ Said(ClientHears') = Said(inbox'["client"]) \cup Said(out')
  <1>1. Control => /\ Said(CoreHears) = Said(inbox["core"]) \cup Said(sending)
                   /\ Said(ClientHears) = Said(inbox["client"]) \cup Said(out)
        BY SaidHeard
  <1>2. Control' => (/\ Said(CoreHears) = Said(inbox["core"]) \cup Said(sending)
                     /\ Said(ClientHears) = Said(inbox["client"]) \cup Said(out))'
        BY <1>1, PTL
  <1> QED BY <1>2 DEF Said

LEMMA QueueSaid ==
  ASSUME Control
  PROVE  \A m \in Said(write_queue) : m.type = "FILTER"
  BY DEF Said, Control, ClientControl, SendingAt, AllIn

LEMMA InitSize ==
  ASSUME Init
  PROVE  OfSize
  <1>1. /\ read_size = 0 /\ out = <<>> /\ sending = <<Msg("CONFIG", 0, 0)>>
        /\ inbox["core"] = <<>> /\ inbox["client"] = <<>> /\ Control
        BY InitControl DEF Init, CoreInit, ClientInit, Link!Init, Link!Peer
  <1>2. PICK m \in Message : m = Msg("CONFIG", 0, 0) /\ m.type = "CONFIG"
    <2>1. Msg("CONFIG", 0, 0) \in Message /\ Msg("CONFIG", 0, 0).type = "CONFIG"
          BY SessionAssumption DEF Msg, Message, Body, ToCore
    <2> QED BY <2>1
  <1>3. Said(<<m>>) = {m} /\ Said(<<>>) = {} BY SaidShort, NoWord DEF Said
  <1>4. Said(CoreHears) = {m} /\ Said(ClientHears) = {} BY <1>1, <1>2, <1>3, SaidHeard
  <1>5. SizeSaid BY <1>1, <1>2, <1>4 DEF SizeSaid
  <1> QED BY <1>5, SizeAsSaid

LEMMA NextSize ==
  ASSUME Control, OfSize, [Next]_vars
  PROVE  OfSize'
  <1>1. Control' BY NextControl
  <1>2. SizeSaid BY SizeAsSaid
  <1>3. /\ Said(CoreHears) = Said(inbox["core"]) \cup Said(sending)
        /\ Said(ClientHears) = Said(inbox["client"]) \cup Said(out)
        BY SaidHeard
  <1>4. /\ Said(CoreHears') = Said(inbox'["core"]) \cup Said(sending')
        /\ Said(ClientHears') = Said(inbox'["client"]) \cup Said(out')
        BY <1>1, SaidHeardNext
  <1>5. CASE UNCHANGED core /\ ((\E dead \in BOOLEAN : ClientStep(dead)) \/ App \/ ClientDies)
    <2>1. ClientAdds BY <1>1, <1>5, ClientSpeech
    <2>2. read_size' = read_size /\ out' = out BY <1>5 DEF core, sound, control
    <2>3. Said(CoreHears') \subseteq Said(CoreHears) \cup Said(write_queue) \cup Spoken'
          BY <1>3, <1>4, <2>1 DEF ClientAdds
    <2>4. Said(ClientHears') \subseteq Said(ClientHears)
          BY <1>3, <1>4, <2>1, <2>2 DEF ClientAdds
    <2>5. \A m \in Spoken' : m.type = "READ" => m.body.arg = ReadBytes BY DEF Spoken
    <2>6. \A m \in Said(CoreHears') : m.type = "READ" => m.body.arg = ReadBytes
          BY <1>2, <2>3, <2>5, QueueSaid DEF SizeSaid
    <2>7. \A m \in Said(ClientHears') : m.type = "DATA" => m.body.arg = ReadBytes
          BY <1>2, <2>4 DEF SizeSaid
    <2>8. SizeSaid' BY <1>2, <2>2, <2>6, <2>7 DEF SizeSaid, Said
    <2> QED BY <2>8, SizeAsSaidNext
  <1>6. CASE UNCHANGED client /\ (CoreStep \/ Emulate \/ CoreDies)
    <2>1. CoreAdds BY <1>6, CoreSpeech
    <2>2. sending' = sending BY <1>6 DEF client, call
    <2>3. Said(CoreHears') \subseteq Said(CoreHears)
          BY <1>3, <1>4, <2>1, <2>2 DEF CoreAdds
    <2>4. Said(ClientHears') \subseteq Said(ClientHears) \cup Uttered
          BY <1>3, <1>4, <2>1 DEF CoreAdds
    <2>5. \A m \in Uttered : m.type = "DATA" => m.body.arg = ReadBytes
          BY <1>2 DEF Uttered, SizeSaid
    <2>6. read_size' \in {0, ReadBytes}
      <3>1. CASE read_size' \in {0, read_size} BY <1>2, <3>1 DEF SizeSaid
      <3>2. CASE CommandRead
        <4>1. CoreReceive("rstate", "READ") /\ read_size' = Next_message.body.arg
              BY <3>2 DEF CommandRead
        <4>2. Next_message \in Said(CoreHears) /\ Next_message.type = "READ"
              BY <4>1, CoreTakesAdds
        <4> QED BY <1>2, <4>1, <4>2 DEF SizeSaid
      <3> QED BY <2>1, <3>1, <3>2 DEF CoreAdds
    <2>7. \A m \in Said(CoreHears') : m.type = "READ" => m.body.arg = ReadBytes
          BY <1>2, <2>3 DEF SizeSaid
    <2>8. \A m \in Said(ClientHears') : m.type = "DATA" => m.body.arg = ReadBytes
          BY <1>2, <2>4, <2>5 DEF SizeSaid
    <2>9. SizeSaid' BY <2>6, <2>7, <2>8 DEF SizeSaid, Said
    <2> QED BY <2>9, SizeAsSaidNext
  <1>7. CASE UNCHANGED vars
    <2>1. UNCHANGED <<inbox, sending, out, read_size>>
          BY <1>7 DEF vars, link, core, client, control, sound, call
    <2> QED BY <2>1 DEF OfSize, CoreHears, ClientHears
  <1> QED BY <1>5, <1>6, <1>7, StepsOf

(* The assertions of uadestate.c hold in every state, also after one of the   *)
(* two processes has ended.                                                   *)
THEOREM AssertionsHoldAlways == Spec => []AssertionsHold
  <1>1. Init => Control /\ OfSize BY InitControl, InitSize
  <1>2. Control /\ OfSize /\ [Next]_vars => (Control /\ OfSize)'
        BY NextControl, NextSize
  <1>3. Control /\ OfSize => AssertionsHold
    <2> SUFFICES ASSUME Control, OfSize PROVE AssertionsHold OBVIOUS
    <2>1. /\ pc = "event" => state["client"] = (IF phase = "INITIALIZED" THEN "S" ELSE "R")
          /\ pc = "asked" => state["client"] = "R"
          BY DEF Control, ClientControl, StateAt
    <2>2. /\ Said(ClientHears) = Said(inbox["client"]) \cup Said(out)
          BY SaidHeard
    <2>3. inbox["client"] \in Seq(Message) BY DEF Control, Typed, Peers
    <2>4. DOMAIN inbox["client"] = 1 .. Len(inbox["client"]) BY <2>3, LenProperties
    <2>5. \A i \in DOMAIN inbox["client"] : inbox["client"][i] \in Said(ClientHears)
          BY <2>2, <2>4 DEF Said
    <2>6. SizeSaid BY SizeAsSaid
    <2> QED BY <2>1, <2>5, <2>6 DEF AssertionsHold, SizeSaid
  <1> QED BY <1>1, <1>2, <1>3, PTL DEF Spec
------------------------------------------------------------------------------
(* While uadecore is there, no call of the application makes the state of the *)
(* song an error: nothing arrives that uade_get_event() does not know, and    *)
(* neither a receive nor a send fails.                                        *)
LEMMA NoErrorArises ==
  ASSUME Control, Control', Talk, CoreOpen, phase # "ERROR", UNCHANGED core,
         (\E dead \in BOOLEAN : ClientStep(dead)) \/ App \/ ClientDies
  PROVE  phase' # "ERROR"
  <1>1. CASE QuietCall
    <2>1. \/ phase' # "ERROR"
          \/ receive_messages_fails \/ PendingEventsFail
          BY <1>1, QuietCalls DEF QuietCall
    <2>2. ASSUME receive_messages_fails \/ PendingEventsFail PROVE FALSE
      <3>1. pc \in {"receive", "drain", "settle"}
            BY <2>2 DEF receive_messages_fails, PendingEventsFail, ReceiveFails
      <3>2. BothOpen BY <3>1 DEF Control, ClientControl, BothOpen
      <3> QED BY <2>2, <3>2, FailsTalk
    <2> QED BY <2>1, <2>2
  <1>2. CASE receive_messages
    <2>1. ClientReceive("receive") BY <1>2 DEF receive_messages
    <2>2. /\ pc = "receive" /\ phase \in InSong /\ BothOpen
          BY <2>1 DEF ClientReceive, Control, ClientControl, PhaseAt, BothOpen
    <2>3. Exchange BY <2>2, TalkOfClient DEF InSong
    <2>4. /\ inbox["client"] # <<>> /\ sending = <<>>
          /\ inbox'["client"] = Tail(inbox["client"]) /\ inbox'["core"] = inbox["core"]
          BY <2>1, ClientReceives
    <2>5. UNCHANGED <<at, out, read_size, reboot>> BY DEF core, control, sound
    <2>6. /\ ClientHears' = Tail(ClientHears) /\ ClientHears # <<>>
          /\ NewMessage = Head(ClientHears)
          BY <2>4, <2>5, ClientListens
    <2>7. NewMessage.type \in News \cup {"TOKEN", "REQUEST_AMIGA_FILE"}
          BY <2>3, <2>5, <2>6, ExchangeHeard
    <2>8. ~BadMessage BY <2>7 DEF BadMessage, News
    <2>9. Ready \/ FileRequest \/ DataBlock \/ OtherMessage => phase' = phase
          BY DEF Ready, FileRequest, DataBlock, OtherMessage
    <2>10. SongEnd => phase' = "SONG_END_PENDING" BY DEF SongEnd
    <2> QED BY <1>2, <2>8, <2>9, <2>10 DEF receive_messages
  <1>3. CASE ListeningCall /\ ~receive_messages
    <2>1. phase' = phase
          BY <1>3 DEF ListeningCall, ReceiveAnswer, ReceiveTurn, get_pending_events, songstate
    <2> QED BY <2>1
  <1>4. CASE SpeakingCall BY <1>4, Speaking DEF SpeakingCall
  <1>5. CASE ClientSend
    <2>1. /\ sending # <<>>
          /\ pc \in {"new", "init", "options", "request", "reboot", "filter"}
          BY <1>5 DEF ClientSend, Control, ClientControl, SendingAt
    <2>2. CanWrite BY <2>1 DEF CanWrite, CoreOpen, Control, ClientControl, StateAt
    <2> QED BY <1>5, <2>2 DEF ClientSend, songstate
  <1>6. CASE send_file_back BY <1>6 DEF send_file_back, songstate
  <1>7. CASE SendReply BY <1>7 DEF SendReply, songstate, CoreOpen
  <1>8. CASE ClientDies \/ CloseLink BY <1>8, ClientEnding
  <1> QED BY <1>1, <1>2, <1>3, <1>4, <1>5, <1>6, <1>7, <1>8, CallsOf DEF ListeningCall

(* The session state becomes an error only after uadecore is gone. *)
THEOREM ErrorsJustifiedHolds == ~FilterWhenIdle /\ Spec => []ErrorsJustified
  <1>1. Init => ErrorsJustified BY DEF Init, ClientInit, ErrorsJustified
  <1>2. ASSUME Control, Control', Talk, ErrorsJustified, [Next]_vars
        PROVE  ErrorsJustified'
    <2> SUFFICES ASSUME CoreOpen' PROVE phase' # "ERROR" BY DEF ErrorsJustified, CoreOpen
    <2>1. CoreOpen BY <1>2, NextControl, OpenShrinks DEF CoreOpen
    <2>2. phase # "ERROR" BY <1>2, <2>1 DEF ErrorsJustified, CoreOpen
    <2>3. CASE UNCHANGED core /\ ((\E dead \in BOOLEAN : ClientStep(dead)) \/ App \/ ClientDies)
          BY <1>2, <2>1, <2>2, <2>3, NoErrorArises
    <2>4. CASE UNCHANGED client \/ UNCHANGED vars
          BY <2>2, <2>4 DEF vars, client, songstate
    <2> QED BY <1>2, <2>3, <2>4, StepsOf
  <1>3. CASE FilterWhenIdle BY <1>3
  <1>4. CASE ~FilterWhenIdle BY <1>1, <1>2, TalkHolds, PTL DEF Spec
  <1> QED BY <1>3, <1>4
------------------------------------------------------------------------------
LEMMA AcceptsTable ==
  /\ DOMAIN Accepts = {"option", "score", "player", "playerdata", "module", "moduledata",
                       "token", "rstate", "file", "filedata"}
  /\ Accepts["option"] = {"CONFIG"} /\ Accepts["score"] = {"SCORE"}
  /\ Accepts["player"] = {"FILE"} /\ Accepts["playerdata"] = {"FILE_DATA"}
  /\ Accepts["module"] = {"FILE"} /\ Accepts["moduledata"] = {"FILE_DATA"}
  /\ Accepts["token"] = {"TOKEN"}
  /\ Accepts["rstate"] = Orders \cup {"TOKEN", "READ", "REBOOT"}
  /\ Accepts["file"] = {"FILE"} /\ Accepts["filedata"] = {"FILE_DATA"}
  BY DEF Accepts, Orders

(* While libuade is there, uadecore accepts whatever it hears where it stands. *)
LEMMA Accepted ==
  ASSUME Control, Talk, OfSize, BothOpen, Receiving, inbox["core"] # <<>>
  PROVE  /\ Next_message.type \in Accepts[at]
         /\ state["core"] # "S"
         /\ ~(at = "player" /\ Next_message.last)
         /\ Next_message.type = "READ" => read_size = 0 /\ Next_message.body.arg # 0
  <1>1. /\ at \in {"option", "score", "player", "playerdata", "module", "moduledata",
                   "token", "rstate", "file", "filedata"}
        /\ out = <<>>
        BY AcceptsTable DEF Receiving
  <1>2. /\ CoreHears # <<>> /\ Next_message = CoreHears[1] /\ CoreHears \in Seq(Message)
        /\ Len(CoreHears) \in Nat \ {0} /\ 1 \in 1 .. Len(CoreHears)
    <2>1. inbox["core"] \in Seq(Message) /\ sending \in Seq(Message)
          BY DEF Control, Typed, Peers
    <2>2. Next_message = CoreHears[1] /\ CoreHears # <<>> /\ CoreHears \in Seq(Message)
          BY <2>1, ReceiveWord DEF CoreHears, Next_message
    <2>3. Len(CoreHears) \in Nat \ {0} BY <2>2, TailWord
    <2> QED BY <2>2, <2>3
  <1>3. state["core"] # "S" BY <1>1 DEF Control, CoreControl, Dead
  <1>4. PICK m : m = CoreHears[1] OBVIOUS
  <1>5. ~Quiet \/ (at = "option" /\ m.type = "CONFIG") BY <1>2, <1>4, Places DEF Quiet
  <1>6. ASSUME Loading, at # "rstate", at \notin {"file", "filedata"}
        PROVE  /\ m.type \in Accepts[at]
               /\ ~(at = "player" /\ m.last)
    <2>1. PICK module \in BOOLEAN, n \in 0 .. 6 : LoadingAt(module, n) BY <1>6, LoadingFacts
    <2>2. /\ m.type = LoadTypes(module)[n + 1]
          /\ m.type = "FILE" => (m.last <=> n + 1 = 5 /\ ~module)
          BY <1>2, <1>4, <2>1 DEF LoadingAt
    <2>3. CASE n = 0
      <3>1. m.type = "CONFIG" /\ at = "option" BY <2>1, <2>2, <2>3, LoadTable, LoadingFacts
      <3> QED BY <3>1, AcceptsTable
    <2>4. CASE n = 1
      <3>1. m.type = "SCORE" /\ at = "score" BY <1>1, <2>1, <2>2, <2>4, LoadTable, LoadingFacts
      <3> QED BY <3>1, AcceptsTable
    <2>5. CASE n = 2
      <3>1. m.type = "FILE" /\ ~m.last /\ at = "player"
            BY <2>1, <2>2, <2>5, LoadTable, LoadingFacts
      <3> QED BY <3>1, AcceptsTable
    <2>6. CASE n = 3
      <3>1. m.type = "FILE_DATA" /\ at = "playerdata"
            BY <2>1, <2>2, <2>6, LoadTable, LoadingFacts
      <3> QED BY <3>1, AcceptsTable
    <2>7. CASE n = 4
      <3>1. m.type = "FILE" /\ at = "module" BY <2>1, <2>2, <2>7, LoadTable, LoadingFacts
      <3> QED BY <3>1, AcceptsTable
    <2>8. CASE n = 5 /\ module
      <3>0. LoadTypes(module)[6] = "FILE_DATA"
            BY <2>8, LoadTable
      <3>1. m.type = LoadTypes(module)[6] BY <2>2, <2>8
      <3>2. at = "moduledata" BY <2>1, <2>8, LoadingFacts
      <3> QED BY <3>0, <3>1, <3>2, AcceptsTable
    <2>9. CASE n \in {5, 6} /\ ~(n = 5 /\ module)
      <3>0. n = LoadLength(module) - 1 BY <2>1, <2>9 DEF LoadingAt, LoadLength
      <3>1. m.type = "TOKEN" /\ at = "token"
            BY <2>1, <2>2, <2>9, <3>0, LoadTable, LoadingFacts DEF LoadLength
      <3> QED BY <3>1, AcceptsTable
    <2> QED BY <2>3, <2>4, <2>5, <2>6, <2>7, <2>8, <2>9
  <1>7. CASE at \in {"option", "score", "player", "playerdata", "module", "moduledata", "token"}
    <2>1. Loading \/ (at = "option" /\ m.type = "CONFIG")
          BY <1>2, <1>5, <1>7, TalkOfCore, Places
    <2>2. m.type \in Accepts[at] /\ ~(at = "player" /\ m.last)
          BY <1>6, <1>7, <2>1, AcceptsTable
    <2>3. m.type # "READ" BY <1>7, <2>2, AcceptsTable
    <2> QED BY <1>2, <1>3, <1>4, <2>2, <2>3
  <1>8. CASE at = "rstate"
    <2>1. Opening \/ Ordered \/ Rebooting BY <1>2, <1>8, TalkOfCore, Places
    <2>2. m.type = "READ" => m.body.arg # 0
      <3>1. m.type = "READ" => m.body.arg = ReadBytes BY <1>2, <1>4 DEF OfSize
      <3> QED BY <3>1, LibUadeAssumption
    <2>3. CASE Opening
      <3>1. AllIn(CoreHears, Orders) BY <2>3 DEF Opening
      <3>2. m.type \in Orders BY <1>2, <1>4, <3>1 DEF AllIn
      <3> QED BY <1>2, <1>3, <1>4, <1>8, <3>2, AcceptsTable DEF Orders
    <2>4. CASE Ordered
      <3>1. OrderedWord(CoreHears) /\ (read_size = 0 <=> Len(CoreHears) > 1)
            BY <2>4 DEF Ordered, OrderedWord
      <3>2. /\ m.type \in Orders \cup {"READ", "TOKEN"}
            /\ m.type = "READ" <=> Len(CoreHears) = 2
            BY <1>2, <1>4, <3>1, OrderedTail
      <3> QED BY <1>2, <1>3, <1>4, <1>8, <2>2, <3>1, <3>2, AcceptsTable
    <2>5. CASE Rebooting
      <3>1. /\ EndsWith(CoreHears, "TOKEN")
            /\ \/ Len(CoreHears) = 2 /\ m.type = "REBOOT"
               \/ Len(CoreHears) = 1
            BY <1>4, <2>5 DEF Rebooting
      <3>2. m.type \in {"TOKEN", "REBOOT"} BY <1>2, <1>4, <3>1 DEF EndsWith
      <3> QED BY <1>2, <1>3, <1>4, <1>8, <3>2, AcceptsTable
    <2> QED BY <2>1, <2>3, <2>4, <2>5
  <1>9. CASE at \in {"file", "filedata"}
    <2>1. Delivering BY <1>2, <1>9, TalkOfCore, Places
    <2>2. \/ at = "file" /\ m.type = "FILE"
          \/ at = "filedata" /\ m.type = "FILE_DATA"
          BY <1>4, <2>1 DEF Delivering
    <2> QED BY <1>2, <1>3, <1>4, <2>2, AcceptsTable
  <1> QED BY <1>1, <1>7, <1>8, <1>9

(* uadecore never ends with an error while libuade is there. *)
LEMMA NeverGivesUp ==
  ASSUME Control, Talk, OfSize, ClientOpen, at # "exit1", CoreStep \/ Emulate \/ CoreDies
  PROVE  at' # "exit1"
  <1> USE DEF ClientOpen
  <1>1. CASE CoreSend
    <2>1. state["core"] = "S" BY <1>1 DEF CoreSend, Control, CoreControl
    <2> QED BY <1>1, <2>1 DEF CoreSend
  <1>2. CASE CoreRejects
    <2>1. CoreOpen
          BY <1>2, AcceptsTable DEF CoreRejects, Receiving, Control, CoreControl, Dead
    <2>2. BothOpen /\ Receiving /\ inbox["core"] # <<>> BY <1>2, <2>1 DEF CoreRejects, BothOpen
    <2> QED BY <1>2, <2>2, Accepted DEF CoreRejects
  <1>3. CASE CoreEndOfInput BY <1>3 DEF CoreEndOfInput
  <1>4. CASE CoreDies BY <1>4 DEF CoreDies, Exit
  <1>5. CASE CoreBeginReceive BY <1>5 DEF CoreBeginReceive, core, control
  <1>6. CASE CoreTaking BY <1>6, CoreTakingFacts
  <1>7. CASE AnswerSong \/ LeaveRState \/ invalidate_amiga_file_cache \/ BeginSong
        BY <1>7 DEF AnswerSong, LeaveRState, invalidate_amiga_file_cache, BeginSong
  <1>8. CASE ReceiveAmigaFile BY <1>8 DEF ReceiveAmigaFile
  <1>9. CASE CoreStep
        BY <1>9, <1>1, <1>2, <1>3, <1>5, <1>6, <1>7, <1>8 DEF CoreStep, CoreTaking
  <1>10. CASE EmulateSound
    <2>1. at = "run" BY <1>10 DEF EmulateSound
    <2>2. BothOpen BY <2>1 DEF Control, CoreControl, BothOpen, Dead
    <2>3. read_size # 0 BY <2>1, <2>2, TalkOfCore DEF Running
    <2> QED BY <1>10, <2>1, <2>3 DEF EmulateSound, control
  <1>11. CASE Emulate /\ ~EmulateSound
    <2>1. CASE \E name \in 1 .. MaxFiles : lookup_amiga_file_cache(name)
          BY <2>1 DEF lookup_amiga_file_cache
    <2>2. CASE EmulateSubsongInfo \/ EmulateStartOutput \/ EmulateMessage
               \/ EmulateSongEnd \/ EmulateLed
          BY <2>2 DEF EmulateSubsongInfo, EmulateStartOutput, EmulateMessage, EmulateSongEnd,
                      EmulateLed, control
    <2> QED BY <1>11, <2>1, <2>2 DEF Emulate
  <1> QED BY <1>4, <1>9, <1>10, <1>11

(* uadecore never gives up on a client that is still there: whatever the      *)
(* order of the application's calls, no message is refused where it arrives,  *)
(* and the machine never runs without a read request to fill.                 *)
THEOREM NoProtocolErrorHolds == ~FilterWhenIdle /\ Spec => []NoProtocolError
  <1>1. Init => OfSize /\ NoProtocolError
        BY InitSize DEF Init, CoreInit, NoProtocolError
  <1>2. ASSUME Control, Control', Talk, OfSize, NoProtocolError, [Next]_vars
        PROVE  OfSize' /\ NoProtocolError'
    <2>1. OfSize' BY <1>2, NextSize
    <2>2. SUFFICES ASSUME ClientOpen' PROVE at' # "exit1"
          BY <2>1 DEF NoProtocolError, ClientOpen
    <2>3. ClientOpen BY <1>2, <2>2, NextControl, OpenShrinks DEF ClientOpen
    <2>4. at # "exit1" BY <1>2, <2>3 DEF NoProtocolError, ClientOpen
    <2>5. CASE UNCHANGED client /\ (CoreStep \/ Emulate \/ CoreDies)
          BY <1>2, <2>3, <2>4, <2>5, NeverGivesUp
    <2>6. CASE UNCHANGED core \/ UNCHANGED vars BY <2>4, <2>6 DEF vars, core, control
    <2> QED BY <1>2, <2>5, <2>6, StepsOf
  <1>3. CASE FilterWhenIdle BY <1>3
  <1>4. CASE ~FilterWhenIdle BY <1>1, <1>2, TalkHolds, PTL DEF Spec
  <1> QED BY <1>3, <1>4
------------------------------------------------------------------------------
(* What the link alone says of the messages on their way. *)
LEMMA LinkClear ==
  ASSUME Control, LP!Inv
  PROVE  /\ ~ClientOpen => inbox["client"] = <<>>
         /\ ~CoreOpen => inbox["core"] = <<>>
         /\ state["client"] = "S" => inbox["client"] = <<>>
         /\ \A i \in 1 .. Len(inbox["core"]) : inbox["core"][i].type = "TOKEN" =>
              i = Len(inbox["core"]) /\ sending = <<>>
  <1>1. /\ LP!ClosedIsEmpty /\ LP!SenderClear /\ LP!YieldIsLast /\ LP!NeverSpoke
        BY DEF LP!Inv
  <1>2. ~ClientOpen => inbox["client"] = <<>>
        BY <1>1 DEF LP!ClosedIsEmpty, LP!Peer, ClientOpen
  <1>3. ~CoreOpen => inbox["core"] = <<>>
        BY <1>1 DEF LP!ClosedIsEmpty, LP!Peer, CoreOpen
  <1>4. state["client"] = "S" => inbox["client"] = <<>>
        BY <1>1 DEF LP!SenderClear, LP!Peer
  <1>5. ASSUME NEW i \in 1 .. Len(inbox["core"]), inbox["core"][i].type = "TOKEN"
        PROVE  i = Len(inbox["core"]) /\ sending = <<>>
    <2>1. LP!Yields(duty["core"], inbox["core"][i]) BY <1>5 DEF LP!Yields, LP!IsToken
    <2>2. i = Len(inbox["core"]) BY <1>1, <1>5, <2>1 DEF LP!YieldIsLast, LP!Peer
    <2>3. LP!Yielded("core") BY <1>5, <2>1 DEF LP!Yielded
    <2>4. state["client"] # "S" BY <1>1, <2>3 DEF LP!SenderClear, LP!Peer, LP!Other
    <2>5. state["client"] # "INITIAL"
      <3>1. CASE inbox["core"] = <<>> BY <1>5, <3>1, NoWord
      <3>2. CASE inbox["core"] # <<>> BY <1>1, <3>2 DEF LP!NeverSpoke
      <3> QED BY <3>1, <3>2
    <2>6. sending = <<>>
      <3>1. pc \in {"new", "init", "options", "request", "reply", "reboot", "filter"} /\ sending # <<>>
              => state["client"] \in {"INITIAL", "S"}
            BY DEF Control, ClientControl, StateAt
      <3>2. pc \notin {"new", "init", "options", "request", "reply", "reboot", "filter"}
              => sending = <<>>
            BY DEF Control, ClientControl, SendingAt
      <3> QED BY <2>4, <2>5, <3>1, <3>2
    <2> QED BY <2>2, <2>6
  <1> QED BY <1>2, <1>3, <1>4, <1>5

(* The places where uadecore has a song. *)
SongPlaces ==
  {"player", "playerdata", "module", "moduledata", "token", "begin", "rstate", "run",
   "file", "filedata"}

SongSaid ==
  /\ \A m \in Said(CoreHears) : m.type # "CONFIG" => m.body.song = song
  /\ ClientOpen => \A m \in Said(ClientHears) : m.body.song = song
  /\ \A m \in Said(write_queue) : m.body.song = song
  /\ at \in SongPlaces \/ out # <<>> => coreSong = song

LEMMA SongAsSaid == OfSong <=> SongSaid
  BY DEF OfSong, SongSaid, Said, SongPlaces

LEMMA SongAsSaidNext == OfSong' <=> SongSaid'
  BY SongAsSaid, PTL

LEMMA SongPlacesKept ==
  ASSUME Control, CoreStep \/ Emulate \/ CoreDies, ~ReceiveScore,
         at' \in SongPlaces \/ out' # <<>>
  PROVE  at \in SongPlaces \/ out # <<>>
  <1>1. CASE CoreSend BY <1>1 DEF CoreSend
  <1>2. CASE CoreRejects \/ CoreEndOfInput \/ CoreDies
    <2>1. /\ at \notin Dead
          /\ \E how \in {"exit0", "exit1", "killed"} : at' = how /\ out' = <<>>
          BY <1>2 DEF CoreRejects, CoreEndOfInput, CoreDies, Receiving, Accepts, Dead, Exit
    <2> QED BY <2>1 DEF SongPlaces
  <1>3. CASE CoreBeginReceive BY <1>3 DEF CoreBeginReceive, core, control
  <1>4. CASE uadecore_option \/ invalidate_amiga_file_cache
        BY <1>4 DEF uadecore_option, invalidate_amiga_file_cache, CoreReceive, SongPlaces
  <1>5. CASE ReceivePlayer \/ ReceiveModule \/ AnswerSong \/ BeginSong \/ change_subsong
             \/ audio_set_filter \/ add_ep_option \/ CommandRead \/ CommandReboot \/ LeaveRState
        BY <1>5 DEF ReceivePlayer, ReceiveModule, AnswerSong, BeginSong, change_subsong,
                    audio_set_filter, add_ep_option, CommandRead, CommandReboot, LeaveRState,
                    CoreReceive, SongPlaces
  <1>6. CASE ReceiveAmigaFile BY <1>6 DEF ReceiveAmigaFile, SongPlaces
  <1>7. CASE Emulate
    <2>1. at = "run"
          BY <1>7 DEF Emulate, EmulateSound, EmulateSubsongInfo, EmulateStartOutput,
                      EmulateMessage, EmulateSongEnd, EmulateLed, lookup_amiga_file_cache
    <2> QED BY <2>1 DEF SongPlaces
  <1> QED BY <1>1, <1>2, <1>3, <1>4, <1>5, <1>6, <1>7 DEF CoreStep

LEMMA InitSong ==
  ASSUME Init
  PROVE  OfSong
  <1>1. /\ out = <<>> /\ sending = <<Msg("CONFIG", 0, 0)>> /\ write_queue = <<>> /\ at = "option"
        /\ inbox["core"] = <<>> /\ inbox["client"] = <<>> /\ Control
        BY InitControl DEF Init, CoreInit, ClientInit, Link!Init, Link!Peer
  <1>2. PICK m \in Message : m = Msg("CONFIG", 0, 0) /\ m.type = "CONFIG"
    <2>1. Msg("CONFIG", 0, 0) \in Message /\ Msg("CONFIG", 0, 0).type = "CONFIG"
          BY SessionAssumption DEF Msg, Message, Body, ToCore
    <2> QED BY <2>1
  <1>3. Said(<<m>>) = {m} /\ Said(<<>>) = {} BY SaidShort, NoWord DEF Said
  <1>4. Said(CoreHears) = {m} /\ Said(ClientHears) = {} BY <1>1, <1>2, <1>3, SaidHeard
  <1>5. SongSaid BY <1>1, <1>2, <1>3, <1>4 DEF SongSaid, SongPlaces
  <1> QED BY <1>5, SongAsSaid

(* Before a new song, nothing of the old one is left. *)
LEMMA NothingLeft ==
  ASSUME Control, Talk, LP!Inv, pc = "idle", phase = "INVALID"
  PROVE  /\ ClientHears = <<>> /\ write_queue = <<>> /\ out = <<>> /\ at \notin SongPlaces
         /\ \A m \in Said(CoreHears) : m.type = "CONFIG"
         /\ at # "option" => CoreHears = <<>>
  <1>1. /\ ClientOpen /\ state["client"] = "S" /\ write_queue = <<>> /\ sending = <<>>
        BY DEF Control, ClientControl, StateAt, PhaseAt, SendingAt
  <1>2. CASE CoreOpen
    <2>1. Quiet BY <1>1, <1>2, TalkOfClient DEF BothOpen
    <2>2. ClientHears = <<>> /\ out = <<>> /\ at \in {"option", "reset", "score"}
          BY <2>1, Places, Heard
    <2>3. \A i \in 1 .. Len(CoreHears) : CoreHears[i].type = "CONFIG"
          BY <2>1, NoWord DEF Quiet
    <2> QED BY <1>1, <2>1, <2>2, <2>3, Places DEF Said, SongPlaces
  <1>3. CASE ~CoreOpen
    <2>1. at \in Dead /\ out = <<>> BY <1>3 DEF Control, CoreControl, Dead
    <2>2. inbox["client"] = <<>> /\ inbox["core"] = <<>> BY <1>1, <1>3, LinkClear
    <2>3. ClientHears = <<>> /\ CoreHears = <<>> BY <1>1, <2>1, <2>2, Heard
    <2> QED BY <1>1, <2>1, <2>3, NoWord DEF Said, Dead, SongPlaces
  <1> QED BY <1>2, <1>3

LEMMA ClientSong ==
  ASSUME Control, Control', Talk, LP!Inv, OfSong, UNCHANGED core, open' \subseteq open,
         (\E dead \in BOOLEAN : ClientStep(dead)) \/ App \/ ClientDies
  PROVE  OfSong'
  <1>1. SongSaid BY SongAsSaid
  <1>2. ClientAdds /\ (~AppPlay => UNCHANGED song) BY ClientSpeech
  <1>3. UNCHANGED <<at, out, coreSong>> BY DEF core, control, load
  <1>4. /\ Said(CoreHears') \subseteq Said(CoreHears) \cup Said(write_queue) \cup Spoken'
        /\ Said(ClientHears') \subseteq Said(ClientHears)
        /\ Said(write_queue') \subseteq Said(write_queue) \cup Spoken'
        BY <1>2, <1>3, SaidHeard, SaidHeardNext DEF ClientAdds
  <1>5. \A m \in Spoken' : m.body.song = song' BY DEF Spoken
  <1>6. ClientOpen' => ClientOpen BY DEF ClientOpen
  <1>7. CASE ~AppPlay
    <2>0. song' = song BY <1>2, <1>7
    <2>1. \A m \in Said(CoreHears') : m.type # "CONFIG" => m.body.song = song'
          BY <1>1, <1>4, <1>5, <2>0 DEF SongSaid
    <2>2. ClientOpen' => \A m \in Said(ClientHears') : m.body.song = song'
          BY <1>1, <1>4, <1>6, <2>0 DEF SongSaid
    <2>3. \A m \in Said(write_queue') : m.body.song = song'
          BY <1>1, <1>4, <1>5, <2>0 DEF SongSaid
    <2>4. at' \in SongPlaces \/ out' # <<>> => coreSong' = song'
          BY <1>1, <1>3, <2>0 DEF SongSaid
    <2>5. SongSaid' BY <2>1, <2>2, <2>3, <2>4 DEF SongSaid, Said, SongPlaces
    <2> QED BY <2>5, SongAsSaidNext
  <1>8. CASE AppPlay
    <2>1. pc = "idle" /\ phase = "INVALID" BY <1>8 DEF AppPlay
    <2>2. /\ ClientHears = <<>> /\ write_queue = <<>> /\ out = <<>> /\ at \notin SongPlaces
          /\ \A m \in Said(CoreHears) : m.type = "CONFIG"
          BY <2>1, NothingLeft
    <2>3. Said(ClientHears) = {} /\ Said(write_queue) = {} BY <2>2, NoWord DEF Said
    <2>4. \A m \in Said(CoreHears') : m.type # "CONFIG" => m.body.song = song'
          BY <1>4, <1>5, <2>2, <2>3
    <2>5. \A m \in Said(write_queue') : m.body.song = song' BY <1>4, <1>5, <2>3
    <2>6. Said(ClientHears') = {} BY <1>4, <2>3
    <2>7. SongSaid' BY <1>3, <2>2, <2>4, <2>5, <2>6 DEF SongSaid, Said, SongPlaces
    <2> QED BY <2>7, SongAsSaidNext
  <1> QED BY <1>7, <1>8

LEMMA CoreSong ==
  ASSUME Control, Control', OfSong, UNCHANGED client, open' \subseteq open,
         CoreStep \/ Emulate \/ CoreDies
  PROVE  OfSong'
  <1>1. SongSaid BY SongAsSaid
  <1>2. CoreAdds BY CoreSpeech
  <1>3. UNCHANGED <<sending, song, write_queue>> BY DEF client, call, songstate
  <1>4. /\ Said(CoreHears') \subseteq Said(CoreHears)
        /\ Said(ClientHears') \subseteq Said(ClientHears) \cup Uttered
        BY <1>2, <1>3, SaidHeard, SaidHeardNext DEF CoreAdds
  <1>5. ClientOpen' => ClientOpen BY DEF ClientOpen
  <1>6. \A m \in Uttered : m.body.song = song BY <1>1 DEF Uttered, SongSaid, SongPlaces
  <1>7. ASSUME at' \in SongPlaces \/ out' # <<>> PROVE coreSong' = song
    <2>1. CASE ReceiveScore
      <3>1. CoreReceive("score", "SCORE") /\ coreSong' = Next_message.body.song
            BY <2>1 DEF ReceiveScore
      <3>2. Next_message \in Said(CoreHears) /\ Next_message.type = "SCORE"
            BY <3>1, CoreTakesAdds
      <3> QED BY <1>1, <3>1, <3>2 DEF SongSaid
    <2>2. CASE ~ReceiveScore
      <3>1. coreSong' = coreSong BY <1>2, <2>2 DEF CoreAdds
      <3>2. at \in SongPlaces \/ out # <<>> BY <1>7, <2>2, SongPlacesKept
      <3> QED BY <1>1, <3>1, <3>2 DEF SongSaid
    <2> QED BY <2>1, <2>2
  <1>8. \A m \in Said(CoreHears') : m.type # "CONFIG" => m.body.song = song
        BY <1>1, <1>4 DEF SongSaid
  <1>9. ClientOpen' => \A m \in Said(ClientHears') : m.body.song = song
        BY <1>1, <1>4, <1>5, <1>6 DEF SongSaid
  <1>10. \A m \in Said(write_queue) : m.body.song = song BY <1>1 DEF SongSaid
  <1>11. SongSaid' BY <1>3, <1>7, <1>8, <1>9, <1>10 DEF SongSaid, Said, SongPlaces
  <1> QED BY <1>11, SongAsSaidNext

LEMMA NextSong ==
  ASSUME Control, Talk, LP!Inv, OfSong, [Next]_vars
  PROVE  OfSong'
  <1>1. Control' /\ open' \subseteq open BY NextControl, OpenShrinks
  <1>2. CASE UNCHANGED vars
    <2>1. UNCHANGED <<inbox, open, sending, out, song, at, coreSong, write_queue>>
          BY <1>2 DEF vars, link, core, client, control, load, call, songstate
    <2> QED BY <2>1 DEF OfSong, CoreHears, ClientHears, ClientOpen
  <1> QED BY <1>1, <1>2, StepsOf, ClientSong, CoreSong
------------------------------------------------------------------------------
(* The file that libuade looks up is the one it was asked for. *)
LEMMA WantedFile ==
  ASSUME Control, Control',
         (\E dead \in BOOLEAN : ClientStep(dead)) \/ App \/ ClientDies,
         pc' \in {"asked", "reply"}
  PROVE  \/ pc \in {"asked", "reply"} /\ wanted' = wanted
         \/ /\ NewMessage \in Said(ClientHears) /\ NewMessage.type = "REQUEST_AMIGA_FILE"
            /\ wanted' = NewMessage.body.arg
  <1>1. ~QuietCall BY QuietCalls DEF QuietCall
  <1>2. ~SpeakingCall
    <2>1. AppPlay => pc' = "init" BY DEF AppPlay, GoSend
    <2>2. OrderReboot => pc' = "reboot" BY DEF OrderReboot, GoSend
    <2>3. GetEvent /\ phase = "INITIALIZED" => pc' = "request" BY DEF GetEvent, GoSend
    <2>4. (\E newstate \in {0, 1} : AppSetFilter(newstate)) => pc' \in {"filter", "idle"}
          BY DEF AppSetFilter, GoSend
    <2> QED BY <2>1, <2>2, <2>3, <2>4 DEF SpeakingCall
  <1>3. CASE ListeningCall
    <2>1. ASSUME NEW place \in {"receive", "drain", "settle"}, ClientReceive(place),
                 place \in {"drain", "settle"} => state["client"] # "S"
          PROVE  NewMessage \in Said(ClientHears) /\ pc = place
          BY <2>1, Listens, SaidHeard
    <2>2. CASE ReceiveAnswer \/ ReceiveTurn
      <3>1. (IF phase' = "INVALID" THEN pc' \in {"idle", "fatal", "close"} ELSE pc' = "drain")
              \/ pc' \in {"canplay", "cantplay", "options"}
            BY <2>2, StopFacts DEF ReceiveAnswer, ReceiveTurn, GoTo, GoSend
      <3> QED BY <3>1
    <2>3. CASE receive_messages
      <3>1. /\ ClientReceive("receive") /\ pc = "receive" /\ phase \in InSong
            BY <2>3 DEF receive_messages, ClientReceive, Control, ClientControl, PhaseAt
      <3>2. ~Ready BY DEF Ready, GoSend
      <3>3. ~DataBlock BY <3>1, GiveEventFacts DEF DataBlock, InSong
      <3>4. ~SongEnd BY <3>1 DEF SongEnd
      <3>5. ~OtherMessage BY <3>1, GiveEventFacts DEF OtherMessage, InSong
      <3>6. ~BadMessage BY EventFailsFacts DEF BadMessage
      <3>7. FileRequest BY <2>3, <3>2, <3>3, <3>4, <3>5, <3>6 DEF receive_messages
      <3> QED BY <2>1, <3>1, <3>7 DEF FileRequest
    <2>4. ASSUME NEW place \in {"drain", "settle"}, get_pending_events(place)
          PROVE  /\ NewMessage \in Said(ClientHears) /\ NewMessage.type = "REQUEST_AMIGA_FILE"
                 /\ wanted' = NewMessage.body.arg
      <3>1. ClientReceive(place) /\ state["client"] # "S" /\ pc = place
            BY <2>4 DEF get_pending_events
      <3> QED BY <2>1, <2>4, <3>1 DEF get_pending_events
    <2> QED BY <1>3, <2>2, <2>3, <2>4 DEF ListeningCall
  <1>4. CASE ClientSend
    <2>1. pc \in {"new", "init", "options", "request", "reboot", "filter"}
          BY <1>4 DEF ClientSend, Control, ClientControl, SendingAt
    <2>2. CASE CanWrite \/ Optional BY <1>4, <2>1, <2>2 DEF ClientSend
    <2>3. CASE ~(CanWrite \/ Optional)
      <3>1. pc = "reboot" => caller \in {"app", "unplayable", "error", "cleanup"}
            BY DEF Control, ClientControl, PhaseAt, Stopping
      <3> QED BY <1>4, <2>1, <2>3, <3>1, StopFacts, StopReturnsFacts, EventFailsFacts
              DEF ClientSend, GoTo
    <2> QED BY <2>2, <2>3
  <1>5. CASE send_file_back BY <1>5 DEF send_file_back
  <1>6. CASE SendReply BY <1>6 DEF SendReply
  <1>7. ~(ClientDies \/ CloseLink) BY DEF ClientDies, CloseLink, GoTo
  <1> QED BY <1>1, <1>2, <1>3, <1>4, <1>5, <1>6, <1>7, CallsOf

LoadingPlaces ==
  {"score", "player", "playerdata", "module", "moduledata", "token", "begin"}

FileAwaited == [song |-> coreSong, arg |-> cachedfilename]

FileSaid ==
  /\ at \in LoadingPlaces => cachedfile = NoFile
  /\ at \in {"rstate", "run"} /\ cachedfile # NoFile => cachedfile = FileAwaited
  /\ at \in {"file", "filedata"} =>
       /\ \A m \in Said(CoreHears) : m.body = FileAwaited
       /\ \A m \in Said(ClientHears) :
            m.type = "REQUEST_AMIGA_FILE" => m.body.arg = cachedfilename
       /\ pc \in {"asked", "reply"} => wanted = cachedfilename

LEMMA FileAsSaid == OfFile <=> FileSaid
  BY DEF OfFile, FileSaid, Said, LoadingPlaces, FileAwaited

LEMMA FileAsSaidNext == OfFile' <=> FileSaid'
  BY FileAsSaid, PTL

(* While it waits for a file, uadecore hears of nothing else. *)
FilesOnly ==
  BothOpen /\ at \in {"file", "filedata"} =>
    (\A m \in Said(CoreHears) : m.type \in FileTypes) /\ pc # "init"

LEMMA FilesOnlyNow == Control /\ Talk => FilesOnly
  <1> SUFFICES ASSUME Control, Talk, BothOpen, at \in {"file", "filedata"}
               PROVE  (\A m \in Said(CoreHears) : m.type \in FileTypes) /\ pc # "init"
      BY DEF FilesOnly
  <1>1. Asking \/ LookingUp \/ Delivering BY TalkOfCore
  <1>2. CASE Asking \/ LookingUp BY <1>2, Places, NoWord DEF Said
  <1>3. CASE Delivering
    <2>1. \A i \in 1 .. Len(CoreHears) : CoreHears[i].type \in FileTypes
      <3>1. \/ Len(CoreHears) = 1 /\ CoreHears[1].type \in FileTypes
            \/ /\ Len(CoreHears) = 2 /\ CoreHears[1].type \in FileTypes
               /\ CoreHears[2].type \in FileTypes
            BY <1>3 DEF Delivering, FileTypes
      <3>2. CASE Len(CoreHears) = 1 BY <3>1, <3>2
      <3>3. CASE Len(CoreHears) # 1 BY <3>1, <3>3
      <3> QED BY <3>2, <3>3
    <2>2. pc # "init" BY <1>3, Places
    <2> QED BY <2>1, <2>2 DEF Said
  <1> QED BY <1>1, <1>2, <1>3

LEMMA FilesOnlyNext == Control' /\ Talk' => FilesOnly'
  BY FilesOnlyNow, PTL

LEMMA ClientFile ==
  ASSUME Control, Control', Talk', OfSong', OfFile, UNCHANGED core,
         (\E dead \in BOOLEAN : ClientStep(dead)) \/ App \/ ClientDies
  PROVE  OfFile'
  <1>1. FileSaid BY FileAsSaid
  <1>2. ClientAdds BY ClientSpeech
  <1>3. UNCHANGED <<at, out, coreSong, cachedfile, cachedfilename>>
        BY DEF core, control, load, files
  <1>4. FileAwaited' = FileAwaited BY <1>3 DEF FileAwaited
  <1>5. /\ Said(CoreHears') \subseteq Said(CoreHears) \cup Said(write_queue) \cup Spoken'
        /\ Said(ClientHears') \subseteq Said(ClientHears)
        BY <1>2, <1>3, SaidHeard, SaidHeardNext DEF ClientAdds
  <1>6. CASE at \notin {"file", "filedata"}
    <2>1. FileSaid' BY <1>1, <1>3, <1>4, <1>6 DEF FileSaid, LoadingPlaces, NoFile
    <2> QED BY <2>1, FileAsSaidNext
  <1>7. CASE at \in {"file", "filedata"}
    <2>1. CoreOpen' BY <1>3, <1>7 DEF Control, CoreControl, Dead
    <2>2. pc' \in {"asked", "reply"} => wanted' = cachedfilename
          BY <1>1, <1>7, WantedFile DEF FileSaid
    <2>3. \A m \in Said(ClientHears') :
            m.type = "REQUEST_AMIGA_FILE" => m.body.arg = cachedfilename
          BY <1>1, <1>5, <1>7 DEF FileSaid
    <2>4. \A m \in Said(CoreHears') : m.body = FileAwaited
      <3>1. CASE ClientOpen'
        <4>1. /\ \A m \in Said(CoreHears') : m.type \in FileTypes
              /\ pc' # "init"
              BY <1>3, <1>7, <2>1, <3>1, FilesOnlyNext DEF FilesOnly, BothOpen, Said
        <4>2. coreSong = song'
              BY <1>3, <1>7 DEF OfSong
        <4>3. ASSUME NEW m \in Spoken', m.type \in FileTypes PROVE m.body = FileAwaited
          <5>1. m.body.song = coreSong /\ m.body.arg = cachedfilename
                BY <2>2, <4>1, <4>2, <4>3 DEF Spoken
          <5>2. m.body \in Body BY DEF Spoken, Message
          <5> QED BY <5>1, <5>2 DEF Body, FileAwaited
        <4>4. \A m \in Said(write_queue) : m.type \notin FileTypes
              BY QueueSaid DEF FileTypes
        <4> QED BY <1>1, <1>5, <1>7, <4>1, <4>3, <4>4 DEF FileSaid
      <3>2. CASE ~ClientOpen'
        <4>1. sending' = <<>> BY <3>2 DEF Control, ClientControl, SendingAt
        <4>2. Said(sending') = {} BY <4>1, NoWord DEF Said
        <4>3. Said(CoreHears') \subseteq Said(CoreHears)
              BY <1>2, <4>2, SaidHeard, SaidHeardNext DEF ClientAdds
        <4> QED BY <1>1, <1>7, <4>3 DEF FileSaid
      <3> QED BY <3>1, <3>2
    <2>5. at' \notin LoadingPlaces /\ at' \notin {"rstate", "run"}
          BY <1>3, <1>7 DEF LoadingPlaces
    <2>6. FileSaid' BY <1>3, <1>4, <2>2, <2>3, <2>4, <2>5 DEF FileSaid, Said, LoadingPlaces
    <2> QED BY <2>6, FileAsSaidNext
  <1> QED BY <1>6, <1>7

(* Where the file that is cached is not changed, and none is awaited. *)
LEMMA FileKept ==
  ASSUME OfFile, UNCHANGED <<cachedfile, cachedfilename>>,
         at' \notin {"file", "filedata"},
         at' \in LoadingPlaces => at \in LoadingPlaces,
         at' \in {"rstate", "run"} =>
           \/ at \in LoadingPlaces
           \/ at \in {"rstate", "run"} /\ coreSong' = coreSong
  PROVE  OfFile'
  <1>1. FileSaid BY FileAsSaid
  <1>2. at' \in LoadingPlaces => cachedfile' = NoFile BY <1>1 DEF FileSaid
  <1>3. at' \in {"rstate", "run"} /\ cachedfile' # NoFile =>
          cachedfile' = [song |-> coreSong', arg |-> cachedfilename']
        BY <1>1 DEF FileSaid, FileAwaited
  <1>4. FileSaid' BY <1>2, <1>3 DEF FileSaid, LoadingPlaces, FileAwaited, NoFile
  <1> QED BY <1>4, FileAsSaidNext

LEMMA LookupFile ==
  ASSUME Control, Control', Talk, OfFile, UNCHANGED client,
         NEW name \in 1 .. MaxFiles, lookup_amiga_file_cache(name)
  PROVE  OfFile'
  <1>1. at = "run" /\ out = <<>> BY DEF lookup_amiga_file_cache
  <1>2. CASE ~ClientOpen
    <2>1. at' \in Dead BY <1>2 DEF lookup_amiga_file_cache, Exit, Dead, ClientOpen
    <2>2. FileSaid' BY <2>1 DEF FileSaid, LoadingPlaces, Dead
    <2> QED BY <2>2, FileAsSaidNext
  <1>3. CASE ClientOpen
    <2>1. BothOpen BY <1>1, <1>3 DEF BothOpen, Control, CoreControl, Dead
    <2>2. Running BY <1>1, <2>1, TalkOfCore
    <2>3. CoreHears = <<>> /\ pc \notin {"asked", "reply"} BY <2>2, Places
    <2>4. \A m \in Said(ClientHears) : m.type # "REQUEST_AMIGA_FILE"
          BY <2>2 DEF Running, AllIn, Said, News
    <2>5. at' = "file" /\ CoreAdds BY <1>3, AskingAdds DEF lookup_amiga_file_cache, ClientOpen
    <2>6. UNCHANGED <<sending, pc, wanted>> BY DEF client, call
    <2>7. /\ Said(CoreHears') \subseteq Said(CoreHears)
          /\ Said(ClientHears') \subseteq Said(ClientHears) \cup Uttered
          BY <2>5, <2>6, SaidHeard, SaidHeardNext DEF CoreAdds
    <2>8. Said(CoreHears) = {} BY <2>3, NoWord DEF Said
    <2>9. \A m \in Said(ClientHears') :
            m.type = "REQUEST_AMIGA_FILE" => m.body.arg = cachedfilename'
          BY <2>4, <2>7 DEF Uttered
    <2>10. FileSaid' BY <2>3, <2>5, <2>6, <2>7, <2>8, <2>9 DEF FileSaid, Said, LoadingPlaces
    <2> QED BY <2>10, FileAsSaidNext
  <1> QED BY <1>2, <1>3

LEMMA ArrivingFile ==
  ASSUME Control, Control', OfFile, UNCHANGED client, ReceiveAmigaFile
  PROVE  OfFile'
  <1>1. FileSaid BY FileAsSaid
  <1>2. /\ CoreAdds /\ coreSong' = coreSong /\ Next_message \in Said(CoreHears)
        /\ Next_message \in Message
        BY ArrivingAdds
  <1>3. at \in {"file", "filedata"} /\ cachedfilename' = cachedfilename
        BY DEF ReceiveAmigaFile
  <1>4. UNCHANGED <<sending, pc, wanted>> BY DEF client, call
  <1>5. FileAwaited' = FileAwaited BY <1>2, <1>3 DEF FileAwaited
  <1>6. Next_message.body = FileAwaited BY <1>1, <1>2, <1>3 DEF FileSaid
  <1>7. CASE Next_message.last
    <2>1. at' = "run" /\ cachedfile' = FileAwaited BY <1>6, <1>7 DEF ReceiveAmigaFile
    <2>2. FileSaid' BY <1>5, <2>1 DEF FileSaid, LoadingPlaces
    <2> QED BY <2>2, FileAsSaidNext
  <1>8. CASE ~Next_message.last
    <2>1. at' = "filedata" BY <1>8 DEF ReceiveAmigaFile
    <2>2. /\ Said(CoreHears') \subseteq Said(CoreHears)
          /\ Said(ClientHears') \subseteq Said(ClientHears) \cup Uttered
          BY <1>2, <1>4, SaidHeard, SaidHeardNext DEF CoreAdds
    <2>3. \A m \in Uttered : m.type # "REQUEST_AMIGA_FILE" BY <1>3 DEF Uttered
    <2>4. \A m \in Said(CoreHears') : m.body = FileAwaited BY <1>1, <1>3, <2>2 DEF FileSaid
    <2>5. \A m \in Said(ClientHears') :
            m.type = "REQUEST_AMIGA_FILE" => m.body.arg = cachedfilename
          BY <1>1, <1>3, <2>2, <2>3 DEF FileSaid
    <2>6. pc \in {"asked", "reply"} => wanted = cachedfilename BY <1>1, <1>3 DEF FileSaid
    <2>7. FileSaid'
          BY <1>3, <1>4, <1>5, <2>1, <2>4, <2>5, <2>6 DEF FileSaid, Said, LoadingPlaces
    <2> QED BY <2>7, FileAsSaidNext
  <1> QED BY <1>7, <1>8

LEMMA CoreFile ==
  ASSUME Control, Control', Talk, OfFile, UNCHANGED client,
         CoreStep \/ Emulate \/ CoreDies
  PROVE  OfFile'
  <1> USE DEF LoadingPlaces
  <1>1. ASSUME at' \in Dead PROVE OfFile'
    <2>1. FileSaid' BY <1>1 DEF FileSaid, Dead
    <2> QED BY <2>1, FileAsSaidNext
  <1>2. CASE CoreRejects \/ CoreEndOfInput \/ CoreDies
        BY <1>1, <1>2 DEF CoreRejects, CoreEndOfInput, CoreDies, Exit, Dead
  <1>3. CASE CoreSend
    <2>1. out # <<>> BY <1>3 DEF CoreSend
    <2>2. at \notin {"file", "filedata"} BY <2>1 DEF Control, CoreControl
    <2>3. at' \in Dead \/ UNCHANGED <<at, load, files>>
          BY <1>3 DEF CoreSend, ClientGone, Exit, Dead
    <2>4. CASE UNCHANGED <<at, load, files>>
          BY <2>2, <2>4, FileKept DEF load, files
    <2> QED BY <1>1, <2>3, <2>4
  <1>4. CASE CoreBeginReceive
    <2>1. at = "option" /\ UNCHANGED core BY <1>4 DEF CoreBeginReceive
    <2> QED BY <2>1, FileKept DEF core, control, load, files
  <1>5. CASE uadecore_option \/ ReceiveScore \/ ReceivePlayer \/ ReceiveModule \/ AnswerSong
             \/ BeginSong
    <2>1. /\ UNCHANGED <<cachedfile, cachedfilename>> /\ at' \notin {"file", "filedata"}
          /\ at' \in LoadingPlaces => at \in LoadingPlaces
          /\ at' \in {"rstate", "run"} => at \in LoadingPlaces
          BY <1>5 DEF uadecore_option, ReceiveScore, ReceivePlayer, ReceiveModule, LoadSong,
                      AnswerSong, BeginSong, CoreReceive, files
    <2> QED BY <2>1, FileKept
  <1>6. CASE invalidate_amiga_file_cache
    <2>1. at' = "score" /\ cachedfile' = NoFile BY <1>6 DEF invalidate_amiga_file_cache
    <2>2. FileSaid' BY <2>1 DEF FileSaid, NoFile
    <2> QED BY <2>2, FileAsSaidNext
  <1>7. CASE change_subsong \/ audio_set_filter \/ add_ep_option \/ CommandRead \/ CommandReboot
             \/ LeaveRState
    <2>1. /\ UNCHANGED <<cachedfile, cachedfilename, coreSong>> /\ at = "rstate"
          /\ at' \in {"rstate", "run", "reset"}
          BY <1>7 DEF change_subsong, audio_set_filter, add_ep_option, CommandRead,
                      CommandReboot, LeaveRState, CoreReceive, control, load, files
    <2> QED BY <2>1, FileKept
  <1>8. CASE ReceiveAmigaFile BY <1>8, ArrivingFile
  <1>9. CASE CoreStep
        BY <1>9, <1>2, <1>3, <1>4, <1>5, <1>6, <1>7, <1>8 DEF CoreStep
  <1>10. CASE \E name \in 1 .. MaxFiles : lookup_amiga_file_cache(name)
         BY <1>10, LookupFile
  <1>11. CASE EmulateSound \/ EmulateSubsongInfo \/ EmulateStartOutput \/ EmulateMessage
              \/ EmulateSongEnd \/ EmulateLed
    <2>1. /\ UNCHANGED <<cachedfile, cachedfilename, coreSong>> /\ at = "run"
          /\ at' \in {"run", "rstate"} \cup Dead
          BY <1>11 DEF EmulateSound, EmulateSubsongInfo, EmulateStartOutput, EmulateMessage,
                       EmulateSongEnd, EmulateLed, Exit, control, load, files, Dead
    <2> QED BY <1>1, <2>1, FileKept
  <1> QED BY <1>2, <1>9, <1>10, <1>11 DEF Emulate

LEMMA InitFile ==
  ASSUME Init
  PROVE  OfFile
  BY DEF Init, CoreInit, OfFile

LEMMA NextFile ==
  ASSUME Control, Control', Talk, Talk', OfSong', OfFile, [Next]_vars
  PROVE  OfFile'
  <1>1. CASE UNCHANGED vars
    <2>1. /\ UNCHANGED <<inbox, sending, out, at, coreSong, cachedfile, cachedfilename>>
          /\ UNCHANGED <<pc, wanted>>
          BY <1>1 DEF vars, link, core, client, control, load, files, call
    <2> QED BY <2>1 DEF OfFile, CoreHears, ClientHears, NoFile
  <1> QED BY <1>1, StepsOf, ClientFile, CoreFile
------------------------------------------------------------------------------
(* The options of a song come first: where they are due, they are met. *)
Due == (ClientOpen /\ InPlay) \/ Has(CoreHears, "TOKEN")

Met ==
  Has(CoreHears, "SET_PLAYER_OPTION") \/ (at = "rstate" /\ epoptions = {coreSong})

OptionsSaid ==
  /\ at \in {"run", "file", "filedata"} => epoptions = {coreSong}
  /\ at = "rstate" => epoptions \in {{}, {coreSong}}
  /\ at \in {"begin", "rstate"} /\ Due => Met

LEMMA OptionsAsSaid == OptionsFirst <=> OptionsSaid
  BY DEF OptionsFirst, OptionsSaid, Due, Met

LEMMA OptionsAsSaidNext == OptionsFirst' <=> OptionsSaid'
  BY OptionsAsSaid, PTL

LEMMA HasSaid ==
  \A q, type : Has(q, type) <=> \E m \in Said(q) : m.type = type
  BY DEF Has, Said

LEMMA OnlyWaits ==
  ASSUME Control, ~ClientOpen, (\E dead \in BOOLEAN : ClientStep(dead)) \/ App \/ ClientDies
  PROVE  QuietCall
  <1>1. pc \in {"wait", "gone"} /\ sending = <<>>
        BY DEF Control, ClientControl, SendingAt
  <1>2. ~SpeakingCall
        BY <1>1 DEF SpeakingCall, AppPlay, OrderReboot, GetEvent, AppSetFilter
  <1>3. ~ListeningCall
        BY <1>1 DEF ListeningCall, ReceiveAnswer, ReceiveTurn, receive_messages,
                    get_pending_events, ClientReceive
  <1>4. ~(ClientSend \/ send_file_back \/ SendReply \/ CloseLink)
        BY <1>1 DEF ClientSend, send_file_back, SendReply, CloseLink
  <1>5. ~ClientDies BY DEF ClientDies, ClientOpen
  <1> QED BY <1>2, <1>3, <1>4, <1>5, CallsOf

(* Nothing that uadecore will hear is lost while both are there. *)
LEMMA CoreHearsKept ==
  ASSUME Control, Control', BothOpen, UNCHANGED core,
         (\E dead \in BOOLEAN : ClientStep(dead)) \/ App \/ ClientDies, ~ClientDies, ~CloseLink
  PROVE  Said(CoreHears) \subseteq Said(CoreHears')
  <1>1. ASSUME sending = <<>>, Said(inbox'["core"]) = Said(inbox["core"])
        PROVE  Said(CoreHears) \subseteq Said(CoreHears')
    <2>1. Said(sending) = {} BY <1>1, NoWord DEF Said
    <2> QED BY <1>1, <2>1, SaidHeard, SaidHeardNext
  <1>2. CASE QuietCall BY <1>1, <1>2, QuietCalls DEF QuietCall, link
  <1>3. CASE ListeningCall
    <2>1. ASSUME NEW place \in {"answer", "canplay", "cantplay", "receive", "drain", "settle"},
                 ClientReceive(place), place \in {"drain", "settle"} => state["client"] # "S"
          PROVE  Said(CoreHears) \subseteq Said(CoreHears')
          BY <1>1, <2>1, Listens
    <2>2. CASE ReceiveAnswer BY <2>1, <2>2 DEF ReceiveAnswer
    <2>3. CASE ReceiveTurn BY <2>1, <2>3 DEF ReceiveTurn
    <2>4. CASE receive_messages BY <2>1, <2>4 DEF receive_messages
    <2>5. CASE get_pending_events("drain") BY <2>1, <2>5 DEF get_pending_events
    <2>6. CASE get_pending_events("settle") BY <2>1, <2>6 DEF get_pending_events
    <2> QED BY <1>3, <2>2, <2>3, <2>4, <2>5, <2>6 DEF ListeningCall
  <1>4. CASE SpeakingCall BY <1>1, <1>4, Speaking DEF SpeakingCall, link
  <1>5. ASSUME sending # <<>>, sending' = Tail(sending), inbox'["client"] = inbox["client"],
               inbox'["core"] = Append(inbox["core"], Head(sending))
        PROVE  Said(CoreHears) \subseteq Said(CoreHears')
    <2>1. UNCHANGED out BY DEF core, control
    <2>2. CoreHears' = CoreHears BY <1>5, <2>1, ClientSays
    <2> QED BY <2>2 DEF Said
  <1>6. LinkTyped /\ sending \in Seq(Message) BY CoreFacts DEF Control, Typed
  <1>7. CASE ClientSend
    <2>1. /\ sending # <<>> /\ ClientOpen
          /\ pc \in {"new", "init", "options", "request", "reboot", "filter"}
          /\ duty["client"] = "none" /\ state["client"] \in {"INITIAL", "S"}
          BY <1>7 DEF ClientSend, Control, ClientControl, SendingAt, StateAt, DutyAt, GivenUp
    <2>2. Head(sending) \in Message /\ Head(sending).type # "REQUEST_AMIGA_FILE"
      <3>1. AllIn(sending, ToCore \cup FileTypes \cup {"TOKEN"}) \/ AllIn(sending, ToCore)
            BY <2>1 DEF Control, ClientControl, SendingAt
      <3> QED BY <1>6, <2>1, <3>1, TailWord DEF ToCore, FileTypes
    <2>3. Link!SendMessage("client", Head(sending)) /\ UNCHANGED duty
          BY <1>7, <2>1 DEF ClientSend
    <2>4. /\ inbox'["client"] = inbox["client"]
          /\ inbox'["core"] = Append(inbox["core"], Head(sending))
          BY <1>6, <2>1, <2>2, <2>3, ClientSends DEF BothOpen
    <2>5. sending' = Tail(sending)
          BY <1>7, <2>1 DEF ClientSend, CanWrite, BothOpen, CoreOpen
    <2> QED BY <1>5, <2>1, <2>4, <2>5
  <1>8. CASE send_file_back
    <2>1. pc = "asked" /\ UNCHANGED inbox BY <1>8 DEF send_file_back, Link!BeginReply
    <2>2. sending = <<>> BY <2>1 DEF Control, ClientControl, SendingAt
    <2> QED BY <1>1, <2>1, <2>2
  <1>9. CASE SendReply
    <2>1. /\ pc = "reply" /\ sending # <<>> /\ Link!SendPiece("client", Head(sending))
          BY <1>9 DEF SendReply
    <2>2. Head(sending) \in Message /\ Head(sending).type \in FileTypes
      <3>1. AllIn(sending, FileTypes)
            BY <2>1 DEF Control, ClientControl, SendingAt
      <3> QED BY <1>6, <2>1, <3>1, TailWord
    <2>3. /\ inbox'["client"] = inbox["client"]
          /\ inbox'["core"] = Append(inbox["core"], Head(sending))
          BY <1>6, <2>1, <2>2, ClientSendsPiece DEF BothOpen
    <2>4. sending' = Tail(sending)
      <3>1. Tail(sending) = <<>> <=> Len(sending) = 1 BY <1>6, <2>1, TailWord
      <3> QED BY <1>9, <3>1 DEF SendReply, BothOpen, CoreOpen, GoTo
    <2> QED BY <1>5, <2>1, <2>3, <2>4
  <1> QED BY <1>2, <1>3, <1>4, <1>7, <1>8, <1>9, CallsOf

(* The options become due with the step that says them. *)
LEMMA OptionsComing ==
  ASSUME Control, Control', Talk, BothOpen, UNCHANGED core, at \in {"begin", "rstate"},
         (\E dead \in BOOLEAN : ClientStep(dead)) \/ App \/ ClientDies,
         ~ClientDies, ~CloseLink, ~Due, Due'
  PROVE  Has(CoreHears', "SET_PLAYER_OPTION")
  <1>1. phase = "INVALID" /\ pc # "options" BY DEF Due, InPlay, BothOpen
  <1>2. Answering
    <2>1. ~Opening BY <1>1 DEF Opening
    <2>2. ~Ordered /\ ~Turning BY <1>1, Places
    <2>3. ~Drained /\ ~Rebooting
          BY <1>1, Places DEF Control, ClientControl, PhaseAt, Stopping
    <2> QED BY <2>1, <2>2, <2>3, TalkOfCore
  <1>3. /\ pc \in {"init", "answer", "canplay", "cantplay"}
        /\ CoreHears = <<>> /\ inbox["core"] = <<>> /\ sending = <<>>
        BY <1>2, Places, Heard
  <1>4. ~SpeakingCall
        BY <1>3 DEF SpeakingCall, AppPlay, OrderReboot, GetEvent, AppSetFilter
  <1>5. ~(ClientSend \/ send_file_back \/ SendReply)
        BY <1>3 DEF ClientSend, send_file_back, SendReply
  <1>6. QuietCall => AwaitAnswer
    <2>1. ~(uade_new_state \/ BeginEvents \/ Requested \/ AwaitReboot \/ Stopped \/ FilterSent)
          BY <1>3 DEF uade_new_state, BeginEvents, Requested, AwaitReboot, Stopped, FilterSent
    <2>2. ~(AppGetEvent \/ AppNextSubsong \/ AppPlayNoSong \/ AppStop \/ AppCleanup)
          BY <1>3 DEF AppGetEvent, AppNextSubsong, AppPlayNoSong, AppStop, AppCleanup
    <2>3. ~(InitializationFails \/ receive_messages_fails \/ PendingEventsFail) BY FailsTalk
    <2>4. ~GetEvent BY <1>3 DEF GetEvent
    <2>5. ~ \E dead \in BOOLEAN : WaitForCore(dead) BY <1>3 DEF WaitForCore
    <2> QED BY <2>1, <2>2, <2>3, <2>4, <2>5 DEF QuietCall
  <1>7. ListeningCall => ReceiveAnswer \/ ReceiveTurn
        BY <1>3 DEF ListeningCall, receive_messages, get_pending_events, ClientReceive
  <1>8. ASSUME sending' = <<>>, Said(inbox'["core"]) = Said(inbox["core"]),
               phase' = "INVALID", pc' # "options"
        PROVE  FALSE
    <2>1. Said(CoreHears') = {} BY <1>3, <1>8, SaidHeardNext, SaidNothing
    <2>2. ~Has(CoreHears', "TOKEN") BY <2>1, HasSaid
    <2> QED BY <1>8, <2>2 DEF Due, InPlay
  <1>9. CASE AwaitAnswer
        BY <1>1, <1>8, <1>9 DEF AwaitAnswer, GoTo, songstate, link
  <1>10. CASE ReceiveAnswer
    <2>1. /\ ClientReceive("answer") /\ sending' = <<>> /\ phase' = "INVALID"
          /\ pc' # "options"
          BY <1>1, <1>10, StopFacts DEF ReceiveAnswer, GoTo, songstate
    <2> QED BY <1>8, <2>1, Listens
  <1>11. CASE ReceiveTurn
    <2>1. PICK place \in {"canplay", "cantplay"} :
            /\ ClientReceive(place) /\ phase' = "INVALID" /\ UNCHANGED <<song, led>>
            /\ \/ sending' = <<>> /\ pc' # "options"
               \/ sending' = <<FilterCommand(led), Msg("SET_PLAYER_OPTION", song, 0)>>
          BY <1>1, <1>11, StopFacts DEF ReceiveTurn, GoSend, songstate
    <2>2. CASE sending' = <<>> /\ pc' # "options" BY <1>8, <2>1, <2>2, Listens
    <2>3. CASE sending' = <<FilterCommand(led), Msg("SET_PLAYER_OPTION", song, 0)>>
      <3>1. song \in 0 .. MaxSongs /\ led \in {0, 1} BY DEF Control, Typed
      <3>2. PICK x, y \in Message :
              x = FilterCommand(led) /\ y = Msg("SET_PLAYER_OPTION", song, 0)
            BY <3>1, CommandWords
      <3>3. y.type = "SET_PLAYER_OPTION" BY <3>2 DEF Msg
      <3>4. Said(<<x, y>>) = {x, y} BY SaidShort
      <3>5. y \in Said(CoreHears') BY <2>3, <3>2, <3>4, SaidHeardNext
      <3> QED BY <3>3, <3>5, HasSaid
    <2> QED BY <2>1, <2>2, <2>3
  <1> QED BY <1>4, <1>5, <1>6, <1>7, <1>9, <1>10, <1>11, CallsOf

LEMMA ClientOptions ==
  ASSUME Control, Control', Talk, LP!Inv, OptionsFirst, UNCHANGED core,
         (\E dead \in BOOLEAN : ClientStep(dead)) \/ App \/ ClientDies
  PROVE  OptionsFirst'
  <1>1. OptionsSaid BY OptionsAsSaid
  <1>2. UNCHANGED <<at, epoptions, coreSong>> BY DEF core, control, load
  <1>3. ASSUME at \in {"begin", "rstate"}, Due' PROVE Met'
    <2>0. CoreOpen BY <1>3 DEF Control, CoreControl, Dead
    <2>1. ASSUME Due, Said(CoreHears) \subseteq Said(CoreHears') PROVE Met'
      <3>1. Met BY <1>1, <1>3, <2>1 DEF OptionsSaid
      <3>2. Has(CoreHears, "SET_PLAYER_OPTION") => Has(CoreHears', "SET_PLAYER_OPTION")
            BY <2>1, HasSaid
      <3> QED BY <1>2, <3>1, <3>2 DEF Met
    <2>2. CASE ~ClientOpen
      <3>1. QuietCall BY <2>2, OnlyWaits
      <3>2. UNCHANGED <<link, sending>> BY <3>1, QuietCalls DEF QuietCall
      <3>3. CoreHears' = CoreHears /\ ~ClientOpen'
            BY <2>2, <3>2 DEF CoreHears, link, ClientOpen
      <3>4. Due BY <1>3, <3>3 DEF Due
      <3> QED BY <2>1, <3>3, <3>4 DEF Said
    <2>3. CASE ClientDies \/ CloseLink
      <3>1. ~ClientOpen' /\ inbox'["core"] = inbox["core"] /\ sending' = <<>>
            BY <2>3, ClientEnding
      <3>2. Has(CoreHears', "TOKEN") BY <1>3, <3>1 DEF Due
      <3>3. Said(CoreHears') = Said(inbox["core"])
            BY <3>1, SaidHeardNext, SaidNothing
      <3>4. Has(inbox["core"], "TOKEN") BY <3>2, <3>3, HasSaid
      <3>5. sending = <<>> BY <3>4, LinkClear DEF Has
      <3>6. Said(CoreHears) = Said(inbox["core"]) BY <3>5, SaidHeard, SaidNothing
      <3>7. Due BY <3>4, <3>6, HasSaid DEF Due
      <3> QED BY <2>1, <3>3, <3>6, <3>7
    <2>4. CASE ClientOpen /\ ~(ClientDies \/ CloseLink)
      <3>1. BothOpen BY <2>0, <2>4 DEF BothOpen
      <3>2. Said(CoreHears) \subseteq Said(CoreHears') BY <2>4, <3>1, CoreHearsKept
      <3>3. CASE ~Due
            BY <1>3, <2>4, <3>1, <3>3, OptionsComing DEF Met
      <3> QED BY <2>1, <3>2, <3>3
    <2> QED BY <2>2, <2>3, <2>4
  <1>4. OptionsSaid' BY <1>1, <1>2, <1>3 DEF OptionsSaid
  <1> QED BY <1>4, OptionsAsSaidNext

LEMMA SaidFirst ==
  ASSUME NEW q \in Seq(Message), q # <<>>
  PROVE  Said(q) = {Head(q)} \cup Said(Tail(q))
  <1>1. /\ Head(q) = q[1] /\ Len(q) \in Nat \ {0} /\ Len(Tail(q)) = Len(q) - 1
        /\ \A i \in 1 .. Len(Tail(q)) : Tail(q)[i] = q[i + 1]
        BY TailWord
  <1>2. {Head(q)} \cup Said(Tail(q)) \subseteq Said(q) BY SaidFacts
  <1>3. ASSUME NEW i \in 1 .. Len(q)
        PROVE  q[i] \in {Head(q)} \cup Said(Tail(q))
    <2>1. CASE i = 1 BY <1>1, <2>1
    <2>2. CASE i # 1
      <3>1. PICK j \in Int : j = i - 1 BY <1>1
      <3>2. j \in 1 .. Len(Tail(q)) /\ j + 1 = i BY <1>1, <2>2, <3>1
      <3>3. Tail(q)[j] = q[i] BY <1>1, <3>2
      <3> QED BY <3>2, <3>3 DEF Said
    <2> QED BY <2>1, <2>2
  <1>4. Said(q) \subseteq {Head(q)} \cup Said(Tail(q)) BY <1>3 DEF Said
  <1> QED BY <1>2, <1>4

(* What uadecore will hear is what it takes now and what it hears then; the  *)
(* turn is the end of it.                                                    *)
LEMMA CoreTakesSaid ==
  ASSUME Control, Control', UNCHANGED client, NEW type,
         NEW place \in {"option", "score", "player", "playerdata", "module", "moduledata",
                        "token", "rstate"},
         CoreReceive(place, type), type # "REQUEST_AMIGA_FILE"
  PROVE  /\ at = place /\ Next_message.type = type
         /\ Said(CoreHears) = {Next_message} \cup Said(CoreHears')
         /\ LP!Inv /\ type = "TOKEN" => Said(CoreHears') = {}
  <1>1. /\ at = place /\ CoreHears \in Seq(Message) /\ CoreHears # <<>>
        /\ CoreHears' = Tail(CoreHears)
        /\ Next_message = CoreHears[1] /\ CoreHears[1].type = type
        BY CoreTakes
  <1>2. Said(CoreHears) = {Next_message} \cup Said(CoreHears')
        BY <1>1, SaidFirst, TailWord
  <1>3. ASSUME LP!Inv, type = "TOKEN" PROVE Said(CoreHears') = {}
    <2>1. inbox["core"] \in Seq(Message) /\ inbox["core"] # <<>> /\ Next_message.type = "TOKEN"
          BY <1>1, <1>3, Heard DEF CoreReceive
    <2>2. /\ inbox["core"][1] = Next_message /\ Len(inbox["core"]) \in Nat \ {0}
          BY <2>1, TailWord DEF Next_message
    <2>3. 1 \in 1 .. Len(inbox["core"]) BY <2>2
    <2>4. Len(inbox["core"]) = 1 /\ sending = <<>> BY <1>3, <2>1, <2>2, <2>3, LinkClear
    <2>5. Len(CoreHears) = 1 BY <2>4, Heard
    <2>6. CoreHears' = <<>> BY <1>1, <2>5, TailWord
    <2> QED BY <2>6, SaidNothing
  <1> QED BY <1>1, <1>2, <1>3

LEMMA OptionsKept ==
  ASSUME OptionsFirst, UNCHANGED <<at, epoptions, coreSong, pc, phase>>, ClientOpen' => ClientOpen,
         Has(CoreHears', "TOKEN") => Has(CoreHears, "TOKEN"),
         Has(CoreHears, "SET_PLAYER_OPTION") => Has(CoreHears', "SET_PLAYER_OPTION")
  PROVE  OptionsFirst'
  <1>1. OptionsSaid BY OptionsAsSaid
  <1>2. Due' => Due BY DEF Due, InPlay
  <1>3. Met => Met' BY DEF Met
  <1>4. OptionsSaid' BY <1>1, <1>2, <1>3 DEF OptionsSaid
  <1> QED BY <1>4, OptionsAsSaidNext

(* Once the options of the song are set, they stay. *)
LEMMA OptionsSet ==
  ASSUME epoptions' = {coreSong'} \/ at' \notin {"begin", "rstate", "run", "file", "filedata"},
         at' # "begin"
  PROVE  OptionsFirst'
  <1>1. OptionsSaid' BY DEF OptionsSaid, Met
  <1> QED BY <1>1, OptionsAsSaidNext

(* The commands that uadecore takes in uadecore_handle_r_state(). *)
LEMMA CommandOptions ==
  ASSUME Control, Control', LP!Inv, OfSong, OptionsFirst, UNCHANGED client, open' \subseteq open,
         \/ change_subsong \/ audio_set_filter \/ add_ep_option \/ CommandRead \/ CommandReboot
         \/ LeaveRState
  PROVE  OptionsFirst'
  <1>1. OptionsSaid BY OptionsAsSaid
  <1>2. UNCHANGED <<pc, phase>> /\ (ClientOpen' => ClientOpen)
        BY DEF client, call, songstate, ClientOpen
  <1>3. CASE change_subsong \/ audio_set_filter \/ CommandRead \/ CommandReboot
    <2>1. PICK type \in {"CHANGE_SUBSONG", "FILTER", "READ", "REBOOT"} :
            CoreReceive("rstate", type)
          BY <1>3 DEF change_subsong, audio_set_filter, CommandRead, CommandReboot
    <2>2. UNCHANGED <<at, epoptions, coreSong>>
          BY <1>3 DEF change_subsong, audio_set_filter, CommandRead, CommandReboot, control, load
    <2>3. /\ Said(CoreHears) = {Next_message} \cup Said(CoreHears')
          /\ Next_message.type \notin {"TOKEN", "SET_PLAYER_OPTION"}
          BY <2>1, CoreTakesSaid
    <2>4. /\ Has(CoreHears', "TOKEN") => Has(CoreHears, "TOKEN")
          /\ Has(CoreHears, "SET_PLAYER_OPTION") => Has(CoreHears', "SET_PLAYER_OPTION")
          BY <2>3, HasSaid
    <2> QED BY <1>2, <2>2, <2>4, OptionsKept
  <1>4. CASE add_ep_option
    <2>1. /\ CoreReceive("rstate", "SET_PLAYER_OPTION") /\ UNCHANGED <<at, coreSong>>
          /\ epoptions' = epoptions \cup {Next_message.body.song}
          BY <1>4 DEF add_ep_option, control, load
    <2>2. /\ at = "rstate" /\ Next_message.type = "SET_PLAYER_OPTION"
          /\ Next_message \in Said(CoreHears)
          BY <2>1, CoreTakesSaid
    <2>3. SongSaid BY SongAsSaid
    <2>4. Next_message.body.song = song /\ coreSong = song
          BY <2>2, <2>3 DEF SongSaid, SongPlaces
    <2>5. epoptions' = {coreSong'} BY <1>1, <2>1, <2>2, <2>4 DEF OptionsSaid
    <2> QED BY <2>1, <2>2, <2>5, OptionsSet
  <1>5. CASE LeaveRState
    <2>1. CoreReceive("rstate", "TOKEN") BY <1>5 DEF LeaveRState
    <2>2. /\ at' \in {"reset", "run"} /\ at = "rstate" /\ UNCHANGED <<epoptions, coreSong>>
          BY <1>5, <2>1 DEF LeaveRState, CoreReceive, load
    <2>3. /\ Next_message.type = "TOKEN"
          /\ Said(CoreHears) = {Next_message} \cup Said(CoreHears')
          /\ Said(CoreHears') = {}
          BY <2>1, CoreTakesSaid
    <2>4. Has(CoreHears, "TOKEN") /\ ~Has(CoreHears, "SET_PLAYER_OPTION")
          BY <2>3, HasSaid
    <2>5. epoptions = {coreSong} BY <1>1, <2>2, <2>4 DEF OptionsSaid, Due, Met
    <2> QED BY <2>2, <2>5, OptionsSet
  <1> QED BY <1>3, <1>4, <1>5

LEMMA CoreOptions ==
  ASSUME Control, Control', Talk, LP!Inv, OfSong, OptionsFirst, UNCHANGED client,
         open' \subseteq open, CoreStep \/ Emulate \/ CoreDies
  PROVE  OptionsFirst'
  <1>1. OptionsSaid BY OptionsAsSaid
  <1>2. UNCHANGED <<pc, phase, sending>> /\ (ClientOpen' => ClientOpen)
        BY DEF client, call, songstate, ClientOpen
  <1>3. ASSUME at' \notin {"begin", "rstate", "run", "file", "filedata"} PROVE OptionsFirst'
        BY <1>3, OptionsSet
  <1>4. ASSUME inbox'["core"] = inbox["core"]
        PROVE  Said(CoreHears') = Said(CoreHears)
        BY <1>2, <1>4, SaidHeard, SaidHeardNext
  <1>5. CASE CoreRejects \/ CoreEndOfInput \/ CoreDies \/ CoreBeginReceive
        BY <1>3, <1>5 DEF CoreRejects, CoreEndOfInput, CoreDies, CoreBeginReceive, Exit, Dead,
                          core, control
  <1>6. CASE CoreSend
    <2>1. \/ at' \in Dead
          \/ /\ UNCHANGED <<at, epoptions, coreSong>>
             /\ UNCHANGED inbox \/ (CoreOpen /\ Link!SendMessage("core", Head(out)) /\ UNCHANGED duty)
      <3>1. CASE "client" \notin open
            BY <1>6, <3>1 DEF CoreSend, ClientGone, Exit, Dead, load, link
      <3>2. CASE "client" \in open /\ state["core"] = "R"
            BY <1>6, <3>2 DEF CoreSend, Exit, Dead
      <3>3. CASE "client" \in open /\ state["core"] # "R"
        <4>1. out # <<>> BY <1>6 DEF CoreSend
        <4>2. CoreOpen BY <4>1 DEF Control, CoreControl, Dead
        <4> QED BY <1>6, <3>3, <4>2 DEF CoreSend, load
      <3> QED BY <3>1, <3>2, <3>3
    <2>2. CASE at' \in Dead BY <1>3, <2>2 DEF Dead
    <2>3. CASE at' \notin Dead
      <3>1. inbox'["core"] = inbox["core"]
        <4>1. CASE CoreOpen /\ Link!SendMessage("core", Head(out)) /\ UNCHANGED duty
          <5>1. /\ out # <<>> /\ out \in Seq(Message) /\ AllIn(out, ToClient \cup {"TOKEN"})
                /\ state["core"] = "S" /\ duty["core"] = "none"
                BY <1>6 DEF CoreSend, Control, CoreControl, Typed, Dead
          <5>2. Head(out) \in Message /\ Head(out).type # "REQUEST_AMIGA_FILE"
                BY <5>1, TailWord DEF ToClient
          <5> QED BY <4>1, <5>1, <5>2, CoreFacts, CoreSends
        <4> QED BY <2>1, <2>3, <4>1
      <3>2. Said(CoreHears') = Said(CoreHears) BY <1>4, <3>1
      <3> QED BY <1>2, <2>1, <2>3, <3>2, HasSaid, OptionsKept
    <2> QED BY <2>2, <2>3
  <1>7. CASE uadecore_option \/ invalidate_amiga_file_cache \/ ReceiveScore \/ ReceivePlayer
             \/ ReceiveModule
        BY <1>3, <1>7 DEF uadecore_option, invalidate_amiga_file_cache, ReceiveScore,
                          ReceivePlayer, ReceiveModule, LoadSong
  <1>8. CASE AnswerSong
    <2>1. CoreReceive("token", "TOKEN") /\ at' \in {"begin", "score"}
          BY <1>8 DEF AnswerSong
    <2>2. Said(CoreHears') = {} /\ at = "token" BY <2>1, CoreTakesSaid
    <2>3. ~Due'
      <3>1. CASE ClientOpen
        <4>1. BothOpen BY <2>2, <3>1 DEF BothOpen, Control, CoreControl, Dead
        <4>2. pc \in {"init", "answer"} BY <2>2, <4>1, TalkOfCore, Places
        <4>3. phase = "INVALID" BY <4>2 DEF Control, ClientControl, PhaseAt
        <4>4. ~InPlay' BY <1>2, <4>2, <4>3 DEF InPlay
        <4> QED BY <2>2, <4>4, HasSaid DEF Due
      <3>2. CASE ~ClientOpen BY <1>2, <2>2, <3>2, HasSaid DEF Due
      <3> QED BY <3>1, <3>2
    <2>4. OptionsSaid' BY <2>1, <2>3 DEF OptionsSaid
    <2> QED BY <2>4, OptionsAsSaidNext
  <1>9. CASE BeginSong
    <2>1. /\ at = "begin" /\ at' = "rstate" /\ epoptions' = {} /\ UNCHANGED link
          BY <1>9 DEF BeginSong
    <2>2. Said(CoreHears') = Said(CoreHears) BY <1>4, <2>1 DEF link
    <2>3. Due' => Due BY <1>2, <2>2, HasSaid DEF Due, InPlay
    <2>4. Due' => Met' BY <1>1, <2>1, <2>2, <2>3, HasSaid DEF OptionsSaid, Met
    <2>5. OptionsSaid' BY <2>1, <2>4 DEF OptionsSaid
    <2> QED BY <2>5, OptionsAsSaidNext
  <1>10. CASE \/ change_subsong \/ audio_set_filter \/ add_ep_option \/ CommandRead
              \/ CommandReboot \/ LeaveRState
         BY <1>10, CommandOptions
  <1>11. CASE ReceiveAmigaFile
    <2>1. /\ at \in {"file", "filedata"} /\ at' \in {"run", "filedata"}
          /\ UNCHANGED <<epoptions, coreSong>>
          BY <1>11 DEF ReceiveAmigaFile, load
    <2> QED BY <1>1, <2>1, OptionsSet DEF OptionsSaid
  <1>12. CASE CoreStep
         BY <1>12, <1>5, <1>6, <1>7, <1>8, <1>9, <1>10, <1>11 DEF CoreStep
  <1>13. CASE Emulate
    <2>1. at = "run" /\ epoptions' = epoptions /\ UNCHANGED coreSong /\ at' # "begin"
      <3>1. CASE EmulateSound \/ EmulateSubsongInfo \/ EmulateStartOutput \/ EmulateMessage
                 \/ EmulateSongEnd \/ EmulateLed
            BY <3>1 DEF EmulateSound, EmulateSubsongInfo, EmulateStartOutput, EmulateMessage,
                        EmulateSongEnd, EmulateLed, Exit, control, load
      <3>2. CASE \E name \in 1 .. MaxFiles : lookup_amiga_file_cache(name)
            BY <3>2 DEF lookup_amiga_file_cache, Exit, load
      <3> QED BY <1>13, <3>1, <3>2 DEF Emulate
    <2> QED BY <1>1, <2>1, OptionsSet DEF OptionsSaid
  <1> QED BY <1>5, <1>12, <1>13

LEMMA InitOptions ==
  ASSUME Init
  PROVE  OptionsFirst
  BY DEF Init, CoreInit, OptionsFirst

LEMMA NextOptions ==
  ASSUME Control, Control', Talk, LP!Inv, OfSong, OptionsFirst, [Next]_vars
  PROVE  OptionsFirst'
  <1>1. open' \subseteq open BY NextControl, OpenShrinks
  <1>2. CASE UNCHANGED vars
    <2>1. /\ UNCHANGED <<inbox, open, sending, at, coreSong, epoptions>>
          /\ UNCHANGED <<pc, phase>>
          BY <1>2 DEF vars, link, core, client, control, load, call, songstate
    <2>2. CoreHears' = CoreHears /\ ClientOpen' = ClientOpen
          BY <2>1 DEF CoreHears, ClientOpen
    <2> QED BY <2>1, <2>2, OptionsKept
  <1> QED BY <1>1, <1>2, StepsOf, ClientOptions, CoreOptions
------------------------------------------------------------------------------
(* What the messages carry, as one invariant. *)
Carried == OfSong /\ OfFile /\ OptionsFirst

LEMMA NextCarried ==
  ASSUME Control, Control', Talk, Talk', LP!Inv, Carried, [Next]_vars
  PROVE  Carried'
  <1>1. OfSong' BY NextSong DEF Carried
  <1>2. OfFile' BY <1>1, NextFile DEF Carried
  <1>3. OptionsFirst' BY NextOptions DEF Carried
  <1> QED BY <1>1, <1>2, <1>3 DEF Carried

LEMMA CarriedSuffices ==
  ASSUME Control, LP!Inv, Carried
  PROVE  NothingLeaks
  <1>1. SongIsolation
    <2>1. ASSUME NEW i \in DOMAIN inbox["client"]
          PROVE  inbox["client"][i].body.song = song
      <3>1. inbox["client"] \in Seq(Message) BY Heard
      <3>2. i \in 1 .. Len(inbox["client"]) BY <2>1, <3>1
      <3>3. ClientOpen
        <4>1. CASE inbox["client"] = <<>> BY <3>2, <4>1, NoWord
        <4>2. CASE inbox["client"] # <<>> BY <4>2, LinkClear
        <4> QED BY <4>1, <4>2
      <3>4. inbox["client"][i] \in Said(ClientHears) BY <3>1, <3>2, SaidFacts, SaidHeard
      <3>5. SongSaid BY SongAsSaid DEF Carried
      <3> QED BY <3>3, <3>4, <3>5 DEF SongSaid
    <2>2. at \in {"rstate", "run", "file", "filedata"} => coreSong = song
          BY DEF Carried, OfSong
    <2> QED BY <2>1, <2>2 DEF SongIsolation
  <1>2. CacheCoherent BY DEF Carried, OfFile, CacheCoherent
  <1>3. OptionsExact BY DEF Carried, OptionsFirst, OptionsExact
  <1> QED BY <1>1, <1>2, <1>3 DEF NothingLeaks

(* Songs are separate: whatever the application calls, the emulated program  *)
(* does and whichever process ends, a song hears no message, plays with no    *)
(* cached file and is configured by no option that was meant for another.     *)
(* (uade_play(), uade_stop(); uade.c, uadecore_reset(),                        *)
(* lookup_amiga_file_cache())                                                 *)
THEOREM NothingLeaksHolds == ~FilterWhenIdle /\ Spec => []NothingLeaks
  <1>1. Init => Carried BY InitSong, InitFile, InitOptions DEF Carried
  <1>2. Control /\ Control' /\ Talk /\ Talk' /\ LP!Inv /\ Carried /\ [Next]_vars => Carried'
        BY NextCarried
  <1>3. Control /\ LP!Inv /\ Carried => NothingLeaks BY CarriedSuffices
  <1>4. CASE FilterWhenIdle BY <1>4
  <1>5. CASE ~FilterWhenIdle
        BY <1>1, <1>2, <1>3, <1>5, TalkHolds, ControlHolds, PTL DEF Spec
  <1> QED BY <1>4, <1>5
------------------------------------------------------------------------------
(* What the client hears of an answer and of the turn, message by message.   *)
Answers == {"CAN_PLAY", "CANT_PLAY"}
Ended == pc = "receive" /\ phase = "SONG_END_PENDING"

AnswerFirst(q) == \A i \in 1 .. Len(q) : q[i].type \in Answers => i = 1
TurnAfterData(q) ==
  \A i \in 2 .. Len(q) : q[i].type = "TOKEN" => q[i - 1].type \in Answers \cup {"DATA"}
Begins(q, types) == q # <<>> /\ q[1].type \in types

StreamSaid ==
  ClientOpen =>
    /\ Replying => ClientHears = <<>>
    /\ AnswerFirst(ClientHears)
    /\ Begins(ClientHears, Answers) => pc \in {"init", "answer"}
    /\ ~Stopping => TurnAfterData(ClientHears)
    /\ Ended => ~Begins(ClientHears, {"TOKEN"})

LEMMA StreamAsSaid == Control => (Stream <=> StreamSaid)
  <1> SUFFICES ASSUME Control, ClientOpen PROVE Stream <=> StreamSaid
      BY DEF Stream, StreamSaid
  <1> DEFINE q == ClientHears
  <1>1. Len(q) \in Nat /\ (q = <<>> <=> Len(q) = 0) BY Heard, WithoutWord
  <1> HIDE DEF q
  <1>2. 1 \in 1 .. Len(q) <=> q # <<>> BY <1>1
  <1>3. \A i : i \in 1 .. Len(q) <=> i \in 2 .. Len(q) \/ (i = 1 /\ q # <<>>) BY <1>1
  <1>4. \A i \in 2 .. Len(q) : i # 1 OBVIOUS
  <1>5. ASSUME Stream PROVE StreamSaid
    <2>1. /\ Replying => q = <<>>
          /\ \A i \in 1 .. Len(q) :
               /\ q[i].type \in Answers => i = 1 /\ pc \in {"init", "answer"}
               /\ q[i].type = "TOKEN" /\ ~Stopping =>
                    IF i = 1 THEN ~Ended ELSE q[i - 1].type \in Answers \cup {"DATA"}
          BY <1>5 DEF Stream, Answers, Ended, q
    <2>2. AnswerFirst(q) BY <2>1 DEF AnswerFirst
    <2>3. Begins(q, Answers) => pc \in {"init", "answer"} BY <1>2, <2>1 DEF Begins
    <2>4. ~Stopping => TurnAfterData(q) BY <1>3, <1>4, <2>1 DEF TurnAfterData
    <2>5. Ended => ~Begins(q, {"TOKEN"}) BY <1>2, <2>1 DEF Begins, Ended, Stopping
    <2> QED BY <2>1, <2>2, <2>3, <2>4, <2>5 DEF StreamSaid, q
  <1>6. ASSUME StreamSaid PROVE Stream
    <2>1. /\ Replying => q = <<>>
          /\ AnswerFirst(q)
          /\ Begins(q, Answers) => pc \in {"init", "answer"}
          /\ ~Stopping => TurnAfterData(q)
          /\ Ended => ~Begins(q, {"TOKEN"})
          BY <1>6 DEF StreamSaid, q
    <2>2. ASSUME NEW i \in 1 .. Len(q)
          PROVE  /\ q[i].type \in Answers => i = 1 /\ pc \in {"init", "answer"}
                 /\ q[i].type = "TOKEN" /\ ~Stopping =>
                      IF i = 1 THEN ~Ended ELSE q[i - 1].type \in Answers \cup {"DATA"}
      <3>1. q[i].type \in Answers => i = 1 BY <2>1 DEF AnswerFirst
      <3>2. q[i].type \in Answers => pc \in {"init", "answer"} BY <1>1, <2>1, <3>1 DEF Begins
      <3>3. CASE i = 1 BY <1>1, <2>1, <3>1, <3>2, <3>3 DEF Begins
      <3>4. CASE i # 1
        <4>1. i \in 2 .. Len(q) BY <1>3, <3>4
        <4> QED BY <2>1, <3>1, <3>2, <3>4, <4>1 DEF TurnAfterData
      <3> QED BY <3>3, <3>4
    <2> QED BY <2>1, <2>2 DEF Stream, Answers, Ended, q
  <1> QED BY <1>5, <1>6

LEMMA StreamAsSaidNext == Control' => (Stream' <=> StreamSaid')
  BY StreamAsSaid, PTL

LEMMA StreamTail ==
  ASSUME NEW q \in Seq(Message), q # <<>>
  PROVE  /\ AnswerFirst(q) => AnswerFirst(Tail(q)) /\ ~Begins(Tail(q), Answers)
         /\ TurnAfterData(q) =>
              /\ TurnAfterData(Tail(q))
              /\ Begins(Tail(q), {"TOKEN"}) => Head(q).type \in Answers \cup {"DATA"}
  <1> DEFINE t == Tail(q)
  <1>1. /\ Head(q) = q[1] /\ Len(q) \in Nat \ {0} /\ Len(t) = Len(q) - 1
        /\ \A i \in 1 .. Len(t) : t[i] = q[i + 1]
        /\ t = <<>> <=> Len(q) = 1
        BY TailWord
  <1> HIDE DEF t
  <1>2. \A i \in 1 .. Len(t) : i + 1 \in 1 .. Len(q) /\ i + 1 # 1 BY <1>1
  <1>3. t # <<>> => 1 \in 1 .. Len(t) /\ t[1] = q[2] /\ 2 \in 2 .. Len(q) /\ 2 \in 1 .. Len(q)
    <2>1. t # <<>> => Len(t) \in Nat \ {0} /\ Len(q) \in Nat /\ Len(q) > 1 BY <1>1
    <2>2. t # <<>> => 1 \in 1 .. Len(t) /\ 2 \in 2 .. Len(q) /\ 2 \in 1 .. Len(q) BY <2>1
    <2>3. 1 + 1 = 2 OBVIOUS
    <2> QED BY <1>1, <2>2, <2>3
  <1>4. ASSUME AnswerFirst(q) PROVE AnswerFirst(t) /\ ~Begins(t, Answers)
    <2>1. \A i \in 1 .. Len(t) : t[i].type \notin Answers BY <1>1, <1>2, <1>4 DEF AnswerFirst
    <2> QED BY <1>3, <2>1 DEF AnswerFirst, Begins
  <1>5. ASSUME TurnAfterData(q)
        PROVE  /\ TurnAfterData(t)
               /\ Begins(t, {"TOKEN"}) => Head(q).type \in Answers \cup {"DATA"}
    <2>1. ASSUME NEW i \in 2 .. Len(t), t[i].type = "TOKEN"
          PROVE  t[i - 1].type \in Answers \cup {"DATA"}
      <3>1. PICK j, k \in Int : j = i + 1 /\ k = i - 1 BY <1>1
      <3>2. /\ j \in 2 .. Len(q) /\ j - 1 = i /\ k \in 1 .. Len(t) /\ k + 1 = i
            /\ i \in 1 .. Len(t)
            BY <1>1, <3>1
      <3>3. t[i] = q[j] /\ t[k] = q[i] BY <1>1, <3>1, <3>2
      <3>4. q[j - 1].type \in Answers \cup {"DATA"} BY <1>5, <2>1, <3>2, <3>3 DEF TurnAfterData
      <3> QED BY <3>1, <3>2, <3>3, <3>4
    <2>2. ASSUME Begins(t, {"TOKEN"}) PROVE Head(q).type \in Answers \cup {"DATA"}
      <3>1. q[2].type = "TOKEN" /\ 2 \in 2 .. Len(q) BY <1>3, <2>2 DEF Begins
      <3>2. q[2 - 1].type \in Answers \cup {"DATA"} BY <1>5, <3>1 DEF TurnAfterData
      <3>3. 2 - 1 = 1 OBVIOUS
      <3> QED BY <1>1, <3>2, <3>3
    <2> QED BY <2>1, <2>2 DEF TurnAfterData
  <1> QED BY <1>4, <1>5 DEF t

(* A word that is cut off, or goes on with a block and the turn. *)
LEMMA StreamCut ==
  ASSUME NEW x \in Seq(Message), NEW y \in Seq(Message)
  PROVE  /\ AnswerFirst(x \o y) => AnswerFirst(x)
         /\ TurnAfterData(x \o y) => TurnAfterData(x)
         /\ \A types : Begins(x, types) => Begins(x \o y, types)
  <1> DEFINE w == x \o y
  <1>1. /\ Len(w) = Len(x) + Len(y) /\ Len(x) \in Nat /\ Len(y) \in Nat
        /\ \A i \in 1 .. Len(x) + Len(y) : w[i] = IF i <= Len(x) THEN x[i] ELSE y[i - Len(x)]
        /\ (x = <<>> <=> Len(x) = 0) /\ (w = <<>> <=> Len(w) = 0)
    <2>1. w \in Seq(Message) OBVIOUS
    <2> QED BY <2>1, ConcatProperties, LenProperties, WithoutWord
  <1> HIDE DEF w
  <1>2. \A i \in 1 .. Len(x) : i \in 1 .. Len(w) /\ w[i] = x[i] BY <1>1
  <1>3. AnswerFirst(w) => AnswerFirst(x) BY <1>2 DEF AnswerFirst
  <1>4. ASSUME TurnAfterData(w) PROVE TurnAfterData(x)
    <2>1. ASSUME NEW i \in 2 .. Len(x), x[i].type = "TOKEN"
          PROVE  x[i - 1].type \in Answers \cup {"DATA"}
      <3>1. PICK k \in Int : k = i - 1 BY <1>1
      <3>2. i \in 2 .. Len(w) /\ k \in 1 .. Len(x) /\ i \in 1 .. Len(x) BY <1>1, <3>1
      <3>3. w[i] = x[i] /\ w[k] = x[k] BY <1>2, <3>2
      <3>4. w[i - 1].type \in Answers \cup {"DATA"} BY <1>4, <2>1, <3>2, <3>3 DEF TurnAfterData
      <3> QED BY <3>1, <3>3, <3>4
    <2> QED BY <2>1 DEF TurnAfterData
  <1>5. ASSUME NEW types, Begins(x, types) PROVE Begins(w, types)
    <2>1. x # <<>> BY <1>5 DEF Begins
    <2>2. Len(x) # 0 BY <1>1, <2>1
    <2>3. 1 \in 1 .. Len(x) BY <1>1, <2>2
    <2>4. w[1] = x[1] /\ Len(w) # 0 BY <1>1, <1>2, <2>2, <2>3
    <2> QED BY <1>1, <1>5, <2>4 DEF Begins
  <1> QED BY <1>3, <1>4, <1>5 DEF w

LEMMA StreamBlock ==
  ASSUME NEW x \in Seq(Message), NEW m \in Message, NEW t \in Message,
         m.type = "DATA", t.type = "TOKEN", AllIn(x, News)
  PROVE  LET w == x \o <<m, t>> IN
         AnswerFirst(w) /\ TurnAfterData(w) /\ ~Begins(w, Answers) /\ ~Begins(w, {"TOKEN"})
  <1> DEFINE w == x \o <<m, t>>
  <1>1. <<m, t>> \in Seq(Message) /\ Len(<<m, t>>) = 2 /\ <<m, t>>[1] = m /\ <<m, t>>[2] = t
        OBVIOUS
  <1>2. PICK y \in Seq(Message) : y = <<m, t>> /\ Len(y) = 2 /\ y[1] = m /\ y[2] = t BY <1>1
  <1>3. /\ Len(w) = Len(x) + 2 /\ Len(x) \in Nat
        /\ \A i \in 1 .. Len(x) + 2 : w[i] = IF i <= Len(x) THEN x[i] ELSE y[i - Len(x)]
        BY <1>2, ConcatProperties, LenProperties
  <1> HIDE DEF w
  <1>4. \A i \in 1 .. Len(x) : w[i] = x[i] /\ w[i].type \in News BY <1>3 DEF AllIn
  <1>5. w[Len(x) + 1] = m /\ w[Len(x) + 2] = t
    <2>1. PICK a, b \in Int : a = Len(x) + 1 /\ b = Len(x) + 2 BY <1>3
    <2>2. /\ a \in 1 .. Len(x) + 2 /\ ~(a <= Len(x)) /\ a - Len(x) = 1
          /\ b \in 1 .. Len(x) + 2 /\ ~(b <= Len(x)) /\ b - Len(x) = 2
          BY <1>3, <2>1
    <2>3. w[a] = m /\ w[b] = t BY <1>2, <1>3, <2>2
    <2> QED BY <2>1, <2>3
  <1>6. \A i \in 1 .. Len(w) : i \in 1 .. Len(x) \/ i = Len(x) + 1 \/ i = Len(x) + 2 BY <1>3
  <1>7. \A i \in 1 .. Len(w) :
          /\ w[i].type \notin Answers
          /\ w[i].type = "TOKEN" => i = Len(x) + 2
    <2>1. \A type \in News : type \notin Answers \cup {"TOKEN"} BY DEF News, Answers
    <2>2. "DATA" \in News /\ "TOKEN" \notin Answers BY DEF News, Answers
    <2> QED BY <1>4, <1>5, <1>6, <2>1, <2>2
  <1>8. AnswerFirst(w) BY <1>7 DEF AnswerFirst
  <1>9. TurnAfterData(w)
    <2>1. ASSUME NEW i \in 2 .. Len(w), w[i].type = "TOKEN"
          PROVE  w[i - 1].type \in Answers \cup {"DATA"}
      <3>1. i \in 1 .. Len(w) BY <1>3
      <3>2. i = Len(x) + 2 BY <1>7, <2>1, <3>1
      <3>3. i - 1 = Len(x) + 1 BY <1>3, <3>2
      <3> QED BY <1>5, <3>3
    <2> QED BY <2>1 DEF TurnAfterData
  <1>10. ~Begins(w, Answers) /\ ~Begins(w, {"TOKEN"})
    <2>1. 1 \in 1 .. Len(w) /\ 1 # Len(x) + 2 BY <1>3
    <2> QED BY <1>7, <2>1 DEF Begins
  <1> QED BY <1>8, <1>9, <1>10 DEF w

(* A file is asked for when nothing else is left to hear. *)
LEMMA ReplyingClear ==
  ASSUME Control, LP!Inv, ClientOpen, Replying
  PROVE  ClientHears = <<>>
  <1>1. LP!Serving /\ LP!SenderClear BY DEF LP!Inv
  <1>2. duty["client"] \in {"asked", "replying"}
        BY DEF Replying, Control, ClientControl, DutyAt, GivenUp
  <1>3. inbox["client"] = <<>> /\ duty["core"] = "awaiting"
        BY <1>1, <1>2 DEF LP!Serving, LP!SenderClear, LP!Peer
  <1>4. out = <<>>
    <2>1. CASE CoreOpen
      <3>1. at \in {"file", "filedata"} BY <1>3, <2>1 DEF Control, CoreControl
      <3> QED BY <3>1 DEF Control, CoreControl
    <2>2. CASE ~CoreOpen BY <2>2 DEF Control, CoreControl, Dead
    <2> QED BY <2>1, <2>2
  <1> QED BY <1>3, <1>4, Heard

LEMMA NothingToHear ==
  ASSUME NEW q, q = <<>>
  PROVE  /\ AnswerFirst(q) /\ TurnAfterData(q) /\ ~Begins(q, Answers) /\ ~Begins(q, {"TOKEN"})
  BY NoWord DEF AnswerFirst, TurnAfterData, Begins

LEMMA OnlyNews ==
  ASSUME NEW q \in Seq(Message), AllIn(q, News \cup {"TOKEN", "REQUEST_AMIGA_FILE"})
  PROVE  /\ AnswerFirst(q) /\ ~Begins(q, Answers)
         /\ ~Has(q, "TOKEN") => TurnAfterData(q) /\ ~Begins(q, {"TOKEN"})
  <1>1. Len(q) \in Nat /\ (q = <<>> <=> Len(q) = 0) BY WithoutWord
  <1>2. q # <<>> => 1 \in 1 .. Len(q) BY <1>1
  <1>3. \A i \in 1 .. Len(q) : q[i].type \notin Answers BY DEF AllIn, News, Answers
  <1>4. \A i \in 2 .. Len(q) : i \in 1 .. Len(q) BY <1>1
  <1>5. ~Has(q, "TOKEN") => \A i \in 1 .. Len(q) : q[i].type # "TOKEN" BY DEF Has
  <1> QED BY <1>2, <1>3, <1>4, <1>5 DEF AnswerFirst, TurnAfterData, Begins

(* Where both sides are there, the conversation tells most of it. *)
LEMMA StreamOfTalk ==
  ASSUME Control, LP!Inv, Talk, BothOpen, ~Turning
  PROVE  StreamSaid
  <1> DEFINE q == ClientHears
  <1>1. /\ q \in Seq(Message) /\ Len(q) \in Nat /\ (q = <<>> <=> Len(q) = 0) BY Heard, WithoutWord
  <1>2. Replying => q = <<>> BY ReplyingClear DEF BothOpen
  <1>3. ASSUME AnswerFirst(q), TurnAfterData(q), ~Begins(q, Answers), ~Begins(q, {"TOKEN"})
        PROVE  StreamSaid
        BY <1>2, <1>3 DEF StreamSaid
  <1>4. CASE q = <<>> BY <1>3, <1>4, NothingToHear
  <1>5. CASE Answering
    <2>1. pc \in {"init", "answer", "canplay", "cantplay"} /\ EndsWith(q, "TOKEN")
          BY <1>5 DEF Answering
    <2>2. ~Ended /\ ~Stopping BY <2>1 DEF Ended, Stopping
    <2>3. CASE Len(q) = 2 /\ q[1].type \in Answers /\ pc \in {"init", "answer"}
      <3>1. \A i \in 1 .. Len(q) : i = 1 \/ i = 2 BY <2>3
      <3>2. q[2].type = "TOKEN"
        <4>1. 2 \in 1 .. Len(q) BY <2>3
        <4> QED BY <2>1, <2>3, <4>1 DEF EndsWith
      <3>3. AnswerFirst(q) BY <3>1, <3>2 DEF AnswerFirst, Answers
      <3>4. TurnAfterData(q)
        <4>1. \A i \in 2 .. Len(q) : i - 1 = 1 BY <2>3
        <4> QED BY <2>3, <4>1 DEF TurnAfterData
      <3> QED BY <1>2, <2>2, <2>3, <3>3, <3>4 DEF StreamSaid
    <2>4. CASE Len(q) = 1
      <3>1. \A i \in 1 .. Len(q) : i = 1 BY <2>4
      <3>2. 1 \in 1 .. Len(q) BY <2>4
      <3>3. q[1].type = "TOKEN" BY <2>1, <2>4, <3>2 DEF EndsWith
      <3>4. ~Begins(q, Answers) BY <3>3 DEF Begins, Answers
      <3>5. AnswerFirst(q) BY <3>1 DEF AnswerFirst
      <3>6. TurnAfterData(q)
        <4>1. ~ \E i \in 2 .. Len(q) : TRUE BY <2>4
        <4> QED BY <4>1 DEF TurnAfterData
      <3> QED BY <1>2, <2>2, <3>4, <3>5, <3>6 DEF StreamSaid
    <2> QED BY <1>5, <2>3, <2>4 DEF Answering, Answers
  <1>6. ASSUME AllIn(q, (News \ {"DATA"}) \cup {"REQUEST_AMIGA_FILE"}) PROVE StreamSaid
    <2>1. AllIn(q, News \cup {"TOKEN", "REQUEST_AMIGA_FILE"}) BY <1>6 DEF AllIn
    <2>2. ~Has(q, "TOKEN") BY <1>6 DEF AllIn, Has, News
    <2> QED BY <1>1, <1>3, <2>1, <2>2, OnlyNews
  <1>7. CASE Running
    <2>1. AllIn(q, (News \ {"DATA"}) \cup {"REQUEST_AMIGA_FILE"}) BY <1>7 DEF Running, AllIn
    <2> QED BY <1>6, <2>1
  <1>8. CASE Asking BY <1>6, <1>8 DEF Asking
  <1>9. CASE Rebooted
    <2>1. Stopping /\ ~Ended BY <1>9, Places DEF Stopping, Ended
    <2>2. CASE q # <<>>
      <3>1. AllIn(q, News \cup {"TOKEN"}) BY <1>9, <2>2 DEF Rebooted
      <3>2. AllIn(q, News \cup {"TOKEN", "REQUEST_AMIGA_FILE"}) BY <3>1 DEF AllIn
      <3> QED BY <1>1, <1>2, <2>1, <3>2, OnlyNews DEF StreamSaid
    <2> QED BY <1>4, <2>2
  <1> HIDE DEF q
  <1>10. Quiet \/ Loading \/ Opening \/ Ordered \/ LookingUp \/ Delivering \/ Drained \/ Rebooting
           => q = <<>>
         BY Places DEF q
  <1> QED BY <1>4, <1>5, <1>7, <1>8, <1>9, <1>10 DEF Talk

LEMMA StreamOfTalkNext ==
  Control' /\ LP!Inv' /\ Talk' /\ BothOpen' /\ ~Turning' => StreamSaid'
  <1>1. Control /\ LP!Inv /\ Talk /\ BothOpen /\ ~Turning => StreamSaid BY StreamOfTalk
  <1> QED BY <1>1, PTL

LEMMA StreamKept ==
  ASSUME StreamSaid, ClientHears' = ClientHears, UNCHANGED <<pc, phase>>, ClientOpen' => ClientOpen
  PROVE  StreamSaid'
  BY DEF StreamSaid, Replying, Stopping, Ended, AnswerFirst, TurnAfterData, Begins

(* A send of uadecore does not change what is heard in the end. *)
LEMMA CoreSendHears ==
  ASSUME Control, Control', BothOpen, BothOpen', CoreSend, UNCHANGED client
  PROVE  CoreHears' = CoreHears /\ ClientHears' = ClientHears /\ UNCHANGED at
  <1> DEFINE m == Head(out)
  <1>1. /\ out # <<>> /\ out \in Seq(Message) /\ AllIn(out, ToClient \cup {"TOKEN"})
        /\ state["core"] = "S" /\ LinkTyped
        BY CoreFacts DEF CoreSend, Control, CoreControl, Typed
  <1>2. duty["core"] = "none"
        BY <1>1 DEF Control, CoreControl, BothOpen, Dead
  <1>3. m \in Message /\ m.type # "REQUEST_AMIGA_FILE"
        BY <1>1, TailWord DEF ToClient
  <1>4. ClientOpen /\ CoreOpen BY DEF BothOpen
  <1>5. Link!SendMessage("core", m) /\ out' = Tail(out) /\ UNCHANGED <<duty, at>>
        BY <1>1, <1>4 DEF CoreSend, ClientOpen
  <1> HIDE DEF m
  <1>6. inbox'["core"] = inbox["core"] /\ inbox'["client"] = Append(inbox["client"], m)
        BY <1>1, <1>2, <1>3, <1>4, <1>5, CoreSends
  <1>7. UNCHANGED sending BY DEF client, call
  <1> QED BY <1>1, <1>5, <1>6, <1>7, CoreSays DEF m

LEMMA CoreStream ==
  ASSUME Control, Control', Talk, Talk', LP!Inv', StreamSaid, UNCHANGED client,
         open' \subseteq open, CoreStep \/ Emulate \/ CoreDies
  PROVE  StreamSaid'
  <1>1. UNCHANGED <<pc, phase>> /\ (ClientOpen' => ClientOpen)
        BY DEF client, call, songstate, ClientOpen
  <1>2. CASE ~ClientOpen' BY <1>2 DEF StreamSaid
  <1>3. CASE ClientOpen' /\ at' \in Dead
    <2>1. \E how : Exit(how) /\ at \notin Dead
      <3>1. CASE CoreRejects \/ CoreEndOfInput \/ CoreDies
            BY <3>1 DEF CoreRejects, CoreEndOfInput, CoreDies, Receiving, Accepts, Dead
      <3>2. CASE CoreSend
        <4>1. at \notin Dead BY <3>2 DEF CoreSend, Control, CoreControl, Dead
        <4> QED BY <1>3, <3>2, <4>1 DEF CoreSend, ClientGone
      <3>3. CASE EmulateSound BY <1>3, <3>3 DEF EmulateSound, control, Dead
      <3>4. CASE \E name \in 1 .. MaxFiles : lookup_amiga_file_cache(name)
            BY <1>3, <3>4 DEF lookup_amiga_file_cache, Dead
      <3>5. CASE CoreStep /\ ~(CoreRejects \/ CoreEndOfInput \/ CoreSend)
            BY <1>3, <3>5 DEF CoreStep, CoreBeginReceive, uadecore_option,
               invalidate_amiga_file_cache, ReceiveScore, ReceivePlayer, ReceiveModule, LoadSong,
               AnswerSong, BeginSong, change_subsong, audio_set_filter, add_ep_option,
               CommandRead, CommandReboot, LeaveRState, ReceiveAmigaFile, CoreReceive,
               core, control, Dead
      <3>6. CASE EmulateSubsongInfo \/ EmulateStartOutput \/ EmulateMessage \/ EmulateSongEnd
                 \/ EmulateLed
            BY <1>3, <3>6 DEF EmulateSubsongInfo, EmulateStartOutput, EmulateMessage,
               EmulateSongEnd, EmulateLed, control, Dead
      <3> QED BY <3>1, <3>2, <3>3, <3>4, <3>5, <3>6 DEF Emulate
    <2>2. inbox'["client"] = inbox["client"] /\ out' = <<>> BY <2>1, ExitAdds
    <2>3. /\ inbox["client"] \in Seq(Message) /\ out \in Seq(Message) BY Heard
    <2>4. ClientHears' = inbox["client"]
          BY <2>2, <2>3, WithoutWord DEF ClientHears
    <2>5. ClientHears = inbox["client"] \o out BY DEF ClientHears
    <2>6. Replying => ClientHears' = <<>>
      <3>1. Replying => ClientHears = <<>> BY <1>1, <1>3 DEF StreamSaid
      <3>2. ClientHears = <<>> => inbox["client"] = <<>> BY Heard
      <3> QED BY <2>4, <3>1, <3>2
    <2>7. /\ AnswerFirst(ClientHears) /\ (Begins(ClientHears, Answers) => pc \in {"init", "answer"})
          /\ ~Stopping => TurnAfterData(ClientHears)
          /\ Ended => ~Begins(ClientHears, {"TOKEN"})
          BY <1>1, <1>3 DEF StreamSaid
    <2>8. PICK q \in Seq(Message) : q = ClientHears' /\ ClientHears = q \o out BY <2>3, <2>4, <2>5
    <2>9. /\ AnswerFirst(q) /\ (Begins(q, Answers) => pc \in {"init", "answer"})
          /\ ~Stopping => TurnAfterData(q)
          /\ Ended => ~Begins(q, {"TOKEN"})
          BY <2>3, <2>7, <2>8, StreamCut
    <2>10. (Stopping' <=> Stopping) /\ (Ended' <=> Ended) /\ (Replying' <=> Replying)
           BY <1>1 DEF Stopping, Ended, Replying
    <2> QED BY <1>1, <2>6, <2>8, <2>9, <2>10 DEF StreamSaid
  <1>4. CASE ClientOpen' /\ at' \notin Dead
    <2>1. BothOpen' BY <1>4 DEF BothOpen, Control, CoreControl
    <2>2. BothOpen BY <2>1 DEF BothOpen, ClientOpen, CoreOpen
    <2>3. CASE ~Turning' BY <2>1, <2>3, StreamOfTalkNext
    <2>4. CASE Turning'
      <3>1. at' = "rstate" BY <2>4 DEF Turning
      <3>2. CASE CoreSend BY <1>1, <2>1, <2>2, <3>2, CoreSendHears, StreamKept
      <3>3. CASE BeginSong
        <4>1. UNCHANGED <<link, out>> /\ out = <<>> BY <3>3 DEF BeginSong
        <4> QED BY <1>1, <4>1, CoreSpeaksAlone, StreamKept
      <3>4. CASE change_subsong \/ audio_set_filter \/ add_ep_option \/ CommandRead
                 \/ CommandReboot
        <4>1. PICK type \in {"CHANGE_SUBSONG", "FILTER", "SET_PLAYER_OPTION", "READ", "REBOOT"} :
                CoreReceive("rstate", type)
              BY <3>4 DEF change_subsong, audio_set_filter, add_ep_option, CommandRead,
                          CommandReboot
        <4>2. UNCHANGED out
              BY <3>4 DEF change_subsong, audio_set_filter, add_ep_option, CommandRead,
                          CommandReboot, control
        <4>3. ClientHears' = ClientHears BY <4>1, <4>2, CoreTakes
        <4> QED BY <1>1, <4>3, StreamKept
      <3>5. CASE EmulateSound
        <4>1. /\ at = "run" /\ out = <<>> /\ UNCHANGED link
              /\ out' = <<Msg("DATA", coreSong, read_size), Token(coreSong)>>
              BY <1>4, <3>1, <3>5 DEF EmulateSound, Exit, Dead, control
        <4>2. /\ ClientHears' = ClientHears \o out' /\ ClientHears \in Seq(Message)
              BY <4>1, CoreSpeaksAlone, Heard
        <4>3. AllIn(ClientHears, News) /\ Listening
          <5>1. Running BY <2>2, <4>1, TalkOfCore
          <5> QED BY <5>1 DEF Running, AllIn
        <4>4. PICK m, t \in Message :
                out' = <<m, t>> /\ m.type = "DATA" /\ t.type = "TOKEN"
          <5>1. coreSong \in 0 .. MaxSongs /\ read_size \in Nat /\ "DATA" \in ToClient
                BY DEF Control, Typed, ToClient
          <5>2. /\ Msg("DATA", coreSong, read_size) \in Message
                /\ Msg("DATA", coreSong, read_size).type = "DATA"
                /\ Token(coreSong) \in Message /\ Token(coreSong).type = "TOKEN"
                BY <5>1, CoreWords
          <5> QED BY <4>1, <5>2
        <4>5. LET w == ClientHears' IN
              AnswerFirst(w) /\ TurnAfterData(w) /\ ~Begins(w, Answers) /\ ~Begins(w, {"TOKEN"})
              BY <4>2, <4>3, <4>4, StreamBlock
        <4>6. ~Replying'
              BY <1>1, <4>3, Places DEF Replying, Listening
        <4> QED BY <4>5, <4>6 DEF StreamSaid
      <3>6. CASE ReceiveAmigaFile BY <3>1, <3>6 DEF ReceiveAmigaFile
      <3>7. CASE CoreStep /\ ~(CoreSend \/ BeginSong \/ change_subsong \/ audio_set_filter
                               \/ add_ep_option \/ CommandRead \/ CommandReboot)
            BY <1>4, <3>1, <3>7 DEF CoreStep, CoreRejects, CoreEndOfInput, Exit,
               CoreBeginReceive, uadecore_option, invalidate_amiga_file_cache, ReceiveScore,
               ReceivePlayer, ReceiveModule, LoadSong, AnswerSong, LeaveRState,
               ReceiveAmigaFile, CoreReceive, core, control, Dead
      <3>8. CASE CoreDies BY <1>4, <3>8 DEF CoreDies, Exit, Dead
      <3>9. CASE Emulate /\ ~EmulateSound
            BY <3>1, <3>9 DEF Emulate, EmulateSubsongInfo, EmulateStartOutput, EmulateMessage,
               EmulateSongEnd, EmulateLed, lookup_amiga_file_cache, Exit, control
      <3> QED BY <3>2, <3>3, <3>4, <3>5, <3>6, <3>7, <3>8, <3>9
    <2> QED BY <2>3, <2>4
  <1> QED BY <1>2, <1>3, <1>4

LEMMA ReplyingClearNext ==
  Control' /\ LP!Inv' /\ ClientOpen' /\ Replying' => (ClientHears = <<>>)'
  <1>1. Control /\ LP!Inv /\ ClientOpen /\ Replying => ClientHears = <<>> BY ReplyingClear
  <1> QED BY <1>1, PTL

(* A receive takes the first message away. *)
LEMMA ReceivingStream ==
  ASSUME Control, Control', LP!Inv', StreamSaid, UNCHANGED core,
         \/ ReceiveAnswer \/ ReceiveTurn \/ receive_messages
         \/ get_pending_events("drain") \/ get_pending_events("settle")
  PROVE  StreamSaid'
  <1>1. UNCHANGED out BY DEF core, control
  <1>2. ClientOpen' /\ Replying' => ClientHears' = <<>> BY ReplyingClearNext
  <1>3. ASSUME NEW place \in {"answer", "canplay", "cantplay", "receive", "drain", "settle"},
               ClientReceive(place), place \in {"drain", "settle"} => state["client"] # "S",
               (Stopping => Stopping') \/ Replying',
               Ended' => ~Stopping /\ NewMessage.type \notin Answers \cup {"DATA"}
        PROVE  StreamSaid'
    <2>1. /\ inbox["client"] # <<>> /\ inbox'["client"] = Tail(inbox["client"])
          /\ inbox'["core"] = inbox["core"] /\ sending = <<>> /\ ClientOpen /\ ClientOpen'
          BY <1>3, ClientReceives
    <2>2. /\ ClientHears' = Tail(ClientHears) /\ ClientHears # <<>>
          /\ NewMessage = Head(ClientHears) /\ ClientHears \in Seq(Message)
          BY <1>1, <2>1, ClientListens, Heard
    <2>3. AnswerFirst(ClientHears) /\ (~Stopping => TurnAfterData(ClientHears))
          BY <2>1 DEF StreamSaid
    <2>4. PICK t : /\ t = ClientHears' /\ AnswerFirst(t) /\ ~Begins(t, Answers)
                   /\ ~Stopping => /\ TurnAfterData(t)
                                   /\ Begins(t, {"TOKEN"}) => NewMessage.type \in Answers \cup {"DATA"}
          BY <2>2, <2>3, StreamTail
    <2>5. Replying' => t = <<>> BY <1>2, <2>1, <2>4
    <2>6. ~Stopping' => TurnAfterData(t) BY <1>3, <2>4, <2>5, NothingToHear
    <2>7. Ended' => ~Begins(t, {"TOKEN"}) BY <1>3, <2>4
    <2> QED BY <2>4, <2>5, <2>6, <2>7 DEF StreamSaid
  <1>4. CASE ReceiveAnswer
    <2>1. /\ ClientReceive("answer") /\ pc = "answer"
          /\ pc' \in {"canplay", "cantplay", "drain", "fatal"}
          BY <1>4, StopFacts DEF ReceiveAnswer, ClientReceive, GoTo
    <2>2. ~Stopping /\ ~Ended' BY <2>1 DEF Stopping, Ended
    <2> QED BY <1>3, <2>1, <2>2
  <1>5. CASE ReceiveTurn
    <2>1. PICK place \in {"canplay", "cantplay"} :
            ClientReceive(place) /\ pc = place /\ pc' \in {"options", "drain", "fatal", "idle"}
          BY <1>5, StopFacts DEF ReceiveTurn, ClientReceive, GoSend
    <2>2. ~Stopping /\ ~Ended' BY <2>1 DEF Stopping, Ended
    <2> QED BY <1>3, <2>1, <2>2
  <1>6. CASE receive_messages
    <2>1. ClientReceive("receive") /\ pc = "receive" /\ phase \in InSong
          BY <1>6 DEF receive_messages, ClientReceive, Control, ClientControl, PhaseAt
    <2>2. ~Stopping BY <2>1 DEF Stopping
    <2>3. Ended' => NewMessage.type \notin Answers \cup {"DATA"}
      <3>1. CASE Ready \/ FileRequest \/ SongEnd
            BY <3>1 DEF Ready, FileRequest, SongEnd, Answers
      <3>2. CASE OtherMessage BY <3>2 DEF OtherMessage, Answers
      <3>3. CASE DataBlock
        <4>1. UNCHANGED phase /\ (GiveEvent("DATA") \/ GiveEvent("SONG_END"))
              BY <3>3 DEF DataBlock
        <4>2. pc' # "receive" BY <2>1, <4>1, GiveEventFacts DEF InSong
        <4> QED BY <4>2 DEF Ended
      <3>4. CASE BadMessage BY <3>4, EventFailsFacts DEF BadMessage, Ended
      <3> QED BY <1>6, <3>1, <3>2, <3>3, <3>4 DEF receive_messages
    <2> QED BY <1>3, <2>1, <2>2, <2>3
  <1>7. ASSUME NEW place \in {"drain", "settle"}, get_pending_events(place)
        PROVE  StreamSaid'
    <2>1. /\ ClientReceive(place) /\ pc = place /\ state["client"] # "S"
          /\ pc' \in {place, "asked"}
          BY <1>7 DEF get_pending_events, GoTo
    <2>2. (Stopping' \/ Replying') /\ ~Ended' BY <2>1 DEF Stopping, Replying, Ended
    <2> QED BY <1>3, <2>1, <2>2
  <1> QED BY <1>4, <1>5, <1>6, <1>7

(* Where nothing more can come. *)
LEMMA NothingComes ==
  ASSUME Control, LP!Inv, ~CoreOpen, inbox["client"] = <<>> \/ state["client"] = "S"
  PROVE  ClientHears = <<>>
  <1>1. inbox["client"] = <<>> BY LinkClear
  <1>2. out = <<>> BY DEF Control, CoreControl, Dead
  <1> QED BY <1>1, <1>2, Heard

LEMMA FailureHears ==
  ASSUME Control, Talk, LP!Inv, ClientOpen, Stopped \/ InitializationFails \/ PendingEventsFail
  PROVE  ClientHears = <<>>
  <1>1. CASE Stopped
    <2>1. pc = "settle" /\ state["client"] = "S" BY <1>1 DEF Stopped
    <2>2. CASE CoreOpen
      <3>1. BothOpen BY <2>2 DEF BothOpen
      <3>2. Rebooted BY <2>1, <3>1, TalkOfClient, Places
      <3> QED BY <2>1, <3>2 DEF Rebooted
    <2>3. CASE ~CoreOpen BY <2>1, <2>3, NothingComes
    <2> QED BY <2>2, <2>3
  <1>2. CASE InitializationFails \/ PendingEventsFail
    <2>1. ~CoreOpen BY <1>2, FailsTalk DEF BothOpen
    <2>2. inbox["client"] = <<>> \/ state["client"] = "S"
          BY <1>2 DEF InitializationFails, PendingEventsFail, ReceiveFails
    <2> QED BY <2>1, <2>2, NothingComes
  <1> QED BY <1>1, <1>2

(* Other calls leave it as it is: they go on from where it does not matter. *)
StreamGoesOn ==
  \/ ClientHears = <<>>
  \/ /\ pc \in {"init", "answer"} => pc' \in {"init", "answer"}
     /\ Stopping => Stopping'
     /\ ~Ended'

LEMMA QuietStream ==
  ASSUME Control, Control', Talk, LP!Inv, ClientOpen, QuietCall
  PROVE  StreamGoesOn
  <1>1. CASE \/ uade_new_state \/ BeginEvents \/ FilterSent \/ AppGetEvent
             \/ \E dead \in BOOLEAN : WaitForCore(dead)
        BY <1>1 DEF uade_new_state, BeginEvents, FilterSent, AppGetEvent, WaitForCore,
                    GoTo, StreamGoesOn, Stopping, Ended
  <1>2. CASE AwaitAnswer \/ AwaitReboot
        BY <1>2 DEF AwaitAnswer, AwaitReboot, GoTo, StreamGoesOn, Stopping, Ended
  <1>3. CASE AppNextSubsong \/ AppPlayNoSong
        BY <1>3 DEF AppNextSubsong, AppPlayNoSong, call, StreamGoesOn, Stopping, Ended
  <1>4. CASE AppStop
    <2>1. pc = "idle" /\ Stop("app") BY <1>4 DEF AppStop
    <2>2. pc' \in {"drain", "idle"} BY <2>1, StopFacts
    <2> QED BY <2>1, <2>2 DEF StreamGoesOn, Stopping, Ended
  <1>5. CASE AppCleanup
    <2>1. pc \in {"idle", "fatal"} /\ Stop("cleanup") BY <1>5 DEF AppCleanup
    <2>2. pc' \in {"drain", "close"} BY <2>1, StopFacts
    <2> QED BY <2>1, <2>2 DEF StreamGoesOn, Stopping, Ended
  <1>6. CASE Stopped \/ InitializationFails \/ PendingEventsFail
        BY <1>6, FailureHears DEF StreamGoesOn
  <1>7. CASE receive_messages_fails
    <2>1. pc = "receive" /\ EventFails
          BY <1>7 DEF receive_messages_fails, ReceiveFails
    <2>2. pc' \in {"fatal", "drain"} BY <2>1, EventFailsFacts
    <2> QED BY <2>1, <2>2 DEF StreamGoesOn, Stopping, Ended
  <1>8. CASE Requested
    <2>1. pc = "request" /\ phase \in {"INITIALIZED"} \cup InSong
          BY <1>8 DEF Requested, Control, ClientControl, PhaseAt
    <2>2. pc' # "receive"
          BY <1>8, <2>1, GiveEventFacts DEF Requested, GoTo, InSong
    <2> QED BY <2>1, <2>2 DEF StreamGoesOn, Stopping, Ended
  <1>9. CASE GetEvent /\ phase # "INITIALIZED"
    <2>1. pc = "event" /\ phase \in {"WAIT_SUBSONG_CHANGE"} \cup InSong
          BY <1>9 DEF GetEvent, Control, ClientControl, PhaseAt
    <2>2. CASE phase = "SONG_END_PENDING"
      <3>1. pc' # "receive" BY <2>1, <2>2, <1>9, GiveEventFacts DEF GetEvent
      <3> QED BY <2>1, <3>1 DEF StreamGoesOn, Stopping, Ended
    <2>3. CASE phase = "WAIT_SUBSONG_CHANGE"
      <3>1. pc' # "receive" BY <2>1, <2>3, <1>9, GiveEventFacts DEF GetEvent, GoTo
      <3> QED BY <2>1, <3>1 DEF StreamGoesOn, Stopping, Ended
    <2>4. CASE phase = "RECEIVE_MSGS"
      <3>1. phase' = "RECEIVE_MSGS" BY <2>1, <2>4, <1>9 DEF GetEvent
      <3> QED BY <2>1, <3>1 DEF StreamGoesOn, Stopping, Ended
    <2> QED BY <2>1, <2>2, <2>3, <2>4 DEF InSong
  <1> QED BY <1>1, <1>2, <1>3, <1>4, <1>5, <1>6, <1>7, <1>8, <1>9 DEF QuietCall

LEMMA ClientStream ==
  ASSUME Control, Control', Talk, LP!Inv, LP!Inv', StreamSaid, UNCHANGED core,
         (\E dead \in BOOLEAN : ClientStep(dead)) \/ App \/ ClientDies
  PROVE  StreamSaid'
  <1>0. CASE ~ClientOpen' BY <1>0 DEF StreamSaid
  <1> SUFFICES ASSUME ClientOpen' PROVE StreamSaid' BY <1>0
  <1>1. UNCHANGED out BY DEF core, control
  <1>2. ClientOpen' /\ Replying' => ClientHears' = <<>> BY ReplyingClearNext
  <1>3. ASSUME inbox'["client"] = inbox["client"], ClientOpen, StreamGoesOn
        PROVE  StreamSaid'
    <2>1. PICK q : q = ClientHears /\ q = ClientHears' BY <1>1, <1>3 DEF ClientHears
    <2>2. /\ AnswerFirst(q) /\ (Begins(q, Answers) => pc \in {"init", "answer"})
          /\ ~Stopping => TurnAfterData(q)
          BY <1>3, <2>1 DEF StreamSaid
    <2>3. CASE q = <<>> BY <2>1, <2>3, NothingToHear DEF StreamSaid
    <2>4. CASE q # <<>>
      <3>1. /\ pc \in {"init", "answer"} => pc' \in {"init", "answer"}
            /\ Stopping => Stopping'
            /\ ~Ended'
            BY <1>3, <2>1, <2>4 DEF StreamGoesOn
      <3> QED BY <1>2, <2>1, <2>2, <3>1 DEF StreamSaid
    <2> QED BY <2>3, <2>4
  <1>4. CASE ListeningCall BY <1>4, ReceivingStream DEF ListeningCall
  <1>5. CASE ClientDies \/ CloseLink
    <2>1. pc' \in {"wait", "gone"} BY <1>5 DEF ClientDies, CloseLink, GoTo
    <2> QED BY <2>1 DEF Control, ClientControl
  <1>6. CASE QuietCall
    <2>1. UNCHANGED link BY <1>6, QuietCalls DEF QuietCall
    <2>2. ClientOpen /\ UNCHANGED inbox BY <2>1 DEF link, ClientOpen
    <2> QED BY <1>3, <1>6, <2>2, QuietStream
  <1>7. CASE SpeakingCall
    <2>1. UNCHANGED link BY <1>7, Speaking DEF SpeakingCall
    <2>2. ClientOpen /\ UNCHANGED inbox BY <2>1 DEF link, ClientOpen
    <2>3. StreamGoesOn
      <3>1. CASE AppPlay
            BY <3>1 DEF AppPlay, GoSend, StreamGoesOn, Stopping, Ended
      <3>2. CASE OrderReboot
            BY <3>2 DEF OrderReboot, GoSend, StreamGoesOn, Stopping, Ended
      <3>3. CASE GetEvent /\ phase = "INITIALIZED"
            BY <3>3 DEF GetEvent, GoSend, StreamGoesOn, Stopping, Ended
      <3>4. CASE \E newstate \in {0, 1} : AppSetFilter(newstate)
            BY <3>4 DEF AppSetFilter, GoSend, StreamGoesOn, Stopping, Ended
      <3> QED BY <1>7, <3>1, <3>2, <3>3, <3>4 DEF SpeakingCall
    <2> QED BY <1>3, <2>2, <2>3
  <1>8. CASE ClientSend
    <2>1. /\ sending # <<>> /\ ClientOpen
          /\ pc \in {"new", "init", "options", "request", "reboot", "filter"}
          /\ state["client"] \in {"INITIAL", "S"}
          /\ pc # "new" => state["client"] = "S"
          BY <1>8 DEF ClientSend, Control, ClientControl, SendingAt, StateAt
    <2>2. Link!SendMessage("client", Head(sending))
          BY <1>8, <2>1 DEF ClientSend
    <2>3. inbox'["client"] = inbox["client"]
          BY <2>2 DEF Link!SendMessage, Link!Deliver, Link!Other, Control, Typed, Peers
    <2>4. StreamGoesOn
      <3>1. CASE CanWrite \/ Optional
        <4>1. UNCHANGED <<pc, phase>> BY <1>8, <3>1 DEF ClientSend, songstate
        <4> QED BY <2>1, <4>1 DEF StreamGoesOn, Stopping, Ended
      <3>2. CASE ~(CanWrite \/ Optional)
        <4>1. ~CoreOpen BY <2>1, <3>2 DEF CanWrite, CoreOpen
        <4>2. CASE pc \in {"init", "options", "reboot"}
          <5>1. ClientHears = <<>> BY <2>1, <4>1, <4>2, NothingComes
          <5> QED BY <5>1 DEF StreamGoesOn
        <4>3. CASE pc \in {"new", "filter"}
          <5>1. pc' \in {"close", "idle"} BY <1>8, <3>2, <4>3 DEF ClientSend, GoTo
          <5> QED BY <4>3, <5>1 DEF StreamGoesOn, Stopping, Ended
        <4>4. CASE pc = "request"
          <5>1. EventFails BY <1>8, <3>2, <4>4 DEF ClientSend
          <5>2. pc' \in {"fatal", "drain"} BY <5>1, EventFailsFacts
          <5> QED BY <4>4, <5>2 DEF StreamGoesOn, Stopping, Ended
        <4> QED BY <2>1, <4>2, <4>3, <4>4
      <3> QED BY <3>1, <3>2
    <2> QED BY <1>3, <2>1, <2>3, <2>4
  <1>9. CASE send_file_back \/ SendReply
    <2>1. pc \in {"asked", "reply"} BY <1>9 DEF send_file_back, SendReply
    <2>2. ClientOpen BY <2>1 DEF Control, ClientControl
    <2>3. ClientHears = <<>> BY <2>1, <2>2, ReplyingClear DEF Replying
    <2>4. inbox'["client"] = inbox["client"]
      <3>1. CASE send_file_back
            BY <3>1 DEF send_file_back, Link!BeginReply
      <3>2. CASE SendReply
            BY <3>2 DEF SendReply, Link!SendPiece, Link!Deliver, Link!Other, Control, Typed, Peers
      <3> QED BY <1>9, <3>1, <3>2
    <2> QED BY <1>3, <2>2, <2>3, <2>4 DEF StreamGoesOn
  <1> QED BY <1>4, <1>5, <1>6, <1>7, <1>8, <1>9, CallsOf

LEMMA InitStream == Init => Stream
  <1>1. Init => ClientHears = <<>>
    <2>1. <<>> \in Seq(Message) BY NoWord
    <2>2. <<>> \o <<>> = <<>> BY <2>1, WithoutWord
    <2> QED BY <2>2 DEF Init, Link!Init, Link!Peer, CoreInit, ClientHears
  <1>2. \A i \in 1 .. Len(<<>>) : FALSE BY NoWord
  <1> QED BY <1>1, <1>2 DEF Stream

LEMMA NextStream ==
  ASSUME Control, Control', Talk, Talk', LP!Inv, LP!Inv', Stream, [Next]_vars
  PROVE  Stream'
  <1>1. StreamSaid BY StreamAsSaid
  <1>2. CASE UNCHANGED vars
        BY <1>2 DEF Stream, vars, link, core, control, client, call, songstate, ClientOpen,
                    ClientHears, Replying, Stopping
  <1>3. CASE ((\E dead \in BOOLEAN : ClientStep(dead)) \/ App \/ ClientDies) /\ UNCHANGED core
        BY <1>1, <1>3, ClientStream, StreamAsSaidNext
  <1>4. CASE (CoreStep \/ Emulate \/ CoreDies) /\ UNCHANGED client
    <2>1. open' \subseteq open BY NextControl, OpenShrinks
    <2> QED BY <1>1, <1>4, <2>1, CoreStream, StreamAsSaidNext
  <1> QED BY <1>2, <1>3, <1>4, StepsOf

LEMMA StreamSuffices ==
  ASSUME Control, LP!Inv, Stream
  PROVE  TailBeforeTurn
  <1> DEFINE q == inbox["client"]
  <1>1. /\ q \in Seq(Message) /\ Len(q) \in Nat /\ out \in Seq(Message) /\ StreamSaid
        BY Heard, StreamAsSaid
  <1>2. CASE ~ClientOpen
    <2>1. q = <<>> BY <1>2, LinkClear
    <2>2. ~ \E j \in DOMAIN q : TRUE BY <1>1, <2>1, NoWord
    <2> QED BY <2>2 DEF TailBeforeTurn
  <1>3. CASE ClientOpen
    <2>1. ClientHears = q \o out BY DEF ClientHears
    <2> HIDE DEF q
    <2>2. /\ AnswerFirst(q)
          /\ ~Stopping => TurnAfterData(q)
          /\ Begins(q, Answers) => pc \in {"init", "answer"}
          /\ Ended => ~Begins(q, {"TOKEN"})
          BY <1>1, <1>3, <2>1, StreamCut DEF StreamSaid
    <2>3. ASSUME NEW j \in DOMAIN q, q[j].type = "TOKEN", ~Stopping,
                 Ended \/ \E i \in 1 .. j - 1 : q[i].type = "SONG_END"
          PROVE  \E i \in 1 .. j - 1 : q[i].type = "DATA"
      <3>1. j \in 1 .. Len(q) BY <1>1
      <3>2. q # <<>> BY <1>1, <3>1, NoWord
      <3>3. j # 1
        <4>1. CASE Ended BY <2>2, <2>3, <3>2, <4>1 DEF Begins
        <4>2. CASE ~Ended BY <2>3, <4>2
        <4> QED BY <4>1, <4>2
      <3>4. PICK k \in Int : k = j - 1 BY <3>1
      <3>5. j \in 2 .. Len(q) /\ k \in 1 .. j - 1 /\ k \in 1 .. Len(q) BY <1>1, <3>1, <3>3, <3>4
      <3>6. q[k].type \in Answers \cup {"DATA"} BY <2>2, <2>3, <3>4, <3>5 DEF TurnAfterData
      <3>7. CASE q[k].type \in Answers
        <4>1. k = 1 BY <2>2, <3>5, <3>7 DEF AnswerFirst
        <4>2. pc \in {"init", "answer"} BY <2>2, <3>2, <3>7, <4>1 DEF Begins
        <4>3. ~Ended BY <4>2 DEF Ended
        <4>4. PICK i \in 1 .. j - 1 : q[i].type = "SONG_END" BY <2>3, <4>3
        <4>5. i = 1 BY <3>1, <3>4, <4>1, <4>4
        <4> QED BY <3>7, <4>1, <4>4, <4>5 DEF Answers
      <3> QED BY <3>5, <3>6, <3>7
    <2> QED BY <2>3 DEF TailBeforeTurn, Stopping, Ended, q
  <1> QED BY <1>2, <1>3

(* The end of a song comes before its last block, and that before the turn:   *)
(* uade_get_event() never meets a READY event while it has an end of song to   *)
(* report.  (uadestate.c, receive_messages(); uade.c, check_sound_buffers())   *)
THEOREM TailBeforeTurnHolds == ~FilterWhenIdle /\ Spec => []TailBeforeTurn
  <1>1. Init => Stream BY InitStream
  <1>2. Control /\ Control' /\ Talk /\ Talk' /\ LP!Inv /\ LP!Inv' /\ Stream /\ [Next]_vars
          => Stream'
        BY NextStream
  <1>3. Control /\ LP!Inv /\ Stream => TailBeforeTurn BY StreamSuffices
  <1>4. CASE FilterWhenIdle BY <1>4
  <1>5. CASE ~FilterWhenIdle
        BY <1>1, <1>2, <1>3, <1>5, TalkHolds, ControlHolds, PTL DEF Spec
  <1> QED BY <1>4, <1>5
------------------------------------------------------------------------------
(* The last filter command in a row of messages. *)
LastWord(q, l) ==
  \E i \in 1 .. Len(q) :
    /\ q[i].type = "FILTER" /\ q[i].body.arg = 2 + l
    /\ \A j \in i + 1 .. Len(q) : q[j].type # "FILTER"

LEMMA LastOfTail ==
  ASSUME NEW q \in Seq(Message), q # <<>>, NEW l
  PROVE  /\ LastWord(q, l) =>
              \/ LastWord(Tail(q), l)
              \/ /\ Head(q).type = "FILTER" /\ Head(q).body.arg = 2 + l
                 /\ ~Has(Tail(q), "FILTER")
         /\ ~Has(q, "FILTER") => Head(q).type # "FILTER" /\ ~Has(Tail(q), "FILTER")
  <1> DEFINE t == Tail(q)
  <1>1. /\ Head(q) = q[1] /\ Len(q) \in Nat \ {0} /\ Len(t) = Len(q) - 1
        /\ \A i \in 1 .. Len(t) : t[i] = q[i + 1]
        BY TailWord
  <1> HIDE DEF t
  <1>2. ASSUME NEW j \in Int, 1 <= j, j <= Len(t)
        PROVE  \E k \in Int : k = j + 1 /\ k \in 1 .. Len(q) /\ t[j] = q[k]
        BY <1>1, <1>2
  <1>3. ASSUME NEW i \in 1 .. Len(q), q[i].type = "FILTER", q[i].body.arg = 2 + l,
               \A j \in i + 1 .. Len(q) : q[j].type # "FILTER", i = 1
        PROVE  ~Has(t, "FILTER")
    <2>1. ASSUME NEW j \in 1 .. Len(t) PROVE t[j].type # "FILTER"
      <3>1. PICK k \in Int : k = j + 1 /\ k \in 1 .. Len(q) /\ t[j] = q[k] BY <1>1, <1>2
      <3>2. k \in i + 1 .. Len(q) BY <1>3, <3>1
      <3> QED BY <1>3, <3>1, <3>2
    <2> QED BY <2>1 DEF Has
  <1>4. ASSUME NEW i \in 1 .. Len(q), q[i].type = "FILTER", q[i].body.arg = 2 + l,
               \A j \in i + 1 .. Len(q) : q[j].type # "FILTER", i # 1
        PROVE  LastWord(t, l)
    <2>1. PICK m \in Int : m = i - 1 /\ m \in 1 .. Len(t) BY <1>1, <1>4
    <2>2. t[m] = q[i]
      <3>1. m + 1 = i BY <2>1
      <3> QED BY <1>1, <2>1, <3>1
    <2>3. ASSUME NEW j \in m + 1 .. Len(t) PROVE t[j].type # "FILTER"
      <3>1. j \in Int /\ 1 <= j /\ j <= Len(t) BY <1>1, <2>1, <2>3
      <3>2. PICK k \in Int : k = j + 1 /\ k \in 1 .. Len(q) /\ t[j] = q[k] BY <1>2, <3>1
      <3>3. k \in i + 1 .. Len(q) BY <1>1, <2>1, <2>3, <3>2
      <3> QED BY <1>4, <3>2, <3>3
    <2> QED BY <1>4, <2>1, <2>2, <2>3 DEF LastWord
  <1>5. ASSUME LastWord(q, l)
        PROVE  \/ LastWord(t, l)
               \/ /\ Head(q).type = "FILTER" /\ Head(q).body.arg = 2 + l
                  /\ ~Has(t, "FILTER")
    <2>1. PICK i \in 1 .. Len(q) : /\ q[i].type = "FILTER" /\ q[i].body.arg = 2 + l
                                   /\ \A j \in i + 1 .. Len(q) : q[j].type # "FILTER"
          BY <1>5 DEF LastWord
    <2>2. CASE i = 1 BY <1>1, <1>3, <2>1, <2>2
    <2>3. CASE i # 1 BY <1>4, <2>1, <2>3
    <2> QED BY <2>2, <2>3
  <1>6. ASSUME ~Has(q, "FILTER") PROVE Head(q).type # "FILTER" /\ ~Has(t, "FILTER")
    <2>1. 1 \in 1 .. Len(q) BY <1>1
    <2>2. ASSUME NEW j \in 1 .. Len(t) PROVE t[j].type # "FILTER"
      <3>1. PICK k \in Int : k = j + 1 /\ k \in 1 .. Len(q) /\ t[j] = q[k] BY <1>1, <1>2
      <3> QED BY <1>6, <3>1 DEF Has
    <2> QED BY <1>1, <1>6, <2>1, <2>2 DEF Has
  <1> QED BY <1>5, <1>6 DEF t

LEMMA LastOfJoin ==
  ASSUME NEW x \in Seq(Message), NEW y \in Seq(Message), NEW l
  PROVE  /\ LastWord(x, l) /\ ~Has(y, "FILTER") => LastWord(x \o y, l)
         /\ LastWord(y, l) => LastWord(x \o y, l)
  <1> DEFINE w == x \o y
  <1>1. /\ Len(w) = Len(x) + Len(y) /\ Len(x) \in Nat /\ Len(y) \in Nat
        /\ \A i \in 1 .. Len(x) + Len(y) : w[i] = IF i <= Len(x) THEN x[i] ELSE y[i - Len(x)]
        BY ConcatProperties, LenProperties
  <1> HIDE DEF w
  <1>2. ASSUME NEW j \in Int, Len(x) < j, j <= Len(w)
        PROVE  \E k \in Int : k = j - Len(x) /\ k \in 1 .. Len(y) /\ w[j] = y[k]
        BY <1>1, <1>2
  <1>3. ASSUME LastWord(x, l), ~Has(y, "FILTER") PROVE LastWord(w, l)
    <2>1. PICK i \in 1 .. Len(x) : /\ x[i].type = "FILTER" /\ x[i].body.arg = 2 + l
                                   /\ \A j \in i + 1 .. Len(x) : x[j].type # "FILTER"
          BY <1>3 DEF LastWord
    <2>2. i \in 1 .. Len(w) /\ w[i] = x[i] BY <1>1
    <2>3. ASSUME NEW j \in i + 1 .. Len(w) PROVE w[j].type # "FILTER"
      <3>1. CASE j <= Len(x)
        <4>1. j \in i + 1 .. Len(x) /\ w[j] = x[j] BY <1>1, <3>1
        <4> QED BY <2>1, <4>1
      <3>2. CASE ~(j <= Len(x))
        <4>1. PICK k \in Int : k = j - Len(x) /\ k \in 1 .. Len(y) /\ w[j] = y[k]
              BY <1>1, <1>2, <3>2
        <4> QED BY <1>3, <4>1 DEF Has
      <3> QED BY <3>1, <3>2
    <2> QED BY <2>1, <2>2, <2>3 DEF LastWord
  <1>4. ASSUME LastWord(y, l) PROVE LastWord(w, l)
    <2>1. PICK i \in 1 .. Len(y) : /\ y[i].type = "FILTER" /\ y[i].body.arg = 2 + l
                                   /\ \A j \in i + 1 .. Len(y) : y[j].type # "FILTER"
          BY <1>4 DEF LastWord
    <2>2. PICK m \in Int : m = Len(x) + i /\ m \in 1 .. Len(w) /\ Len(x) < m BY <1>1
    <2>3. w[m] = y[i]
      <3>0. m \in Int /\ Len(x) < m /\ m <= Len(w) BY <1>1, <2>2
      <3>1. PICK k \in Int : k = m - Len(x) /\ k \in 1 .. Len(y) /\ w[m] = y[k]
            BY <1>2, <3>0
      <3>2. k = i BY <1>1, <2>2, <3>1
      <3> QED BY <3>1, <3>2
    <2>4. ASSUME NEW j \in m + 1 .. Len(w) PROVE w[j].type # "FILTER"
      <3>1. j \in Int /\ Len(x) < j /\ j <= Len(w) BY <1>1, <2>2, <2>4
      <3>2. PICK k \in Int : k = j - Len(x) /\ k \in 1 .. Len(y) /\ w[j] = y[k]
            BY <1>2, <3>1
      <3>3. k \in i + 1 .. Len(y) BY <1>1, <2>2, <2>4, <3>2
      <3> QED BY <2>1, <3>2, <3>3
    <2> QED BY <2>1, <2>2, <2>3, <2>4 DEF LastWord
  <1> QED BY <1>3, <1>4 DEF w

LEMMA LastIsIt ==
  ASSUME NEW m \in Message, NEW n \in Message, NEW l,
         m.type = "FILTER", m.body.arg = 2 + l, n.type # "FILTER"
  PROVE  LastWord(<<m>>, l) /\ LastWord(<<m, n>>, l)
  <1>1. LastWord(<<m>>, l)
    <2>1. 1 \in 1 .. Len(<<m>>) /\ <<m>>[1] = m OBVIOUS
    <2>2. \A j \in 1 + 1 .. Len(<<m>>) : FALSE OBVIOUS
    <2> QED BY <2>1, <2>2 DEF LastWord
  <1>2. LastWord(<<m, n>>, l)
    <2>1. 1 \in 1 .. Len(<<m, n>>) /\ <<m, n>>[1] = m OBVIOUS
    <2>2. \A j \in 1 + 1 .. Len(<<m, n>>) : <<m, n>>[j] = n OBVIOUS
    <2> QED BY <2>1, <2>2 DEF LastWord
  <1> QED BY <1>1, <1>2

(* As long as a song plays, the last filter command on its way, or else the   *)
(* filter itself, is the application's last word.                             *)
Heeding == BothOpen /\ InPlay /\ ~Stopping /\ (Replying => back = "receive")

FilterSaid ==
  Heeding =>
    IF write_queue # <<>> THEN LastWord(write_queue, led)
    ELSE \/ LastWord(CoreHears, led)
         \/ ~Has(CoreHears, "FILTER") /\ ledstate = led /\ forced = 2 + led

LEMMA FilterAsSaid == FilterKept <=> FilterSaid
  <1>1. \A q : LastFilter(q) <=> LastWord(q, led) BY DEF LastFilter, LastWord
  <1> QED BY <1>1 DEF FilterKept, FilterSaid, Heeding

LEMMA FilterAsSaidNext == FilterKept' <=> FilterSaid'
  BY FilterAsSaid, PTL

LEMMA NoLastWord ==
  ASSUME NEW q, NEW l, q = <<>> \/ ~Has(q, "FILTER")
  PROVE  ~LastWord(q, l) /\ ~Has(q, "FILTER")
  BY NoWord DEF LastWord, Has

(* A step that says nothing of the filter. *)
LEMMA FilterGoesOn ==
  ASSUME Control, FilterSaid, Heeding' => Heeding,
         NEW w \in Seq(Message), CoreHears' = CoreHears \o w, ~Has(w, "FILTER"),
         UNCHANGED <<led, write_queue, ledstate, forced>>
  PROVE  FilterSaid'
  <1>1. CoreHears \in Seq(Message) BY Heard
  <1>2. PICK q, r : q \in Seq(Message) /\ q = CoreHears /\ r = CoreHears' /\ r = q \o w BY <1>1
  <1>3. \A l : LastWord(q, l) => LastWord(r, l) BY <1>2, LastOfJoin
  <1>4. ~Has(q, "FILTER") => ~Has(r, "FILTER") BY <1>2, JoinWord
  <1> QED BY <1>2, <1>3, <1>4 DEF FilterSaid

LEMMA QuietFilter ==
  ASSUME Control, Control', Talk, QuietCall, UNCHANGED core, Heeding'
  PROVE  Heeding /\ UNCHANGED <<led, write_queue>>
  <1>0. /\ ClientOpen' /\ ~Stopping' /\ (phase' # "INVALID" \/ pc' = "options")
        BY DEF Heeding, InPlay, BothOpen
  <1>1. BothOpen
    <2>1. UNCHANGED open BY QuietCalls DEF QuietCall, link
    <2> QED BY <2>1 DEF Heeding, BothOpen, ClientOpen, CoreOpen
  <1>2. ASSUME InPlay, pc \notin {"asked", "reply", "drain", "reboot", "settle"}
        PROVE  Heeding
        BY <1>1, <1>2 DEF Heeding, Stopping, Replying
  <1>3. CASE uade_new_state \/ AwaitAnswer \/ FilterSent
    <2>1. /\ pc \in {"new", "init", "filter"} /\ pc' \in {"idle", "answer"} /\ UNCHANGED phase
          BY <1>3 DEF uade_new_state, AwaitAnswer, FilterSent, GoTo, songstate
    <2>2. phase = "INVALID" BY <2>1 DEF Control, ClientControl, PhaseAt
    <2> QED BY <1>0, <2>1, <2>2
  <1>4. CASE BeginEvents
        BY <1>2, <1>4 DEF BeginEvents, InPlay
  <1>5. CASE AwaitReboot
        BY <1>0, <1>5 DEF AwaitReboot, GoTo, Stopping
  <1>6. CASE \E dead \in BOOLEAN : WaitForCore(dead)
        BY <1>1, <1>6 DEF WaitForCore, BothOpen, Control, ClientControl
  <1>7. CASE Stopped
    <2>1. /\ pc = "settle" /\ StopReturns(TRUE) BY <1>7 DEF Stopped
    <2>2. caller \in {"app", "unplayable", "error", "cleanup"}
          BY <2>1 DEF Control, ClientControl, PhaseAt, Stopping
    <2>3. phase' = "INVALID" /\ pc' \in {"close", "fatal", "idle"}
          BY <2>1, <2>2, StopReturnsFacts
    <2> QED BY <1>0, <2>3
  <1>8. CASE AppGetEvent
        BY <1>2, <1>8 DEF AppGetEvent, InPlay
  <1>9. CASE AppNextSubsong
    <2>1. pc = "idle" /\ UNCHANGED <<pc, phase, led, write_queue>>
          BY <1>9 DEF AppNextSubsong, call
    <2> QED BY <1>0, <1>2, <2>1 DEF InPlay
  <1>10. CASE AppPlayNoSong
    <2>1. pc' \in {"idle", "fatal"} /\ phase' = "INVALID"
          BY <1>10 DEF AppPlayNoSong, songstate
    <2> QED BY <1>0, <2>1
  <1>11. CASE AppStop \/ AppCleanup
    <2>1. Stop("app") \/ Stop("cleanup") BY <1>11 DEF AppStop, AppCleanup
    <2>2. phase' # "INVALID" => pc' = "drain" BY <2>1, StopFacts
    <2>3. phase' = "INVALID" => pc' \in {"idle", "close"} BY <2>1, StopFacts
    <2> QED BY <1>0, <2>2, <2>3 DEF Stopping
  <1>12. CASE InitializationFails \/ receive_messages_fails \/ PendingEventsFail
         BY <1>1, <1>12, FailsTalk
  <1>13. CASE Requested
    <2>1. /\ pc = "request" /\ phase \in {"INITIALIZED"} \cup InSong /\ UNCHANGED led
          BY <1>13 DEF Requested, Control, ClientControl, PhaseAt
    <2>2. UNCHANGED write_queue \/ pc' = "drain"
          BY <1>13, <2>1, GiveEventFacts DEF Requested, InSong
    <2>3. pc' # "drain" BY <1>0 DEF Stopping
    <2> QED BY <1>2, <2>1, <2>2, <2>3 DEF InPlay, InSong
  <1>14. CASE GetEvent /\ phase # "INITIALIZED"
    <2>1. /\ pc = "event" /\ phase \in {"WAIT_SUBSONG_CHANGE"} \cup InSong /\ UNCHANGED led
          BY <1>14 DEF GetEvent, Control, ClientControl, PhaseAt
    <2>2. UNCHANGED write_queue \/ pc' = "drain"
      <3>1. CASE phase = "SONG_END_PENDING"
            BY <2>1, <3>1, <1>14, GiveEventFacts DEF GetEvent
      <3>2. CASE phase = "WAIT_SUBSONG_CHANGE"
            BY <2>1, <3>2, <1>14, GiveEventFacts DEF GetEvent
      <3>3. CASE phase = "RECEIVE_MSGS" BY <2>1, <3>3, <1>14 DEF GetEvent
      <3> QED BY <2>1, <3>1, <3>2, <3>3 DEF InSong
    <2>3. pc' # "drain" BY <1>0 DEF Stopping
    <2> QED BY <1>2, <2>1, <2>2, <2>3 DEF InPlay, InSong
  <1> QED BY <1>3, <1>4, <1>5, <1>6, <1>7, <1>8, <1>9, <1>10, <1>11, <1>12, <1>13, <1>14
          DEF QuietCall

(* The turn comes: the commands that waited go ahead of the next request. *)
LEMMA ReadyFilter ==
  ASSUME Control, Control', Talk, BothOpen, FilterSaid, ClientReceive("receive"), Ready,
         UNCHANGED <<song, led>>, UNCHANGED core
  PROVE  FilterSaid'
  <1> DEFINE change == IF nextsubsong THEN <<Msg("CHANGE_SUBSONG", song, cur + 1)>> ELSE <<>>
  <1>1. /\ NewMessage.type = "TOKEN" /\ write_queue' = <<>>
        /\ sending' = (change \o write_queue) \o ReadRequest
        BY DEF Ready, GoSend
  <1>2. /\ pc = "receive" /\ phase \in InSong /\ cur + 1 \in Nat
        /\ song \in 0 .. MaxSongs /\ write_queue \in Seq(Message)
        BY DEF ClientReceive, Control, ClientControl, PhaseAt, Typed
  <1>3. /\ sending = <<>> /\ inbox["client"] # <<>>
        /\ inbox'["client"] = Tail(inbox["client"]) /\ inbox'["core"] = inbox["core"]
        BY ClientReceives
  <1>4. UNCHANGED <<at, out, read_size, reboot, ledstate, forced>>
        BY DEF core, control, sound, filter
  <1>5. /\ CoreHears' = CoreHears \o sending' /\ ClientHears' = Tail(ClientHears)
        /\ ClientHears # <<>> /\ NewMessage = Head(ClientHears)
        BY <1>3, <1>4, ClientListens
  <1>6. Exchange BY <1>2, TalkOfClient DEF InSong
  <1>7. CoreHears = <<>>
    <2>1. Running \/ Asking \/ Turning BY <1>5, <1>6, Places DEF Exchange
    <2> QED BY <2>1, Places
  <1>8. Heeding BY <1>2 DEF Heeding, InPlay, InSong, Stopping, Replying
  <1> HIDE DEF change
  <1>9. change \in Seq(Message) /\ ~Has(change, "FILTER")
    <2>1. PICK m \in Message : m = Msg("CHANGE_SUBSONG", song, cur + 1) BY <1>2, CommandWords
    <2>2. m.type # "FILTER" BY <2>1 DEF Msg
    <2>3. CASE nextsubsong BY <2>1, <2>2, <2>3, PairWord DEF change
    <2>4. CASE ~nextsubsong BY <2>4, NoWord, NoLastWord DEF change
    <2> QED BY <2>3, <2>4
  <1>10. ReadRequest \in Seq(Message) /\ ~Has(ReadRequest, "FILTER")
    <2>1. PICK r, t \in Message : ReadRequest = <<r, t>> /\ r.type = "READ" /\ t.type = "TOKEN"
          BY <1>2, CommandWords
    <2> QED BY <2>1, PairWord
  <1>11. PICK v \in Seq(Message) : v = change \o write_queue
         BY <1>2, <1>9, JoinWord
  <1>12. v \o ReadRequest \in Seq(Message) BY <1>10, <1>11, JoinWord
  <1>13. CoreHears' = v \o ReadRequest
    <2>1. sending' = v \o ReadRequest BY <1>1, <1>11
    <2>2. CoreHears' = <<>> \o (v \o ReadRequest) BY <1>5, <1>7, <2>1
    <2> QED BY <1>12, <2>2, WithoutWord
  <1>14. CASE write_queue # <<>>
    <2>1. LastWord(write_queue, led) BY <1>8, <1>14 DEF FilterSaid
    <2>2. LastWord(v, led) BY <1>2, <1>9, <1>11, <2>1, LastOfJoin
    <2>3. LastWord(v \o ReadRequest, led) BY <1>10, <1>11, <2>2, LastOfJoin
    <2> QED BY <1>1, <1>13, <2>3 DEF FilterSaid
  <1>15. CASE write_queue = <<>>
    <2>1. ledstate = led /\ forced = 2 + led
          BY <1>7, <1>8, <1>15, NoLastWord DEF FilterSaid
    <2>2. ~Has(v, "FILTER") BY <1>2, <1>9, <1>11, <1>15, JoinWord, NoLastWord
    <2>3. ~Has(v \o ReadRequest, "FILTER") BY <1>10, <1>11, <2>2, JoinWord
    <2> QED BY <1>1, <1>4, <1>13, <2>1, <2>3 DEF FilterSaid
  <1> QED BY <1>14, <1>15

(* The answer to a song: the first filter command is the configured one. *)
LEMMA TurnFilter ==
  ASSUME Control, Control', Talk, BothOpen, ReceiveTurn, UNCHANGED core, LedForced, Heeding'
  PROVE  FilterSaid'
  <1>1. PICK place \in {"canplay", "cantplay"} :
          /\ ClientReceive(place)
          /\ \/ /\ pc' = "options" /\ UNCHANGED write_queue
                /\ sending' = <<FilterCommand(led), Msg("SET_PLAYER_OPTION", song, 0)>>
             \/ \E who \in {"unplayable", "error"} : Stop(who)
        BY DEF ReceiveTurn, GoSend
  <1>2. UNCHANGED <<phase, song, led>> BY DEF ReceiveTurn, songstate
  <1>3. /\ pc = place /\ sending = <<>> /\ inbox["client"] # <<>>
        /\ inbox'["client"] = Tail(inbox["client"]) /\ inbox'["core"] = inbox["core"]
        BY <1>1, ClientReceives
  <1>4. /\ phase = "INVALID" /\ song \in 0 .. MaxSongs /\ led \in {0, 1} /\ write_queue = <<>>
        BY <1>3 DEF Control, ClientControl, PhaseAt, Typed
  <1>5. CASE \E who \in {"unplayable", "error"} : Stop(who)
    <2>1. pc' \in {"idle", "fatal"} BY <1>2, <1>4, <1>5, StopFacts
    <2> QED BY <1>2, <1>4, <2>1 DEF Heeding, InPlay
  <1>6. CASE /\ pc' = "options" /\ UNCHANGED write_queue
             /\ sending' = <<FilterCommand(led), Msg("SET_PLAYER_OPTION", song, 0)>>
    <2>1. CoreHears = <<>> BY <1>3, TalkOfClient, Places
    <2>2. UNCHANGED out BY DEF core, control
    <2>3. CoreHears' = CoreHears \o sending' BY <1>3, <2>2, ClientListens
    <2>4. PICK m, n \in Message :
            /\ sending' = <<m, n>> /\ m.type = "FILTER" /\ m.body.arg = 2 + led
            /\ n.type = "SET_PLAYER_OPTION"
      <3>1. /\ FilterCommand(led) \in Message /\ FilterCommand(led).type = "FILTER"
            /\ FilterCommand(led).body.arg = 2 + led
            /\ Msg("SET_PLAYER_OPTION", song, 0) \in Message
            BY <1>4, CommandWords
      <3>2. Msg("SET_PLAYER_OPTION", song, 0).type = "SET_PLAYER_OPTION" BY DEF Msg
      <3> QED BY <1>6, <3>1, <3>2
    <2>5. CoreHears' = <<m, n>>
      <3>1. <<m, n>> \in Seq(Message) BY PairWord
      <3> QED BY <2>1, <2>3, <2>4, <3>1, WithoutWord
    <2>6. LastWord(<<m, n>>, led) BY <2>4, LastIsIt
    <2> QED BY <1>2, <1>4, <1>6, <2>5, <2>6 DEF FilterSaid
  <1> QED BY <1>1, <1>5, <1>6

LEMMA MessageFilter ==
  ASSUME Control, Control', Talk, Talk', BothOpen, FilterSaid, receive_messages, ~Ready,
         UNCHANGED core, Heeding'
  PROVE  FilterSaid'
  <1>1. /\ ClientReceive("receive") /\ UNCHANGED led
        /\ FileRequest \/ DataBlock \/ SongEnd \/ OtherMessage \/ BadMessage
        BY DEF receive_messages
  <1>2. /\ pc = "receive" /\ phase \in InSong
        BY <1>1 DEF ClientReceive, Control, ClientControl, PhaseAt
  <1>3. Heeding BY <1>2 DEF Heeding, InPlay, InSong, Stopping, Replying
  <1>4. /\ sending = <<>> /\ inbox["client"] # <<>>
        /\ inbox'["client"] = Tail(inbox["client"]) /\ inbox'["core"] = inbox["core"]
        BY <1>1, ClientReceives
  <1>5. UNCHANGED <<out, ledstate, forced>> BY DEF core, control, filter
  <1>6. CoreHears' = CoreHears \o sending' BY <1>4, <1>5, ClientListens
  <1>7. pc' \notin {"drain", "fatal"}
    <2>1. pc' # "drain" BY DEF Heeding, Stopping
    <2>2. pc' # "fatal"
      <3>1. Control /\ Talk /\ BothOpen /\ pc = "fatal" => Quiet BY TalkOfClient
      <3>2. ASSUME pc' = "fatal" PROVE FALSE
        <4>1. phase' # "INVALID" BY <3>2 DEF Heeding, InPlay
        <4>2. phase' = "ERROR" BY <3>2, <4>1 DEF Control, ClientControl, PhaseAt
        <4>3. phase # "ERROR" /\ CoreOpen BY <1>2 DEF InSong, BothOpen
        <4>4. ClientStep(TRUE) BY DEF ClientStep
        <4> QED BY <4>2, <4>3, <4>4, NoErrorArises
      <3> QED BY <3>2
    <2> QED BY <2>1, <2>2
  <1>8. sending' = <<>> /\ UNCHANGED write_queue
    <2>1. CASE FileRequest BY <2>1 DEF FileRequest, GoTo
    <2>2. CASE SongEnd BY <1>4, <2>2 DEF SongEnd
    <2>3. CASE BadMessage BY <1>7, <2>3, EventFailsFacts DEF BadMessage
    <2>4. CASE DataBlock
      <3>1. UNCHANGED phase /\ (GiveEvent("DATA") \/ GiveEvent("SONG_END"))
            BY <2>4 DEF DataBlock
      <3> QED BY <1>2, <1>7, <3>1, GiveEventFacts DEF InSong
    <2>5. CASE OtherMessage /\ phase = "SONG_END_PENDING" BY <1>4, <2>5 DEF OtherMessage
    <2>6. CASE OtherMessage /\ phase # "SONG_END_PENDING"
      <3>1. UNCHANGED phase /\ (GiveEvent("MSG") \/ GiveEvent("SUBSONG_INFO"))
            BY <2>6 DEF OtherMessage
      <3> QED BY <1>2, <1>7, <3>1, GiveEventFacts DEF InSong
    <2> QED BY <1>1, <2>1, <2>2, <2>3, <2>4, <2>5, <2>6
  <1> QED BY <1>1, <1>3, <1>5, <1>6, <1>8, NoWord, NoLastWord, FilterGoesOn

LEMMA SpeakingFilter ==
  ASSUME Control, Control', BothOpen, FilterSaid, SpeakingCall, UNCHANGED core,
         LedForced, ~FilterWhenIdle, Heeding'
  PROVE  FilterSaid'
  <1>0. /\ ~Stopping' /\ (phase' # "INVALID" \/ pc' = "options")
        BY DEF Heeding, InPlay
  <1>1. sending = <<>> /\ UNCHANGED link BY Speaking DEF SpeakingCall
  <1>2. UNCHANGED <<out, ledstate, forced>> BY DEF core, control, filter
  <1>3. CoreHears' = CoreHears \o sending' BY <1>1, <1>2, ClientThinks
  <1>4. CASE AppPlay BY <1>0, <1>4 DEF AppPlay, GoSend
  <1>5. CASE OrderReboot BY <1>0, <1>5 DEF OrderReboot, GoSend, Stopping
  <1>6. CASE GetEvent /\ phase = "INITIALIZED"
    <2>1. /\ pc = "event" /\ sending' = ReadRequest /\ UNCHANGED <<led, write_queue>>
          BY <1>6 DEF GetEvent, GoSend
    <2>2. Heeding BY <1>6, <2>1 DEF Heeding, InPlay, Stopping, Replying
    <2>3. ReadRequest \in Seq(Message) /\ ~Has(ReadRequest, "FILTER")
      <3>1. song \in 0 .. MaxSongs BY DEF Control, Typed
      <3>2. PICK r, t \in Message : ReadRequest = <<r, t>> /\ r.type = "READ" /\ t.type = "TOKEN"
            BY <3>1, CommandWords
      <3> QED BY <3>2, PairWord
    <2> QED BY <1>2, <1>3, <2>1, <2>2, <2>3, FilterGoesOn
  <1>7. ASSUME NEW newstate \in {0, 1}, AppSetFilter(newstate) PROVE FilterSaid'
    <2>1. /\ pc = "idle" /\ phase # "INVALID" /\ led' = newstate /\ song \in 0 .. MaxSongs
          BY <1>7 DEF AppSetFilter, Control, Typed
    <2>2. state["client"] = "R" BY <2>1 DEF Control, ClientControl, StateAt
    <2>3. PICK m \in Message :
            m = FilterCommand(newstate) /\ m.type = "FILTER" /\ m.body.arg = 2 + newstate
          BY <2>1, CommandWords
    <2>4. write_queue' = Append(write_queue, m) /\ write_queue \in Seq(Message)
          BY <1>7, <2>2, <2>3 DEF AppSetFilter, Control, Typed
    <2>5. write_queue' = write_queue \o <<m>> /\ write_queue' # <<>>
      <3>1. <<m>> \in Seq(Message) BY PairWord
      <3>2. write_queue' = write_queue \o <<m>> BY <2>4
      <3>3. Len(write_queue') # 0 BY <2>4
      <3> QED BY <3>2, <3>3, NoWord
    <2>6. LastWord(<<m>>, newstate)
      <3>1. PICK n \in Message : n.type # "FILTER"
        <4>1. Msg("SET_PLAYER_OPTION", song, 0) \in Message BY <2>1, CommandWords
        <4> QED BY <4>1 DEF Msg
      <3> QED BY <2>3, <3>1, LastIsIt
    <2>7. <<m>> \in Seq(Message) BY PairWord
    <2>8. LastWord(write_queue \o <<m>>, newstate) BY <2>4, <2>6, <2>7, LastOfJoin
    <2> QED BY <2>1, <2>5, <2>8 DEF FilterSaid
  <1> QED BY <1>4, <1>5, <1>6, <1>7 DEF SpeakingCall

LEMMA FileSaysNoFilter ==
  ASSUME NEW n \in 0 .. MaxSongs, NEW l \in Nat, NEW found \in BOOLEAN
  PROVE  FileMessages(n, l, found) \in Seq(Message) /\ ~Has(FileMessages(n, l, found), "FILTER")
  <1>1. PICK x, y, z \in Message :
          /\ FileMessages(n, l, TRUE) = <<x, y>> /\ FileMessages(n, l, FALSE) = <<z>>
          /\ x.type = "FILE" /\ ~x.last /\ y.type = "FILE_DATA" /\ y.last
          /\ z.type = "FILE" /\ z.last
          /\ \A m \in {x, y, z} : m.body = [song |-> n, arg |-> l]
        BY FileWord
  <1>2. /\ x.type # "FILTER" /\ y.type # "FILTER" /\ z.type # "FILTER" BY <1>1
  <1>3. CASE found
    <2>1. FileMessages(n, l, found) = <<x, y>> BY <1>1, <1>3
    <2>2. <<x, y>> \in Seq(Message) BY PairWord
    <2>3. ~Has(<<x, y>>, "FILTER") BY <1>2, PairWord
    <2> QED BY <2>1, <2>2, <2>3
  <1>4. CASE ~found
    <2>1. FileMessages(n, l, found) = <<z>> BY <1>1, <1>4
    <2>2. <<z>> \in Seq(Message) /\ ~Has(<<z>>, "FILTER") BY <1>2, PairWord
    <2> QED BY <2>1, <2>2
  <1> QED BY <1>3, <1>4

LEMMA WritingFilter ==
  ASSUME Control, Control', Talk, BothOpen, FilterSaid, ClientSend \/ send_file_back \/ SendReply,
         UNCHANGED core, Heeding'
  PROVE  FilterSaid'
  <1>0. ~Stopping' /\ (Replying' => back' = "receive") BY DEF Heeding
  <1>1. UNCHANGED <<out, ledstate, forced>> BY DEF core, control, filter
  <1>2. LinkTyped /\ sending \in Seq(Message) BY CoreFacts DEF Control, Typed
  <1>3. ASSUME sending # <<>>, sending' = Tail(sending), inbox'["client"] = inbox["client"],
               inbox'["core"] = Append(inbox["core"], Head(sending)),
               UNCHANGED <<led, write_queue>>, Heeding
        PROVE  FilterSaid'
    <2>1. CoreHears' = CoreHears BY <1>1, <1>3, ClientSays
    <2>2. CoreHears' = CoreHears \o <<>> BY <2>1, Heard, WithoutWord
    <2> QED BY <1>1, <1>3, <2>2, NoWord, NoLastWord, FilterGoesOn
  <1>4. CASE ClientSend
    <2>1. /\ sending # <<>> /\ ClientOpen
          /\ pc \in {"new", "init", "options", "request", "reboot", "filter"}
          /\ duty["client"] = "none" /\ state["client"] \in {"INITIAL", "S"}
          BY <1>4 DEF ClientSend, Control, ClientControl, SendingAt, StateAt, DutyAt, GivenUp
    <2>2. Head(sending) \in Message /\ Head(sending).type # "REQUEST_AMIGA_FILE"
      <3>1. AllIn(sending, ToCore \cup FileTypes \cup {"TOKEN"}) \/ AllIn(sending, ToCore)
            BY <2>1 DEF Control, ClientControl, SendingAt
      <3> QED BY <1>2, <2>1, <3>1, TailWord DEF ToCore, FileTypes
    <2>3. Link!SendMessage("client", Head(sending)) /\ UNCHANGED duty
          BY <1>4, <2>1 DEF ClientSend
    <2>4. /\ inbox'["client"] = inbox["client"]
          /\ inbox'["core"] = Append(inbox["core"], Head(sending))
          BY <1>2, <2>1, <2>2, <2>3, ClientSends DEF BothOpen
    <2>5. sending' = Tail(sending) /\ UNCHANGED <<pc, phase, led, write_queue>>
          BY <1>4, <2>1 DEF ClientSend, CanWrite, BothOpen, CoreOpen, songstate
    <2>6. Heeding BY <1>0, <2>1, <2>5 DEF Heeding, InPlay, Stopping, Replying
    <2> QED BY <1>3, <2>1, <2>4, <2>5, <2>6
  <1>5. CASE send_file_back
    <2>1. PICK found \in BOOLEAN : sending' = FileMessages(song, wanted, found)
          BY <1>5 DEF send_file_back, GoSend
    <2>2. /\ pc = "asked" /\ pc' = "reply" /\ UNCHANGED <<inbox, back, phase, led, write_queue>>
          /\ sending = <<>> /\ song \in 0 .. MaxSongs /\ wanted \in Nat
          BY <1>5 DEF send_file_back, GoSend, songstate, Link!BeginReply, Control,
                      ClientControl, SendingAt, Typed
    <2>3. back = "receive" BY <1>0, <2>2 DEF Replying
    <2>4. Heeding
          BY <2>2, <2>3 DEF Heeding, InPlay, Stopping, Replying, Control, ClientControl, PhaseAt,
                            InSong
    <2>5. CoreHears = inbox["core"] BY <2>2, Heard
    <2>6. CoreHears' = CoreHears \o sending' BY <2>2, <2>5 DEF CoreHears
    <2>7. sending' \in Seq(Message) /\ ~Has(sending', "FILTER")
      <3>1. song \in 0 .. MaxSongs /\ wanted \in Nat BY <2>2
      <3> QED BY <2>1, <3>1, FileSaysNoFilter
    <2> QED BY <1>1, <2>2, <2>4, <2>6, <2>7, FilterGoesOn
  <1>6. CASE SendReply
    <2>1. /\ pc = "reply" /\ sending # <<>> /\ Link!SendPiece("client", Head(sending))
          BY <1>6 DEF SendReply
    <2>2. Head(sending) \in Message /\ Head(sending).type \in FileTypes
      <3>1. AllIn(sending, FileTypes)
            BY <2>1 DEF Control, ClientControl, SendingAt
      <3> QED BY <1>2, <2>1, <3>1, TailWord
    <2>3. /\ inbox'["client"] = inbox["client"]
          /\ inbox'["core"] = Append(inbox["core"], Head(sending))
          BY <1>2, <2>1, <2>2, ClientSendsPiece DEF BothOpen
    <2>4. /\ sending' = Tail(sending) /\ UNCHANGED <<phase, back, led, write_queue>>
          /\ pc' \in {back, "reply"}
      <3>1. Tail(sending) = <<>> <=> Len(sending) = 1 BY <1>2, <2>1, TailWord
      <3> QED BY <1>6, <3>1 DEF SendReply, BothOpen, CoreOpen, GoTo, songstate
    <2>5. back = "receive"
      <3>1. back \in {"receive", "drain", "settle"} BY DEF Control, ClientControl
      <3> QED BY <1>0, <2>4, <3>1 DEF Stopping, Replying
    <2>6. Heeding
          BY <2>1, <2>5 DEF Heeding, InPlay, Stopping, Replying, Control, ClientControl, PhaseAt,
                            InSong
    <2> QED BY <1>3, <2>1, <2>3, <2>4, <2>6
  <1> QED BY <1>4, <1>5, <1>6

LEMMA ClientFilter ==
  ASSUME Control, Control', Talk, Talk', FilterSaid, UNCHANGED core, open' \subseteq open,
         (\E dead \in BOOLEAN : ClientStep(dead)) \/ App \/ ClientDies,
         LedForced, ~FilterWhenIdle
  PROVE  FilterSaid'
  <1>1. CASE ~Heeding' BY <1>1 DEF FilterSaid
  <1> SUFFICES ASSUME Heeding' PROVE FilterSaid' BY <1>1
  <1>2. BothOpen BY DEF Heeding, BothOpen, ClientOpen, CoreOpen
  <1>3. CASE QuietCall
    <2>1. Heeding /\ UNCHANGED <<led, write_queue>> BY <1>3, QuietFilter
    <2>2. /\ UNCHANGED <<link, ledstate, forced, out>> /\ sending = <<>> /\ sending' = <<>>
          BY <1>3, QuietCalls DEF QuietCall, core, control, filter
    <2>3. CoreHears' = CoreHears \o <<>> BY <2>2, ClientThinks
    <2> QED BY <2>1, <2>2, <2>3, NoWord, NoLastWord, FilterGoesOn
  <1>4. CASE ReceiveAnswer
    <2>1. /\ pc = "answer" /\ UNCHANGED phase
          /\ pc' \in {"canplay", "cantplay", "drain", "fatal"}
          BY <1>4, StopFacts DEF ReceiveAnswer, ClientReceive, GoTo, songstate
    <2>2. phase = "INVALID" BY <2>1 DEF Control, ClientControl, PhaseAt
    <2> QED BY <2>1, <2>2 DEF Heeding, InPlay
  <1>5. CASE ReceiveTurn BY <1>2, <1>5, TurnFilter
  <1>6. CASE receive_messages
    <2>1. CASE Ready BY <1>2, <1>6, <2>1, ReadyFilter DEF receive_messages
    <2>2. CASE ~Ready BY <1>2, <1>6, <2>2, MessageFilter
    <2> QED BY <2>1, <2>2
  <1>7. ASSUME NEW place \in {"drain", "settle"}, get_pending_events(place) PROVE FALSE
    <2>1. pc = place /\ (pc' = place \/ (pc' = "asked" /\ back' = place))
          BY <1>7 DEF get_pending_events, GoTo
    <2> QED BY <2>1 DEF Heeding, Stopping, Replying
  <1>8. CASE SpeakingCall BY <1>2, <1>8, SpeakingFilter
  <1>9. CASE ClientSend \/ send_file_back \/ SendReply BY <1>2, <1>9, WritingFilter
  <1>10. CASE ClientDies \/ CloseLink
    <2>1. pc' \in {"wait", "gone"} BY <1>10 DEF ClientDies, CloseLink, GoTo
    <2> QED BY <2>1 DEF Heeding, BothOpen, Control, ClientControl
  <1> QED BY <1>3, <1>4, <1>5, <1>6, <1>7, <1>8, <1>9, <1>10, CallsOf DEF ListeningCall

(* A step of uadecore that takes a message which is not a filter command. *)
LEMMA FilterTail ==
  ASSUME FilterSaid, Heeding' => Heeding,
         CoreHears \in Seq(Message), CoreHears # <<>>, CoreHears' = Tail(CoreHears),
         CoreHears[1].type # "FILTER", UNCHANGED <<led, write_queue, ledstate, forced>>
  PROVE  FilterSaid'
  <1>1. PICK q, r : q \in Seq(Message) /\ q = CoreHears /\ r = CoreHears' /\ r = Tail(q) /\ q # <<>>
        OBVIOUS
  <1>2. Head(q).type # "FILTER" BY <1>1
  <1>3. /\ \A l : LastWord(q, l) => LastWord(r, l)
        /\ ~Has(q, "FILTER") => ~Has(r, "FILTER")
        BY <1>1, <1>2, LastOfTail
  <1> QED BY <1>1, <1>3 DEF FilterSaid

LEMMA FilterTaken ==
  ASSUME Control, Control', FilterSaid, UNCHANGED client, Heeding' => Heeding, audio_set_filter
  PROVE  FilterSaid'
  <1>1. CoreReceive("rstate", "FILTER") BY DEF audio_set_filter
  <1>2. /\ CoreHears' = Tail(CoreHears) /\ CoreHears # <<>> /\ Next_message = CoreHears[1]
        /\ CoreHears \in Seq(Message)
        BY <1>1, CoreTakes
  <1>3. PICK q, r :
          q \in Seq(Message) /\ q = CoreHears /\ r = CoreHears' /\ r = Tail(q) /\ q # <<>> /\ Next_message = Head(q)
        BY <1>2
  <1>4. UNCHANGED <<led, write_queue>> BY DEF client, call, songstate
  <1>5. LastWord(q, led) => LastWord(r, led) \/
          (/\ Next_message.body.arg = 2 + led /\ ~Has(r, "FILTER"))
        BY <1>3, LastOfTail
  <1>6. Next_message.body.arg = 2 + led => ledstate' = led /\ forced' = 2 + led
    <2>1. led \in {0, 1} BY DEF Control, Typed
    <2> QED BY <2>1 DEF audio_set_filter
  <1>7. Has(q, "FILTER")
    <2>1. Head(q).type = "FILTER" BY <1>1, <1>3 DEF CoreReceive
    <2> QED BY <1>3, <2>1, LastOfTail
  <1> QED BY <1>3, <1>4, <1>5, <1>6, <1>7 DEF FilterSaid

LEMMA CoreFilter ==
  ASSUME Control, Control', Talk, FilterSaid, UNCHANGED client, open' \subseteq open,
         CoreStep \/ Emulate \/ CoreDies
  PROVE  FilterSaid'
  <1>1. CASE ~Heeding' BY <1>1 DEF FilterSaid
  <1> SUFFICES ASSUME Heeding' PROVE FilterSaid' BY <1>1
  <1>2. BothOpen' /\ at' \notin Dead BY DEF Heeding, BothOpen, CoreOpen, Control, CoreControl
  <1>3. BothOpen /\ UNCHANGED <<pc, phase, back, led, write_queue, sending>>
        BY <1>2 DEF BothOpen, ClientOpen, CoreOpen, client, call, songstate
  <1>4. Heeding BY <1>3 DEF Heeding, InPlay, Stopping, Replying
  <1>5. ASSUME CoreHears' = CoreHears, UNCHANGED filter PROVE FilterSaid'
    <2>1. CoreHears' = CoreHears \o <<>> BY <1>5, Heard, WithoutWord
    <2> QED BY <1>3, <1>4, <1>5, <2>1, NoWord, NoLastWord, FilterGoesOn DEF filter
  <1>6. ASSUME UNCHANGED <<link, filter>>, out = <<>> PROVE FilterSaid'
        BY <1>5, <1>6, CoreSpeaksAlone
  <1>7. CASE CoreRejects \/ CoreEndOfInput \/ CoreDies
        BY <1>2, <1>7 DEF CoreRejects, CoreEndOfInput, CoreDies, Exit, Dead
  <1>8. CASE CoreBeginReceive
    <2>1. inbox' = inbox BY <1>8 DEF CoreBeginReceive, Link!BeginReceive
    <2>2. CoreHears' = CoreHears BY <1>3, <2>1 DEF CoreHears
    <2> QED BY <1>5, <1>8, <2>2 DEF CoreBeginReceive, core
  <1>9. CASE CoreSend
    <2>1. CoreHears' = CoreHears BY <1>2, <1>3, <1>9, CoreSendHears
    <2>2. UNCHANGED filter BY <1>9 DEF CoreSend, ClientGone, Exit
    <2> QED BY <1>5, <2>1, <2>2
  <1>10. CASE invalidate_amiga_file_cache \/ BeginSong
         BY <1>6, <1>10 DEF invalidate_amiga_file_cache, BeginSong
  <1>11. CASE \/ uadecore_option \/ ReceiveScore \/ ReceivePlayer \/ ReceiveModule \/ AnswerSong
              \/ change_subsong \/ add_ep_option \/ CommandRead \/ CommandReboot \/ LeaveRState
    <2>1. UNCHANGED filter
          BY <1>11 DEF uadecore_option, ReceiveScore, ReceivePlayer, ReceiveModule, AnswerSong,
             change_subsong, add_ep_option, CommandRead, CommandReboot, LeaveRState
    <2>2. PICK place \in {"option", "score", "player", "playerdata", "module", "moduledata",
                          "token", "rstate"},
               type \in {"CONFIG", "SCORE", "FILE", "FILE_DATA", "TOKEN", "CHANGE_SUBSONG",
                         "SET_PLAYER_OPTION", "READ", "REBOOT"} : CoreReceive(place, type)
          BY <1>11 DEF uadecore_option, ReceiveScore, ReceivePlayer, ReceiveModule, AnswerSong,
             change_subsong, add_ep_option, CommandRead, CommandReboot, LeaveRState
    <2>3. /\ CoreHears' = Tail(CoreHears) /\ CoreHears # <<>> /\ CoreHears \in Seq(Message)
          /\ CoreHears[1].type # "FILTER"
          BY <2>2, CoreTakes
    <2> QED BY <1>3, <1>4, <2>1, <2>3, FilterTail DEF filter
  <1>12. CASE audio_set_filter BY <1>4, <1>12, FilterTaken
  <1>13. CASE ReceiveAmigaFile
    <2>1. /\ at \in {"file", "filedata"} /\ out = <<>> /\ inbox["core"] # <<>>
          /\ Link!ReceivePiece("core") /\ UNCHANGED filter /\ Next_message.type \in Accepts[at]
          BY <1>13 DEF ReceiveAmigaFile
    <2>2. Next_message.type # "FILTER" BY <2>1 DEF Accepts
    <2>3. LinkTyped /\ CoreOpen BY <1>3, CoreFacts DEF BothOpen
    <2>4. /\ inbox'["core"] = Tail(inbox["core"]) /\ inbox'["client"] = inbox["client"]
          BY <2>1, <2>3, CoreTakesPiece
    <2>5. /\ CoreHears' = Tail(CoreHears) /\ CoreHears # <<>> /\ Next_message = CoreHears[1]
          BY <1>3, <2>1, <2>4, CoreListens
    <2>6. CoreHears \in Seq(Message) BY Heard
    <2> QED BY <1>3, <1>4, <2>1, <2>2, <2>5, <2>6, FilterTail DEF filter
  <1>14. CASE EmulateSubsongInfo \/ EmulateStartOutput \/ EmulateMessage \/ EmulateSongEnd
         BY <1>6, <1>14 DEF EmulateSubsongInfo, EmulateStartOutput, EmulateMessage, EmulateSongEnd
  <1>15. CASE EmulateSound
         BY <1>2, <1>6, <1>15 DEF EmulateSound, Exit, Dead
  <1>16. CASE EmulateLed
    <2>1. at = "run" /\ out = <<>> /\ UNCHANGED <<link, forced>> BY <1>16 DEF EmulateLed
    <2>2. CoreHears = <<>> BY <1>3, <2>1, TalkOfCore DEF Running
    <2>3. CoreHears' = <<>> BY <2>1, <2>2, CoreSpeaksAlone
    <2>4. ~LastWord(CoreHears, led) BY <2>2, NoLastWord
    <2>5. ~Has(CoreHears', "FILTER") BY <2>3, NoLastWord
    <2>6. led \in {0, 1} BY DEF Control, Typed
    <2>7. CASE write_queue # <<>> BY <1>3, <1>4, <2>7 DEF FilterSaid
    <2>8. CASE write_queue = <<>>
      <3>1. ledstate = led /\ forced = 2 + led BY <1>4, <2>4, <2>8 DEF FilterSaid
      <3>2. ledstate' = led BY <1>16, <2>6, <3>1 DEF EmulateLed
      <3> QED BY <1>3, <2>1, <2>5, <2>8, <3>1, <3>2 DEF FilterSaid
    <2> QED BY <2>7, <2>8
  <1>17. ASSUME NEW name \in 1 .. MaxFiles, lookup_amiga_file_cache(name) PROVE FilterSaid'
    <2>1. /\ UNCHANGED filter /\ at = "run" /\ out = <<>>
          /\ at' = "file" /\ Link!RequestFile("core", Msg("REQUEST_AMIGA_FILE", coreSong, name))
          BY <1>2, <1>17 DEF lookup_amiga_file_cache, Exit, Dead
    <2>2. coreSong \in 0 .. MaxSongs /\ name \in Nat
          BY <1>17, SessionAssumption DEF Control, Typed
    <2>3. PICK m \in Message :
            m = Msg("REQUEST_AMIGA_FILE", coreSong, name) /\ m.type = "REQUEST_AMIGA_FILE"
          BY <2>2, CoreWords
    <2>4. CoreOpen /\ duty["core"] = "none" /\ LinkTyped
          BY <1>3, <2>1, CoreFacts DEF Control, CoreControl, BothOpen
    <2>5. inbox'["core"] = inbox["core"] BY <2>1, <2>3, <2>4, CoreAsksForFile
    <2>6. CoreHears' = CoreHears BY <1>3, <2>5 DEF CoreHears
    <2> QED BY <1>5, <2>1, <2>6
  <1> QED BY <1>7, <1>8, <1>9, <1>10, <1>11, <1>12, <1>13, <1>14, <1>15, <1>16, <1>17
          DEF CoreStep, Emulate

LEMMA InitFilter == Init => FilterKept
  BY DEF Init, ClientInit, FilterKept, InPlay

LEMMA NextFilter ==
  ASSUME Control, Control', Talk, Talk', FilterKept, [Next]_vars, LedForced, ~FilterWhenIdle
  PROVE  FilterKept'
  <1>1. FilterSaid BY FilterAsSaid
  <1>2. open' \subseteq open BY NextControl, OpenShrinks
  <1>3. CASE UNCHANGED vars
    <2>1. /\ UNCHANGED <<inbox, open, sending, pc, phase, back, led, write_queue>>
          /\ UNCHANGED <<ledstate, forced>>
          BY <1>3 DEF vars, link, core, client, filter, call, songstate
    <2>2. CoreHears' = CoreHears BY <2>1 DEF CoreHears
    <2>3. Heeding' <=> Heeding
          BY <2>1 DEF Heeding, BothOpen, ClientOpen, CoreOpen, InPlay, Stopping, Replying
    <2>4. FilterSaid' BY <1>1, <2>1, <2>2, <2>3 DEF FilterSaid
    <2> QED BY <2>4, FilterAsSaidNext
  <1>4. CASE ((\E dead \in BOOLEAN : ClientStep(dead)) \/ App \/ ClientDies) /\ UNCHANGED core
        BY <1>1, <1>2, <1>4, ClientFilter, FilterAsSaidNext
  <1>5. CASE (CoreStep \/ Emulate \/ CoreDies) /\ UNCHANGED client
        BY <1>1, <1>2, <1>5, CoreFilter, FilterAsSaidNext
  <1> QED BY <1>3, <1>4, <1>5, StepsOf

LEMMA FilterSuffices ==
  ASSUME Control, Talk, FilterKept
  PROVE  FilterFollows
  <1> SUFFICES ASSUME at = "run", Playing, write_queue = <<>> PROVE ledstate = led
      BY DEF FilterFollows
  <1>1. FilterSaid BY FilterAsSaid
  <1>2. BothOpen BY DEF BothOpen, Playing, Control, ClientControl, CoreControl, Dead
  <1>3. Heeding BY <1>2 DEF Heeding, InPlay, Stopping, Replying, Playing, Control, ClientControl, PhaseAt
  <1>4. CoreHears = <<>> BY <1>2, TalkOfCore DEF Running
  <1>5. ~LastWord(CoreHears, led) BY <1>4, NoLastWord
  <1> QED BY <1>1, <1>3, <1>5 DEF FilterSaid

(* While uadecore emulates a song that plays, its LED filter is in the state   *)
(* the application has last asked for, whatever the Amiga program writes to    *)
(* the LED, as long as the configuration forces the LED.                       *)
(* (uade.c, uade_set_filter_state(); uadecontrol.c, UADE_COMMAND_FILTER)       *)
THEOREM FilterFollowsHolds == LedForced /\ ~FilterWhenIdle /\ Spec => []FilterFollows
  <1>1. Init => FilterKept BY InitFilter
  <1>2. ASSUME LedForced, ~FilterWhenIdle
        PROVE  Control /\ Control' /\ Talk /\ Talk' /\ FilterKept /\ [Next]_vars => FilterKept'
        BY <1>2, NextFilter
  <1>3. Control /\ Talk /\ FilterKept => FilterFollows BY FilterSuffices
  <1>4. CASE FilterWhenIdle \/ ~LedForced BY <1>4
  <1>5. CASE LedForced /\ ~FilterWhenIdle
    <2>1. Control /\ Control' /\ Talk /\ Talk' /\ FilterKept /\ [Next]_vars => FilterKept'
          BY <1>2, <1>5
    <2> QED BY <1>1, <1>3, <1>5, <2>1, TalkHolds, ControlHolds, PTL DEF Spec
  <1> QED BY <1>4, <1>5
===============================================================================
