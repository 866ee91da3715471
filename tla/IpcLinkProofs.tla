----------------------------- MODULE IpcLinkProofs -----------------------------
(***************************************************************************)
(* The properties of IpcLink hold for every set of commands and payloads.   *)
(* None of them is inductive.  The induction follows the message that passes *)
(* the turn: a token, a file request, or the last piece of a file to an end  *)
(* that awaits it.                                                           *)
(***************************************************************************)
EXTENDS IpcLink, SequenceTheorems, TLAPS

(* Message m passes the turn to an end whose duty is d. *)
Yields(d, m) == IsToken(m) \/ IsRequest(m) \/ (d = "awaiting" /\ IsLastPiece(m))

Yielded(p) == \E i \in 1 .. Len(inbox[p]) : Yields(duty[p], inbox[p][i])

(* Before the client has spoken nothing happens. *)
NeverSpoke ==
  state["client"] = "INITIAL" =>
    /\ inbox["client"] = <<>> /\ inbox["core"] = <<>>
    /\ duty["client"] = "none" /\ duty["core"] = "none"
    /\ state["core"] # "S"

ClosedIsEmpty == \A p \in Peer : p \notin open => inbox[p] = <<>>

(* Only the core asks for files. *)
Roles ==
  /\ duty["core"] \in {"none", "awaiting"}
  /\ duty["client"] \in {"none", "asked", "replying"}
  /\ \A i \in 1 .. Len(inbox["core"]) : ~IsRequest(inbox["core"][i])

(* An end that has passed the turn sends nothing after that. *)
YieldIsLast ==
  \A p \in Peer : \A i \in 1 .. Len(inbox[p]) :
    Yields(duty[p], inbox[p][i]) => i = Len(inbox[p])

(* An end in S has read all, and has not passed the turn. *)
SenderClear ==
  \A p \in Peer : state[p] = "S" =>
    inbox[p] = <<>> /\ state[Other(p)] # "S" /\ ~Yielded(Other(p))

Serving ==
  /\ \A i \in 1 .. Len(inbox["client"]) :
       IsRequest(inbox["client"][i]) => duty["core"] = "awaiting"
  /\ duty["client"] # "none" => duty["core"] = "awaiting"
  /\ duty["client"] = "replying" => state["client"] = "S"
  /\ duty["client"] = "asked" =>
       state["client"] = "R" /\ inbox["client"] = <<>> /\ inbox["core"] = <<>>

Awaiting ==
  duty["core"] = "awaiting" =>
    /\ state["core"] = "R"
    /\ \A i \in 1 .. Len(inbox["core"]) : inbox["core"][i].type \in FileType

(* A request is on its way, being served, or its last piece is on its way. *)
Served ==
  duty["core"] = "awaiting" /\ open = Peer =>
    \/ duty["client"] # "none"
    \/ \E i \in 1 .. Len(inbox["client"]) : IsRequest(inbox["client"][i])
    \/ \E i \in 1 .. Len(inbox["core"]) : IsLastPiece(inbox["core"][i])

TurnKept ==
  open = Peer /\ state["client"] = "R" /\ state["core"] # "S" =>
    Yielded("client") \/ Yielded("core") \/ duty["client"] = "asked"

Inv ==
  /\ TypeOK /\ NeverSpoke /\ ClosedIsEmpty /\ Roles /\ YieldIsLast /\ SenderClear
  /\ HalfDuplex /\ Serving /\ Awaiting /\ Served /\ TurnKept
------------------------------------------------------------------------------
LEMMA TailFacts ==
  ASSUME NEW S, NEW s \in Seq(S), s # <<>>
  PROVE  /\ Head(s) = s[1] /\ Head(s) \in S
         /\ Len(s) \in Nat \ {0}
         /\ Tail(s) \in Seq(S)
         /\ Len(Tail(s)) = Len(s) - 1
         /\ \A i \in 1 .. Len(Tail(s)) : Tail(s)[i] = s[i + 1]
         /\ Len(s) = 1 => Tail(s) = <<>>
  <1>1. /\ Head(s) = s[1] /\ Head(s) \in S
        /\ Len(s) \in Nat \ {0}
        /\ Tail(s) \in Seq(S)
        /\ Len(Tail(s)) = Len(s) - 1
        /\ \A i \in 1 .. Len(Tail(s)) : Tail(s)[i] = s[i + 1]
        BY HeadTailProperties, EmptySeq
  <1> QED BY <1>1, EmptySeq

LEMMA InitInv == ASSUME Init PROVE Inv
  BY LinkAssumption DEF Init, Inv, TypeOK, NeverSpoke, ClosedIsEmpty, Roles, YieldIsLast,
     SenderClear, HalfDuplex, Serving, Awaiting, Served, TurnKept, Peer, Other, Yielded

LEMMA ClientListens ==
  ASSUME Inv, "client" \in open, Listen("client")
  PROVE  Inv'
  <1> DEFINE q == inbox["client"]
  <1>1. q \in Seq(Message) /\ q # <<>> /\ inbox["core"] = <<>>
        BY DEF Inv, TypeOK, HalfDuplex, Listen, ReceiveMessage, Peer
  <1>2. /\ inbox'["client"] = Tail(q) /\ inbox'["core"] = <<>>
        /\ inbox' \in [Peer -> Seq(Message)]
        BY <1>1, TailFacts DEF Inv, TypeOK, Listen, ReceiveMessage, Peer
  <1>3. /\ state["client"] = "R"
        /\ state'["client"] = (IF IsToken(q[1]) THEN "S" ELSE "R")
        /\ state'["core"] = state["core"]
        /\ state' \in [Peer -> {"INITIAL", "S", "R"}]
        BY <1>1, TailFacts DEF Inv, TypeOK, Listen, ReceiveMessage, Peer
  <1>4. /\ duty["client"] = "none"
        /\ duty'["client"] = (IF IsRequest(q[1]) THEN "asked" ELSE "none")
        /\ duty'["core"] = duty["core"]
        /\ duty' \in [Peer -> {"none", "asked", "awaiting", "replying"}]
        BY <1>1, TailFacts DEF Inv, TypeOK, Listen, ReceiveMessage, Peer
  <1>5. open' = open /\ open \in SUBSET Peer
        BY DEF Inv, TypeOK, Listen, ReceiveMessage
  <1>6. /\ Len(q) \in Nat \ {0} /\ Len(Tail(q)) = Len(q) - 1
        /\ \A i \in 1 .. Len(Tail(q)) : Tail(q)[i] = q[i + 1]
        /\ Len(q) = 1 => Tail(q) = <<>>
        BY <1>1, TailFacts
  <1>7. \A i \in 1 .. Len(q) : IsToken(q[i]) \/ IsRequest(q[i]) => i = Len(q)
        BY <1>1 DEF Inv, YieldIsLast, Yields, Peer
  <1>8. state["core"] # "S" \/ (~IsToken(q[1]) /\ ~IsRequest(q[1]))
        BY <1>6 DEF Inv, SenderClear, Yielded, Yields, Peer, Other
  <1>9. \A i \in 1 .. Len(Tail(q)) :
          IsToken(Tail(q)[i]) \/ IsRequest(Tail(q)[i]) => i = Len(Tail(q))
        BY <1>6, <1>7
  <1>10. /\ \A m : Yields(duty["client"], m) <=> IsToken(m) \/ IsRequest(m)
         /\ \A m : Yields(duty'["client"], m) <=> IsToken(m) \/ IsRequest(m)
        BY <1>4 DEF Yields
  <1>11. IsToken(q[1]) \/ IsRequest(q[1]) => Tail(q) = <<>>
        BY <1>6, <1>7
  <1>a. TypeOK' BY <1>2, <1>3, <1>4, <1>5 DEF TypeOK
  <1>b. NeverSpoke' BY <1>3 DEF NeverSpoke
  <1>c. ClosedIsEmpty' BY <1>2, <1>5, "client" \in open DEF ClosedIsEmpty, Peer
  <1>d. Roles' BY <1>2, <1>4 DEF Inv, Roles
  <1>e. YieldIsLast'
    <2>1. \A i \in 1 .. Len(inbox'["client"]) :
            Yields(duty'["client"], inbox'["client"][i]) => i = Len(inbox'["client"])
        BY <1>2, <1>9, <1>10
    <2>2. \A i \in 1 .. Len(inbox'["core"]) : FALSE
        BY <1>2
    <2> QED BY <2>1, <2>2 DEF YieldIsLast, Peer
  <1>f. SenderClear'
    <2>1. CASE state'["client"] = "S"
      <3>1. IsToken(q[1]) BY <2>1, <1>3
      <3>2. state'["core"] # "S" BY <3>1, <1>3, <1>8
      <3>3. inbox'["client"] = <<>> /\ inbox'["core"] = <<>> BY <3>1, <1>2, <1>11
      <3> QED BY <3>2, <3>3 DEF SenderClear, Yielded, Peer, Other
    <2>2. CASE state'["client"] # "S"
      <3> SUFFICES ASSUME state'["core"] = "S"
                   PROVE  inbox'["core"] = <<>> /\ state'["client"] # "S" /\ ~Yielded("client")'
          BY <2>2 DEF SenderClear, Peer, Other
      <3>1. \A i \in 1 .. Len(q) : ~IsToken(q[i]) /\ ~IsRequest(q[i])
          BY <1>3, <1>10 DEF Inv, SenderClear, Yielded, Peer, Other
      <3>2. \A i \in 1 .. Len(Tail(q)) : ~IsToken(Tail(q)[i]) /\ ~IsRequest(Tail(q)[i])
          BY <3>1, <1>6
      <3> QED BY <2>2, <3>2, <1>2, <1>10 DEF Yielded
    <2> QED BY <2>1, <2>2
  <1>g. HalfDuplex' BY <1>2 DEF HalfDuplex, Peer
  <1>h. Serving'
    <2>1. \A i \in 1 .. Len(q) : IsRequest(q[i]) => duty["core"] = "awaiting"
        BY DEF Inv, Serving
    <2>2. \A i \in 1 .. Len(Tail(q)) : IsRequest(Tail(q)[i]) => duty["core"] = "awaiting"
        BY <2>1, <1>6
    <2>3. IsRequest(q[1]) => duty["core"] = "awaiting" /\ ~IsToken(q[1]) /\ Tail(q) = <<>>
        BY <2>1, <1>6, <1>11 DEF IsToken, IsRequest
    <2> QED BY <2>2, <2>3, <1>2, <1>3, <1>4 DEF Serving
  <1>i. Awaiting' BY <1>2, <1>3, <1>4 DEF Inv, Awaiting
  <1>j. Served'
    <2> SUFFICES ASSUME duty["core"] = "awaiting", open = Peer, ~IsRequest(q[1])
                 PROVE  \E i \in 1 .. Len(Tail(q)) : IsRequest(Tail(q)[i])
        BY <1>2, <1>4, <1>5 DEF Served
    <2>1. PICK i \in 1 .. Len(q) : IsRequest(q[i])
        BY <1>1, <1>4, EmptySeq DEF Inv, Served
    <2>2. i # 1 /\ i - 1 \in 1 .. Len(Tail(q)) /\ Tail(q)[i - 1] = q[i]
        BY <2>1, <1>6
    <2> QED BY <2>1, <2>2
  <1>k. TurnKept'
    <2> SUFFICES ASSUME open = Peer, state["core"] # "S", ~IsToken(q[1]), ~IsRequest(q[1])
                 PROVE  \E i \in 1 .. Len(Tail(q)) : IsToken(Tail(q)[i]) \/ IsRequest(Tail(q)[i])
        BY <1>2, <1>3, <1>4, <1>5, <1>10 DEF TurnKept, Yielded
    <2>1. PICK i \in 1 .. Len(q) : IsToken(q[i]) \/ IsRequest(q[i])
        BY <1>1, <1>3, <1>4, <1>10, EmptySeq DEF Inv, TurnKept, Yielded
    <2>2. i # 1 /\ i - 1 \in 1 .. Len(Tail(q)) /\ Tail(q)[i - 1] = q[i]
        BY <2>1, <1>6
    <2> QED BY <2>1, <2>2
  <1> QED BY <1>a, <1>b, <1>c, <1>d, <1>e, <1>f, <1>g, <1>h, <1>i, <1>j, <1>k DEF Inv

LEMMA CoreListens ==
  ASSUME Inv, "core" \in open, Listen("core")
  PROVE  Inv'
  <1> DEFINE q == inbox["core"]
  <1>1. q \in Seq(Message) /\ q # <<>> /\ inbox["client"] = <<>>
        BY DEF Inv, TypeOK, HalfDuplex, Listen, ReceiveMessage, Peer
  <1>2. /\ inbox'["core"] = Tail(q) /\ inbox'["client"] = <<>>
        /\ inbox' \in [Peer -> Seq(Message)]
        BY <1>1, TailFacts DEF Inv, TypeOK, Listen, ReceiveMessage, Peer
  <1>3. /\ state["core"] # "S" /\ state["client"] # "INITIAL"
        /\ state'["core"] = (IF IsToken(q[1]) THEN "S" ELSE "R")
        /\ state'["client"] = state["client"]
        /\ state' \in [Peer -> {"INITIAL", "S", "R"}]
        BY <1>1, TailFacts DEF Inv, TypeOK, NeverSpoke, Listen, ReceiveMessage, Peer
  <1>4. /\ Len(q) \in Nat \ {0} /\ Len(Tail(q)) = Len(q) - 1
        /\ \A i \in 1 .. Len(Tail(q)) : Tail(q)[i] = q[i + 1]
        /\ Len(q) = 1 => Tail(q) = <<>>
        BY <1>1, TailFacts
  <1>5. \A i \in 1 .. Len(q) : ~IsRequest(q[i])
        BY DEF Inv, Roles
  <1>6. /\ duty["core"] = "none" /\ duty["client"] = "none"
        /\ duty'["core"] = "none" /\ duty'["client"] = "none"
        /\ duty' \in [Peer -> {"none", "asked", "awaiting", "replying"}]
        BY <1>1, <1>4, <1>5, TailFacts
        DEF Inv, TypeOK, Serving, Roles, Listen, ReceiveMessage, Peer
  <1>7. open' = open /\ open \in SUBSET Peer
        BY DEF Inv, TypeOK, Listen, ReceiveMessage
  <1>8. \A m : Yields("none", m) <=> IsToken(m) \/ IsRequest(m)
        BY DEF Yields
  <1>9. \A i \in 1 .. Len(q) : IsToken(q[i]) => i = Len(q)
        BY <1>1, <1>6, <1>8 DEF Inv, YieldIsLast, Peer
  <1>10. \A i \in 1 .. Len(Tail(q)) :
           ~IsRequest(Tail(q)[i]) /\ (IsToken(Tail(q)[i]) => i = Len(Tail(q)))
        BY <1>4, <1>5, <1>9
  <1>11. IsToken(q[1]) => Tail(q) = <<>>
        BY <1>4, <1>9
  <1>a. TypeOK' BY <1>2, <1>3, <1>6, <1>7 DEF TypeOK
  <1>b. NeverSpoke' BY <1>3 DEF NeverSpoke
  <1>c. ClosedIsEmpty' BY <1>2, <1>7, "core" \in open DEF ClosedIsEmpty, Peer
  <1>d. Roles' BY <1>2, <1>6, <1>10 DEF Roles
  <1>e. YieldIsLast'
    <2>1. \A i \in 1 .. Len(inbox'["core"]) :
            Yields(duty'["core"], inbox'["core"][i]) => i = Len(inbox'["core"])
        BY <1>2, <1>6, <1>8, <1>10
    <2>2. \A i \in 1 .. Len(inbox'["client"]) : FALSE
        BY <1>2
    <2> QED BY <2>1, <2>2 DEF YieldIsLast, Peer
  <1>f. SenderClear'
    <2>1. CASE state'["core"] = "S"
      <3>1. IsToken(q[1]) BY <2>1, <1>3
      <3>2. state["client"] # "S"
          BY <3>1, <1>4, <1>6, <1>8 DEF Inv, SenderClear, Yielded, Peer, Other
      <3>3. inbox'["client"] = <<>> /\ inbox'["core"] = <<>> BY <3>1, <1>2, <1>11
      <3> QED BY <3>2, <3>3, <1>3 DEF SenderClear, Yielded, Peer, Other
    <2>2. CASE state'["core"] # "S"
      <3> SUFFICES ASSUME state'["client"] = "S"
                   PROVE  inbox'["client"] = <<>> /\ state'["core"] # "S" /\ ~Yielded("core")'
          BY <2>2 DEF SenderClear, Peer, Other
      <3>1. \A i \in 1 .. Len(q) : ~IsToken(q[i])
          BY <1>3, <1>6, <1>8 DEF Inv, SenderClear, Yielded, Peer, Other
      <3>2. \A i \in 1 .. Len(Tail(q)) : ~IsToken(Tail(q)[i]) /\ ~IsRequest(Tail(q)[i])
          BY <3>1, <1>4, <1>10
      <3> QED BY <2>2, <3>2, <1>2, <1>6, <1>8 DEF Yielded
    <2> QED BY <2>1, <2>2
  <1>g. HalfDuplex' BY <1>2 DEF HalfDuplex, Peer
  <1>h. Serving' BY <1>2, <1>6 DEF Serving
  <1>i. Awaiting' /\ Served' BY <1>6 DEF Awaiting, Served
  <1>j. TurnKept'
    <2> SUFFICES ASSUME open = Peer, state["client"] = "R", ~IsToken(q[1])
                 PROVE  \E i \in 1 .. Len(Tail(q)) : IsToken(Tail(q)[i])
        BY <1>2, <1>3, <1>6, <1>7, <1>8 DEF TurnKept, Yielded
    <2>1. PICK i \in 1 .. Len(q) : IsToken(q[i])
        BY <1>1, <1>3, <1>5, <1>6, <1>8, EmptySeq DEF Inv, TurnKept, Yielded
    <2>2. i # 1 /\ i - 1 \in 1 .. Len(Tail(q)) /\ Tail(q)[i - 1] = q[i]
        BY <2>1, <1>4
    <2> QED BY <2>1, <2>2
  <1> QED BY <1>a, <1>b, <1>c, <1>d, <1>e, <1>f, <1>g, <1>h, <1>i, <1>j DEF Inv

LEMMA ClientSpeaks ==
  ASSUME Inv, "client" \in open, Speak("client")
  PROVE  Inv'
  <1> DEFINE q == inbox["core"]
  <1>1. PICK m \in Message : ~IsRequest(m) /\ SendMessage("client", m)
        BY DEF Speak
  <1>2. /\ duty["client"] = "none" /\ duty' = duty /\ open' = open
        /\ duty \in [Peer -> {"none", "asked", "awaiting", "replying"}]
        /\ open \in SUBSET Peer
        BY <1>1 DEF Inv, TypeOK, Speak, SendMessage
  <1>3. /\ state["client"] \in {"INITIAL", "S"}
        /\ state'["client"] = (IF IsToken(m) THEN "R" ELSE "S")
        /\ state'["core"] = state["core"]
        /\ state' \in [Peer -> {"INITIAL", "S", "R"}]
        BY <1>1 DEF Inv, TypeOK, SendMessage, Peer
  <1>4. q \in Seq(Message) /\ inbox["client"] = <<>> /\ state["core"] # "S"
        BY <1>3 DEF Inv, TypeOK, NeverSpoke, SenderClear, Peer, Other
  <1>5. \A i \in 1 .. Len(q) : ~Yields(duty["core"], q[i])
        BY <1>3, EmptySeq DEF Inv, NeverSpoke, SenderClear, Yielded, Peer, Other
  <1>6. CASE "core" \in open
    <2>1. open = Peer BY <1>2, <1>6, "client" \in open DEF Peer
    <2>2. duty["core"] = "none"
      <3> SUFFICES ASSUME duty["core"] = "awaiting" PROVE FALSE
          BY DEF Inv, Roles
      <3>1. \A i \in 1 .. Len(q) : ~IsLastPiece(q[i])
          BY <1>5 DEF Yields
      <3> QED BY <2>1, <1>2, <1>4, <3>1 DEF Inv, Served
    <2>3. /\ inbox'["core"] = Append(q, m) /\ inbox'["client"] = <<>>
          /\ inbox' \in [Peer -> Seq(Message)]
          BY <1>1, <1>4, <1>6, AppendProperties DEF Inv, TypeOK, SendMessage, Deliver, Peer, Other
    <2>4. /\ Len(q) \in Nat /\ Len(Append(q, m)) = Len(q) + 1
          /\ \A i \in 1 .. Len(q) : Append(q, m)[i] = q[i]
          /\ Append(q, m)[Len(q) + 1] = m
          BY <1>4, AppendProperties, LenProperties
    <2>5. \A i \in 1 .. Len(Append(q, m)) :
            \/ i \in 1 .. Len(q) /\ Append(q, m)[i] = q[i]
            \/ i = Len(Append(q, m)) /\ Append(q, m)[i] = m
          BY <2>4
    <2>6. \A x : Yields("none", x) <=> IsToken(x) \/ IsRequest(x)
          BY DEF Yields
    <2>a. TypeOK' BY <1>2, <1>3, <2>3 DEF TypeOK
    <2>b. NeverSpoke' BY <1>3 DEF NeverSpoke
    <2>c. ClosedIsEmpty' BY <1>2, <2>1 DEF ClosedIsEmpty
    <2>d. Roles'
          BY <1>1, <1>2, <2>2, <2>3, <2>5 DEF Inv, Roles
    <2>e. YieldIsLast'
      <3>1. \A i \in 1 .. Len(inbox'["core"]) :
              Yields(duty'["core"], inbox'["core"][i]) => i = Len(inbox'["core"])
          BY <1>2, <1>5, <2>2, <2>3, <2>5
      <3>2. \A i \in 1 .. Len(inbox'["client"]) : FALSE
          BY <2>3
      <3> QED BY <3>1, <3>2 DEF YieldIsLast, Peer
    <2>f. SenderClear'
      <3> SUFFICES ASSUME ~IsToken(m)
                   PROVE  \A i \in 1 .. Len(Append(q, m)) : ~Yields("none", Append(q, m)[i])
          BY <1>2, <1>3, <1>4, <2>2, <2>3 DEF SenderClear, Yielded, Peer, Other
      <3> QED BY <1>1, <1>5, <2>2, <2>5, <2>6
    <2>g. HalfDuplex' BY <2>3 DEF HalfDuplex, Peer
    <2>h. Serving' BY <1>2, <2>3 DEF Inv, Serving
    <2>i. Awaiting' /\ Served' BY <1>2, <2>2 DEF Awaiting, Served
    <2>j. TurnKept'
      <3> SUFFICES ASSUME IsToken(m) PROVE Yielded("core")'
          BY <1>3 DEF TurnKept
      <3>1. Yields(duty'["core"], inbox'["core"][Len(q) + 1])
          BY <1>2, <2>2, <2>3, <2>4, <2>6
      <3> QED BY <3>1, <2>3, <2>4 DEF Yielded
    <2> QED BY <2>a, <2>b, <2>c, <2>d, <2>e, <2>f, <2>g, <2>h, <2>i, <2>j DEF Inv
  <1>7. CASE "core" \notin open
    <2>1. inbox' = inbox /\ inbox["core"] = <<>>
          BY <1>1, <1>7 DEF Inv, ClosedIsEmpty, SendMessage, Deliver, Peer, Other
    <2>2. open # Peer BY <1>7 DEF Peer
    <2>3. Yielded("core")' <=> Yielded("core")
          BY <2>1, <1>2 DEF Yielded
    <2>a. TypeOK' BY <1>2, <1>3, <2>1 DEF Inv, TypeOK
    <2>b. NeverSpoke' BY <1>3 DEF NeverSpoke
    <2>c. ClosedIsEmpty' /\ Roles' /\ YieldIsLast' /\ HalfDuplex'
          BY <1>2, <2>1 DEF Inv, ClosedIsEmpty, Roles, YieldIsLast, HalfDuplex
    <2>d. SenderClear'
          BY <1>3, <1>4, <1>5, <2>1, <2>3 DEF SenderClear, Yielded, Peer, Other
    <2>e. Serving' /\ Awaiting'
          BY <1>2, <1>3, <2>1 DEF Inv, Serving, Awaiting
    <2>f. Served' /\ TurnKept' BY <1>2, <2>2 DEF Served, TurnKept
    <2> QED BY <2>a, <2>b, <2>c, <2>d, <2>e, <2>f DEF Inv
  <1> QED BY <1>6, <1>7

LEMMA CoreSpeaks ==
  ASSUME Inv, "core" \in open, Speak("core")
  PROVE  Inv'
  <1> DEFINE q == inbox["client"]
  <1>1. PICK m \in Message : ~IsRequest(m) /\ SendMessage("core", m)
        BY DEF Speak
  <1>2. /\ duty["core"] = "none" /\ duty["client"] = "none"
        /\ duty' = duty /\ open' = open
        /\ duty \in [Peer -> {"none", "asked", "awaiting", "replying"}]
        /\ open \in SUBSET Peer
        BY <1>1 DEF Inv, TypeOK, Serving, Speak, SendMessage
  <1>3. /\ state["core"] = "S" /\ state["client"] = "R"
        /\ state'["core"] = (IF IsToken(m) THEN "R" ELSE "S")
        /\ state'["client"] = "R"
        /\ state' \in [Peer -> {"INITIAL", "S", "R"}]
        BY <1>1 DEF Inv, TypeOK, NeverSpoke, SenderClear, Speak, SendMessage, Peer, Other
  <1>4. q \in Seq(Message) /\ inbox["core"] = <<>>
        BY <1>3 DEF Inv, TypeOK, SenderClear, Peer
  <1>5. \A i \in 1 .. Len(q) : ~Yields("none", q[i])
        BY <1>2, <1>3 DEF Inv, SenderClear, Yielded, Peer, Other
  <1>6. CASE "client" \in open
    <2>1. open = Peer BY <1>2, <1>6, "core" \in open DEF Peer
    <2>2. \A x : Yields("none", x) <=> IsToken(x) \/ IsRequest(x)
          BY DEF Yields
    <2>3. /\ inbox'["client"] = Append(q, m) /\ inbox'["core"] = <<>>
          /\ inbox' \in [Peer -> Seq(Message)]
          BY <1>1, <1>4, <1>6, AppendProperties DEF Inv, TypeOK, SendMessage, Deliver, Peer, Other
    <2>4. /\ Len(q) \in Nat /\ Len(Append(q, m)) = Len(q) + 1
          /\ \A i \in 1 .. Len(q) : Append(q, m)[i] = q[i]
          /\ Append(q, m)[Len(q) + 1] = m
          BY <1>4, AppendProperties, LenProperties
    <2>5. \A i \in 1 .. Len(Append(q, m)) :
            \/ i \in 1 .. Len(q) /\ Append(q, m)[i] = q[i]
            \/ i = Len(Append(q, m)) /\ Append(q, m)[i] = m
          BY <2>4
    <2>a. TypeOK' BY <1>2, <1>3, <2>3 DEF TypeOK
    <2>b. NeverSpoke' BY <1>3 DEF NeverSpoke
    <2>c. ClosedIsEmpty' BY <1>2, <2>1 DEF ClosedIsEmpty
    <2>d. Roles' BY <1>2, <2>3 DEF Roles
    <2>e. YieldIsLast'
      <3>1. \A i \in 1 .. Len(inbox'["client"]) :
              Yields(duty'["client"], inbox'["client"][i]) => i = Len(inbox'["client"])
          BY <1>2, <1>5, <2>3, <2>5
      <3>2. \A i \in 1 .. Len(inbox'["core"]) : FALSE
          BY <2>3
      <3> QED BY <3>1, <3>2 DEF YieldIsLast, Peer
    <2>f. SenderClear'
      <3> SUFFICES ASSUME ~IsToken(m)
                   PROVE  \A i \in 1 .. Len(Append(q, m)) : ~Yields("none", Append(q, m)[i])
          BY <1>2, <1>3, <1>4, <2>3 DEF SenderClear, Yielded, Peer, Other
      <3> QED BY <1>1, <1>5, <2>2, <2>5
    <2>g. HalfDuplex' BY <2>3 DEF HalfDuplex, Peer
    <2>h. Serving'
      <3>1. \A i \in 1 .. Len(Append(q, m)) : ~IsRequest(Append(q, m)[i])
          BY <1>1, <1>5, <2>2, <2>5
      <3> QED BY <1>2, <2>3, <3>1 DEF Serving
    <2>i. Awaiting' /\ Served' BY <1>2 DEF Awaiting, Served
    <2>j. TurnKept'
      <3> SUFFICES ASSUME IsToken(m) PROVE Yielded("client")'
          BY <1>3 DEF TurnKept
      <3>1. Yields(duty'["client"], inbox'["client"][Len(q) + 1])
          BY <1>2, <2>2, <2>3, <2>4
      <3> QED BY <3>1, <2>3, <2>4 DEF Yielded
    <2> QED BY <2>a, <2>b, <2>c, <2>d, <2>e, <2>f, <2>g, <2>h, <2>i, <2>j DEF Inv
  <1>7. CASE "client" \notin open
    <2>1. inbox' = inbox /\ inbox["client"] = <<>>
          BY <1>1, <1>7 DEF Inv, ClosedIsEmpty, SendMessage, Deliver, Peer, Other
    <2>2. open # Peer BY <1>7 DEF Peer
    <2>3. Yielded("client")' <=> Yielded("client")
          BY <2>1, <1>2 DEF Yielded
    <2>a. TypeOK' BY <1>2, <1>3, <2>1 DEF Inv, TypeOK
    <2>b. NeverSpoke' BY <1>3 DEF NeverSpoke
    <2>c. ClosedIsEmpty' /\ Roles' /\ YieldIsLast' /\ HalfDuplex'
          BY <1>2, <2>1 DEF Inv, ClosedIsEmpty, Roles, YieldIsLast, HalfDuplex
    <2>d. SenderClear'
          BY <1>2, <1>3, <1>4, <1>5, <2>1, <2>3 DEF SenderClear, Yielded, Peer, Other
    <2>e. Serving' /\ Awaiting'
          BY <1>2, <1>3, <2>1 DEF Inv, Serving, Awaiting
    <2>f. Served' /\ TurnKept' BY <1>2, <2>2 DEF Served, TurnKept
    <2> QED BY <2>a, <2>b, <2>c, <2>d, <2>e, <2>f DEF Inv
  <1> QED BY <1>6, <1>7

LEMMA CoreAsks ==
  ASSUME Inv, "core" \in open, Ask("core")
  PROVE  Inv'
  <1> DEFINE q == inbox["client"]
  <1>1. PICK m \in Message : IsRequest(m) /\ RequestFile("core", m)
        BY DEF Ask
  <1>2. /\ duty["core"] = "none" /\ duty["client"] = "none"
        /\ duty'["core"] = "awaiting" /\ duty'["client"] = "none"
        /\ duty' \in [Peer -> {"none", "asked", "awaiting", "replying"}]
        BY <1>1 DEF Inv, TypeOK, Serving, Ask, RequestFile, Peer
  <1>3. /\ state["core"] = "S" /\ state["client"] = "R"
        /\ state'["core"] = "R" /\ state'["client"] = "R"
        /\ state' \in [Peer -> {"INITIAL", "S", "R"}]
        BY <1>1 DEF Inv, TypeOK, NeverSpoke, SenderClear, RequestFile, Peer, Other
  <1>4. q \in Seq(Message) /\ inbox["core"] = <<>>
        BY <1>3 DEF Inv, TypeOK, SenderClear, Peer
  <1>5. \A i \in 1 .. Len(q) : ~Yields("none", q[i])
        BY <1>2, <1>3 DEF Inv, SenderClear, Yielded, Peer, Other
  <1>6. open = Peer /\ open' = open
        BY <1>1, "core" \in open DEF Inv, TypeOK, RequestFile, Peer, Other
  <1>7. /\ inbox'["client"] = Append(q, m) /\ inbox'["core"] = <<>>
        /\ inbox' \in [Peer -> Seq(Message)]
        BY <1>1, <1>4, AppendProperties DEF Inv, TypeOK, RequestFile, Deliver, Peer, Other
  <1>8. /\ Len(q) \in Nat /\ Len(Append(q, m)) = Len(q) + 1
        /\ \A i \in 1 .. Len(q) : Append(q, m)[i] = q[i]
        /\ Append(q, m)[Len(q) + 1] = m
        BY <1>4, AppendProperties, LenProperties
  <1>9. \A i \in 1 .. Len(Append(q, m)) :
          \/ i \in 1 .. Len(q) /\ Append(q, m)[i] = q[i]
          \/ i = Len(Append(q, m)) /\ Append(q, m)[i] = m
        BY <1>8
  <1>a. TypeOK' BY <1>2, <1>3, <1>6, <1>7 DEF TypeOK
  <1>b. NeverSpoke' /\ SenderClear'
        BY <1>3 DEF NeverSpoke, SenderClear, Peer
  <1>c. ClosedIsEmpty' BY <1>6 DEF ClosedIsEmpty
  <1>d. Roles' BY <1>2, <1>7 DEF Roles
  <1>e. YieldIsLast'
    <2>1. \A i \in 1 .. Len(inbox'["client"]) :
            Yields(duty'["client"], inbox'["client"][i]) => i = Len(inbox'["client"])
        BY <1>2, <1>5, <1>7, <1>9
    <2>2. \A i \in 1 .. Len(inbox'["core"]) : FALSE
        BY <1>7
    <2> QED BY <2>1, <2>2 DEF YieldIsLast, Peer
  <1>f. HalfDuplex' BY <1>7 DEF HalfDuplex, Peer
  <1>g. Serving' BY <1>2 DEF Serving
  <1>h. Awaiting' BY <1>3, <1>7 DEF Awaiting
  <1>i. Served' BY <1>1, <1>7, <1>8 DEF Served
  <1>j. TurnKept' BY <1>1, <1>7, <1>8 DEF TurnKept, Yielded, Yields
  <1> QED BY <1>a, <1>b, <1>c, <1>d, <1>e, <1>f, <1>g, <1>h, <1>i, <1>j DEF Inv

LEMMA CoreReceivesPiece ==
  ASSUME Inv, "core" \in open, ReceivePiece("core")
  PROVE  Inv'
  <1> DEFINE q == inbox["core"]
  <1>1. q \in Seq(Message) /\ q # <<>> /\ inbox["client"] = <<>>
        BY DEF Inv, TypeOK, HalfDuplex, ReceivePiece, Peer
  <1>2. /\ inbox'["core"] = Tail(q) /\ inbox'["client"] = <<>>
        /\ inbox' \in [Peer -> Seq(Message)]
        BY <1>1, TailFacts DEF Inv, TypeOK, ReceivePiece, Peer
  <1>3. /\ Len(q) \in Nat \ {0} /\ Len(Tail(q)) = Len(q) - 1
        /\ \A i \in 1 .. Len(Tail(q)) : Tail(q)[i] = q[i + 1]
        /\ Len(q) = 1 => Tail(q) = <<>>
        /\ Head(q) = q[1]
        BY <1>1, TailFacts
  <1>4. /\ duty["core"] = "awaiting" /\ state["core"] = "R" /\ duty["client"] # "asked"
        /\ duty["client"] = "replying" => state["client"] = "S"
        /\ duty["client"] \in {"none", "replying"}
        BY <1>1 DEF Inv, Awaiting, Serving, Roles, ReceivePiece
  <1>5. /\ duty'["core"] = (IF IsLastPiece(q[1]) THEN "none" ELSE "awaiting")
        /\ state'["core"] = (IF IsLastPiece(q[1]) THEN "S" ELSE "R")
        /\ duty'["client"] = duty["client"] /\ state'["client"] = state["client"]
        /\ state["client"] # "INITIAL"
        /\ duty' \in [Peer -> {"none", "asked", "awaiting", "replying"}]
        /\ state' \in [Peer -> {"INITIAL", "S", "R"}]
        BY <1>1, <1>3, <1>4 DEF Inv, TypeOK, NeverSpoke, ReceivePiece, Peer
  <1>6. open' = open /\ open \in SUBSET Peer
        BY DEF Inv, TypeOK, ReceivePiece
  <1>7. \A i \in 1 .. Len(q) : q[i].type \in FileType /\ ~IsToken(q[i]) /\ ~IsRequest(q[i])
        BY <1>4 DEF Inv, Awaiting, FileType, IsToken, IsRequest
  <1>8. \A i \in 1 .. Len(q) : IsLastPiece(q[i]) => i = Len(q)
        BY <1>1, <1>4 DEF Inv, YieldIsLast, Yields, Peer
  <1>9. \A i \in 1 .. Len(Tail(q)) :
          /\ Tail(q)[i].type \in FileType /\ ~IsToken(Tail(q)[i]) /\ ~IsRequest(Tail(q)[i])
          /\ IsLastPiece(Tail(q)[i]) => i = Len(Tail(q))
        BY <1>3, <1>7, <1>8
  <1>10. IsLastPiece(q[1]) => Tail(q) = <<>> /\ state["client"] # "S" /\ duty["client"] = "none"
        BY <1>3, <1>4, <1>8 DEF Inv, SenderClear, Yielded, Yields, Peer, Other
  <1>11. /\ \A m : Yields("awaiting", m) <=> IsToken(m) \/ IsRequest(m) \/ IsLastPiece(m)
         /\ \A m : Yields("none", m) <=> IsToken(m) \/ IsRequest(m)
        BY DEF Yields
  <1>a. TypeOK' BY <1>2, <1>5, <1>6 DEF TypeOK
  <1>b. NeverSpoke' BY <1>5 DEF NeverSpoke
  <1>c. ClosedIsEmpty' BY <1>2, <1>6, "core" \in open DEF ClosedIsEmpty, Peer
  <1>d. Roles' BY <1>2, <1>4, <1>5, <1>9 DEF Roles
  <1>e. YieldIsLast'
    <2>1. \A i \in 1 .. Len(inbox'["core"]) :
            Yields(duty'["core"], inbox'["core"][i]) => i = Len(inbox'["core"])
        BY <1>2, <1>5, <1>9, <1>11
    <2>2. \A i \in 1 .. Len(inbox'["client"]) : FALSE
        BY <1>2
    <2> QED BY <2>1, <2>2 DEF YieldIsLast, Peer
  <1>f. SenderClear'
    <2>1. CASE IsLastPiece(q[1])
      <3>1. /\ inbox'["core"] = <<>> /\ inbox'["client"] = <<>>
            /\ state'["client"] # "S"
          BY <2>1, <1>2, <1>5, <1>10
      <3> QED BY <3>1 DEF SenderClear, Yielded, Peer, Other
    <2>2. CASE ~IsLastPiece(q[1])
      <3> SUFFICES ASSUME state["client"] = "S"
                   PROVE  \A i \in 1 .. Len(Tail(q)) : ~Yields("awaiting", Tail(q)[i])
          BY <2>2, <1>2, <1>5 DEF SenderClear, Yielded, Peer, Other
      <3>1. \A i \in 1 .. Len(q) : ~Yields("awaiting", q[i])
          BY <1>4 DEF Inv, SenderClear, Yielded, Peer, Other
      <3> QED BY <3>1, <1>3
    <2> QED BY <2>1, <2>2
  <1>g. HalfDuplex' BY <1>2 DEF HalfDuplex, Peer
  <1>h. Serving' BY <1>2, <1>4, <1>5, <1>10 DEF Serving
  <1>i. Awaiting' BY <1>2, <1>5, <1>9 DEF Awaiting
  <1>j. Served'
    <2> SUFFICES ASSUME open = Peer, ~IsLastPiece(q[1]), duty["client"] = "none"
                 PROVE  \E i \in 1 .. Len(Tail(q)) : IsLastPiece(Tail(q)[i])
        BY <1>2, <1>5, <1>6 DEF Served
    <2>1. PICK i \in 1 .. Len(q) : IsLastPiece(q[i])
        BY <1>1, <1>4, EmptySeq DEF Inv, Served
    <2>2. i # 1 /\ i - 1 \in 1 .. Len(Tail(q)) /\ Tail(q)[i - 1] = q[i]
        BY <2>1, <1>3
    <2> QED BY <2>1, <2>2
  <1>k. TurnKept'
    <2> SUFFICES ASSUME open = Peer, state["client"] = "R", ~IsLastPiece(q[1])
                 PROVE  \E i \in 1 .. Len(Tail(q)) : IsLastPiece(Tail(q)[i])
        BY <1>2, <1>5, <1>6, <1>11 DEF TurnKept, Yielded
    <2>1. PICK i \in 1 .. Len(q) : IsLastPiece(q[i])
        BY <1>1, <1>4, <1>7, <1>11, EmptySeq DEF Inv, TurnKept, Yielded
    <2>2. i # 1 /\ i - 1 \in 1 .. Len(Tail(q)) /\ Tail(q)[i - 1] = q[i]
        BY <2>1, <1>3
    <2> QED BY <2>1, <2>2
  <1> QED BY <1>a, <1>b, <1>c, <1>d, <1>e, <1>f, <1>g, <1>h, <1>i, <1>j, <1>k DEF Inv

LEMMA ClientBeginsReply ==
  ASSUME Inv, "client" \in open, BeginReply("client")
  PROVE  Inv'
  <1>1. /\ duty["client"] = "asked" /\ duty["core"] = "awaiting" /\ state["core"] = "R"
        /\ inbox["client"] = <<>> /\ inbox["core"] = <<>>
        BY DEF Inv, Serving, Awaiting, BeginReply
  <1>2. /\ state'["client"] = "S" /\ state'["core"] = "R"
        /\ duty'["client"] = "replying" /\ duty'["core"] = "awaiting"
        /\ inbox' = inbox /\ open' = open
        BY <1>1 DEF Inv, TypeOK, BeginReply, Peer
  <1>3. TypeOK' BY <1>2 DEF Inv, TypeOK, BeginReply
  <1>4. NeverSpoke' /\ TurnKept' BY <1>2 DEF NeverSpoke, TurnKept
  <1>5. ClosedIsEmpty' /\ HalfDuplex' BY <1>2 DEF Inv, ClosedIsEmpty, HalfDuplex
  <1>6. Roles' /\ Served' BY <1>1, <1>2 DEF Roles, Served
  <1>7. YieldIsLast' BY <1>1, <1>2 DEF YieldIsLast, Peer
  <1>8. SenderClear' BY <1>1, <1>2 DEF SenderClear, Yielded, Peer, Other
  <1>9. Serving' /\ Awaiting' BY <1>1, <1>2 DEF Serving, Awaiting
  <1> QED BY <1>3, <1>4, <1>5, <1>6, <1>7, <1>8, <1>9 DEF Inv

LEMMA ClientSendsPiece ==
  ASSUME Inv, "client" \in open, Answer("client")
  PROVE  Inv'
  <1> DEFINE q == inbox["core"]
  <1>1. PICK m \in Message : m.type \in FileType /\ SendPiece("client", m)
        BY DEF Answer
  <1>2. /\ duty["client"] = "replying" /\ duty["core"] = "awaiting"
        /\ state["client"] = "S" /\ state["core"] = "R"
        BY <1>1 DEF Inv, Serving, Awaiting, SendPiece
  <1>3. q \in Seq(Message) /\ inbox["client"] = <<>>
        BY <1>2 DEF Inv, TypeOK, SenderClear, Peer
  <1>4. \A i \in 1 .. Len(q) : ~Yields("awaiting", q[i])
        BY <1>2 DEF Inv, SenderClear, Yielded, Peer, Other
  <1>5. open' = open /\ open \in SUBSET Peer
        BY <1>1 DEF Inv, TypeOK, SendPiece
  <1>6. CASE "core" \in open
    <2>1. open = Peer BY <1>5, <1>6, "client" \in open DEF Peer
    <2>2. /\ duty'["client"] = (IF m.last THEN "none" ELSE "replying")
          /\ state'["client"] = (IF m.last THEN "R" ELSE "S")
          /\ duty'["core"] = "awaiting" /\ state'["core"] = "R"
          /\ duty' \in [Peer -> {"none", "asked", "awaiting", "replying"}]
          /\ state' \in [Peer -> {"INITIAL", "S", "R"}]
          BY <1>1, <1>2, <1>6 DEF Inv, TypeOK, SendPiece, Peer, Other
    <2>3. /\ inbox'["core"] = Append(q, m) /\ inbox'["client"] = <<>>
          /\ inbox' \in [Peer -> Seq(Message)]
          BY <1>1, <1>3, <1>6, AppendProperties DEF Inv, TypeOK, SendPiece, Deliver, Peer, Other
    <2>4. /\ Len(q) \in Nat /\ Len(Append(q, m)) = Len(q) + 1
          /\ \A i \in 1 .. Len(q) : Append(q, m)[i] = q[i]
          /\ Append(q, m)[Len(q) + 1] = m
          BY <1>3, AppendProperties, LenProperties
    <2>5. \A i \in 1 .. Len(Append(q, m)) :
            \/ i \in 1 .. Len(q) /\ Append(q, m)[i] = q[i]
            \/ i = Len(Append(q, m)) /\ Append(q, m)[i] = m
          BY <2>4
    <2>6. /\ \A i \in 1 .. Len(q) : q[i].type \in FileType /\ ~IsRequest(q[i])
          /\ ~IsToken(m) /\ ~IsRequest(m) /\ (IsLastPiece(m) <=> m.last)
          BY <1>1, <1>2 DEF Inv, Awaiting, FileType, IsToken, IsRequest, IsLastPiece, Message
    <2>7. \A x : Yields("awaiting", x) <=> IsToken(x) \/ IsRequest(x) \/ IsLastPiece(x)
          BY DEF Yields
    <2>a. TypeOK' BY <1>5, <2>2, <2>3 DEF TypeOK
    <2>b. NeverSpoke' BY <2>2 DEF NeverSpoke
    <2>c. ClosedIsEmpty' BY <1>5, <2>1 DEF ClosedIsEmpty
    <2>d. Roles' BY <2>2, <2>3, <2>5, <2>6 DEF Roles
    <2>e. YieldIsLast'
      <3>1. \A i \in 1 .. Len(inbox'["core"]) :
              Yields(duty'["core"], inbox'["core"][i]) => i = Len(inbox'["core"])
          BY <1>4, <2>2, <2>3, <2>5
      <3>2. \A i \in 1 .. Len(inbox'["client"]) : FALSE
          BY <2>3
      <3> QED BY <3>1, <3>2 DEF YieldIsLast, Peer
    <2>f. SenderClear'
      <3> SUFFICES ASSUME ~m.last
                   PROVE  \A i \in 1 .. Len(Append(q, m)) : ~Yields("awaiting", Append(q, m)[i])
          BY <2>2, <2>3 DEF SenderClear, Yielded, Peer, Other
      <3> QED BY <1>4, <2>5, <2>6, <2>7
    <2>g. HalfDuplex' BY <2>3 DEF HalfDuplex, Peer
    <2>h. Serving' BY <2>2, <2>3 DEF Serving
    <2>i. Awaiting' BY <1>1, <2>2, <2>3, <2>5, <2>6 DEF Awaiting
    <2>j. Served'
      <3>1. CASE m.last
        <4>1. IsLastPiece(inbox'["core"][Len(q) + 1]) /\ Len(q) + 1 \in 1 .. Len(inbox'["core"])
            BY <3>1, <2>3, <2>4, <2>6
        <4> QED BY <4>1 DEF Served
      <3>2. CASE ~m.last BY <3>2, <2>2 DEF Served
      <3> QED BY <3>1, <3>2
    <2>k. TurnKept'
      <3> SUFFICES ASSUME m.last PROVE Yielded("core")'
          BY <2>2 DEF TurnKept
      <3>1. Yields(duty'["core"], inbox'["core"][Len(q) + 1])
          BY <2>2, <2>3, <2>4, <2>6, <2>7
      <3> QED BY <3>1, <2>3, <2>4 DEF Yielded
    <2> QED BY <2>a, <2>b, <2>c, <2>d, <2>e, <2>f, <2>g, <2>h, <2>i, <2>j, <2>k DEF Inv
  <1>7. CASE "core" \notin open
    <2>1. /\ inbox' = inbox /\ inbox["core"] = <<>> /\ state' = state
          /\ duty'["client"] = "none" /\ duty'["core"] = "awaiting"
          /\ duty' \in [Peer -> {"none", "asked", "awaiting", "replying"}]
          BY <1>1, <1>2, <1>7
          DEF Inv, TypeOK, ClosedIsEmpty, SendPiece, Deliver, Peer, Other
    <2>2. open # Peer BY <1>7 DEF Peer
    <2>a. TypeOK' BY <1>5, <2>1 DEF Inv, TypeOK
    <2>b. NeverSpoke' /\ ClosedIsEmpty' /\ HalfDuplex'
          BY <1>2, <1>5, <2>1 DEF Inv, NeverSpoke, ClosedIsEmpty, HalfDuplex
    <2>c. Roles' /\ Awaiting' BY <1>2, <2>1 DEF Inv, Roles, Awaiting
    <2>d. YieldIsLast' BY <1>3, <2>1 DEF YieldIsLast, Peer
    <2>e. SenderClear' BY <1>2, <1>3, <2>1 DEF SenderClear, Yielded, Peer, Other
    <2>f. Serving' BY <1>3, <2>1 DEF Serving
    <2>g. Served' /\ TurnKept' BY <1>5, <2>2 DEF Served, TurnKept
    <2> QED BY <2>a, <2>b, <2>c, <2>d, <2>e, <2>f, <2>g DEF Inv
  <1> QED BY <1>6, <1>7

LEMMA CoreBeginsReceive ==
  ASSUME Inv, "core" \in open, BeginReceive("core")
  PROVE  Inv'
  <1>1. /\ state["core"] = "INITIAL" /\ state'["core"] = "R"
        /\ state'["client"] = state["client"]
        /\ inbox' = inbox /\ duty' = duty /\ open' = open
        BY DEF Inv, TypeOK, BeginReceive, Peer
  <1>2. TypeOK' BY <1>1 DEF Inv, TypeOK, BeginReceive
  <1>3. NeverSpoke' /\ ClosedIsEmpty' /\ Roles' /\ HalfDuplex' /\ Serving' /\ Served'
        BY <1>1 DEF Inv, NeverSpoke, ClosedIsEmpty, Roles, HalfDuplex, Serving, Served
  <1>4. YieldIsLast' /\ Awaiting' BY <1>1 DEF Inv, YieldIsLast, Awaiting
  <1>5. Yielded("client")' <=> Yielded("client") BY <1>1 DEF Yielded
  <1>6. Yielded("core")' <=> Yielded("core") BY <1>1 DEF Yielded
  <1>7. SenderClear' BY <1>1, <1>5, <1>6 DEF Inv, SenderClear, Peer, Other
  <1>8. TurnKept' BY <1>1, <1>5, <1>6 DEF Inv, TurnKept
  <1> QED BY <1>2, <1>3, <1>4, <1>7, <1>8 DEF Inv

LEMMA PeerCloses ==
  ASSUME Inv, NEW p \in Peer, p \in open, Close(p)
  PROVE  Inv'
  <1>1. /\ state' = state /\ duty' = duty /\ open' = open \ {p} /\ open' # Peer
        /\ \A e \in Peer : inbox'[e] = inbox[e] \/ inbox'[e] = <<>>
        /\ inbox'[p] = <<>>
        /\ inbox' \in [Peer -> Seq(Message)]
        BY EmptySeq DEF Inv, TypeOK, Close
  <1>2. \A e \in Peer : \A i \in 1 .. Len(inbox'[e]) :
          i \in 1 .. Len(inbox[e]) /\ inbox'[e] = inbox[e]
        BY <1>1
  <1>3. \A e \in Peer : Yielded(e)' => Yielded(e)
        BY <1>1, <1>2 DEF Yielded
  <1>4. "client" \in Peer /\ "core" \in Peer BY DEF Peer
  <1>a. TypeOK' BY <1>1 DEF Inv, TypeOK
  <1>b. NeverSpoke' BY <1>1, <1>4 DEF Inv, NeverSpoke
  <1>c. ClosedIsEmpty' BY <1>1 DEF Inv, ClosedIsEmpty
  <1>d. Roles' BY <1>1, <1>2, <1>4 DEF Inv, Roles
  <1>e. YieldIsLast' BY <1>1, <1>2 DEF Inv, YieldIsLast
  <1>f. SenderClear'
        BY <1>1, <1>3 DEF Inv, SenderClear, Peer, Other
  <1>g. HalfDuplex' BY <1>1 DEF HalfDuplex
  <1>h. Serving' BY <1>1, <1>2, <1>4 DEF Inv, Serving
  <1>i. Awaiting' BY <1>1, <1>2, <1>4 DEF Inv, Awaiting
  <1>j. Served' /\ TurnKept' BY <1>1 DEF Served, TurnKept
  <1> QED BY <1>a, <1>b, <1>c, <1>d, <1>e, <1>f, <1>g, <1>h, <1>i, <1>j DEF Inv

(* Every step of either end keeps the invariant. *)
LEMMA NextInv ==
  ASSUME Inv, [Next]_vars
  PROVE  Inv'
  <1>1. CASE UNCHANGED vars
    <2>1. state' = state /\ inbox' = inbox /\ duty' = duty /\ open' = open
        BY <1>1 DEF vars
    <2> QED BY <2>1 DEF Inv, TypeOK, NeverSpoke, ClosedIsEmpty, Roles, YieldIsLast, SenderClear,
               HalfDuplex, Serving, Awaiting, Served, TurnKept, Yielded
  <1>2. CASE Next
    <2> SUFFICES ASSUME NEW p \in Peer, PeerNext(p) PROVE Inv'
        BY <1>2 DEF Next
    <2>0. p \in open BY DEF PeerNext
    <2>1. CASE Speak(p)
        BY <2>0, <2>1, ClientSpeaks, CoreSpeaks DEF Peer
    <2>2. CASE Listen(p)
        BY <2>0, <2>2, ClientListens, CoreListens DEF Peer
    <2>3. CASE p = "core" /\ BeginReceive(p)
        BY <2>0, <2>3, CoreBeginsReceive
    <2>4. CASE Ask(p)
        BY <2>0, <2>4, CoreAsks DEF Ask
    <2>5. CASE ReceivePiece(p)
      <3>1. p = "core" BY <2>5 DEF Inv, Roles, ReceivePiece, Peer
      <3> QED BY <2>0, <2>5, <3>1, CoreReceivesPiece
    <2>6. CASE BeginReply(p)
      <3>1. p = "client" BY <2>6 DEF Inv, Roles, BeginReply, Peer
      <3> QED BY <2>0, <2>6, <3>1, ClientBeginsReply
    <2>7. CASE Answer(p)
      <3>1. p = "client" BY <2>7 DEF Inv, Roles, Answer, SendPiece, Peer
      <3> QED BY <2>0, <2>7, <3>1, ClientSendsPiece
    <2>8. CASE Close(p)
        BY <2>0, <2>8, PeerCloses
    <2> QED BY <2>1, <2>2, <2>3, <2>4, <2>5, <2>6, <2>7, <2>8 DEF PeerNext
  <1> QED BY <1>1, <1>2
------------------------------------------------------------------------------
(* The invariant holds in every reachable state of the link. *)
THEOREM InvHolds == Spec => []Inv
  <1>1. Init => Inv BY InitInv
  <1>2. Inv /\ [Next]_vars => Inv' BY NextInv
  <1> QED BY <1>1, <1>2, PTL DEF Spec

(* The link keeps its state within its types. *)
THEOREM TypeOKHolds == Spec => []TypeOK
  <1>1. Inv => TypeOK BY DEF Inv
  <1> QED BY <1>1, InvHolds, PTL

(* libuade and uadecore never hold the right to send at the same time. *)
THEOREM OneSenderHolds == Spec => []OneSender
  <1>1. Inv => OneSender BY DEF Inv, SenderClear, OneSender, Peer, Other
  <1> QED BY <1>1, InvHolds, PTL

(* Messages never travel in both directions at once: two ends that block in  *)
(* a write cannot be waiting for each other.                                 *)
THEOREM HalfDuplexHolds == Spec => []HalfDuplex
  <1>1. Inv => HalfDuplex BY DEF Inv
  <1> QED BY <1>1, InvHolds, PTL

(* An end that may send has received all that was sent to it. *)
THEOREM SenderHasReadAllHolds == Spec => []SenderHasReadAll
  <1>1. Inv => SenderHasReadAll BY DEF Inv, SenderClear, SenderHasReadAll
  <1> QED BY <1>1, InvHolds, PTL

(* The link carries one conversation, in one direction at a time. *)
THEOREM OneDirectionHolds == Spec => []OneDirection
  <1>1. OneSender /\ HalfDuplex /\ SenderHasReadAll => OneDirection
        BY DEF OneDirection
  <1> QED BY <1>1, OneSenderHolds, HalfDuplexHolds, SenderHasReadAllHolds, PTL

(* Neither a token nor a file request leaves both ends waiting. *)
THEOREM TurnNotLostHolds == Spec => []TurnNotLost
  <1>1. Inv => TurnNotLost
    <2> SUFFICES ASSUME Inv, open = Peer, \A p \in Peer : state[p] = "R",
                        inbox["client"] = <<>>, inbox["core"] = <<>>
                 PROVE  duty["client"] = "asked"
        BY DEF TurnNotLost, Peer
    <2>1. ~Yielded("client") /\ ~Yielded("core") BY DEF Yielded
    <2>2. state["client"] = "R" /\ state["core"] = "R" BY DEF Peer
    <2> QED BY <2>1, <2>2 DEF Inv, TurnKept
  <1> QED BY <1>1, InvHolds, PTL

(* While uadecore waits for a file it is sent nothing but the file. *)
THEOREM OnlyPiecesAwaitedHolds == Spec => []OnlyPiecesAwaited
  <1>1. Inv => OnlyPiecesAwaited
        BY DEF Inv, Awaiting, Roles, OnlyPiecesAwaited, Peer
  <1> QED BY <1>1, InvHolds, PTL
===============================================================================
