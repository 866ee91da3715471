----------------------------- MODULE PlayerProofs ----------------------------
(***************************************************************************)
(* What plays a song, for every subsong range, block size, read size and     *)
(* seek, every timer width and every program of the processor.               *)
(*                                                                         *)
(* UadePlayback: the positions that uadelib.c keeps agree with those of        *)
(* uadecore whatever is read, sought or skipped, seeks are exact, and the      *)
(* application is told of every end.  CiaTimers: no timer misses its           *)
(* underflow.  CiaTod: a time that is read or set byte by byte is one time.    *)
(* Cpu68k: no interrupt is forgotten, and every exception returns to what it    *)
(* found.                                                                    *)
(***************************************************************************)
EXTENDS UadePlayback, SequenceTheorems, WellFoundedInduction, TLAPS
------------------------------------------------------------------------------
(* The invariant of UadePlayback *)

Ops == {"none", "play", "read", "messages"}
Phases == {"INITIALIZED", "RECEIVE", "SONG_END_PENDING", "WAIT", "INVALID", "ABORTED"}
Subsong == [min : Subsongs, cur : Subsongs, def : Subsongs, max : Subsongs]
Frame == [sub : Subsongs \cup {-1}, pos : Nat]
Letter ==
  [type : {"TOKEN", "MSG", "SUBSONG_INFO"}] \cup [type : {"DATA"}, data : Seq(Frame)]
    \cup [type : {"SONG_END"}, tail : 0 .. Block - 1, happy : BOOLEAN]

TypedSong ==
  /\ subsongs \in Subsong /\ playing \in Subsong
  /\ subsongbytes \in Nat /\ songbytes \in Nat /\ position \in Nat
  /\ endevent \in [tail : 0 .. Block - 1, happy : BOOLEAN, stopnow : BOOLEAN]
TypedSeek ==
  /\ seekmode \in Modes /\ seeksubsongoffs \in Nat /\ seeksongoffs \in Nat
  /\ trigger \in [mode : Modes, subsong : Subsongs \cup {-1}, offs : Nat]
  /\ trigger.mode = "subsong" => trigger.subsong \in Subsongs
  /\ nextsubsongtrigger \in BOOLEAN /\ recordsongtime \in BOOLEAN
TypedCall ==
  /\ phase \in Phases /\ reading \in BOOLEAN /\ over \in BOOLEAN
  /\ call \in [op : Ops, bytes : Nat, copied : Nat] /\ call.copied <= call.bytes
  /\ readstash \in Seq(Frame) /\ Len(readstash) <= Block
  /\ Len(notifications) \in Nat
  /\ inbox \in Seq(Letter)
  /\ wanted \in Subsongs \cup {-1}
Typed == TypedSong /\ TypedSeek /\ TypedCall

(* What uadecore says after the range of subsongs, which is the first it says *)
(* of a song.                                                                *)
Starting == call.op = "play" /\ phase = "RECEIVE"
Letters == IF Starting THEN Tail(inbox) ELSE inbox

(* The first n frames of a block continue what has been counted. *)
Fits(data, n) ==
  /\ data \in Seq(Frame) /\ Len(data) = Block
  /\ \A i \in 1 .. n : data[i] = [sub |-> playing.cur, pos |-> subsongbytes + i]

TokenNext(w) == w # <<>> /\ Head(w).type = "TOKEN" /\ Tail(w) = <<>>
DataNext(w, n) ==
  w # <<>> /\ Head(w).type = "DATA" /\ Fits(Head(w).data, n) /\ TokenNext(Tail(w))
BlockNext(w, n) ==
  \/ DataNext(w, n)
  \/ w # <<>> /\ Head(w).type = "MSG" /\ DataNext(Tail(w), n)
EndNext(w) ==
  /\ w # <<>> /\ Head(w).type = "SONG_END"
  /\ BlockNext(Tail(w), Head(w).tail)
  /\ lastend.sub = playing.cur /\ lastend.pos = subsongbytes + Head(w).tail

(* A request that uadecore has not answered yet. *)
Asked == reading /\ Letters = <<>> /\ position = subsongbytes /\ phase = "RECEIVE"
(* Its answer is on its way; of a subsong that ends, perhaps not the end. *)
Answered ==
  /\ ~reading /\ position = subsongbytes + Block
  /\ \/ phase = "RECEIVE" /\ (BlockNext(Letters, Block) \/ EndNext(Letters))
     \/ /\ phase = "SONG_END_PENDING" /\ call.op = "messages"
        /\ BlockNext(Letters, endevent.tail)
        /\ lastend.sub = playing.cur /\ lastend.pos = subsongbytes + endevent.tail
(* The block has been counted, the turn is on its way. *)
Delivered ==
  /\ ~reading /\ TokenNext(Letters)
  /\ \/ phase = "RECEIVE" /\ (position = subsongbytes \/ nextsubsongtrigger)
     \/ /\ phase \in {"SONG_END_PENDING", "WAIT"} /\ call.op # "messages"
        /\ lastend.sub = playing.cur /\ lastend.pos = subsongbytes

Conversation ==
  /\ phase = "INITIALIZED" =>
       call.op = "play" /\ inbox = <<>> /\ ~reading /\ subsongbytes = 0 /\ songbytes = 0
         /\ position = 0
  /\ Starting => inbox # <<>> /\ Head(inbox).type = "SUBSONG_INFO"
  /\ call.op = "play" => phase \in {"INITIALIZED", "RECEIVE"}
  /\ Playing /\ phase # "INITIALIZED" => Asked \/ Answered \/ Delivered
  /\ ~Playing => call.op = "none" /\ ~reading

Counting ==
  /\ call.op # "play" /\ Playing => subsongs.cur = playing.cur
  /\ call.op = "play" => ~nextsubsongtrigger
  /\ nextsubsongtrigger => subsongs.cur < subsongs.max
  /\ call.op \in {"play", "messages"} => readstash = <<>>
  /\ phase = "RECEIVE" /\ readstash # <<>> => seekmode = "none"

IInv == Typed /\ Conversation /\ Counting /\ PositionsAgree
------------------------------------------------------------------------------
(* Sequences as they are put together and taken apart again. *)
LEMMA ConsProperties ==
  ASSUME NEW S, NEW x \in S, NEW s \in Seq(S)
  PROVE  /\ <<x>> \o s \in Seq(S) /\ <<x>> \o s # <<>>
         /\ Head(<<x>> \o s) = x /\ Tail(<<x>> \o s) = s
  <1>1. <<x>> \in Seq(S) /\ Len(<<x>>) = 1 /\ <<x>>[1] = x OBVIOUS
  <1>2. Len(s) \in Nat BY LenProperties
  <1> DEFINE c == <<x>> \o s
  <1>3. /\ c \in Seq(S) /\ Len(c) = 1 + Len(s)
        /\ \A i \in 1 .. 1 + Len(s) : c[i] = IF i <= 1 THEN <<x>>[i] ELSE s[i - 1]
        BY <1>1, <1>2, ConcatProperties
  <1> HIDE DEF c
  <1>4. c # <<>> BY <1>2, <1>3, EmptySeq
  <1>5. Head(c) = c[1] /\ Tail(c) \in Seq(S) /\ Len(Tail(c)) = Len(c) - 1
        /\ \A i \in 1 .. Len(Tail(c)) : Tail(c)[i] = c[i + 1]
        BY <1>3, <1>4, HeadTailProperties
  <1>6. Head(c) = x BY <1>1, <1>2, <1>3, <1>5
  <1>7. \A i \in 1 .. Len(s) : Tail(c)[i] = s[i] BY <1>2, <1>3, <1>5
  <1>8. Tail(c) = s BY <1>2, <1>3, <1>5, <1>7, SeqEqual
  <1>9. QED BY <1>3, <1>4, <1>6, <1>8 DEF c

LEMMA TailOfSeq ==
  ASSUME NEW S, NEW s \in Seq(S), s # <<>>
  PROVE  Head(s) \in S /\ Tail(s) \in Seq(S) /\ Len(s) \in Nat \ {0} /\ Len(Tail(s)) = Len(s) - 1
  BY HeadTailProperties, EmptySeq, LenProperties

LEMMA SubSeqFacts ==
  ASSUME NEW S, NEW s \in Seq(S), NEW m \in Nat, NEW n \in Nat, m >= 1, m <= n + 1, n <= Len(s)
  PROVE  /\ SubSeq(s, m, n) \in Seq(S) /\ Len(SubSeq(s, m, n)) = n - m + 1
         /\ \A i \in 1 .. n - m + 1 : SubSeq(s, m, n)[i] = s[m + i - 1]
  OBVIOUS
------------------------------------------------------------------------------
LEMMA InitIInv == ASSUME PlaybackAssumption, Init PROVE IInv
  <1>0. MaxSubsong \in Nat /\ Block \in Nat \ {0} BY DEF PlaybackAssumption
  <1>1. PICK range \in Ranges : wanted \in {-1} \cup range.min .. range.max /\ playing = range
        BY DEF Init
  <1>2. playing \in Subsong /\ wanted \in Subsongs \cup {-1}
    <2>1. range \in Subsong BY DEF Ranges, Subsong
    <2>2. range.min \in Subsongs /\ range.max \in Subsongs BY <2>1 DEF Subsong
    <2> QED BY <1>0, <1>1, <2>1, <2>2 DEF Subsongs
  <1>3. /\ trigger \in [mode : Modes, subsong : Subsongs \cup {-1}, offs : Nat]
        /\ trigger.mode = "subsong" => trigger.subsong \in Subsongs
        BY <1>2 DEF Init, NoSeek, Modes
  <1>4. /\ subsongs \in Subsong
        /\ endevent \in [tail : 0 .. Block - 1, happy : BOOLEAN, stopnow : BOOLEAN]
        /\ call \in [op : Ops, bytes : Nat, copied : Nat] /\ call.copied <= call.bytes
        BY <1>0 DEF Init, NoEnd, Idle, Ops, Subsong, Subsongs
  <1>5. Typed
    <2>1. /\ readstash = <<>> /\ notifications = <<>> /\ inbox = <<>>
          /\ subsongbytes = 0 /\ songbytes = 0 /\ position = 0
          /\ seekmode = "none" /\ seeksubsongoffs = 0 /\ seeksongoffs = 0
          /\ phase = "INITIALIZED" /\ nextsubsongtrigger = FALSE /\ recordsongtime = TRUE
          /\ reading = FALSE /\ over = FALSE
          BY DEF Init
    <2>2. <<>> \in Seq(Frame) /\ <<>> \in Seq(Letter) /\ Len(<<>>) = 0 OBVIOUS
    <2>3. /\ nextsubsongtrigger \in BOOLEAN /\ recordsongtime \in BOOLEAN
          /\ reading \in BOOLEAN /\ over \in BOOLEAN
          BY <2>1
    <2>4. readstash \in Seq(Frame) /\ inbox \in Seq(Letter) BY <2>1, <2>2
    <2>5. Len(readstash) <= Block /\ Len(notifications) \in Nat BY <1>0, <2>1, <2>2
    <2>6. phase \in Phases /\ seekmode \in Modes BY <2>1 DEF Phases, Modes
    <2>7. /\ subsongbytes \in Nat /\ songbytes \in Nat /\ position \in Nat
          /\ seeksubsongoffs \in Nat /\ seeksongoffs \in Nat
          BY <2>1
    <2> QED BY <1>2, <1>3, <1>4, <2>3, <2>4, <2>5, <2>6, <2>7, Zenon DEF Typed, TypedSong, TypedSeek, TypedCall
  <1>6. Conversation BY DEF Init, Conversation, Starting, Playing, Idle
  <1>7. Counting /\ PositionsAgree BY DEF Init, Counting, PositionsAgree, Idle
  <1>8. QED BY <1>5, <1>6, <1>7 DEF IInv
------------------------------------------------------------------------------
(* The turn. *)
Counted == nextsubsongtrigger => subsongs.cur < subsongs.max

LEMMA SubsongSet ==
  ASSUME PlaybackAssumption, TypedSong, TypedSeek, Counted, set_subsong,
         nextsubsongtrigger \/ trigger.mode # "none"
  PROVE  /\ TypedSong' /\ TypedSeek' /\ ~nextsubsongtrigger'
         /\ position = subsongbytes \/ nextsubsongtrigger => position' = subsongbytes'
         /\ subsongs.cur = playing.cur => subsongs'.cur = playing'.cur
         /\ SeekAhead => SeekAhead'
  <1>0. MaxSubsong \in Nat /\ Block \in Nat \ {0} BY DEF PlaybackAssumption
  <1> DEFINE new == IF nextsubsongtrigger THEN subsongs.cur + 1
                    ELSE IF trigger.mode = "subsong" THEN trigger.subsong ELSE subsongs.def
             starts == nextsubsongtrigger \/ Restarts
  <1>1. new \in Subsongs
        BY <1>0 DEF TypedSong, TypedSeek, Counted, Subsong, Subsongs
  <1>2. /\ IF nextsubsongtrigger THEN SubsongTrigger ELSE SeekTrigger
        /\ IF starts THEN StartSubsong(new)
           ELSE UNCHANGED <<subsongbytes, endevent, subsongs, playing, position>>
        BY DEF set_subsong
  <1> HIDE DEF new
  <1>3. TypedSeek' /\ songbytes' \in Nat /\ nextsubsongtrigger' = FALSE
    <2>1. CASE nextsubsongtrigger
          BY <1>2, <2>1 DEF SubsongTrigger, TypedSeek, TypedSong, Modes
    <2>2. CASE ~nextsubsongtrigger
      <3>1. SeekTrigger BY <1>2, <2>2
      <3>2. trigger' = NoSeek /\ seekmode' \in Modes /\ UNCHANGED <<nextsubsongtrigger, recordsongtime>>
            BY <3>1 DEF SeekTrigger, TypedSeek
      <3>3. seeksubsongoffs' \in Nat /\ seeksongoffs' \in Nat /\ songbytes' \in Nat
            BY <3>1 DEF SeekTrigger, TypedSeek, TypedSong
      <3>4. trigger' \in [mode : Modes, subsong : Subsongs \cup {-1}, offs : Nat]
            /\ trigger'.mode = "none"
            BY <3>2 DEF NoSeek, Modes
      <3>5. QED BY <2>2, <3>2, <3>3, <3>4 DEF TypedSeek
    <2>3. QED BY <2>1, <2>2
  <1>4. /\ subsongs' \in Subsong /\ playing' \in Subsong
        /\ subsongbytes' \in Nat /\ position' \in Nat
        /\ endevent' \in [tail : 0 .. Block - 1, happy : BOOLEAN, stopnow : BOOLEAN]
    <2>1. CASE starts
      <3>1. /\ subsongbytes' = 0 /\ endevent' = NoEnd /\ position' = 0
            /\ subsongs' = [subsongs EXCEPT !.cur = new]
            /\ playing' = [playing EXCEPT !.cur = new]
            BY <1>2, <2>1 DEF StartSubsong
      <3>2. subsongs' \in Subsong /\ playing' \in Subsong BY <1>1, <3>1 DEF TypedSong, Subsong
      <3>3. endevent' \in [tail : 0 .. Block - 1, happy : BOOLEAN, stopnow : BOOLEAN]
            BY <1>0, <3>1 DEF NoEnd
      <3>4. QED BY <3>1, <3>2, <3>3
    <2>2. CASE ~starts BY <1>2, <2>2 DEF TypedSong
    <2>3. QED BY <2>1, <2>2
  <1>5. TypedSong' BY <1>3, <1>4 DEF TypedSong
  <1>6. position = subsongbytes \/ nextsubsongtrigger => position' = subsongbytes'
        BY <1>2 DEF StartSubsong
  <1>7. subsongs.cur = playing.cur => subsongs'.cur = playing'.cur
        BY <1>2 DEF StartSubsong, TypedSong, Subsong
  <1>8. ASSUME SeekAhead PROVE SeekAhead'
    <2>1. CASE nextsubsongtrigger
          BY <1>2, <1>8, <2>1 DEF SubsongTrigger, SeekAhead
    <2>2. CASE ~nextsubsongtrigger
      <3>1. SeekTrigger BY <1>2, <2>2
      <3>2. subsongbytes' = IF Restarts THEN 0 ELSE subsongbytes
            BY <1>2, <2>2 DEF StartSubsong
      <3>3. QED BY <3>1, <3>2 DEF SeekTrigger, SeekAhead, Restarts, TypedSeek, TypedSong
    <2>3. QED BY <2>1, <2>2
  <1>9. QED BY <1>3, <1>5, <1>6, <1>7, <1>8

LEMMA TurnTaken ==
  ASSUME PlaybackAssumption, TypedSong, TypedSeek, Counted, TakeTurn
  PROVE  /\ TypedSong' /\ TypedSeek' /\ reading' = TRUE /\ ~nextsubsongtrigger'
         /\ position = subsongbytes \/ nextsubsongtrigger => position' = subsongbytes'
         /\ subsongs.cur = playing.cur => subsongs'.cur = playing'.cur
         /\ SeekAhead => SeekAhead'
  <1>1. CASE nextsubsongtrigger \/ trigger.mode # "none"
        BY <1>1, SubsongSet DEF TakeTurn
  <1>2. CASE ~(nextsubsongtrigger \/ trigger.mode # "none")
    <2>1. UNCHANGED <<subsongs, position_, endevent, seeking, triggers, playing, position>>
          /\ reading' = TRUE
          BY <1>2 DEF TakeTurn
    <2>2. TypedSong' BY <2>1 DEF TypedSong, position_
    <2>3. TypedSeek' BY <2>1 DEF TypedSeek, seeking, triggers
    <2>4. QED BY <1>2, <2>1, <2>2, <2>3 DEF SeekAhead, position_, seeking, triggers
  <1>3. QED BY <1>1, <1>2
------------------------------------------------------------------------------
(* The beginning. *)
LEMMA FirstRequestIInv == ASSUME PlaybackAssumption, IInv, FirstRequest PROVE IInv'
  <1>1. /\ phase = "INITIALIZED" /\ phase' = "RECEIVE" /\ TakeTurn
        /\ inbox' = <<[type |-> "SUBSONG_INFO"]>>
        /\ UNCHANGED <<readstash, notifications, call, app, history>>
        BY DEF FirstRequest
  <1>2. /\ call.op = "play" /\ readstash = <<>> /\ ~nextsubsongtrigger
        /\ subsongbytes = 0 /\ position = 0
        BY <1>1 DEF IInv, Conversation, Counting
  <1>3. TypedSong /\ TypedSeek /\ TypedCall /\ Counted
        BY <1>2 DEF IInv, Typed, Counted
  <1>4. /\ TypedSong' /\ TypedSeek' /\ reading' = TRUE /\ ~nextsubsongtrigger'
        /\ position' = subsongbytes'
        BY <1>1, <1>2, <1>3, TurnTaken
  <1>5. [type |-> "SUBSONG_INFO"] \in Letter BY DEF Letter
  <1>6. inbox' \in Seq(Letter) /\ inbox' # <<>> /\ Head(inbox') = [type |-> "SUBSONG_INFO"]
        /\ Tail(inbox') = <<>>
        BY <1>1, <1>5
  <1>7. TypedCall' BY <1>1, <1>3, <1>4, <1>6 DEF TypedCall, Phases, app
  <1>8. Typed' BY <1>4, <1>7 DEF Typed
  <1>9. Starting' /\ Asked' BY <1>1, <1>2, <1>4, <1>6 DEF Starting, Asked, Letters
  <1>10. Conversation' BY <1>1, <1>2, <1>6, <1>9 DEF Conversation, Playing
  <1>11. Counting' /\ PositionsAgree' BY <1>1, <1>2, <1>4 DEF Counting, PositionsAgree
  <1>12. QED BY <1>8, <1>10, <1>11 DEF IInv

LEMMA SubsongInfoIInv == ASSUME PlaybackAssumption, IInv, SubsongInfo PROVE IInv'
  <1>1. /\ call.op = "play" /\ inbox # <<>> /\ inbox' = Tail(inbox)
        /\ subsongs' = [playing EXCEPT !.def = playing.cur] /\ call' = Idle
        /\ UNCHANGED <<phase, position_, endevent, seeking, triggers, readstash, notifications,
                       playing, position, reading, app, history>>
        BY DEF SubsongInfo
  <1>2. TypedSong /\ TypedSeek /\ TypedCall BY DEF IInv, Typed
  <1>3. phase = "RECEIVE" /\ ~nextsubsongtrigger /\ readstash = <<>>
        BY <1>1 DEF IInv, Conversation, Counting
  <1>4. subsongs' \in Subsong /\ subsongs'.cur = playing.cur
        BY <1>1, <1>2 DEF TypedSong, Subsong
  <1>5. TypedSong' BY <1>1, <1>2, <1>4 DEF TypedSong, position_
  <1>6. TypedSeek' BY <1>1, <1>2 DEF TypedSeek, seeking, triggers
  <1>7. inbox' \in Seq(Letter) BY <1>1, <1>2, TailOfSeq DEF TypedCall
  <1>8. TypedCall' BY <1>1, <1>2, <1>7 DEF TypedCall, app, Idle, Ops
  <1>9. Letters = inbox' /\ Letters' = inbox' BY <1>1, <1>3 DEF Letters, Starting, Idle
  <1>10. Asked \/ Answered \/ Delivered
         BY <1>3 DEF IInv, Conversation, Playing
  <1>11. UNCHANGED <<Letters, playing, subsongbytes, lastend, position, reading, phase, nextsubsongtrigger>>
         BY <1>1, <1>9 DEF position_, triggers, history
  <1>12. Asked' \/ Answered' \/ Delivered'
    <2>1. CASE Asked BY <1>11, <2>1 DEF Asked
    <2>2. CASE Answered
          BY <1>3, <1>11, <2>2 DEF Answered, BlockNext, EndNext, DataNext, TokenNext, Fits
    <2>3. CASE Delivered BY <1>3, <1>11, <2>3 DEF Delivered, TokenNext
    <2>4. QED BY <1>10, <2>1, <2>2, <2>3
  <1>13. Conversation' BY <1>1, <1>3, <1>12 DEF Conversation, Starting, Playing, Idle
  <1>14. Counting' /\ PositionsAgree'
         BY <1>1, <1>3, <1>4, <1>11 DEF Counting, PositionsAgree, Idle
  <1>15. QED BY <1>5, <1>6, <1>8, <1>13, <1>14 DEF IInv, Typed
------------------------------------------------------------------------------
(* The application, and what uade_read() does without a message. *)
LEMMA Undisturbed ==
  ASSUME Asked \/ Answered \/ Delivered,
         UNCHANGED <<playing, subsongbytes, lastend, position, reading, inbox>>,
         call.op \notin {"play", "messages"}, call'.op \notin {"play", "messages"},
         \/ phase' = phase /\ (nextsubsongtrigger => nextsubsongtrigger')
         \/ phase = "SONG_END_PENDING" /\ phase' = "WAIT"
         \/ phase = "WAIT" /\ phase' = "RECEIVE" /\ nextsubsongtrigger'
  PROVE  Asked' \/ Answered' \/ Delivered'
  <1>1. Letters = inbox /\ Letters' = inbox /\ inbox' = inbox BY DEF Letters, Starting
  <1>2. CASE Asked BY <1>1, <1>2 DEF Asked
  <1>3. CASE Answered
        BY <1>1, <1>3 DEF Answered, BlockNext, EndNext, DataNext, TokenNext, Fits
  <1>4. CASE Delivered BY <1>1, <1>4 DEF Delivered, TokenNext
  <1>5. QED BY <1>2, <1>3, <1>4

LEMMA AppReadIInv == ASSUME PlaybackAssumption, IInv, AppRead PROVE IInv'
  <1>1. PICK bytes \in ReadSizes : call' = [op |-> "read", bytes |-> bytes, copied |-> 0]
        BY DEF AppRead
  <1>2. /\ call.op = "none" /\ Playing /\ notifications' = <<>>
        /\ UNCHANGED <<phase, subsongs, position_, endevent, seeking, triggers, readstash, core,
                       wanted, over, history>>
        BY DEF AppRead
  <1>3. bytes \in Nat BY DEF PlaybackAssumption
  <1>4. Typed'
    <2>1. TypedSong' /\ TypedSeek'
          BY <1>2 DEF IInv, Typed, TypedSong, TypedSeek, position_, seeking, triggers, core
    <2>2. TypedCall' BY <1>1, <1>2, <1>3 DEF IInv, Typed, TypedCall, core, Ops
    <2>3. QED BY <2>1, <2>2 DEF Typed
  <1>5. phase # "INITIALIZED" /\ (Asked \/ Answered \/ Delivered)
        BY <1>2 DEF IInv, Conversation
  <1>6. Asked' \/ Answered' \/ Delivered'
        BY <1>1, <1>2, <1>5, Undisturbed DEF position_, core, history, triggers
  <1>7. Conversation' BY <1>1, <1>2, <1>5, <1>6 DEF Conversation, Starting, Playing
  <1>8. Counting' BY <1>1, <1>2 DEF IInv, Counting, Playing, triggers, core, seeking
  <1>9. PositionsAgree' BY <1>2 DEF IInv, PositionsAgree, position_
  <1>10. QED BY <1>4, <1>7, <1>8, <1>9 DEF IInv

LEMMA CommandIInv ==
  ASSUME PlaybackAssumption, IInv, Command, TypedSeek',
         nextsubsongtrigger => nextsubsongtrigger',
         nextsubsongtrigger' => subsongs.cur < subsongs.max
  PROVE  IInv'
  <1>1. /\ call.op = "none" /\ Playing /\ over' = FALSE
        /\ UNCHANGED <<phase, subsongs, position_, endevent, seeking, readstash, notifications,
                       call, core, wanted, history>>
        BY DEF Command
  <1>2. Typed'
    <2>1. TypedSong' BY <1>1 DEF IInv, Typed, TypedSong, position_, core
    <2>2. TypedCall' BY <1>1 DEF IInv, Typed, TypedCall, core
    <2>3. QED BY <2>1, <2>2 DEF Typed
  <1>3. phase # "INITIALIZED" /\ (Asked \/ Answered \/ Delivered)
        BY <1>1 DEF IInv, Conversation
  <1>4. Asked' \/ Answered' \/ Delivered'
        BY <1>1, <1>3, Undisturbed DEF position_, core, history
  <1>5. Conversation' BY <1>1, <1>3, <1>4 DEF Conversation, Starting, Playing
  <1>6. Counting' BY <1>1 DEF IInv, Counting, Playing, core, seeking
  <1>7. PositionsAgree' BY <1>1 DEF IInv, PositionsAgree, position_
  <1>8. QED BY <1>2, <1>5, <1>6, <1>7 DEF IInv

LEMMA AppNextSubsongIInv == ASSUME PlaybackAssumption, IInv, AppNextSubsong PROVE IInv'
  <1>1. /\ Command /\ UNCHANGED trigger
        /\ nextsubsongtrigger' = (nextsubsongtrigger \/ CanGoOn)
        /\ recordsongtime' = (recordsongtime /\ (MoreSubsongs => ~OneSubsong /\ phase = "WAIT"))
        BY DEF AppNextSubsong, uade_next_subsong
  <1>2. UNCHANGED seeking BY <1>1 DEF Command
  <1>3. nextsubsongtrigger' \in BOOLEAN /\ recordsongtime' \in BOOLEAN BY <1>1, Zenon
  <1>4. TypedSeek' BY <1>1, <1>2, <1>3 DEF IInv, Typed, TypedSeek, seeking
  <1>5. nextsubsongtrigger => nextsubsongtrigger' BY <1>1
  <1>6. nextsubsongtrigger' => subsongs.cur < subsongs.max
        BY <1>1 DEF IInv, Counting, CanGoOn, MoreSubsongs
  <1>7. QED BY <1>1, <1>4, <1>5, <1>6, CommandIInv

(* Seeks only set a trigger. *)
LEMMA SeekIInv ==
  ASSUME PlaybackAssumption, IInv, Command,
         NEW offs \in Nat, NEW mode \in Modes, NEW subsong \in Subsongs,
         trigger' = [mode |-> mode, subsong |-> subsong, offs |-> offs],
         recordsongtime' \in BOOLEAN, UNCHANGED nextsubsongtrigger
  PROVE  IInv'
  <1>1. UNCHANGED seeking BY DEF Command
  <1>2. trigger' \in [mode : Modes, subsong : Subsongs \cup {-1}, offs : Nat]
        /\ trigger'.subsong \in Subsongs
        OBVIOUS
  <1>3. TypedSeek' BY <1>1, <1>2 DEF IInv, Typed, TypedSeek, seeking
  <1>4. nextsubsongtrigger' => subsongs.cur < subsongs.max BY DEF IInv, Counting
  <1>5. QED BY <1>3, <1>4, CommandIInv

LEMMA SeekPositionIInv ==
  ASSUME PlaybackAssumption, IInv, NEW samples \in Int, SeekPosition(samples) PROVE IInv'
  <1>1. /\ Command /\ UNCHANGED nextsubsongtrigger
        /\ trigger' = [mode |-> "subsong", subsong |-> subsongs.cur, offs |-> RelativeOffset(samples)]
        /\ recordsongtime' = (recordsongtime /\ RelativeOffset(samples) >= subsongbytes)
        BY DEF SeekPosition
  <1>2. RelativeOffset(samples) \in Nat
        BY DEF IInv, Typed, TypedSong, TypedSeek, RelativeOffset
  <1>3. subsongs.cur \in Subsongs /\ "subsong" \in Modes
        BY DEF IInv, Typed, TypedSong, Subsong, Modes
  <1>4. recordsongtime' \in BOOLEAN BY <1>1, Zenon
  <1>5. QED BY <1>1, <1>2, <1>3, <1>4, SeekIInv

LEMMA SeekSubsongIInv ==
  ASSUME PlaybackAssumption, IInv, NEW samples \in Offsets, NEW subsong \in 0 .. subsongs.max,
         SeekSubsong(samples, subsong)
  PROVE  IInv'
  <1>1. /\ Command /\ UNCHANGED nextsubsongtrigger
        /\ trigger' = [mode |-> "subsong", subsong |-> subsong, offs |-> samples]
        /\ recordsongtime' = FALSE
        BY DEF SeekSubsong
  <1>2. samples \in Nat /\ MaxSubsong \in Nat BY DEF PlaybackAssumption
  <1>3. subsong \in Subsongs /\ "subsong" \in Modes
        BY <1>2 DEF IInv, Typed, TypedSong, Subsong, Subsongs, Modes
  <1>4. recordsongtime' \in BOOLEAN BY <1>1
  <1>5. QED BY <1>1, <1>2, <1>3, <1>4, SeekIInv

LEMMA SeekSongIInv ==
  ASSUME PlaybackAssumption, IInv, NEW samples \in Offsets, SeekSong(samples) PROVE IInv'
  <1>1. /\ Command /\ UNCHANGED nextsubsongtrigger
        /\ trigger' = [mode |-> "song", subsong |-> 0, offs |-> samples]
        /\ recordsongtime' = (recordsongtime /\ samples >= songbytes)
        BY DEF SeekSong
  <1>2. samples \in Nat /\ MaxSubsong \in Nat BY DEF PlaybackAssumption
  <1>3. 0 \in Subsongs /\ "song" \in Modes BY <1>2 DEF Subsongs, Modes
  <1>4. recordsongtime' \in BOOLEAN BY <1>1, Zenon
  <1>5. QED BY <1>1, <1>2, <1>3, <1>4, SeekIInv

LEMMA AppStopIInv == ASSUME PlaybackAssumption, IInv, AppStop PROVE IInv'
  <1>1. /\ call.op = "none" /\ phase' = "INVALID"
        /\ readstash' = <<>> /\ notifications' = <<>> /\ inbox' = <<>> /\ reading' = FALSE
        /\ seekmode' = "none" /\ trigger' = NoSeek /\ nextsubsongtrigger' = FALSE
        /\ UNCHANGED <<subsongs, position_, endevent, seeksubsongoffs, seeksongoffs,
                       recordsongtime, call, playing, position, app>>
        BY DEF AppStop
  <1>2. TypedSong' BY <1>1 DEF IInv, Typed, TypedSong, position_
  <1>3. TypedSeek'
    <2>1. /\ trigger' \in [mode : Modes, subsong : Subsongs \cup {-1}, offs : Nat]
          /\ trigger'.mode = "none" /\ seekmode' \in Modes
          BY <1>1 DEF NoSeek, Modes
    <2>2. nextsubsongtrigger' \in BOOLEAN BY <1>1
    <2>3. QED BY <1>1, <2>1, <2>2 DEF IInv, Typed, TypedSeek
  <1>4. TypedCall'
    <2>1. <<>> \in Seq(Frame) /\ <<>> \in Seq(Letter) /\ Len(<<>>) = 0 OBVIOUS
    <2>2. Block \in Nat BY DEF PlaybackAssumption
    <2>3. readstash' \in Seq(Frame) /\ inbox' \in Seq(Letter) BY <1>1, <2>1
    <2>4. Len(readstash') <= Block /\ Len(notifications') \in Nat BY <1>1, <2>1, <2>2
    <2>5. phase' \in Phases /\ reading' \in BOOLEAN BY <1>1 DEF Phases
    <2>6. UNCHANGED <<call, over, wanted>> BY <1>1 DEF app
    <2>7. QED BY <2>3, <2>4, <2>5, <2>6 DEF IInv, Typed, TypedCall
  <1>5. Conversation' BY <1>1 DEF Conversation, Starting, Playing
  <1>6. Counting' /\ PositionsAgree' BY <1>1 DEF Counting, Playing, PositionsAgree
  <1>7. QED BY <1>2, <1>3, <1>4, <1>5, <1>6 DEF IInv, Typed

LEMMA AppIInv == ASSUME PlaybackAssumption, IInv, App PROVE IInv'
  <1>1. CASE AppRead \/ AppNextSubsong \/ AppStop
        BY <1>1, AppReadIInv, AppNextSubsongIInv, AppStopIInv
  <1>2. ASSUME NEW samples \in Offsets,
               \/ SeekPosition(samples) \/ SeekPosition(-samples) \/ SeekSong(samples)
               \/ \E subsong \in 0 .. subsongs.max : SeekSubsong(samples, subsong)
        PROVE  IInv'
    <2>1. samples \in Int /\ -samples \in Int BY DEF PlaybackAssumption
    <2>2. QED BY <1>2, <2>1, SeekPositionIInv, SeekSongIInv, SeekSubsongIInv
  <1>3. QED BY <1>1, <1>2 DEF App
------------------------------------------------------------------------------
(* uade_read() without a message. *)
LEMMA ReadStashIInv == ASSUME PlaybackAssumption, IInv, ReadStash PROVE IInv'
  <1> DEFINE n == Least(call.bytes - call.copied, Len(readstash))
  <1>1. /\ call.op = "read" /\ call.copied < call.bytes /\ readstash # <<>>
        /\ call' = [call EXCEPT !.copied = @ + n]
        /\ readstash' = SubSeq(readstash, n + 1, Len(readstash))
        /\ UNCHANGED <<phase, subsongs, position_, endevent, seeking, triggers, notifications,
                       core, app, history>>
        BY DEF ReadStash
  <1>2. TypedSong /\ TypedSeek /\ TypedCall BY DEF IInv, Typed
  <1>3. Len(readstash) \in Nat \ {0} BY <1>1, <1>2, TailOfSeq DEF TypedCall
  <1>4. n \in 1 .. Len(readstash) /\ n <= call.bytes - call.copied
        BY <1>1, <1>2, <1>3 DEF TypedCall, Least
  <1> HIDE DEF n
  <1>5. /\ readstash' \in Seq(Frame) /\ Len(readstash') = Len(readstash) - n
        /\ \A i \in 1 .. Len(readstash) - n : readstash'[i] = readstash[n + i]
    <2>1. n + 1 \in Nat /\ n + 1 >= 1 /\ n + 1 <= Len(readstash) + 1 BY <1>3, <1>4
    <2>2. /\ SubSeq(readstash, n + 1, Len(readstash)) \in Seq(Frame)
          /\ Len(SubSeq(readstash, n + 1, Len(readstash))) = Len(readstash) - (n + 1) + 1
          /\ \A i \in 1 .. Len(readstash) - (n + 1) + 1 :
               SubSeq(readstash, n + 1, Len(readstash))[i] = readstash[(n + 1) + i - 1]
          BY <1>2, <1>3, <2>1, SubSeqFacts DEF TypedCall
    <2>3. QED BY <1>1, <1>3, <1>4, <2>2
  <1>6. Typed'
    <2>1. TypedSong' /\ TypedSeek'
          BY <1>1, <1>2 DEF TypedSong, TypedSeek, position_, seeking, triggers, core
    <2>2. call' \in [op : Ops, bytes : Nat, copied : Nat] /\ call'.copied <= call'.bytes
          /\ call'.op = "read"
      <3>1. /\ call \in [op : Ops, bytes : Nat, copied : Nat] /\ call.op = "read"
            /\ call' = [call EXCEPT !.copied = call.copied + n]
            BY <1>1, <1>2 DEF TypedCall
      <3>2. call.copied \in Nat /\ call.bytes \in Nat /\ n \in Nat BY <1>3, <1>4, <3>1
      <3>3. call.copied + n \in Nat /\ call.copied + n <= call.bytes BY <1>4, <3>2
      <3>4. QED BY <3>1, <3>3
    <2>3. UNCHANGED <<phase, reading, over, notifications, inbox, wanted>>
          BY <1>1 DEF core, app
    <2>4. Len(readstash') <= Block
          BY <1>2, <1>3, <1>4, <1>5 DEF TypedCall, PlaybackAssumption
    <2>5. TypedCall' BY <1>2, <1>5, <2>2, <2>3, <2>4 DEF TypedCall
    <2>6. QED BY <2>1, <2>5 DEF Typed
  <1>7. call'.op = "read" BY <1>1, <1>2 DEF TypedCall
  <1>8. phase \notin {"INITIALIZED", "INVALID", "ABORTED"} /\ (Asked \/ Answered \/ Delivered)
        BY <1>1 DEF IInv, Conversation, Playing
  <1>9. Asked' \/ Answered' \/ Delivered'
        BY <1>1, <1>7, <1>8, Undisturbed DEF position_, core, history, triggers
  <1>10. Conversation' BY <1>1, <1>7, <1>8, <1>9 DEF Conversation, Starting, Playing
  <1>11. Counting'
    <2>1. readstash' # <<>> => readstash # <<>> BY <1>1
    <2>2. QED BY <1>1, <1>7, <2>1 DEF IInv, Counting, Playing, core, triggers, seeking
  <1>12. PositionsAgree'
    <2>1. SUFFICES ASSUME readstash' # <<>>
                   PROVE  readstash'[Len(readstash')] = [sub |-> subsongs.cur, pos |-> subsongbytes]
          BY <1>1 DEF PositionsAgree, position_
    <2>2. Len(readstash') \in Nat \ {0} BY <1>5, <2>1, TailOfSeq
    <2>3. readstash'[Len(readstash')] = readstash[Len(readstash)]
          BY <1>3, <1>4, <1>5, <2>2
    <2>4. QED BY <1>1, <2>3 DEF IInv, PositionsAgree
  <1>13. QED BY <1>6, <1>10, <1>11, <1>12 DEF IInv

LEMMA ReadReturnsIInv == ASSUME PlaybackAssumption, IInv, ReadReturns PROVE IInv'
  <1>1. /\ call.op = "read" /\ call' = Idle
        /\ UNCHANGED <<phase, subsongs, position_, endevent, seeking, triggers, readstash,
                       notifications, core, app, history>>
        BY DEF ReadReturns
  <1>2. Typed'
    <2>1. TypedSong' /\ TypedSeek'
          BY <1>1 DEF IInv, Typed, TypedSong, TypedSeek, position_, seeking, triggers, core
    <2>2. TypedCall' BY <1>1 DEF IInv, Typed, TypedCall, core, app, Idle, Ops
    <2>3. QED BY <2>1, <2>2 DEF Typed
  <1>3. phase \notin {"INITIALIZED", "INVALID", "ABORTED"} /\ (Asked \/ Answered \/ Delivered)
        BY <1>1 DEF IInv, Conversation, Playing
  <1>4. Asked' \/ Answered' \/ Delivered'
        BY <1>1, <1>3, Undisturbed DEF position_, core, history, triggers, Idle
  <1>5. Conversation' BY <1>1, <1>3, <1>4 DEF Conversation, Starting, Playing, Idle
  <1>6. Counting' BY <1>1, <1>3 DEF IInv, Counting, Playing, core, triggers, seeking, Idle
  <1>7. PositionsAgree' BY <1>1 DEF IInv, PositionsAgree, position_
  <1>8. QED BY <1>2, <1>5, <1>6, <1>7 DEF IInv

(* What a notification changes. *)
LEMMA NotifyTyped ==
  ASSUME NEW n, Notify(n), Len(notifications) \in Nat
  PROVE  Len(notifications') \in Nat
  BY DEF Notify

(* The end of a song, told or waited out; either may ask for the next subsong. *)
LEMMA EndIInv ==
  ASSUME PlaybackAssumption, IInv, Reading, call' \in {Idle, [call EXCEPT !.op = "read"]},
         endevent' \in [tail : 0 .. Block - 1, happy : BOOLEAN, stopnow : BOOLEAN],
         Len(notifications') \in Nat, over' \in BOOLEAN,
         nextsubsongtrigger' \in BOOLEAN, recordsongtime' \in BOOLEAN,
         nextsubsongtrigger => nextsubsongtrigger', nextsubsongtrigger' => nextsubsongtrigger \/ CanGoOn,
         UNCHANGED <<subsongs, position_, seeking, trigger, readstash, core, wanted, history>>,
         \/ phase \in {"SONG_END_PENDING", "WAIT"} /\ phase' = "WAIT"
         \/ phase = "WAIT" /\ phase' = "RECEIVE" /\ nextsubsongtrigger'
  PROVE  IInv'
  <1>1. call.op = "read" /\ readstash = <<>> BY DEF Reading
  <1>2. /\ call' \in [op : Ops, bytes : Nat, copied : Nat] /\ call'.copied <= call'.bytes
        /\ call'.op \in {"none", "read"}
    <2>1. CASE call' = Idle BY <2>1 DEF Idle, Ops
    <2>2. CASE call' = [call EXCEPT !.op = "read"] BY <2>2 DEF IInv, Typed, TypedCall, Ops
    <2>3. QED BY <2>1, <2>2
  <1>3. Typed'
    <2>1. TypedSong' BY DEF IInv, Typed, TypedSong, position_, core
    <2>2. TypedSeek' BY DEF IInv, Typed, TypedSeek, seeking
    <2>3. phase' \in Phases BY DEF Phases
    <2>4. UNCHANGED <<reading, readstash, inbox, wanted>> BY DEF core
    <2>5. TypedCall' BY <1>2, <2>3, <2>4 DEF IInv, Typed, TypedCall
    <2>6. QED BY <2>1, <2>2, <2>5 DEF Typed
  <1>4. Asked \/ Answered \/ Delivered BY DEF IInv, Conversation, Playing
  <1>5. Asked' \/ Answered' \/ Delivered'
        BY <1>1, <1>2, <1>4, Undisturbed DEF position_, core, history
  <1>6. Conversation' BY <1>2, <1>5 DEF Conversation, Starting, Playing
  <1>7. Counting' BY <1>1, <1>2 DEF IInv, Counting, Playing, core, CanGoOn, MoreSubsongs
  <1>8. PositionsAgree' BY <1>1 DEF PositionsAgree
  <1>9. QED BY <1>3, <1>6, <1>7, <1>8 DEF IInv

LEMMA EndPendingIInv == ASSUME PlaybackAssumption, IInv, EndPending PROVE IInv'
  <1>1. /\ Reading /\ phase = "SONG_END_PENDING" /\ phase' = "WAIT"
        /\ UNCHANGED <<subsongs, position_, endevent, seeking, trigger, readstash, core,
                       wanted, commands, extra, history>>
        /\ GiveEnd(endevent, "WAIT")
        BY DEF EndPending
  <1>2. Len(notifications') \in Nat
        BY <1>1, NotifyTyped DEF GiveEnd, IInv, Typed, TypedCall
  <1>3. call' \in {Idle, [call EXCEPT !.op = "read"]} /\ over' \in BOOLEAN
        BY <1>1 DEF GiveEnd, IInv, Typed, TypedCall
  <1>4. /\ nextsubsongtrigger' \in BOOLEAN /\ recordsongtime' \in BOOLEAN
        /\ nextsubsongtrigger => nextsubsongtrigger'
        /\ nextsubsongtrigger' => nextsubsongtrigger \/ CanGoOn
    <2>1. CASE endevent.stopnow
          BY <1>1, <2>1 DEF GiveEnd, IInv, Typed, TypedSeek
    <2>2. CASE ~endevent.stopnow
      <3>1. uade_next_subsong("WAIT") BY <1>1, <2>2 DEF GiveEnd
      <3>2. nextsubsongtrigger' = (nextsubsongtrigger \/ CanGoOn)
            /\ recordsongtime' = (recordsongtime /\ (MoreSubsongs => ~OneSubsong /\ "WAIT" = "WAIT"))
            BY <3>1 DEF uade_next_subsong
      <3>3. QED BY <3>2, Zenon
    <2>3. QED BY <2>1, <2>2
  <1>5. endevent' \in [tail : 0 .. Block - 1, happy : BOOLEAN, stopnow : BOOLEAN]
        BY <1>1 DEF IInv, Typed, TypedSong
  <1>6. QED BY <1>1, <1>2, <1>3, <1>4, <1>5, EndIInv

LEMMA WaitSubsongChangeIInv == ASSUME PlaybackAssumption, IInv, WaitSubsongChange PROVE IInv'
  <1>1. /\ Reading /\ phase = "WAIT"
        /\ UNCHANGED <<subsongs, position_, seeking, trigger, readstash, core, wanted, commands,
                       extra, history>>
        BY DEF WaitSubsongChange
  <1>2. CASE CanGoOn
    <2>1. /\ phase' = "RECEIVE" /\ uade_next_subsong("WAIT")
          /\ UNCHANGED <<endevent, notifications, call, over>>
          BY <1>2 DEF WaitSubsongChange
    <2>2. call' = [call EXCEPT !.op = "read"]
          BY <1>1, <2>1 DEF Reading, IInv, Typed, TypedCall
    <2>3. nextsubsongtrigger' = (nextsubsongtrigger \/ CanGoOn)
          /\ recordsongtime' = (recordsongtime /\ (MoreSubsongs => ~OneSubsong /\ "WAIT" = "WAIT"))
          BY <2>1 DEF uade_next_subsong
    <2>4. /\ nextsubsongtrigger' \in BOOLEAN /\ recordsongtime' \in BOOLEAN
          /\ nextsubsongtrigger => nextsubsongtrigger'
          /\ nextsubsongtrigger'
          BY <1>2, <2>3, Zenon
    <2>5. /\ endevent' \in [tail : 0 .. Block - 1, happy : BOOLEAN, stopnow : BOOLEAN]
          /\ Len(notifications') \in Nat /\ over' \in BOOLEAN
          BY <2>1 DEF IInv, Typed, TypedSong, TypedCall
    <2>6. QED BY <1>1, <1>2, <2>1, <2>2, <2>4, <2>5, EndIInv
  <1>3. CASE ~CanGoOn
    <2>1. /\ endevent' = EndEvent(0, TRUE, TRUE)
          /\ recordsongtime' = (recordsongtime /\ ~MoreSubsongs)
          /\ Notify([type |-> "end", sub |-> subsongs.cur, bytes |-> subsongbytes,
                     happy |-> TRUE])
          /\ call' = Idle /\ over' = TRUE
          /\ UNCHANGED <<phase, nextsubsongtrigger>>
          BY <1>3 DEF WaitSubsongChange
    <2>2. endevent' \in [tail : 0 .. Block - 1, happy : BOOLEAN, stopnow : BOOLEAN]
      <3>1. 0 \in 0 .. Block - 1 BY DEF PlaybackAssumption
      <3>2. (~TRUE \/ TRUE \/ LastSubsong) = TRUE OBVIOUS
      <3>3. QED BY <2>1, <3>1, <3>2 DEF EndEvent
    <2>3. Len(notifications') \in Nat /\ over' \in BOOLEAN
          BY <2>1, NotifyTyped DEF IInv, Typed, TypedCall
    <2>4. nextsubsongtrigger' \in BOOLEAN /\ recordsongtime' \in BOOLEAN
      <3>1. recordsongtime' \in BOOLEAN BY <2>1, Zenon
      <3>2. QED BY <2>1, <3>1 DEF IInv, Typed, TypedSeek
    <2>5. QED BY <1>1, <2>1, <2>2, <2>3, <2>4, EndIInv
  <1>4. QED BY <1>2, <1>3
------------------------------------------------------------------------------
(* The messages. *)
LEMMA ReceivingFacts ==
  ASSUME IInv, Receiving, inbox # <<>>
  PROVE  /\ call.op \in {"read", "messages"} /\ readstash = <<>> /\ Letters = inbox
         /\ Playing /\ phase # "INITIALIZED" /\ ~reading
         /\ Answered \/ Delivered
         /\ phase = "RECEIVE" \/ (phase = "SONG_END_PENDING" /\ call.op = "messages")
         /\ inbox' = Tail(inbox) => inbox' \in Seq(Letter)
  <1>1. call.op \in {"read", "messages"} BY DEF Receiving, Reading
  <1>2. readstash = <<>> BY <1>1 DEF IInv, Counting, Receiving, Reading
  <1>3. Letters = inbox BY <1>1 DEF Letters, Starting
  <1>4. Playing /\ phase # "INITIALIZED" BY <1>1 DEF IInv, Conversation
  <1>5. Asked \/ Answered \/ Delivered BY <1>4 DEF IInv, Conversation
  <1>6. ~Asked BY <1>3 DEF Asked
  <1>7. ~reading BY <1>5, <1>6 DEF Answered, Delivered
  <1>8. phase = "RECEIVE" \/ (phase = "SONG_END_PENDING" /\ call.op = "messages")
        BY <1>5, <1>6 DEF Receiving, Reading, Answered, Delivered
  <1>9. inbox' = Tail(inbox) => inbox' \in Seq(Letter)
        BY TailOfSeq DEF IInv, Typed, TypedCall
  <1>10. Answered \/ Delivered BY <1>5, <1>6
  <1>11. QED BY <1>1, <1>2, <1>3, <1>4, <1>7, <1>8, <1>9, <1>10

LEMMA ReceiveSongEndIInv == ASSUME PlaybackAssumption, IInv, ReceiveSongEnd PROVE IInv'
  <1>1. /\ Receiving /\ inbox # <<>> /\ Head(inbox).type = "SONG_END" /\ inbox' = Tail(inbox)
        /\ endevent' = EndEvent(Head(inbox).tail, Head(inbox).happy, FALSE)
        /\ phase' = "SONG_END_PENDING"
        /\ call' = [call EXCEPT !.op = "messages"]
        /\ UNCHANGED <<subsongs, position_, seeking, triggers, readstash, notifications, playing,
                       position, reading, app, history>>
        BY DEF ReceiveSongEnd, Receive, Message, KeepReceiving
  <1>2. /\ call.op \in {"read", "messages"} /\ readstash = <<>> /\ Letters = inbox
        /\ Playing /\ phase # "INITIALIZED" /\ ~reading
        /\ (Answered \/ Delivered) /\ inbox' \in Seq(Letter)
        BY <1>1, ReceivingFacts
  <1>3. /\ call' \in [op : Ops, bytes : Nat, copied : Nat] /\ call'.copied <= call'.bytes
        /\ call'.op = "messages"
        BY <1>1 DEF IInv, Typed, TypedCall, Ops
  <1>4. Head(inbox).tail \in 0 .. Block - 1 /\ Head(inbox).happy \in BOOLEAN
    <2>1. Head(inbox) \in Letter BY <1>1, TailOfSeq DEF IInv, Typed, TypedCall
    <2>2. QED BY <1>1, <2>1 DEF Letter
  <1>5. endevent' \in [tail : 0 .. Block - 1, happy : BOOLEAN, stopnow : BOOLEAN]
        /\ endevent'.tail = Head(inbox).tail
    <2>1. (~Head(inbox).happy \/ FALSE \/ LastSubsong) \in BOOLEAN OBVIOUS
    <2>2. QED BY <1>1, <1>4, <2>1 DEF EndEvent
  <1>6. Typed'
    <2>1. TypedSong' BY <1>1, <1>5 DEF IInv, Typed, TypedSong, position_
    <2>2. TypedSeek' BY <1>1 DEF IInv, Typed, TypedSeek, seeking, triggers
    <2>3. TypedCall' BY <1>1, <1>2, <1>3 DEF IInv, Typed, TypedCall, Phases, app
    <2>4. QED BY <2>1, <2>2, <2>3 DEF Typed
  <1>7. EndNext(inbox) /\ position = subsongbytes + Block
        BY <1>1, <1>2 DEF Answered, Delivered, BlockNext, DataNext, TokenNext
  <1>8. Answered'
    <2>1. Letters' = inbox' BY <1>3 DEF Letters, Starting
    <2>2. UNCHANGED <<playing, subsongbytes, lastend, position, reading>>
          BY <1>1 DEF position_, history
    <2>3. BlockNext(Tail(inbox), Head(inbox).tail)
          /\ lastend.sub = playing.cur /\ lastend.pos = subsongbytes + Head(inbox).tail
          BY <1>7 DEF EndNext
    <2>4. BlockNext(Letters, endevent.tail)'
          BY <1>1, <1>5, <2>1, <2>2, <2>3 DEF BlockNext, DataNext, TokenNext, Fits
    <2>5. ~reading' /\ position' = subsongbytes' + Block BY <1>2, <1>7, <2>2
    <2>6. lastend'.sub = playing'.cur /\ lastend'.pos = subsongbytes' + endevent'.tail
          BY <1>5, <2>2, <2>3
    <2>7. QED BY <1>1, <1>3, <2>4, <2>5, <2>6 DEF Answered
  <1>9. Conversation' BY <1>1, <1>3, <1>8 DEF Conversation, Starting, Playing
  <1>10. Counting' BY <1>1, <1>2, <1>3 DEF IInv, Counting, Playing, triggers, seeking
  <1>11. PositionsAgree' BY <1>1, <1>2 DEF PositionsAgree
  <1>12. QED BY <1>6, <1>9, <1>10, <1>11 DEF IInv

LEMMA ReceiveMessageIInv == ASSUME PlaybackAssumption, IInv, ReceiveMessage PROVE IInv'
  <1>1. /\ Receiving /\ inbox # <<>> /\ Head(inbox).type = "MSG" /\ inbox' = Tail(inbox)
        /\ UNCHANGED <<phase, subsongs, position_, endevent, seeking, triggers, readstash,
                       playing, position, reading, app, history>>
        BY DEF ReceiveMessage, Receive, Message
  <1>2. /\ call.op \in {"read", "messages"} /\ readstash = <<>> /\ Letters = inbox
        /\ Playing /\ phase # "INITIALIZED" /\ ~reading
        /\ (Answered \/ Delivered) /\ inbox' \in Seq(Letter)
        BY <1>1, ReceivingFacts
  <1>3. /\ call' = [call EXCEPT !.op = IF phase = "SONG_END_PENDING" THEN "messages" ELSE "read"]
        /\ Len(notifications') \in Nat
    <2>1. CASE phase = "SONG_END_PENDING"
          BY <2>1 DEF ReceiveMessage, KeepReceiving, IInv, Typed, TypedCall
    <2>2. CASE phase # "SONG_END_PENDING"
          BY <2>2, NotifyTyped DEF ReceiveMessage, Event, IInv, Typed, TypedCall
    <2>3. QED BY <2>1, <2>2
  <1>4. /\ call' \in [op : Ops, bytes : Nat, copied : Nat] /\ call'.copied <= call'.bytes
        /\ call'.op = IF phase = "SONG_END_PENDING" THEN "messages" ELSE "read"
        BY <1>3 DEF IInv, Typed, TypedCall, Ops
  <1>5. Typed'
    <2>1. TypedSong' /\ TypedSeek'
          BY <1>1 DEF IInv, Typed, TypedSong, TypedSeek, position_, seeking, triggers
    <2>2. TypedCall' BY <1>1, <1>2, <1>3, <1>4 DEF IInv, Typed, TypedCall, app
    <2>3. QED BY <2>1, <2>2 DEF Typed
  <1>6. Answered /\ ~EndNext(Letters)
        BY <1>1, <1>2 DEF Answered, Delivered, EndNext, TokenNext
  <1>7. Answered'
    <2>1. Letters' = inbox' BY <1>4 DEF Letters, Starting
    <2>2. UNCHANGED <<playing, subsongbytes, lastend, position, reading, phase, endevent>>
          BY <1>1 DEF position_, history
    <2>3. ASSUME NEW n, BlockNext(Letters, n) PROVE DataNext(Tail(inbox), n)
          BY <1>1, <1>2, <2>3 DEF BlockNext, DataNext
    <2>4. CASE phase = "RECEIVE"
      <3>1. DataNext(Tail(inbox), Block) BY <1>6, <2>3, <2>4 DEF Answered
      <3>2. BlockNext(Letters, Block)'
            BY <1>1, <2>1, <2>2, <3>1 DEF BlockNext, DataNext, TokenNext, Fits
      <3>3. QED BY <1>6, <2>2, <2>4, <3>2 DEF Answered
    <2>5. CASE phase # "RECEIVE"
      <3>1. /\ phase = "SONG_END_PENDING" /\ DataNext(Tail(inbox), endevent.tail)
            /\ lastend.sub = playing.cur /\ lastend.pos = subsongbytes + endevent.tail
            BY <1>6, <2>3, <2>5 DEF Answered
      <3>2. BlockNext(Letters, endevent.tail)'
            BY <1>1, <2>1, <2>2, <3>1 DEF BlockNext, DataNext, TokenNext, Fits
      <3>3. QED BY <1>4, <1>6, <2>2, <3>1, <3>2 DEF Answered
    <2>6. QED BY <2>4, <2>5
  <1>8. Conversation' BY <1>1, <1>2, <1>4, <1>7 DEF Conversation, Starting, Playing
  <1>9. Counting' BY <1>1, <1>2, <1>4 DEF IInv, Counting, Playing, triggers, seeking
  <1>10. PositionsAgree' BY <1>1, <1>2 DEF PositionsAgree
  <1>11. QED BY <1>5, <1>8, <1>9, <1>10 DEF IInv

LEMMA ReceiveReadyIInv == ASSUME PlaybackAssumption, IInv, ReceiveReady PROVE IInv'
  <1>1. /\ Receiving /\ inbox # <<>> /\ Head(inbox).type = "TOKEN" /\ inbox' = Tail(inbox)
        /\ TakeTurn /\ call' = [call EXCEPT !.op = "read"]
        /\ UNCHANGED <<phase, readstash, notifications, app, history>>
        BY DEF ReceiveReady, Receive, Message, Event
  <1>2. /\ call.op \in {"read", "messages"} /\ readstash = <<>> /\ Letters = inbox
        /\ Playing /\ phase # "INITIALIZED" /\ ~reading
        /\ (Answered \/ Delivered) /\ inbox' \in Seq(Letter)
        /\ phase = "RECEIVE" \/ (phase = "SONG_END_PENDING" /\ call.op = "messages")
        BY <1>1, ReceivingFacts
  <1>3. Delivered
        BY <1>1, <1>2 DEF Answered, EndNext, BlockNext, DataNext
  <1>4. /\ inbox' = <<>> /\ phase = "RECEIVE"
        /\ position = subsongbytes \/ nextsubsongtrigger
        BY <1>1, <1>2, <1>3 DEF Delivered, TokenNext
  <1>5. TypedSong /\ TypedSeek /\ TypedCall /\ Counted /\ subsongs.cur = playing.cur
        BY <1>2 DEF IInv, Typed, Counting, Counted
  <1>6. /\ TypedSong' /\ TypedSeek' /\ reading' = TRUE /\ ~nextsubsongtrigger'
        /\ position' = subsongbytes' /\ subsongs'.cur = playing'.cur
        BY <1>1, <1>4, <1>5, TurnTaken
  <1>7. /\ call' \in [op : Ops, bytes : Nat, copied : Nat] /\ call'.copied <= call'.bytes
        /\ call'.op = "read"
        BY <1>1, <1>5 DEF TypedCall, Ops
  <1>8. TypedCall' BY <1>1, <1>2, <1>5, <1>6, <1>7 DEF TypedCall, app
  <1>9. Asked' BY <1>1, <1>4, <1>6, <1>7 DEF Asked, Letters, Starting
  <1>10. Conversation' BY <1>1, <1>2, <1>7, <1>9 DEF Conversation, Starting, Playing
  <1>11. Counting' /\ PositionsAgree' BY <1>1, <1>2, <1>6, <1>7 DEF Counting, PositionsAgree
  <1>12. QED BY <1>6, <1>8, <1>10, <1>11 DEF IInv, Typed

(* The block that comes is the one that has been asked for, up to the end of *)
(* the subsong.                                                              *)
LEMMA BlockArrives ==
  ASSUME PlaybackAssumption, IInv, Receive("DATA")
  PROVE  /\ Played \in Seq(Frame) /\ Len(Played) \in 0 .. Block
         /\ \A i \in 1 .. Len(Played) : Played[i] = [sub |-> playing.cur, pos |-> subsongbytes + i]
         /\ TokenNext(Tail(inbox))
         /\ position = subsongbytes + Block
         /\ \/ phase = "RECEIVE" /\ Played = Head(inbox).data /\ Len(Played) = Block
            \/ /\ phase = "SONG_END_PENDING" /\ call.op = "messages"
               /\ lastend.sub = playing.cur /\ lastend.pos = subsongbytes + Len(Played)
  <1>1. Receiving /\ inbox # <<>> /\ Head(inbox).type = "DATA" BY DEF Receive, Message
  <1>2. Letters = inbox /\ (Answered \/ Delivered) BY <1>1, ReceivingFacts
  <1>3. Answered BY <1>1, <1>2 DEF Delivered, TokenNext
  <1> DEFINE data == Head(inbox).data
  <1>4. Block \in Nat \ {0} BY DEF PlaybackAssumption
  <1>5. CASE phase = "RECEIVE"
    <2>1. Fits(data, Block) /\ TokenNext(Tail(inbox)) /\ position = subsongbytes + Block
          BY <1>1, <1>2, <1>3, <1>5 DEF Answered, EndNext, BlockNext, DataNext
    <2>2. Played = data BY <1>5 DEF Played, Message
    <2>3. QED BY <1>4, <1>5, <2>1, <2>2 DEF Fits
  <1>6. CASE phase # "RECEIVE"
    <2>1. /\ phase = "SONG_END_PENDING" /\ call.op = "messages" /\ position = subsongbytes + Block
          /\ lastend.sub = playing.cur /\ lastend.pos = subsongbytes + endevent.tail
          /\ Fits(data, endevent.tail) /\ TokenNext(Tail(inbox))
          BY <1>1, <1>2, <1>3, <1>6 DEF Answered, BlockNext, DataNext
    <2>2. endevent.tail \in 0 .. Block - 1 BY DEF IInv, Typed, TypedSong
    <2>3. Played = SubSeq(data, 1, endevent.tail) BY <2>1 DEF Played, Message
    <2>4. data \in Seq(Frame) /\ Len(data) = Block
          /\ \A i \in 1 .. endevent.tail : data[i] = [sub |-> playing.cur, pos |-> subsongbytes + i]
          BY <2>1 DEF Fits
    <2> HIDE DEF data
    <2>5. /\ SubSeq(data, 1, endevent.tail) \in Seq(Frame)
          /\ Len(SubSeq(data, 1, endevent.tail)) = endevent.tail - 1 + 1
          /\ \A i \in 1 .. endevent.tail - 1 + 1 : SubSeq(data, 1, endevent.tail)[i] = data[1 + i - 1]
          BY <1>4, <2>2, <2>4, SubSeqFacts
    <2>6. Played \in Seq(Frame) /\ Len(Played) = endevent.tail
          /\ \A i \in 1 .. endevent.tail : Played[i] = data[i]
          BY <2>2, <2>3, <2>5
    <2>7. \A i \in 1 .. endevent.tail : Played[i] = [sub |-> playing.cur, pos |-> subsongbytes + i]
          BY <2>4, <2>6
    <2>8. QED BY <1>4, <2>1, <2>2, <2>6, <2>7
  <1>7. QED BY <1>5, <1>6

(* What a seek leaves of a block ends like the block. *)
LEMMA KeptFrames ==
  ASSUME NEW data \in Seq(Frame), Diff \in Int, seekmode # "none" => Diff <= Len(data)
  PROVE  /\ handle_seek(data) \in Seq(Frame) /\ Len(handle_seek(data)) <= Len(data)
         /\ handle_seek(data) # <<>> =>
              /\ Len(data) > 0
              /\ handle_seek(data)[Len(handle_seek(data))] = data[Len(data)]
              /\ seekmode # "none" =>
                   /\ Diff \in 1 .. Len(data) /\ Len(handle_seek(data)) = Diff
                   /\ Head(handle_seek(data)) = data[Len(data) - Diff + 1]
  <1>1. Len(data) \in Nat BY LenProperties
  <1>2. CASE seekmode = "none"
    <2>1. handle_seek(data) = data BY <1>2 DEF handle_seek
    <2>2. data # <<>> => Len(data) > 0 BY TailOfSeq
    <2>3. QED BY <1>1, <1>2, <2>1, <2>2
  <1>3. CASE seekmode # "none" /\ Diff <= 0
    <2>1. handle_seek(data) = <<>> BY <1>3 DEF handle_seek
    <2>2. <<>> \in Seq(Frame) /\ Len(<<>>) = 0 OBVIOUS
    <2>3. QED BY <1>1, <2>1, <2>2
  <1>4. CASE seekmode # "none" /\ Diff > 0
    <2> DEFINE d == Diff
               m == Len(data) - d + 1
               kept == SubSeq(data, m, Len(data))
    <2>1. handle_seek(data) = kept BY <1>4 DEF handle_seek, LastFrames
    <2>2. d \in 1 .. Len(data) BY <1>1, <1>4
    <2> HIDE DEF d
    <2>3. m \in Nat /\ m >= 1 /\ m <= Len(data) + 1 BY <1>1, <2>2
    <2>4. /\ kept \in Seq(Frame) /\ Len(kept) = Len(data) - m + 1
          /\ \A i \in 1 .. Len(data) - m + 1 : kept[i] = data[m + i - 1]
          BY <1>1, <2>3, SubSeqFacts
    <2> HIDE DEF kept
    <2>5. Len(kept) = d /\ kept[d] = data[Len(data)] /\ kept[1] = data[m] BY <1>1, <2>2, <2>4
    <2>6. kept # <<>> BY <2>2, <2>4, <2>5, EmptySeq
    <2>7. Head(kept) = kept[1] BY <2>4, <2>6, HeadTailProperties
    <2>8. QED BY <1>1, <2>1, <2>2, <2>4, <2>5, <2>7 DEF d
  <1>5. QED BY <1>2, <1>3, <1>4

(* What is left to be read of a block that has come. *)
LEMMA BlockStashed ==
  ASSUME PlaybackAssumption, IInv, ReceiveData
  PROVE  /\ readstash' \in Seq(Frame) /\ Len(readstash') <= Block
         /\ readstash' # <<>> =>
              /\ readstash'[Len(readstash')] = [sub |-> playing.cur, pos |-> subsongbytes']
              /\ phase = "RECEIVE" => seekmode' = "none"
         /\ subsongbytes' = subsongbytes + Len(Played) /\ songbytes' = songbytes + Len(Played)
         /\ seekmode' \in Modes /\ seeksubsongoffs' \in Nat /\ seeksongoffs' \in Nat
         /\ \/ call' = [call EXCEPT !.op = "messages"] /\ readstash' = <<>> /\ phase = "RECEIVE"
            \/ call' = [call EXCEPT !.op = "read"]
         /\ SeekStep
  <1> DEFINE frames == handle_seek(Played)
             atEnd == phase = "SONG_END_PENDING"
             n == Len(Played)
  <1>1. /\ Receive("DATA") /\ Arrived
        /\ subsongbytes' = subsongbytes + n /\ songbytes' = songbytes + n
        /\ seekmode # "none" => Diff <= n
        /\ IF frames = <<>> /\ ~atEnd THEN KeepReceiving ELSE Event
        /\ readstash' = IF frames = <<>> /\ atEnd THEN Played ELSE frames
        BY DEF ReceiveData, Advance
  <1>2. /\ Played \in Seq(Frame) /\ n \in 0 .. Block
        /\ \A i \in 1 .. n : Played[i] = [sub |-> playing.cur, pos |-> subsongbytes + i]
        /\ phase = "RECEIVE" \/ phase = "SONG_END_PENDING"
        BY <1>1, BlockArrives
  <1>3. /\ subsongbytes \in Nat /\ songbytes \in Nat /\ Block \in Nat
        /\ seekmode \in Modes /\ seeksubsongoffs \in Nat /\ seeksongoffs \in Nat
        BY DEF IInv, Typed, TypedSong, TypedSeek, PlaybackAssumption
  <1>4. Diff \in Int BY <1>1, <1>2, <1>3 DEF Diff, Current, Target
  <1>5. /\ frames \in Seq(Frame) /\ Len(frames) <= n
        /\ frames # <<>> =>
             /\ n > 0 /\ frames[Len(frames)] = Played[n]
             /\ seekmode # "none" =>
                  /\ Diff \in 1 .. n /\ Len(frames) = Diff
                  /\ Head(frames) = Played[n - Diff + 1]
        BY <1>1, <1>2, <1>4, KeptFrames
  <1>6. seekmode' \in Modes /\ seeksubsongoffs' \in Nat /\ seeksongoffs' \in Nat
        BY <1>1, <1>3 DEF Arrived, seeking, Modes
  <1> HIDE DEF frames, n
  <1>7. readstash' \in Seq(Frame) /\ Len(readstash') <= Block
        BY <1>1, <1>2, <1>3, <1>5, LenProperties DEF n
  <1>8. ASSUME readstash' # <<>>
        PROVE  readstash'[Len(readstash')] = [sub |-> playing.cur, pos |-> subsongbytes']
    <2>1. n > 0 /\ readstash'[Len(readstash')] = Played[n]
      <3>1. CASE readstash' = frames BY <1>5, <1>8, <3>1
      <3>2. CASE readstash' = Played BY <1>2, <1>8, <3>2, TailOfSeq DEF n
      <3>3. QED BY <1>1, <3>1, <3>2
    <2>2. Played[n] = [sub |-> playing.cur, pos |-> subsongbytes + n] BY <1>2, <2>1
    <2>3. QED BY <1>1, <2>1, <2>2
  <1>9. ASSUME readstash' # <<>>, phase = "RECEIVE" PROVE readstash' = frames /\ frames # <<>>
        BY <1>1, <1>9
  <1>10. ASSUME readstash' # <<>>, phase = "RECEIVE" PROVE seekmode' = "none"
    <2>1. frames # <<>> BY <1>9, <1>10
    <2>2. CASE seekmode = "none" BY <1>1, <2>2 DEF Arrived, seeking
    <2>3. CASE seekmode # "none"
      <3>1. Diff \in 1 .. n BY <1>5, <2>1, <2>3
      <3>2. Diff >= 0 BY <1>2, <3>1
      <3>3. QED BY <1>1, <2>3, <3>2 DEF Arrived
    <2>4. QED BY <2>2, <2>3
  <1>11. \/ call' = [call EXCEPT !.op = "messages"] /\ readstash' = <<>> /\ phase = "RECEIVE"
         \/ call' = [call EXCEPT !.op = "read"]
         BY <1>1, <1>2 DEF KeepReceiving, Event
  <1>12. SeekStep
    <2>1. SUFFICES ASSUME seekmode # "none", phase = "RECEIVE", readstash' # <<>>
                   PROVE  IF seekmode = "subsong" THEN Head(readstash').pos = seeksubsongoffs + 1
                          ELSE songbytes' - Len(readstash') = seeksongoffs
          BY DEF SeekStep
    <2>2. readstash' = frames /\ frames # <<>> BY <1>9, <2>1
    <2>3. /\ Diff \in 1 .. n /\ Len(frames) = Diff /\ Head(frames) = Played[n - Diff + 1]
          BY <1>5, <2>1, <2>2
    <2>4. Head(frames) = [sub |-> playing.cur, pos |-> subsongbytes + (n - Diff + 1)]
      <3>1. n - Diff + 1 \in 1 .. n BY <1>2, <2>3
      <3>2. QED BY <1>2, <2>3, <3>1
    <2>5. CASE seekmode = "subsong"
      <3>1. Diff = subsongbytes' - seeksubsongoffs BY <2>5 DEF Diff, Current, Target
      <3>2. subsongbytes + (n - Diff + 1) = seeksubsongoffs + 1 BY <1>1, <1>2, <1>3, <3>1
      <3>3. QED BY <2>2, <2>4, <2>5, <3>2
    <2>6. CASE seekmode = "song"
      <3>1. Diff = songbytes' - seeksongoffs BY <2>6 DEF Diff, Current, Target
      <3>2. songbytes' - Diff = seeksongoffs BY <1>1, <1>2, <1>3, <3>1
      <3>3. QED BY <2>2, <2>3, <2>6, <3>2
    <2>7. QED BY <1>3, <2>1, <2>5, <2>6 DEF Modes
  <1>13. QED BY <1>1, <1>6, <1>7, <1>8, <1>10, <1>11, <1>12 DEF n

LEMMA ReceiveDataIInv == ASSUME PlaybackAssumption, IInv, ReceiveData PROVE IInv'
  <1>1. /\ Receive("DATA") /\ Receiving /\ inbox # <<>> /\ inbox' = Tail(inbox)
        /\ UNCHANGED <<phase, subsongs, endevent, triggers, notifications, playing, position,
                       reading, app, history>>
        BY DEF ReceiveData, Receive
  <1>2. /\ call.op \in {"read", "messages"}
        /\ Playing /\ phase # "INITIALIZED" /\ ~reading /\ inbox' \in Seq(Letter)
        BY <1>1, ReceivingFacts
  <1>3. /\ Len(Played) \in 0 .. Block /\ TokenNext(inbox') /\ position = subsongbytes + Block
        /\ \/ phase = "RECEIVE" /\ Len(Played) = Block
           \/ /\ phase = "SONG_END_PENDING" /\ call.op = "messages"
              /\ lastend.sub = playing.cur /\ lastend.pos = subsongbytes + Len(Played)
        BY <1>1, BlockArrives
  <1>4. /\ readstash' \in Seq(Frame) /\ Len(readstash') <= Block
        /\ readstash' # <<>> =>
             /\ readstash'[Len(readstash')] = [sub |-> playing.cur, pos |-> subsongbytes']
             /\ phase = "RECEIVE" => seekmode' = "none"
        /\ subsongbytes' = subsongbytes + Len(Played) /\ songbytes' = songbytes + Len(Played)
        /\ seekmode' \in Modes /\ seeksubsongoffs' \in Nat /\ seeksongoffs' \in Nat
        /\ \/ call' = [call EXCEPT !.op = "messages"] /\ readstash' = <<>> /\ phase = "RECEIVE"
           \/ call' = [call EXCEPT !.op = "read"]
        BY BlockStashed
  <1>5. /\ call' \in [op : Ops, bytes : Nat, copied : Nat] /\ call'.copied <= call'.bytes
        /\ call'.op \in {"read", "messages"}
        /\ call'.op = "messages" => readstash' = <<>> /\ phase = "RECEIVE"
        BY <1>4 DEF IInv, Typed, TypedCall, Ops
  <1>6. Typed'
    <2>1. TypedSong' BY <1>1, <1>3, <1>4 DEF IInv, Typed, TypedSong
    <2>2. TypedSeek' BY <1>1, <1>4 DEF IInv, Typed, TypedSeek, triggers
    <2>3. TypedCall' BY <1>1, <1>2, <1>4, <1>5 DEF IInv, Typed, TypedCall, app
    <2>4. QED BY <2>1, <2>2, <2>3 DEF Typed
  <1>7. Delivered'
    <2>1. TokenNext(Letters)'
      <3>1. Letters' = inbox' BY <1>5 DEF Letters, Starting
      <3>2. QED BY <1>3, <3>1 DEF TokenNext
    <2>2. ~reading' /\ UNCHANGED <<phase, position, playing, lastend>> BY <1>1, <1>2 DEF history
    <2>3. CASE phase = "RECEIVE" BY <1>3, <1>4, <2>1, <2>2, <2>3 DEF Delivered
    <2>4. CASE phase # "RECEIVE" BY <1>3, <1>4, <1>5, <2>1, <2>2, <2>4 DEF Delivered
    <2>5. QED BY <2>3, <2>4
  <1>8. Conversation' BY <1>1, <1>2, <1>5, <1>7 DEF Conversation, Starting, Playing
  <1>9. Counting' BY <1>1, <1>2, <1>4, <1>5 DEF IInv, Counting, Playing, triggers
  <1>10. PositionsAgree' BY <1>1, <1>2, <1>4 DEF IInv, Counting, PositionsAgree
  <1>11. QED BY <1>6, <1>8, <1>9, <1>10 DEF IInv

(* A timeout counts a block and plays nothing of it. *)
LEMMA TimeOutIInv == ASSUME PlaybackAssumption, IInv, TimeOut PROVE IInv'
  <1>1. /\ phase = "RECEIVE" /\ Receive("DATA") /\ Receiving /\ inbox # <<>> /\ inbox' = Tail(inbox)
        /\ subsongbytes' = subsongbytes + Len(Played) /\ songbytes' = songbytes + Len(Played)
        /\ Notify([type |-> "end", sub |-> subsongs.cur, bytes |-> subsongbytes', happy |-> TRUE])
        /\ UNCHANGED <<phase, subsongs, seeking, trigger, readstash, playing, position, reading,
                       wanted, commands, extra, history>>
        BY DEF TimeOut, Receive, Advance
  <1>2. PICK silence \in BOOLEAN, stopnow \in BOOLEAN :
          /\ endevent' = EndEvent(0, TRUE, stopnow)
          /\ recordsongtime' = (recordsongtime /\ silence /\ endevent'.stopnow)
          /\ nextsubsongtrigger' = (nextsubsongtrigger \/ (~endevent'.stopnow /\ CanGoOn))
          /\ IF endevent'.stopnow \/ ~CanGoOn
             THEN call' = Idle /\ over' = TRUE
             ELSE Event /\ UNCHANGED over
        BY DEF TimeOut
  <1>3. /\ call.op \in {"read", "messages"} /\ readstash = <<>>
        /\ Playing /\ ~reading /\ inbox' \in Seq(Letter)
        BY <1>1, ReceivingFacts
  <1>4. TokenNext(inbox') /\ position = subsongbytes + Block /\ Len(Played) = Block
        BY <1>1, BlockArrives
  <1>5. endevent' \in [tail : 0 .. Block - 1, happy : BOOLEAN, stopnow : BOOLEAN]
    <2>1. 0 \in 0 .. Block - 1 BY DEF PlaybackAssumption
    <2>2. (~TRUE \/ stopnow \/ LastSubsong) \in BOOLEAN OBVIOUS
    <2>3. QED BY <1>2, <2>1, <2>2 DEF EndEvent
  <1>6. /\ nextsubsongtrigger' \in BOOLEAN /\ recordsongtime' \in BOOLEAN
        /\ nextsubsongtrigger' => nextsubsongtrigger \/ CanGoOn
        BY <1>2, Zenon
  <1>7. /\ call' \in [op : Ops, bytes : Nat, copied : Nat] /\ call'.copied <= call'.bytes
        /\ call'.op \in {"none", "read"} /\ over' \in BOOLEAN
    <2>1. CASE call' = Idle /\ over' = TRUE BY <2>1 DEF Idle, Ops
    <2>2. CASE call' = [call EXCEPT !.op = "read"] /\ over' = over
          BY <2>2 DEF IInv, Typed, TypedCall, Ops
    <2>3. QED BY <1>2, <2>1, <2>2 DEF Event
  <1>8. Typed'
    <2>1. TypedSong' BY <1>1, <1>4, <1>5 DEF IInv, Typed, TypedSong, PlaybackAssumption
    <2>2. TypedSeek' BY <1>1, <1>6 DEF IInv, Typed, TypedSeek, seeking
    <2>3. Len(notifications') \in Nat BY <1>1, NotifyTyped DEF IInv, Typed, TypedCall
    <2>4. TypedCall' BY <1>1, <1>3, <1>7, <2>3 DEF IInv, Typed, TypedCall
    <2>5. QED BY <2>1, <2>2, <2>4 DEF Typed
  <1>9. Delivered'
    <2>1. TokenNext(Letters)'
      <3>1. Letters' = inbox' BY <1>7 DEF Letters, Starting
      <3>2. QED BY <1>4, <3>1 DEF TokenNext
    <2>2. ~reading' /\ UNCHANGED <<phase, position>> BY <1>1, <1>3
    <2>3. QED BY <1>1, <1>4, <2>1, <2>2 DEF Delivered
  <1>10. Conversation' BY <1>1, <1>7, <1>9 DEF Conversation, Starting, Playing
  <1>11. Counting'
         BY <1>1, <1>3, <1>6, <1>7 DEF IInv, Counting, Playing, CanGoOn, MoreSubsongs
  <1>12. PositionsAgree' BY <1>1, <1>3 DEF PositionsAgree
  <1>13. QED BY <1>8, <1>10, <1>11, <1>12 DEF IInv

LEMMA SeekAbortsIInv == ASSUME PlaybackAssumption, IInv, SeekAborts PROVE IInv'
  <1>1. /\ Receive("DATA") /\ Receiving /\ inbox # <<>> /\ inbox' = Tail(inbox)
        /\ subsongbytes' = subsongbytes + Len(Played) /\ songbytes' = songbytes + Len(Played)
        /\ phase' = "ABORTED" /\ call' = Idle
        /\ UNCHANGED <<subsongs, endevent, seeking, triggers, readstash, notifications, playing,
                       position, reading, app, history>>
        BY DEF SeekAborts, Receive, Advance
  <1>2. readstash = <<>> /\ ~reading /\ inbox' \in Seq(Letter)
        BY <1>1, ReceivingFacts
  <1>3. Len(Played) \in 0 .. Block BY <1>1, BlockArrives
  <1>4. Typed'
    <2>1. TypedSong' BY <1>1, <1>3 DEF IInv, Typed, TypedSong, PlaybackAssumption
    <2>2. TypedSeek' BY <1>1 DEF IInv, Typed, TypedSeek, seeking, triggers
    <2>3. TypedCall' BY <1>1, <1>2 DEF IInv, Typed, TypedCall, app, Idle, Ops, Phases
    <2>4. QED BY <2>1, <2>2, <2>3 DEF Typed
  <1>5. Conversation' BY <1>1, <1>2 DEF Conversation, Starting, Playing, Idle
  <1>6. Counting' BY <1>1, <1>2 DEF IInv, Counting, Playing, Idle, triggers
  <1>7. PositionsAgree' BY <1>1, <1>2 DEF PositionsAgree
  <1>8. QED BY <1>4, <1>5, <1>6, <1>7 DEF IInv
------------------------------------------------------------------------------
(* uadecore's answer. *)
Answer(n) == <<[type |-> "DATA", data |-> Frames(n)], [type |-> "TOKEN"]>>

LEMMA FramesFit ==
  ASSUME PlaybackAssumption, Typed, position = subsongbytes, NEW n \in 0 .. Block
  PROVE  Fits(Frames(n), n) /\ [type |-> "DATA", data |-> Frames(n)] \in Letter
  <1>1. Block \in Nat BY DEF PlaybackAssumption
  <1>2. \A i \in 1 .. Block :
          (IF i <= n THEN [sub |-> playing.cur, pos |-> position + i] ELSE Junk) \in Frame
        BY <1>1 DEF Typed, TypedSong, Subsong, Frame, Junk
  <1>3. Frames(n) \in Seq(Frame) /\ Len(Frames(n)) = Block
        /\ \A i \in 1 .. Block :
             Frames(n)[i] = IF i <= n THEN [sub |-> playing.cur, pos |-> position + i] ELSE Junk
        BY <1>1, <1>2 DEF Frames
  <1>4. QED BY <1>1, <1>3 DEF Fits, Letter

LEMMA AnswerParts ==
  ASSUME PlaybackAssumption, Typed, position = subsongbytes, NEW n \in 0 .. Block,
         NEW message \in {<<>>, <<[type |-> "MSG"]>>}
  PROVE  message \o Answer(n) \in Seq(Letter) /\ BlockNext(message \o Answer(n), n)
  <1>1. Fits(Frames(n), n) /\ [type |-> "DATA", data |-> Frames(n)] \in Letter BY FramesFit
  <1>2. [type |-> "TOKEN"] \in Letter /\ [type |-> "MSG"] \in Letter BY DEF Letter
  <1> DEFINE d == [type |-> "DATA", data |-> Frames(n)]
             t == [type |-> "TOKEN"]
  <1>3. d.type = "DATA" /\ d.data = Frames(n) OBVIOUS
  <1> HIDE DEF d
  <1>4. <<t>> \in Seq(Letter) /\ Head(<<t>>) = t /\ Tail(<<t>>) = <<>> /\ <<t>> # <<>> BY <1>2
  <1>5. d \in Letter BY <1>1 DEF d
  <1>6. <<d, t>> \in Seq(Letter) /\ <<d, t>> # <<>> /\ Head(<<d, t>>) = d /\ Tail(<<d, t>>) = <<t>>
    <2>1. <<d, t>> \in Seq(Letter) /\ Len(<<d, t>>) = 2 /\ <<d, t>>[1] = d /\ <<d, t>>[2] = t
          BY <1>2, <1>5
    <2> DEFINE w == <<d, t>>
    <2> HIDE DEF w
    <2>2. w # <<>> BY <2>1, EmptySeq DEF w
    <2>3. Head(w) = w[1] /\ Tail(w) \in Seq(Letter) /\ Len(Tail(w)) = Len(w) - 1
          /\ \A i \in 1 .. Len(Tail(w)) : Tail(w)[i] = w[i + 1]
          BY <2>1, <2>2, HeadTailProperties DEF w
    <2>4. Len(Tail(w)) = 1 /\ Tail(w)[1] = t BY <2>1, <2>3 DEF w
    <2>5. <<t>> \in Seq(Letter) /\ Len(<<t>>) = 1 /\ <<t>>[1] = t BY <1>2
    <2>6. \A i \in 1 .. Len(Tail(w)) : Tail(w)[i] = <<t>>[i] BY <2>4, <2>5
    <2>7. Tail(w) = <<t>> BY <2>3, <2>4, <2>5, <2>6, SeqEqual
    <2>8. QED BY <2>1, <2>2, <2>3, <2>7 DEF w
  <1>7. DataNext(<<d, t>>, n) BY <1>1, <1>3, <1>4, <1>6 DEF DataNext, TokenNext
  <1>8. Answer(n) = <<d, t>> BY DEF Answer, d
  <1>9. CASE message = <<>>
    <2>1. message \o Answer(n) = <<d, t>> BY <1>6, <1>8, <1>9, ConcatEmptySeq
    <2>2. QED BY <1>6, <1>7, <2>1 DEF BlockNext
  <1>10. CASE message = <<[type |-> "MSG"]>>
    <2> DEFINE m == [type |-> "MSG"]
    <2>1. message \o Answer(n) = <<m>> \o <<d, t>> BY <1>8, <1>10
    <2>2. /\ <<m>> \o <<d, t>> \in Seq(Letter) /\ <<m>> \o <<d, t>> # <<>>
          /\ Head(<<m>> \o <<d, t>>) = m /\ Tail(<<m>> \o <<d, t>>) = <<d, t>>
          BY <1>2, <1>6, ConsProperties
    <2> DEFINE w == <<m>> \o <<d, t>>
    <2> HIDE DEF w
    <2>3. w # <<>> /\ Head(w).type = "MSG" /\ DataNext(Tail(w), n)
      <3>1. w # <<>> /\ Head(w) = [type |-> "MSG"] /\ Tail(w) = <<d, t>> BY <2>2 DEF w
      <3>2. Head(w).type = "MSG" BY <3>1
      <3>3. DataNext(Tail(w), n) BY <1>7, <3>1, Zenon
      <3>4. QED BY <3>1, <3>2, <3>3
    <2>4. BlockNext(w, n) BY <2>3 DEF BlockNext
    <2>5. QED BY <2>1, <2>2, <2>4 DEF w
  <1>11. QED BY <1>9, <1>10

LEMMA OneElement ==
  ASSUME NEW S, NEW s \in Seq(S), s # <<>>, Tail(s) = <<>>
  PROVE  Head(s) \in S /\ s = <<Head(s)>>
  <1>1. /\ Head(s) \in S /\ Head(s) = s[1] /\ Len(s) \in Nat \ {0} /\ Len(Tail(s)) = Len(s) - 1
        BY HeadTailProperties, TailOfSeq
  <1>2. Len(s) = 1 BY <1>1
  <1> DEFINE h == <<Head(s)>>
  <1>3. h \in Seq(S) /\ Len(h) = 1 /\ h[1] = Head(s) BY <1>1
  <1> HIDE DEF h
  <1>4. \A i \in 1 .. Len(s) : s[i] = h[i] BY <1>1, <1>2, <1>3
  <1>5. s = h BY <1>2, <1>3, <1>4, SeqEqual
  <1>6. QED BY <1>1, <1>5 DEF h

LEMMA LettersAdded ==
  ASSUME inbox \in Seq(Letter), Letters = <<>>,
         Starting => inbox # <<>> /\ Head(inbox).type = "SUBSONG_INFO",
         NEW a \in Seq(Letter), inbox' = inbox \o a, UNCHANGED <<call, phase>>
  PROVE  /\ inbox' \in Seq(Letter) /\ Letters' = a
         /\ Starting' => inbox' # <<>> /\ Head(inbox').type = "SUBSONG_INFO"
  <1>1. inbox' \in Seq(Letter) BY ConcatProperties
  <1>2. Starting' = Starting BY DEF Starting
  <1>3. CASE Starting
    <2> DEFINE x == Head(inbox)
    <2>1. x \in Letter /\ inbox = <<x>> BY <1>3, OneElement DEF Letters
    <2>2. x.type = "SUBSONG_INFO" BY <1>3
    <2> HIDE DEF x
    <2>3. inbox' # <<>> /\ Head(inbox') = x /\ Tail(inbox') = a BY <2>1, ConsProperties
    <2>4. Starting' BY <1>2, <1>3
    <2>5. Letters' = a BY <2>3, <2>4 DEF Letters
    <2>6. QED BY <1>1, <2>2, <2>3, <2>5
  <1>4. CASE ~Starting
    <2>1. inbox = <<>> BY <1>4 DEF Letters
    <2>2. inbox' = a BY <2>1, ConcatEmptySeq
    <2>3. ~Starting' BY <1>2, <1>4
    <2>4. Letters' = inbox' BY <2>3 DEF Letters
    <2>5. QED BY <1>1, <2>2, <2>3, <2>4
  <1>5. QED BY <1>3, <1>4

LEMMA AnswerIInv ==
  ASSUME PlaybackAssumption, IInv, uadecore_check_sound_buffers PROVE IInv'
  <1>1. /\ reading /\ reading' = FALSE /\ position' = position + Block
        /\ UNCHANGED <<phase, subsongs, position_, endevent, seeking, triggers, readstash,
                       notifications, call, playing, app, recorded>>
        BY DEF uadecore_check_sound_buffers
  <1>2. /\ Playing /\ phase # "INITIALIZED" /\ Asked
        BY <1>1 DEF IInv, Conversation, Answered, Delivered
  <1>3. Letters = <<>> /\ position = subsongbytes /\ phase = "RECEIVE" BY <1>2 DEF Asked
  <1>4. Typed /\ inbox \in Seq(Letter) /\ Block \in Nat
        BY DEF IInv, Typed, TypedCall, PlaybackAssumption
  <1>5. Starting => inbox # <<>> /\ Head(inbox).type = "SUBSONG_INFO"
        BY DEF IInv, Conversation
  <1>6. PICK message \in {<<>>, <<[type |-> "MSG"]>>} :
          \/ /\ inbox' = inbox \o message
                  \o <<[type |-> "DATA", data |-> Frames(Block)], [type |-> "TOKEN"]>>
             /\ UNCHANGED lastend
          \/ \E tail \in 0 .. Block - 1, happy \in BOOLEAN :
               /\ inbox' = inbox \o <<[type |-> "SONG_END", tail |-> tail, happy |-> happy]>>
                    \o message
                    \o <<[type |-> "DATA", data |-> Frames(tail)], [type |-> "TOKEN"]>>
               /\ lastend' = [sub |-> playing.cur, pos |-> position + tail, happy |-> happy]
        BY DEF uadecore_check_sound_buffers
  <1>7. message \in Seq(Letter)
    <2>1. [type |-> "MSG"] \in Letter BY DEF Letter
    <2>2. <<>> \in Seq(Letter) /\ <<[type |-> "MSG"]>> \in Seq(Letter) BY <2>1
    <2>3. QED BY <2>2
  <1>8. \A n \in 0 .. Block : Answer(n) \in Seq(Letter)
    <2>1. SUFFICES ASSUME NEW n \in 0 .. Block PROVE Answer(n) \in Seq(Letter) OBVIOUS
    <2>2. [type |-> "DATA", data |-> Frames(n)] \in Letter BY <1>3, <1>4, FramesFit
    <2>3. [type |-> "TOKEN"] \in Letter BY DEF Letter
    <2>4. QED BY <2>2, <2>3 DEF Answer
  <1>9. /\ inbox' \in Seq(Letter)
        /\ BlockNext(Letters, Block)' \/ EndNext(Letters)'
        /\ Starting' => inbox' # <<>> /\ Head(inbox').type = "SUBSONG_INFO"
    <2>1. ASSUME inbox' = inbox \o message
                   \o <<[type |-> "DATA", data |-> Frames(Block)], [type |-> "TOKEN"]>>
          PROVE  /\ inbox' \in Seq(Letter) /\ BlockNext(Letters, Block)'
                 /\ Starting' => inbox' # <<>> /\ Head(inbox').type = "SUBSONG_INFO"
      <3> DEFINE a == message \o Answer(Block)
      <3>1. Block \in 0 .. Block BY <1>4
      <3>2. a \in Seq(Letter) /\ BlockNext(a, Block) BY <1>3, <1>4, <3>1, AnswerParts
      <3>3. inbox' = (inbox \o message) \o Answer(Block) BY <2>1 DEF Answer
      <3>4. inbox' = inbox \o a
        <4>1. Answer(Block) \in Seq(Letter) BY <1>8, <3>1
        <4>2. (inbox \o message) \o Answer(Block) = inbox \o (message \o Answer(Block))
              BY <1>4, <1>7, <4>1, ConcatAssociative
        <4>3. QED BY <3>3, <4>2
      <3> HIDE DEF a
      <3>5. /\ inbox' \in Seq(Letter) /\ Letters' = a
            /\ Starting' => inbox' # <<>> /\ Head(inbox').type = "SUBSONG_INFO"
            BY <1>1, <1>3, <1>4, <1>5, <3>2, <3>4, LettersAdded
      <3>6. UNCHANGED <<playing, subsongbytes>> BY <1>1 DEF position_
      <3>7. BlockNext(Letters, Block)'
            BY <3>2, <3>5, <3>6 DEF BlockNext, DataNext, TokenNext, Fits
      <3>8. QED BY <3>5, <3>7
    <2>2. ASSUME NEW tail \in 0 .. Block - 1, NEW happy \in BOOLEAN,
                 inbox' = inbox \o <<[type |-> "SONG_END", tail |-> tail, happy |-> happy]>>
                   \o message
                   \o <<[type |-> "DATA", data |-> Frames(tail)], [type |-> "TOKEN"]>>,
                 lastend' = [sub |-> playing.cur, pos |-> position + tail, happy |-> happy]
          PROVE  /\ inbox' \in Seq(Letter) /\ EndNext(Letters)'
                 /\ Starting' => inbox' # <<>> /\ Head(inbox').type = "SUBSONG_INFO"
      <3> DEFINE e == [type |-> "SONG_END", tail |-> tail, happy |-> happy]
                 b == message \o Answer(tail)
                 a == <<e>> \o b
      <3>1. tail \in 0 .. Block BY <1>4
      <3>2. b \in Seq(Letter) /\ BlockNext(b, tail) BY <1>3, <1>4, <3>1, AnswerParts
      <3>3. e \in Letter /\ e.type = "SONG_END" /\ e.tail = tail BY DEF Letter
      <3>4. inbox' = ((inbox \o <<e>>) \o message) \o Answer(tail) BY <2>2 DEF Answer
      <3> HIDE DEF e
      <3>5. <<e>> \in Seq(Letter) BY <3>3
      <3>6. inbox \o <<e>> \in Seq(Letter) BY <1>4, <3>5, ConcatProperties
      <3>7. inbox' = (inbox \o <<e>>) \o b
        <4>1. Answer(tail) \in Seq(Letter) BY <1>8, <3>1
        <4>2. ((inbox \o <<e>>) \o message) \o Answer(tail)
                = (inbox \o <<e>>) \o (message \o Answer(tail))
              BY <1>7, <3>6, <4>1, ConcatAssociative
        <4>3. QED BY <3>4, <4>2
      <3> HIDE DEF b
      <3>8. inbox' = inbox \o a BY <1>4, <3>2, <3>5, <3>7, ConcatAssociative
      <3>9. a \in Seq(Letter) /\ a # <<>> /\ Head(a) = e /\ Tail(a) = b
            BY <3>2, <3>3, ConsProperties
      <3> HIDE DEF a
      <3>10. /\ inbox' \in Seq(Letter) /\ Letters' = a
             /\ Starting' => inbox' # <<>> /\ Head(inbox').type = "SUBSONG_INFO"
             BY <1>1, <1>3, <1>4, <1>5, <3>8, <3>9, LettersAdded
      <3>11. UNCHANGED <<playing, subsongbytes>> BY <1>1 DEF position_
      <3>12. BlockNext(Tail(Letters), Head(Letters).tail)'
        <4>1. Tail(Letters') = b /\ Head(Letters').tail = tail BY <3>3, <3>9, <3>10
        <4>2. QED BY <3>2, <3>11, <4>1 DEF BlockNext, DataNext, TokenNext, Fits
      <3>13. lastend'.sub = playing'.cur /\ lastend'.pos = subsongbytes' + tail
             BY <1>3, <2>2, <3>11
      <3>14. EndNext(Letters)'
        <4>1. Letters' # <<>> /\ Head(Letters').type = "SONG_END" /\ Head(Letters').tail = tail
              BY <3>3, <3>9, <3>10
        <4>2. QED BY <3>12, <3>13, <4>1 DEF EndNext
      <3>15. QED BY <3>10, <3>14
    <2>3. QED BY <1>6, <2>1, <2>2
  <1>10. Typed'
    <2>1. position' \in Nat BY <1>1, <1>4 DEF Typed, TypedSong
    <2>2. TypedSong' BY <1>1, <1>4, <2>1 DEF Typed, TypedSong, position_
    <2>3. TypedSeek' BY <1>1, <1>4 DEF Typed, TypedSeek, seeking, triggers
    <2>4. TypedCall' BY <1>1, <1>4, <1>9 DEF Typed, TypedCall, app
    <2>5. QED BY <2>2, <2>3, <2>4 DEF Typed
  <1>11. Answered'
    <2>1. ~reading' /\ position' = subsongbytes' + Block /\ phase' = "RECEIVE"
          BY <1>1, <1>3 DEF position_
    <2>2. QED BY <1>9, <2>1 DEF Answered
  <1>12. Conversation' BY <1>1, <1>2, <1>9, <1>11 DEF IInv, Conversation, Playing
  <1>13. Counting' BY <1>1 DEF IInv, Counting, Playing, triggers, seeking
  <1>14. PositionsAgree' BY <1>1 DEF IInv, PositionsAgree, position_
  <1>15. QED BY <1>10, <1>12, <1>13, <1>14 DEF IInv
------------------------------------------------------------------------------
LEMMA NextIInv == ASSUME PlaybackAssumption, IInv, [Next]_vars PROVE IInv'
  <1>1. CASE FirstRequest BY <1>1, FirstRequestIInv
  <1>2. CASE SubsongInfo BY <1>2, SubsongInfoIInv
  <1>3. CASE App BY <1>3, AppIInv
  <1>4. CASE ReadStep
    <2>1. CASE ReadStash \/ ReadReturns BY <2>1, ReadStashIInv, ReadReturnsIInv
    <2>2. CASE EndPending \/ WaitSubsongChange BY <2>2, EndPendingIInv, WaitSubsongChangeIInv
    <2>3. CASE ReceiveSongEnd \/ ReceiveMessage \/ ReceiveReady
          BY <2>3, ReceiveSongEndIInv, ReceiveMessageIInv, ReceiveReadyIInv
    <2>4. CASE ReceiveData \/ SeekAborts \/ TimeOut
          BY <2>4, ReceiveDataIInv, SeekAbortsIInv, TimeOutIInv
    <2>5. QED BY <1>4, <2>1, <2>2, <2>3, <2>4 DEF ReadStep
  <1>5. CASE uadecore_check_sound_buffers BY <1>5, AnswerIInv
  <1>6. CASE UNCHANGED vars
    <2>1. /\ UNCHANGED <<phase, subsongs, subsongbytes, songbytes, endevent, seekmode,
                         seeksubsongoffs, seeksongoffs, trigger, nextsubsongtrigger>>
          /\ UNCHANGED <<recordsongtime, readstash, notifications, call, playing, position,
                         reading, inbox, wanted, over, lastend>>
          BY <1>6 DEF vars, position_, seeking, triggers, core, app, history
    <2>2. Typed' BY <2>1 DEF IInv, Typed, TypedSong, TypedSeek, TypedCall
    <2>3. Starting' = Starting /\ Letters' = Letters /\ Playing' = Playing
          BY <2>1 DEF Starting, Letters, Playing
    <2>4. Asked' = Asked BY <2>1, <2>3 DEF Asked
    <2>5. Answered => Answered'
          BY <2>1, <2>3 DEF Answered, BlockNext, EndNext, DataNext, TokenNext, Fits
    <2>6. Delivered => Delivered' BY <2>1, <2>3 DEF Delivered, TokenNext
    <2>7. Conversation' BY <2>1, <2>3, <2>4, <2>5, <2>6 DEF IInv, Conversation
    <2>8. Counting' BY <2>1, <2>3 DEF IInv, Counting
    <2>9. PositionsAgree' BY <2>1 DEF IInv, PositionsAgree
    <2>10. QED BY <2>2, <2>7, <2>8, <2>9 DEF IInv
  <1>7. QED BY <1>1, <1>2, <1>3, <1>4, <1>5, <1>6 DEF Next, Terminated

(* At any time one request is unanswered, or its answer is on its way, or    *)
(* the turn alone, and the bytes that have been counted, the position of     *)
(* uadecore and what of an announced end is still to come fit that           *)
(* (uade_read(), handle_end(), uadecore_check_sound_buffers()).              *)
THEOREM IInvHolds == PlaybackAssumption => (Spec => []IInv)
  <1> SUFFICES ASSUME PlaybackAssumption PROVE Spec => []IInv OBVIOUS
  <1>1. Init => IInv BY InitIInv
  <1>2. IInv /\ [Next]_vars => IInv' BY NextIInv
  <1>3. QED BY <1>1, <1>2, PTL DEF Spec

(* The subsong stays in the range that uadecore announced, a stash is no     *)
(* longer than a block (uade_read(), struct uade_state).                     *)
THEOREM TypeOKHolds == PlaybackAssumption => (Spec => []TypeOK)
  <1> SUFFICES ASSUME PlaybackAssumption PROVE Spec => []TypeOK OBVIOUS
  <1>1. IInv => TypeOK
    <2> SUFFICES ASSUME IInv PROVE TypeOK OBVIOUS
    <2>1. TypedSong /\ TypedSeek /\ TypedCall BY DEF IInv, Typed
    <2>2. playing.cur \in Subsongs BY <2>1 DEF TypedSong, Subsong
    <2>3. {nextsubsongtrigger, recordsongtime, reading, over} \subseteq BOOLEAN
          BY <2>1, Zenon DEF TypedSeek, TypedCall
    <2>4. QED BY <2>1, <2>2, <2>3 DEF TypeOK, TypedSong, TypedSeek, TypedCall, Phases, Ops, Subsong
  <1>2. QED BY <1>1, IInvHolds, PTL

(* Whatever subsongs are played, sought or skipped and whatever ends meet a  *)
(* command of the application, uade_get_time_position() counts what          *)
(* uadecore has played: the offset in the subsong is that of the last frame  *)
(* that came, the offset in the song no less (subsongbytes and songbytes in  *)
(* uade_read()).                                                             *)
THEOREM PositionsAgreeHolds == PlaybackAssumption => (Spec => []PositionsAgree)
  <1> SUFFICES ASSUME PlaybackAssumption PROVE Spec => []PositionsAgree OBVIOUS
  <1>1. IInv => PositionsAgree BY DEF IInv
  <1>2. QED BY <1>1, IInvHolds, PTL
------------------------------------------------------------------------------
LEMMA NextSeekStep == ASSUME PlaybackAssumption, IInv, [Next]_vars PROVE SeekStep
  <1>1. CASE ReceiveData BY <1>1, BlockStashed
  <1>2. CASE ReadStash
    <2>1. readstash # <<>> BY <1>2 DEF ReadStash
    <2>2. QED BY <2>1 DEF IInv, Counting, SeekStep
  <1>3. CASE AppStop BY <1>3 DEF AppStop, SeekStep
  <1>4. CASE UNCHANGED readstash BY <1>4 DEF SeekStep
  <1>5. CASE App /\ ~AppStop
    <2>1. UNCHANGED readstash
          BY <1>5 DEF App, AppRead, AppNextSubsong, SeekPosition, SeekSong, SeekSubsong, Command
    <2>2. QED BY <1>4, <2>1
  <1>6. CASE ReadStep /\ ~ReceiveData /\ ~ReadStash
    <2>1. UNCHANGED readstash
          BY <1>6 DEF ReadStep, ReadReturns, EndPending, WaitSubsongChange, ReceiveSongEnd,
                      ReceiveMessage, ReceiveReady, SeekAborts, TimeOut
    <2>2. QED BY <1>4, <2>1
  <1>7. CASE FirstRequest \/ SubsongInfo \/ uadecore_check_sound_buffers \/ UNCHANGED vars
    <2>1. UNCHANGED readstash
          BY <1>7 DEF FirstRequest, SubsongInfo, uadecore_check_sound_buffers, vars
    <2>2. QED BY <1>4, <2>1
  <1>8. QED BY <1>1, <1>2, <1>3, <1>5, <1>6, <1>7 DEF Next, Terminated

(* What a seek leaves of the block it ends in begins with the very frame     *)
(* that was sought (handle_seek() and the readstash of uade_read()).         *)
THEOREM SeekExactHolds == PlaybackAssumption => (Spec => SeekExact)
  <1> SUFFICES ASSUME PlaybackAssumption PROVE Spec => SeekExact OBVIOUS
  <1>1. IInv /\ [Next]_vars => [SeekStep]_vars BY NextSeekStep
  <1>2. QED BY <1>1, IInvHolds, PTL DEF Spec, SeekExact
------------------------------------------------------------------------------
(* Without timeouts a seek stays ahead, and handle_seek() never aborts. *)
Ahead == SeekAhead /\ phase # "ABORTED"

LEMMA InitAhead == ASSUME Init PROVE Ahead BY DEF Init, Ahead, SeekAhead

LEMMA DataAhead ==
  ASSUME PlaybackAssumption, IInv, SeekAhead, Receive("DATA"), Advance
  PROVE  /\ seekmode # "none" => Diff <= Len(Played)
         /\ Arrived => SeekAhead'
  <1>1. Len(Played) \in Nat BY BlockArrives DEF PlaybackAssumption
  <1>2. /\ subsongbytes \in Nat /\ songbytes \in Nat /\ seekmode \in Modes
        /\ seeksubsongoffs \in Nat /\ seeksongoffs \in Nat
        BY DEF IInv, Typed, TypedSong, TypedSeek
  <1>3. subsongbytes' = subsongbytes + Len(Played) /\ songbytes' = songbytes + Len(Played)
        BY DEF Advance
  <1>4. Diff = IF seekmode = "song" THEN songbytes' - seeksongoffs ELSE subsongbytes' - seeksubsongoffs
        BY DEF Diff, Current, Target
  <1>5. seekmode # "none" => Diff <= Len(Played)
        BY <1>1, <1>2, <1>3, <1>4 DEF SeekAhead, Modes
  <1>6. ASSUME Arrived PROVE SeekAhead'
        BY <1>1, <1>2, <1>3, <1>4, <1>6 DEF Arrived, SeekAhead, seeking, Modes
  <1>7. QED BY <1>5, <1>6

LEMMA NextAhead == ASSUME PlaybackAssumption, ~Timeouts, IInv, Ahead, [Next]_vars PROVE Ahead'
  <1>1. CASE FirstRequest \/ ReceiveReady
    <2>1. TakeTurn /\ phase' \in {"RECEIVE", phase} BY <1>1 DEF FirstRequest, ReceiveReady
    <2>2. call.op \in {"play", "read", "messages"} /\ Playing
          BY <1>1 DEF FirstRequest, ReceiveReady, Receive, Receiving, Reading, IInv, Conversation
    <2>3. TypedSong /\ TypedSeek /\ Counted BY DEF IInv, Typed, Counting, Counted
    <2>4. SeekAhead' BY <2>1, <2>3, TurnTaken DEF Ahead
    <2>5. QED BY <2>1, <2>4 DEF Ahead
  <1>2. CASE ReceiveData
    <2>1. Receive("DATA") /\ Advance /\ Arrived /\ UNCHANGED phase BY <1>2 DEF ReceiveData
    <2>2. QED BY <2>1, DataAhead DEF Ahead
  <1>3. CASE SeekAborts
    <2>1. Receive("DATA") /\ Advance /\ seekmode # "none" /\ Diff > Len(Played)
          BY <1>3 DEF SeekAborts
    <2>2. Diff <= Len(Played) BY <2>1, DataAhead DEF Ahead
    <2>3. Len(Played) \in Int /\ Diff \in Int
      <3>1. Len(Played) \in Int BY <2>1, BlockArrives DEF PlaybackAssumption
      <3>2. QED BY <2>1, <3>1 DEF Diff, Current, Target, Advance, IInv, Typed, TypedSong, TypedSeek
    <2>4. QED BY <2>1, <2>2, <2>3
  <1>4. CASE TimeOut BY <1>4 DEF TimeOut
  <1>5. CASE AppStop BY <1>5 DEF AppStop, Ahead, SeekAhead
  <1>6. CASE UNCHANGED <<position_, seeking>> /\ phase' # "ABORTED"
        BY <1>6 DEF Ahead, SeekAhead, position_, seeking
  <1>7. CASE App /\ ~AppStop
    <2>1. UNCHANGED <<position_, seeking, phase>>
          BY <1>7 DEF App, AppRead, AppNextSubsong, SeekPosition, SeekSong, SeekSubsong, Command
    <2>2. QED BY <1>6, <2>1 DEF Ahead
  <1>8. CASE ReadStash \/ ReadReturns \/ EndPending \/ WaitSubsongChange \/ ReceiveSongEnd \/ ReceiveMessage
    <2>1. UNCHANGED <<position_, seeking>>
          BY <1>8 DEF ReadStash, ReadReturns, EndPending, WaitSubsongChange, ReceiveSongEnd, ReceiveMessage
    <2>2. phase' \in {phase, "WAIT", "RECEIVE", "SONG_END_PENDING"}
          BY <1>8 DEF ReadStash, ReadReturns, EndPending, WaitSubsongChange, ReceiveSongEnd, ReceiveMessage
    <2>3. QED BY <1>6, <2>1, <2>2 DEF Ahead
  <1>9. CASE SubsongInfo \/ uadecore_check_sound_buffers \/ UNCHANGED vars
    <2>1. UNCHANGED <<position_, seeking, phase>>
          BY <1>9 DEF SubsongInfo, uadecore_check_sound_buffers, vars
    <2>2. QED BY <1>6, <2>1 DEF Ahead
  <1>10. QED BY <1>1, <1>2, <1>3, <1>4, <1>5, <1>7, <1>8, <1>9 DEF Next, Terminated, ReadStep

(* Without timeouts, a seek that is under way has its target ahead of it     *)
(* (handle_seek(), uade_seek()).                                             *)
THEOREM SeekAheadHolds == PlaybackAssumption /\ ~Timeouts => (Spec => []SeekAhead)
  <1> SUFFICES ASSUME PlaybackAssumption, ~Timeouts PROVE Spec => []SeekAhead OBVIOUS
  <1>1. Init => Ahead BY InitAhead
  <1>2. IInv /\ Ahead /\ [Next]_vars => Ahead' BY NextAhead
  <1>3. Ahead => SeekAhead BY DEF Ahead
  <1>4. QED BY <1>1, <1>2, <1>3, IInvHolds, PTL DEF Spec

(* Without timeouts the assertions of handle_seek(), which would abort the   *)
(* application in the middle of a seek that has been overtaken, always       *)
(* hold.                                                                     *)
THEOREM NeverAborts == PlaybackAssumption /\ ~Timeouts => (Spec => [](phase # "ABORTED"))
  <1> SUFFICES ASSUME PlaybackAssumption, ~Timeouts PROVE Spec => [](phase # "ABORTED") OBVIOUS
  <1>1. Init => Ahead BY InitAhead
  <1>2. IInv /\ Ahead /\ [Next]_vars => Ahead' BY NextAhead
  <1>3. Ahead => phase # "ABORTED" BY DEF Ahead
  <1>4. QED BY <1>1, <1>2, <1>3, IInvHolds, PTL DEF Spec
------------------------------------------------------------------------------
(* Notifications of ends. *)
LEMMA NoteAdded ==
  ASSUME NEW n, Notify(n), Len(notifications) \in Nat, Len(notifications') > Len(notifications)
  PROVE  notifications'[Len(notifications')] = n
  <1>1. CASE Len(notifications) > NotifyLimit BY <1>1 DEF Notify
  <1>2. CASE ~(Len(notifications) > NotifyLimit)
    <2>1. notifications' = Append(notifications, n) BY <1>2 DEF Notify
    <2>2. QED BY <2>1
  <1>3. QED BY <1>1, <1>2

(* An end is told when it is met and nothing has been counted after it. *)
LEMMA EndIsLast ==
  ASSUME IInv, Reading, phase \in {"SONG_END_PENDING", "WAIT"}
  PROVE  lastend.sub = subsongs.cur /\ lastend.pos = subsongbytes
  <1>1. call.op = "read" /\ Playing BY DEF Reading, Playing
  <1>2. Delivered BY <1>1 DEF IInv, Conversation, Asked, Answered
  <1>3. lastend.sub = playing.cur /\ lastend.pos = subsongbytes BY <1>2 DEF Delivered
  <1>4. QED BY <1>1, <1>3 DEF IInv, Counting

LEMMA NextEndStep == ASSUME PlaybackAssumption, ~Timeouts, IInv, [Next]_vars PROVE EndStep
  <1> DEFINE note == notifications'[Len(notifications')]
  <1>0. Len(notifications) \in Nat BY DEF IInv, Typed, TypedCall
  <1>1. CASE EndPending
    <2>1. /\ Reading /\ phase = "SONG_END_PENDING"
          /\ UNCHANGED <<subsongs, position_, lastend>>
          /\ Notify([type |-> "end", sub |-> subsongs.cur, bytes |-> subsongbytes',
                     happy |-> endevent.happy])
          BY <1>1 DEF EndPending, GiveEnd, history
    <2>2. lastend.sub = subsongs.cur /\ lastend.pos = subsongbytes BY <2>1, EndIsLast
    <2>3. Len(notifications') > Len(notifications) =>
            note = [type |-> "end", sub |-> subsongs.cur, bytes |-> subsongbytes',
                    happy |-> endevent.happy]
          BY <1>0, <2>1, NoteAdded
    <2>4. QED BY <2>1, <2>2, <2>3 DEF EndStep, position_
  <1>2. CASE WaitSubsongChange
    <2>1. Reading /\ phase = "WAIT" BY <1>2 DEF WaitSubsongChange
    <2>2. lastend.sub = subsongs.cur /\ lastend.pos = subsongbytes BY <2>1, EndIsLast
    <2>3. CASE CanGoOn
      <3>1. UNCHANGED notifications BY <1>2, <2>3 DEF WaitSubsongChange
      <3>2. QED BY <1>0, <3>1 DEF EndStep
    <2>4. CASE ~CanGoOn
      <3>1. Notify([type |-> "end", sub |-> subsongs.cur, bytes |-> subsongbytes, happy |-> TRUE])
            BY <1>2, <2>4 DEF WaitSubsongChange
      <3>2. Len(notifications') > Len(notifications) =>
              note = [type |-> "end", sub |-> subsongs.cur, bytes |-> subsongbytes, happy |-> TRUE]
            BY <1>0, <3>1, NoteAdded
      <3>3. QED BY <2>2, <3>2 DEF EndStep
    <2>5. QED BY <2>3, <2>4
  <1>3. CASE ReceiveMessage
    <2>1. CASE phase = "SONG_END_PENDING"
      <3>1. UNCHANGED notifications BY <1>3, <2>1 DEF ReceiveMessage
      <3>2. QED BY <1>0, <3>1 DEF EndStep
    <2>2. CASE phase # "SONG_END_PENDING"
      <3>1. Notify([type |-> "message"]) BY <1>3, <2>2 DEF ReceiveMessage
      <3>2. Len(notifications') > Len(notifications) => note = [type |-> "message"]
            BY <1>0, <3>1, NoteAdded
      <3>3. QED BY <3>2 DEF EndStep
    <2>3. QED BY <2>1, <2>2
  <1>4. CASE AppRead \/ AppStop
    <2>1. notifications' = <<>> BY <1>4 DEF AppRead, AppStop
    <2>2. QED BY <1>0, <2>1 DEF EndStep
  <1>5. CASE UNCHANGED notifications BY <1>0, <1>5 DEF EndStep
  <1>6. CASE TimeOut BY <1>6 DEF TimeOut
  <1>7. CASE App /\ ~AppStop /\ ~AppRead
    <2>1. UNCHANGED notifications
          BY <1>7 DEF App, AppNextSubsong, SeekPosition, SeekSong, SeekSubsong, Command
    <2>2. QED BY <1>5, <2>1
  <1>8. CASE ReadStash \/ ReadReturns \/ ReceiveSongEnd \/ ReceiveReady \/ ReceiveData \/ SeekAborts
    <2>1. UNCHANGED notifications
          BY <1>8 DEF ReadStash, ReadReturns, ReceiveSongEnd, ReceiveReady, ReceiveData, SeekAborts
    <2>2. QED BY <1>5, <2>1
  <1>9. CASE FirstRequest \/ SubsongInfo \/ uadecore_check_sound_buffers \/ UNCHANGED vars
    <2>1. UNCHANGED notifications
          BY <1>9 DEF FirstRequest, SubsongInfo, uadecore_check_sound_buffers, vars
    <2>2. QED BY <1>5, <2>1
  <1>10. QED BY <1>1, <1>2, <1>3, <1>4, <1>6, <1>7, <1>8, <1>9 DEF Next, Terminated, ReadStep

(* Without timeouts the application is told the end that uadecore has met,   *)
(* of the subsong and at the frame where it has met it (handle_end(),        *)
(* uade_song_end_notification).                                              *)
THEOREM EndReportedHolds == PlaybackAssumption /\ ~Timeouts => (Spec => EndReported)
  <1> SUFFICES ASSUME PlaybackAssumption, ~Timeouts PROVE Spec => EndReported OBVIOUS
  <1>1. IInv /\ [Next]_vars => [EndStep]_vars BY NextEndStep
  <1>2. QED BY <1>1, IInvHolds, PTL DEF Spec, EndReported
------------------------------------------------------------------------------
(* The timers of the CIAs, with constants and variables named as there *)

CONSTANTS Chip, Byte, Control, MaxWrites
VARIABLES count, latch, cr, icr, imask, intreq, since, div10, lastdiv10, evtime, lag, writes
Cia == INSTANCE CiaTimers

Count == 0 .. Byte * Byte - 1
Counts == [Chip -> [Cia!Timer -> Count]]
Controls == [Chip -> [Cia!Timer -> SUBSET Cia!Bits]]

TimersTyped ==
  /\ count \in Counts /\ latch \in Counts /\ cr \in Controls
  /\ div10 \in 0 .. 4 /\ lastdiv10 \in 0 .. 4
  /\ since \in Nat /\ evtime \in Nat \cup {Cia!Never}

(* The event does not pass unnoticed, and comes as soon after the last update *)
(* as its remainder allows.  What has not been counted are two remainders.    *)
TimersInv ==
  /\ TimersTyped
  /\ evtime # Cia!Never => since <= evtime
  /\ \A c \in Chip, t \in Cia!Timer : Cia!CountsClocks(cr, c, t) =>
       evtime # Cia!Never /\ evtime <= 5 - div10 + 5 * count[c][t]
  /\ lag = div10 + lastdiv10

LEMMA SmallestOf ==
  ASSUME NEW T \in SUBSET Nat, NEW x \in T
  PROVE  Cia!Min(T) \in T /\ Cia!Min(T) <= x
  <1>1. \E m \in T : \A y \in T : ~(<<y, m>> \in OpToRel(<, Nat))
        BY WFMin, NatLessThanWellFounded
  <1>2. PICK m \in T : \A y \in T : ~(<<y, m>> \in OpToRel(<, Nat)) BY <1>1
  <1>3. ASSUME NEW y \in T PROVE m <= y
    <2>1. y \in Nat /\ m \in Nat OBVIOUS
    <2>2. ASSUME y < m PROVE FALSE
      <3>1. <<y, m>> \in Nat \X Nat /\ <<y, m>>[1] < <<y, m>>[2] BY <2>1, <2>2
      <3>2. <<y, m>> \in OpToRel(<, Nat) BY <3>1 DEF OpToRel
      <3>3. QED BY <1>2, <3>2
    <2>3. QED BY <2>1, <2>2
  <1>4. \E z \in T : \A y \in T : z <= y BY <1>3
  <1>5. QED BY <1>4 DEF Cia!Min

LEMMA BytePair ==
  ASSUME Cia!CiaAssumption, NEW l \in Count, NEW v \in 0 .. Byte - 1
  PROVE  (l \div Byte) * Byte + v \in Count /\ v * Byte + (l % Byte) \in Count
  <1>1. Byte \in Nat /\ Byte > 1 BY DEF Cia!CiaAssumption
  <1>2. l \in Nat /\ l < Byte * Byte BY <1>1 DEF Count
  <1> DEFINE h == l \div Byte
             r == l % Byte
  <1>3. h \in Int /\ r \in 0 .. Byte - 1 /\ l = Byte * h + r BY <1>1, <1>2
  <1> HIDE DEF h, r
  <1>4. h \in 0 .. Byte - 1
    <2>1. h >= 0
      <3>1. ASSUME h <= -1 PROVE FALSE
        <4>1. Byte * h <= -Byte BY <1>1, <1>3, <3>1
        <4>2. QED BY <1>1, <1>2, <1>3, <4>1
      <3>2. QED BY <1>3, <3>1
    <2>2. h < Byte
      <3>1. ASSUME h >= Byte PROVE FALSE
        <4>1. Byte * h >= Byte * Byte BY <1>1, <1>3, <3>1
        <4>2. QED BY <1>1, <1>2, <1>3, <4>1
      <3>2. QED BY <1>1, <1>3, <3>1
    <2>3. QED BY <1>1, <1>3, <2>1, <2>2
  <1>5. ASSUME NEW a \in 0 .. Byte - 1, NEW b \in 0 .. Byte - 1
        PROVE  a * Byte + b \in Count
    <2>1. a * Byte >= 0 /\ a * Byte \in Int BY <1>1
    <2>2. a * Byte <= (Byte - 1) * Byte BY <1>1
    <2>3. (Byte - 1) * Byte = Byte * Byte - Byte BY <1>1
    <2>4. Byte * Byte \in Int BY <1>1
    <2>5. QED BY <1>1, <2>1, <2>2, <2>3, <2>4 DEF Count
  <1>6. QED BY <1>3, <1>4, <1>5 DEF h, r
------------------------------------------------------------------------------
LEMMA TimersInitInv == ASSUME Cia!CiaAssumption, Cia!Init PROVE TimersInv
  <1>1. Byte \in Nat /\ Byte > 1 BY DEF Cia!CiaAssumption
  <1>2. Byte * Byte - 1 \in Count
    <2>1. Byte * Byte > Byte /\ Byte * Byte \in Int BY <1>1
    <2>2. QED BY <1>1, <2>1 DEF Count
  <1>3. count \in Counts /\ latch \in Counts BY <1>2 DEF Cia!Init, Counts
  <1>4. cr \in Controls /\ \A c \in Chip, t \in Cia!Timer : cr[c][t] = {}
        BY DEF Cia!Init, Controls, Cia!Timer
  <1>5. \A c \in Chip, t \in Cia!Timer : ~Cia!CountsClocks(cr, c, t)
        BY <1>4 DEF Cia!CountsClocks
  <1>6. since = 0 /\ div10 = 0 /\ lastdiv10 = 0 /\ evtime = Cia!Never /\ lag = 0
        BY DEF Cia!Init
  <1>7. QED BY <1>3, <1>4, <1>5, <1>6 DEF TimersInv, TimersTyped

(* Whenever the chips are brought up to date, no underflow has been missed. *)
LEMMA NoneMissed ==
  ASSUME TimersInv, NEW c \in Chip, NEW t \in Cia!Timer, Cia!CountsClocks(cr, c, t)
  PROVE  Cia!ciaclocks \in Nat /\ count[c][t] + 1 >= Cia!ciaclocks
  <1>1. /\ evtime # Cia!Never /\ evtime <= 5 - div10 + 5 * count[c][t]
        /\ since <= evtime /\ since \in Nat /\ evtime \in Nat \cup {Cia!Never}
        /\ div10 \in 0 .. 4 /\ lastdiv10 \in 0 .. 4
        BY DEF TimersInv, TimersTyped
  <1>2. count[c][t] \in Nat
    <2>1. count \in [Chip -> [Cia!Timer -> Count]] BY DEF TimersInv, TimersTyped, Counts
    <2>2. QED BY <2>1 DEF Count
  <1>3. evtime \in Nat BY <1>1
  <1>4. since + lastdiv10 <= 5 * (count[c][t] + 1) + 4 BY <1>1, <1>2, <1>3
  <1>5. (since + lastdiv10) \div 5 <= count[c][t] + 1 /\ (since + lastdiv10) \div 5 \in Nat
        BY <1>1, <1>2, <1>4
  <1>6. QED BY <1>2, <1>5 DEF Cia!ciaclocks, Cia!ccount, Cia!DIV10

LEMMA UpdatedTyped ==
  ASSUME Cia!CiaAssumption, TimersInv
  PROVE  Cia!Updated.count \in Counts /\ Cia!Updated.cr \in Controls
  <1>1. /\ count \in [Chip -> [Cia!Timer -> Count]] /\ latch \in [Chip -> [Cia!Timer -> Count]]
        /\ cr \in [Chip -> [Cia!Timer -> SUBSET Cia!Bits]]
        BY DEF TimersInv, TimersTyped, Counts, Controls
  <1>2. ASSUME NEW c \in Chip, NEW t \in Cia!Timer PROVE Cia!Counted(c, t) \in Count
    <2>1. count[c][t] \in Count /\ latch[c][t] \in Count BY <1>1
    <2> DEFINE B == Byte * Byte
    <2>0. B \in Int BY DEF Cia!CiaAssumption
    <2> HIDE DEF B
    <2>2. CASE Cia!Underflows(c, t) BY <2>1, <2>2 DEF Cia!Counted
    <2>3. CASE ~Cia!Underflows(c, t) /\ Cia!CountsClocks(cr, c, t)
      <3>1. Cia!Counted(c, t) = count[c][t] - Cia!ciaclocks BY <2>3 DEF Cia!Counted
      <3>2. Cia!ciaclocks \in Nat /\ count[c][t] + 1 >= Cia!ciaclocks BY <2>3, NoneMissed
      <3>3. count[c][t] + 1 # Cia!ciaclocks BY <2>3 DEF Cia!Underflows
      <3>4. count[c][t] \in 0 .. B - 1 BY <2>1 DEF Count, B
      <3>5. count[c][t] - Cia!ciaclocks \in 0 .. B - 1 BY <2>0, <3>2, <3>3, <3>4
      <3>6. QED BY <3>1, <3>5 DEF Count, B
    <2>4. CASE /\ ~Cia!Underflows(c, t) /\ ~Cia!CountsClocks(cr, c, t)
               /\ t = "b" /\ Cia!CountsUnderflows(cr, c) /\ Cia!Underflows(c, "a")
      <3>1. Cia!Counted(c, t) = count[c]["b"] - 1 BY <2>4 DEF Cia!Counted
      <3>2. count[c]["b"] # 0 BY <2>4 DEF Cia!Underflows
      <3>3. count[c]["b"] \in 0 .. B - 1 BY <2>1, <2>4 DEF Count, B
      <3>4. count[c]["b"] - 1 \in 0 .. B - 1 BY <2>0, <3>2, <3>3
      <3>5. QED BY <3>1, <3>4 DEF Count, B
    <2>5. CASE /\ ~Cia!Underflows(c, t) /\ ~Cia!CountsClocks(cr, c, t)
               /\ ~(t = "b" /\ Cia!CountsUnderflows(cr, c) /\ Cia!Underflows(c, "a"))
          BY <2>1, <2>5 DEF Cia!Counted
    <2>6. QED BY <2>2, <2>3, <2>4, <2>5
  <1>3. ASSUME NEW c \in Chip, NEW t \in Cia!Timer PROVE Cia!Stopped(c, t) \in SUBSET Cia!Bits
        BY <1>1 DEF Cia!Stopped
  <1>4. QED BY <1>2, <1>3 DEF Cia!Updated, Counts, Controls

(* The event is scheduled for the first underflow. *)
LEMMA TimersSet ==
  ASSUME TimersInv, Cia!UpdateRest, NEW n \in Counts, NEW crs \in Controls,
         Cia!SetTimers(n, crs), latch' \in Counts
  PROVE  TimersInv'
  <1>1. /\ count' = n /\ cr' = crs /\ since' = 0
        /\ evtime' = IF Cia!Times(n, crs) = {} THEN Cia!Never ELSE Cia!Min(Cia!Times(n, crs))
        BY DEF Cia!SetTimers, Cia!CIA_calctimers
  <1>2. /\ lastdiv10' = div10 /\ div10' = (since + lastdiv10) % 5
        /\ lag' = lag + since - 5 * ((since + lastdiv10) \div 5)
        BY DEF Cia!UpdateRest, Cia!ciaclocks, Cia!ccount, Cia!DIV10
  <1>3. since \in Nat /\ div10 \in 0 .. 4 /\ lastdiv10 \in 0 .. 4 /\ lag = div10 + lastdiv10
        BY DEF TimersInv, TimersTyped
  <1>4. lastdiv10' \in 0 .. 4 /\ div10' \in 0 .. 4 /\ lag' = div10' + lastdiv10'
        BY <1>2, <1>3
  <1>5. \A c \in Chip, t \in Cia!Timer : n[c][t] \in Nat /\ latch'[c][t] \in Nat
    <2>1. \A c \in Chip, t \in Cia!Timer : n[c][t] \in Count /\ latch'[c][t] \in Count
          BY DEF Counts
    <2>2. QED BY <2>1 DEF Count
  <1>6. \A c \in Chip, t \in Cia!Timer :
          Cia!Time(c, t, n) = 5 - div10' + 5 * n[c][t] /\ Cia!Time(c, t, n) \in Nat
        BY <1>4, <1>5 DEF Cia!Time, Cia!DIV10
  <1>7. Cia!Times(n, crs) \in SUBSET Nat
    <2>1. "a" \in Cia!Timer /\ "b" \in Cia!Timer BY DEF Cia!Timer
    <2>2. ASSUME NEW c \in Chip
          PROVE  Cia!Time(c, "a", n) + latch'[c]["a"] * Cia!DIV10 * n[c]["b"] \in Nat
      <3>1. Cia!Time(c, "a", n) \in Nat /\ latch'[c]["a"] \in Nat /\ n[c]["b"] \in Nat
            BY <1>5, <1>6, <2>1
      <3>2. QED BY <3>1 DEF Cia!DIV10
    <2>3. ASSUME NEW x \in Cia!Times(n, crs) PROVE x \in Nat
      <3>1. PICK c \in Chip : x \in Cia!ClockTimes(c, n, crs) \cup Cia!CascadeTimes(c, n, crs)
            BY DEF Cia!Times
      <3>2. CASE x \in Cia!ClockTimes(c, n, crs) BY <1>6, <3>2 DEF Cia!ClockTimes
      <3>3. CASE x \in Cia!CascadeTimes(c, n, crs)
        <4>1. x = Cia!Time(c, "a", n) + latch'[c]["a"] * Cia!DIV10 * n[c]["b"]
              BY <3>3 DEF Cia!CascadeTimes
        <4>2. QED BY <2>2, <4>1
      <3>4. QED BY <3>1, <3>2, <3>3
    <2>4. QED BY <2>3
  <1>8. ASSUME NEW c \in Chip, NEW t \in Cia!Timer, Cia!CountsClocks(crs, c, t)
        PROVE  evtime' # Cia!Never /\ evtime' <= 5 - div10' + 5 * n[c][t]
    <2>1. Cia!Time(c, t, n) \in Cia!Times(n, crs)
      <3>1. Cia!Time(c, t, n) \in Cia!ClockTimes(c, n, crs) BY <1>8 DEF Cia!ClockTimes
      <3>2. QED BY <3>1 DEF Cia!Times
    <2>2. Cia!Min(Cia!Times(n, crs)) \in Nat
          /\ Cia!Min(Cia!Times(n, crs)) <= Cia!Time(c, t, n)
          BY <1>7, <2>1, SmallestOf
    <2>3. evtime' = Cia!Min(Cia!Times(n, crs)) BY <1>1, <2>1
    <2>4. QED BY <1>6, <2>2, <2>3 DEF Cia!Never
  <1>9. evtime' \in Nat \cup {Cia!Never}
    <2>1. CASE Cia!Times(n, crs) = {} BY <1>1, <2>1
    <2>2. CASE Cia!Times(n, crs) # {}
      <3>1. PICK x \in Cia!Times(n, crs) : TRUE BY <2>2
      <3>2. Cia!Min(Cia!Times(n, crs)) \in Cia!Times(n, crs) BY <1>7, <3>1, SmallestOf
      <3>3. QED BY <1>1, <1>7, <2>2, <3>2
    <2>3. QED BY <2>1, <2>2
  <1>10. TimersTyped' BY <1>1, <1>4, <1>9 DEF TimersTyped
  <1>11. \A c \in Chip, t \in Cia!Timer : Cia!CountsClocks(cr, c, t)' =>
           evtime' # Cia!Never /\ evtime' <= 5 - div10' + 5 * count'[c][t]
         BY <1>1, <1>8 DEF Cia!CountsClocks
  <1>12. evtime' # Cia!Never => since' <= evtime' BY <1>1, <1>9 DEF Cia!Never
  <1>13. QED BY <1>4, <1>10, <1>11, <1>12 DEF TimersInv
------------------------------------------------------------------------------
LEMMA CycleInv == ASSUME TimersInv, Cia!Cycle PROVE TimersInv'
  <1>1. /\ IF evtime = Cia!Never THEN since < 2 * Cia!DIV10 ELSE since < evtime
        /\ since' = since + 1
        /\ UNCHANGED <<count, latch, cr, div10, lastdiv10, evtime, lag>>
        BY DEF Cia!Cycle, Cia!chips
  <1>2. since \in Nat /\ evtime \in Nat \cup {Cia!Never} BY DEF TimersInv, TimersTyped
  <1>3. TimersTyped' BY <1>1, <1>2 DEF TimersInv, TimersTyped
  <1>4. evtime' # Cia!Never => since' <= evtime' BY <1>1, <1>2
  <1>5. \A c \in Chip, t \in Cia!Timer : Cia!CountsClocks(cr, c, t)' =>
          evtime' # Cia!Never /\ evtime' <= 5 - div10' + 5 * count'[c][t]
        BY <1>1 DEF TimersInv, Cia!CountsClocks
  <1>6. lag' = div10' + lastdiv10' BY <1>1 DEF TimersInv
  <1>7. QED BY <1>3, <1>4, <1>5, <1>6 DEF TimersInv

LEMMA HandlerInv == ASSUME Cia!CiaAssumption, TimersInv, Cia!CIA_handler PROVE TimersInv'
  <1>1. latch' \in Counts BY DEF Cia!CIA_handler, TimersInv, TimersTyped
  <1>2. Cia!UpdateRest /\ Cia!SetTimers(Cia!Updated.count, Cia!Updated.cr)
        BY DEF Cia!CIA_handler
  <1>3. Cia!Updated.count \in Counts /\ Cia!Updated.cr \in Controls BY UpdatedTyped
  <1>4. QED BY <1>1, <1>2, <1>3, TimersSet

LEMMA CountsWith ==
  ASSUME NEW f \in Counts, NEW c \in Chip, NEW t \in Cia!Timer, NEW l \in Count
  PROVE  [f EXCEPT ![c][t] = l] \in Counts
  BY DEF Counts

LEMMA WriteLowInv ==
  ASSUME Cia!CiaAssumption, TimersInv, NEW c \in Chip, NEW t \in Cia!Timer,
         NEW v \in 0 .. Byte - 1, Cia!WriteLow(c, t, v)
  PROVE  TimersInv'
  <1>1. latch \in Counts BY DEF TimersInv, TimersTyped
  <1>2. latch[c][t] \in Count BY <1>1 DEF Counts
  <1>3. (latch[c][t] \div Byte) * Byte + v \in Count BY <1>2, BytePair
  <1>4. latch' = [latch EXCEPT ![c][t] = (latch[c][t] \div Byte) * Byte + v]
        BY DEF Cia!WriteLow
  <1>5. latch' \in Counts BY <1>1, <1>3, <1>4, CountsWith
  <1>6. Cia!UpdateRest /\ Cia!SetTimers(Cia!Updated.count, Cia!Updated.cr)
        BY DEF Cia!WriteLow
  <1>7. Cia!Updated.count \in Counts /\ Cia!Updated.cr \in Controls BY UpdatedTyped
  <1>8. QED BY <1>5, <1>6, <1>7, TimersSet

LEMMA WriteHighInv ==
  ASSUME Cia!CiaAssumption, TimersInv, NEW c \in Chip, NEW t \in Cia!Timer,
         NEW v \in 0 .. Byte - 1, Cia!WriteHigh(c, t, v)
  PROVE  TimersInv'
  <1> DEFINE l == v * Byte + (latch[c][t] % Byte)
             n0 == Cia!Updated.count
             r0 == Cia!Updated.cr
             n == [n0 EXCEPT ![c][t] = IF Cia!Loads(r0, c, t) THEN l ELSE n0[c][t]]
             r == [r0 EXCEPT ![c][t] =
                     IF "ONESHOT" \in r0[c][t] THEN r0[c][t] \cup {"START"} ELSE r0[c][t]]
  <1>1. latch \in Counts BY DEF TimersInv, TimersTyped
  <1>2. latch[c][t] \in Count BY <1>1 DEF Counts
  <1>3. l \in Count BY <1>2, BytePair
  <1>4. latch' = [latch EXCEPT ![c][t] = l] /\ Cia!UpdateRest /\ Cia!SetTimers(n, r)
        BY DEF Cia!WriteHigh
  <1> HIDE DEF l
  <1>5. latch' \in Counts BY <1>1, <1>3, <1>4, CountsWith
  <1>6. n0 \in Counts /\ r0 \in Controls BY UpdatedTyped
  <1> HIDE DEF n0, r0
  <1>7. n \in Counts
    <2>1. n0[c][t] \in Count BY <1>6 DEF Counts
    <2>2. (IF Cia!Loads(r0, c, t) THEN l ELSE n0[c][t]) \in Count BY <1>3, <2>1
    <2>3. QED BY <1>6, <2>2, CountsWith
  <1>8. r \in Controls BY <1>6 DEF Controls, Cia!Bits
  <1> HIDE DEF n, r
  <1>9. QED BY <1>4, <1>5, <1>7, <1>8, TimersSet

LEMMA WriteControlInv ==
  ASSUME Cia!CiaAssumption, TimersInv, NEW c \in Chip, NEW t \in Cia!Timer,
         NEW v \in Control, Cia!WriteControl(c, t, v)
  PROVE  TimersInv'
  <1> DEFINE n0 == Cia!Updated.count
             r0 == Cia!Updated.cr
             n == [n0 EXCEPT ![c][t] = IF "LOAD" \in v THEN latch[c][t] ELSE n0[c][t]]
             r == [r0 EXCEPT ![c][t] = v \ {"LOAD"}]
  <1>1. latch \in Counts BY DEF TimersInv, TimersTyped
  <1>2. latch[c][t] \in Count BY <1>1 DEF Counts
  <1>3. latch' = latch /\ Cia!UpdateRest /\ Cia!SetTimers(n, r) BY DEF Cia!WriteControl
  <1>4. latch' \in Counts BY <1>1, <1>3
  <1>5. n0 \in Counts /\ r0 \in Controls BY UpdatedTyped
  <1> HIDE DEF n0, r0
  <1>6. n \in Counts
    <2>1. n0[c][t] \in Count BY <1>5 DEF Counts
    <2>2. (IF "LOAD" \in v THEN latch[c][t] ELSE n0[c][t]) \in Count BY <1>2, <2>1
    <2>3. QED BY <1>5, <2>2, CountsWith
  <1>7. r \in Controls
    <2>1. v \ {"LOAD"} \in SUBSET Cia!Bits BY DEF Cia!CiaAssumption
    <2>2. QED BY <1>5, <2>1 DEF Controls
  <1> HIDE DEF n, r
  <1>8. QED BY <1>3, <1>4, <1>6, <1>7, TimersSet

LEMMA TimersKept ==
  ASSUME TimersInv, UNCHANGED <<count, latch, cr, since, div10, lastdiv10, evtime, lag>>
  PROVE  TimersInv'
  BY DEF TimersInv, TimersTyped, Cia!CountsClocks

LEMMA TimersNextInv ==
  ASSUME Cia!CiaAssumption, TimersInv, [Cia!Next]_Cia!vars PROVE TimersInv'
  <1>1. CASE Cia!Cycle BY <1>1, CycleInv
  <1>2. CASE Cia!CIA_handler BY <1>2, HandlerInv
  <1>3. ASSUME NEW c \in Chip, Cia!ReadIcr(c) PROVE TimersInv'
        BY <1>3, TimersKept DEF Cia!ReadIcr
  <1>4. ASSUME NEW c \in Chip, NEW s \in SUBSET Cia!Timer, NEW set \in BOOLEAN,
               Cia!WriteMask(c, s, set)
        PROVE  TimersInv'
        BY <1>4, TimersKept DEF Cia!WriteMask
  <1>5. ASSUME NEW c \in Chip, NEW t \in Cia!Timer, NEW v \in 0 .. Byte - 1,
               Cia!WriteLow(c, t, v) \/ Cia!WriteHigh(c, t, v)
        PROVE  TimersInv'
        BY <1>5, WriteLowInv, WriteHighInv
  <1>6. ASSUME NEW c \in Chip, NEW t \in Cia!Timer, NEW v \in Control, Cia!WriteControl(c, t, v)
        PROVE  TimersInv'
        BY <1>6, WriteControlInv
  <1>7. CASE UNCHANGED Cia!vars BY <1>7, TimersKept DEF Cia!vars, Cia!chips
  <1>8. QED BY <1>1, <1>2, <1>3, <1>4, <1>5, <1>6, <1>7 DEF Cia!Next

(* The event is not passed unnoticed, comes as soon after the last update    *)
(* as its remainder allows, and what has not been counted is the two         *)
(* remainders (CIA_update(), CIA_calctimers()).                              *)
THEOREM TimersInvHolds == ASSUME Cia!CiaAssumption PROVE Cia!Spec => []TimersInv
  <1>1. Cia!Init => TimersInv BY TimersInitInv
  <1>2. TimersInv /\ [Cia!Next]_Cia!vars => TimersInv' BY TimersNextInv
  <1>3. QED BY <1>1, <1>2, PTL DEF Cia!Spec

(* The assertions of CIA_update(): whenever the chips are brought up to      *)
(* date, no timer that counts clocks has missed its underflow, whatever was  *)
(* written in between.                                                       *)
THEOREM NoneMissedHolds == ASSUME Cia!CiaAssumption PROVE Cia!Spec => []Cia!AssertionsHold
  <1>1. TimersInv => Cia!AssertionsHold BY NoneMissed DEF Cia!AssertionsHold
  <1>2. QED BY <1>1, TimersInvHolds, PTL

(* A timer never leaves the values of its two bytes: no count wraps below    *)
(* zero (CIA_update() and the writes to registers 4 to 7, 14 and 15).        *)
THEOREM CountsInRangeHolds == ASSUME Cia!CiaAssumption PROVE Cia!Spec => []Cia!CountsInRange
  <1>1. TimersInv => Cia!CountsInRange
        BY DEF TimersInv, TimersTyped, Counts, Count, Cia!CountsInRange
  <1>2. QED BY <1>1, TimersInvHolds, PTL

(* However many updates cut the time into pieces, the timers are less than   *)
(* two clocks behind it and never ahead (div10 and lastdiv10 of              *)
(* CIA_update()).                                                            *)
THEOREM LagBoundedHolds == ASSUME Cia!CiaAssumption PROVE Cia!Spec => []Cia!LagBounded
  <1>1. TimersInv => Cia!LagBounded
    <2>1. ASSUME TimersInv PROVE Cia!LagBounded
      <3>1. lag = div10 + lastdiv10 /\ div10 \in 0 .. 4 /\ lastdiv10 \in 0 .. 4
            BY <2>1 DEF TimersInv, TimersTyped
      <3>2. lag \in 0 .. 8 BY <3>1
      <3>3. QED BY <3>2 DEF Cia!LagBounded, Cia!DIV10
    <2>2. QED BY <2>1
  <1>2. QED BY <1>1, TimersInvHolds, PTL

(* Every timer that counts clocks has an event coming, not later than its    *)
(* underflow is due (CIA_calctimers()).                                      *)
THEOREM EventComingHolds == ASSUME Cia!CiaAssumption PROVE Cia!Spec => []Cia!EventComing
  <1>1. TimersInv => Cia!EventComing
    <2>1. ASSUME TimersInv, NEW c \in Chip, NEW t \in Cia!Timer, Cia!CountsClocks(cr, c, t)
          PROVE  /\ evtime # Cia!Never
                 /\ since <= evtime /\ evtime <= Cia!DIV10 * (count[c][t] + 1)
      <3>1. /\ evtime # Cia!Never /\ since <= evtime /\ evtime <= 5 - div10 + 5 * count[c][t]
            /\ div10 \in 0 .. 4 /\ evtime \in Nat \cup {Cia!Never}
            BY <2>1 DEF TimersInv, TimersTyped
      <3>2. count[c][t] \in Int BY <2>1 DEF TimersInv, TimersTyped, Counts, Count
      <3>3. evtime \in Nat BY <3>1
      <3>4. evtime <= 5 * (count[c][t] + 1) BY <3>1, <3>2, <3>3
      <3>5. QED BY <3>1, <3>4 DEF Cia!DIV10
    <2>2. QED BY <2>1 DEF Cia!EventComing
  <1>2. QED BY <1>1, TimersInvHolds, PTL

(* An underflow whose interrupt is enabled sets INTREQ in the same step,     *)
(* even if an older interrupt of the chip has not been read (RethinkICRA(),  *)
(* RethinkICRB()).                                                           *)
THEOREM UnderflowsInterrupt == Cia!Spec => Cia!UnderflowInterrupts
  <1>1. Cia!UnderflowStep
    <2>1. ASSUME NEW c \in Chip, NEW t \in Cia!Timer,
                 Cia!Underflows(c, t), Cia!UpdateRest, t \in imask[c]
          PROVE  c \in intreq'
      <3>1. t \in Cia!Noticed(c) BY <2>1 DEF Cia!Noticed
      <3>2. Cia!Rethink(c, Cia!Noticed(c)) BY <2>1, <3>1 DEF Cia!Rethink
      <3>3. QED BY <2>1, <3>2 DEF Cia!UpdateRest
    <2>2. QED BY <2>1 DEF Cia!UnderflowStep
  <1>2. QED BY <1>1, PTL DEF Cia!UnderflowInterrupts
------------------------------------------------------------------------------
(* The time of day counters of the CIAs, with constants and variables named   *)
(* as there but for the alarm that was noticed                               *)

VARIABLES tod, todon, tol, tlatch, alarm, setsAlarm, noticed, read, snapshot, written
Tod == INSTANCE CiaTod WITH icr <- noticed

Digit == 0 .. Byte - 1
Time == 0 .. Byte * Byte * Byte - 1
Joined(h, m, l) == Byte * Byte * h + Byte * m + l

(* What is being read is latched, a counter that is being set is stopped.    *)
TodInv ==
  /\ tod \in Time /\ tol \in Time /\ alarm \in Time
  /\ todon \in BOOLEAN
  /\ read = <<>> \/
       /\ tlatch /\ snapshot = tol
       /\ \/ read = <<Tod!Digit(tol, "high")>>
          \/ read = <<Tod!Digit(tol, "high"), Tod!Digit(tol, "mid")>>
  /\ written = <<>> \/
       /\ ~todon
       /\ \/ written = <<Tod!Digit(tod, "high")>>
          \/ written = <<Tod!Digit(tod, "high"), Tod!Digit(tod, "mid")>>

LEMMA Divided ==
  ASSUME NEW b \in Nat \ {0}, NEW q \in Nat, NEW r \in 0 .. b - 1
  PROVE  (b * q + r) \div b = q /\ (b * q + r) % b = r
  <1> DEFINE a == b * q + r
  <1>1. a \in Nat
    <2>1. b * q \in Nat OBVIOUS
    <2>2. QED BY <2>1
  <1>2. PICK p \in Int, s \in 0 .. b - 1 : p = a \div b /\ s = a % b /\ a = b * p + s
    <2>1. a \div b \in Int /\ a % b \in 0 .. b - 1 /\ a = b * (a \div b) + (a % b) BY <1>1
    <2>2. QED BY <2>1
  <1>3. b * (p - q) = r - s /\ b * (p - q) \in Int
    <2>1. b * (p - q) = b * p - b * q BY <1>2
    <2>2. b * p + s = b * q + r BY <1>2
    <2>3. b * p \in Int /\ b * q \in Int BY <1>2
    <2>4. QED BY <1>2, <2>1, <2>2, <2>3
  <1>4. ~(p - q >= 1)
    <2>1. ASSUME p - q >= 1 PROVE FALSE
      <3>1. b * (p - q) >= b BY <1>2, <2>1
      <3>2. QED BY <1>2, <1>3, <3>1
    <2>2. QED BY <2>1
  <1>5. ~(p - q <= -1)
    <2>1. ASSUME p - q <= -1 PROVE FALSE
      <3>1. b * (p - q) <= -b BY <1>2, <2>1
      <3>2. QED BY <1>2, <1>3, <3>1
    <2>2. QED BY <2>1
  <1>6. p = q BY <1>2, <1>4, <1>5
  <1>7. s = r BY <1>2, <1>3, <1>6
  <1>8. QED BY <1>2, <1>6, <1>7

(* Three digits are a time, and it has these digits. *)
LEMMA JoinedDigits ==
  ASSUME Tod!ByteAssumption, NEW h \in Digit, NEW m \in Digit, NEW l \in Digit
  PROVE  /\ Joined(h, m, l) \in Time
         /\ Tod!Digit(Joined(h, m, l), "high") = h
         /\ Tod!Digit(Joined(h, m, l), "mid") = m
         /\ Tod!Digit(Joined(h, m, l), "low") = l
  <1>1. Byte \in Nat \ {0} /\ h \in 0 .. Byte - 1 /\ m \in 0 .. Byte - 1 /\ l \in 0 .. Byte - 1
        BY DEF Tod!ByteAssumption, Digit
  <1>2. PICK b \in Nat \ {0} : b = Byte BY <1>1
  <1>3. PICK w \in Nat \ {0} : w = b * b
    <2>1. b * b \in Nat \ {0} BY <1>2
    <2>2. QED BY <2>1
  <1>4. PICK n \in Nat : n = Joined(h, m, l) /\ n = w * h + b * m + l
    <2>1. w * h \in Nat /\ b * m \in Nat BY <1>1
    <2>2. QED BY <1>1, <1>2, <1>3, <2>1 DEF Joined
  <1>5. PICK k \in Nat : k = b * h + m /\ n = b * k + l
    <2>1. b * h \in Nat BY <1>1
    <2>2. b * (b * h + m) = (b * b) * h + b * m BY <1>1, <2>1
    <2>3. QED BY <1>1, <1>3, <1>4, <2>1, <2>2
  <1>6. n \div b = k /\ n % b = l BY <1>1, <1>2, <1>5, Divided
  <1>7. k \div b = h /\ k % b = m
    <2>1. h \in Nat /\ m \in 0 .. b - 1 /\ k = b * h + m BY <1>1, <1>2, <1>5
    <2>2. (b * h + m) \div b = h /\ (b * h + m) % b = m BY <2>1, Divided
    <2>3. QED BY <2>1, <2>2
  <1>8. n \div w = h
    <2>1. b * m + l \in 0 .. w - 1
      <3>1. b * m >= 0 /\ b * m <= b * (b - 1) /\ b * m \in Int BY <1>1, <1>2
      <3>2. b * (b - 1) = w - b BY <1>3
      <3>3. QED BY <1>1, <1>2, <1>3, <3>1, <3>2
    <2>2. PICK r \in 0 .. w - 1 : r = b * m + l BY <2>1
    <2>3. n = w * h + r
      <3>1. w * h \in Nat /\ b * m \in Nat BY <1>1
      <3>2. QED BY <1>1, <1>4, <2>2, <3>1
    <2>4. h \in Nat BY <1>1
    <2>5. QED BY <2>2, <2>3, <2>4, Divided
  <1>9. h % b = h /\ n \div 1 = n BY <1>1, <1>2
  <1>10. n <= b * w - 1
    <2>1. b * k <= b * (w - 1)
      <3>1. b * h <= b * (b - 1) /\ b * h \in Int BY <1>1, <1>2
      <3>2. b * (b - 1) = w - b BY <1>3
      <3>3. k <= w - 1 BY <1>1, <1>2, <1>5, <3>1, <3>2
      <3>4. QED BY <1>3, <1>5, <3>3
    <2>2. b * (w - 1) = b * w - b /\ b * w \in Int /\ b * k \in Int BY <1>3, <1>5
    <2>3. QED BY <1>1, <1>2, <1>5, <2>1, <2>2
  <1>11. Joined(h, m, l) \in Time
    <2>1. b * w = b * b * b /\ b * w \in Int BY <1>3
    <2>2. QED BY <1>2, <1>4, <1>10, <2>1 DEF Time
  <1>12. Tod!Digit(n, "high") = h /\ Tod!Digit(n, "mid") = m /\ Tod!Digit(n, "low") = l
         BY <1>2, <1>3, <1>6, <1>7, <1>8, <1>9 DEF Tod!Digit, Tod!Weight
  <1>13. QED BY <1>4, <1>11, <1>12

(* Every time has three digits. *)
LEMMA TimeDigits ==
  ASSUME Tod!ByteAssumption, NEW n \in Time
  PROVE  \E h, m, l \in Digit :
           /\ n = Joined(h, m, l) /\ Tod!Digit(n, "high") = h
           /\ Tod!Digit(n, "mid") = m /\ Tod!Digit(n, "low") = l
  <1>1. PICK b \in Nat \ {0} : b = Byte BY DEF Tod!ByteAssumption
  <1>2. PICK w \in Nat \ {0} : w = b * b
    <2>1. b * b \in Nat \ {0} BY <1>1
    <2>2. QED BY <2>1
  <1>3. n \in Nat /\ n < b * w
    <2>1. b * w = b * b * b /\ b * w \in Int BY <1>2
    <2>2. QED BY <1>1, <2>1 DEF Time
  <1>4. PICK k \in Nat, l \in 0 .. b - 1 : n = b * k + l
    <2>1. n \div b \in Nat /\ n % b \in 0 .. b - 1 /\ n = b * (n \div b) + (n % b) BY <1>3
    <2>2. QED BY <2>1
  <1>5. PICK h \in Nat, m \in 0 .. b - 1 : k = b * h + m
    <2>1. k \div b \in Nat /\ k % b \in 0 .. b - 1 /\ k = b * (k \div b) + (k % b) BY <1>4
    <2>2. QED BY <2>1
  <1>6. n = w * h + b * m + l
    <2>1. b * (b * h + m) = (b * b) * h + b * m BY <1>5
    <2>2. QED BY <1>2, <1>4, <1>5, <2>1
  <1>7. h \in 0 .. b - 1
    <2>1. ASSUME h >= b PROVE FALSE
      <3>1. w * h >= w * b /\ w * h \in Int /\ w * b = b * w BY <1>2, <1>5, <2>1
      <3>2. b * m >= 0 /\ b * m \in Int BY <1>5
      <3>3. QED BY <1>3, <1>4, <1>6, <3>1, <3>2
    <2>2. QED BY <1>5, <2>1
  <1>8. n = Joined(h, m, l) BY <1>1, <1>2, <1>6 DEF Joined
  <1>9. h \in Digit /\ m \in Digit /\ l \in Digit BY <1>1, <1>4, <1>5, <1>7 DEF Digit
  <1>10. QED BY <1>8, <1>9, JoinedDigits

(* A byte that is written changes its digit and no other. *)
LEMMA WithDigits ==
  ASSUME Tod!ByteAssumption, NEW n \in Time, NEW d \in Tod!Digits, NEW v \in Digit
  PROVE  /\ Tod!With(n, d, v) \in Time
         /\ \A e \in Tod!Digits :
              Tod!Digit(Tod!With(n, d, v), e) = (IF e = d THEN v ELSE Tod!Digit(n, e))
  <1>1. PICK h \in Digit, m \in Digit, l \in Digit :
          /\ n = Joined(h, m, l) /\ Tod!Digit(n, "high") = h
          /\ Tod!Digit(n, "mid") = m /\ Tod!Digit(n, "low") = l
        BY TimeDigits
  <1>2. PICK b \in Nat : b = Byte BY DEF Tod!ByteAssumption
  <1>3. h \in Nat /\ m \in Nat /\ l \in Nat /\ v \in Nat BY DEF Digit
  <1>4. PICK w \in Nat : w = b * b
    <2>1. b * b \in Nat OBVIOUS
    <2>2. QED BY <2>1
  <1>5. n = w * h + b * m + l BY <1>1, <1>2, <1>4 DEF Joined
  <1>6. /\ w * h \in Nat /\ b * m \in Nat /\ w * v \in Nat /\ b * v \in Nat BY <1>3, <1>4
  <1>7. CASE d = "low"
    <2>1. Tod!With(n, d, v) = n - 1 * l + 1 * v BY <1>1, <1>7 DEF Tod!With, Tod!Weight
    <2>2. Tod!With(n, d, v) = w * h + b * m + v BY <1>3, <1>5, <1>6, <2>1
    <2>3. Tod!With(n, d, v) = Joined(h, m, v) BY <1>2, <1>4, <2>2 DEF Joined
    <2>4. QED BY <1>1, <1>7, <2>3, JoinedDigits DEF Tod!Digits
  <1>8. CASE d = "mid"
    <2>1. Tod!With(n, d, v) = n - b * m + b * v BY <1>1, <1>2, <1>8 DEF Tod!With, Tod!Weight
    <2>2. Tod!With(n, d, v) = w * h + b * v + l BY <1>3, <1>5, <1>6, <2>1
    <2>3. Tod!With(n, d, v) = Joined(h, v, l) BY <1>2, <1>4, <2>2 DEF Joined
    <2>4. QED BY <1>1, <1>8, <2>3, JoinedDigits DEF Tod!Digits
  <1>9. CASE d = "high"
    <2>1. Tod!With(n, d, v) = n - w * h + w * v
          BY <1>1, <1>2, <1>4, <1>9 DEF Tod!With, Tod!Weight
    <2>2. Tod!With(n, d, v) = w * v + b * m + l BY <1>3, <1>5, <1>6, <2>1
    <2>3. Tod!With(n, d, v) = Joined(v, m, l) BY <1>2, <1>4, <2>2 DEF Joined
    <2>4. QED BY <1>1, <1>9, <2>3, JoinedDigits DEF Tod!Digits
  <1>10. QED BY <1>7, <1>8, <1>9 DEF Tod!Digits

LEMMA TodInitInv == ASSUME Tod!ByteAssumption, Tod!Init PROVE TodInv
  <1>1. PICK b \in Nat \ {0} : b = Byte BY DEF Tod!ByteAssumption
  <1>2. b * b * b \in Nat /\ b * b * b >= 1
    <2>1. b * b \in Nat /\ b * b >= 1 BY <1>1
    <2>2. QED BY <1>1, <2>1
  <1>3. 0 \in Time BY <1>1, <1>2 DEF Time
  <1>4. QED BY <1>3 DEF Tod!Init, Tod!Nothing, TodInv

LEMMA SyncInv == ASSUME Tod!ByteAssumption, TodInv, Tod!Sync PROVE TodInv'
  <1>1. PICK b \in Nat \ {0} : b = Byte BY DEF Tod!ByteAssumption
  <1>2. PICK c \in Nat \ {0} : c = b * b * b
    <2>1. b * b \in Nat /\ b * b >= 1 BY <1>1
    <2>2. b * b * b \in Nat \ {0} BY <1>1, <2>1
    <2>3. QED BY <2>2
  <1>3. tod' \in Time
    <2>1. tod \in 0 .. c - 1 /\ Time = 0 .. c - 1 BY <1>1, <1>2 DEF TodInv, Time
    <2>2. (tod + 1) % c \in 0 .. c - 1 BY <2>1
    <2>3. Tod!Range_ = c BY <1>1, <1>2 DEF Tod!Range_
    <2>4. QED BY <2>1, <2>2, <2>3 DEF Tod!Sync, Tod!Counted
  <1>4. UNCHANGED <<todon, tol, tlatch, alarm, read, snapshot, written>> BY DEF Tod!Sync
  <1>5. ~todon => tod' = tod BY DEF Tod!Sync
  <1>6. QED BY <1>3, <1>4, <1>5 DEF TodInv

LEMMA ReadInv ==
  ASSUME TodInv, Tod!ReadHigh \/ Tod!ReadMid \/ Tod!ReadLow
  PROVE  TodInv'
  <1>1. /\ UNCHANGED <<tod, todon, alarm, written>> /\ tol' \in {tol, tod}
        BY DEF Tod!ReadHigh, Tod!ReadMid, Tod!ReadLow
  <1>2. \/ read' = <<>>
        \/ /\ tlatch' /\ snapshot' = tol'
           /\ \/ read' = <<Tod!Digit(tol', "high")>>
              \/ read' = <<Tod!Digit(tol', "high"), Tod!Digit(tol', "mid")>>
    <2>1. CASE Tod!ReadHigh BY <2>1 DEF Tod!ReadHigh
    <2>2. CASE Tod!ReadMid
      <3>1. CASE Len(read) = 1
        <4>1. read # <<>> BY <3>1
        <4>2. /\ tlatch /\ snapshot = tol
              /\ \/ read = <<Tod!Digit(tol, "high")>>
                 \/ read = <<Tod!Digit(tol, "high"), Tod!Digit(tol, "mid")>>
              BY <4>1 DEF TodInv
        <4>3. read[1] = Tod!Digit(tol, "high") BY <4>2
        <4>4. Tod!Shown("mid") = Tod!Digit(tol, "mid") BY <4>2 DEF Tod!Shown
        <4>5. QED BY <2>2, <3>1, <4>2, <4>3, <4>4 DEF Tod!ReadMid
      <3>2. QED BY <2>2, <3>1 DEF Tod!ReadMid, Tod!Nothing
    <2>3. CASE Tod!ReadLow BY <2>3 DEF Tod!ReadLow, Tod!Nothing
    <2>4. QED BY <2>1, <2>2, <2>3
  <1>3. QED BY <1>1, <1>2 DEF TodInv

LEMMA WriteInv ==
  ASSUME Tod!ByteAssumption, TodInv,
         NEW d \in Tod!Digits, NEW v \in Digit, Tod!Write(d, v)
  PROVE  TodInv'
  <1>1. UNCHANGED <<tol, tlatch, read, snapshot>> BY DEF Tod!Write
  <1>2. CASE setsAlarm
    <2>1. alarm' = Tod!With(alarm, d, v) /\ UNCHANGED <<tod, todon, written>>
          BY <1>2 DEF Tod!Write
    <2>2. alarm' \in Time BY <2>1, WithDigits DEF TodInv
    <2>3. QED BY <1>1, <2>1, <2>2 DEF TodInv
  <1>3. CASE ~setsAlarm
    <2>1. tod' = Tod!With(tod, d, v) /\ todon' = (d = "low") /\ alarm' = alarm
          BY <1>3 DEF Tod!Write, Tod!Starts
    <2>2. /\ tod' \in Time
          /\ \A e \in Tod!Digits :
               Tod!Digit(tod', e) = (IF e = d THEN v ELSE Tod!Digit(tod, e))
          BY <2>1, WithDigits DEF TodInv
    <2>3. written' = <<>> \/
            /\ ~todon'
            /\ \/ written' = <<Tod!Digit(tod', "high")>>
               \/ written' = <<Tod!Digit(tod', "high"), Tod!Digit(tod', "mid")>>
      <3>1. CASE d = "high"
        <4>1. written' = <<v>> BY <1>3, <3>1 DEF Tod!Write
        <4>2. Tod!Digit(tod', "high") = v BY <2>2, <3>1 DEF Tod!Digits
        <4>3. QED BY <2>1, <3>1, <4>1, <4>2
      <3>2. CASE d = "mid" /\ Len(written) = 1
        <4>1. written' = <<written[1], v>> BY <1>3, <3>2 DEF Tod!Write
        <4>2. written # <<>> BY <3>2
        <4>3. written[1] = Tod!Digit(tod, "high") BY <4>2 DEF TodInv
        <4>4. Tod!Digit(tod', "high") = Tod!Digit(tod, "high") /\ Tod!Digit(tod', "mid") = v
              BY <2>2, <3>2 DEF Tod!Digits
        <4>5. QED BY <2>1, <3>2, <4>1, <4>3, <4>4
      <3>3. CASE d # "high" /\ ~(d = "mid" /\ Len(written) = 1)
        BY <1>3, <3>3 DEF Tod!Write, Tod!Nothing
      <3>4. QED BY <3>1, <3>2, <3>3
    <2>4. QED BY <1>1, <2>1, <2>2, <2>3 DEF TodInv
  <1>4. QED BY <1>2, <1>3

LEMMA TodNextInv ==
  ASSUME Tod!ByteAssumption, TodInv, [Tod!Next]_Tod!vars PROVE TodInv'
  <1>1. CASE Tod!Sync BY <1>1, SyncInv
  <1>2. CASE Tod!ReadHigh \/ Tod!ReadMid \/ Tod!ReadLow BY <1>2, ReadInv
  <1>3. CASE Tod!ReadIcr \/ (\E on \in BOOLEAN : Tod!SelectAlarm(on)) \/ UNCHANGED Tod!vars
    <2>1. UNCHANGED <<tod, todon, tol, tlatch, alarm, read, snapshot, written>>
          BY <1>3 DEF Tod!ReadIcr, Tod!SelectAlarm, Tod!vars
    <2>2. QED BY <2>1 DEF TodInv
  <1>4. ASSUME NEW d \in Tod!Digits, NEW v \in 0 .. Byte - 1, Tod!Write(d, v) PROVE TodInv'
    <2>1. v \in Digit BY <1>4 DEF Digit
    <2>2. QED BY <1>4, <2>1, WriteInv
  <1>5. QED BY <1>1, <1>2, <1>3, <1>4 DEF Tod!Next

(* What is being read is latched as it was at its high byte, a counter that   *)
(* is being set is stopped, and counter, latch and alarm keep to three bytes  *)
(* (CIA_vsync_handler(), ReadCIAA(), WriteCIAA()).                           *)
THEOREM TodInvHolds == ASSUME Tod!ByteAssumption PROVE Tod!Spec => []TodInv
  <1>1. Tod!Init => TodInv BY TodInitInv
  <1>2. TodInv /\ [Tod!Next]_Tod!vars => TodInv' BY TodNextInv
  <1>3. QED BY <1>1, <1>2, PTL DEF Tod!Spec

(* The bytes read from the high to the low one are one value, however the     *)
(* counter counts in between (ReadCIAA(), ciaatol).                          *)
THEOREM ReadIsSnapshotHolds == ASSUME Tod!ByteAssumption PROVE Tod!Spec => []Tod!ReadIsSnapshot
  <1>1. TodInv => Tod!ReadIsSnapshot
    <2>1. ASSUME TodInv, Len(read) = 2
          PROVE  Byte * Byte * read[1] + Byte * read[2] + Tod!Shown("low") = snapshot
      <3>1. read # <<>> BY <2>1
      <3>2. /\ tlatch /\ snapshot = tol /\ tol \in Time
            /\ \/ read = <<Tod!Digit(tol, "high")>>
               \/ read = <<Tod!Digit(tol, "high"), Tod!Digit(tol, "mid")>>
            BY <2>1, <3>1 DEF TodInv
      <3>3. read[1] = Tod!Digit(tol, "high") /\ read[2] = Tod!Digit(tol, "mid")
            BY <2>1, <3>2
      <3>4. Tod!Shown("low") = Tod!Digit(tol, "low") BY <3>2 DEF Tod!Shown
      <3>5. tol = Joined(read[1], read[2], Tod!Shown("low")) BY <3>2, <3>3, <3>4, TimeDigits
      <3>6. QED BY <3>2, <3>5 DEF Joined
    <2>2. QED BY <2>1 DEF Tod!ReadIsSnapshot
  <1>2. QED BY <1>1, TodInvHolds, PTL

(* The bytes written from the high to the low one are the value the counter   *)
(* goes on from: it does not count in between (WriteCIAA(), ciaatodon).      *)
THEOREM WrittenExactlyHolds == ASSUME Tod!ByteAssumption PROVE Tod!Spec => []Tod!WrittenExactly
  <1>1. TodInv => Tod!WrittenExactly
    <2>1. ASSUME TodInv, Len(written) = 2
          PROVE  <<Tod!Digit(tod, "high"), Tod!Digit(tod, "mid")>> = written
      <3>1. written # <<>> BY <2>1
      <3>2. \/ written = <<Tod!Digit(tod, "high")>>
            \/ written = <<Tod!Digit(tod, "high"), Tod!Digit(tod, "mid")>>
            BY <2>1, <3>1 DEF TodInv
      <3>3. QED BY <2>1, <3>2
    <2>2. QED BY <2>1 DEF Tod!WrittenExactly
  <1>2. QED BY <1>1, TodInvHolds, PTL
------------------------------------------------------------------------------
(* The exceptions of the processor, with constants and variables named as     *)
(* there but for its phase and INTREQ                                        *)

CONSTANTS Bits, Program, Words, MaxTraps
VARIABLES regs, flags, intena, master, requests, memory, step, calls
Cpu == INSTANCE Cpu68k WITH phase <- step, intreq <- requests

StackName == {"usp", "isp", "msp"}
StackPointer == [stack : StackName, n : Nat]
Registers == [s : BOOLEAN, m : BOOLEAN, intmask : 0 .. 7,
              a7 : StackPointer, usp : StackPointer, isp : StackPointer, msp : StackPointer]

(* Registers the processor may have: each stack's pointer points into it. *)
Sane(r) == r \in Registers /\ \A k \in StackName : Cpu!Seen(r)[k].stack = k

(* An exception's frame, the second one of an interrupt in master mode, and  *)
(* what the pointers are after it.                                          *)
Twofold(exc) == Cpu!Throwaway(exc.nr, exc.regs)
FrameAt(exc) ==
  IF Twofold(exc) THEN Cpu!Down(Cpu!Seen(exc.regs)["msp"], 4)
  ELSE Cpu!Down(Cpu!Seen(exc.regs)["isp"], Cpu!FrameSize(exc.nr))
EmptyAt(exc) == Cpu!Down(Cpu!Seen(exc.regs)["isp"], 4)
FramesOf(exc) == {FrameAt(exc)} \cup (IF Twofold(exc) THEN {EmptyAt(exc)} ELSE {})

Pushed(exc) ==
  [k \in StackName |->
     IF k = "isp" THEN (IF Twofold(exc) THEN EmptyAt(exc) ELSE FrameAt(exc))
     ELSE IF k = "msp" /\ Twofold(exc) THEN FrameAt(exc)
     ELSE Cpu!Seen(exc.regs)[k]]

Interrupts == 25 .. 30
Call == [regs : Registers, nr : {2, 4, 5, 8} \cup Interrupts]

(* Address a is on a stack that reaches at least as far. *)
Below(a, r) == a \in StackPointer /\ a.n <= Cpu!Seen(r)[a.stack].n

\* The registers that the next exception has interrupted, or the present ones.
After(i) == IF i = Len(calls) THEN regs ELSE calls[i + 1].regs

CallOK(exc) ==
  /\ exc \in Call /\ Sane(exc.regs) /\ (exc.regs.m => exc.nr \in Interrupts)
  /\ exc.nr \in Interrupts => exc.nr - 24 > exc.regs.intmask

Stacked(exc) ==
  /\ FrameAt(exc) \in DOMAIN memory
  /\ memory[FrameAt(exc)] = [sr |-> Cpu!MakeSR(exc.regs), fmt |-> Cpu!Format(exc.nr)]
  /\ Twofold(exc) =>
       /\ EmptyAt(exc) \in DOMAIN memory
       /\ memory[EmptyAt(exc)] = [sr |-> [Cpu!MakeSR(exc.regs) EXCEPT !.s = TRUE], fmt |-> 1]

Entry(exc, r) ==
  /\ r.s /\ ~r.m /\ Cpu!Seen(r) = Pushed(exc)
  /\ exc.nr \in Interrupts => r.intmask >= exc.nr - 24

CpuTyped ==
  /\ Sane(regs) /\ flags \subseteq {"INT", "DOINT", "STOP"}
  /\ requests \subseteq Bits /\ intena \subseteq Bits /\ master \in BOOLEAN
  /\ step \in {"insn", "cycles", "special"}
  /\ calls \in Seq(Call) /\ \A i \in 1 .. Len(calls) : CallOK(calls[i])

(* Nothing moves a stack pointer while handlers run: every exception has left *)
(* its frames above those of the ones before it.                            *)
StacksInv ==
  /\ \A i \in 1 .. Len(calls) : Stacked(calls[i]) /\ Entry(calls[i], After(i))
  /\ \A i \in 1 .. Len(calls) : \A a \in FramesOf(calls[i]) :
       /\ Below(a, regs)
       /\ \A j \in i + 1 .. Len(calls) : Below(a, calls[j].regs)
  /\ \A i \in 1 .. Len(calls) : calls[i].nr \in Interrupts =>
       /\ regs.intmask >= calls[i].nr - 24
       /\ \A j \in i + 1 .. Len(calls) : calls[j].regs.intmask >= calls[i].nr - 24

CpuInv == CpuTyped /\ StacksInv /\ Cpu!NothingForgotten
------------------------------------------------------------------------------
LEMMA LargestOf ==
  ASSUME NEW T \in SUBSET (0 .. 6), 0 \in T
  PROVE  Cpu!Max(T) \in T
  <1>1. \E m \in T : \A y \in T : m >= y
    <2> DEFINE Top(k) == k \in T /\ \A y \in T : k >= y
    <2>1. Top(6) \/ Top(5) \/ Top(4) \/ Top(3) \/ Top(2) \/ Top(1) \/ Top(0) OBVIOUS
    <2>2. QED BY <2>1
  <1>2. QED BY <1>1 DEF Cpu!Max

LEMMA LevelRange == Cpu!intlev \in 0 .. 6
  <1>1. ASSUME NEW b PROVE Cpu!LevelOf(b) \in 0 .. 6
    <2>1. CASE b = 13 BY <2>1 DEF Cpu!LevelOf
    <2>2. CASE b \in {11, 12} BY <2>2 DEF Cpu!LevelOf
    <2>3. CASE b \in 7 .. 10 BY <2>3 DEF Cpu!LevelOf
    <2>4. CASE b \in 4 .. 6 BY <2>4 DEF Cpu!LevelOf
    <2>5. CASE b = 3 BY <2>5 DEF Cpu!LevelOf
    <2>6. CASE b # 13 /\ b \notin {11, 12} /\ b \notin 7 .. 10 /\ b \notin 4 .. 6 /\ b # 3
          BY <2>6 DEF Cpu!LevelOf
    <2>7. QED BY <2>1, <2>2, <2>3, <2>4, <2>5, <2>6
  <1> DEFINE T == {0} \cup {Cpu!LevelOf(b) : b \in requests \cap intena}
  <1>2. T \in SUBSET (0 .. 6) /\ 0 \in T BY <1>1
  <1>3. Cpu!Max(T) \in T BY <1>2, LargestOf
  <1>4. QED BY <1>2, <1>3 DEF Cpu!intlev

(* Changing the status register exchanges A7 for another pointer and loses    *)
(* none of the three.                                                       *)
LEMMA SeenKept ==
  ASSUME NEW r \in Registers, NEW sr \in [s : BOOLEAN, m : BOOLEAN, intmask : 0 .. 7]
  PROVE  /\ Cpu!MakeFromSR(r, sr) \in Registers
         /\ Cpu!MakeSR(Cpu!MakeFromSR(r, sr)) = sr
         /\ Cpu!Seen(Cpu!MakeFromSR(r, sr)) = Cpu!Seen(r)
  <1>1. PICK s0, m0, i0, a0, u0, p0, q0 :
          r = [s |-> s0, m |-> m0, intmask |-> i0, a7 |-> a0, usp |-> u0, isp |-> p0, msp |-> q0]
          /\ s0 \in BOOLEAN /\ m0 \in BOOLEAN /\ i0 \in 0 .. 7
          /\ a0 \in StackPointer /\ u0 \in StackPointer /\ p0 \in StackPointer /\ q0 \in StackPointer
        BY DEF Registers
  <1>2. PICK s1, m1, i1 : sr = [s |-> s1, m |-> m1, intmask |-> i1]
          /\ s1 \in BOOLEAN /\ m1 \in BOOLEAN /\ i1 \in 0 .. 7
        OBVIOUS
  <1> DEFINE old == Cpu!Selected(s0, m0)
             new == Cpu!Selected(s1, m1)
             u1 == IF old = "usp" /\ old # new THEN a0 ELSE u0
             p1 == IF old = "isp" /\ old # new THEN a0 ELSE p0
             q1 == IF old = "msp" /\ old # new THEN a0 ELSE q0
             a1 == IF old = new THEN a0 ELSE IF new = "usp" THEN u1
                   ELSE IF new = "msp" THEN q1 ELSE p1
             w == [s |-> s1, m |-> m1, intmask |-> i1, a7 |-> a1, usp |-> u1, isp |-> p1, msp |-> q1]
  <1>3. old \in StackName /\ new \in StackName BY DEF Cpu!Selected, StackName
  <1>4. Cpu!MakeFromSR(r, sr) = w
    <2>1. Cpu!Selected(r.s, r.m) = old /\ Cpu!Selected(sr.s, sr.m) = new BY <1>1, <1>2
    <2> DEFINE kept == IF old = new THEN r
                       ELSE IF old = "usp" THEN [r EXCEPT !.usp = r.a7]
                       ELSE IF old = "msp" THEN [r EXCEPT !.msp = r.a7]
                       ELSE [r EXCEPT !.isp = r.a7]
    <2>2. Cpu!MakeFromSR(r, sr) =
            [kept EXCEPT !.s = sr.s, !.m = sr.m, !.intmask = sr.intmask,
                         !.a7 = IF old = new THEN @ ELSE kept[new]]
          BY <2>1 DEF Cpu!MakeFromSR
    <2> HIDE DEF old, new
    <2>3. kept = [s |-> s0, m |-> m0, intmask |-> i0, a7 |-> a0, usp |-> u1, isp |-> p1, msp |-> q1]
          BY <1>1, <1>3 DEF StackName
    <2>4. kept["usp"] = u1 /\ kept["isp"] = p1 /\ kept["msp"] = q1 BY <2>3
    <2>5. (IF old = new THEN a0 ELSE kept[new]) = a1 BY <1>3, <2>4 DEF StackName
    <2> HIDE DEF u1, p1, q1, a1, kept
    <2>6. QED BY <1>2, <2>2, <2>3, <2>5
  <1>5. w \in Registers BY <1>1, <1>2 DEF Registers
  <1>6. Cpu!MakeSR(w) = sr BY <1>2 DEF Cpu!MakeSR
  <1>7. Cpu!Seen(w) = Cpu!Seen(r)
    <2>1. ASSUME NEW k \in StackName PROVE Cpu!Seen(w)[k] = Cpu!Seen(r)[k]
      <3>1. CASE k = "usp" BY <1>1, <1>3, <3>1 DEF Cpu!Seen, StackName
      <3>2. CASE k = "isp" BY <1>1, <1>3, <3>2 DEF Cpu!Seen, StackName
      <3>3. CASE k = "msp" BY <1>1, <1>3, <3>3 DEF Cpu!Seen, StackName
      <3>4. QED BY <3>1, <3>2, <3>3 DEF StackName
    <2>2. QED BY <2>1 DEF Cpu!Seen, StackName
  <1>8. QED BY <1>4, <1>5, <1>6, <1>7

LEMMA EnteredSeen ==
  ASSUME NEW r \in Registers
  PROVE  /\ Cpu!Entered(r) \in Registers /\ Cpu!Entered(r).s /\ Cpu!Entered(r).m = r.m
         /\ Cpu!Seen(Cpu!Entered(r)) = Cpu!Seen(r)
         /\ Cpu!Entered(r).a7 = IF r.m THEN Cpu!Seen(r)["msp"] ELSE Cpu!Seen(r)["isp"]
         /\ r.m => Cpu!Entered(r).isp = Cpu!Seen(r)["isp"]
         /\ Cpu!Entered(r).usp = Cpu!Seen(r)["usp"]
  <1>1. PICK s0, m0, i0, a0, u0, p0, q0 :
          r = [s |-> s0, m |-> m0, intmask |-> i0, a7 |-> a0, usp |-> u0, isp |-> p0, msp |-> q0]
          /\ s0 \in BOOLEAN /\ m0 \in BOOLEAN /\ i0 \in 0 .. 7
          /\ a0 \in StackPointer /\ u0 \in StackPointer /\ p0 \in StackPointer /\ q0 \in StackPointer
        BY DEF Registers
  <1> DEFINE w == Cpu!Entered(r)
             u1 == IF s0 THEN u0 ELSE a0
             a1 == IF s0 THEN a0 ELSE IF m0 THEN q0 ELSE p0
  <1>2. w = [s |-> TRUE, m |-> m0, intmask |-> i0, a7 |-> a1, usp |-> u1, isp |-> p0, msp |-> q0]
    <2>1. CASE s0 BY <1>1, <2>1 DEF Cpu!Entered
    <2>2. CASE ~s0 BY <1>1, <2>2 DEF Cpu!Entered
    <2>3. QED BY <2>1, <2>2
  <1>3. w \in Registers /\ w.s /\ w.m = r.m
    <2>1. u1 \in StackPointer /\ a1 \in StackPointer BY <1>1
    <2> HIDE DEF w, u1, a1
    <2>2. w \in Registers BY <1>1, <1>2, <2>1 DEF Registers
    <2>3. w.s = TRUE /\ w.m = m0 /\ r.m = m0 BY <1>1, <1>2
    <2>4. QED BY <2>2, <2>3
  <1>4. /\ Cpu!Selected(w.s, w.m) = IF m0 THEN "msp" ELSE "isp"
        /\ Cpu!Selected(r.s, r.m) = IF ~s0 THEN "usp" ELSE IF m0 THEN "msp" ELSE "isp"
        BY <1>1, <1>2 DEF Cpu!Selected
  <1> HIDE DEF w
  <1>5. ASSUME NEW k \in StackName PROVE Cpu!Seen(w)[k] = Cpu!Seen(r)[k]
    <2>1. Cpu!Seen(w)[k] = IF k = Cpu!Selected(w.s, w.m) THEN w.a7 ELSE w[k]
          BY DEF Cpu!Seen, StackName
    <2>2. Cpu!Seen(r)[k] = IF k = Cpu!Selected(r.s, r.m) THEN r.a7 ELSE r[k]
          BY DEF Cpu!Seen, StackName
    <2>3. CASE k = "usp" BY <1>1, <1>2, <1>4, <2>1, <2>2, <2>3
    <2>4. CASE k = "isp" BY <1>1, <1>2, <1>4, <2>1, <2>2, <2>4
    <2>5. CASE k = "msp" BY <1>1, <1>2, <1>4, <2>1, <2>2, <2>5
    <2>6. QED BY <2>3, <2>4, <2>5 DEF StackName
  <1>6. Cpu!Seen(w) = Cpu!Seen(r) BY <1>5 DEF Cpu!Seen, StackName
  <1>7. \A k \in StackName : Cpu!Seen(w)[k] = IF k = Cpu!Selected(w.s, w.m) THEN w.a7 ELSE w[k]
        BY DEF Cpu!Seen, StackName
  <1>8. w.a7 = IF r.m THEN Cpu!Seen(r)["msp"] ELSE Cpu!Seen(r)["isp"]
    <2>1. CASE m0 BY <1>1, <1>4, <1>5, <1>7, <2>1 DEF StackName
    <2>2. CASE ~m0 BY <1>1, <1>4, <1>5, <1>7, <2>2 DEF StackName
    <2>3. QED BY <2>1, <2>2
  <1>9. r.m => w.isp = Cpu!Seen(r)["isp"] BY <1>1, <1>4, <1>5, <1>7 DEF StackName
  <1>10. w.usp = Cpu!Seen(r)["usp"] BY <1>1, <1>4, <1>5, <1>7 DEF StackName
  <1>11. QED BY <1>3, <1>6, <1>8, <1>9, <1>10 DEF w

LEMMA SeenTyped ==
  ASSUME NEW r \in Registers, NEW k \in StackName
  PROVE  /\ Cpu!Seen(r)[k] \in StackPointer
         /\ Cpu!Seen(r)[k] = IF k = Cpu!Selected(r.s, r.m) THEN r.a7 ELSE r[k]
  <1>1. Cpu!Seen(r)[k] = IF k = Cpu!Selected(r.s, r.m) THEN r.a7 ELSE r[k]
        BY DEF Cpu!Seen, StackName
  <1>2. r.a7 \in StackPointer /\ r.usp \in StackPointer /\ r.isp \in StackPointer
        /\ r.msp \in StackPointer
        BY DEF Registers
  <1>3. r[k] \in StackPointer BY <1>2 DEF StackName
  <1>4. QED BY <1>1, <1>2, <1>3

LEMMA DownTyped ==
  ASSUME NEW p \in StackPointer, NEW w \in Nat
  PROVE  /\ Cpu!Down(p, w) \in StackPointer /\ Cpu!Down(p, w).stack = p.stack
         /\ Cpu!Down(p, w).n = p.n + w /\ Cpu!Up(Cpu!Down(p, w), w) = p
  <1>1. PICK k \in StackName, n \in Nat : p = [stack |-> k, n |-> n] BY DEF StackPointer
  <1>2. Cpu!Down(p, w) = [stack |-> k, n |-> n + w] BY <1>1 DEF Cpu!Down
  <1>3. Cpu!Up(Cpu!Down(p, w), w) = [stack |-> k, n |-> n + w - w] BY <1>2 DEF Cpu!Up
  <1>4. QED BY <1>1, <1>2, <1>3 DEF StackPointer

LEMMA FrameSizes ==
  ASSUME NEW nr \in {2, 4, 5, 8} \cup Interrupts
  PROVE  /\ Cpu!FrameSize(nr) \in Nat \ {0}
         /\ Cpu!PoppedWords(Cpu!Format(nr)) = Cpu!FrameSize(nr)
         /\ Cpu!Format(nr) # 1
  <1>1. CASE nr = 2 BY <1>1 DEF Cpu!FrameSize, Cpu!Format, Cpu!PoppedWords
  <1>2. CASE nr = 5 BY <1>2 DEF Cpu!FrameSize, Cpu!Format, Cpu!PoppedWords
  <1>3. CASE nr \in {4, 8} \cup Interrupts
        BY <1>3 DEF Cpu!FrameSize, Cpu!Format, Cpu!PoppedWords, Interrupts
  <1>4. QED BY <1>1, <1>2, <1>3

(* The frames of an exception begin where the stacks ended before. *)
LEMMA FramesAbove ==
  ASSUME NEW exc \in Call, Sane(exc.regs)
  PROVE  /\ FrameAt(exc) \in StackPointer
         /\ FrameAt(exc).stack = IF Twofold(exc) THEN "msp" ELSE "isp"
         /\ FrameAt(exc).n > Cpu!Seen(exc.regs)[FrameAt(exc).stack].n
         /\ EmptyAt(exc) \in StackPointer /\ EmptyAt(exc).stack = "isp"
         /\ EmptyAt(exc).n = Cpu!Seen(exc.regs)["isp"].n + 4
         /\ Pushed(exc) \in [StackName -> StackPointer]
         /\ \A k \in StackName : /\ Pushed(exc)[k].stack = k
                                 /\ Cpu!Seen(exc.regs)[k] \in StackPointer
                                 /\ Pushed(exc)[k].n >= Cpu!Seen(exc.regs)[k].n
         /\ \A a \in FramesOf(exc) : a = Pushed(exc)[a.stack]
  <1>1. exc.regs \in Registers /\ exc.nr \in {2, 4, 5, 8} \cup Interrupts BY DEF Call
  <1> DEFINE S == Cpu!Seen(exc.regs)
  <1>2. \A k \in StackName : S[k] \in StackPointer /\ S[k].stack = k
        BY <1>1, SeenTyped DEF Sane
  <1>3. "isp" \in StackName /\ "msp" \in StackName BY DEF StackName
  <1>4. Cpu!FrameSize(exc.nr) \in Nat \ {0} BY <1>1, FrameSizes
  <1> HIDE DEF S
  <1>5. /\ EmptyAt(exc) \in StackPointer /\ EmptyAt(exc).stack = "isp"
        /\ EmptyAt(exc).n = S["isp"].n + 4
        BY <1>2, <1>3, DownTyped DEF EmptyAt, S
  <1>6. CASE Twofold(exc)
    <2>1. FrameAt(exc) = Cpu!Down(S["msp"], 4) BY <1>6 DEF FrameAt, S
    <2>2. /\ FrameAt(exc) \in StackPointer /\ FrameAt(exc).stack = "msp"
          /\ FrameAt(exc).n = S["msp"].n + 4
          BY <1>2, <1>3, <2>1, DownTyped
    <2>3. S["isp"].n \in Nat /\ S["msp"].n \in Nat BY <1>2, <1>3 DEF StackPointer
    <2>4. Pushed(exc) = [k \in StackName |-> IF k = "isp" THEN EmptyAt(exc)
                            ELSE IF k = "msp" THEN FrameAt(exc) ELSE S[k]]
          BY <1>6 DEF Pushed, S
    <2>5. FramesOf(exc) = {FrameAt(exc), EmptyAt(exc)} BY <1>6 DEF FramesOf
    <2>6. ASSUME NEW k \in StackName
          PROVE  /\ Pushed(exc)[k] \in StackPointer /\ Pushed(exc)[k].stack = k
                 /\ Pushed(exc)[k].n >= S[k].n
      <3>1. CASE k = "isp" BY <1>5, <2>3, <2>4, <3>1
      <3>2. CASE k = "msp" BY <2>2, <2>3, <2>4, <3>2
      <3>3. CASE k = "usp" BY <1>2, <2>4, <3>3 DEF StackPointer
      <3>4. QED BY <3>1, <3>2, <3>3 DEF StackName
    <2>7. \A a \in FramesOf(exc) : a = Pushed(exc)[a.stack] BY <1>3, <1>5, <2>2, <2>4, <2>5
    <2>8. Pushed(exc) \in [StackName -> StackPointer] BY <2>4, <2>6
    <2>9. FrameAt(exc).n > S["msp"].n BY <2>2, <2>3
    <2>10. QED BY <1>2, <1>5, <1>6, <2>2, <2>6, <2>7, <2>8, <2>9 DEF S
  <1>7. CASE ~Twofold(exc)
    <2>1. FrameAt(exc) = Cpu!Down(S["isp"], Cpu!FrameSize(exc.nr)) BY <1>7 DEF FrameAt, S
    <2>2. /\ FrameAt(exc) \in StackPointer /\ FrameAt(exc).stack = "isp"
          /\ FrameAt(exc).n = S["isp"].n + Cpu!FrameSize(exc.nr)
          BY <1>2, <1>3, <1>4, <2>1, DownTyped
    <2>3. S["isp"].n \in Nat BY <1>2, <1>3 DEF StackPointer
    <2>4. Pushed(exc) = [k \in StackName |-> IF k = "isp" THEN FrameAt(exc) ELSE S[k]]
          BY <1>7 DEF Pushed, S
    <2>5. FramesOf(exc) = {FrameAt(exc)} BY <1>7 DEF FramesOf
    <2>6. ASSUME NEW k \in StackName
          PROVE  /\ Pushed(exc)[k] \in StackPointer /\ Pushed(exc)[k].stack = k
                 /\ Pushed(exc)[k].n >= S[k].n
      <3>1. CASE k = "isp" BY <1>4, <2>2, <2>3, <2>4, <3>1
      <3>2. CASE k # "isp" BY <1>2, <2>4, <3>2 DEF StackPointer
      <3>3. QED BY <3>1, <3>2
    <2>7. \A a \in FramesOf(exc) : a = Pushed(exc)[a.stack] BY <1>3, <2>2, <2>4, <2>5
    <2>8. Pushed(exc) \in [StackName -> StackPointer] BY <2>4, <2>6
    <2>9. FrameAt(exc).n > S["isp"].n BY <1>4, <2>2, <2>3
    <2>10. QED BY <1>2, <1>5, <1>7, <2>2, <2>6, <2>7, <2>8, <2>9 DEF S
  <1>8. QED BY <1>6, <1>7

LEMMA ExceptionTaken ==
  ASSUME CpuTyped, NEW nr \in {2, 4, 5, 8} \cup Interrupts, regs.m => nr \in Interrupts,
         nr \in Interrupts => nr - 24 > regs.intmask,
         NEW mask \in 0 .. 7, Cpu!Exception(nr, mask), NEW exc, exc = [regs |-> regs, nr |-> nr]
  PROVE  /\ calls' = Append(calls, exc) /\ CallOK(exc)
         /\ Sane(regs') /\ Cpu!Seen(regs') = Pushed(exc)
         /\ regs'.s /\ ~regs'.m /\ regs'.intmask = mask
         /\ FramesOf(exc) \subseteq DOMAIN memory'
         /\ memory'[FrameAt(exc)] = [sr |-> Cpu!MakeSR(regs), fmt |-> Cpu!Format(nr)]
         /\ Twofold(exc) =>
              memory'[EmptyAt(exc)] = [sr |-> [Cpu!MakeSR(regs) EXCEPT !.s = TRUE], fmt |-> 1]
         /\ \A a \in DOMAIN memory \ FramesOf(exc) :
              a \in DOMAIN memory' /\ memory'[a] = memory[a]
  <1>1. regs \in Registers /\ Sane(regs) BY DEF CpuTyped, Sane
  <1>2. exc \in Call /\ CallOK(exc) /\ exc.regs = regs /\ exc.nr = nr
        BY <1>1 DEF Call, CallOK
  <1> DEFINE r == Cpu!Entered(regs)
             S == Cpu!Seen(regs)
             sr == Cpu!MakeSR(regs)
             first == Cpu!Down(r.a7, Cpu!FrameSize(nr))
             last == IF Cpu!Throwaway(nr, r) THEN Cpu!Down(r.isp, 4) ELSE first
             one == Cpu!Written(first, [sr |-> sr, fmt |-> Cpu!Format(nr)])
  <1>3. /\ calls' = Append(calls, [regs |-> regs, nr |-> nr])
        /\ memory' = IF Cpu!Throwaway(nr, r)
                     THEN [a \in {last} \cup DOMAIN one |->
                             IF a = last THEN [sr |-> [sr EXCEPT !.s = TRUE], fmt |-> 1] ELSE one[a]]
                     ELSE one
        /\ regs' = [r EXCEPT !.msp = IF Cpu!Throwaway(nr, r) THEN first ELSE @,
                             !.a7 = last, !.m = FALSE, !.intmask = mask]
        BY DEF Cpu!Exception
  <1>4. /\ r \in Registers /\ r.s /\ r.m = regs.m /\ Cpu!Seen(r) = S
        /\ r.a7 = IF regs.m THEN S["msp"] ELSE S["isp"]
        /\ regs.m => r.isp = S["isp"]
        /\ r.usp = S["usp"]
        BY <1>1, EnteredSeen
  <1>5. Cpu!Throwaway(nr, r) = Twofold(exc) BY <1>2, <1>4 DEF Cpu!Throwaway, Twofold
  <1>6. Twofold(exc) <=> regs.m BY <1>2 DEF Twofold, Cpu!Throwaway, Interrupts
  <1>7. first = FrameAt(exc)
    <2>1. CASE regs.m
      <3>1. Cpu!FrameSize(nr) = 4 BY <2>1 DEF Cpu!FrameSize, Interrupts
      <3>2. QED BY <1>2, <1>4, <1>6, <2>1, <3>1 DEF FrameAt
    <2>2. CASE ~regs.m BY <1>2, <1>4, <1>6, <2>2 DEF FrameAt
    <2>3. QED BY <2>1, <2>2
  <1>8. last = IF Twofold(exc) THEN EmptyAt(exc) ELSE FrameAt(exc)
        BY <1>2, <1>4, <1>5, <1>6, <1>7 DEF EmptyAt
  <1>9. /\ FrameAt(exc) \in StackPointer /\ EmptyAt(exc) \in StackPointer
        /\ Twofold(exc) => FrameAt(exc).stack = "msp" /\ EmptyAt(exc).stack = "isp"
        /\ ~Twofold(exc) => FrameAt(exc).stack = "isp"
        /\ Pushed(exc) \in [StackName -> StackPointer]
        /\ \A k \in StackName : Pushed(exc)[k].stack = k
        BY <1>2, FramesAbove DEF CallOK
  <1>10. one = [a \in {FrameAt(exc)} \cup DOMAIN memory |->
                  IF a = FrameAt(exc) THEN [sr |-> sr, fmt |-> Cpu!Format(nr)] ELSE memory[a]]
         BY <1>7 DEF Cpu!Written
  <1> HIDE DEF r, S, sr, first, last, one
  <1>11. /\ regs' \in Registers /\ regs'.s /\ ~regs'.m /\ regs'.intmask = mask
         /\ regs'.a7 = (IF Twofold(exc) THEN EmptyAt(exc) ELSE FrameAt(exc))
         /\ regs'.msp = (IF Twofold(exc) THEN FrameAt(exc) ELSE r.msp)
         /\ regs'.usp = r.usp /\ regs'.isp = r.isp
    <2>1. PICK m0, i0, a0, u0, p0, q0 :
            r = [s |-> TRUE, m |-> m0, intmask |-> i0, a7 |-> a0, usp |-> u0, isp |-> p0, msp |-> q0]
            /\ u0 \in StackPointer /\ p0 \in StackPointer /\ q0 \in StackPointer
          BY <1>4 DEF Registers
    <2> DEFINE q1 == IF Twofold(exc) THEN FrameAt(exc) ELSE q0
               a1 == IF Twofold(exc) THEN EmptyAt(exc) ELSE FrameAt(exc)
    <2>2. regs' = [s |-> TRUE, m |-> FALSE, intmask |-> mask, a7 |-> a1,
                   usp |-> u0, isp |-> p0, msp |-> q1]
      <3>1. CASE Twofold(exc) BY <1>3, <1>5, <1>7, <1>8, <2>1, <3>1
      <3>2. CASE ~Twofold(exc) BY <1>3, <1>5, <1>7, <1>8, <2>1, <3>2
      <3>3. QED BY <3>1, <3>2
    <2>3. q1 \in StackPointer /\ a1 \in StackPointer BY <1>9, <2>1
    <2> HIDE DEF q1, a1
    <2>4. regs' \in Registers BY <2>1, <2>2, <2>3 DEF Registers
    <2>5. QED BY <2>1, <2>2, <2>4 DEF q1, a1
  <1>12. Cpu!Seen(regs') = Pushed(exc)
    <2>1. Cpu!Selected(regs'.s, regs'.m) = "isp" BY <1>11 DEF Cpu!Selected
    <2>2. ASSUME NEW k \in StackName PROVE Cpu!Seen(regs')[k] = Pushed(exc)[k]
      <3>1. Cpu!Seen(regs')[k] = IF k = "isp" THEN regs'.a7 ELSE regs'[k]
            BY <1>11, <2>1, SeenTyped
      <3>2. CASE k = "isp" BY <1>11, <3>1, <3>2 DEF Pushed
      <3>3. CASE k = "usp" BY <1>2, <1>4, <1>11, <3>1, <3>3 DEF Pushed, S
      <3>4. CASE k = "msp"
        <4>1. CASE Twofold(exc) BY <1>11, <3>1, <3>4, <4>1 DEF Pushed, StackName
        <4>2. CASE ~Twofold(exc)
          <5>1. Cpu!Selected(r.s, r.m) = "isp" BY <1>4, <1>6, <4>2 DEF Cpu!Selected
          <5>2. Cpu!Seen(r)["msp"] = r.msp BY <1>4, <5>1, SeenTyped DEF StackName
          <5>3. QED BY <1>2, <1>4, <1>11, <3>1, <3>4, <4>2, <5>2 DEF Pushed, S, StackName
        <4>3. QED BY <4>1, <4>2
      <3>5. QED BY <3>2, <3>3, <3>4 DEF StackName
    <2>3. QED BY <2>2 DEF Cpu!Seen, Pushed, StackName
  <1>13. Sane(regs') BY <1>9, <1>11, <1>12 DEF Sane
  <1>14. /\ FramesOf(exc) \subseteq DOMAIN memory'
         /\ memory'[FrameAt(exc)] = [sr |-> sr, fmt |-> Cpu!Format(nr)]
         /\ Twofold(exc) =>
              memory'[EmptyAt(exc)] = [sr |-> [sr EXCEPT !.s = TRUE], fmt |-> 1]
         /\ \A a \in DOMAIN memory \ FramesOf(exc) :
              a \in DOMAIN memory' /\ memory'[a] = memory[a]
    <2>1. CASE Twofold(exc)
      <3>1. memory' = [a \in {EmptyAt(exc)} \cup DOMAIN one |->
                         IF a = EmptyAt(exc) THEN [sr |-> [sr EXCEPT !.s = TRUE], fmt |-> 1] ELSE one[a]]
            BY <1>3, <1>5, <1>8, <2>1
      <3>2. FramesOf(exc) = {FrameAt(exc), EmptyAt(exc)} BY <2>1 DEF FramesOf
      <3>3. EmptyAt(exc) # FrameAt(exc) BY <1>9, <2>1
      <3>4. QED BY <1>10, <2>1, <3>1, <3>2, <3>3
    <2>2. CASE ~Twofold(exc)
      <3>1. memory' = one BY <1>3, <1>5, <2>2
      <3>2. FramesOf(exc) = {FrameAt(exc)} BY <2>2 DEF FramesOf
      <3>3. QED BY <1>10, <2>2, <3>1, <3>2
    <2>3. QED BY <2>1, <2>2
  <1>15. QED BY <1>2, <1>3, <1>11, <1>12, <1>13, <1>14 DEF sr
------------------------------------------------------------------------------
LEMMA PushInv ==
  ASSUME CpuTyped, StacksInv, NEW nr \in {2, 4, 5, 8} \cup Interrupts,
         regs.m => nr \in Interrupts, NEW mask \in 0 .. 7, mask >= regs.intmask,
         nr \in Interrupts => mask = nr - 24 /\ nr - 24 > regs.intmask, Cpu!Exception(nr, mask)
  PROVE  /\ calls' \in Seq(Call) /\ \A i \in 1 .. Len(calls') : CallOK(calls'[i])
         /\ Sane(regs') /\ regs'.intmask = mask /\ StacksInv'
  <1> DEFINE n == Len(calls)
  <1>0. PICK exc : exc = [regs |-> regs, nr |-> nr] OBVIOUS
  <1>1. /\ calls' = Append(calls, exc) /\ CallOK(exc)
        /\ Sane(regs') /\ Cpu!Seen(regs') = Pushed(exc)
        /\ regs'.s /\ ~regs'.m /\ regs'.intmask = mask
        /\ FramesOf(exc) \subseteq DOMAIN memory'
        /\ memory'[FrameAt(exc)] = [sr |-> Cpu!MakeSR(regs), fmt |-> Cpu!Format(nr)]
        /\ Twofold(exc) =>
             memory'[EmptyAt(exc)] = [sr |-> [Cpu!MakeSR(regs) EXCEPT !.s = TRUE], fmt |-> 1]
        /\ \A a \in DOMAIN memory \ FramesOf(exc) :
             a \in DOMAIN memory' /\ memory'[a] = memory[a]
        BY <1>0, ExceptionTaken
  <1>2. exc.regs = regs /\ exc.nr = nr BY <1>0
  <1>3. exc \in Call /\ Sane(regs) /\ regs \in Registers BY <1>1, <1>2 DEF CallOK, Sane
  <1>4. calls \in Seq(Call) /\ n \in Nat /\ \A i \in 1 .. n : CallOK(calls[i]) BY DEF CpuTyped
  <1>5. /\ calls' \in Seq(Call) /\ Len(calls') = n + 1
        /\ calls'[n + 1] = exc /\ \A i \in 1 .. n : calls'[i] = calls[i]
        BY <1>1, <1>3, <1>4
  <1> HIDE DEF n
  <1>6. /\ Pushed(exc) \in [StackName -> StackPointer]
        /\ \A k \in StackName : /\ Cpu!Seen(regs)[k] \in StackPointer
                                /\ Pushed(exc)[k].n >= Cpu!Seen(regs)[k].n
        /\ \A a \in FramesOf(exc) : a \in StackPointer /\ a.n > Cpu!Seen(regs)[a.stack].n
        /\ \A a \in FramesOf(exc) : a = Pushed(exc)[a.stack]
    <2>1. /\ Pushed(exc) \in [StackName -> StackPointer]
          /\ \A k \in StackName : /\ Cpu!Seen(regs)[k] \in StackPointer
                                  /\ Pushed(exc)[k].n >= Cpu!Seen(regs)[k].n
          /\ \A a \in FramesOf(exc) : a = Pushed(exc)[a.stack]
          /\ FrameAt(exc) \in StackPointer /\ EmptyAt(exc) \in StackPointer
          /\ FrameAt(exc).n > Cpu!Seen(regs)[FrameAt(exc).stack].n
          /\ EmptyAt(exc).stack = "isp" /\ EmptyAt(exc).n = Cpu!Seen(regs)["isp"].n + 4
          BY <1>2, <1>3, FramesAbove
    <2>2. Cpu!Seen(regs)["isp"].n \in Nat BY <2>1 DEF StackName, StackPointer
    <2>3. EmptyAt(exc).n > Cpu!Seen(regs)["isp"].n BY <2>1, <2>2
    <2>4. \A a \in FramesOf(exc) : a = FrameAt(exc) \/ a = EmptyAt(exc) BY DEF FramesOf
    <2>5. QED BY <2>1, <2>3, <2>4
  <1>7. ASSUME NEW i \in 1 .. n, NEW a \in FramesOf(calls[i])
        PROVE  /\ Below(a, regs) /\ Below(a, regs') /\ a \notin FramesOf(exc)
               /\ a \in DOMAIN memory => a \in DOMAIN memory' /\ memory'[a] = memory[a]
    <2>1. Below(a, regs) BY <1>7 DEF StacksInv, n
    <2>2. a \in StackPointer /\ a.stack \in StackName /\ a.n \in Nat
          /\ a.n <= Cpu!Seen(regs)[a.stack].n
          BY <2>1 DEF Below, StackPointer
    <2>3. Cpu!Seen(regs)[a.stack].n \in Nat /\ Pushed(exc)[a.stack].n \in Nat
          BY <1>6, <2>2 DEF StackPointer
    <2>4. Below(a, regs') BY <1>1, <1>6, <2>2, <2>3 DEF Below
    <2>5. a \notin FramesOf(exc) BY <1>6, <2>2, <2>3
    <2>6. QED BY <1>1, <2>1, <2>4, <2>5
  <1>8. ASSUME NEW i \in 1 .. n PROVE Stacked(calls[i])'
    <2>1. Stacked(calls[i]) BY DEF StacksInv, n
    <2>2. FrameAt(calls[i]) \in FramesOf(calls[i])
          /\ (Twofold(calls[i]) => EmptyAt(calls[i]) \in FramesOf(calls[i]))
          BY DEF FramesOf
    <2>3. calls'[i] = calls[i] BY <1>5
    <2>4. /\ FrameAt(calls[i]) \in DOMAIN memory'
          /\ memory'[FrameAt(calls[i])] = memory[FrameAt(calls[i])]
          BY <1>7, <2>1, <2>2 DEF Stacked
    <2>5. Twofold(calls[i]) => /\ EmptyAt(calls[i]) \in DOMAIN memory'
                               /\ memory'[EmptyAt(calls[i])] = memory[EmptyAt(calls[i])]
          BY <1>7, <2>1, <2>2 DEF Stacked
    <2>6. QED BY <2>1, <2>3, <2>4, <2>5 DEF Stacked
  <1>9. Stacked(exc)' BY <1>1, <1>2 DEF Stacked, FramesOf
  <1>10. ASSUME NEW i \in 1 .. Len(calls') PROVE CallOK(calls'[i])
    <2>1. CASE i \in 1 .. n BY <1>4, <1>5, <2>1
    <2>2. CASE i = n + 1 BY <1>1, <1>5, <2>2
    <2>3. QED BY <1>4, <1>5, <2>1, <2>2
  <1>11. ASSUME NEW i \in 1 .. Len(calls') PROVE Stacked(calls[i])' /\ Entry(calls'[i], After(i)')
    <2>1. CASE i \in 1 .. n
      <3>1. Entry(calls[i], After(i)) BY <2>1 DEF StacksInv, n
      <3>2. After(i)' = After(i)
        <4>1. After(i)' = calls'[i + 1].regs BY <1>4, <1>5, <2>1 DEF After
        <4>2. CASE i = n BY <1>2, <1>5, <4>1, <4>2 DEF After, n
        <4>3. CASE i # n
          <5>1. i + 1 \in 1 .. n BY <1>4, <2>1, <4>3
          <5>2. QED BY <1>5, <4>1, <4>3, <5>1 DEF After, n
        <4>4. QED BY <4>2, <4>3
      <3>3. QED BY <1>5, <1>8, <2>1, <3>1, <3>2
    <2>2. CASE i = n + 1
      <3>1. After(i)' = regs' BY <1>5, <2>2 DEF After
      <3>2. Entry(exc, regs')
        <4>1. exc.nr \in Interrupts => regs'.intmask >= exc.nr - 24
              BY <1>1, <1>2 DEF Interrupts
        <4>2. QED BY <1>1, <4>1 DEF Entry
      <3>3. calls'[i] = exc BY <1>5, <2>2
      <3>4. Stacked(calls[i])' BY <1>9, <3>3 DEF Stacked
      <3>5. QED BY <3>1, <3>2, <3>3, <3>4
    <2>3. QED BY <1>4, <1>5, <2>1, <2>2
  <1>12. ASSUME NEW i \in 1 .. Len(calls'), NEW a \in FramesOf(calls'[i])
         PROVE  Below(a, regs') /\ \A j \in i + 1 .. Len(calls') : Below(a, calls'[j].regs)
    <2>1. CASE i \in 1 .. n
      <3>1. a \in FramesOf(calls[i]) BY <1>5, <1>12, <2>1
      <3>2. ASSUME NEW j \in i + 1 .. Len(calls') PROVE Below(a, calls'[j].regs)
        <4>1. CASE j \in i + 1 .. n
          <5>1. calls'[j] = calls[j] BY <1>4, <1>5, <2>1, <4>1
          <5>2. QED BY <2>1, <3>1, <4>1, <5>1 DEF StacksInv, n
        <4>2. CASE j = n + 1 BY <1>2, <1>5, <1>7, <2>1, <3>1, <4>2
        <4>3. QED BY <1>4, <1>5, <4>1, <4>2
      <3>3. QED BY <1>7, <2>1, <3>1, <3>2
    <2>2. CASE i = n + 1
      <3>1. a \in FramesOf(exc) BY <1>5, <1>12, <2>2
      <3>2. a \in StackPointer /\ a = Pushed(exc)[a.stack] BY <1>6, <3>1
      <3>3. a.n \in Nat /\ Cpu!Seen(regs')[a.stack] = a BY <1>1, <3>2 DEF StackPointer
      <3>4. Below(a, regs') BY <3>2, <3>3 DEF Below
      <3>5. i + 1 .. Len(calls') = {} BY <1>4, <1>5, <2>2
      <3>6. QED BY <3>4, <3>5
    <2>3. QED BY <1>4, <1>5, <2>1, <2>2
  <1>13. ASSUME NEW i \in 1 .. Len(calls'), calls'[i].nr \in Interrupts
         PROVE  /\ regs'.intmask >= calls'[i].nr - 24
                /\ \A j \in i + 1 .. Len(calls') : calls'[j].regs.intmask >= calls'[i].nr - 24
    <2>1. CASE i \in 1 .. n
      <3>1. calls'[i] = calls[i] /\ calls[i].nr \in Interrupts BY <1>5, <1>13, <2>1
      <3>2. regs.intmask >= calls[i].nr - 24 BY <2>1, <3>1 DEF StacksInv, n
      <3>3. regs.intmask \in 0 .. 7 BY <1>3 DEF Registers
      <3>4. regs'.intmask >= calls[i].nr - 24
        <4>1. calls[i].nr \in 25 .. 30 BY <3>1 DEF Interrupts
        <4>2. regs'.intmask = mask BY <1>1
        <4>3. PICK x, y : x = regs.intmask /\ y = calls[i].nr OBVIOUS
        <4>4. x >= y - 24 /\ x \in 0 .. 7 /\ y \in 25 .. 30 /\ mask >= x BY <3>2, <3>3, <4>1, <4>3
        <4>5. mask >= y - 24 BY <4>4
        <4>6. QED BY <4>2, <4>3, <4>5
      <3>5. ASSUME NEW j \in i + 1 .. Len(calls')
            PROVE  calls'[j].regs.intmask >= calls[i].nr - 24
        <4>1. CASE j \in i + 1 .. n
          <5>1. calls'[j] = calls[j] BY <1>4, <1>5, <2>1, <4>1
          <5>2. QED BY <2>1, <3>1, <4>1, <5>1 DEF StacksInv, n
        <4>2. CASE j = n + 1 BY <1>2, <1>5, <3>2, <4>2
        <4>3. QED BY <1>4, <1>5, <4>1, <4>2
      <3>6. QED BY <3>1, <3>4, <3>5
    <2>2. CASE i = n + 1
      <3>1. calls'[i] = exc /\ exc.nr = nr BY <1>2, <1>5, <2>2
      <3>2. regs'.intmask >= nr - 24 BY <1>1, <1>13, <3>1 DEF Interrupts
      <3>3. i + 1 .. Len(calls') = {} BY <1>4, <1>5, <2>2
      <3>4. QED BY <3>1, <3>2, <3>3
    <2>3. QED BY <1>4, <1>5, <2>1, <2>2
  <1>14. StacksInv'
    <2>1. \A i \in 1 .. Len(calls') : (Stacked(calls[i]) /\ Entry(calls[i], After(i)))' BY <1>11
    <2>2. QED BY <1>12, <1>13, <2>1 DEF StacksInv, Below
  <1>15. QED BY <1>1, <1>5, <1>10, <1>14
------------------------------------------------------------------------------
LEMMA SeenWith ==
  ASSUME NEW r \in Registers, NEW p \in StackPointer
  PROVE  /\ [r EXCEPT !.a7 = p] \in Registers
         /\ [r EXCEPT !.a7 = p].s = r.s /\ [r EXCEPT !.a7 = p].m = r.m
         /\ \A k \in StackName : Cpu!Seen([r EXCEPT !.a7 = p])[k] =
              IF k = Cpu!Selected(r.s, r.m) THEN p ELSE Cpu!Seen(r)[k]
  <1> DEFINE w == [r EXCEPT !.a7 = p]
  <1>1. w \in Registers /\ w.s = r.s /\ w.m = r.m /\ w.a7 = p
        /\ \A k \in StackName : w[k] = r[k]
        BY DEF Registers, StackName
  <1> HIDE DEF w
  <1>2. \A k \in StackName : Cpu!Seen(w)[k] = IF k = Cpu!Selected(r.s, r.m) THEN p ELSE r[k]
        BY <1>1, SeenTyped
  <1>3. \A k \in StackName : Cpu!Seen(r)[k] = IF k = Cpu!Selected(r.s, r.m) THEN r.a7 ELSE r[k]
        BY SeenTyped
  <1>4. \A k \in StackName : Cpu!Seen(w)[k] =
          IF k = Cpu!Selected(r.s, r.m) THEN p ELSE Cpu!Seen(r)[k]
        BY <1>2, <1>3
  <1>5. QED BY <1>1, <1>4 DEF w

(* One frame is taken from the stack that A7 points into. *)
LEMMA PoppedSeen ==
  ASSUME NEW r \in Registers, NEW sr \in [s : BOOLEAN, m : BOOLEAN, intmask : 0 .. 7],
         NEW fmt, memory[r.a7] = [sr |-> sr, fmt |-> fmt],
         NEW p \in StackPointer, Cpu!Up(r.a7, Cpu!PoppedWords(fmt)) = p
  PROVE  /\ Cpu!Popped(r) \in Registers /\ Cpu!MakeSR(Cpu!Popped(r)) = sr
         /\ \A k \in StackName : Cpu!Seen(Cpu!Popped(r))[k] =
              IF k = Cpu!Selected(r.s, r.m) THEN p ELSE Cpu!Seen(r)[k]
  <1> DEFINE w == [r EXCEPT !.a7 = p]
  <1>1. /\ w \in Registers
        /\ \A k \in StackName : Cpu!Seen(w)[k] =
             IF k = Cpu!Selected(r.s, r.m) THEN p ELSE Cpu!Seen(r)[k]
        BY SeenWith
  <1>2. Cpu!Popped(r) = Cpu!MakeFromSR(w, sr) BY DEF Cpu!Popped
  <1> HIDE DEF w
  <1>3. QED BY <1>1, <1>2, SeenKept

LEMMA FramesHigher ==
  ASSUME NEW exc \in Call, Sane(exc.regs), NEW a \in FramesOf(exc)
  PROVE  a \in StackPointer /\ a.n > Cpu!Seen(exc.regs)[a.stack].n
  <1>1. /\ FrameAt(exc) \in StackPointer /\ EmptyAt(exc) \in StackPointer
        /\ FrameAt(exc).n > Cpu!Seen(exc.regs)[FrameAt(exc).stack].n
        /\ EmptyAt(exc).stack = "isp" /\ EmptyAt(exc).n = Cpu!Seen(exc.regs)["isp"].n + 4
        /\ Cpu!Seen(exc.regs)["isp"] \in StackPointer
        BY FramesAbove DEF StackName
  <1>2. Cpu!Seen(exc.regs)["isp"].n \in Nat BY <1>1 DEF StackPointer
  <1>3. EmptyAt(exc).n > Cpu!Seen(exc.regs)["isp"].n BY <1>1, <1>2
  <1>4. a = FrameAt(exc) \/ a = EmptyAt(exc) BY DEF FramesOf
  <1>5. QED BY <1>1, <1>3, <1>4

LEMMA SameView ==
  ASSUME NEW r \in Registers, NEW q \in Registers, Sane(r),
         Cpu!MakeSR(q) = Cpu!MakeSR(r),
         \A k \in StackName : Cpu!Seen(q)[k] = Cpu!Seen(r)[k]
  PROVE  /\ Sane(q) /\ Cpu!Seen(q) = Cpu!Seen(r)
         /\ q.s = r.s /\ q.m = r.m /\ q.intmask = r.intmask
  <1>1. Cpu!Seen(q) = Cpu!Seen(r) BY DEF Cpu!Seen, StackName
  <1>2. q.s = r.s /\ q.m = r.m /\ q.intmask = r.intmask BY DEF Cpu!MakeSR
  <1>3. QED BY <1>1, <1>2 DEF Sane

(* The return finds the frames of the exception the handler was entered by,  *)
(* and the pointers where they were before it.                              *)
LEMMA Returned ==
  ASSUME CpuTyped, StacksInv, NEW exc, calls # <<>>, exc = calls[Len(calls)],
         regs' = IF memory[regs.a7].fmt # 1 THEN Cpu!Popped(regs) ELSE Cpu!Popped(Cpu!Popped(regs))
  PROVE  /\ Sane(regs') /\ Cpu!Seen(regs') = Cpu!Seen(exc.regs)
         /\ regs'.s = exc.regs.s /\ regs'.m = exc.regs.m
         /\ regs'.intmask = exc.regs.intmask
         /\ Cpu!Frames = FramesOf(exc)
  <1> DEFINE n == Len(calls)
             S == Cpu!Seen(exc.regs)
             sr == Cpu!MakeSR(exc.regs)
  <1>1. calls \in Seq(Call) /\ n \in Nat /\ n \in 1 .. n /\ CallOK(exc) /\ regs \in Registers
    <2>1. calls \in Seq(Call) /\ (\A i \in 1 .. n : CallOK(calls[i])) /\ regs \in Registers
          BY DEF CpuTyped, Sane
    <2>2. n \in Nat /\ n # 0 BY <2>1, EmptySeq
    <2>3. n \in 1 .. n BY <2>2
    <2>4. QED BY <2>1, <2>2, <2>3
  <1>2. Stacked(exc) /\ Entry(exc, regs)
    <2>1. After(n) = regs BY DEF After
    <2>2. QED BY <1>1, <2>1 DEF StacksInv
  <1>3. exc \in Call /\ Sane(exc.regs) /\ exc.regs \in Registers
        /\ exc.nr \in {2, 4, 5, 8} \cup Interrupts
        BY <1>1 DEF CallOK, Call
  <1>4. sr \in [s : BOOLEAN, m : BOOLEAN, intmask : 0 .. 7]
        /\ sr.s = exc.regs.s /\ sr.m = exc.regs.m
        BY <1>3 DEF Registers, Cpu!MakeSR
  <1>5. \A k \in StackName : S[k] \in StackPointer BY <1>3, SeenTyped
  <1>6. "usp" \in StackName /\ "isp" \in StackName /\ "msp" \in StackName BY DEF StackName
  <1>7. regs.s /\ ~regs.m /\ Cpu!Selected(regs.s, regs.m) = "isp"
        BY <1>2 DEF Entry, Cpu!Selected
  <1>8. \A k \in StackName : Pushed(exc)[k] = IF k = "isp" THEN regs.a7 ELSE regs[k]
        BY <1>1, <1>2, <1>7, SeenTyped DEF Entry
  <1> HIDE DEF n, S, sr
  <1>9. CASE Twofold(exc)
    <2>1. Pushed(exc) = [k \in StackName |-> IF k = "isp" THEN EmptyAt(exc)
                            ELSE IF k = "msp" THEN FrameAt(exc) ELSE S[k]]
          BY <1>9 DEF Pushed, S
    <2>2. regs.a7 = EmptyAt(exc) /\ regs.msp = FrameAt(exc) BY <1>6, <1>8, <2>1
    <2>3. memory[regs.a7] = [sr |-> [sr EXCEPT !.s = TRUE], fmt |-> 1]
          BY <1>2, <1>9, <2>2 DEF Stacked, sr
    <2>4. Cpu!Up(regs.a7, Cpu!PoppedWords(1)) = S["isp"]
      <3>1. Cpu!PoppedWords(1) = 4 BY DEF Cpu!PoppedWords
      <3>2. QED BY <1>5, <1>6, <2>2, <3>1, DownTyped DEF EmptyAt, S
    <2>5. [sr EXCEPT !.s = TRUE] \in [s : BOOLEAN, m : BOOLEAN, intmask : 0 .. 7] BY <1>4
    <2>6. PICK q : q = Cpu!Popped(regs) OBVIOUS
    <2>7. /\ q \in Registers /\ Cpu!MakeSR(q) = [sr EXCEPT !.s = TRUE]
          /\ \A k \in StackName : Cpu!Seen(q)[k] = IF k = "isp" THEN S["isp"] ELSE Cpu!Seen(regs)[k]
      <3>1. PICK v : v = [sr EXCEPT !.s = TRUE] OBVIOUS
      <3>2. v \in [s : BOOLEAN, m : BOOLEAN, intmask : 0 .. 7] BY <2>5, <3>1
      <3>3. memory[regs.a7] = [sr |-> v, fmt |-> 1] BY <2>3, <3>1
      <3>4. /\ Cpu!Popped(regs) \in Registers /\ Cpu!MakeSR(Cpu!Popped(regs)) = v
            /\ \A k \in StackName : Cpu!Seen(Cpu!Popped(regs))[k] =
                 IF k = Cpu!Selected(regs.s, regs.m) THEN S["isp"] ELSE Cpu!Seen(regs)[k]
            BY <1>1, <1>5, <1>6, <2>4, <3>2, <3>3, PoppedSeen
      <3>5. QED BY <1>7, <2>6, <3>1, <3>4
    <2>8. q.s /\ q.m
      <3>1. exc.regs.m BY <1>9 DEF Twofold, Cpu!Throwaway
      <3>2. [sr EXCEPT !.s = TRUE].s = TRUE /\ [sr EXCEPT !.s = TRUE].m = sr.m BY <1>4
      <3>3. Cpu!MakeSR(q).s = q.s /\ Cpu!MakeSR(q).m = q.m BY DEF Cpu!MakeSR
      <3>4. QED BY <1>4, <2>7, <3>1, <3>2, <3>3
    <2>9. Cpu!Selected(q.s, q.m) = "msp" BY <2>8 DEF Cpu!Selected
    <2>10. q.a7 = FrameAt(exc)
      <3>1. Cpu!Seen(q)["msp"] = q.a7 BY <1>6, <2>7, <2>9, SeenTyped
      <3>2. Cpu!Seen(q)["msp"] = Pushed(exc)["msp"] BY <1>2, <1>6, <2>7 DEF Entry
      <3>3. QED BY <1>6, <2>1, <3>1, <3>2
    <2>11. memory[q.a7] = [sr |-> sr, fmt |-> Cpu!Format(exc.nr)]
           BY <1>2, <2>10 DEF Stacked, sr
    <2>12. Cpu!PoppedWords(Cpu!Format(exc.nr)) = 4
      <3>1. exc.nr \in Interrupts BY <1>3, <1>9 DEF Twofold, Cpu!Throwaway, Interrupts
      <3>2. QED BY <3>1 DEF Cpu!PoppedWords, Cpu!Format, Interrupts
    <2>13. Cpu!Up(q.a7, Cpu!PoppedWords(Cpu!Format(exc.nr))) = S["msp"]
           BY <1>5, <1>6, <1>9, <2>10, <2>12, DownTyped DEF FrameAt, S
    <2>14. regs' = Cpu!Popped(q) BY <2>3, <2>6
    <2>15. /\ Cpu!Popped(q) \in Registers /\ Cpu!MakeSR(Cpu!Popped(q)) = sr
           /\ \A k \in StackName : Cpu!Seen(Cpu!Popped(q))[k] =
                IF k = Cpu!Selected(q.s, q.m) THEN S["msp"] ELSE Cpu!Seen(q)[k]
           BY <1>4, <1>5, <1>6, <2>7, <2>11, <2>13, PoppedSeen
    <2>16. ASSUME NEW k \in StackName PROVE Cpu!Seen(regs')[k] = S[k]
      <3>1. Cpu!Seen(regs')[k] = IF k = "msp" THEN S["msp"] ELSE Cpu!Seen(q)[k]
            BY <2>9, <2>14, <2>15
      <3>2. Cpu!Seen(q)[k] = IF k = "isp" THEN S["isp"] ELSE Pushed(exc)[k]
            BY <1>2, <2>7 DEF Entry
      <3>3. k # "isp" /\ k # "msp" => Pushed(exc)[k] = S[k] BY <2>1
      <3>4. QED BY <3>1, <3>2, <3>3
    <2>17. Cpu!Frames = FramesOf(exc)
      <3>1. Cpu!Frames = {regs.a7} \cup {regs.msp} BY <2>3 DEF Cpu!Frames
      <3>2. QED BY <1>9, <2>2, <3>1 DEF FramesOf
    <2>18. QED BY <1>3, <2>14, <2>15, <2>16, <2>17, SameView DEF S, sr
  <1>10. CASE ~Twofold(exc)
    <2>1. Pushed(exc) = [k \in StackName |-> IF k = "isp" THEN FrameAt(exc) ELSE S[k]]
          BY <1>10 DEF Pushed, S
    <2>2. regs.a7 = FrameAt(exc) BY <1>6, <1>8, <2>1
    <2>3. memory[regs.a7] = [sr |-> sr, fmt |-> Cpu!Format(exc.nr)] BY <1>2, <2>2 DEF Stacked, sr
    <2>4. Cpu!Up(regs.a7, Cpu!PoppedWords(Cpu!Format(exc.nr))) = S["isp"]
      <3>1. Cpu!PoppedWords(Cpu!Format(exc.nr)) = Cpu!FrameSize(exc.nr)
            /\ Cpu!FrameSize(exc.nr) \in Nat
            BY <1>3, FrameSizes
      <3>2. QED BY <1>5, <1>6, <1>10, <2>2, <3>1, DownTyped DEF FrameAt, S
    <2>5. Cpu!Format(exc.nr) # 1 BY <1>3, FrameSizes
    <2>6. regs' = Cpu!Popped(regs) BY <2>3, <2>5
    <2>7. /\ Cpu!Popped(regs) \in Registers /\ Cpu!MakeSR(Cpu!Popped(regs)) = sr
          /\ \A k \in StackName : Cpu!Seen(Cpu!Popped(regs))[k] =
               IF k = Cpu!Selected(regs.s, regs.m) THEN S["isp"] ELSE Cpu!Seen(regs)[k]
          BY <1>1, <1>4, <1>5, <1>6, <2>3, <2>4, PoppedSeen
    <2>8. ASSUME NEW k \in StackName PROVE Cpu!Seen(regs')[k] = S[k]
      <3>1. Cpu!Seen(regs')[k] = IF k = "isp" THEN S["isp"] ELSE Pushed(exc)[k]
            BY <1>2, <1>7, <2>6, <2>7 DEF Entry
      <3>2. k # "isp" => Pushed(exc)[k] = S[k] BY <2>1
      <3>3. QED BY <3>1, <3>2
    <2>9. Cpu!Frames = FramesOf(exc)
      <3>1. Cpu!Frames = {regs.a7} BY <2>3, <2>5 DEF Cpu!Frames
      <3>2. QED BY <1>10, <2>2, <3>1 DEF FramesOf
    <2>10. QED BY <1>3, <2>6, <2>7, <2>8, <2>9, SameView DEF S, sr
  <1>11. QED BY <1>9, <1>10

LEMMA BeginningOf ==
  ASSUME NEW T, NEW s \in Seq(T), NEW k \in 0 .. Len(s)
  PROVE  /\ SubSeq(s, 1, k) \in Seq(T) /\ Len(SubSeq(s, 1, k)) = k
         /\ \A i \in 1 .. k : SubSeq(s, 1, k)[i] = s[i]
  OBVIOUS

LEMMA PopInv ==
  ASSUME CpuTyped, StacksInv, Cpu!RTE
  PROVE  /\ calls' \in Seq(Call) /\ \A i \in 1 .. Len(calls') : CallOK(calls'[i])
         /\ Sane(regs') /\ StacksInv'
  <1> DEFINE n == Len(calls)
  <1>0. PICK exc : exc = calls[n] OBVIOUS
  <1>1. /\ calls # <<>> /\ calls' = SubSeq(calls, 1, n - 1)
        /\ memory' = [a \in DOMAIN memory \ Cpu!Frames |-> memory[a]]
        /\ Sane(regs') /\ Cpu!Seen(regs') = Cpu!Seen(exc.regs)
        /\ regs'.s = exc.regs.s /\ regs'.m = exc.regs.m
        /\ regs'.intmask = exc.regs.intmask
        /\ Cpu!Frames = FramesOf(exc)
        BY <1>0, Returned DEF Cpu!RTE
  <1>2. calls \in Seq(Call) /\ \A i \in 1 .. n : CallOK(calls[i]) BY DEF CpuTyped
  <1>3. n \in Nat /\ n # 0 BY <1>1, <1>2, EmptySeq
  <1>4. /\ calls' \in Seq(Call) /\ Len(calls') = n - 1
        /\ \A i \in 1 .. n - 1 : calls'[i] = calls[i]
    <2>1. n - 1 \in 0 .. n BY <1>3
    <2>2. /\ SubSeq(calls, 1, n - 1) \in Seq(Call) /\ Len(SubSeq(calls, 1, n - 1)) = n - 1
          /\ \A i \in 1 .. n - 1 : SubSeq(calls, 1, n - 1)[i] = calls[i]
      <3>1. calls \in Seq(Call) /\ n - 1 \in 0 .. Len(calls) BY <1>2, <2>1
      <3>2. QED BY <3>1, BeginningOf
    <2>3. QED BY <1>1, <2>2
  <1>5. exc \in Call /\ Sane(exc.regs)
    <2>1. n \in 1 .. n BY <1>3
    <2>2. QED BY <1>0, <1>2, <2>1 DEF CallOK
  <1> HIDE DEF n
  <1>6. ASSUME NEW i \in 1 .. n - 1, NEW a \in FramesOf(calls[i])
        PROVE  /\ Below(a, exc.regs) /\ Below(a, regs') /\ a \notin Cpu!Frames
               /\ a \in DOMAIN memory => a \in DOMAIN memory' /\ memory'[a] = memory[a]
    <2>1. i \in 1 .. n /\ n \in i + 1 .. n BY <1>3
    <2>2. Below(a, exc.regs) BY <1>0, <2>1 DEF StacksInv, n
    <2>3. a \notin FramesOf(exc)
      <3>1. ASSUME a \in FramesOf(exc) PROVE FALSE
        <4>1. a \in StackPointer /\ a.n > Cpu!Seen(exc.regs)[a.stack].n
              BY <1>5, <3>1, FramesHigher
        <4>2. a.stack \in StackName /\ a.n \in Nat BY <4>1 DEF StackPointer
        <4>3. Cpu!Seen(exc.regs)[a.stack] \in StackPointer BY <1>5, <4>2, FramesAbove
        <4>4. Cpu!Seen(exc.regs)[a.stack].n \in Nat BY <4>3 DEF StackPointer
        <4>5. a.n <= Cpu!Seen(exc.regs)[a.stack].n BY <2>2 DEF Below
        <4>6. QED BY <4>1, <4>2, <4>4, <4>5
      <3>2. QED BY <3>1
    <2>4. Below(a, regs') BY <1>1, <2>2 DEF Below
    <2>5. QED BY <1>1, <2>2, <2>3, <2>4
  <1>7. ASSUME NEW i \in 1 .. n - 1 PROVE Stacked(calls[i])'
    <2>1. Stacked(calls[i]) BY <1>3 DEF StacksInv, n
    <2>2. FrameAt(calls[i]) \in FramesOf(calls[i])
          /\ (Twofold(calls[i]) => EmptyAt(calls[i]) \in FramesOf(calls[i]))
          BY DEF FramesOf
    <2>3. calls'[i] = calls[i] BY <1>4
    <2>4. /\ FrameAt(calls[i]) \in DOMAIN memory'
          /\ memory'[FrameAt(calls[i])] = memory[FrameAt(calls[i])]
          BY <1>6, <2>1, <2>2 DEF Stacked
    <2>5. Twofold(calls[i]) => /\ EmptyAt(calls[i]) \in DOMAIN memory'
                               /\ memory'[EmptyAt(calls[i])] = memory[EmptyAt(calls[i])]
          BY <1>6, <2>1, <2>2 DEF Stacked
    <2>6. QED BY <2>1, <2>3, <2>4, <2>5 DEF Stacked
  <1>8. ASSUME NEW i \in 1 .. n - 1 PROVE Entry(calls[i], After(i)')
    <2>1. Entry(calls[i], calls[i + 1].regs)
      <3>1. i \in 1 .. n /\ i # n BY <1>3
      <3>2. After(i) = calls[i + 1].regs BY <3>1 DEF After, n
      <3>3. Entry(calls[i], After(i)) BY <3>1 DEF StacksInv, n
      <3>4. QED BY <3>2, <3>3
    <2>2. CASE i = n - 1
      <3>1. After(i)' = regs' BY <1>4, <2>2 DEF After
      <3>2. calls[i + 1] = exc BY <1>0, <1>3, <2>2 DEF n
      <3>3. QED BY <1>1, <2>1, <3>1, <3>2 DEF Entry
    <2>3. CASE i # n - 1
      <3>1. After(i)' = calls'[i + 1].regs BY <1>4, <2>3 DEF After
      <3>2. i + 1 \in 1 .. n - 1 BY <1>3, <2>3
      <3>3. QED BY <1>4, <2>1, <3>1, <3>2
    <2>4. QED BY <2>2, <2>3
  <1>9. ASSUME NEW i \in 1 .. n - 1, NEW a \in FramesOf(calls[i]), NEW j \in i + 1 .. n - 1
        PROVE  Below(a, calls'[j].regs)
    <2>1. i \in 1 .. n /\ j \in i + 1 .. n /\ j \in 1 .. n - 1 BY <1>3
    <2>2. QED BY <1>4, <2>1 DEF StacksInv, n
  <1>10. ASSUME NEW i \in 1 .. n - 1, calls[i].nr \in Interrupts
         PROVE  /\ regs'.intmask >= calls[i].nr - 24
                /\ \A j \in i + 1 .. n - 1 : calls'[j].regs.intmask >= calls[i].nr - 24
    <2>1. i \in 1 .. n /\ n \in i + 1 .. n BY <1>3
    <2>2. regs'.intmask >= calls[i].nr - 24 BY <1>0, <1>1, <1>10, <2>1 DEF StacksInv, n
    <2>3. ASSUME NEW j \in i + 1 .. n - 1 PROVE calls'[j].regs.intmask >= calls[i].nr - 24
      <3>1. j \in i + 1 .. n /\ j \in 1 .. n - 1 BY <1>3
      <3>2. QED BY <1>4, <1>10, <2>1, <3>1 DEF StacksInv, n
    <2>4. QED BY <2>2, <2>3
  <1>11. StacksInv'
    <2>1. \A i \in 1 .. Len(calls') : (Stacked(calls[i]) /\ Entry(calls[i], After(i)))'
          BY <1>4, <1>7, <1>8
    <2>2. ASSUME NEW i \in 1 .. Len(calls'), NEW a \in FramesOf(calls'[i])
          PROVE  Below(a, regs') /\ \A j \in i + 1 .. Len(calls') : Below(a, calls'[j].regs)
          BY <1>4, <1>6, <1>9
    <2>3. ASSUME NEW i \in 1 .. Len(calls'), calls'[i].nr \in Interrupts
          PROVE  /\ regs'.intmask >= calls'[i].nr - 24
                 /\ \A j \in i + 1 .. Len(calls') : calls'[j].regs.intmask >= calls'[i].nr - 24
          BY <1>4, <1>10, <2>3
    <2>4. QED BY <2>1, <2>2, <2>3 DEF StacksInv, Below
  <1>12. ASSUME NEW i \in 1 .. Len(calls') PROVE CallOK(calls'[i])
    <2>1. i \in 1 .. n /\ i \in 1 .. n - 1 BY <1>3, <1>4
    <2>2. QED BY <1>2, <1>4, <2>1 DEF n
  <1>13. QED BY <1>1, <1>4, <1>11, <1>12

LEMMA StacksKept ==
  ASSUME CpuTyped, StacksInv, UNCHANGED <<regs, memory, calls>>
  PROVE  StacksInv'
  <1>1. \A i : After(i)' = After(i) BY DEF After
  <1>2. \A i : Stacked(calls[i])' <=> Stacked(calls[i]) BY DEF Stacked
  <1>3. QED BY <1>1, <1>2 DEF StacksInv

LEMMA StacksEmpty == ASSUME calls' = <<>> PROVE StacksInv'
  BY EmptySeq DEF StacksInv
------------------------------------------------------------------------------
LEMMA Noticed ==
  ASSUME "INT" \in flags' \/ "DOINT" \in flags' PROVE Cpu!NothingForgotten'
  BY DEF Cpu!NothingForgotten

LEMMA LevelKept ==
  ASSUME UNCHANGED <<intena, master, requests>> PROVE Cpu!intlev' = Cpu!intlev
  BY DEF Cpu!intlev

LEMMA InitCpuInv == ASSUME Cpu!CpuAssumption, Cpu!Init PROVE CpuInv
  <1> DEFINE at(k) == Cpu!Pointer(k, 0)
             r == [s |-> TRUE, m |-> FALSE, intmask |-> 7, a7 |-> at("isp"),
                   usp |-> at("usp"), isp |-> at("isp"), msp |-> at("msp")]
  <1>1. /\ regs = r /\ flags = {} /\ intena = {} /\ master = FALSE /\ requests \in SUBSET Bits
        /\ step = "insn" /\ calls = <<>>
        BY DEF Cpu!Init
  <1>2. \A k \in StackName : at(k) \in StackPointer /\ at(k).stack = k
        BY DEF Cpu!Pointer, StackPointer
  <1> HIDE DEF at
  <1>3. r \in Registers BY <1>2 DEF Registers, StackName
  <1>4. \A k \in StackName : Cpu!Seen(r)[k] = at(k)
    <2>1. Cpu!Selected(r.s, r.m) = "isp" BY DEF Cpu!Selected
    <2>2. \A k \in StackName : Cpu!Seen(r)[k] = IF k = "isp" THEN r.a7 ELSE r[k]
          BY <1>3, <2>1, SeenTyped
    <2>3. QED BY <2>2 DEF StackName
  <1>5. Sane(regs) BY <1>1, <1>2, <1>3, <1>4 DEF Sane
  <1> HIDE DEF r
  <1>6. calls \in Seq(Call) /\ Len(calls) = 0 BY <1>1
  <1>7. CpuTyped
    <2>1. \A i \in 1 .. Len(calls) : CallOK(calls[i]) BY <1>6
    <2>2. /\ flags \subseteq {"INT", "DOINT", "STOP"} /\ requests \subseteq Bits
          /\ intena \subseteq Bits /\ step \in {"insn", "cycles", "special"}
          BY <1>1
    <2>3. master \in BOOLEAN BY <1>1
    <2>4. QED BY <1>5, <1>6, <2>1, <2>2, <2>3 DEF CpuTyped
  <1>8. StacksInv BY <1>6 DEF StacksInv
  <1>9. Cpu!intlev = 0 /\ regs.intmask = 7 BY <1>1 DEF Cpu!intlev, r
  <1>10. Cpu!NothingForgotten BY <1>9 DEF Cpu!NothingForgotten
  <1>11. QED BY <1>7, <1>8, <1>10 DEF CpuInv

LEMMA RteInv == ASSUME CpuInv, Cpu!RTE PROVE CpuInv'
  <1>1. /\ calls' \in Seq(Call) /\ (\A i \in 1 .. Len(calls') : CallOK(calls'[i]))
        /\ Sane(regs') /\ StacksInv'
        BY PopInv DEF CpuInv
  <1>2. /\ flags' = flags \cup {"INT"} /\ step' = "cycles"
        /\ UNCHANGED <<intena, master, requests>>
        BY DEF Cpu!RTE, Cpu!Checked
  <1>3. CpuTyped' BY <1>1, <1>2 DEF CpuInv, CpuTyped
  <1>4. Cpu!NothingForgotten' BY <1>2, Noticed
  <1>5. QED BY <1>1, <1>3, <1>4 DEF CpuInv

LEMMA SetInv ==
  ASSUME Cpu!CpuAssumption, CpuInv, NEW sr \in Program, Cpu!SetSR(sr) \/ Cpu!STOP(sr)
  PROVE  CpuInv'
  <1>1. /\ regs' = Cpu!MakeFromSR(regs, sr) /\ calls = <<>> /\ calls' = calls
        /\ "INT" \in flags' /\ flags' \subseteq flags \cup {"INT", "STOP"} /\ step' = "cycles"
        /\ UNCHANGED <<intena, master, requests>>
        BY DEF Cpu!SetSR, Cpu!STOP, Cpu!Checked
  <1>2. sr \in [s : BOOLEAN, m : BOOLEAN, intmask : 0 .. 7] BY DEF Cpu!CpuAssumption
  <1>3. regs \in Registers /\ Sane(regs) BY DEF CpuInv, CpuTyped, Sane
  <1>4. Sane(regs') BY <1>1, <1>2, <1>3, SeenKept DEF Sane
  <1>5. CpuTyped' BY <1>1, <1>4 DEF CpuInv, CpuTyped
  <1>6. StacksInv' BY <1>1, StacksEmpty
  <1>7. Cpu!NothingForgotten' BY <1>1, Noticed
  <1>8. QED BY <1>5, <1>6, <1>7 DEF CpuInv

LEMMA TrapInv ==
  ASSUME CpuInv, NEW nr \in Cpu!Numbers, Cpu!Trap(nr) PROVE CpuInv'
  <1>1. /\ ~regs.m /\ Cpu!Exception(nr, regs.intmask) /\ step' = "cycles"
        /\ UNCHANGED <<flags, intena, master, requests>>
        BY DEF Cpu!Trap
  <1>2. nr \in {2, 4, 5, 8} BY DEF Cpu!Numbers
  <1>3. regs.intmask \in 0 .. 7 BY DEF CpuInv, CpuTyped, Sane, Registers
  <1>4. /\ calls' \in Seq(Call) /\ (\A i \in 1 .. Len(calls') : CallOK(calls'[i]))
        /\ Sane(regs') /\ regs'.intmask = regs.intmask /\ StacksInv'
    <2>1. nr \notin Interrupts BY <1>2 DEF Interrupts
    <2>2. CpuTyped /\ StacksInv BY DEF CpuInv
    <2>3. nr \in {2, 4, 5, 8} \cup Interrupts BY <1>2
    <2>4. regs.intmask >= regs.intmask BY <1>3
    <2>5. QED BY <1>1, <1>3, <2>1, <2>2, <2>3, <2>4, PushInv
  <1>5. CpuTyped' BY <1>1, <1>4 DEF CpuInv, CpuTyped
  <1>6. Cpu!NothingForgotten' BY <1>1, <1>4, LevelKept DEF CpuInv, Cpu!NothingForgotten
  <1>7. QED BY <1>4, <1>5, <1>6 DEF CpuInv

(* Instructions that change none of the registers. *)
LEMMA ChecksInv ==
  ASSUME CpuInv, UNCHANGED <<regs, memory, calls>>, "INT" \in flags',
         flags' \subseteq {"INT", "DOINT", "STOP"}, requests' \subseteq Bits,
         intena' \subseteq Bits, master' \in BOOLEAN, step' \in {"insn", "cycles", "special"}
  PROVE  CpuInv'
  <1>1. CpuTyped' BY DEF CpuInv, CpuTyped
  <1>2. StacksInv' BY StacksKept DEF CpuInv
  <1>3. Cpu!NothingForgotten' BY Noticed
  <1>4. QED BY <1>1, <1>2, <1>3 DEF CpuInv

LEMMA InstructionInv ==
  ASSUME Cpu!CpuAssumption, CpuInv, Cpu!Instruction PROVE CpuInv'
  <1>1. CASE Cpu!RTE BY <1>1, RteInv
  <1>2. CASE Cpu!RESET
    <2>1. /\ intena' = {} /\ master' = FALSE /\ flags' = {} /\ step' = "cycles"
          /\ UNCHANGED <<regs, requests, memory, calls>>
          BY <1>2 DEF Cpu!RESET
    <2>2. CpuTyped' BY <2>1 DEF CpuInv, CpuTyped
    <2>3. StacksInv' BY <2>1, StacksKept DEF CpuInv
    <2>4. Cpu!intlev' = 0 /\ regs'.intmask = regs.intmask BY <2>1 DEF Cpu!intlev
    <2>5. regs.intmask \in 0 .. 7 BY DEF CpuInv, CpuTyped, Sane, Registers
    <2>6. Cpu!NothingForgotten' BY <2>4, <2>5 DEF Cpu!NothingForgotten
    <2>7. QED BY <2>2, <2>3, <2>6 DEF CpuInv
  <1>3. CASE Cpu!Other
    <2>1. step' = "cycles" /\ UNCHANGED <<flags, intena, master, requests, memory, calls>>
          BY <1>3 DEF Cpu!Other
    <2>2. regs \in Registers /\ Sane(regs) BY DEF CpuInv, CpuTyped, Sane
    <2>3. Sane(regs') /\ regs'.intmask = regs.intmask /\ StacksInv'
      <3>1. CASE UNCHANGED regs BY <2>1, <2>2, <3>1, StacksKept DEF CpuInv
      <3>2. CASE calls = <<>> /\ regs' = [regs EXCEPT !.a7 = Cpu!Down(@, 1)]
        <4>1. PICK p : p = Cpu!Down(regs.a7, 1) OBVIOUS
        <4>2. regs.a7 \in StackPointer BY <2>2 DEF Registers
        <4>3. p \in StackPointer /\ p.stack = regs.a7.stack BY <4>1, <4>2, DownTyped
        <4>4. regs' = [regs EXCEPT !.a7 = p] BY <3>2, <4>1
        <4>5. Cpu!Selected(regs.s, regs.m) \in StackName BY DEF Cpu!Selected, StackName
        <4>6. /\ regs' \in Registers
              /\ \A k \in StackName : Cpu!Seen(regs')[k] =
                   IF k = Cpu!Selected(regs.s, regs.m) THEN p ELSE Cpu!Seen(regs)[k]
              BY <2>2, <4>3, <4>4, SeenWith
        <4>7. p.stack = Cpu!Selected(regs.s, regs.m)
          <5>1. Cpu!Seen(regs)[Cpu!Selected(regs.s, regs.m)] = regs.a7 BY <2>2, <4>5, SeenTyped
          <5>2. QED BY <2>2, <4>3, <4>5, <5>1 DEF Sane
        <4>8. Sane(regs') BY <2>2, <4>6, <4>7 DEF Sane
        <4>9. regs'.intmask = regs.intmask BY <2>2, <4>4 DEF Registers
        <4>10. StacksInv' BY <2>1, <3>2, StacksEmpty
        <4>11. QED BY <4>8, <4>9, <4>10
      <3>3. QED BY <1>3, <3>1, <3>2 DEF Cpu!Other
    <2>4. CpuTyped' BY <2>1, <2>3 DEF CpuInv, CpuTyped
    <2>5. Cpu!NothingForgotten' BY <2>1, <2>3, LevelKept DEF CpuInv, Cpu!NothingForgotten
    <2>6. QED BY <2>3, <2>4, <2>5 DEF CpuInv
  <1>4. ASSUME NEW sr \in Program, Cpu!SetSR(sr) \/ Cpu!STOP(sr) PROVE CpuInv' BY <1>4, SetInv
  <1>5. ASSUME NEW nr \in Cpu!Numbers, Cpu!Trap(nr) PROVE CpuInv' BY <1>5, TrapInv
  <1>6. ASSUME NEW set \in BOOLEAN, NEW b \in {{}} \cup {{x} : x \in Bits}, Cpu!INTENA(set, b)
        PROVE  CpuInv'
    <2>1. b \subseteq Bits OBVIOUS
    <2>2. /\ intena' \subseteq intena \cup b /\ (master' = set \/ master' = master)
          /\ flags' = flags \cup {"INT"} /\ step' = "cycles"
          /\ UNCHANGED <<regs, requests, memory, calls>>
          BY <1>6 DEF Cpu!INTENA, Cpu!Checked
    <2>3. QED BY <2>1, <2>2, ChecksInv DEF CpuInv, CpuTyped
  <1>7. ASSUME NEW b \in Bits, Cpu!Acknowledge(b) PROVE CpuInv'
    <2>1. /\ requests' \subseteq requests /\ flags' = flags \cup {"INT"} /\ step' = "cycles"
          /\ UNCHANGED <<regs, intena, master, memory, calls>>
          BY <1>7 DEF Cpu!Acknowledge, Cpu!Checked
    <2>2. QED BY <2>1, ChecksInv DEF CpuInv, CpuTyped
  <1>8. QED BY <1>1, <1>2, <1>3, <1>4, <1>5, <1>6, <1>7 DEF Cpu!Instruction

(* Between two instructions the chips may ask, and the processor looks. *)
LEMMA RestInv ==
  ASSUME CpuInv, UNCHANGED <<regs, intena, master, requests, memory, calls>>,
         Cpu!intlev > regs.intmask => flags' \cap {"INT", "DOINT"} # {},
         flags' \subseteq {"INT", "DOINT", "STOP"}, step' \in {"insn", "cycles", "special"}
  PROVE  CpuInv'
  <1>1. CpuTyped' BY DEF CpuInv, CpuTyped
  <1>2. StacksInv' BY StacksKept DEF CpuInv
  <1>3. Cpu!NothingForgotten' BY LevelKept DEF Cpu!NothingForgotten
  <1>4. QED BY <1>1, <1>2, <1>3 DEF CpuInv

LEMMA RequestInv ==
  ASSUME CpuInv, NEW b \in Bits, Cpu!Requested({b}) \/ Cpu!Requested({}),
         UNCHANGED <<regs, intena, master, memory, calls>>,
         step' \in {"insn", "cycles", "special"}
  PROVE  CpuInv'
  <1>1. CASE Cpu!Requested({b})
    <2>1. requests' = requests \cup {b} /\ flags' = flags \cup {"INT"}
          BY <1>1 DEF Cpu!Requested, Cpu!Checked
    <2>2. QED BY <2>1, ChecksInv DEF CpuInv, CpuTyped
  <1>2. CASE Cpu!Requested({})
    <2>1. requests' = requests /\ flags' = flags BY <1>2 DEF Cpu!Requested
    <2>2. QED BY <2>1, RestInv DEF CpuInv, CpuTyped, Cpu!NothingForgotten
  <1>3. QED BY <1>1, <1>2

LEMMA TakenInv ==
  ASSUME CpuInv, Cpu!intlev > regs.intmask, Cpu!Taken, flags' = {"INT"} \/ flags' = {"DOINT"},
         UNCHANGED <<intena, master, requests>>, step' \in {"insn", "cycles", "special"}
  PROVE  CpuInv'
  <1>1. Cpu!intlev \in 0 .. 6 /\ regs.intmask \in 0 .. 7
        BY LevelRange DEF CpuInv, CpuTyped, Sane, Registers
  <1>2. PICK l : l = Cpu!intlev OBVIOUS
  <1>3. l \in 1 .. 6 /\ l > regs.intmask BY <1>1, <1>2
  <1>4. 24 + l \in Interrupts /\ l = (24 + l) - 24 BY <1>3 DEF Interrupts
  <1>5. Cpu!Exception(24 + l, l) BY <1>2 DEF Cpu!Taken
  <1>6. /\ calls' \in Seq(Call) /\ (\A i \in 1 .. Len(calls') : CallOK(calls'[i]))
        /\ Sane(regs') /\ StacksInv'
    <2>1. CpuTyped /\ StacksInv BY DEF CpuInv
    <2>2. PICK nr : nr = 24 + l OBVIOUS
    <2>3. nr \in {2, 4, 5, 8} \cup Interrupts /\ nr \in Interrupts /\ l = nr - 24
          /\ l >= regs.intmask /\ l \in 0 .. 7 /\ nr - 24 > regs.intmask
          BY <1>1, <1>3, <1>4, <2>2
    <2>4. QED BY <1>5, <2>1, <2>2, <2>3, PushInv
  <1>7. CpuTyped' BY <1>6 DEF CpuInv, CpuTyped
  <1>8. Cpu!NothingForgotten' BY Noticed
  <1>9. QED BY <1>6, <1>7, <1>8 DEF CpuInv

LEMMA CpuNextInv ==
  ASSUME Cpu!CpuAssumption, CpuInv, [Cpu!Next]_Cpu!vars PROVE CpuInv'
  <1>1. CASE Cpu!Instruction BY <1>1, InstructionInv
  <1>2. CASE Cpu!Cycles
    <2>1. PICK b \in Bits : Cpu!Requested({b}) \/ Cpu!Requested({}) BY <1>2 DEF Cpu!Cycles
    <2>2. QED BY <1>2, <2>1, RequestInv DEF Cpu!Cycles
  <1>3. CASE Cpu!StoppedCycles
    <2>1. PICK b \in Bits : Cpu!Requested({b}) BY <1>3 DEF Cpu!StoppedCycles
    <2>2. step' \in {"insn", "cycles", "special"} /\ UNCHANGED <<regs, intena, master, memory, calls>>
          BY <1>3 DEF Cpu!StoppedCycles, CpuInv, CpuTyped
    <2>3. QED BY <2>1, <2>2, RequestInv
  <1>4. CASE Cpu!StoppedCheck
    <2>1. step' \in {"insn", "cycles", "special"} /\ UNCHANGED <<intena, master, requests>>
          BY <1>4 DEF Cpu!StoppedCheck, CpuInv, CpuTyped
    <2>2. CASE Cpu!intlev > regs.intmask /\ Cpu!Taken /\ flags' = {"INT"} BY <2>1, <2>2, TakenInv
    <2>3. CASE Cpu!intlev <= regs.intmask /\ flags' = {"STOP"} /\ UNCHANGED <<regs, memory, calls>>
      <3>1. Cpu!intlev \in 0 .. 6 /\ regs.intmask \in 0 .. 7
            BY LevelRange DEF CpuInv, CpuTyped, Sane, Registers
      <3>2. ~(Cpu!intlev > regs.intmask) BY <2>3, <3>1
      <3>3. QED BY <2>1, <2>3, <3>2, RestInv
    <2>4. QED BY <1>4, <2>2, <2>3 DEF Cpu!StoppedCheck
  <1>5. CASE Cpu!Specialties
    <2>1. step' = "insn" /\ UNCHANGED <<intena, master, requests>> BY <1>5 DEF Cpu!Specialties
    <2>2. CASE Cpu!intlev > regs.intmask /\ Cpu!Taken /\ flags' = {"DOINT"} BY <2>1, <2>2, TakenInv
    <2>3. CASE /\ "DOINT" \in flags => Cpu!intlev <= regs.intmask
               /\ flags' = Cpu!Delayed(flags) /\ UNCHANGED <<regs, memory, calls>>
      <3>1. Cpu!intlev \in 0 .. 6 /\ regs.intmask \in 0 .. 7
            BY LevelRange DEF CpuInv, CpuTyped, Sane, Registers
      <3>2. Cpu!intlev > regs.intmask => "INT" \in flags
        <4>1. ASSUME Cpu!intlev > regs.intmask PROVE "INT" \in flags
          <5>1. "DOINT" \notin flags BY <2>3, <3>1, <4>1
          <5>2. flags \cap {"INT", "DOINT"} # {} BY <4>1 DEF CpuInv, Cpu!NothingForgotten
          <5>3. QED BY <5>1, <5>2
        <4>2. QED BY <4>1
      <3>3. Cpu!intlev > regs.intmask => flags' \cap {"INT", "DOINT"} # {}
            BY <2>3, <3>2 DEF Cpu!Delayed
      <3>4. flags' \subseteq {"INT", "DOINT", "STOP"} BY <2>3 DEF Cpu!Delayed
      <3>5. QED BY <2>1, <2>3, <3>3, <3>4, RestInv
    <2>4. QED BY <1>5, <2>2, <2>3 DEF Cpu!Specialties
  <1>6. CASE UNCHANGED Cpu!vars
    <2>1. UNCHANGED <<regs, flags, intena, master, requests, memory, step, calls>>
          BY <1>6 DEF Cpu!vars
    <2>2. QED BY <2>1, RestInv DEF CpuInv, CpuTyped, Cpu!NothingForgotten
  <1>7. QED BY <1>1, <1>2, <1>3, <1>4, <1>5, <1>6 DEF Cpu!Next, Cpu!Loop

(* Frames lie on the stacks in the order of the exceptions that left them,   *)
(* each where its exception found the pointer, and masks grow from handler   *)
(* to handler (Exception(), m68k_run_1()).                                   *)
THEOREM CpuInvHolds == ASSUME Cpu!CpuAssumption PROVE Cpu!Spec => []CpuInv
  <1>1. Cpu!Init => CpuInv BY InitCpuInv
  <1>2. CpuInv /\ [Cpu!Next]_Cpu!vars => CpuInv' BY CpuNextInv
  <1>3. QED BY <1>1, <1>2, PTL DEF Cpu!Spec

(* No stack is popped beyond its bottom, the mask and the flags stay in      *)
(* their ranges (struct regstruct, Exception(), RTE).                        *)
THEOREM CpuTypeOKHolds == ASSUME Cpu!CpuAssumption PROVE Cpu!Spec => []Cpu!TypeOK
  <1>1. CpuInv => Cpu!TypeOK
    <2>1. ASSUME CpuInv PROVE Cpu!TypeOK
      <3>1. regs \in Registers BY <2>1 DEF CpuInv, CpuTyped, Sane
      <3>2. \A p \in {regs.a7, regs.usp, regs.isp, regs.msp} : p.n \in Nat
            BY <3>1 DEF Registers, StackPointer
      <3>3. regs.intmask \in 0 .. 7 BY <3>1 DEF Registers
      <3>4. QED BY <2>1, <3>2, <3>3 DEF CpuInv, CpuTyped, Cpu!TypeOK
    <2>2. QED BY <2>1
  <1>2. QED BY <1>1, CpuInvHolds, PTL

(* A request above the mask is never forgotten: one of the flags by which    *)
(* do_specialties() finds it is set, through every change of the mask, of    *)
(* INTENA and of INTREQ (SPCFLAG_INT, SPCFLAG_DOINT).                        *)
THEOREM NothingForgottenHolds == ASSUME Cpu!CpuAssumption PROVE Cpu!Spec => []Cpu!NothingForgotten
  <1>1. CpuInv => Cpu!NothingForgotten BY DEF CpuInv
  <1>2. QED BY <1>1, CpuInvHolds, PTL

(* A handler is only interrupted by a higher level, through any traps in     *)
(* between (Interrupt(), intlev()).                                          *)
THEOREM NestingIncreasesHolds == ASSUME Cpu!CpuAssumption PROVE Cpu!Spec => []Cpu!NestingIncreases
  <1>1. CpuInv => Cpu!NestingIncreases
    <2>1. ASSUME CpuInv, NEW i \in 1 .. Len(calls), NEW j \in 1 .. Len(calls), i < j,
                 {calls[i].nr, calls[j].nr} \subseteq 24 .. 31
          PROVE  calls[i].nr < calls[j].nr
      <3>1. CallOK(calls[i]) /\ CallOK(calls[j]) BY <2>1 DEF CpuInv, CpuTyped
      <3>2. calls[i].nr \in Interrupts /\ calls[j].nr \in Interrupts
            BY <2>1, <3>1 DEF CallOK, Call, Interrupts
      <3>3. calls[j].nr - 24 > calls[j].regs.intmask BY <3>1, <3>2 DEF CallOK
      <3>4. j \in i + 1 .. Len(calls)
        <4>1. calls \in Seq(Call) BY <2>1 DEF CpuInv, CpuTyped
        <4>2. QED BY <2>1, <4>1
      <3>5. calls[j].regs.intmask >= calls[i].nr - 24 BY <2>1, <3>2, <3>4 DEF CpuInv, StacksInv
      <3>6. calls[j].regs.intmask \in 0 .. 7 BY <3>1 DEF CallOK, Call, Registers
      <3>7. PICK x, y, z : x = calls[i].nr /\ y = calls[j].nr /\ z = calls[j].regs.intmask
            OBVIOUS
      <3>8. /\ x \in 25 .. 30 /\ y \in 25 .. 30 /\ z \in 0 .. 7 /\ y - 24 > z /\ z >= x - 24
            BY <3>2, <3>3, <3>5, <3>6, <3>7 DEF Interrupts
      <3>9. x < y BY <3>8
      <3>10. QED BY <3>7, <3>9
    <2>2. QED BY <2>1 DEF Cpu!NestingIncreases
  <1>2. QED BY <1>1, CpuInvHolds, PTL

LEMMA NextReturnStep ==
  ASSUME Cpu!CpuAssumption, CpuInv, [Cpu!Next]_Cpu!vars PROVE Cpu!ReturnStep
  <1>1. CASE Cpu!RTE
    <2>1. PICK exc : exc = calls[Len(calls)] OBVIOUS
    <2>2. /\ Cpu!Seen(regs') = Cpu!Seen(exc.regs) /\ regs'.s = exc.regs.s
          /\ regs'.m = exc.regs.m /\ regs'.intmask = exc.regs.intmask
          BY <1>1, <2>1, Returned DEF Cpu!RTE, CpuInv
    <2>3. QED BY <2>1, <2>2 DEF Cpu!ReturnStep, Cpu!MakeSR
  <1>2. CASE calls' = calls
    <2>1. Len(calls) \in Nat BY DEF CpuInv, CpuTyped
    <2>2. ~(Len(calls') < Len(calls)) BY <1>2, <2>1
    <2>3. QED BY <2>2 DEF Cpu!ReturnStep
  <1>3. ASSUME NEW nr, NEW mask, Cpu!Exception(nr, mask) PROVE Cpu!ReturnStep
    <2>1. calls' = Append(calls, [regs |-> regs, nr |-> nr]) BY <1>3 DEF Cpu!Exception
    <2>2. calls \in Seq(Call) BY DEF CpuInv, CpuTyped
    <2>3. Len(calls') = Len(calls) + 1 /\ Len(calls) \in Nat BY <2>1, <2>2
    <2>4. ~(Len(calls') < Len(calls)) BY <2>3
    <2>5. QED BY <2>4 DEF Cpu!ReturnStep
  <1>4. \/ Cpu!RTE \/ calls' = calls
        \/ \E nr, mask : Cpu!Exception(nr, mask)
    <2>1. CASE Cpu!Instruction
          BY <2>1 DEF Cpu!Instruction, Cpu!RESET, Cpu!Other, Cpu!SetSR, Cpu!STOP, Cpu!Trap,
                      Cpu!INTENA, Cpu!Acknowledge
    <2>2. CASE Cpu!Loop \/ Cpu!StoppedCycles
          BY <2>2 DEF Cpu!Loop, Cpu!Cycles, Cpu!StoppedCheck, Cpu!Specialties, Cpu!Taken,
                      Cpu!StoppedCycles
    <2>3. CASE UNCHANGED Cpu!vars BY <2>3 DEF Cpu!vars
    <2>4. QED BY <2>1, <2>2, <2>3 DEF Cpu!Next
  <1>5. QED BY <1>1, <1>2, <1>3, <1>4

(* The return from an exception brings back the mode, the mask and all       *)
(* three stack pointers, through nested exceptions and the throwaway frames  *)
(* of master mode (Exception(), i_RTE of gencpu.c, MakeFromSR()).            *)
THEOREM ReturnRestoresHolds == ASSUME Cpu!CpuAssumption PROVE Cpu!Spec => Cpu!ReturnRestores
  <1>1. CpuInv /\ [Cpu!Next]_Cpu!vars => Cpu!ReturnStep BY NextReturnStep
  <1>2. QED BY <1>1, CpuInvHolds, PTL DEF Cpu!Spec, Cpu!ReturnRestores
==============================================================================
