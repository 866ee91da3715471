----------------------------- MODULE UadePlayback -----------------------------
(***************************************************************************)
(* What an application hears: uade_read() with its stash and its           *)
(* notifications, seeks, subsong changes, ends of songs and timeouts, and  *)
(* the playing time uade_stop() records (frontends/common/uadestate.c).    *)
(*                                                                         *)
(* It begins where uade_play() has loaded a song.  The link and uadecore   *)
(* are reduced to what UadeSession shows of them: a read request is        *)
(* answered by at most one report, at most one song end, one block and the *)
(* turn.  Sizes are in frames, and a frame carries the subsong and the     *)
(* position it was synthesized at.                                         *)
(***************************************************************************)
EXTENDS Integers, Sequences

CONSTANTS
  MaxSubsong,    \* subsongs are numbered 0 .. MaxSubsong
  Block,         \* frames per read request
  MaxPos,        \* the longest subsong
  ReadSizes,     \* frames an application asks for
  Offsets,       \* distances of seeks
  MaxCommands,   \* seeks and subsong changes by the application
  NotifyLimit,   \* notifications waiting beyond which more are dropped
  OneSubsong,    \* config.one_subsong
  Timeouts       \* timeouts and silence may end a song

PlaybackAssumption ==
  /\ {MaxSubsong, MaxPos, MaxCommands, NotifyLimit} \subseteq Nat
  /\ Block \in Nat \ {0} /\ ReadSizes \subseteq Nat \ {0} /\ Offsets \subseteq Nat
  /\ OneSubsong \in BOOLEAN /\ Timeouts \in BOOLEAN

VARIABLES
  phase,                       \* song.state
  subsongs,                    \* song.info.subsongs
  subsongbytes, songbytes,     \* song.info
  endevent,                    \* song.endevent
  seekmode, seeksubsongoffs, seeksongoffs,
  trigger,                     \* seekmodetrigger, seeksubsongtrigger, seekoffstrigger
  nextsubsongtrigger,
  recordsongtime,
  readstash, notifications,
  call,                        \* the library call under way
  playing, position, reading,  \* uadecore: subsong, frames since its start, open request
  inbox,                       \* messages on their way to the client
  wanted,                      \* the argument of uade_play()
  commands, over, extra,       \* the application: calls made, told the end, reads since
  lastend, recorded            \* the last end uadecore has met; the time recorded

position_ == <<subsongbytes, songbytes>>
seeking   == <<seekmode, seeksubsongoffs, seeksongoffs>>
triggers  == <<trigger, nextsubsongtrigger, recordsongtime>>
core      == <<playing, position, reading, inbox>>
app       == <<wanted, commands, over, extra>>
history   == <<lastend, recorded>>
vars == <<phase, subsongs, position_, endevent, seeking, triggers, readstash,
          notifications, call, core, app, history>>

Subsongs == 0 .. MaxSubsong
Ranges == {r \in [min : Subsongs, cur : Subsongs, def : Subsongs, max : Subsongs] :
             r.min <= r.cur /\ r.cur = r.def /\ r.cur <= r.max}
NoSeek == [mode |-> "none", subsong |-> -1, offs |-> 0]
NoEnd == [tail |-> 0, happy |-> FALSE, stopnow |-> FALSE]
Idle == [op |-> "none", bytes |-> 0, copied |-> 0]
Junk == [sub |-> -1, pos |-> 0]      \* what is synthesized behind the end of a subsong
Least(a, b) == IF a <= b THEN a ELSE b

(* uade_play_internal() has zeroed song; if a subsong is asked for it has    *)
(* called set_subsong_and_seek().  The sound core has the range in mind.     *)
Init ==
  /\ phase = "INITIALIZED"
  /\ subsongs = [min |-> 0, cur |-> 0, def |-> 0, max |-> 0]
  /\ subsongbytes = 0 /\ songbytes = 0 /\ endevent = NoEnd
  /\ seekmode = "none" /\ seeksubsongoffs = 0 /\ seeksongoffs = 0
  /\ \E range \in Ranges :
       /\ wanted \in {-1} \cup range.min .. range.max
       /\ playing = range
  /\ trigger = IF wanted = -1 THEN NoSeek
               ELSE [mode |-> "subsong", subsong |-> wanted, offs |-> 0]
  /\ nextsubsongtrigger = FALSE /\ recordsongtime = TRUE
  /\ readstash = <<>> /\ notifications = <<>>
  /\ call = [Idle EXCEPT !.op = "play"]
  /\ position = 0 /\ reading = FALSE /\ inbox = <<>>
  /\ commands = 0 /\ over = FALSE /\ extra = 0
  /\ lastend = [sub |-> -1, pos |-> 0, happy |-> TRUE] /\ recorded = -1
------------------------------------------------------------------------------
(* uadecore answers a read request.  A subsong that ends leaves a block of   *)
(* which only the first frames belong to it.                                 *)
Frames(n) == [i \in 1 .. Block |->
                IF i <= n THEN [sub |-> playing.cur, pos |-> position + i] ELSE Junk]

uadecore_check_sound_buffers ==
  /\ reading
  /\ reading' = FALSE /\ position' = position + Block
  /\ \E message \in {<<>>, <<[type |-> "MSG"]>>} :
       \/ /\ position + Block <= MaxPos
          /\ inbox' = inbox \o message
               \o <<[type |-> "DATA", data |-> Frames(Block)], [type |-> "TOKEN"]>>
          /\ UNCHANGED lastend
       \/ \E tail \in 0 .. Block - 1, happy \in BOOLEAN :
            /\ position + tail <= MaxPos
            /\ inbox' = inbox \o <<[type |-> "SONG_END", tail |-> tail, happy |-> happy]>>
                 \o message
                 \o <<[type |-> "DATA", data |-> Frames(tail)], [type |-> "TOKEN"]>>
            /\ lastend' = [sub |-> playing.cur, pos |-> position + tail, happy |-> happy]
  /\ UNCHANGED <<phase, subsongs, position_, endevent, seeking, triggers, readstash,
                 notifications, call, playing, app, recorded>>
------------------------------------------------------------------------------
(* set_end_event() *)
LastSubsong == subsongs.cur >= subsongs.max \/ subsongs.cur < subsongs.min
EndEvent(tail, happy, stopnow) ==
  [tail |-> tail, happy |-> happy, stopnow |-> ~happy \/ stopnow \/ LastSubsong]

(* uade_next_subsong(), called in the given phase: it succeeds if CanGoOn.   *)
MoreSubsongs == 0 <= subsongs.cur /\ subsongs.cur < subsongs.max
CanGoOn == MoreSubsongs /\ ~OneSubsong

uade_next_subsong(at) ==
  /\ nextsubsongtrigger' = (nextsubsongtrigger \/ CanGoOn)
  /\ recordsongtime' = (recordsongtime /\ (MoreSubsongs => ~OneSubsong /\ at = "WAIT"))

(* set_subsong(): a request for the next subsong goes first and ends a seek  *)
(* within the subsong.                                                       *)
SubsongTrigger ==
  /\ nextsubsongtrigger' = FALSE
  /\ seekmode' = IF seekmode = "subsong" THEN "none" ELSE seekmode
  /\ UNCHANGED <<trigger, recordsongtime, seeksubsongoffs, seeksongoffs, songbytes>>

(* Mutation: a seek never restarts the subsong that is playing. *)
RestartsOnlyOther ==
  IF trigger.mode = "subsong" THEN trigger.subsong # subsongs.cur
  ELSE trigger.offs < songbytes

(* Whether a seek has to start a subsong from its beginning. *)
Restarts ==
  IF trigger.mode = "subsong"
  THEN trigger.subsong # subsongs.cur \/ trigger.offs < subsongbytes
  ELSE trigger.offs < songbytes

SeekTrigger ==
  /\ seekmode' = trigger.mode
  /\ IF trigger.mode = "subsong"
     THEN /\ seeksubsongoffs' = trigger.offs
          /\ UNCHANGED <<seeksongoffs, songbytes>>
     ELSE /\ seeksongoffs' = trigger.offs
          /\ songbytes' = IF Restarts THEN 0 ELSE songbytes
          /\ UNCHANGED seeksubsongoffs
  /\ trigger' = NoSeek
  /\ UNCHANGED <<nextsubsongtrigger, recordsongtime>>

(* Mutation: the position in the subsong is not reset. *)
StartSubsongKeepsPosition(new) ==
  /\ endevent' = NoEnd /\ UNCHANGED subsongbytes
  /\ subsongs' = [subsongs EXCEPT !.cur = new]
  /\ playing' = [playing EXCEPT !.cur = new]
  /\ position' = 0

(* CHANGE_SUBSONG, or SET_SUBSONG before the first request. *)
StartSubsong(new) ==
  /\ subsongbytes' = 0 /\ endevent' = NoEnd
  /\ subsongs' = [subsongs EXCEPT !.cur = new]
  /\ playing' = [playing EXCEPT !.cur = new]
  /\ position' = 0

set_subsong ==
  LET new == IF nextsubsongtrigger THEN subsongs.cur + 1
             ELSE IF trigger.mode = "subsong" THEN trigger.subsong ELSE subsongs.def
  IN /\ IF nextsubsongtrigger THEN SubsongTrigger ELSE SeekTrigger
     /\ IF nextsubsongtrigger \/ Restarts
        THEN StartSubsong(new)
        ELSE UNCHANGED <<subsongbytes, endevent, subsongs, playing, position>>

(* Mutation: the seek waits for the next turn. *)
SeekOnlyAfterSubsong ==
  /\ IF nextsubsongtrigger THEN set_subsong
     ELSE UNCHANGED <<subsongs, position_, endevent, seeking, triggers, playing, position>>
  /\ reading' = TRUE

(* The client has the turn: commands, read request and token. *)
TakeTurn ==
  /\ IF nextsubsongtrigger \/ trigger.mode # "none" THEN set_subsong
     ELSE UNCHANGED <<subsongs, position_, endevent, seeking, triggers, playing, position>>
  /\ reading' = TRUE
------------------------------------------------------------------------------
(* uade_play_internal(): the first call of uade_get_event(), until the       *)
(* subsongs are known.                                                       *)
FirstRequest ==
  /\ phase = "INITIALIZED"
  /\ phase' = "RECEIVE"
  /\ TakeTurn
  /\ inbox' = <<[type |-> "SUBSONG_INFO"]>>
  /\ UNCHANGED <<readstash, notifications, call, app, history>>

SubsongInfo ==
  /\ call.op = "play" /\ inbox # <<>> /\ Head(inbox).type = "SUBSONG_INFO"
  /\ inbox' = Tail(inbox)
  /\ subsongs' = [playing EXCEPT !.def = playing.cur]
  /\ call' = Idle
  /\ UNCHANGED <<phase, position_, endevent, seeking, triggers, readstash, notifications,
                 playing, position, reading, app, history>>
------------------------------------------------------------------------------
Playing == phase \notin {"INVALID", "ABORTED"}

(* Calls of the application.  It reads on until it is told the end, and may  *)
(* read once more after that.                                                *)
AppRead ==
  /\ call.op = "none" /\ Playing
  /\ over => extra = 0
  /\ extra' = IF over THEN 1 ELSE extra
  /\ \E bytes \in ReadSizes : call' = [op |-> "read", bytes |-> bytes, copied |-> 0]
  /\ notifications' = <<>>
  /\ UNCHANGED <<phase, subsongs, position_, endevent, seeking, triggers, readstash, core,
                 wanted, commands, over, history>>

Command ==
  /\ call.op = "none" /\ Playing /\ commands < MaxCommands
  /\ commands' = commands + 1
  /\ over' = FALSE /\ extra' = 0
  /\ UNCHANGED <<phase, subsongs, position_, endevent, seeking, readstash, notifications,
                 call, core, wanted, history>>

AppNextSubsong ==
  /\ Command
  /\ uade_next_subsong(phase)
  /\ UNCHANGED trigger

(* Where a seek relative to the position goes. *)
RelativeOffset(samples) ==
  LET to == samples + (IF seekmode # "none" THEN seeksubsongoffs ELSE subsongbytes)
  IN IF to < 0 THEN 0 ELSE to

(* Seeks that are not refused: uade_seek_samples(). *)
SeekPosition(samples) ==
  /\ Command
  /\ trigger' = [mode |-> "subsong", subsong |-> subsongs.cur,
                 offs |-> RelativeOffset(samples)]
  /\ recordsongtime' = (recordsongtime /\ RelativeOffset(samples) >= subsongbytes)
  /\ UNCHANGED nextsubsongtrigger

SeekSubsong(samples, subsong) ==
  /\ Command
  /\ trigger' = [mode |-> "subsong", subsong |-> subsong, offs |-> samples]
  /\ recordsongtime' = FALSE
  /\ UNCHANGED nextsubsongtrigger

SeekSong(samples) ==
  /\ Command
  /\ trigger' = [mode |-> "song", subsong |-> 0, offs |-> samples]
  /\ recordsongtime' = (recordsongtime /\ samples >= songbytes)
  /\ UNCHANGED nextsubsongtrigger

(* The messages still on their way are thrown away.  A song that has come to *)
(* its end leaves its playing time in the database.                          *)
AppStop ==
  /\ call.op = "none" /\ Playing
  /\ phase' = "INVALID"
  /\ recorded' = IF recordsongtime /\ phase = "WAIT" THEN songbytes ELSE -1
  /\ readstash' = <<>> /\ notifications' = <<>> /\ inbox' = <<>> /\ reading' = FALSE
  /\ seekmode' = "none" /\ trigger' = NoSeek /\ nextsubsongtrigger' = FALSE
  /\ UNCHANGED <<subsongs, position_, endevent, seeksubsongoffs, seeksongoffs,
                 recordsongtime, call, playing, position, app, lastend>>

App ==
  \/ AppRead \/ AppNextSubsong \/ AppStop
  \/ \E samples \in Offsets :
       \/ SeekPosition(samples) \/ SeekPosition(-samples) \/ SeekSong(samples)
       \/ \E subsong \in 0 .. subsongs.max : SeekSubsong(samples, subsong)
------------------------------------------------------------------------------
(* uade_read() *)
Reading == call.op = "read" /\ call.copied < call.bytes /\ readstash = <<>>

ReadStash ==
  /\ call.op = "read" /\ call.copied < call.bytes /\ readstash # <<>>
  /\ LET n == Least(call.bytes - call.copied, Len(readstash))
     IN /\ call' = [call EXCEPT !.copied = @ + n]
        /\ readstash' = SubSeq(readstash, n + 1, Len(readstash))
  /\ UNCHANGED <<phase, subsongs, position_, endevent, seeking, triggers, notifications,
                 core, app, history>>

ReadReturns ==
  /\ call.op = "read" /\ call.copied = call.bytes
  /\ call' = Idle
  /\ UNCHANGED <<phase, subsongs, position_, endevent, seeking, triggers, readstash,
                 notifications, core, app, history>>

Notify(n) ==
  notifications' = IF Len(notifications) > NotifyLimit THEN notifications
                   ELSE Append(notifications, n)

(* A song end reaches uade_read(), in the given phase. *)
GiveEnd(end, at) ==
  /\ Notify([type |-> "end", sub |-> subsongs.cur, bytes |-> subsongbytes',
             happy |-> end.happy])
  /\ IF end.stopnow \/ ~CanGoOn
     THEN call' = Idle /\ over' = TRUE
     ELSE call' = [call EXCEPT !.op = "read"] /\ UNCHANGED over
  /\ IF end.stopnow THEN UNCHANGED <<nextsubsongtrigger, recordsongtime>>
     ELSE uade_next_subsong(at)

(* uade_get_event() when a song end is pending, and after it. *)
EndPending ==
  /\ Reading /\ phase = "SONG_END_PENDING"
  /\ phase' = "WAIT"
  /\ UNCHANGED <<subsongs, position_, endevent, seeking, trigger, readstash, core,
                 wanted, commands, extra, history>>
  /\ GiveEnd(endevent, "WAIT")

WaitSubsongChange ==
  /\ Reading /\ phase = "WAIT"
  /\ UNCHANGED <<subsongs, position_, seeking, trigger, readstash, core, wanted, commands,
                 extra, history>>
  /\ IF CanGoOn
     THEN /\ phase' = "RECEIVE" /\ uade_next_subsong("WAIT")
          /\ UNCHANGED <<endevent, notifications, call, over>>
     ELSE /\ endevent' = EndEvent(0, TRUE, TRUE)
          /\ recordsongtime' = (recordsongtime /\ ~MoreSubsongs)
          /\ Notify([type |-> "end", sub |-> subsongs.cur, bytes |-> subsongbytes,
                     happy |-> TRUE])
          /\ call' = Idle /\ over' = TRUE
          /\ UNCHANGED <<phase, nextsubsongtrigger>>
------------------------------------------------------------------------------
(* receive_messages(), one message per step.  It keeps receiving ("messages") *)
(* unless it has an event for uade_read().                                   *)
Receiving ==
  \/ Reading /\ phase = "RECEIVE"
  \/ call.op = "messages"
Message == Head(inbox)
Receive(type) == Receiving /\ inbox # <<>> /\ Message.type = type /\ inbox' = Tail(inbox)
KeepReceiving == call' = [call EXCEPT !.op = "messages"]
Event == call' = [call EXCEPT !.op = "read"]

ReceiveSongEnd ==
  /\ Receive("SONG_END")
  /\ endevent' = EndEvent(Message.tail, Message.happy, FALSE)
  /\ phase' = "SONG_END_PENDING"
  /\ KeepReceiving
  /\ UNCHANGED <<subsongs, position_, seeking, triggers, readstash, notifications, playing,
                 position, reading, app, history>>

ReceiveMessage ==
  /\ Receive("MSG")
  /\ IF phase = "SONG_END_PENDING" THEN KeepReceiving /\ UNCHANGED notifications
     ELSE Event /\ Notify([type |-> "message"])
  /\ UNCHANGED <<phase, subsongs, position_, endevent, seeking, triggers, readstash,
                 playing, position, reading, app, history>>

ReceiveReady ==
  /\ Receive("TOKEN")
  /\ TakeTurn
  /\ Event
  /\ UNCHANGED <<phase, readstash, notifications, app, history>>

(* What there is to play in a block, and what was asked to be skipped. *)
Current(mode) == IF mode = "song" THEN songbytes' ELSE subsongbytes'
Target == IF seekmode = "song" THEN seeksongoffs ELSE seeksubsongoffs
Diff == Current(seekmode) - Target
LastFrames(data, n) == SubSeq(data, Len(data) - n + 1, Len(data))

(* Mutation: one frame too many is kept. *)
SeekKeepsOneMore(data) ==
  IF seekmode = "none" THEN data
  ELSE IF Diff <= 0 THEN <<>> ELSE LastFrames(data, Least(Diff + 1, Len(data)))

(* handle_seek(): the frames of a block that are played. *)
handle_seek(data) ==
  IF seekmode = "none" THEN data
  ELSE IF Diff <= 0 THEN <<>> ELSE LastFrames(data, Diff)

Arrived ==
  IF seekmode # "none" /\ Diff >= 0
  THEN seekmode' = "none" /\ seeksongoffs' = 0 /\ seeksubsongoffs' = 0
  ELSE UNCHANGED seeking

(* Mutation: the end of a subsong is played to the end of its block. *)
WholeBlock == Message.data

(* handle_data() *)
Played == IF phase = "SONG_END_PENDING" THEN SubSeq(Message.data, 1, endevent.tail)
          ELSE Message.data

Advance ==
  /\ subsongbytes' = subsongbytes + Len(Played)
  /\ songbytes' = songbytes + Len(Played)

ReceiveData ==
  /\ Receive("DATA")
  /\ Advance
  /\ seekmode # "none" => Diff <= Len(Played)
  /\ Arrived
  /\ LET frames == handle_seek(Played)
         atEnd == phase = "SONG_END_PENDING"
     IN /\ IF frames = <<>> /\ ~atEnd THEN KeepReceiving ELSE Event
        \* at the end of a song nothing is skipped but what lies before a target in the block
        /\ readstash' = IF frames = <<>> /\ atEnd THEN Played ELSE frames
  /\ UNCHANGED <<phase, subsongs, endevent, triggers, notifications, playing, position,
                 reading, app, history>>

(* test_timeouts() finds silence, or a limit exceeded: the block is counted  *)
(* but not played, and phase stays as it is.                                 *)
TimeOut ==
  /\ Timeouts /\ phase = "RECEIVE"
  /\ Receive("DATA")
  /\ Advance
  /\ \E silence, stopnow \in BOOLEAN :
       /\ silence => ~stopnow
       /\ endevent' = EndEvent(0, TRUE, stopnow)
       /\ recordsongtime' = (recordsongtime /\ silence /\ endevent'.stopnow)
       /\ nextsubsongtrigger' = (nextsubsongtrigger \/ (~endevent'.stopnow /\ CanGoOn))
       /\ IF endevent'.stopnow \/ ~CanGoOn
          THEN call' = Idle /\ over' = TRUE
          ELSE Event /\ UNCHANGED over
  /\ Notify([type |-> "end", sub |-> subsongs.cur, bytes |-> subsongbytes', happy |-> TRUE])
  /\ UNCHANGED <<phase, subsongs, seeking, trigger, readstash, playing, position, reading,
                 wanted, commands, extra, history>>

(* The assertion in handle_seek() fails, and the application ends. *)
SeekAborts ==
  /\ Receive("DATA")
  /\ Advance
  /\ seekmode # "none" /\ Diff > Len(Played)
  /\ phase' = "ABORTED" /\ call' = Idle
  /\ UNCHANGED <<subsongs, endevent, seeking, triggers, readstash, notifications, playing,
                 position, reading, app, history>>

ReadStep ==
  \/ ReadStash \/ ReadReturns \/ EndPending \/ WaitSubsongChange
  \/ ReceiveSongEnd \/ ReceiveMessage \/ ReceiveReady \/ ReceiveData \/ SeekAborts \/ TimeOut

Terminated == ~Playing /\ UNCHANGED vars

Next ==
  \/ FirstRequest \/ SubsongInfo \/ App \/ ReadStep
  \/ uadecore_check_sound_buffers \/ Terminated

Spec == Init /\ [][Next]_vars

(* The application runs its event loop, as uade.h:460 asks of it. *)
FairSpec ==
  /\ Spec
  /\ WF_vars(FirstRequest \/ SubsongInfo \/ ReadStep)
  /\ WF_vars(uadecore_check_sound_buffers) /\ WF_vars(AppRead)
------------------------------------------------------------------------------
Modes == {"none", "subsong", "song"}
TypeOK ==
  /\ phase \in {"INITIALIZED", "RECEIVE", "SONG_END_PENDING", "WAIT", "INVALID", "ABORTED"}
  /\ subsongs \in [min : Subsongs, cur : Subsongs, def : Subsongs, max : Subsongs]
  /\ playing \in Ranges \/ playing.cur \in Subsongs
  /\ subsongbytes \in Nat /\ songbytes \in Nat /\ position \in Nat
  /\ endevent \in [tail : 0 .. Block - 1, happy : BOOLEAN, stopnow : BOOLEAN]
  /\ seekmode \in Modes /\ seeksubsongoffs \in Nat /\ seeksongoffs \in Nat
  /\ trigger \in [mode : Modes, subsong : Subsongs \cup {-1}, offs : Nat]
  /\ {nextsubsongtrigger, recordsongtime, reading, over} \subseteq BOOLEAN
  /\ call.op \in {"none", "play", "read", "messages"} /\ call.copied <= call.bytes
  /\ Len(readstash) <= Block

(* What get_time_position() and a seek take for the position is where the    *)
(* samples come from: the last frame waiting to be read was synthesized in   *)
(* the current subsong, subsongbytes after its start.  Blocks that are       *)
(* skipped, cut off by a song end or lost to a timeout, and subsong changes  *)
(* in either direction all have to be counted alike by both processes.       *)
PositionsAgree ==
  readstash # <<>> =>
    readstash[Len(readstash)] = [sub |-> subsongs.cur, pos |-> subsongbytes]

(* The assertion skipfrombuffer >= 0 of handle_seek(): while a seek is under *)
(* way its target is never behind the position by the time a block comes, so *)
(* what lies behind the target is part of that block.                        *)
SeekAhead ==
  /\ seekmode = "subsong" => subsongbytes <= seeksubsongoffs
  /\ seekmode = "song" => songbytes <= seeksongoffs

(* A seek is exact to the frame: the first frame handed to uade_read() by    *)
(* the block that ends it is the one at the target.  Only the end of a song  *)
(* is played while a seek goes on.                                           *)
SeekStep ==
  seekmode # "none" /\ phase = "RECEIVE" /\ readstash' # readstash /\ readstash' # <<>> =>
    IF seekmode = "subsong" THEN Head(readstash').pos = seeksubsongoffs + 1
    ELSE songbytes' - Len(readstash') = seeksongoffs
SeekExact == [][SeekStep]_vars

(* The notification of a song end names the subsong that ended and its true  *)
(* length, although it is written after another block and turn.              *)
EndStep ==
  LET n == notifications'[Len(notifications')] IN
  Len(notifications') > Len(notifications) /\ n.type = "end" =>
    n.sub = lastend.sub /\ n.bytes = lastend.pos
EndReported == [][EndStep]_vars

(* A seek that is asked for while a subsong plays is begun, before the core   *)
(* is given another turn that could end it, if no request for the next        *)
(* subsong goes first.  One that is asked for when the subsong may end before *)
(* the client has the turn again is begun, too, unless the application is     *)
(* told the end instead (receive_messages(), set_subsong()).                 *)
EndMayCome ==
  \/ reading \/ phase \in {"SONG_END_PENDING", "WAIT"}
  \/ \E i \in DOMAIN inbox : inbox[i].type = "SONG_END"
Pending == trigger.mode # "none"
SeekStarts ==
  /\ Pending /\ ~EndMayCome /\ ~nextsubsongtrigger ~> ~Pending \/ nextsubsongtrigger
  /\ Pending ~> ~Pending \/ over

(* uade.h:459: "It can take a long time until the seek completes.  One must   *)
(* run the normal event handling loop during the seek": so every seek is      *)
(* begun.  It does not hold, and no run checks it, for one that is asked for  *)
(* when the last subsong has ended, or is about to: the end is told instead.  *)
SeekBegun == Pending ~> ~Pending

(* uade.h:231: "calling uade_read() again after song end returns 0 again,    *)
(* indefinitely".                                                            *)
EndStays == over => readstash = <<>> /\ call.copied = 0

(* uadestate.h: "we don't record the play time if playback was ended         *)
(* prematurely": a song whose time is recorded has not ended with an error.   *)
PlaytimeOfWholeSong == recorded # -1 => lastend.happy

(* uade.h:469: "Skip 10 secs forward: uade_seek(UADE_SEEK_POSITION_RELATIVE, *)
(* 10, 0, state)": to go forward never goes back.                            *)
ForwardIsForward ==
  [][\A samples \in Offsets :
       SeekPosition(samples) => trigger'.offs >= subsongbytes]_vars

(* uade.h:393: "'subsong' is the subsong to play, pass -1 for the the        *)
(* default subsong".                                                         *)
SubsongAsRequested ==
  [][SubsongInfo /\ wanted # -1 => subsongs'.cur = wanted]_vars
===============================================================================
