-------------------------------- MODULE LibUade --------------------------------
(***************************************************************************)
(* libuade, the library a player application uses: uadestate.c and          *)
(* uadecontrol.c, as far as they talk to uadecore.  The application makes   *)
(* one call at a time, as uade.h asks it to; the calls it may make next are *)
(* the App actions.                                                         *)
(*                                                                         *)
(* pc names the place in the code the call has come to ("idle" when there    *)
(* is none, "fatal" when the last one has returned a fatal error); sending   *)
(* holds the messages it sends before it goes on from there.  Subsong seeks, *)
(* sample counts and timeouts are left to UadePlayback; the silence test and *)
(* the timeouts may end a song with any block.                              *)
(***************************************************************************)
EXTENDS SessionLink

CONSTANTS
  ReadBytes,        \* what uade_read_request() asks for
  LastSubsong,      \* subsongs of a song are 0 .. LastSubsong (bound)
  MaxQueue,         \* filter commands waiting to be sent (bound)
  LedForced,        \* config.led_forced
  FilterWhenIdle    \* whether the application sets the filter between songs

ASSUME LibUadeAssumption ==
  /\ ReadBytes \in Nat \ {0} /\ LastSubsong \in Nat /\ MaxQueue \in Nat
  /\ LedForced \in BOOLEAN /\ FilterWhenIdle \in BOOLEAN

VARIABLES
  pc, sending,      \* control
  caller,           \* what uade_get_event() or uade_stop() returns to
  back,             \* what handling a file request returns to
  wanted,           \* the file the core has asked for
  song,             \* songs played so far; the current one, if any
  phase,            \* state->song.state
  cur, max,         \* state->song.info.subsongs
  nextsubsong,      \* state->song.nextsubsongtrigger
  led,              \* state->config.led_state
  write_queue       \* state->write_queue: filter commands

call == <<pc, sending, caller, back, wanted>>
songstate == <<song, phase, cur, max, nextsubsong>>
client == <<call, songstate, led, write_queue>>

Phases == {"INVALID", "INITIALIZED", "RECEIVE_MSGS", "SONG_END_PENDING",
           "WAIT_SUBSONG_CHANGE", "ERROR"}

ClientInit ==
  /\ pc = "new" /\ sending = <<Msg("CONFIG", 0, 0)>>
  /\ caller = "app" /\ back = "receive" /\ wanted = 0
  /\ song = 0 /\ phase = "INVALID"
  /\ cur = 0 /\ max = 0 /\ nextsubsong = FALSE
  /\ led = 0 /\ write_queue = <<>>

(* Mutation: the command is prepared before led_state is assigned. *)
FilterCommandStale(newstate) == Msg("FILTER", song, IF LedForced THEN 2 + led ELSE 0)

(* uade_prepare_filter_command() *)
FilterCommand(newstate) == Msg("FILTER", song, IF LedForced THEN 2 + newstate ELSE 0)

(* Mutation: the request is sent without the token. *)
ReadRequestOnly == <<Msg("READ", song, ReadBytes)>>

(* read_request() *)
ReadRequest == <<Msg("READ", song, ReadBytes), Token(song)>>
------------------------------------------------------------------------------
(* What a call goes on to do. *)
GoTo(place) == pc' = place /\ sending' = <<>>
GoSend(place, messages) == pc' = place /\ sending' = messages

(* uade_stop() with the given caller: free the queues, then get the pending *)
(* events unless there is no song.                                           *)
Stop(who) ==
  /\ caller' = who
  /\ write_queue' = <<>>
  /\ CASE phase' # "INVALID"                       -> GoTo("drain")
       [] phase' = "INVALID" /\ who = "app"        -> GoTo("idle")
       [] phase' = "INVALID" /\ who = "unplayable" -> GoTo("idle")
       [] phase' = "INVALID" /\ who = "error"      -> GoTo("fatal")
       [] phase' = "INVALID" /\ who = "cleanup"    -> GoTo("close")

(* The end of uade_stop(); uade_play() returns 0 or -1 after it. *)
StopReturns(ok) ==
  /\ GoTo(CASE caller = "cleanup"                        -> "close"
            [] caller = "error"                          -> "fatal"
            [] caller \in {"app", "unplayable"} /\ ok    -> "idle"
            [] caller \in {"app", "unplayable"} /\ ~ok   -> "fatal")
  /\ IF ok THEN /\ phase' = "INVALID"
                /\ cur' = 0 /\ max' = 0 /\ nextsubsong' = FALSE
     ELSE phase' = "ERROR" /\ UNCHANGED <<cur, max, nextsubsong>>
  /\ UNCHANGED <<caller, song, write_queue>>

(* uade_get_event() returns an event: to the application, or to the loop of   *)
(* uade_play_internal() that waits for the subsong information.               *)
GiveEvent(type) ==
  IF caller = "app"
  THEN GoTo("idle") /\ UNCHANGED <<caller, max, write_queue>>
  ELSE CASE type \in {"MSG", "DATA"} -> GoTo("event") /\ UNCHANGED <<caller, max, write_queue>>
         [] type = "SUBSONG_INFO"    -> /\ GoTo("idle") /\ caller' = "app"
                                        /\ max' = LastSubsong
                                        /\ UNCHANGED write_queue
         [] type = "SONG_END"        -> Stop("unplayable") /\ UNCHANGED max
         [] type = "EAGAIN"          -> Stop("error") /\ UNCHANGED max

(* It fails, after error_state(). *)
EventFails ==
  /\ phase' = "ERROR"
  /\ IF caller = "app" THEN GoTo("fatal") /\ UNCHANGED <<caller, write_queue>>
     ELSE Stop("error")
------------------------------------------------------------------------------
(* uade_send_message() and uade_send_string(), with what their callers make   *)
(* of a failure.  The application catches SIGPIPE, as uade.h asks it to.      *)
CanWrite == state["client"] # "R" /\ "core" \in open

(* Filter and subsong commands are only warned about. *)
Optional == Head(sending).type \in {"FILTER", "CHANGE_SUBSONG"} /\ pc # "filter"

ClientSend ==
  /\ sending # <<>> /\ pc # "reply"
  /\ HasRoom("client")
  /\ \/ Link!SendMessage("client", Head(sending)) /\ UNCHANGED duty
     \/ state["client"] = "R" /\ UNCHANGED link
  /\ IF CanWrite \/ Optional
     THEN /\ sending' = Tail(sending)
          /\ UNCHANGED <<pc, caller, songstate, write_queue>>
     ELSE CASE pc = "new" -> GoTo("close") /\ UNCHANGED <<caller, songstate, write_queue>>
            [] pc \in {"init", "options"} -> UNCHANGED songstate /\ Stop("error")
            [] pc = "request" -> EventFails /\ UNCHANGED <<song, cur, max, nextsubsong>>
            [] pc = "reboot"  -> StopReturns(FALSE)
            [] pc = "filter"  -> GoTo("idle") /\ UNCHANGED <<caller, songstate, write_queue>>
  /\ UNCHANGED <<back, wanted, led>>

NewMessage == Head(inbox["client"])

(* Mutation: a file request is taken for any other message. *)
ClientReceiveBlind(place) ==
  /\ pc = place /\ sending = <<>>
  /\ inbox["client"] # <<>>
  /\ Link!ReceiveMessage("client")
  /\ UNCHANGED duty

ClientReceive(place) ==
  /\ pc = place /\ sending = <<>>
  /\ inbox["client"] # <<>>
  /\ Link!ReceiveMessage("client")
  /\ duty' = [duty EXCEPT !["client"] =
                IF NewMessage.type = "REQUEST_AMIGA_FILE" THEN "asked" ELSE @]

(* A receive fails: the core is gone, or the client holds the turn. *)
ReceiveFails(place) ==
  /\ pc = place /\ sending = <<>>
  /\ \/ inbox["client"] = <<>> /\ "core" \notin open
     \/ state["client"] = "S"
  /\ UNCHANGED link
------------------------------------------------------------------------------
(* uade_new_state() returns, or cleans up and fails. *)
uade_new_state ==
  /\ pc = "new" /\ sending = <<>>
  /\ GoTo("idle")
  /\ UNCHANGED <<link, caller, back, wanted, songstate, led, write_queue>>

(* uade_play() for a song whose player was found.  It starts from the        *)
(* configuration of the session, so led_state is again the configured one,   *)
(* or what the attributes of player and song make of it.  The module of a    *)
(* custom song is its own player.                                            *)
AppPlay ==
  /\ pc = "idle" /\ phase = "INVALID" /\ song < MaxSongs
  /\ song' = song + 1
  /\ cur' = 0 /\ max' = 0 /\ nextsubsong' = FALSE /\ phase' = "INVALID"
  /\ led' \in {0, 1}
  /\ \E module \in BOOLEAN :
       GoSend("init", <<Msg("SCORE", song', 0)>> \o FileMessages(song', 0, TRUE)
                         \o FileMessages(song', 0, module) \o <<Token(song')>>)
  /\ caller' = "play"
  /\ UNCHANGED <<link, back, wanted, write_queue>>

(* It returns 0 for a file that is not a song, or whose player is missing,    *)
(* and -1, as for a fatal error, for a file that cannot be loaded.            *)
AppPlayNoSong ==
  /\ pc = "idle" /\ phase = "INVALID"
  /\ \/ led' \in {0, 1} /\ write_queue' \in {<<>>, write_queue} /\ UNCHANGED pc
     \/ pc' = "fatal" /\ UNCHANGED <<led, write_queue>>
  /\ UNCHANGED <<link, sending, caller, back, wanted, songstate>>

(* uade_song_initialization() *)
AwaitAnswer ==
  /\ pc = "init" /\ sending = <<>> /\ GoTo("answer")
  /\ UNCHANGED <<link, caller, back, wanted, songstate, led, write_queue>>

ReceiveAnswer ==
  /\ ClientReceive("answer")
  /\ UNCHANGED <<back, wanted, songstate, led>>
  /\ CASE NewMessage.type = "CAN_PLAY"  -> GoTo("canplay") /\ UNCHANGED <<caller, write_queue>>
       [] NewMessage.type = "CANT_PLAY" -> GoTo("cantplay") /\ UNCHANGED <<caller, write_queue>>
       [] OTHER -> Stop("error")

ReceiveTurn ==
  /\ UNCHANGED <<back, wanted, songstate, led>>
  /\ \/ /\ ClientReceive("canplay")
        /\ IF NewMessage.type = "TOKEN"
           THEN GoSend("options", <<FilterCommand(led), Msg("SET_PLAYER_OPTION", song, 0)>>)
                /\ UNCHANGED <<caller, write_queue>>
           ELSE Stop("error")
     \/ /\ ClientReceive("cantplay")
        /\ Stop(IF NewMessage.type = "TOKEN" THEN "unplayable" ELSE "error")

InitializationFails ==
  /\ \E place \in {"answer", "canplay", "cantplay"} : ReceiveFails(place)
  /\ UNCHANGED <<back, wanted, songstate, led>>
  /\ Stop("error")

BeginEvents ==
  /\ pc = "options" /\ sending = <<>>
  /\ phase' = "INITIALIZED"
  /\ GoTo("event")
  /\ UNCHANGED <<link, caller, back, wanted, song, cur, max, nextsubsong, led, write_queue>>
------------------------------------------------------------------------------
(* uade_get_event() *)
AppGetEvent ==
  /\ pc = "idle" /\ phase # "INVALID"
  /\ GoTo("event") /\ caller' = "app"
  /\ UNCHANGED <<link, back, wanted, songstate, led, write_queue>>

(* Mutation: there is always one more. *)
MoreSubsongsOffByOne == cur <= max

MoreSubsongs == cur < max

GetEvent ==
  /\ pc = "event"
  /\ CASE phase = "INITIALIZED" ->
            /\ GoSend("request", ReadRequest)
            /\ UNCHANGED <<phase, nextsubsong, caller, max, write_queue>>
       [] phase = "RECEIVE_MSGS" ->
            GoTo("receive") /\ UNCHANGED <<phase, nextsubsong, caller, max, write_queue>>
       [] phase = "SONG_END_PENDING" ->
            phase' = "WAIT_SUBSONG_CHANGE" /\ GiveEvent("SONG_END") /\ UNCHANGED nextsubsong
       [] phase = "WAIT_SUBSONG_CHANGE" /\ MoreSubsongs ->
            /\ nextsubsong' = TRUE /\ phase' = "RECEIVE_MSGS"
            /\ GoTo("event") /\ UNCHANGED <<caller, max, write_queue>>
       [] phase = "WAIT_SUBSONG_CHANGE" /\ ~MoreSubsongs ->
            UNCHANGED <<phase, nextsubsong>> /\ GiveEvent("SONG_END")
  /\ UNCHANGED <<link, back, wanted, song, cur, led>>

(* Mutation: the first call does not change the state of the song. *)
RequestedAgain ==
  /\ pc = "request" /\ sending = <<>>
  /\ UNCHANGED phase
  /\ IF phase = "INITIALIZED" THEN GoTo("event") /\ UNCHANGED <<caller, max, write_queue>>
     ELSE GiveEvent("EAGAIN")
  /\ UNCHANGED <<link, back, wanted, song, cur, nextsubsong, led>>

(* A read request has been sent: from the first call of uade_get_event(),    *)
(* which goes on, or for a READY event, which becomes an EAGAIN event.       *)
Requested ==
  /\ pc = "request" /\ sending = <<>>
  /\ IF phase = "INITIALIZED"
     THEN phase' = "RECEIVE_MSGS" /\ GoTo("event") /\ UNCHANGED <<caller, max, write_queue>>
     ELSE UNCHANGED phase /\ GiveEvent("EAGAIN")
  /\ UNCHANGED <<link, back, wanted, song, cur, nextsubsong, led>>

(* receive_messages(), for each message.  A READY event takes the pending    *)
(* subsong change and the queued commands in front of the next request.      *)
Ready ==
  /\ NewMessage.type = "TOKEN"
  /\ GoSend("request",
        (IF nextsubsong THEN <<Msg("CHANGE_SUBSONG", song, cur + 1)>> ELSE <<>>)
          \o write_queue \o ReadRequest)
  /\ cur' = IF nextsubsong THEN cur + 1 ELSE cur
  /\ nextsubsong' = FALSE
  /\ write_queue' = <<>>
  /\ UNCHANGED <<phase, caller, max, wanted, back>>

FileRequest ==
  /\ NewMessage.type = "REQUEST_AMIGA_FILE"
  /\ GoTo("asked")
  /\ wanted' = NewMessage.body.arg /\ back' = "receive"
  /\ UNCHANGED <<phase, caller, cur, max, nextsubsong, write_queue>>

(* Mutation: a block that a seek skips is dropped even if it is the last. *)
DataBlockDropped ==
  /\ NewMessage.type = "DATA"
  /\ UNCHANGED <<phase, cur, nextsubsong, wanted, back>>
  /\ \/ GiveEvent("DATA")
     \/ UNCHANGED <<pc, sending, caller, max, write_queue>>

(* The last block of a song is not tested for silence or timeouts. *)
DataBlock ==
  /\ NewMessage.type = "DATA"
  /\ UNCHANGED <<phase, cur, nextsubsong, wanted, back>>
  /\ \/ GiveEvent("DATA")
     \/ phase # "SONG_END_PENDING" /\ GiveEvent("SONG_END")

SongEnd ==
  /\ NewMessage.type = "SONG_END"
  /\ phase' = "SONG_END_PENDING"
  /\ UNCHANGED <<pc, sending, caller, cur, max, nextsubsong, wanted, back, write_queue>>

OtherMessage ==
  /\ NewMessage.type \in {"MSG", "SUBSONG_INFO"}
  /\ IF phase = "SONG_END_PENDING"
     THEN UNCHANGED <<pc, sending, caller, max, write_queue>>
     ELSE GiveEvent(NewMessage.type)
  /\ UNCHANGED <<phase, cur, nextsubsong, wanted, back>>

BadMessage ==
  /\ NewMessage.type \in {"CAN_PLAY", "CANT_PLAY"}
  /\ EventFails
  /\ UNCHANGED <<cur, max, nextsubsong, wanted, back>>

receive_messages ==
  /\ ClientReceive("receive")
  /\ Ready \/ FileRequest \/ DataBlock \/ SongEnd \/ OtherMessage \/ BadMessage
  /\ UNCHANGED <<song, led>>

receive_messages_fails ==
  /\ ReceiveFails("receive")
  /\ EventFails
  /\ UNCHANGED <<back, wanted, song, cur, max, nextsubsong, led>>

(* handle_request_amiga_file() and send_file_back().  While it drains        *)
(* events, uade_stop() answers that no file exists.                          *)
send_file_back ==
  /\ pc = "asked"
  /\ Link!BeginReply("client")
  /\ \E found \in IF back = "receive" THEN BOOLEAN ELSE {FALSE} :
       GoSend("reply", FileMessages(song, wanted, found))
  /\ UNCHANGED <<caller, back, wanted, songstate, led, write_queue>>

SendReply ==
  /\ pc = "reply" /\ sending # <<>>
  /\ HasRoom("client")
  /\ Link!SendPiece("client", Head(sending))
  /\ IF "core" \in open
     THEN /\ IF Len(sending) = 1 THEN GoTo(back)
             ELSE sending' = Tail(sending) /\ UNCHANGED pc
          /\ UNCHANGED <<caller, songstate, write_queue>>
     ELSE IF back = "receive" THEN EventFails /\ UNCHANGED <<song, cur, max, nextsubsong>>
     ELSE StopReturns(FALSE)
  /\ UNCHANGED <<back, wanted, led>>
------------------------------------------------------------------------------
(* uade_stop() *)
AppStop ==
  /\ pc = "idle"
  /\ UNCHANGED phase /\ Stop("app")
  /\ UNCHANGED <<link, back, wanted, song, cur, max, nextsubsong, led>>

(* get_pending_events(): receive until the turn comes, before and after the  *)
(* reboot command.                                                           *)
get_pending_events(place) ==
  /\ pc = place /\ state["client"] # "S"
  /\ ClientReceive(place)
  /\ IF NewMessage.type = "REQUEST_AMIGA_FILE"
     THEN GoTo("asked") /\ wanted' = NewMessage.body.arg /\ back' = place
     ELSE UNCHANGED <<pc, sending, wanted, back>>
  /\ UNCHANGED <<caller, songstate, led, write_queue>>

PendingEventsFail ==
  /\ pc \in {"drain", "settle"} /\ state["client"] = "R"
  /\ ReceiveFails(pc)
  /\ StopReturns(FALSE)
  /\ UNCHANGED <<back, wanted, led>>

OrderReboot ==
  /\ pc = "drain" /\ state["client"] = "S"
  /\ GoSend("reboot", <<Msg("REBOOT", song, 0), Token(song)>>)
  /\ UNCHANGED <<link, caller, back, wanted, songstate, led, write_queue>>

(* Mutation: uade_stop() does not wait for the reboot to be acknowledged. *)
RebootNotAwaited ==
  /\ pc = "reboot" /\ sending = <<>>
  /\ StopReturns(TRUE)
  /\ UNCHANGED <<link, back, wanted, led>>

AwaitReboot ==
  /\ pc = "reboot" /\ sending = <<>> /\ GoTo("settle")
  /\ UNCHANGED <<link, caller, back, wanted, songstate, led, write_queue>>

Stopped ==
  /\ pc = "settle" /\ state["client"] = "S"
  /\ StopReturns(TRUE)
  /\ UNCHANGED <<link, back, wanted, led>>

(* uade_cleanup_state() *)
AppCleanup ==
  /\ pc \in {"idle", "fatal"}
  /\ UNCHANGED phase /\ Stop("cleanup")
  /\ UNCHANGED <<link, back, wanted, song, cur, max, nextsubsong, led>>

(* uade_arch_kill_and_wait_uadecore() *)
CloseLink ==
  /\ pc = "close" /\ GoTo("wait")
  /\ Link!Close("client")
  /\ UNCHANGED <<caller, back, wanted, songstate, led, write_queue>>

WaitForCore(dead) ==
  /\ pc = "wait" /\ dead
  /\ GoTo("gone")
  /\ UNCHANGED <<link, caller, back, wanted, songstate, led, write_queue>>
------------------------------------------------------------------------------
(* uade_next_subsong(); it fails if there is none. *)
AppNextSubsong ==
  /\ pc = "idle" /\ MoreSubsongs
  /\ nextsubsong' = TRUE
  /\ UNCHANGED <<link, call, song, phase, cur, max, led, write_queue>>

(* uade_set_filter_state(): the command is queued unless it is the client's  *)
(* turn to send.                                                             *)
AppSetFilter(newstate) ==
  /\ pc = "idle" /\ (phase # "INVALID" \/ FilterWhenIdle)
  /\ led' = newstate
  /\ IF state["client"] = "S"
     THEN GoSend("filter", <<FilterCommand(newstate)>>) /\ UNCHANGED write_queue
     ELSE /\ Len(write_queue) < MaxQueue
          /\ write_queue' = Append(write_queue, FilterCommand(newstate))
          /\ UNCHANGED <<pc, sending>>
  /\ UNCHANGED <<link, caller, back, wanted, songstate>>

FilterSent ==
  /\ pc = "filter" /\ sending = <<>> /\ GoTo("idle")
  /\ UNCHANGED <<link, caller, back, wanted, songstate, led, write_queue>>

(* The process of the application ends. *)
ClientDies ==
  /\ "client" \in open
  /\ Link!Close("client")
  /\ GoTo("gone")
  /\ UNCHANGED <<caller, back, wanted, songstate, led, write_queue>>

App ==
  \/ AppPlay \/ AppPlayNoSong \/ AppGetEvent \/ AppStop \/ AppCleanup \/ AppNextSubsong
  \/ \E newstate \in {0, 1} : AppSetFilter(newstate)

(* The steps of a call under way. *)
ClientStep(dead) ==
  \/ ClientSend \/ uade_new_state
  \/ AwaitAnswer \/ ReceiveAnswer \/ ReceiveTurn \/ InitializationFails \/ BeginEvents
  \/ GetEvent \/ Requested \/ receive_messages \/ receive_messages_fails
  \/ send_file_back \/ SendReply
  \/ get_pending_events("drain") \/ get_pending_events("settle")
  \/ PendingEventsFail \/ OrderReboot \/ AwaitReboot \/ Stopped
  \/ CloseLink \/ WaitForCore(dead) \/ FilterSent

ClientTypeOK ==
  /\ pc \in {"new", "idle", "init", "answer", "canplay", "cantplay", "options", "event",
             "request", "receive", "asked", "reply", "drain", "reboot", "settle",
             "filter", "fatal", "close", "wait", "gone"}
  /\ caller \in {"play", "app", "unplayable", "error", "cleanup"}
  /\ back \in {"receive", "drain", "settle"} /\ wanted \in 0 .. MaxFiles
  /\ song \in 0 .. MaxSongs /\ phase \in Phases
  /\ cur \in 0 .. LastSubsong /\ max \in {0, LastSubsong} /\ nextsubsong \in BOOLEAN
  /\ led \in {0, 1} /\ Len(write_queue) <= MaxQueue
===============================================================================
