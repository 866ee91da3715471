-------------------------------- MODULE UadeCore --------------------------------
(***************************************************************************)
(* uadecore, the process that emulates the Amiga: uade.c (the protocol      *)
(* with libuade and the messages of the sound core), the part of audio.c    *)
(* that collects samples, and the main loop m68k_go() of newcpu.c.          *)
(*                                                                         *)
(* at names the place in the code the process has come to; out holds what   *)
(* it sends before it goes on from there.  The emulated 68000 is external:  *)
(* in "run" any of the Emulate actions may be the next thing it does.       *)
(***************************************************************************)
EXTENDS SessionLink

CONSTANTS
  Block,     \* samples libuade asks for at a time
  SkipMax    \* samples dropped before output starts involuntarily

VARIABLES
  at, out,                \* control
  coreSong,               \* the song whose score, player and module are loaded
  canPlay,                \* whether they could be put into Amiga memory
  epoptions,              \* the songs whose eagleplayer options are set
  cachedfile,             \* the file requested last: its song and name, or none
  cachedfilename,
  read_size,              \* uadecore_read_size, in samples
  sndbuf,                 \* samples in the sound buffer (sndbufpt - sndbuffer)
  audio_output, audio_skip,
  reboot,                 \* uadecore_reboot
  ledstate, forced,       \* gui_ledstate, gui_ledstate_forced
  informed                \* the sound core has reported its subsongs

control == <<at, out>>
load == <<coreSong, canPlay>>
files == <<cachedfile, cachedfilename>>
sound == <<read_size, sndbuf, audio_output, audio_skip>>
filter == <<ledstate, forced>>
core == <<control, load, epoptions, files, sound, reboot, filter, informed>>

NoFile == [song |-> 0, arg |-> 0]
Dead == {"exit0", "exit1", "killed"}

CoreInit ==
  /\ at = "option" /\ out = <<>>
  /\ coreSong = 0 /\ canPlay = TRUE /\ epoptions = {}
  /\ cachedfile = NoFile /\ cachedfilename = 0
  /\ read_size = 0 /\ sndbuf = 0 /\ audio_output = FALSE /\ audio_skip = 0
  /\ reboot = FALSE /\ ledstate = 0 /\ forced = 0 /\ informed = FALSE
------------------------------------------------------------------------------
(* The process ends; its descriptors are closed. *)
Exit(how) ==
  /\ at' = how /\ out' = <<>>
  /\ Link!Close("core")
  /\ UNCHANGED <<load, epoptions, files, sound, reboot, filter, informed>>

(* A write to a client that is gone raises SIGPIPE, which uadecore does not  *)
(* handle.  If it was started with the signal ignored the write fails: that  *)
(* is the end of uadecore too, unless the message only informs.              *)
ClientGone ==
  \/ Exit("killed")
  \/ Head(out).type # "MSG" /\ Exit("exit1")
  \/ /\ Head(out).type = "MSG"
     /\ out' = Tail(out)
     /\ UNCHANGED <<link, at, load, epoptions, files, sound, reboot, filter, informed>>

(* uade_send_message(), uade_send_string() *)
CoreSend ==
  /\ out # <<>>
  /\ HasRoom("core")
  /\ IF "client" \notin open THEN ClientGone
     ELSE IF state["core"] = "R" THEN Exit("exit1")
     ELSE /\ Link!SendMessage("core", Head(out))
          /\ out' = Tail(out)
          /\ UNCHANGED <<duty, at, load, epoptions, files, sound, reboot, filter, informed>>

Next_message == Head(inbox["core"])

CoreReceive(place, type) ==
  /\ at = place /\ out = <<>>
  /\ inbox["core"] # <<>> /\ Next_message.type = type
  /\ Link!ReceiveMessage("core")
  /\ UNCHANGED duty

(* What the code at each place that receives a message accepts. *)
Accepts ==
  [option |-> {"CONFIG"}, score |-> {"SCORE"},
   player |-> {"FILE"}, playerdata |-> {"FILE_DATA"},
   module |-> {"FILE"}, moduledata |-> {"FILE_DATA"},
   token |-> {"TOKEN"},
   rstate |-> {"TOKEN", "CHANGE_SUBSONG", "FILTER", "SET_PLAYER_OPTION", "READ", "REBOOT"},
   file |-> {"FILE"}, filedata |-> {"FILE_DATA"}]

Receiving == at \in DOMAIN Accepts /\ out = <<>>

(* The receive functions fail, or their callers reject the message: a       *)
(* message out of order, a player that is missing, a second read.           *)
CoreRejects ==
  /\ Receiving
  /\ inbox["core"] # <<>>
  /\ \/ Next_message.type \notin Accepts[at]
     \/ state["core"] = "S"
     \/ at = "player" /\ Next_message.type = "FILE" /\ Next_message.last
     \/ Next_message.type = "READ" /\ (read_size # 0 \/ Next_message.body.arg = 0)
  /\ Exit("exit1")

(* Mutation: uadecore_handle_r_state() ignores the end of its input. *)
EndOfInputIgnored ==
  /\ Receiving /\ at # "rstate"
  /\ inbox["core"] = <<>> /\ "client" \notin open
  /\ Exit(IF at = "score" THEN "exit0" ELSE "exit1")

CoreEndOfInput ==
  /\ Receiving
  /\ inbox["core"] = <<>> /\ "client" \notin open
  /\ Exit(IF at \in {"score", "rstate"} THEN "exit0" ELSE "exit1")

CoreBeginReceive ==
  /\ at = "option"
  /\ Link!BeginReceive("core")
  /\ UNCHANGED core
------------------------------------------------------------------------------
(* uadecore_option(): the last thing is to receive the configuration.       *)
uadecore_option ==
  /\ CoreReceive("option", "CONFIG")
  /\ at' = "reset"
  /\ reboot' = TRUE
  /\ UNCHANGED <<out, load, epoptions, files, sound, filter, informed>>

(* Mutation: the cached file survives a reset. *)
CacheKept ==
  /\ at = "reset" /\ out = <<>>
  /\ at' = "score"
  /\ UNCHANGED <<link, out, load, epoptions, files, sound, reboot, filter, informed>>

(* uadecore_reset(), in the steps its messages divide it into. *)
invalidate_amiga_file_cache ==
  /\ at = "reset" /\ out = <<>>
  /\ at' = "score"
  /\ cachedfile' = NoFile /\ cachedfilename' = 0
  /\ UNCHANGED <<link, out, load, epoptions, sound, reboot, filter, informed>>

ReceiveScore ==
  /\ CoreReceive("score", "SCORE")
  /\ at' = "player"
  /\ coreSong' = Next_message.body.song
  /\ UNCHANGED <<out, canPlay, epoptions, files, sound, reboot, filter, informed>>

ReceivePlayer ==
  /\ \/ CoreReceive("player", "FILE") /\ ~Next_message.last /\ at' = "playerdata"
     \/ CoreReceive("playerdata", "FILE_DATA") /\ at' = "module"
  /\ UNCHANGED <<out, load, epoptions, files, sound, reboot, filter, informed>>

(* Mutation: the reboot flag is not cleared. *)
LoadSongStillRebooting ==
  /\ at' = "token"
  /\ UNCHANGED reboot
  /\ \/ canPlay' = FALSE /\ UNCHANGED <<sndbuf, audio_output, audio_skip, informed>>
     \/ /\ canPlay' = TRUE
        /\ sndbuf' = 0
        /\ audio_output' = FALSE /\ audio_skip' = 0
        /\ informed' = FALSE

(* Once player and module have come they are put into Amiga memory and the  *)
(* sound core is loaded.  Any of that can fail (skiptonextsong); if it does  *)
(* not, the song's state is reset.                                           *)
LoadSong ==
  /\ at' = "token"
  /\ \/ canPlay' = FALSE /\ UNCHANGED <<reboot, sndbuf, audio_output, audio_skip, informed>>
     \/ /\ canPlay' = TRUE
        /\ sndbuf' = 0
        /\ reboot' = FALSE
        /\ audio_output' = FALSE /\ audio_skip' = 0
        /\ informed' = FALSE

ReceiveModule ==
  /\ \/ /\ CoreReceive("module", "FILE")
        /\ IF Next_message.last THEN LoadSong
           ELSE at' = "moduledata"
                /\ UNCHANGED <<canPlay, reboot, sndbuf, audio_output, audio_skip, informed>>
     \/ CoreReceive("moduledata", "FILE_DATA") /\ LoadSong
  /\ UNCHANGED <<out, coreSong, epoptions, files, read_size, filter>>

(* Mutation: uadecore answers CANT_PLAY without giving back the turn. *)
AnswerWithoutToken ==
  /\ CoreReceive("token", "TOKEN")
  /\ at' = IF canPlay THEN "begin" ELSE "score"
  /\ out' = IF canPlay THEN <<Msg("CAN_PLAY", coreSong, 0), Token(coreSong)>>
            ELSE <<Msg("CANT_PLAY", coreSong, 0)>>
  /\ UNCHANGED <<load, epoptions, files, sound, reboot, filter, informed>>

AnswerSong ==
  /\ CoreReceive("token", "TOKEN")
  /\ at' = IF canPlay THEN "begin" ELSE "score"
  /\ out' = <<Msg(IF canPlay THEN "CAN_PLAY" ELSE "CANT_PLAY", coreSong, 0), Token(coreSong)>>
  /\ UNCHANGED <<load, epoptions, files, sound, reboot, filter, informed>>

(* Mutation: the options of the previous song are kept. *)
BeginSongWithOptions ==
  /\ at = "begin" /\ out = <<>>
  /\ at' = "rstate"
  /\ sndbuf' = 0
  /\ UNCHANGED <<link, out, load, epoptions, files, read_size, audio_output, audio_skip,
                 reboot, filter, informed>>

(* The end of uadecore_reset(), with set_sound_freq(). *)
BeginSong ==
  /\ at = "begin" /\ out = <<>>
  /\ at' = "rstate"
  /\ sndbuf' = 0
  /\ epoptions' = {}
  /\ UNCHANGED <<link, out, load, files, read_size, audio_output, audio_skip, reboot,
                 filter, informed>>
------------------------------------------------------------------------------
(* uadecore_handle_r_state() *)
change_subsong ==
  /\ CoreReceive("rstate", "CHANGE_SUBSONG")
  /\ sndbuf' = 0
  /\ UNCHANGED <<control, load, epoptions, files, read_size, audio_output, audio_skip,
                 reboot, filter, informed>>

(* An unforced LED shows what the Amiga program last wrote to it. *)
audio_set_filter ==
  /\ CoreReceive("rstate", "FILTER")
  /\ LET force == Next_message.body.arg IN
     IF force >= 2
     THEN forced' = force /\ ledstate' = force - 2
     ELSE forced' = 0 /\ ledstate' \in {0, 1}
  /\ UNCHANGED <<control, load, epoptions, files, sound, reboot, informed>>

add_ep_option ==
  /\ CoreReceive("rstate", "SET_PLAYER_OPTION")
  /\ epoptions' = epoptions \cup {Next_message.body.song}
  /\ UNCHANGED <<control, load, files, sound, reboot, filter, informed>>

CommandRead ==
  /\ CoreReceive("rstate", "READ")
  /\ read_size = 0 /\ Next_message.body.arg > 0
  /\ read_size' = Next_message.body.arg
  /\ UNCHANGED <<control, load, epoptions, files, sndbuf, audio_output, audio_skip,
                 reboot, filter, informed>>

CommandReboot ==
  /\ CoreReceive("rstate", "REBOOT")
  /\ reboot' = TRUE
  /\ UNCHANGED <<control, load, epoptions, files, sound, filter, informed>>

(* The token ends uadecore_handle_r_state().  If a reboot was ordered,       *)
(* m68k_run_1() returns to m68k_go(), which acknowledges it and starts over  *)
(* with uadecore_reset().  The interrupt that do_specialties() may still take *)
(* can report a song end from default_xlate().                               *)
LeaveRState ==
  /\ CoreReceive("rstate", "TOKEN")
  /\ IF reboot
     THEN /\ at' = "reset"
          /\ \/ out' = <<Token(coreSong)>>
             \/ out' = <<Msg("SONG_END", coreSong, sndbuf), Token(coreSong)>>
     ELSE at' = "run" /\ UNCHANGED out
  /\ UNCHANGED <<load, epoptions, files, sound, reboot, filter, informed>>
------------------------------------------------------------------------------
(* sample_backend() and check_sound_buffers(), for one sample: when the      *)
(* request is filled it is answered, and the turn goes to the client.        *)
EmulateSound ==
  /\ at = "run" /\ out = <<>>
  /\ IF read_size = 0 THEN Exit("exit1")               \* assertion
     ELSE
     /\ IF audio_output
        THEN IF sndbuf + 1 = read_size
             THEN /\ out' = <<Msg("DATA", coreSong, read_size), Token(coreSong)>>
                  /\ at' = "rstate"
                  /\ read_size' = 0 /\ sndbuf' = 0
                  /\ UNCHANGED <<audio_output, audio_skip>>
             ELSE /\ sndbuf' = sndbuf + 1
                  /\ UNCHANGED <<control, read_size, audio_output, audio_skip>>
        ELSE /\ audio_skip' = audio_skip + 1
             /\ audio_output' = (audio_skip + 1 >= SkipMax)
             /\ sndbuf' = 0
             /\ UNCHANGED <<control, read_size>>
     /\ UNCHANGED <<link, load, epoptions, files, reboot, filter, informed>>

(* uadecore_get_amiga_message(), for the messages of the sound core.  The    *)
(* score reports the subsongs of a song before it starts output.             *)
EmulateSubsongInfo ==
  /\ at = "run" /\ out = <<>> /\ ~informed
  /\ informed' = TRUE
  /\ out' = <<Msg("SUBSONG_INFO", coreSong, 0)>>
  /\ UNCHANGED <<link, at, load, epoptions, files, sound, reboot, filter>>

EmulateStartOutput ==
  /\ at = "run" /\ out = <<>> /\ informed
  /\ audio_output' = TRUE
  /\ UNCHANGED <<link, control, load, epoptions, files, read_size, sndbuf, audio_skip,
                 reboot, filter, informed>>

(* Names and debug messages, the one about LED changes included. *)
EmulateMessage ==
  /\ at = "run" /\ out = <<>>
  /\ out' = <<Msg("MSG", coreSong, 0)>>
  /\ UNCHANGED <<link, at, load, epoptions, files, sound, reboot, filter, informed>>

(* uadecore_song_end(), called for the score or from default_xlate(). *)
EmulateSongEnd ==
  /\ at = "run" /\ out = <<>>
  /\ out' = <<Msg("SONG_END", coreSong, sndbuf)>>
  /\ audio_output' = TRUE
  /\ UNCHANGED <<link, at, load, epoptions, files, read_size, sndbuf, audio_skip,
                 reboot, filter, informed>>

(* A write of the Amiga program to the LED (WriteCIAA()). *)
EmulateLed ==
  /\ at = "run" /\ out = <<>>
  /\ ledstate' \in IF forced = 0 THEN {0, 1} ELSE {forced - 2}
  /\ UNCHANGED <<link, control, load, epoptions, files, sound, reboot, forced, informed>>

(* lookup_amiga_file_cache(), for the load, read and size messages of the    *)
(* score.  A miss becomes a request; a request that cannot be written ends    *)
(* the process.  The name is recorded here already: nothing looks at it until *)
(* the file has come.                                                        *)
lookup_amiga_file_cache(name) ==
  /\ at = "run" /\ out = <<>>
  /\ HasRoom("core")
  /\ ~(cachedfile # NoFile /\ cachedfilename = name)
  /\ IF "client" \notin open THEN Exit("killed") \/ Exit("exit1")
     ELSE /\ Link!RequestFile("core", Msg("REQUEST_AMIGA_FILE", coreSong, name))
          /\ at' = "file"
          /\ cachedfilename' = name
          /\ UNCHANGED <<out, load, epoptions, cachedfile, sound, reboot, filter, informed>>

(* uade_receive_file() in uade_request_amiga_file().  The file becomes the    *)
(* cached one, and a debug message follows.                                  *)
ReceiveAmigaFile ==
  /\ at \in {"file", "filedata"} /\ out = <<>>
  /\ inbox["core"] # <<>> /\ Next_message.type \in Accepts[at]
  /\ Link!ReceivePiece("core")
  /\ IF Next_message.last
     THEN /\ at' = "run"
          /\ cachedfile' = Next_message.body
          /\ out' = <<Msg("MSG", coreSong, 0)>>
     ELSE at' = "filedata" /\ UNCHANGED <<out, cachedfile>>
  /\ UNCHANGED <<load, epoptions, cachedfilename, sound, reboot, filter, informed>>
------------------------------------------------------------------------------
(* The process may be killed at any moment. *)
CoreDies ==
  /\ at \notin Dead
  /\ Exit("killed")

Emulate ==
  \/ EmulateSound \/ EmulateSubsongInfo \/ EmulateStartOutput \/ EmulateMessage
  \/ EmulateSongEnd \/ EmulateLed
  \/ \E name \in 1 .. MaxFiles : lookup_amiga_file_cache(name)

CoreStep ==
  \/ CoreSend \/ CoreRejects \/ CoreEndOfInput \/ CoreBeginReceive
  \/ uadecore_option \/ invalidate_amiga_file_cache
  \/ ReceiveScore \/ ReceivePlayer \/ ReceiveModule \/ AnswerSong \/ BeginSong
  \/ change_subsong \/ audio_set_filter \/ add_ep_option \/ CommandRead
  \/ CommandReboot \/ LeaveRState \/ ReceiveAmigaFile

CoreTypeOK ==
  /\ at \in DOMAIN Accepts \cup {"reset", "begin", "run"} \cup Dead
  /\ coreSong \in 0 .. MaxSongs /\ canPlay \in BOOLEAN
  /\ epoptions \subseteq 0 .. MaxSongs
  /\ cachedfile \in Body /\ cachedfilename \in 0 .. MaxFiles
  /\ read_size \in {0, Block} /\ sndbuf \in 0 .. Block - 1
  /\ audio_output \in BOOLEAN /\ audio_skip \in 0 .. SkipMax
  /\ reboot \in BOOLEAN /\ informed \in BOOLEAN
  /\ ledstate \in {0, 1} /\ forced \in {0, 2, 3}
===============================================================================
