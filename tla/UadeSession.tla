------------------------------ MODULE UadeSession ------------------------------
(***************************************************************************)
(* A whole session: an application that plays songs with libuade (LibUade), *)
(* the uadecore process it has spawned (UadeCore), and the socket pair       *)
(* between them (IpcLink).  Either process may end at any moment.            *)
(***************************************************************************)
EXTENDS UadeCore, LibUade

vars == <<link, core, client>>

Init == Link!Init /\ CoreInit /\ ClientInit

(* Both processes have ended. *)
Terminated ==
  /\ pc = "gone" /\ at \in Dead
  /\ UNCHANGED vars

StepOfClient == ClientStep(at \in Dead) /\ UNCHANGED core
StepOfCore == CoreStep /\ UNCHANGED client
SampleOfCore == EmulateSound /\ UNCHANGED client

Next ==
  \/ StepOfClient
  \/ (App \/ ClientDies) /\ UNCHANGED core
  \/ StepOfCore
  \/ (Emulate \/ CoreDies) /\ UNCHANGED client
  \/ Terminated

(* Each process goes on when it can.  The emulated machine may do anything,  *)
(* but its clock runs with every instruction, and with it the sound.  The    *)
(* application need not call again.                                          *)
Fairness == WF_vars(StepOfClient) /\ WF_vars(StepOfCore) /\ SF_vars(SampleOfCore)

Spec == Init /\ [][Next]_vars /\ Fairness
------------------------------------------------------------------------------
TypeOK == Link!TypeOK /\ CoreTypeOK /\ ClientTypeOK

(* The two processes use the link as IpcLink allows it: the client speaks    *)
(* first, each sends in its turn only, and a file is sent when, and only     *)
(* when, it was requested.  So what holds of that link holds here.           *)
Erased(m) ==
  [type |-> IF m.type \in ToCore \cup ToClient THEN "COMMAND" ELSE m.type,
   body |-> 0, last |-> m.last]

Plain ==
  INSTANCE IpcLink WITH
    Command <- {"COMMAND"}, Payload <- {0},
    inbox <- [p \in {"client", "core"} |-> [i \in DOMAIN inbox[p] |-> Erased(inbox[p][i])]]

LinkSpec == Plain!Spec

(* uadecore never gives up (exit(1), or a failed assertion) on a client that *)
(* is still there: whatever the order of the application's calls, it gets no *)
(* message it does not accept in the state it has come to, and it is never   *)
(* asked to emulate without a read request to fill.                          *)
NoProtocolError == at = "exit1" => "client" \notin open

(* The session state never becomes an error as long as the core is alive.    *)
ErrorsJustified == phase = "ERROR" => "core" \notin open

(* Once uade_play() has a song to play it fails with a fatal error, after     *)
(* which the session has to be torn down, only if uadecore is lost.  It does  *)
(* not hold: see PlayFatal.cfg.                                              *)
FatalOnlyIfCoreLost == pc = "fatal" /\ caller = "error" => "core" \notin open

(* The assertions of uadestate.c about the protocol state and the size of a  *)
(* block: in uade_get_event(), send_file_back() and receive_message().       *)
AssertionsHold ==
  /\ pc = "event" /\ phase = "INITIALIZED" => state["client"] = "S"
  /\ pc = "event" /\ phase \in {"SONG_END_PENDING", "WAIT_SUBSONG_CHANGE"}
       => state["client"] = "R"
  /\ pc = "asked" => state["client"] = "R"
  /\ \A i \in DOMAIN inbox["client"] :
       inbox["client"][i].type = "DATA" => inbox["client"][i].body.arg = ReadBytes

(* Nothing of one song leaks into the next: whatever is on its way to the    *)
(* application belongs to the song it plays, and so does what is emulated.   *)
SongIsolation ==
  /\ \A i \in DOMAIN inbox["client"] : inbox["client"][i].body.song = song
  /\ at \in {"rstate", "run", "file", "filedata"} => coreSong = song

(* uade_stop() keeps its promise that the next song can be played without    *)
(* further ado: when it has returned, nothing is on its way in either        *)
(* direction, no read request is open, and the core waits for a new song.    *)
StopQuiesces ==
  pc = "idle" /\ phase = "INVALID" /\ song > 0 /\ "core" \in open =>
    /\ state["client"] = "S"
    /\ inbox["client"] = <<>> /\ inbox["core"] = <<>> /\ out = <<>>
    /\ read_size = 0 /\ at \in {"reset", "score"}

(* A file in the core's cache is the file of that name, and of this song. *)
CacheCoherent ==
  at = "run" /\ cachedfile # NoFile => cachedfile = [song |-> coreSong, arg |-> cachedfilename]

(* The options of an eagleplayer apply to the song they were sent for, all   *)
(* of them and none of an earlier song.                                      *)
OptionsExact == at = "run" => epoptions = {coreSong}

(* Songs are separate: a song hears, reads and is configured by nothing that  *)
(* was meant for another.  (uade_play(), uade_stop(); uade.c,                 *)
(* uadecore_reset(), lookup_amiga_file_cache())                               *)
NothingLeaks == SongIsolation /\ CacheCoherent /\ OptionsExact

(* The end of a song reaches libuade before the last block does, and the     *)
(* block before the turn: SONG_END_PENDING never meets a READY event.        *)
TailBeforeTurn ==
  LET q == inbox["client"]
      ended == phase = "SONG_END_PENDING" /\ pc = "receive"
  IN  \A j \in DOMAIN q :
        /\ q[j].type = "TOKEN" /\ pc \notin {"drain", "reboot", "settle"}
        /\ ended \/ \E i \in 1 .. j - 1 : q[i].type = "SONG_END"
        => \E i \in 1 .. j - 1 : q[i].type = "DATA"

(* When the core emulates, the filter is in the state the application has     *)
(* set last, unless that command is still queued: none is lost or overtaken. *)
Playing ==
  /\ phase \notin {"INVALID", "INITIALIZED", "ERROR"}
  /\ pc \in {"idle", "event", "request", "receive"}

FilterFollows ==
  at = "run" /\ Playing /\ write_queue = <<>> => ledstate = led

(* A filter state the application sets is forced on the emulated Amiga: when  *)
(* the core obeys the last command of uade_set_filter_state(), the filter is *)
(* in that state.  (A command obeyed while the application runs is one of    *)
(* uade_set_filter_state(): the one of uade_play() has been obeyed when that *)
(* call returns.)  It does not hold: see FilterNotForced.cfg.                *)
LastCommand ==
  /\ caller = "app" /\ write_queue = <<>>
  /\ LET behind == Tail(inbox["core"]) \o sending IN
     \A i \in DOMAIN behind : behind[i].type # "FILTER"

FilterForces == [][audio_set_filter => (LastCommand => ledstate' = led)]_vars

(* Every call returns, whatever the emulated program does and whichever      *)
(* process dies: neither waits for the other for ever.                       *)
Returned == pc \in {"idle", "fatal", "gone"}
CallsReturn == ~Returned ~> Returned

(* When the application is gone, uadecore ends too. *)
NoOrphan == "client" \notin open ~> at \in Dead
===============================================================================
