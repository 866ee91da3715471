------------------------------ MODULE SessionLink ------------------------------
(***************************************************************************)
(* What libuade (LibUade) and uadecore (UadeCore) share: the link of        *)
(* IpcLink, and the messages that travel over it.  Of what a message carries *)
(* only two numbers are kept: the song it belongs to and one argument, such  *)
(* as the number of a file name, a subsong or a filter state.                *)
(***************************************************************************)
EXTENDS Naturals, Sequences

CONSTANTS
  MaxSongs,     \* songs played in a session (bound)
  MaxFiles,     \* files an eagleplayer may ask for (bound)
  Capacity      \* messages a socket buffer holds before a write blocks

ASSUME SessionAssumption ==
  MaxSongs \in Nat /\ MaxFiles \in Nat /\ Capacity \in Nat \ {0}

VARIABLES state, inbox, duty, open

link == <<state, inbox, duty, open>>

ToCore ==
  {"CONFIG", "SCORE", "FILTER", "SET_PLAYER_OPTION", "CHANGE_SUBSONG", "READ", "REBOOT"}
ToClient == {"CAN_PLAY", "CANT_PLAY", "SUBSONG_INFO", "MSG", "SONG_END", "DATA"}
Body == [song : 0 .. MaxSongs, arg : Nat]

Link == INSTANCE IpcLink WITH Command <- ToCore \cup ToClient, Payload <- Body

Msg(type, song, arg) ==
  [type |-> type, body |-> [song |-> song, arg |-> arg], last |-> TRUE]

Token(song) == Msg("TOKEN", song, 0)

(* uade_send_file(): a file that does not exist is announced as such, others *)
(* take a FILE message and, here, one FILE_DATA message.                      *)
FileMessages(song, name, found) ==
  IF found
  THEN <<[Msg("FILE", song, name) EXCEPT !.last = FALSE], Msg("FILE_DATA", song, name)>>
  ELSE <<Msg("FILE", song, name)>>

(* A write to p's peer blocks while that is open and the buffer is full. *)
HasRoom(p) ==
  Link!Other(p) \in open => Len(inbox[Link!Other(p)]) < Capacity
===============================================================================
