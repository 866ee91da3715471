-------------------------------- MODULE Uade123 --------------------------------
(***************************************************************************)
(* frontends/uade123: the main loop over the playlist (uade123.c), the loop  *)
(* that plays one song and obeys the keys (playloop.c, terminal.c), and the  *)
(* audio device (audio.c).  The library is what it may answer: LibUade and   *)
(* UadePlayback are about that.                                             *)
(* The playlist (playlist.c, with the array of strings it keeps, chrarray.c, *)
(* and the directory walk that fills it, unixwalkdir.c) is the songs in the  *)
(* order they are to be played, a position, and the shuffle and repeat modes. *)
(***************************************************************************)
EXTENDS Integers, Sequences, SequencesExt, FiniteSetsExt

CONSTANTS
  TooLong,      \* the songs whose names are longer than the caller's buffer
  Arguments,    \* the paths on the command line: a set of sequences
  Recursive, Randomplay, Repeats, \* the options -r, -z, --repeat: sets of BOOLEAN
  Room,         \* how many songs the memory holds
  Unknown,      \* the songs that uade_is_our_file() does not know
  Keys,         \* the characters the user may type
  Subsongs,     \* the subsongs a song has: 0 .. n - 1, n in this set
  MayFail,      \* the library calls that may fail: "play", "read", "stop"
  MaxKeys, MaxOpens  \* bounds: characters typed, songs opened

Direction == {"NEXT", "PREVIOUS", "CURRENT"}

EmptyList == [entries |-> <<>>, pos |-> 0, randomize |-> FALSE, repeat |-> FALSE]

Size(pl) == Len(pl.entries)
Current(pl) == pl.entries[pl.pos + 1]
------------------------------------------------------------------------------
(* A path is a "file", a "dir" with a sequence of entries, a "link", which   *)
(* the walk does not follow, or "missing".  A walk visits a directory's      *)
(* entries in its order, each directory where it stands.                    *)
RECURSIVE uade_walk_directories(_)
uade_walk_directories(entries) ==
  IF entries = <<>> THEN <<>>
  ELSE LET e == Head(entries)
       IN (CASE e.kind = "file" -> <<e.name>>
             [] e.kind = "dir" -> uade_walk_directories(e.entries)
             [] OTHER -> <<>>)
          \o uade_walk_directories(Tail(entries))

(* Adding stops where chrarray_add() has no memory: room is how many songs   *)
(* it takes.                                                                *)
Added(pl, songs, room) ==
  LET free == room - Size(pl)
  IN [pl EXCEPT !.entries = @ \o IF Len(songs) <= free THEN songs ELSE SubSeq(songs, 1, free)]

(* playlist_add(): a directory is walked only if that was asked for.         *)
playlist_add(pl, path, recursive, room) ==
  CASE path.kind = "file" -> Added(pl, <<path.name>>, room)
    [] path.kind = "dir" /\ recursive ->
         Added(pl, uade_walk_directories(path.entries), room)
    [] OTHER -> pl

Swapped(pl, i, j) ==
  [pl EXCEPT !.entries[i] = pl.entries[j], !.entries[j] = pl.entries[i]]

(* playlist_randomize(): a swap of each place with itself or a later one     *)
(* can give any order.                                                      *)
Shuffles(pl) == {[pl EXCEPT !.entries = e] : e \in
  {[i \in DOMAIN pl.entries |-> pl.entries[f[i]]] :
     f \in {g \in [DOMAIN pl.entries -> DOMAIN pl.entries] : IsInjective(g)}}}

(* Mutation: the random song is any one of the list. *)
AnyPlace(pl) == 1 .. Size(pl)

(* pl_get_random() chooses among the songs from the position on, ... *)
RandomPlace(pl) == pl.pos + 1 .. Size(pl)

(* Mutation: the entry played is copied, not swapped. *)
CopiedHere(pl, i) == [pl EXCEPT !.entries[pl.pos + 1] = pl.entries[i]]

(* ... and moves the chosen one there. *)
TakenHere(pl, i) == Swapped(pl, pl.pos + 1, i)

(* Mutation: the list begins again without the repeat mode. *)
FollowingRound(pl) == [pl EXCEPT !.pos = IF pl.pos + 1 >= Size(pl) THEN 0 ELSE @ + 1]

(* Where the position goes when the next song is asked for: Size is the end. *)
Following(pl) ==
  [pl EXCEPT !.pos = IF pl.pos + 1 >= Size(pl) /\ pl.repeat THEN 0 ELSE @ + 1]

(* Mutation: the end is taken to be the last song. *)
AtLast(pl) == pl.pos + 1 >= Size(pl) /\ pl.pos > 0

AtEnd(pl) == pl.pos >= Size(pl)

(* pl_get_prev() *)
Preceding(pl) ==
  [pl EXCEPT !.pos = IF pl.pos > 0 THEN pl.pos - 1 ELSE IF pl.repeat THEN Size(pl) - 1 ELSE 0]

(* What playlist_get() may make of the list.  It returns 0 at the end.       *)
Moves(pl, dir) ==
  CASE dir = "PREVIOUS" -> {Preceding(pl)}
    [] dir = "CURRENT" -> {pl}
    [] dir = "NEXT" ->
         LET next == Following(pl)
         IN IF pl.randomize /\ ~AtEnd(next)
            THEN {TakenHere(next, i) : i \in RandomPlace(next)}
            ELSE {next}

(* playlist_get() gives a song, unless the list is empty or at its end, or   *)
(* the name does not fit.                                                   *)
Gives(pl) == Size(pl) > 0 /\ ~AtEnd(pl) /\ Current(pl) \notin TooLong
------------------------------------------------------------------------------
CursorKey == [A |-> "up", B |-> "down", C |-> "right", D |-> "left"]
ToggleKey == {"f", "g", "H", "p", "P", "v"}
SeekKey == {"up", "down", "left", "right", ".", "x", "digit"}

VARIABLES
  pc,         \* "next", "open", "select", "paused", "stop" or an end of the program
  uade_playlist,
  plistdir,
  cursormode, \* how much of an escape sequence has been read
  max,        \* info->subsongs.max of the song; min is 0
  cur,        \* info->subsongs.cur
  on,         \* toggled: effects, forced LED, verbosity
  ready,      \* what select() found: "core", "tty"
  typed, opened, \* counters for the bounds
  history,    \* history: the songs taken from the list, and how each was asked for
  failed      \* history: uade_read() has returned -1 in this song

vars == <<pc, uade_playlist, plistdir, cursormode, max, cur, on, ready, typed,
          opened, history, failed>>

listvars == <<uade_playlist, opened, history>>
keyvars == <<cursormode, on, typed>>
subvars == <<max, cur>>

Ends == {"exit 0", "exit 1", "died", "crashed"}

Loaded(args, recursive) ==
  FoldLeft(LAMBDA pl, path : playlist_add(pl, path, recursive, Room), EmptyList, args)

(* main(), up to the loop: the options, and the playlist. *)
Init ==
  /\ \E args \in Arguments, r \in Recursive, rep \in Repeats, z \in Randomplay :
       LET pl == [Loaded(args, r) EXCEPT !.repeat = rep]
       IN uade_playlist \in IF z THEN Shuffles(pl) ELSE {pl}
  /\ pc = "next" /\ plistdir = "CURRENT"
  /\ cursormode = 0 /\ on = {} /\ ready = {}
  /\ max = 0 /\ cur = 0
  /\ typed = 0 /\ opened = 0
  /\ history = <<>> /\ failed = FALSE
------------------------------------------------------------------------------
Goto(l) == pc' = l

(* The head of the loop in main().  playlist_get() dies of a direction it     *)
(* does not know: EXIT or FAILURE.                                          *)
NextSong ==
  /\ pc = "next" /\ opened < MaxOpens
  /\ IF Size(uade_playlist) > 0 /\ plistdir \notin Direction
     THEN Goto("died") /\ UNCHANGED <<uade_playlist, plistdir, opened, history>>
     ELSE \E pl \in IF Size(uade_playlist) = 0 THEN {uade_playlist}
                    ELSE Moves(uade_playlist, plistdir) :
       /\ uade_playlist' = pl
       /\ IF Gives(pl)
          THEN /\ Goto("open") /\ opened' = opened + 1
               /\ history' = Append(history, [song |-> Current(pl), how |-> plistdir])
               /\ plistdir' = "NEXT"
          ELSE Goto("exit 0") /\ UNCHANGED <<plistdir, opened, history>>
  /\ UNCHANGED <<keyvars, subvars, ready, failed>>

(* uade_is_our_file() and uade_play(): -1 ends the program, 0 and a file that *)
(* is no song lead to the next one.                                          *)
OpenSong ==
  /\ pc = "open"
  /\ \/ Current(uade_playlist) \in Unknown /\ Goto("next") /\ UNCHANGED subvars
     \/ Current(uade_playlist) \notin Unknown /\ "play" \in MayFail
        /\ Goto("next") /\ UNCHANGED subvars
     \/ Current(uade_playlist) \notin Unknown /\ "play" \in MayFail
        /\ Goto("exit 1") /\ UNCHANGED subvars
     \/ Current(uade_playlist) \notin Unknown /\ Goto("select")
        /\ \E n \in Subsongs : max' = n - 1
        /\ cur' \in 0 .. max'
  /\ failed' = FALSE /\ ready' = {}
  /\ UNCHANGED <<listvars, plistdir, keyvars>>

(* play_loop(): select(2) tells which descriptors can be read. *)
Select ==
  /\ pc = "select" /\ ready = {}
  /\ ready' \in {{"core"}} \cup (IF typed < MaxKeys THEN {{"tty"}, {"core", "tty"}} ELSE {})
  /\ UNCHANGED <<pc, listvars, plistdir, keyvars, subvars, failed>>

(* uade_input(): the core is looked at first. *)
ReadsCore == pc = "select" /\ "core" \in ready

InputData ==
  /\ ReadsCore /\ ~failed
  /\ cur' \in {cur, Min({cur + 1, max})}   \* the next subsong may begin
  /\ ready' = ready \ {"core"}
  /\ UNCHANGED <<pc, listvars, plistdir, keyvars, max, failed>>

InputEnd ==
  /\ ReadsCore /\ ~failed
  /\ Goto("stop") /\ ready' = {}
  /\ UNCHANGED <<listvars, plistdir, keyvars, subvars, failed>>

(* uade_read() returns -1, which is kept in a size_t: "nbytes < 0" is false, *)
(* and audio_play() is given SIZE_MAX bytes to play.  It reads beyond the    *)
(* buffer, which may end the program.  Every later read of the song fails,   *)
(* too: its state is an error for uade_get_event().                          *)
InputFails ==
  /\ ReadsCore /\ "read" \in MayFail
  /\ failed' = TRUE
  /\ ready' = ready \ {"core"}
  /\ \/ UNCHANGED pc
     \/ Goto("crashed")
  /\ UNCHANGED <<listvars, plistdir, keyvars, subvars>>
------------------------------------------------------------------------------
(* read_terminal() recognises the cursor keys, which are ESC, [ and a letter. *)
EscapeMode(c) ==
  CASE cursormode = 0 /\ c = "ESC" -> 1
    [] cursormode = 1 /\ c = "[" -> 2
    [] OTHER -> 0

KeyOf(c) ==
  CASE cursormode = 0 -> IF c = "ESC" THEN "nothing" ELSE c
    [] cursormode = 1 -> "nothing"
    [] OTHER -> IF c \in DOMAIN CursorKey THEN CursorKey[c] ELSE "nothing"

Quits(dir) == plistdir' = dir /\ Goto("stop") /\ UNCHANGED <<subvars, on, uade_playlist>>
Stays == UNCHANGED <<pc, plistdir>>
Plain == UNCHANGED <<subvars, on, uade_playlist>>

(* b and z go to the next song from the last subsong, to the previous song   *)
(* from the first one.                                                      *)
NextSubsong ==
  IF cur + 1 > max THEN Quits("NEXT")
  ELSE cur' = cur + 1 /\ Stays /\ UNCHANGED <<max, on, uade_playlist>>

PreviousSubsong ==
  IF cur <= 0 THEN Quits("PREVIOUS")
  ELSE cur' = cur - 1 /\ Stays /\ UNCHANGED <<max, on, uade_playlist>>

(* terminal_input() *)
Obey(key) ==
  CASE key = "<" -> Quits("PREVIOUS")
    [] key \in {">", "RETURN"} -> Quits("NEXT")
    [] key = "q" -> Quits("EXIT")
    [] key = "b" -> NextSubsong
    [] key = "z" -> PreviousSubsong
    [] key = "c" -> Goto("paused") /\ UNCHANGED plistdir /\ Plain
    [] key = "s" ->
         /\ uade_playlist' = [uade_playlist EXCEPT !.randomize = ~@]
         /\ Stays /\ UNCHANGED <<subvars, on>>
    [] key \in ToggleKey ->
         /\ on' = (on \ {key}) \cup ({key} \ on)
         /\ Stays /\ UNCHANGED <<subvars, uade_playlist>>
    [] key \in SeekKey -> Stays /\ UNCHANGED <<max, on, uade_playlist>>
         /\ cur' \in IF key = "digit" THEN {cur} \cup 0 .. max ELSE {cur}
    [] OTHER -> Stays /\ Plain

TerminalInput ==
  /\ pc = "select" /\ ready = {"tty"}
  /\ \E c \in Keys :
       /\ cursormode' = EscapeMode(c)
       /\ Obey(KeyOf(c))
  /\ typed' = typed + 1 /\ ready' = {}
  /\ UNCHANGED <<opened, history, failed>>

(* pause_terminal(): nothing is read from the core until a key is pressed,   *)
(* which does nothing else.                                                 *)
Unpause ==
  /\ pc = "paused"
  /\ Goto("select") /\ ready' = {}
  /\ UNCHANGED <<listvars, plistdir, keyvars, subvars, failed>>
------------------------------------------------------------------------------
(* Where main() goes after uade_stop() has succeeded. *)
AfterSong ==
  CASE plistdir = "FAILURE" -> "exit 1"
    [] plistdir = "EXIT" -> "exit 0"
    [] OTHER -> "next"

(* uade_stop() fails: a new state is made, without what the user has toggled, *)
(* and the loop goes on whatever plistdir says.                             *)
StopSong ==
  /\ pc = "stop"
  /\ \/ Goto(AfterSong) /\ UNCHANGED on
     \/ "stop" \in MayFail /\ Goto("next") /\ on' = {}
     \/ "stop" \in MayFail /\ Goto("died") /\ UNCHANGED on
  /\ UNCHANGED <<listvars, plistdir, cursormode, typed, subvars, ready, failed>>

Next ==
  \/ NextSong \/ OpenSong \/ Select \/ InputData \/ InputEnd \/ InputFails
  \/ TerminalInput \/ Unpause \/ StopSong

Spec == Init /\ [][Next]_vars

(* main() never waits but for select().  Songs that are read end: by         *)
(* themselves or by a time-out.  The user lets a paused program go on.       *)
FairSpec == Spec /\ WF_vars(Next) /\ SF_vars(InputEnd)
------------------------------------------------------------------------------
TypeOK ==
  /\ uade_playlist.pos \in 0 .. Size(uade_playlist)
  /\ plistdir \in Direction \cup {"EXIT", "FAILURE"}
  /\ cursormode \in 0 .. 2 /\ cur \in 0 .. max

(* No song gets lost from the list or into it twice, however often it is     *)
(* shuffled.  (The songs of a run are distinct.)                            *)
ListIsPermutation ==
  \A i, j \in DOMAIN uade_playlist.entries :
    uade_playlist.entries[i] = uade_playlist.entries[j] => i = j

(* Going on from song to song, with the shuffle mode switched at any time,   *)
(* plays no song twice before all have been played.                          *)
Round == Min({Size(uade_playlist), Len(history)})
Recent == {history[Len(history) - k] : k \in 0 .. Round - 1}
NoSongTwice ==
  ~uade_playlist.repeat /\ (\A i \in DOMAIN history : history[i].how # "PREVIOUS")
    => IsInjective([i \in DOMAIN history |-> history[i].song])

(* A playlist that comes to its end, with nobody going back in it, has had   *)
(* every song in it opened, songs that could not be played included.        *)
AllOpened ==
  pc = "exit 0" /\ plistdir = "NEXT" /\ Size(uade_playlist) > 0
    /\ AtEnd(uade_playlist) /\ (\A i \in DOMAIN history : history[i].how # "PREVIOUS")
    => \A s \in ToSet(uade_playlist.entries) : \E i \in DOMAIN history : history[i].song = s

(* '<' brings back the song that was played before the current one, in the   *)
(* shuffle mode too; at the beginning of the list, the current one again.    *)
PreviousStep ==
  /\ Len(history') > Len(history) /\ history'[Len(history')].how = "PREVIOUS"
  /\ ~uade_playlist.repeat
  /\ Len(history) >= 2 /\ history[Len(history)].how = "NEXT"
  => history'[Len(history')].song = history[Len(history) - 1].song
PreviousIsPrevious == [][PreviousStep]_vars

(* Without --repeat the program comes to an end when the user has finished   *)
(* typing: no song, unplayable or not, is tried for ever, unless one cannot  *)
(* be read any more: then play_loop() never ends.                           *)
Stuck == failed /\ pc = "select"
Terminates == ~uade_playlist.repeat => <>(pc \in Ends) \/ <>[]Stuck

(* playloop.c reports "Playback error." and leaves the song when uade_read() *)
(* fails.                                                                   *)
ReadErrorEndsSong == failed => pc # "select" \/ plistdir = "FAILURE"

(* The key q quits: print_action_keys() says "Quit".                        *)
QuitQuits == plistdir = "EXIT" => pc \in {"stop", "exit 0"}
===============================================================================
