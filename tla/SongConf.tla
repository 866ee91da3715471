------------------------------- MODULE SongConf -------------------------------
(***************************************************************************)
(* The user's song.conf, options that cure particular songs: frontends/     *)
(* common/songdb.c, uade_update_song_conf() ("uade123 --set") and           *)
(* uade_read_song_conf().  Both lock the file with lockf(3).  Such a lock    *)
(* belongs to the process, and goes when the process closes any descriptor  *)
(* of the file: uade_update_song_conf() reads the file with uade_read_file(), *)
(* which opens and closes it once more.                                     *)
(*                                                                         *)
(* A line sets options for one song, or is a comment or a line nobody        *)
(* understands (song None).  Blank lines are left out.                      *)
(***************************************************************************)
EXTENDS Naturals, Sequences, SequencesExt

CONSTANTS
  Process, Song, Options,
  None,         \* no song; nobody
  Files,        \* the files there may be at first
  MaxUpdates    \* bound: updates of all processes

Line == [song : Song \cup {None}, options : Options]

SongConfAssumption == Files \subseteq Seq(Line) /\ None \notin Song \cup Process

VARIABLES
  file,     \* the lines of song.conf
  lock,     \* the process that holds the lock, or None
  pc,       \* "idle", "locked", "read", "truncated" or "dead"
  input,    \* the lines uade_update_song_conf() has read
  job,      \* the line it is to add
  updates,  \* updates begun
  store,    \* db->songstore of the process that called uade_read_song_conf() last
  \* History: the last line each song was given by a completed update, as far
  \* as no later loss is to be expected; which updates another overlaps, from
  \* the reading of the file to its writing; whether none ever did
  done, overlapped, clean

vars == <<file, lock, pc, input, job, updates, store, done, overlapped, clean>>
history == <<done, overlapped, clean>>

Init ==
  /\ file \in Files
  /\ lock = None
  /\ pc = [p \in Process |-> "idle"]
  /\ input = [p \in Process |-> <<>>]
  /\ job = [p \in Process |-> None]
  /\ updates = 0
  /\ store = <<>>
  /\ done = [s \in Song |-> None]
  /\ overlapped = [p \in Process |-> FALSE]
  /\ clean = TRUE

Goto(p, l) == pc' = [pc EXCEPT ![p] = l]
------------------------------------------------------------------------------
(* uade_open_and_lock() waits for the lock. *)
BeginUpdate(p) ==
  /\ pc[p] = "idle" /\ updates < MaxUpdates
  /\ lock = None /\ lock' = p
  /\ \E s \in Song, o \in Options :
       job' = [job EXCEPT ![p] = [song |-> s, options |-> o]]
  /\ updates' = updates + 1
  /\ Goto(p, "locked")
  /\ UNCHANGED <<file, input, store, history>>

Busy(p) == pc[p] \in {"read", "truncated"}

(* uade_read_file() closes the file, and with it goes the lock. *)
ReadInput(p) ==
  /\ pc[p] = "locked"
  /\ input' = [input EXCEPT ![p] = file]
  /\ lock' = None
  /\ Goto(p, "read")
  /\ overlapped' = [q \in Process |->
       IF q = p THEN \E o \in Process : Busy(o) ELSE overlapped[q] \/ Busy(q)]
  /\ UNCHANGED <<file, job, updates, store, done, clean>>

(* uade_atomic_close() and free() at the end *)
Return(p) ==
  /\ Goto(p, "idle")
  /\ input' = [input EXCEPT ![p] = <<>>]
  /\ job' = [job EXCEPT ![p] = None]
  /\ overlapped' = [overlapped EXCEPT ![p] = FALSE]

(* The song itself cannot be read: nothing is written, and 1 is returned. *)
NoSuchSong(p) ==
  /\ pc[p] = "read"
  /\ Return(p)
  /\ UNCHANGED <<file, lock, updates, store, done, clean>>

(* ftruncate() *)
Truncate(p) ==
  /\ pc[p] = "read"
  /\ file' = <<>>
  /\ Goto(p, "truncated")
  /\ UNCHANGED <<lock, input, job, updates, store, history>>

(* Mutation: the old line stays. *)
Appended(lines, l) == Append(lines, l)

(* Mutation: a song that has options keeps them. *)
KeepOld(lines, l) ==
  IF \E i \in DOMAIN lines : lines[i].song = l.song THEN lines ELSE Append(lines, l)

(* Mutation: the lines after the old one are skipped as well. *)
CutAtMatch(lines, l) ==
  Append(SubSeq(lines, 1, SelectInSeq(lines, LAMBDA k : k.song = l.song) - 1), l)

(* The copy loop: the first line of the song is left out (others are warned  *)
(* about and kept), and the new line goes to the end.                       *)
Updated(lines, l) ==
  LET i == SelectInSeq(lines, LAMBDA k : k.song = l.song)
  IN Append(IF i = 0 THEN lines ELSE RemoveAt(lines, i), l)

(* uade_atomic_write() from the beginning of the file: of what another       *)
(* process has written meanwhile the tail is left.                          *)
WriteBack(p) ==
  /\ pc[p] = "truncated"
  /\ LET output == Updated(input[p], job[p])
     IN file' = output \o SubSeq(file, Len(output) + 1, Len(file))
  /\ done' = [s \in Song |-> CASE s = job[p].song -> job[p]
                               [] s # job[p].song -> IF overlapped[p] THEN None ELSE done[s]]
  /\ clean' = (clean /\ ~overlapped[p])
  /\ Return(p)
  /\ UNCHANGED <<lock, updates, store>>

(* Mutation: reading ends with the first line that does not begin with md5=. *)
UntilComment(lines) ==
  LET i == SelectInSeq(lines, LAMBDA k : k.song = None)
  IN IF i = 0 THEN lines ELSE SubSeq(lines, 1, i - 1)

(* Lines that do not begin with md5= make no entry that a lookup finds. *)
Songs(lines) == SelectSeq(lines, LAMBDA k : k.song # None)

(* uade_read_song_conf(): locks, reads, closes; the entries are sorted. *)
uade_read_song_conf(p) ==
  /\ pc[p] = "idle" /\ lock = None
  /\ store' = Songs(file)
  /\ UNCHANGED <<file, lock, pc, input, job, updates, history>>

(* A process may be killed anywhere; its lock goes with it, and the file, if  *)
(* it has been truncated.                                                    *)
Die(p) ==
  /\ pc[p] # "dead"
  /\ Goto(p, "dead")
  /\ lock' = IF lock = p THEN None ELSE lock
  /\ done' = IF pc[p] = "truncated" THEN [s \in Song |-> None] ELSE done
  /\ UNCHANGED <<file, input, job, updates, store, overlapped, clean>>

Next ==
  \E p \in Process :
    \/ BeginUpdate(p) \/ ReadInput(p) \/ NoSuchSong(p) \/ Truncate(p)
    \/ WriteBack(p) \/ uade_read_song_conf(p) \/ Die(p)

Spec == Init /\ [][Next]_vars
------------------------------------------------------------------------------
TypeOK ==
  /\ ToSet(file) \subseteq Line
  /\ lock \in Process \cup {None}
  /\ ToSet(store) \subseteq [song : Song, options : Options]

Rewriting == \E p \in Process : pc[p] = "truncated"

(* What an update wrote stays, whoever updates, reads or is killed after it.  *)
(* The lock would keep updates apart (uade_update_song_conf(), "closes the    *)
(* lock too"), but it is gone once the file is read: an update is lost if     *)
(* another overlaps it that writes later, and with it all that was there if   *)
(* the other read the truncated file, or a process died that had truncated   *)
(* it.  Nothing else is lost.                                               *)
UpdatesKept == ~Rewriting => \A s \in Song : done[s] # None => done[s] \in ToSet(file)

(* The same line is what a process that reads the file now goes by: where    *)
(* the file began with one line per song, and no updates overlapped, there   *)
(* is no older one left.                                                    *)
OneLinePerSong ==
  ~Rewriting /\ clean /\ (\A f \in Files : \A i, j \in DOMAIN f : f[i].song = f[j].song => i = j) =>
    \A i \in DOMAIN file :
      file[i].song # None /\ done[file[i].song] # None
        => file[i] = done[file[i].song]

(* An update keeps the lines of other songs, comments and what it does not   *)
(* understand, in their order; of an update that overlaps it, a tail may     *)
(* come behind them.                                                        *)
OthersStep ==
  \A p \in Process : pc[p] = "truncated" /\ pc'[p] = "idle" =>
    LET Rest(lines) == SelectSeq(lines, LAMBDA k : k.song # job[p].song)
    IN IF overlapped[p] THEN IsPrefix(Rest(input[p]), Rest(file')) ELSE Rest(file') = Rest(input[p])
OthersKept == [][OthersStep]_vars

(* A reader that comes when no process is just rewriting the file, which the  *)
(* lock does not keep it from, gets all the options that updates have set.   *)
ReadersStep ==
  store' # store /\ ~Rewriting => \A s \in Song : done[s] # None => done[s] \in ToSet(store')
ReadersSeeUpdates == [][ReadersStep]_vars
===============================================================================
