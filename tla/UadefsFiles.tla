----------------------------- MODULE UadefsFiles -----------------------------
(***************************************************************************)
(* frontends/uadefs/uadefs.c, names and sizes: the mounted directory shows   *)
(* each song x as x.wav, with the size the WAV would have by the playing     *)
(* times of the content databases; every other operation is handed on to    *)
(* the file behind the name.                                                *)
(* A name is a base and how many times ".wav" follows it.                   *)
(***************************************************************************)
EXTENDS Integers, FiniteSets

CONSTANTS
  Base,          \* base names
  Suffixes,      \* bound: how often ".wav" is repeated
  MaxTime,       \* bound: the clock that stamps the databases, in seconds
  MaxVersion     \* bound: how often each is written

UadefsFilesAssumption == Suffixes \in Nat /\ MaxTime \in Nat /\ MaxVersion \in Nat

VARIABLES
  dir,           \* what is under each name of the real directory
  clock,
  db,            \* each content database: its version, 0 if there is none, and
                 \* time, and the version that was read last, with its time
  mtime,         \* the time of the database that was read last
  size           \* the answer of the last uadefs_getattr()

vars == <<dir, clock, db, mtime, size>>

Name == Base \X (0 .. Suffixes)
Kind == {"song", "hour", "plain", "dir"}   \* "hour" is a song of over an hour
Song == {"song", "hour"}
Databases == {"user", "global"}

WithWav(n) == <<n[1], n[2] + 1>>
Stripped(n) == <<n[1], n[2] - 1>>
Exists(n) == dir[n] # "absent"
uade_is_our_file(n) == n \in Name /\ dir[n] \in Song

(* Mutation: .wav is not put back when there is no song without it. *)
AnyFileWithout(n) == n[2] > 0 /\ Exists(Stripped(n))

SongWithout(n) == n[2] > 0 /\ uade_is_our_file(Stripped(n))

(* The real name, and whether it is to be decoded. *)
uadefs_get_path(n) ==
  IF ~Exists(n) /\ SongWithout(n) THEN [path |-> Stripped(n), isuade |-> TRUE]
  ELSE [path |-> n, isuade |-> FALSE]

Path(n) == uadefs_get_path(n).path

\* gen_uade_name() and uadefs_readdir()
gen_uade_name(e) == IF uade_is_our_file(e) THEN WithWav(e) ELSE e
Listing == {gen_uade_name(e) : e \in {n \in Name : Exists(n)}}
------------------------------------------------------------------------------
Change(newdir) == dir' = newdir /\ UNCHANGED <<clock, db, mtime, size>>

uadefs_mkdir(n) ==
  ~Exists(Path(n)) /\ Change([dir EXCEPT ![Path(n)] = "dir"])

uadefs_unlink(n) ==
  /\ Exists(Path(n)) /\ dir[Path(n)] # "dir"
  /\ Change([dir EXCEPT ![Path(n)] = "absent"])

uadefs_rmdir(n) ==
  dir[Path(n)] = "dir" /\ Change([dir EXCEPT ![Path(n)] = "absent"])

uadefs_rename(from, to) ==
  LET f == Path(from)  t == Path(to)
  IN /\ Exists(f) /\ f # t
     /\ Exists(t) => (dir[f] = "dir") = (dir[t] = "dir")
     /\ Change([dir EXCEPT ![f] = "absent", ![t] = dir[f]])

uadefs_link(from, to) ==
  LET f == Path(from)  t == Path(to)
  IN /\ Exists(f) /\ dir[f] # "dir" /\ ~Exists(t)
     /\ Change([dir EXCEPT ![t] = dir[f]])
------------------------------------------------------------------------------
(* load_content_db(), which keeps one time for the two databases.  A user's  *)
(* database that is read is the last thing it looks at; one that is not there *)
(* is created empty.  (Each is taken to be readable, and not to be written    *)
(* between the read and the stat() that follows it.)                         *)
ReadDb(l, d) ==
  [db |-> [l.db EXCEPT ![d].read = l.db[d].version, ![d].seen = l.db[d].written],
   mtime |-> l.db[d].written]

(* Mutation: a database is read only once. *)
NeverRead(time, w) == time = 0

Newer(time, w) == time < w

ReadGlobal(l) ==
  IF l.db["global"].version > 0 /\ Newer(l.mtime, l.db["global"].written)
  THEN ReadDb(l, "global") ELSE l

load_content_db(l) ==
  IF l.db["user"].version = 0
  THEN ReadGlobal([l EXCEPT !.db["user"] = [version |-> 1, written |-> clock, read |-> 1, seen |-> clock]])
  ELSE IF Newer(l.mtime, l.db["user"].written) THEN ReadDb(l, "user") ELSE ReadGlobal(l)

(* get_file_size(), with the playing time of the song in the databases.      *)
get_file_size(n) ==
  IF ~uade_is_our_file(n) THEN "zero" ELSE IF dir[n] = "hour" THEN "minus one" ELSE "positive"

uadefs_getattr(n) ==
  /\ Exists(Path(n))
  /\ LET l == [db |-> db, mtime |-> mtime]
         r == IF uade_is_our_file(Path(n)) THEN load_content_db(l) ELSE l
     IN db' = r.db /\ mtime' = r.mtime
  /\ size' = get_file_size(Path(n))
  /\ UNCHANGED <<dir, clock>>

\* A program that plays a song, or an installation, writes a database; its
\* time is in seconds, so two versions may have the same.
WriteDatabase(d) ==
  /\ db[d].version < MaxVersion
  /\ db' = [db EXCEPT ![d].version = @ + 1, ![d].written = clock]
  /\ UNCHANGED <<dir, clock, mtime, size>>

Tick ==
  /\ clock < MaxTime /\ clock' = clock + 1
  /\ UNCHANGED <<dir, db, mtime, size>>

\* init_uade() loads the databases before anything is looked at.
Init ==
  /\ dir \in [Name -> {"absent", "song", "hour", "plain"}]
  /\ Cardinality({n \in Name : Exists(n)}) <= 2
  /\ size = "none"
  /\ clock = 1
  /\ \E there \in SUBSET Databases :
       LET Db(d) == [version |-> IF d \in there THEN 1 ELSE 0, written |-> 1, read |-> 0, seen |-> 0]
           l == load_content_db([db |-> [d \in Databases |-> Db(d)], mtime |-> 0])
       IN db = l.db /\ mtime = l.mtime

Next ==
  \/ \E n \in Name : \/ uadefs_mkdir(n) \/ uadefs_unlink(n)
                     \/ uadefs_rmdir(n) \/ uadefs_getattr(n)
  \/ \E n, k \in Name : uadefs_rename(n, k) \/ uadefs_link(n, k)
  \/ \E d \in Databases : WriteDatabase(d)
  \/ Tick

Spec == Init /\ [][Next]_vars
------------------------------------------------------------------------------
\* A song beside a file that has the name the song is shown with.
Shadowed == \E e \in Name : uade_is_our_file(e) /\ WithWav(e) \in Name /\ Exists(WithWav(e))

(* Everything that is listed is there, and opened decoded if it is a song;   *)
(* and a name never leads to a file that is neither called nor shown so: not *)
(* x.wav to a plain file x, which an unlink would remove (uadefs_get_path()). *)
(* A file that has the name of a song's WAV hides it.                        *)
NamesLeadToFiles ==
  ~Shadowed =>
    /\ \A n \in Listing \cap Name :
         /\ Exists(Path(n))
         /\ uadefs_get_path(n).isuade <=> uade_is_our_file(Path(n))
    /\ \A n \in Name : Exists(Path(n)) => n \in {Path(n), gen_uade_name(Path(n))}

(* A look at a song reads the user's database as it is now, if it has not     *)
(* been read as it is, however often each database was written and read      *)
(* before under the one time kept for both (load_content_db()).  There are    *)
(* two exceptions: what was written in the second of the version read, and   *)
(* what was written when a global database as new has been read.  (The songs *)
(* that are new in it are taken over; those known keep their playing time:   *)
(* ContentDb, store_playtime().)                                             *)
DatabaseStep ==
  \A n \in Name : uadefs_getattr(n) /\ uade_is_our_file(Path(n)) =>
    \/ db'["user"].read = db'["user"].version
    \/ db["user"].written \in {db["user"].seen} \cup 0 .. db["global"].seen
UserDatabaseRead == [][DatabaseStep]_vars

(* "User database has priority over global database, so we read it first":   *)
(* when both are there, both are read.                                      *)
GlobalRead ==
  [][\A n \in Name : uadefs_getattr(n) /\ uade_is_our_file(Path(n)) =>
       \A d \in Databases : db'[d].read > 0]_vars

(* "If the file is an uade song, return a heuristic wav file size, a positive *)
(* integer" (get_file_size()).                                              *)
SongHasSize == \A n \in Name : uade_is_our_file(n) => get_file_size(n) = "positive"
==============================================================================
