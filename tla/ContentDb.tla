------------------------------ MODULE ContentDb -------------------------------
(***************************************************************************)
(* frontends/common/songdb.c and its callers in uadestate.c: the content    *)
(* database, which remembers how long songs play.  Every process loads it   *)
(* when it starts, first a global file and then the user's, adds the        *)
(* playtimes it finds out, and saves it when it ends; before that it merges *)
(* what others have saved, if the file seems newer than what it has loaded.  *)
(* The user's file is locked while it is read, and again while it is        *)
(* written, but not from the one to the other.                              *)
(*                                                                         *)
(* A line of the file is an entry.  Lines that do not parse are skipped by   *)
(* the reader and left out here.                                            *)
(***************************************************************************)
EXTENDS Naturals, Sequences, SequencesExt, FiniteSetsExt

CONSTANTS
  Process,
  Md5,        \* checksums; numbers, for their order
  Playtime,   \* playtimes; 0 is one below three seconds
  GlobalDb,   \* basedir/contentdb: a sequence of entries
  UserDbs,    \* the files that may be in the home directory at first
  Alloc,      \* the smallest allocation of create_content_checksum(), 16
  MemoryLimits, \* how many entries an allocation can hold when it is made
  MaxClock,   \* bound: seconds
  MaxPlays    \* bound: songs one process plays

Entry == [md5 : Md5, playtime : Playtime]
Empty == [mem |-> <<>>, nccalloc |-> 0, alloc |-> 0, modified |-> FALSE,
          corrupted |-> FALSE, loadtime |-> 0]

ContentDbAssumption ==
  /\ Md5 \subseteq Nat /\ Playtime \subseteq Nat /\ Alloc \in Nat \ {0}
  /\ GlobalDb \in Seq(Entry) /\ UserDbs \subseteq Seq(Entry)

VARIABLES
  pc,      \* "start", "global", "playing", "merge", "save", "ended" or "dead"
  db,      \* state->songdb of each process
  file,    \* the lines of the user's file
  mtime,   \* when it was last written, in seconds
  clock,
  plays,   \* songs played
  known,   \* history: the entries a process has read from a file
  found    \* history: the playtime each process found out last and had memory for, or 0

vars == <<pc, db, file, mtime, clock, plays, known, found>>

Init ==
  /\ pc = [p \in Process |-> "start"]
  /\ db = [p \in Process |-> Empty]
  /\ file \in UserDbs
  /\ mtime = 0 /\ clock = 0
  /\ plays = [p \in Process |-> 0]
  /\ known = [p \in Process |-> {}]
  /\ found = [p \in Process |-> [m \in Md5 |-> 0]]
------------------------------------------------------------------------------
(* bsearch(3) among the first n entries; 0 if it finds none. *)
bsearch(s, n, md5) ==
  LET Look[l, u \in 0 .. n] ==
        IF l >= u THEN 0
        ELSE LET i == (l + u) \div 2
             IN IF s[i + 1].md5 = md5 THEN i + 1
                ELSE IF md5 < s[i + 1].md5 THEN Look[l, i] ELSE Look[i + 1, u]
  IN Look[0, n]

get_content(d, md5) == bsearch(d.mem, Len(d.mem), md5)

sort_content_checksums(d) ==
  [d EXCEPT !.mem = SortSeq(@, LAMBDA x, y : x.md5 < y.md5)]

Larger(a, b) == IF a >= b THEN a ELSE b

(* The table doubles when it is full.  nccalloc is doubled before realloc()  *)
(* succeeds, and stays doubled if it fails.                                 *)
Grown(d, limit) ==
  LET n == Larger(2 * d.nccalloc, Alloc)
  IN IF Len(d.mem) < d.nccalloc THEN d
     ELSE [d EXCEPT !.nccalloc = n, !.alloc = IF n <= limit THEN n ELSE @]

CanStore(d, limit) == Len(d.mem) < d.nccalloc \/ Larger(2 * d.nccalloc, Alloc) <= limit

(* create_content_checksum().  Without an md5 it only makes the table exist. *)
create_content_checksum(d, entry, limit) ==
  IF CanStore(d, limit)
  THEN [Grown(d, limit) EXCEPT !.mem = Append(@, entry), !.modified = TRUE]
  ELSE Grown(d, limit)

(* Mutation: a value in the file replaces the one in memory. *)
StoreFromFile(d, entry, old, limit) ==
  IF bsearch(d.mem, old, entry.md5) # 0
  THEN [d EXCEPT !.mem[bsearch(d.mem, old, entry.md5)] = entry]
  ELSE create_content_checksum(d, entry, limit)

(* Mutation: a table that is not empty takes no new entries. *)
StoreFirstTime(d, entry, old, limit) ==
  IF old > 0 THEN d ELSE create_content_checksum(d, entry, limit)

(* One line of the file; "old" entries were in the table before the file was *)
(* read, sorted.  What is in memory is preferred to what is in the file.      *)
store_playtime(d, entry, old, limit) ==
  IF bsearch(d.mem, old, entry.md5) # 0 THEN d
  ELSE LET new == create_content_checksum(d, entry, limit)
       IN [new EXCEPT !.corrupted = @ \/ ~CanStore(d, limit)]

(* Mutation: what is in memory counts as saved after a merge. *)
DirtyByMerge(d, lines) ==
  Len(d.mem) > 0 /\ \E i \in DOMAIN lines : bsearch(d.mem, Len(d.mem), lines[i].md5) = 0

(* A table is to be saved after it was read if it was to be saved before, or *)
(* if it was not empty and the file has songs it had not.                   *)
DirtyAfterRead(d, lines) ==
  \/ d.modified
  \/ /\ Len(d.mem) > 0
     /\ \E i \in DOMAIN lines : bsearch(d.mem, Len(d.mem), lines[i].md5) = 0

(* uade_read_content_db() *)
uade_read_content_db(d, lines, time, limit) ==
  LET start == IF d.alloc = 0 THEN Grown(d, limit) ELSE d
      all == FoldLeft(LAMBDA t, entry : store_playtime(t, entry, Len(d.mem), limit),
                      start, lines)
  IN IF start.alloc = 0 THEN start
     ELSE [sort_content_checksums(all) EXCEPT
             !.loadtime = time, !.modified = DirtyAfterRead(d, lines)]
------------------------------------------------------------------------------
Goto(p, l) == pc' = [pc EXCEPT ![p] = l]

(* load_content_db(): the global database, which may be missing (empty). *)
LoadGlobal(p) ==
  /\ pc[p] = "start"
  /\ \E limit \in MemoryLimits :
       db' = [db EXCEPT ![p] = uade_read_content_db(@, GlobalDb, 0, limit)]
  /\ known' = [known EXCEPT ![p] = ToSet(GlobalDb)]
  /\ Goto(p, "global")
  /\ UNCHANGED <<file, mtime, clock, plays, found>>

(* Then the user's.  A file that does not exist is created empty. *)
LoadUser(p) ==
  /\ pc[p] = "global"
  /\ \E limit \in MemoryLimits :
       db' = [db EXCEPT ![p] = uade_read_content_db(@, file, mtime, limit)]
  /\ known' = [known EXCEPT ![p] = @ \cup ToSet(file)]
  /\ Goto(p, "playing")
  /\ UNCHANGED <<file, mtime, clock, plays, found>>

(* Mutation: uade_add_playtime() appends without sorting. *)
AddUnsorted(d, md5, t, limit) ==
  LET i == get_content(d, md5)
  IN IF d.alloc = 0 \/ t = 0 THEN d
     ELSE IF i # 0
     THEN [d EXCEPT !.mem[i].playtime = t, !.modified = @ \/ d.mem[i].playtime # t]
     ELSE create_content_checksum(d, [md5 |-> md5, playtime |-> t], limit)

(* uade_add_playtime(): a song shorter than three seconds is not recorded. *)
uade_add_playtime(d, md5, t, limit) ==
  LET i == get_content(d, md5)
  IN IF d.alloc = 0 \/ t = 0 THEN d
     ELSE IF i # 0
     THEN [d EXCEPT !.mem[i].playtime = t, !.modified = @ \/ d.mem[i].playtime # t]
     ELSE sort_content_checksums(
            create_content_checksum(d, [md5 |-> md5, playtime |-> t], limit))

PlaySong(p) ==
  /\ pc[p] = "playing" /\ plays[p] < MaxPlays
  /\ \E m \in Md5, t \in Playtime, limit \in MemoryLimits :
       /\ db' = [db EXCEPT ![p] = uade_add_playtime(@, m, t, limit)]
       /\ found' = [found EXCEPT ![p][m] =
            IF t # 0 /\ (get_content(db[p], m) # 0 \/ CanStore(db[p], limit)) THEN t ELSE @]
  /\ plays' = [plays EXCEPT ![p] = @ + 1]
  /\ UNCHANGED <<pc, file, mtime, clock, known>>

(* save_content_db() looks at the time of the file, without a lock. *)
Cleanup(p) ==
  /\ pc[p] = "playing"
  /\ Goto(p, IF db[p].loadtime < mtime THEN "merge" ELSE "save")
  /\ UNCHANGED <<db, file, mtime, clock, plays, known, found>>

Merge(p) ==
  /\ pc[p] = "merge"
  /\ \E limit \in MemoryLimits :
       db' = [db EXCEPT ![p] = uade_read_content_db(@, file, mtime, limit)]
  /\ known' = [known EXCEPT ![p] = @ \cup ToSet(file)]
  /\ Goto(p, "save")
  /\ UNCHANGED <<file, mtime, clock, plays, found>>

(* The file is written from its beginning and not truncated: fdopen(3) does  *)
(* not truncate.  Of the line that the new end falls into a part is left,    *)
(* which no reader takes for an entry.                                      *)
Overwritten(lines, cut) ==
  lines \o SubSeq(file, Len(lines) + 1 + cut, Len(file))

(* uade_save_content_db() *)
Save(p) ==
  /\ pc[p] = "save"
  /\ IF ~db[p].modified \/ db[p].corrupted
     THEN UNCHANGED <<db, file, mtime>>
     ELSE /\ \E cut \in {0, 1} : file' = Overwritten(db[p].mem, cut)
          /\ mtime' = clock
          /\ db' = [db EXCEPT ![p].modified = FALSE]
  /\ Goto(p, "ended")
  /\ UNCHANGED <<clock, plays, known, found>>

(* The process is killed while it writes, or before. *)
Die(p) ==
  /\ pc[p] \in {"playing", "save"}
  /\ \/ UNCHANGED <<file, mtime>>
     \/ /\ pc[p] = "save" /\ db[p].modified /\ ~db[p].corrupted
        /\ \E n \in 1 .. Len(db[p].mem), cut \in {0, 1} :
             file' = Overwritten(SubSeq(db[p].mem, 1, n), cut)
        /\ mtime' = clock
  /\ Goto(p, "dead")
  /\ UNCHANGED <<db, clock, plays, known, found>>

Tick ==
  /\ clock < MaxClock /\ clock' = clock + 1
  /\ UNCHANGED <<pc, db, file, mtime, plays, known, found>>

Next ==
  \/ Tick
  \/ \E p \in Process :
       LoadGlobal(p) \/ LoadUser(p) \/ PlaySong(p) \/ Cleanup(p) \/ Merge(p)
       \/ Save(p) \/ Die(p)

Spec == Init /\ [][Next]_vars
------------------------------------------------------------------------------
TypeOK ==
  /\ pc \in [Process -> {"start", "global", "playing", "merge", "save", "ended", "dead"}]
  /\ \A p \in Process :
       /\ ToSet(db[p].mem) \subseteq Entry
       /\ Len(db[p].mem) <= db[p].nccalloc
  /\ ToSet(file) \subseteq Entry

(* After a realloc() that failed the table is counted larger than it is, and *)
(* the next song is stored behind it: a process that has done so may do       *)
(* anything.  The model goes on as if the memory were there; the properties  *)
(* speak of processes that have not done it yet.                             *)
Sound(p) == Len(db[p].mem) <= db[p].alloc

(* bsearch() needs a sorted table.  Between two operations of a process it   *)
(* finds every song that is in the table.                                    *)
SearchFinds ==
  \A p \in Process : Sound(p) => \A i \in DOMAIN db[p].mem :
    get_content(db[p], db[p].mem[i].md5) # 0

(* No playtime that was found out is dropped because the table was taken for *)
(* unchanged: what is in memory is in a file that was read, or is to be saved. *)
NothingForgotten ==
  \A p \in Process :
    Sound(p) /\ pc[p] \in {"playing", "merge", "save"} =>
      db[p].modified \/ db[p].corrupted \/ ToSet(db[p].mem) \subseteq known[p]

HasSong(lines, m) == \E i \in DOMAIN lines : lines[i].md5 = m
Saves(p) == Sound(p) /\ pc[p] = "save" /\ pc'[p] = "ended" /\ db[p].modified /\ ~db[p].corrupted

(* Saving does not remove a song that the process has read from the file,    *)
(* whoever has added it.  (Only what another process saves between the read  *)
(* and the save, or in the second of the load, can be lost.)                 *)
MergedStep ==
  \A p \in Process : Saves(p) => \A e \in known[p] : HasSong(file', e.md5)
MergedKept == [][MergedStep]_vars

(* A playtime found out by playing the song gets into the file, whatever the *)
(* file said when it was merged.                                            *)
FoundStep ==
  \A p \in Process : Saves(p) =>
    \A m \in Md5 : found[p][m] # 0 =>
      [md5 |-> m, playtime |-> found[p][m]] \in ToSet(file')
FoundSaved == [][FoundStep]_vars

(* songdb.h: nccalloc is the number of allocated entries. *)
AllocatedAsCounted == \A p \in Process : db[p].nccalloc <= db[p].alloc

(* uadestate.c, load_content_db(): reading the global database "does not     *)
(* override any data from user database".                                   *)
UserNotOverridden ==
  [][\A p \in Process : pc[p] = "global" /\ pc'[p] = "playing" =>
       \A m \in Md5 : HasSong(file, m) =>
         \E i \in DOMAIN file :
           file[i].md5 = m /\ file[i] \in ToSet(db'[p].mem)]_vars
===============================================================================
