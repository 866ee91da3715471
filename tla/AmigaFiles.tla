----------------------------- MODULE AmigaFiles -----------------------------
(***************************************************************************)
(* The files a player opens by an Amiga name: from the host's directories, *)
(* uade_find_amiga_file() of unixsupport.c, or from the container the song *)
(* came in, rmc.c.  An application may collect the files of a song into a  *)
(* container through its own Amiga loader (uade_set_amiga_loader()).       *)
(*                                                                         *)
(* Names are sequences of components; a component is <<word, case>>, and   *)
(* strcasecmp() compares words.  The component before two slashes is       *)
(* Nothing.  A tree maps the paths of its directories to Dir and those of  *)
(* its files to their contents.                                            *)
(***************************************************************************)
EXTENDS Naturals, Sequences, FiniteSets, TLC

CONSTANTS
    Trees,      \* directories of the host, from the current one down
    Players,    \* what is in the player directory: S/ and ENV/
    Requests,   \* names players ask for: [volume, name, dots]; dots are
                \* "none", "before" a component or "after" one
    Containers, \* containers that are played: [song, files, subsongs]; song
                \* is Nothing if the container does not name it
    MaxCalls    \* bound on the calls of the application

Dir == "dir"
Missing == "missing"
Nothing == <<"", 0>>
AmigaAssumption == MaxCalls \in Nat /\ \A t \in Trees \cup Players : <<>> \in DOMAIN t /\ t[<<>>] = Dir

VARIABLES host, playerdir,
          box,       \* the files of the container that is being filled
          collected, \* the names and contents it has been given
          rmc,       \* state->rmc: "none" or "box"
          song,      \* "none", "plain" or "box"
          aborted,   \* an assertion has failed
          calls
vars == <<host, playerdir, box, collected, rmc, song, aborted, calls>>

Parent(path) == SubSeq(path, 1, Len(path) - 1)
Last(path) == path[Len(path)]
Entries(tree, dir) == {p \in DOMAIN tree : p # <<>> /\ Parent(p) = dir}
\* uade_amiga_scandir(), scan_dict(): the exact name, or else any that differs
\* in case only; which of several comes first is up to the directory
(* Mutation: the exact name only. *)
ScanExact(tree, dir, c) == {p \in Entries(tree, dir) : Last(p) = c}
Scan(tree, dir, c) ==
    LET exact == {p \in Entries(tree, dir) : Last(p) = c}
    IN  IF exact # {} THEN exact ELSE {p \in Entries(tree, dir) : Last(p)[1] = c[1]}

\* The places a name may lead to; {} if a component is missing or no directory
Walk(tree, name) ==
    LET w[i \in 0..Len(name)] ==
          IF i = 0 THEN {<<>>}
          ELSE UNION {Scan(tree, d, name[i]) : d \in {p \in w[i - 1] : tree[p] = Dir}}
    IN  w[Len(name)]

-----------------------------------------------------------------------------
(* The host *)
\* Empty components are skipped, volumes are directories of the player's
Clean(name) == SelectSeq(name, LAMBDA c : c # Nothing)
uade_find_amiga_file(r) ==
    CASE r.volume = "none"   -> Walk(host, Clean(r.name))
      [] r.volume = "player" -> Walk(playerdir, Clean(r.name))
      [] OTHER               -> {}
\* uade_file_load(): a directory cannot be read
Contents(tree, places) ==
    IF places = {} THEN {Missing} ELSE {IF tree[p] = Dir THEN Missing ELSE tree[p] : p \in places}
from_host(r) == Contents(IF r.volume = "none" THEN host ELSE playerdir, uade_find_amiga_file(r))

-----------------------------------------------------------------------------
(* The container *)
\* ben_str_val() of a directory ends the program: no contents
uade_rmc_get_file(r) ==
    IF r.dots = "before" THEN {Missing}
    ELSE LET places == Walk(box, r.name)
         IN  IF places = {} THEN {Missing} ELSE {box[p] : p \in places} \ {Dir}

\* uade_rmc_record_file(): the directories of the name that are found, then
\* those that are not are made, and the file if there is none.  A volume is
\* part of the first component.
Rejected(r) == r.dots # "none"
Recorded(r) == IF r.volume = "none" THEN r.name
               ELSE <<<<r.volume \o ":" \o r.name[1][1], r.name[1][2]>>>> \o Tail(r.name)
Beneath(tree, name) ==
    {i \in 0..(Len(name) - 1) : Walk(tree, SubSeq(name, 1, i)) # {}}
(* Mutation: a directory that is there is taken for a file. *)
DeepestNone(tree, name) == 0
Deepest(tree, name) == CHOOSE i \in Beneath(tree, name) : \A j \in Beneath(tree, name) : j <= i
(* Mutation: the file is made even if there is one of another case. *)
RecordAnyCase(r, data) ==
    LET name  == Recorded(r)
        n     == Len(name)
        found == Deepest(box, name)
        at    == CHOOSE p \in Walk(box, SubSeq(name, 1, found)) : TRUE
        new   == {at \o SubSeq(name, found + 1, i) : i \in (found + 1)..n}
    IN  IF Rejected(r) \/ box[at] # Dir \/ ScanExact(box, at, name[found + 1]) # {} THEN box
        ELSE [p \in DOMAIN box \cup new |->
                IF p \in DOMAIN box THEN box[p] ELSE IF Len(p) = Len(at) + n - found THEN data ELSE Dir]
uade_rmc_record_file(r, data) ==
    LET name  == Recorded(r)
        n     == Len(name)
        found == Deepest(box, name)
        at    == CHOOSE p \in Walk(box, SubSeq(name, 1, found)) : TRUE
        new   == {at \o SubSeq(name, found + 1, i) : i \in (found + 1)..n}
    IN  IF Rejected(r) \/ box[at] # Dir \/ Scan(box, at, name[found + 1]) # {} THEN box
        ELSE [p \in DOMAIN box \cup new |->
                IF p \in DOMAIN box THEN box[p] ELSE IF Len(p) = Len(at) + n - found THEN data ELSE Dir]

\* uade_load_amiga_file()
uade_load_amiga_file(r) ==
    IF r.volume = "none" /\ rmc # "none" THEN uade_rmc_get_file(r) ELSE from_host(r)

-----------------------------------------------------------------------------
Init ==
    /\ host \in Trees /\ playerdir \in Players
    /\ box = (<<>> :> Dir) /\ collected = {}
    /\ rmc = "none" /\ song = "none" /\ calls = 0 /\ aborted = FALSE

Call == ~aborted /\ calls < MaxCalls /\ calls' = calls + 1
\* uade_rmc_get_module(): "invalid", "abort" or "ok"
uade_rmc_get_module(c) ==
    LET names == IF c.song = Nothing THEN DOMAIN c.files ELSE {c.song}
    IN  IF Cardinality(names) > 1 \/ ~c.subsongs THEN "invalid"
        ELSE IF names = {} THEN "abort"
        ELSE IF \E n \in names : n \notin DOMAIN c.files \/ c.files[n] = Dir THEN "invalid"
        ELSE "ok"
stopped_rmc(container) == "none"
\* uade_play_internal(): a container is decoded before a player is looked for;
\* without a player the call returns 0 as it is, other errors end in uade_stop()
uade_play_container(c) ==
    /\ Call /\ song = "none"
    /\ \E module \in {uade_rmc_get_module(c)} :
         /\ song' \in IF module = "ok" THEN {"box", "none"} ELSE {"none"}
         /\ IF module = "ok" THEN rmc' \in {"box"} \cup (IF song' = "none" THEN {stopped_rmc("box")} ELSE {})
            ELSE rmc' = "none"
         /\ aborted' = (module = "abort")
    /\ UNCHANGED <<host, playerdir, box, collected>>
uade_play ==
    /\ Call /\ song = "none"
    /\ song' \in {"plain", "none"}
    /\ rmc' \in {rmc} \cup (IF song' = "none" THEN {stopped_rmc(rmc)} ELSE {})
    /\ UNCHANGED <<host, playerdir, box, collected, aborted>>
uade_stop ==
    /\ Call /\ song # "none"
    /\ song' = "none" /\ rmc' = stopped_rmc(rmc)
    /\ UNCHANGED <<host, playerdir, box, collected, aborted>>
\* A player asks for a file, and the application collects what it gets
handle_request_amiga_file(r) ==
    /\ Call /\ song = "plain"
    /\ \E data \in uade_load_amiga_file(r) :
         IF data = Missing THEN UNCHANGED <<box, collected>>
         ELSE /\ box' = uade_rmc_record_file(r, data)
              /\ collected' = IF Rejected(r) THEN collected ELSE collected \cup {<<r, data>>}
    /\ UNCHANGED <<host, playerdir, rmc, song, aborted>>

Next ==
    \/ \E c \in Containers : uade_play_container(c)
    \/ uade_play
    \/ uade_stop
    \/ \E r \in Requests : handle_request_amiga_file(r)
Spec == Init /\ [][Next]_vars

-----------------------------------------------------------------------------
(* Properties *)
\* No directory of a container has two names that differ in case only, in
\* whatever case the files were asked for: a search finds one thing.
\* (uade_rmc_record_file())
NoTwins ==
    \A p, q \in DOMAIN box :
        p # <<>> /\ q # <<>> /\ Parent(p) = Parent(q) /\ Last(p)[1] = Last(q)[1] => p = q

Twins(tree) == \E p, q \in DOMAIN tree :
    p # q /\ p # <<>> /\ q # <<>> /\ Parent(p) = Parent(q) /\ Last(p)[1] = Last(q)[1]
\* Where names differ by more than case, as on an Amiga, a file collected
\* under a name is got back under that name, in whatever order and case the
\* others were collected.  (uade_rmc_record_file(), uade_rmc_get_file())
ReplayedAsCollected ==
    ~Twins(host) => \A c \in collected : c[1].volume = "none" => uade_rmc_get_file(c[1]) = {c[2]}

Words(path) == [i \in DOMAIN path |-> path[i][1]]
\* There, too, a name finds a file exactly if there is one whose path has its
\* words.  (uade_find_amiga_file())
FoundIfThere ==
    ~Twins(host) => \A r \in {x \in Requests : x.volume = "none"} :
        from_host(r) = LET there == {p \in DOMAIN host : Words(p) = Words(SelectSeq(r.name, LAMBDA c : c[1] # ""))}
                       IN  IF there \ {p \in there : host[p] = Dir} = {} THEN {Missing} ELSE {host[p] : p \in there}

\* "Returns pointer to RMC data structure of the current song if it is played
\* from an RMC container" (uade.h), from which its files are loaded.
RmcIsOfSong == song = "plain" => rmc = "none"

\* assert(modulename != NULL) holds, whatever a container holds.
\* (uade_rmc_get_module())
ModuleNamed == ~aborted
=============================================================================
