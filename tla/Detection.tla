------------------------------ MODULE Detection ------------------------------
(***************************************************************************)
(* Which eagleplayer plays a song: eagleplayer.c and the callers of        *)
(* uade_analyze_eagleplayer() in uadestate.c.  An extension is             *)
(* <<n, case>>: strcasecmp() compares by n.  What uade_filemagic() makes   *)
(* of a file is a value of the file, for its first 8192 bytes and for all  *)
(* it is given; its signatures are not modelled.                           *)
(***************************************************************************)
EXTENDS Naturals, Sequences, SequencesExt

CONSTANTS
    Confs,      \* contents of eagleplayer.conf: sequences of lines
                \* [name, prefixes, flagged]; flagged: detect_format_by_content
    Files,      \* songs: [name, first, all, attribute]
    Long,       \* the n of extensions of UADE_MAX_EXT_LEN characters or more
    MaxCalls    \* bound on the calls of the application

None == <<0, 0>>
Reject == <<0, 1>>  \* "reject" and "packed"
NoFile == [name |-> <<>>, first |-> None, all |-> None, attribute |-> "none"]
\* eagleplayer.conf lists no extension twice: qsort() has one result
DetectionAssumption ==
    /\ MaxCalls \in Nat
    /\ \A c \in Confs : \A i, j \in DOMAIN c : \A k \in DOMAIN c[i].prefixes, l \in DOMAIN c[j].prefixes :
           c[i].prefixes[k][1] = c[j].prefixes[l][1] => i = j /\ k = l

VARIABLES conf, content_detection,
          player_file, \* of the configuration, "" if no player is forced
          store,    \* state->playerstore: <<>>, or <<the map>>
          asked,    \* what uade_is_our_file() has said of each file
          song,     \* what uade_play() has chosen: the file and the line, 0 for none
          calls
vars == <<conf, content_detection, player_file, store, asked, song, calls>>

-----------------------------------------------------------------------------
(* The table of extensions *)
EagleMap(lines) ==
    FlattenSeq([i \in DOMAIN lines |->
        [j \in DOMAIN lines[i].prefixes |-> [extension |-> lines[i].prefixes[j], player |-> i]]])
(* Mutation: strcmp(). *)
BinaryOrder(a, b) == \/ a.extension[2] < b.extension[2]
                     \/ a.extension[2] = b.extension[2] /\ a.extension[1] < b.extension[1]
ufcompare(a, b) == a.extension[1] < b.extension[1]
read_eagleplayer_conf(lines) == IF lines = <<>> THEN <<>> ELSE <<SortSeq(EagleMap(lines), ufcompare)>>

\* bsearch(): the index of a key between the two given, 0 if there is none
bsearch(map, n) ==
    LET f[lo \in 0..Len(map), hi \in 0..Len(map)] ==
          LET mid == (lo + hi) \div 2 + 1
          IN  IF lo >= hi THEN 0
              ELSE IF map[mid].extension[1] = n THEN mid
              ELSE IF n < map[mid].extension[1] THEN f[lo, mid - 1] ELSE f[mid, hi]
    IN  f[0, Len(map)]
get_eagleplayer(ext, map) ==
    LET i == bsearch(map, ext[1]) IN IF i = 0 THEN 0 ELSE map[i].player

try_extension(ext, map) == IF ext[1] \in Long THEN 0 ELSE get_eagleplayer(ext, map)
\* The prefix, and then the postfix; a name without a dot has neither
(* Mutation: the postfix first. *)
PostfixFirst(name, map) ==
    IF Len(name) < 2 THEN 0
    ELSE LET p == try_extension(name[Len(name)], map)
         IN  IF p # 0 THEN p ELSE try_extension(name[1], map)
ByName(name, map) ==
    IF Len(name) < 2 THEN 0
    ELSE LET p == try_extension(name[1], map)
         IN  IF p # 0 THEN p ELSE try_extension(name[Len(name)], map)
\* What uade_filemagic() recognizes goes before the name
uade_analyze_eagleplayer(magic, name, loaded) ==
    IF magic = Reject \/ loaded = <<>> THEN [ep |-> 0, content |-> FALSE]
    ELSE LET byContent == IF magic = None THEN 0 ELSE get_eagleplayer(magic, loaded[1])
         IN  [ep |-> IF byContent # 0 THEN byContent ELSE ByName(name, loaded[1]), content |-> byContent # 0]

-----------------------------------------------------------------------------
Init ==
    /\ conf \in Confs /\ content_detection \in BOOLEAN
    /\ player_file \in {"", "forced"}
    /\ store = <<>>
    /\ asked = [f \in Files |-> "not asked"]
    /\ song = [file |-> NoFile, ep |-> 0, player |-> "none"] /\ calls = 0

Call == calls < MaxCalls /\ calls' = calls + 1
\* load_playerstore(): at the first analysis that does not end before
load_playerstore(magic) ==
    store' = IF store = <<>> /\ magic # Reject THEN read_eagleplayer_conf(conf) ELSE store

uade_is_our_file(f) ==
    /\ Call
    /\ load_playerstore(f.first)
    /\ asked' = [asked EXCEPT ![f] =
                   IF uade_analyze_eagleplayer(f.first, f.name, store').ep # 0 THEN "ours" ELSE "not ours"]
    /\ UNCHANGED <<conf, content_detection, player_file, song>>

(* Mutation: a player that wants contents is taken by name. *)
AnyPlayer(d) == IF ~d.content /\ content_detection THEN 0 ELSE d.ep
\* get_eagleplayer() of uadestate.c
Chosen(d) ==
    IF ~d.content /\ (content_detection \/ (d.ep # 0 /\ conf[d.ep].flagged)) THEN 0 ELSE d.ep
\* uade_play_internal(): a custom song is its own player.  The song's
\* attributes are looked at when the player has been loaded
Player(ep) ==
    IF ep = 0 THEN "none"
    ELSE IF player_file # "" THEN player_file
    ELSE IF conf[ep].name = "custom" THEN "the song" ELSE conf[ep].name
uade_play(f) ==
    /\ Call
    /\ load_playerstore(f.all)
    /\ \E d \in {uade_analyze_eagleplayer(f.all, f.name, store')} :
         song' = [file |-> f, ep |-> Chosen(d),
                  player |-> Player(Chosen(d))]
    /\ UNCHANGED <<conf, content_detection, player_file, asked>>

Next == \E f \in Files : uade_is_our_file(f) \/ uade_play(f)
Spec == Init /\ [][Next]_vars

-----------------------------------------------------------------------------
(* Properties *)
Lists(line, ext) == \E e \in Range(line.prefixes) : e[1] = ext[1]
\* The search of the sorted map finds a player that lists the extension, in
\* any case, exactly if there is one.  (read_eagleplayer_conf())
SearchFinds ==
    store # <<>> =>
        \A n \in {e[1] : e \in UNION {Range(conf[i].prefixes) : i \in DOMAIN conf}} \cup {1, 9} :
            LET p == get_eagleplayer(<<n, 0>>, store[1])
            IN  IF \E i \in DOMAIN conf : Lists(conf[i], <<n, 0>>) THEN p # 0 /\ Lists(conf[p], <<n, 0>>)
                ELSE p = 0

Recognized(f) == f.all \notin {None, Reject} /\ \E i \in DOMAIN conf : Lists(conf[i], f.all)
\* What the contents tell prevails over the name; players and configurations
\* that want contents get no song by name.  (get_eagleplayer(), uadestate.c)
ContentPrevails ==
    song.ep # 0 =>
        IF Recognized(song.file) THEN Lists(conf[song.ep], song.file.all)
        ELSE ~content_detection /\ ~conf[song.ep].flagged

\* By name, the prefix is what counts if any player lists it.
\* (uade_analyze_eagleplayer())
PrefixFirst ==
    song.ep # 0 /\ ~Recognized(song.file) =>
        \E e \in {song.file.name[1], song.file.name[Len(song.file.name)]} :
            /\ Lists(conf[song.ep], e) /\ e[1] \notin Long
            /\ (\E i \in DOMAIN conf : Lists(conf[i], song.file.name[1])) /\ song.file.name[1][1] \notin Long
                 => e = song.file.name[1]

\* "Returns non-zero if fname can be played with uade.  Returns zero if it can
\* not be played." (uade.h)
PlayableIfOurs ==
    \A f \in Files : song.file = f /\ song.ep = 0 => asked[f] # "ours"
\* "reject  Reject a song (usable for blacklisting)" (uade123.1)
RejectedIsNotPlayed == song.ep # 0 => song.file.attribute # "reject"
\* "player=name  Set eagleplayer" (uade123.1): here the player "other".
PlayerAttribute == song.ep # 0 /\ player_file = "" /\ song.file.attribute = "player" => song.player = "other"
=============================================================================
