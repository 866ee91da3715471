------------------------------- MODULE MCFiles -------------------------------
(***************************************************************************)
(* What is kept from song to song and between processes: the databases and *)
(* configurations, the names a song's files are found by, the player that   *)
(* is chosen for it, the stashes of uadefs, the list of pointers the          *)
(* library offers, and the positions it counts.  The parts keep no state in *)
(* common: a behaviour is of one of them, and the variables of the others   *)
(* rest.                                                                    *)
(***************************************************************************)
EXTENDS Integers, Sequences, TLC

CONSTANT NoOne   \* no song in a line of song.conf; nobody at its lock

VARIABLES
    part,
    \* ContentDb
    pc, db, file, mtime, clock, plays, known, found,
    \* SongConf
    songconf, lock, at, input, job, updates, store, done, overlapped, clean,
    \* UadeConf
    permconfig, extraconfig, config, effects, playerLine, songLine, confsong, epOptions, conf, played, keys,
    \* AmigaFiles
    host, playerdir, box, collected, rmc, song, aborted, calls,
    \* Detection
    players, content_detection, player_file, playerstore, asked, chosen, asks,
    \* UadefsFiles
    dir, now, databases, newest, size,
    \* UadefsCache
    time, version, stashes, nextstash, ctx, thread, readmutex, torn, mixed,
    \* Vparray
    head, tail, allocated, l, result, last,
    \* UadePlayback
    phase, subsongs, subsongbytes, songbytes, endevent, seekmode, seeksubsongoffs, seeksongoffs,
    trigger, nextsubsongtrigger, recordsongtime, readstash, notifications, call,
    playing, position, reading, inbox, wanted, commands, over, extra, lastend, recorded

contents == <<pc, db, file, mtime, clock, plays, known, found>>
lines    == <<songconf, lock, at, input, job, updates, store, done, overlapped, clean>>
options  == <<permconfig, extraconfig, config, effects, playerLine, songLine, confsong, epOptions, conf, played, keys>>
amiga    == <<host, playerdir, box, collected, rmc, song, aborted, calls>>
choice   == <<players, content_detection, player_file, playerstore, asked, chosen, asks>>
names    == <<dir, now, databases, newest, size>>
stashing == <<time, version, stashes, nextstash, ctx, thread, readmutex, torn, mixed>>
list     == <<head, tail, allocated, l, result, last>>
library  == <<phase, subsongs, subsongbytes, songbytes, endevent, seekmode, seeksubsongoffs,
              seeksongoffs, trigger, nextsubsongtrigger, recordsongtime, readstash, notifications,
              call, playing, position, reading, inbox, wanted, commands, over, extra, lastend, recorded>>
all      == <<part, contents, lines, options, amiga, choice, names, stashing, list, library>>

-----------------------------------------------------------------------------
\* Two processes over three songs; the global database knows one of them.
\* Whatever a process does, there may be no memory for more than two entries
Playtimes(m, t) == [md5 |-> m, playtime |-> t]
Content == INSTANCE ContentDb WITH Process <- {"p", "q"}, Md5 <- 1 .. 3, Playtime <- 0 .. 2,
    GlobalDb <- <<Playtimes(2, 1)>>, Alloc <- 2, MemoryLimits <- {2, 64}, MaxClock <- 1, MaxPlays <- 2,
    UserDbs <- {<<Playtimes(3, 1), Playtimes(2, 2)>>}

\* Two processes, two songs; the file may have one line for each, and a comment
SongLine(s, o) == [song |-> s, options |-> o]
SongOptions == INSTANCE SongConf WITH None <- NoOne, file <- songconf, pc <- at, Process <- {"p", "q"}, Song <- {"s1", "s2"},
    Options <- {"o1", "o2"}, MaxUpdates <- 3,
    Files <- {<<>>, <<SongLine("s1", "o1"), SongLine(NoOne, "o1"), SongLine("s2", "o2")>>, <<SongLine("s2", "o1")>>}

\* The members that share options, family by family: each source holds
\* nothing or one of the lines that bear on the family
One(s) == {<<>>} \cup {<<x>> : x \in s}
Option(o, v) == [o |-> o, v |-> v]
Flag(s) == [s |-> s, v |-> "NULL"]
Value(s, v) == [s |-> s, v |-> v]
Filters == [conf |-> One({<<"filter", "none">>, <<"filter", "a1200">>, <<"no_filter", "NULL">>}),
    player |-> One({Flag("a500")}),
    song |-> One({Flag("a1200"), Flag("no_filter")}) \cup {<<Flag("no_filter"), Flag("a1200")>>},
    command |-> One({Option("FILTER_TYPE", v) : v \in {"NULL", "none", "a1200"}})]
Phones == [conf |-> One({<<"headphones", "NULL">>, <<"headphones2", "NULL">>}),
    player |-> One({Flag("no_headphones")}), song |-> One({Flag("no_headphones"), Flag("no_postprocessing")}),
    command |-> One({Option("HEADPHONES2", "NULL")})]
Volumes == [conf |-> One({<<"panning", "0.7">>, <<"gain", "bad">>}), player |-> One({Value("gain", "2")}),
    song |-> One({Flag("no_panning"), Value("panning", "1.5")}) \cup {<<Value("gain", "0.5"), Value("gain", "1")>>},
    command |-> One({Option("PANNING_VALUE", "bad"), Option("GAIN", "0.2")})]
Limits == [conf |-> One({<<"disable_timeout", "NULL">>, <<"timeout", "5">>, <<"timeout", "bad">>}),
    player |-> One({Flag("always_ends")}), song |-> One({Value("timeout", "9"), Value("subsong_timeout", "3")}),
    command |-> One({Option("TIMEOUT_VALUE", "7"), Option("SUBSONG_TIMEOUT_VALUE", "4")})
                  \cup {<<Option("DISABLE_TIMEOUTS", "NULL"), Option("TIMEOUT_VALUE", "7")>>}]
Signals == [conf |-> One({<<"force_led", "on">>, <<"ntsc", "NULL">>, <<"frequency", "far">>}), player |-> One({Flag("pal"), Flag("led_off")}),
    song |-> One({Flag("ntsc"), Flag("led_on")}), command |-> One({Option("PAL", "NULL"), Option("FORCE_LED", "off"), Option("FREQUENCY", "48000")})]
Players == [conf |-> One({<<"ep_option", "a">>}), player |-> One({Value("epopt", "b")}),
    song |-> One({Value("epopt", "c")}) \cup {<<Value("epopt", "c"), Value("epopt", "d")>>},
    command |-> One({Option("EAGLEPLAYER_OPTION", "e")})
                  \cup {[i \in 1..3 |-> Option("EAGLEPLAYER_OPTION", <<"f", "g", "h">>[i])]}]
\* Every command of uade.conf by itself
Switching == {"disable_timeout", "enable_timeout", "force_led_off", "force_led_on", "headphones", "headphones2",
    "ignore_player_check", "no_ep_end_detect", "no_filter", "ntsc", "one_subsong", "pal", "speed_hack", "verbose",
    "detect_format_by_content", "random_play", "recursive_mode", "cygwin"}
Valued == {"frequency", "gain", "panning", "resampler", "silence_timeout", "subsong_timeout", "timeout"}
Commands == [conf |-> One({<<k, "NULL">> : k \in Switching} \cup {<<k, "1">> : k \in Valued}
                          \cup {<<"filter", v>> : v \in {"none", "a500", "a1200"}} \cup {<<"force_led", v>> : v \in {"on", "off"}}),
    player |-> {<<>>}, song |-> {<<>>}, command |-> {<<>>}]
Conf == INSTANCE UadeConf WITH song <- confsong, plays <- played, Songs <- {"s1", "s2"}, MaxPlays <- 2, MaxKeys <- 1,
    EpRoom <- 2, Setups <- {Filters, Phones, Volumes, Limits, Signals, Players, Commands}

\* A few directories, with and without names that differ in case only, and
\* every name of one or two components in the case of the file or another
a == <<"a", 0>>
A == <<"a", 1>>
b == <<"b", 0>>
B == <<"b", 1>>
Root == <<>> :> "dir"
Plain(path) == [volume |-> "none", name |-> path, dots |-> "none"]
Requests == {Plain(<<c>>) : c \in {a, A, b}} \cup {Plain(<<c, d>>) : c \in {a, A, b}, d \in {a, b, B}}
    \cup {Plain(<<a, <<"", 0>>, b>>)} \cup {[Plain(<<a, b>>) EXCEPT !.volume = v] : v \in {"player", "unknown"}}
    \cup {[Plain(<<a, b>>) EXCEPT !.dots = d] : d \in {"before", "after"}}
\* One file, none, two with and without a song, a directory, no play times
Full == [song |-> a, files |-> (a :> "x") @@ (b :> "dir"), subsongs |-> TRUE]
Containers == {Full, [Full EXCEPT !.song = <<"", 0>>], [Full EXCEPT !.song = b], [Full EXCEPT !.song = B],
    [Full EXCEPT !.subsongs = FALSE], [Full EXCEPT !.song = <<"", 0>>, !.files = b :> "x"]}
Amiga == INSTANCE AmigaFiles WITH MaxCalls <- 7, Players <- {Root @@ (<<a>> :> "dir") @@ (<<a, b>> :> "p")},
    Trees <- {Root @@ (<<a>> :> "dir") @@ (<<a, B>> :> "x") @@ (<<b>> :> "y"),
              Root @@ (<<A>> :> "dir") @@ (<<A, a>> :> "dir") @@ (<<A, b>> :> "x") @@ (<<b>> :> "dir") @@ (<<b, a>> :> "z"),
              Root @@ (<<a>> :> "dir") @@ (<<a, b>> :> "x") @@ (<<a, B>> :> "y") @@ (<<A>> :> "z")}

\* Tables of three players with extensions in any order and case, songs
\* whose name and contents agree, disagree or tell nothing
e(n) == <<n, n % 2>>
Player(x, ext, flag) == [name |-> x, prefixes |-> ext, flagged |-> flag]
Confs ==
    {<<Player("mod", <<e(7), e(2)>>, FALSE), Player("ptk", x, c), Player("custom", <<e(3), e(8), e(4)>>, FALSE)>> :
        x \in {<<>>, <<e(5)>>, <<e(6), e(5)>>, <<e(1), e(5), e(9)>>}, c \in BOOLEAN} \cup {<<Player("mod", <<>>, FALSE)>>, <<>>}
Names == {<<e(2)>>, <<e(1), e(2)>>, <<<<5, 0>>, e(4)>>, <<e(9), <<8, 1>>>>, <<e(5), e(1), e(9)>>}
Tune(n, x, y) == [name |-> n, first |-> x, all |-> y, attribute |-> "none"]
Songs == {Tune(n, x, x) : n \in Names, x \in {<<0, 0>>, <<5, 1>>}}
    \cup {Tune(<<e(1), e(2)>>, <<0, 0>>, <<5, 1>>), Tune(<<e(1), e(2)>>, <<0, 1>>, <<0, 1>>)}
Detect == INSTANCE Detection WITH conf <- players, store <- playerstore, song <- chosen, calls <- asks,
    Confs <- Confs, Files <- Songs, Long <- {9}, MaxCalls <- 3

\* Two names, with and without .wav
Fs == INSTANCE UadefsFiles WITH clock <- now, db <- databases, mtime <- newest, Base <- {"a", "b"}, Suffixes <- 1,
    MaxTime <- 1, MaxVersion <- 1
\* One name, and databases written several times, in the same second or not
Sizes == INSTANCE UadefsFiles WITH clock <- now, db <- databases, mtime <- newest, Base <- {"a"}, Suffixes <- 0,
    MaxTime <- 3, MaxVersion <- 4

\* Two songs opened to be looked at, and two stashes, which are taken in turn
\* when they have expired; the files of the songs may change at any time
Stash == INSTANCE UadefsCache WITH Length <- [s \in {"mid", "other"} |-> IF s = "mid" THEN 2 ELSE 1],
    BlockSize <- 1, StashBlocks <- 1, PipeSize <- 1, Song <- {"mid", "other"}, Sized <- {"mid"},
    Thread <- {"t"}, Handle <- {"file"}, NBlocks <- 2, NStashes <- 2, StashTime <- 1,
    ReadAt <- {<<0, 2>>}, MaxTime <- 1, MaxVersion <- 1
\* Two threads that open files, and one stash for two songs
Race == INSTANCE UadefsCache WITH Length <- [s \in {"mid", "other"} |-> 2],
    BlockSize <- 2, StashBlocks <- 1, PipeSize <- 2, Song <- {"mid", "other"}, Sized <- {"mid"},
    Thread <- {"t", "u"}, Handle <- {"file", "second"}, NBlocks <- 1, NStashes <- 1, StashTime <- 1,
    ReadAt <- {}, MaxTime <- 0, MaxVersion <- 0

\* Lists of up to five pointers, from an empty array on
Array == INSTANCE Vparray WITH found <- result, Item <- {1, 2}, InitialLength <- 0, MaxLen <- 5

\* Subsongs of up to three frames in blocks of two, which may end by timeouts
Play == INSTANCE UadePlayback WITH MaxSubsong <- 1, Block <- 2, MaxPos <- 3, ReadSizes <- {3},
    Offsets <- {0, 2}, MaxCommands <- 1, NotifyLimit <- 1, OneSubsong <- FALSE, Timeouts <- TRUE

ASSUME FilesAssumption ==
    /\ Content!ContentDbAssumption /\ SongOptions!SongConfAssumption /\ Conf!ConfAssumption
    /\ Amiga!AmigaAssumption /\ Detect!DetectionAssumption /\ Fs!UadefsFilesAssumption /\ Sizes!UadefsFilesAssumption
    /\ Stash!UadefsAssumption /\ Race!UadefsAssumption /\ Array!VparrayAssumption /\ Play!PlaybackAssumption

-----------------------------------------------------------------------------
\* The variables of a part that rests
NoContents == /\ pc = 0 /\ db = 0 /\ file = 0 /\ mtime = 0 /\ clock = 0 /\ plays = 0 /\ known = 0 /\ found = 0
NoLines    == /\ songconf = 0 /\ lock = 0 /\ at = 0 /\ input = 0 /\ job = 0 /\ updates = 0 /\ store = 0 /\ done = 0
              /\ overlapped = 0 /\ clean = 0
NoOptions  == /\ permconfig = 0 /\ extraconfig = 0 /\ config = 0 /\ effects = 0 /\ playerLine = 0 /\ songLine = 0
              /\ confsong = 0 /\ epOptions = 0 /\ conf = 0 /\ played = 0 /\ keys = 0
NoAmiga    == /\ host = 0 /\ playerdir = 0 /\ box = 0 /\ collected = 0 /\ rmc = 0 /\ song = 0 /\ aborted = 0 /\ calls = 0
NoChoice   == /\ players = 0 /\ content_detection = 0 /\ player_file = 0 /\ playerstore = 0 /\ asked = 0
              /\ chosen = 0 /\ asks = 0
NoNames    == dir = 0 /\ now = 0 /\ databases = 0 /\ newest = 0 /\ size = 0
NoStashing == /\ time = 0 /\ version = 0 /\ stashes = 0 /\ nextstash = 0 /\ ctx = 0 /\ thread = 0 /\ readmutex = 0
              /\ torn = 0 /\ mixed = 0
NoList     == Array!Init
NoLibrary  == Play!Init /\ wanted = -1 /\ playing.max = 0

Init ==
    /\ part \in {"contents", "lines", "options", "amiga", "choice", "names", "sizes", "stashing", "race", "list", "library"}
    /\ IF part = "contents" THEN Content!Init ELSE NoContents
    /\ IF part = "lines" THEN SongOptions!Init ELSE NoLines
    /\ IF part = "options" THEN Conf!Init ELSE NoOptions
    /\ IF part = "amiga" THEN Amiga!Init ELSE NoAmiga
    /\ IF part = "choice" THEN Detect!Init ELSE NoChoice
    /\ CASE part = "names" -> Fs!Init [] part = "sizes" -> Sizes!Init [] OTHER -> NoNames
    /\ CASE part = "stashing" -> Stash!Init [] part = "race" -> Race!Init [] OTHER -> NoStashing
    /\ IF part = "list" THEN Array!Init ELSE NoList
    /\ IF part = "library" THEN Play!Init ELSE NoLibrary

Next ==
    /\ UNCHANGED part
    /\ IF part = "contents" THEN Content!Next ELSE UNCHANGED contents
    /\ IF part = "lines" THEN SongOptions!Next ELSE UNCHANGED lines
    /\ IF part = "options" THEN Conf!Next ELSE UNCHANGED options
    /\ IF part = "amiga" THEN Amiga!Next ELSE UNCHANGED amiga
    /\ IF part = "choice" THEN Detect!Next ELSE UNCHANGED choice
    /\ CASE part = "names" -> Fs!Next [] part = "sizes" -> Sizes!Next [] OTHER -> UNCHANGED names
    /\ CASE part = "stashing" -> Stash!Next [] part = "race" -> Race!Next [] OTHER -> UNCHANGED stashing
    /\ IF part = "list" THEN Array!Next ELSE UNCHANGED list
    /\ IF part = "library" THEN Play!Next ELSE UNCHANGED library

Spec == Init /\ [][Next]_all
-----------------------------------------------------------------------------
(* What the modules say of themselves, each of its own part. *)
\* What processes write to the files they share is kept: a song in the content
\* database is found, and no playtime of this process or another is lost by
\* saving; an update of song.conf is kept, one line for each song, together
\* with the lines of others, and a reader that comes later goes by it, until
\* updates overlap or a process dies in the middle of one.  (songdb.c,
\* get_content(), create_content_checksum(), uade_save_content_db(),
\* uade_update_song_conf(), uade_read_song_conf(); ContentDb, SongConf)
NothingLost ==
    /\ [](part = "contents" => Content!SearchFinds /\ Content!NothingForgotten)
    /\ [][part = "contents" => Content!MergedStep /\ Content!FoundStep]_contents
    /\ [](part = "lines" => SongOptions!UpdatesKept /\ SongOptions!OneLinePerSong)
    /\ [][part = "lines" => SongOptions!OthersStep /\ SongOptions!ReadersStep]_lines

\* The last of the four sources that sets an option prevails, the documented
\* commands of uade.conf set what they say and nothing else, but for six that
\* are unknown or taken for others, and a song begins with its own effects.
\* (uadeconf.c, map_str_to_option(), uade_merge_configs(),
\* uade_set_effects(); UadeConf)
OptionsPrevail ==
    /\ [](part = "options" => Conf!CommandsObeyed)
    /\ [][part = "options" => Conf!MergeStep /\ Conf!EffectsStep]_options

\* A name leads to the thing it stands for.  A name of the Amiga finds a file
\* exactly if there is one, and in a container what was collected under it; an
\* extension finds its players, contents before names and prefix before
\* postfix; a name of the mounted directory leads to the file it is shown for,
\* and a look at a song to the user's database as it is then, unless a global
\* one as new, or another version of the same second, has been read.  (unixsupport.c,
\* uade_find_amiga_file(); rmc.c; eagleplayer.c, uade_analyze_eagleplayer();
\* uadefs.c, uadefs_get_path(); AmigaFiles, Detection, UadefsFiles)
NamesResolve ==
    /\ [](part = "amiga" => Amiga!NoTwins /\ Amiga!ReplayedAsCollected /\ Amiga!FoundIfThere)
    /\ [](part = "choice" => Detect!SearchFinds /\ Detect!ContentPrevails /\ Detect!PrefixFirst)
    /\ [](part = "names" => Fs!NamesLeadToFiles)
    /\ [][part = "sizes" => Sizes!DatabaseStep]_names

\* A stash holds the beginning of its song and is not much older than the
\* file, when it is used again and when it is used for another song, but for
\* stashes that two threads have written at once and songs opened with such a
\* one or with one that is being written; with threads opening songs at the
\* same time, every other read is of its song, and its header has its size.
\* (uadefs.c, check_stash(), warm_up_cache(); UadefsCache)
StashesKept ==
    /\ part = "stashing" => Stash!StashesKept
    /\ part = "race" => Race!StashesKept /\ Race!ReadsSong /\ Race!HeaderFixed

\* The array is the list its header describes, writes only in the memory it
\* has, and does not grow when it is used as a queue.  (vparray.c,
\* shrink_vparray(); vparray.h; Vparray, DynamicList)
ListKept ==
    /\ [](part = "list" => Array!WindowAllocated /\ Array!MemoryBounded)
    /\ Array!ImplementsList

\* The library counts the frames as the sound core does, through timeouts,
\* subsongs and seeks, and a seek is exact to the frame.  (uadestate.c,
\* uade_read(), handle_seek(); UadePlayback)
PositionsAgree ==
    /\ [](part = "library" => Play!PositionsAgree)
    /\ [][part = "library" => Play!SeekStep]_library
=============================================================================
