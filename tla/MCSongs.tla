------------------------------- MODULE MCSongs -------------------------------
(***************************************************************************)
(* From the songs on the command line to what is heard of them: uade123    *)
(* and its playlist, the library that reads and seeks, the messages of the *)
(* link as bytes, and the reads of the uadefs file system.  The parts keep *)
(* no state in common: a behaviour is of one of them, and the variables of *)
(* the others rest.                                                        *)
(***************************************************************************)
EXTENDS Integers, Sequences

VARIABLES
    part,
    \* UadePlayback
    phase, subsongs, subsongbytes, songbytes, endevent, seekmode, seeksubsongoffs, seeksongoffs,
    trigger, nextsubsongtrigger, recordsongtime, readstash, notifications, call,
    playing, position, reading, inbox, wanted, commands, over, extra, lastend, recorded,
    \* Framing
    sent, toWrite, writer, wire, reader, want, inputbuffer, received,
    \* Uade123
    pc, uade_playlist, plistdir, cursormode, max, cur, on, ready, typed, opened, history, failed,
    \* UadefsCache
    time, version, stashes, nextstash, ctx, thread, readmutex, torn, mixed

library == <<phase, subsongs, subsongbytes, songbytes, endevent, seekmode, seeksubsongoffs,
             seeksongoffs, trigger, nextsubsongtrigger, recordsongtime, readstash, notifications,
             call, playing, position, reading, inbox, wanted, commands, over, extra, lastend, recorded>>
link    == <<sent, toWrite, writer, wire, reader, want, inputbuffer, received>>
program == <<pc, uade_playlist, plistdir, cursormode, max, cur, on, ready, typed, opened, history, failed>>
mounted == <<time, version, stashes, nextstash, ctx, thread, readmutex, torn, mixed>>
all     == <<part, library, link, program, mounted>>

\* Subsongs of up to three frames, read in blocks of two by an application
\* that asks for more than that
Play == INSTANCE UadePlayback WITH MaxSubsong <- 1, Block <- 2, MaxPos <- 3, ReadSizes <- {3},
    Offsets <- {2}, MaxCommands <- 1, NotifyLimit <- 1, OneSubsong <- FALSE, Timeouts <- FALSE

\* Three messages, empty, of any size that is valid, or too long
Link == INSTANCE Framing WITH Header <- 2, MaxMsg <- 4, Lengths <- {0, 1, 2, 3}, Room <- 4, Count <- 3

\* A file, a directory with a file, a link and a subdirectory, and a missing
\* path; one of the songs is unknown to the players
File(n) == [kind |-> "file", name |-> n]
Directory(e) == [kind |-> "dir", entries |-> e]
Arguments ==
    {<<File("a"), Directory(<<File("b"), [kind |-> "link"], Directory(<<File("c")>>)>>)>>,
     <<[kind |-> "missing"]>>}
Keys == {"<", ">", "q", "s", "b", "c", "z", "g", "digit", "ESC", "[", "A"}
MayFail == {"play", "read", "stop"}
Uade == INSTANCE Uade123 WITH TooLong <- {}, Recursive <- BOOLEAN, Randomplay <- BOOLEAN, Repeats <- {FALSE},
    Room <- 4, Unknown <- {"b"}, Subsongs <- {2}, MaxKeys <- 3, MaxOpens <- 10
\* With --repeat it goes on for ever
Again == INSTANCE Uade123 WITH TooLong <- {}, Recursive <- {TRUE}, Randomplay <- BOOLEAN, Repeats <- {TRUE},
    Room <- 4, Unknown <- {"b"}, Subsongs <- {1}, MaxKeys <- 1, MaxOpens <- 5

\* A song that outgrows the cache, two threads that read any part of it
Fs == INSTANCE UadefsCache WITH Length <- [song \in {"long"} |-> 7], BlockSize <- 2, StashBlocks <- 1,
    PipeSize <- 2, Song <- {"long"}, Sized <- {"long"}, Thread <- {"t1", "t2"},
    Handle <- {"file"}, NBlocks <- 3, NStashes <- 1, StashTime <- 1,
    ReadAt <- {<<0, 7>>, <<1, 2>>, <<3, 4>>, <<4, 1>>}, MaxTime <- 0, MaxVersion <- 0

ASSUME SongsAssumption ==
    Play!PlaybackAssumption /\ Link!FramingAssumption /\ Fs!UadefsAssumption

-----------------------------------------------------------------------------
NoLibrary == Play!Init /\ wanted = -1 /\ playing.max = 0
NoProgram == Uade!Init /\ uade_playlist = Uade!EmptyList

Init ==
    \/ part = "library" /\ Play!Init /\ Link!Init /\ NoProgram /\ Fs!Init
    \/ part = "link" /\ Link!Init /\ NoLibrary /\ NoProgram /\ Fs!Init
    \/ part = "program" /\ Uade!Init /\ NoLibrary /\ Link!Init /\ Fs!Init
    \/ part = "repeat" /\ Again!Init /\ NoLibrary /\ Link!Init /\ Fs!Init
    \/ part = "mounted" /\ Fs!Init /\ NoLibrary /\ Link!Init /\ NoProgram

Next ==
    /\ UNCHANGED part
    /\ \/ part = "library" /\ Play!Next /\ UNCHANGED <<link, program, mounted>>
       \/ part = "link" /\ Link!Next /\ UNCHANGED <<library, program, mounted>>
       \/ part = "program" /\ Uade!Next /\ UNCHANGED <<library, link, mounted>>
       \/ part = "repeat" /\ Again!Next /\ UNCHANGED <<library, link, mounted>>
       \/ part = "mounted" /\ Fs!Next /\ UNCHANGED <<library, link, program>>

\* The fairness that each module states of itself, for one of its actors each:
\* only the part of the behaviour has steps at all
Client ==
    \/ part = "library" /\ (Play!FirstRequest \/ Play!SubsongInfo \/ Play!ReadStep)
                        /\ UNCHANGED <<link, program, mounted>>
    \/ part = "link" /\ Link!ReaderStep /\ UNCHANGED <<library, program, mounted>>
    \/ part = "program" /\ Uade!Next /\ UNCHANGED <<library, link, mounted>>
    \/ part = "mounted" /\ Fs!ThreadStep("t1") /\ UNCHANGED <<library, link, program>>
Core ==
    \/ part = "library" /\ Play!uadecore_check_sound_buffers /\ UNCHANGED <<link, program, mounted>>
    \/ part = "link" /\ Link!WriterStep /\ UNCHANGED <<library, program, mounted>>
    \/ part = "mounted" /\ Fs!ThreadStep("t2") /\ UNCHANGED <<library, link, program>>
Outside ==
    \/ part = "library" /\ Play!AppRead /\ UNCHANGED <<link, program, mounted>>
    \/ part = "mounted" /\ Fs!DecoderStep("file") /\ UNCHANGED <<library, link, program>>
SongEnds == part = "program" /\ Uade!InputEnd /\ UNCHANGED <<library, link, mounted>>
Spec == /\ Init /\ [][Next]_all
        /\ WF_<<library, link, program, mounted>>(Client)
        /\ WF_<<library, link, program, mounted>>(Core)
        /\ WF_<<library, link, program, mounted>>(Outside)
        /\ SF_<<library, link, program, mounted>>(SongEnds)
-----------------------------------------------------------------------------
(* What the modules say of themselves, each of its own part. *)
\* What the user asked for is what is heard: a seek that is asked for while a
\* subsong plays is begun, any other is begun or the end is told instead, and
\* none has its target behind it where no timeout ends songs; the
\* notification of an end tells the subsong and the length of that end.
\* (uadestate.c, uade_read(), handle_seek(), set_subsong(), set_end_event();
\* UadePlayback)
SoundAsAsked ==
    /\ [](part = "library" => Play!SeekAhead)
    /\ [][part = "library" => Play!EndStep]_library
    /\ Play!SeekStarts

\* Bytes cut anywhere make a channel of whole messages: no byte of the next
\* message is taken from the socket, no body is put together from two
\* messages, an error on receiving means that the sender has died, and what
\* was sent completely arrives.  (uadeipc.c, get_more(),
\* copy_from_inputbuffer(), uade_receive_message(); unixatomic.c; Framing,
\* MessageChannel)
MessagesArrive ==
    /\ [](part = "link" => Link!NothingReadAhead /\ Link!InStep /\ Link!ErrorMeansTorn)
    /\ Link!ChannelSpec /\ Link!AllArrives

\* Whatever keys are pressed and whichever songs fail, shuffling neither loses
\* songs nor doubles them, none is played twice before all have been played, a
\* list at its end has had every song opened, < brings back the song before,
\* and without --repeat the program ends, unless a song fails to be read: that
\* one is only left when a key is pressed.  (playlist.c, playlist_get(),
\* playlist_random(); uade123.c, main(); Uade123)
PlaylistPlayed ==
    /\ [](part \in {"program", "repeat"} => Uade!ListIsPermutation)
    /\ [](part = "program" => Uade!NoSongTwice /\ Uade!AllOpened)
    /\ [][part = "program" => Uade!PreviousStep]_program
    /\ part = "program" => Uade!Terminates

\* A read of the mounted file system returns the sound of its song at its
\* offset, whatever other threads read, behind a header with the size of a
\* song of known length; and it returns, unless a full pipe keeps the decoder
\* from ending.  (uadefs.c, uadefs_read(), warm_up_cache(), kill_child();
\* UadefsCache)
ReadsServed ==
    /\ [](part = "mounted" => Fs!ReadsSong /\ Fs!HeaderFixed)
    /\ part = "mounted" => Fs!ReturnsOrPipeFull
=============================================================================
