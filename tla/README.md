# A TLA+ model of UADE

UADE plays Amiga music files by running their original player programs in an
emulated Amiga. An application links **libuade**; libuade forks **uadecore**,
the emulator, and talks to it over a socket pair. Two applications come with
it: **uade123**, which plays songs in a terminal, and **uadefs**, which mounts
a directory of songs as a directory of WAV files. This directory holds TLA+
modules of these programs, the TLC configurations that check them, and proofs
checked by TLAPS. `PROJECT.json` maps every definition that models code to the
lines it models. A reference like `uade.h:231` names a file of the repository
and a line.

Tools, run in this directory:

    tlc -workers 2 -config Songs.cfg MCSongs     # a run
    tlapm IpcLinkProofs.tla                      # the proofs of a module

## 1. The system

Paths are below `src/src/`; `common` stands for `frontends/common`.

| part | source | state | operations | where |
|---|---|---|---|---|
| IPC layer | `common/uadeipc.c`, `unixatomic.c` | protocol state INITIAL/S/R of each end, input buffer | send and receive messages, files, file requests; partial reads and writes | `IpcLink`, `Framing` |
| libuade session | `common/uadestate.c` | `state->song` (phase, subsongs, triggers), `write_queue`, `readstash`, `notifications`, `config` | `uade_new_state`, `uade_play`, `uade_get_event`, `uade_read`, `uade_next_subsong`, `uade_seek`, `uade_set_filter_state`, `uade_stop`, `uade_cleanup_state` | `LibUade`, `UadePlayback` |
| song start | `common/uadecontrol.c` | none | `uade_song_initialization`, the parameter commands | `LibUade` |
| choice of a player | `common/eagleplayer.c` | the table of eagleplayer.conf, loaded once | `uade_analyze_eagleplayer`, `uade_is_our_file` | `Detection` |
| options | `common/uadeconf.c`, `eagleplayer.c`, `effects.c` | three `struct uade_config`, effects | load, merge, attributes, toggles | `UadeConf` |
| files of a song | `common/unixsupport.c`, `rmc.c` | the container, collected files | `uade_find_amiga_file`, `uade_rmc_decode`, `uade_rmc_get_file`, `uade_rmc_record_file` | `AmigaFiles` |
| content database | `common/songdb.c` | checksums with playing times, file, time stamp | locked read, merge, add, save | `ContentDb` |
| song.conf | `common/songdb.c` | lines of options, the lock | read, update | `SongConf` |
| byte fifo | `common/fifo.c` | buffer, window, capacity | create, free, flush, read, write, erase the tail | `Fifo` |
| pointer list | `common/vparray.c` | array, head, tail | append, get, set, remove, pop, flush, sort | `Vparray` |
| uade123 | `frontends/uade123` | playlist, terminal, play loop | keys, next and previous song, read, seek | `Uade123` |
| uadefs | `frontends/uadefs/uadefs.c` | block cache, stashes, decoder pipe, sizes | open, read, release, names, `getattr` | `UadefsCache`, `UadefsFiles` |
| uadecore control | `uade.c` | `uadecore_read_size`, `uadecore_reboot`, file cache, player options, audio output flags | `uadecore_option`, `uadecore_reset`, `uadecore_handle_r_state`, `uadecore_get_amiga_message`, `uadecore_song_end` | `UadeCore` |
| uadecore main loop | `newcpu.c`, `memory.c` | the emulated 68000 | `m68k_go`, `m68k_run_1`, `do_specialties`, `default_xlate` | `UadeCore` |
| 68000 control | `newcpu.c`, part of `custom.c` | registers, status register, `spcflags` | exceptions, interrupts, RTE, STOP | `Cpu68k` |
| 68000 instructions | `gencpu.c`, `newcpu.c` | flags, registers, memory | arithmetic, shifts, division, bit fields, moves | `Alu68k`, `BitFields`, `AluDivide`, `Stack68k` |
| instruction table | `table68k`, `build68k.c`, `readcpu.c`, `gencpu.c` | `table68k[]`, `cpufunctbl[]` | expand, merge, generate, install | `Table68k`, `OpcodeTable` |
| sound output | `audio.c`, `sd-sound-generic.c` | sample buffer, filter | `check_sound_buffers`, `sample_backend`, `audio_set_filter` | `UadeCore` |
| audio channels | `audio.c`, part of `custom.c` | Paula's channels, sample clock | register writes, DMA, `update_audio` | `Paula` |
| CIAs | `cia.c` | timers, clock of day, interrupt registers, LED | register reads and writes, `CIA_handler`, syncs | `CiaTimers`, `CiaTod`, `UadeCore` (LED) |
| copper | `custom.c` | `cop_state`, its event | `update_copper`, `prepare_copper_1`, COPJMP, DMACON | `Copper` |

### How the parts interact

There is one conversation, half duplex. The client starts: CONFIG, and for
every song SCORE, the player file, the module file and TOKEN. The token passes
the right to send. uadecore answers CAN_PLAY or CANT_PLAY and TOKEN. From then
on the client sends parameter commands, READ and TOKEN; the core emulates until
the requested block is full, sends whatever its Amiga program reports on the
way, then DATA and TOKEN, and waits for commands again. `uade_stop()` receives
until it has the turn, sends REBOOT and TOKEN, and receives until uadecore's
acknowledging TOKEN; uadecore then starts over with the next song. While it
emulates, uadecore may ask for a file: both sides overwrite their protocol
state by hand for the time of the transfer.

Before a song is played the library chooses its player and collects its options
from four sources; while it plays, the application reads, seeks and changes
subsongs; when it ends, the playing time goes to the content database, which
other processes read and write, too. uadefs learns from it how large the WAV
file of a song is, and runs one uade123 for every open file as its decoder.

In the emulator one clock drives everything. The chips are emulated late: CIA
timers, audio channels and copper are brought up to date when a register of
theirs is written or an event comes that was computed before. They tell the
processor of interrupts by flags that its loop looks at between instructions.

### What is hard

* The same message, TOKEN, ends a block, answers a song and acknowledges a
  reboot. Whoever counts wrong is off by one turn, and hangs or kills the core.
* Events of the old song are in flight when it is stopped; the end of a song is
  announced ahead of its last block; commands may be given at any time.
* Either process can disappear at any point of any call, and both use blocking
  writes to a buffer of limited size.
* Several things in uadecore live longer than a song: the file cache, the
  options, the sample buffer, an open read request, the forced filter state.
* Both processes count samples, and must agree on the position through blocks
  that are skipped, cut off or lost, and through subsong changes.
* Databases are locked for reading and for writing, but not in between.
* Threads of uadefs share a cache, a pipe and the stashes.
* Lazy emulation must not be told from eager emulation, and an event that is
  computed in advance must neither be missed nor come twice.
* What the generator writes for one opcode is used for others, and what it
  writes for one processor for others.

Each hazard is an entry under "hazards" in `PROJECT.json`, with the line where
it bites and the properties that cover it. Hazards no property covers are named
in section 6.

## 2. The modules

    IpcLink            the link: operations of uadeipc.c, and rules for their use
      IpcLinkProofs    its invariants, proved
      MCIpcLink        instance for TLC, and of Fifo
    Framing            the link's messages as bytes; refines MessageChannel
      MessageChannel   what a direction of the link promises
      FramingProofs    its invariants and the refinement, proved
    SessionLink        the link's variables and messages, shared by both processes
      UadeCore         uadecore: variables, one action per step between messages
      LibUade          libuade: likewise, and the calls an application makes
        UadeSession    both of them, the properties, the refinement of IpcLink
          SessionTalkProofs    its inductive invariant: control, the conversation;
                               the refinement of IpcLink, proved
          SessionProofs        the safety properties, proved on top of it
    UadePlayback       uade_read(), seeks, subsongs and timeouts over that session
      PlayerProofs     its invariants, those of CiaTimers, CiaTod and Cpu68k, proved
    Uade123            the playlist, main loop and play loop of uade123
    UadefsCache        open, read and release of uadefs
      UadefsProofs     what its cache and stashes hold, proved
    UadefsFiles        its names and sizes
    ContentDb  SongConf  UadeConf  AmigaFiles  Detection
    Fifo               fifo.c on a buffer; refines ByteQueue
      ByteQueue        what a fifo promises
      FifoProofs       its invariants and the refinement, proved
    Vparray            vparray.c on an array; refines DynamicList
      DynamicList      what vparray.h promises
      VparrayProofs    its invariants and the refinement, proved
    Cpu68k             exceptions, interrupts, stack pointers
    Alu68k             arithmetic and flags, as operators
      AluShift  AluChain  AluDivide
    BitFields  Stack68k
    Table68k           the file table68k
      OpcodeTable      from the table to the functions called
    CiaTimers  CiaTod  Paula  Copper
    MCMachine  MCChips  MCSongs  MCFiles      the modules above, part by part

The last four and `MCIpcLink`, which has the fifo as its second part, put modules that have no state in common into one run: in the
first state a `part` is chosen, its module makes all the steps of the behaviour,
and the variables of the others rest. Every property carries its part, so
nothing is checked but the modules themselves. Each constant is given where the
module is instantiated, with a comment. A module that appears in two runs
appears with different constants.

**IpcLink.** `state[p]` is `ipc->state` of end `p`, `inbox[p]` what is on its
way to `p`, `open` the ends whose descriptor is open. `duty[p]` is the part of
the program counter that matters here: the core is in `uade_receive_file()`
("awaiting"), the client has been asked for a file ("asked") or is sending one
("replying"). The operations are those of `uadeipc.c`. They leave `duty` to the
caller where it depends on the caller. `Next` adds the rules the callers keep;
that they do keep them is checked by `LinkSpec` (below).

**UadeCore** and **LibUade** describe each process as a control point (`at`,
`pc`), the messages it is in the middle of sending (`out`, `sending`), and its
variables. A message received and everything the code does with it up to the
next send or receive is one action. Sends are one action per message, so the
other process, a full buffer or a death can come between any two. The error
path of every send and receive is in `ClientSend`, `ReceiveFails`, `EventFails`
and, for the core, `CoreSend`, `CoreRejects`, `CoreEndOfInput`.
A message carries the number of its song and one argument; the song number is
not in the code and is read by no guard: it only lets properties tell whose
message it is. The cached file and the options carry it likewise.

The emulated Amiga is an environment: in "run" it may report, ask for a file,
write to the LED, end the song or produce a sample, in any order, with two
rules taken from `amigasrc/score/score.s`: subsongs are reported once, and
before output is started. `reboot` and `forced` have the meaning of the C
variables. Debug messages about the LED that `uadecore_check_sound_buffers()`
sends in front of a block are covered by `EmulateMessage`, which may come just
before it.

The application (`App`) makes one call at a time: play if no song is playing,
get events, next subsong, set the filter, stop, clean up, in any order; after a
fatal error it may only clean up. `uade_get_event()` stands for `uade_read()`,
which calls it. The silence test and the timeouts may end a song with any block
but the last. A play call may return 0 because the file is no song or its player
is missing. After either outcome `led_state` may have any value, since the
attributes of player and song can set it.

A write of uadecore to a client that is gone ends it (`ClientGone`): by SIGPIPE,
or by the failed write if the signal is ignored. Debug messages are the one kind
whose failed write is only reported.

**Fifo.** `buf` is the allocated memory, with a special value for bytes nobody
has written; sizes wrap around at `SizeMax + 1`. `realloc()` may fail at both
of its calls. `call` and `result` record the last operation, so that `ByteQueue`
can be stated in terms of what callers see.

**Framing.** One direction of the link as bytes. A byte is a record of the
message it belongs to and the length its header announces. The socket takes and
gives any number of bytes at a time, and either process may end in between. It
implements `MessageChannel`, which delivers whole messages in order: the
inboxes of `IpcLink`.

**UadePlayback.** `uade_read()` and what it keeps from call to call: positions in
frames, the stash, notifications, the seek under way, the end of a song that is
held back. The link is reduced to what `UadeSession` has shown of it: a read
request is answered by reports, possibly a song end, one block and the turn. A
frame carries the subsong and position it was synthesized at, which no guard
reads, so properties can compare what was asked with what is heard.

**Uade123.** The playlist of uade123 (an order of songs, a position, shuffling
and repeating), the main loop that walks it, the play loop that obeys the keys,
and the library as the set of results it may return.

**UadefsCache, UadefsFiles.** One thread per FUSE call, a decoder process and a
pipe per open song, the cache of blocks, the stashed first blocks, the read
mutex; and, in the second module, which file a name of the mounted directory
leads to, and its size. Reads are serialized by the mutex, opens by nothing: a
stash is claimed, dated, named and filled in several steps, copied in several,
and any number of threads may be at that. Two ghosts remember what this spoils:
`torn`, the stashes last written by several threads at once, and `mixed`, the
files opened with a torn stash or with one that was just being written.

**ContentDb, SongConf.** Several processes that load, extend, merge and save the
file of playing times, with the locks `lockf()` gives and takes; and the lines
of song.conf. A lock belongs to a process and ends with any `close()` of the
file: an update of song.conf has lost it once it has read the file, so updates
of two processes overlap, and `overlapped` remembers which did.

**UadeConf, AmigaFiles, Detection.** Options as members of `struct uade_config`
with their `_set` bits, merged from four sources. Names as sequences of
components, a component as a word in one of two cases, directories as functions
from paths. The choice of a player as a search in a table, where contents,
prefix or postfix may lead to different ones.

**Vparray.** `l` is the array with more cells than are ever allocated, so that
an access outside the allocation is visible. It implements `DynamicList`, the
sequence that `vparray.h` describes.

**Cpu68k.** Exceptions, interrupts, RTE and STOP with the three stack pointers of
a 68020, and the flags by which the chips tell the processor that something has
happened. Instructions that touch none of this are left out.

**Alu68k** and its users. What the generated C code of an instruction computes,
as operators on flags and operands. `AluShift` compares a shift by a count with
as many shifts by one; `AluChain` runs arithmetic over several words, where the
flags between two instructions matter; `AluDivide` has both builds of the long
divisions. `BitFields` has fields that touch five bytes of memory, `Stack68k`
programs that push and pop frames with every instruction that moves.

**Table68k, OpcodeTable.** All rows of the file table68k, and the way from them
to the tables of functions: expansion to 65536 opcodes, the merging of opcodes
that share a function, the functions written for five kinds of processor, and
their installation. The table is not scaled.

**CiaTimers, CiaTod, Paula, Copper.** Each keeps, next to the state of the lazy
emulation, what a chip that is emulated in every cycle would have done (`since`,
`lag`, `phase`, `eager`); the properties compare the two.

### Abstractions and bounds

A bound is a constant, given a value where the module is instantiated.

| bound | value | why it is enough |
|---|---|---|
| `MaxSongs` | 1-2 | state that outlives a song shows with the second song; nothing distinguishes a third |
| `MaxFiles` | 1-2 | two names give a cache hit, a miss, and a replacement |
| `Capacity` | 1-2 messages | every write can block; one message is the worst case for progress |
| `Block`, `ReadBytes` | 2 samples | a partial and a full buffer, so a song end can come with data pending |
| `SkipMax` | 1 | stands for the 3 seconds before involuntary output |
| `LastSubsong` | 1 | one subsong change and "no more subsongs" |
| `MaxQueue` | 1 | number of queued filter commands; the queue is flushed as a whole |
| `MaxInFlight` | 3 | room for a request, or three pieces of a file, in flight; the proofs have no bound |
| `MaxLen`, `Byte`, `SizeMax` (Fifo) | 2, two values, 63 | capacities reach 18, so growth, compaction, halving and reuse all occur; the proofs have no bound |
| `Header`, `MaxMsg`, `Lengths`, `Room`, `Count` (Framing) | 2, 4, 0-3, 4, 3 | every cut of header and body, a body that fits and one that does not, a message behind and one ahead; the proofs have no bound |
| `MaxLen`, `Item` (Vparray) | 5, 2 | the first array grows to 20 cells and is halved again; the proofs have no bound |
| `MaxPos`, `Block`, `MaxCommands` (UadePlayback) | 3, 2, 1 | a subsong ends inside a block; one seek or change at any moment |
| processes, songs (ContentDb) | 2, 3 | two processes race; one song only in the global database |
| `MemoryLimits` (ContentDb) | 2 or 64 entries | with 2 the table cannot grow for the third song, in either process; with 64 no `realloc()` fails |
| processes, songs, updates (SongConf) | 2, 2, 3 | two updates overlap, and a third comes after them |
| `Thread`, `Handle`, `NBlocks` (UadefsCache in `songs`) | 2, 1, 3 | two reads race for the pipe; a song outgrows the cache |
| `Song`, `NStashes`, `Thread`, `MaxTime` (UadefsCache in `files`) | 2, 2, 1, 1 | both songs are stashed, used again, outdated by a change of their file, expired and replaced in turn |
| the same, second instance | 2, 1, 2, 0 | two threads open two songs with one stash between them |
| `MaxTime`, `MaxVersion` (UadefsFiles) | 3, 4 | each database is written several times, in one second or in several, before and after the other |
| playlist (Uade123) | 3 songs, one of them unplayable, 3 keys | next and previous across both ends, shuffling in between |
| `W` (Alu68k) | 3, 4, 8, 16 bits | the real sizes for shifts, where constants of the code depend on them; small words, all of whose values are tried, for the arithmetic |
| `B` (BitFields), `Base` (Stack68k) | 2-bit bytes | a long is four bytes and a field spans five, as in the code |
| `Byte` (CIAs) | 2 values | the carry into the high byte happens |
| `Channels`, `Byte`, `Mem` (Paula) | 1, 2 values, one word | the word in memory and the word written by hand have their bits the other way round, so every half of every word can be told from the others in what is played |
| `MaxHpos`, `maxhpos` (Paula, Copper) | 3, 15 | lines of 227 cycles shortened; every phase of a sample and of an access cycle against them |

Left out of the session: rmc containers, the debugger, and the parameter
commands for frequency, NTSC, speed hack, resampling, text scope, format
checking and the initial subsong. Each parameter command is one more message
sent and accepted in the places where the filter command is. `uade_alloc_song()`
is taken as a library call that may fail.

Left out of Paula: volume, mixing, the filter and the sinc interpolator, which
are arithmetic on samples. `INTREQ` is not reset by
`customreset()`; `score.s:98` clears it. In Copper the display
window is the one `plfstrt` 0 gives and the blitter is never busy, which is so
in this build; the copper's event has no dispatcher (`ev_copper`). OpcodeTable
leaves out the columns of table68k for flags and for uses of operands, which
only the translating compiler reads (off by `memory.h:41`), and takes
`cft_map()` as the identity, a permutation of opcodes in memory.

## 3. The runs

| run | what is asked | states |
|---|---|---|
| `ipc_link` | the invariants of the link; of a fifo, the assertions, initialised bytes, bounded memory, refinement of `ByteQueue` | 221,723 |
| `session_safety` | seven invariants of the session and `LinkSpec`, with two songs and two files | 642,933 |
| `session_calls` | `CallsReturn` and `NoOrphan`, buffer of one message | 242,241 |
| `songs` | one song at work: playback and seeks, bytes of the link, uade123, reads of uadefs | 111,677 |
| `files` | what outlives a song: databases, options, names, players, stashes, the list, positions | 1,309,805 |
| `machine` | instructions compute what they should; chips brought up to date late do as if in time | 1,191,798 |
| `chips` | interrupts, timers, clocks and audio blocks over time, liveness included | 355,853 |
| `opcode_table` | all opcodes: rows, merges, functions, installation | 2,273 |
| `filter_between_songs` | refutes `NoProtocolError` | violation |
| `filter_not_forced` | refutes `FilterForces` | violation |
| `play_fatal` | refutes `FatalOnlyIfCoreLost` | violation |
| `extend_flag` | refutes `ExtendIsCarry` for SUB, NEG and NBCD | violation |

The properties of four of the umbrella modules (`MCMachine`, `MCChips`, `MCSongs`,
`MCFiles`) are conjunctions, one conjunct per part; each is explained next to its
definition, and so are the conjuncts in their modules.

Deadlock is checked except where the system may stop: both ends of a link
closed, a program at its end, a bound of the model reached. In the session both
processes ending is the only state without another step, and `Terminated`
stutters there.

### Fairness

`session_calls` assumes weak fairness of the steps of a call under way and of
uadecore's own steps: both are sequential programs on a scheduler. It assumes
strong fairness of `EmulateSound`: whatever the emulated program does, every
instruction advances the event clock (`do_cycles()` in `m68k_run_1()`, and in
the STOP loop of `do_specialties()`), and the clock produces samples. Nothing is
assumed of the application, of process deaths, or of any other thing the Amiga
program does: it may ask for files or report for ever, as long as samples
come now and then.

The other modules follow the same rule: a program takes its next step, the
world need not do anything.

* UadePlayback: the steps of a call, of uadecore's block, and `AppRead`; that an
  application goes on reading is what `uade.h:460` asks of it.
* Framing: the loops of writer and reader, which try again after EINTR.
* Uade123: its own steps, and strong fairness of the end of a song that can be
  read: it ends by itself or by a timeout. After a failed `uade_read()` there is
  no such end (section 4): `Terminates` leaves this state (`Stuck`) out. Keys are
  bounded, a user presses any, but not for ever.
* UadefsCache: the steps of each thread, and a decoder that writes what there is
  room for and ends. The mutex need not be fair.
* CiaTimers, CiaTod, Paula, Cpu68k: time passes, syncs come, the loop of the
  processor runs.

The umbrella modules merge these into one condition per actor; that is the same
assumption, since in each behaviour only one part has steps.

## 4. What was found

Three disagreements between the code and its documentation and an error, each
shown by a run that TLC finds violated:

1. `filter_between_songs`: `uade_set_filter_state()` between `uade_stop()` and
   the next `uade_play()` sends FILTER while uadecore expects SCORE. uadecore
   exits; the call returns 0, and the next song cannot be played. `uade.h`
   states no such restriction.
2. `filter_not_forced`: without `led_forced` the command carries no LED state,
   so `uade_set_filter_state()` does not "force emulated Amiga to change filter
   to the given newstate" (`uade.h:419`): the application calls it in a song, the
   queued command is sent, received and obeyed, and the filter is another.
3. `play_fatal`: `uade_play()` returns -1, "fatal error", for a song whose sound
   core does not report subsongs in time, because it gets an EAGAIN event it has
   no case for, although the session is sound; `uade.h:398` reserves 0 for it.
4. `extend_flag`: SUB and NEG (`gencpu.c:689`) and NBCD (`gencpu.c:1151`) do not
   copy the carry to X, as ADD, SUBX, ABCD and SBCD do and `table68k:178`, `103`
   and `108` demand. A difference of several words that begins with SUB goes
   on with a stale borrow. (Two other ways to set flags, `X86_ASSEMBLY` and
   `M68K_FLAG_OPT`, are defined by no build of the repository.)

`SessionSafety.cfg` therefore has `FilterWhenIdle = FALSE` and
`LedForced = TRUE`; `SessionCalls.cfg` has the opposite values. `NumbersExact`
is about numbers of several words for ADD, ADDX, SUBX, NEGX, ABCD and SBCD, with X
as the carry between words; of SUB, NEG and NBCD it takes one word, and not its X.

More were met while modelling. They have no run of their own; where a module
defines the statement that is violated, its name is given, so that it can be
checked.

*Library* (`uadestate.c`, `rmc.c`)
* `SeekBegun`: a seek asked for after the end of the last subsong, or when it is
  about to come, is never begun: `uade_get_event()` finds no further subsong
  and tells the end (line 911; `uade.h:458-460`). `SeekStarts` states the
  exception: every other seek is begun.
* `uade_play()` without a module returns -1, the fatal error (line 1257), where
  `uade.h:398` says 0.
* `EndStays`: after silence or a timeout the state stays RECEIVE_MSGS, and the
  next `uade_read()` goes on delivering samples (line 1059; `uade.h:231`).
* `PlaytimeOfWholeSong`: the time up to a crash of the score is recorded as the
  playing time (line 1495; `uadestate.h:93`).
* `ForwardIsForward`: during a song-relative seek a position-relative one starts
  from 0 or a stale offset (line 515; `uade.h:451`).
* `SubsongAsRequested`: subsong 0 is taken to be playing already, and the default
  subsong is played (line 420; `uade.h:393`).
* `SeekAhead`: a timeout in the block that would have completed a song-relative
  seek leaves a target behind the position; the assertion of line 746 fails with
  the next block. The `songs` run has no timeouts for this reason.
* `RmcIsOfSong`: when no player is found the container of the song before stays
  (line 1288; `uade.h:363`). `ModuleNamed`: a container without files and song
  name ends the program by an assertion (`rmc.c:91`).
* `PlayableIfOurs`: `uade_is_our_file()` accepts files that `uade_play()` refuses
  (line 1185; `uade.h:320`). `RejectedIsNotPlayed`, `PlayerAttribute`: the
  attributes `reject` and `player` have no effect (`eagleplayer.c:286`,
  `uadeconf.c:215`; `uade123.1:413`, `417`).

*Configuration* (`uadeconf.c`, `eagleplayer.c`)
* Five documented commands of uade.conf do not work: `ao_option`, `buffer_time`
  and `cygwin` (`uade123.1:465-473`) are in no table, and `random_play` and
  `recursive_mode` (`uade123.1:517-521`) are matched by the one letter that the
  table asks for a resampler. `CommandsObeyed` is about the others.
* `ContentCommandObeyed`: `detect_format_by_content` turns timeouts off, since the
  table has another spelling (line 47; `uade123.1:474`). Given in song.conf it
  comes too late, after the player was chosen.
* `TimeoutOverrides`: a subsong timeout of the command line does not override
  `always_ends` (line 402; `uade123.1:372`).
* `EpOptionsAppended`: options of a line reach the player last first
  (`eagleplayer.c:263`; `uade123.1:380`).
* Effects toggled by a key are lost with the next song; "ntsc 0" sets NTSC too;
  `uade_parse_subsongs()` is called by nothing.

*Databases* (`songdb.c`)
* `AllocatedAsCounted`: the number of entries is doubled before `realloc()` and
  stays so when it fails (line 67; `songdb.h:24`).
* `UserNotOverridden`: a global playing time replaces the user's
  (`uadestate.c:51`, comment in line 47).
* `uade_update_song_conf()` reads the locked file through a second descriptor,
  whose `fclose()` releases the lock (line 583; lines 586 and 688 take
  `uade_atomic_close()` to close "the lock too"). When updates of two processes
  overlap, the one that writes first is lost, and so is everything if the other
  has read the truncated file. `UpdatesKept` and `OneLinePerSong` state exactly
  these exceptions.

*uade123 and uadefs*
* `QuitQuits`: q ends in `uade_die()` when `uade_stop()` fails (`uade123.c:575`).
  `ReadErrorEndsSong`: the result of `uade_read()` is kept in a `size_t`, so an
  error is played (`playloop.c:253`), and as `uade_get_event()` reports it for
  ever (`uadestate.c:922`), `play_loop()` does not end unless a key is pressed.
* Two threads that open songs may write one stash at once, or one may copy it
  while another writes it (`uadefs.c:560`, `:525`): it then has the name of one
  song and the sound of another ("File name for the stash", `uadefs.c:101`), and
  so have files opened with it, until it expires. `StashNamed`, `StaleBounded` and
  `ReadsSong` hold of all other stashes and files (`torn`, `mixed`). `nextstash` is
  taken to be stored once, as compilers do with lines 560-562; with two stores
  another thread could meet the index behind the last stash.
* One time stamp serves both databases. `GlobalRead`: a global one that is not
  newer than the user's is never read (`uadefs.c:647`). A version of the user's is
  not read that was written in the second of the version read (`uadefs.c:631`),
  or when a global one as new has been. `UserDatabaseRead` states these two
  exceptions. `SongHasSize`: none for a song of more than an hour
  (`uadefs.c:676`).
* `kill_child()` waits for its decoder before it closes the pipe, and uade123
  survives one SIGINT: with a full pipe `release` may hang. `ReturnsOrPipeFull`
  states the exception.

*List* (`vparray.c`)
* `PopsLastItem`: `vparray_pop_tail()` returns the cell after the last item (line
  144; `vparray.h:70`).
* An array of seven cells is halved with four items left, to three cells (lines
  127-129), and the fourth is written behind them. A list comes to seven cells
  only from a first length like 7 or 14. Nothing in the repository creates a
  list yet (`songdb.h` includes the header). The proof of section 5 found it.

*Emulator*
* `PeriodLimited`: a channel attached to the next writes its period unlimited
  (`audio.c:370`, against the comment in `:636`).
* `FetchInBlock` with any DMACON writes: a channel that AUDxDAT put into state 2
  goes on with an old pointer (`custom.c:434`).
* A write to INTREQ is the only one that does not bring the channels up to date
  first (`custom.c:462`; `audio.c:523`): whether a channel without DMA plays its
  word once more depends on when `update_audio()` happened to be called last.
  `CutDoesNotMatter` is about the calls between two writes, and counts that one.
* The first pass of a sample of two words plays its first word twice.

## 5. The proofs

The proofs are for every value of the constants that satisfies the assumptions
named; the runs are small instances of the same formulas. Each component's
theorems are listed in `PROJECT.json`. There is no theorem about a step that
the model leaves out: what is said of a theorem's hypotheses here is all it needs.

**FifoProofs**: `WindowValid` and `CapacityBounded` are invariants, and
`QueueSpec` holds: every step of the fifo is one of the byte queue
`ByteQueue`. They assume `FifoAssumption`: the undefined value is not a byte, the
bounds are natural numbers, and `4 * (MaxLower + MaxLen) <= SizeMax`, size_t is
wide enough for what callers queue, which `uadestate.c` limits to about one MiB.
It is the hypothesis of each theorem; `MCIpcLink` evaluates it for its instance.
The inductive invariant adds a bound on `lower`: a read that does not compact
leaves more than a quarter of the buffer in use, or the buffer has fewer than 8
bytes, so the space in front of the window is bounded, and with it the size the
next growth can reach. Without it `CapacityBounded` is not inductive.
The last part of the assumption is needed because doubling is followed by a test that catches
only sums in the upper half of the range. The refinement reads the window as a
sequence (`Bytes`) and shows what storing, moving and cutting the window do to
that sequence.

**IpcLinkProofs**, without a bound on messages in flight: `TypeOK`,
`OneDirection`, `TurnNotLost`, `OnlyPiecesAwaited`, from `LinkAssumption`
(commands are different from the four special message types). The inductive
invariant follows the message that yields the turn: a TOKEN, a
REQUEST_AMIGA_FILE or the last piece of a file. It is the last in its inbox
(`YieldIsLast`), its sender is not in S, its receiver not either; an inbox
without one belongs to an end whose peer still has the turn. The cases of a
file transfer (`Serving`, `Awaiting`, `Served`) relate the `duty` of both ends.
One sender and one direction alone are not inductive: that the receiver of a
token becomes the only sender depends on its having been the last message.

**FramingProofs**, from `FramingAssumption`: `NothingReadAhead`, `InStep`,
`ErrorMeansTorn`, and `ChannelSpec`, the refinement of `MessageChannel`. The
inductive invariant looks at one sequence, `Stream`: what the receiver has
buffered, what is on the wire, and what the writer has still to write. A
function `start` says where in it each message begins that was sent and not
yet received; the messages lie there without gaps, each announcing its length
in every byte of its header, and the receiver is at the first of them. Reading
and writing move bytes from one part of the stream to the next and leave the
stream alone; a death cuts it at the end, and then only the last message is torn.

**SessionTalkProofs, SessionProofs**: all safety properties of the session, for any number of songs, files and subsongs, any capacity of the
socket and any size of block.

1. `Control` (ControlHolds) says where each program may stand: at each control
   point which protocol state, which phase, which messages it is in the middle
   of sending. It is inductive together with the invariant of `IpcLink`, and
   with it every step of the session is shown to be a step of `IpcLink` or to
   leave the link alone: `LinkSpec` (LinkSpecHolds). So what IpcLinkProofs
   proves is true of the real traffic, whatever the application and the emulated
   program do, and is used as a fact in all that follows.
2. `Talk` (TalkHolds) says what the two programs say to each other while both are
   alive: one of thirteen situations, from `Quiet` over `Loading`, `Running` and
   `Delivering` to `Rebooted`. Each fixes both control points and what is on its
   way between them, the messages one of them is still sending included: without
   those it would not be inductive, since a send is one step per message.
   `StopQuiesces` and, with `Control`, `ErrorsJustified` and `NoProtocolError`
   follow.
3. The rest follows what messages carry. `OfSize`: a read request and its answer
   agree on the size, hence `AssertionsHold`. `OfSong`, `OfFile`,
   `OptionsFirst`: everything on its way is of the song that is played, the file
   asked for, looked up and sent is the one that will be cached, and the
   options come before the first turn; hence `NothingLeaks`. `Stream`: an answer
   comes first, and the turn after an answer or a block, hence
   `TailBeforeTurn`. It holds of the messages of a dead core, too, which `Talk`
   says nothing about. `FilterKept`: the last filter command obeyed, on its way
   or queued is the last the application gave, hence `FilterFollows`.

`Talk` and what rests on it assume `~FilterWhenIdle`: the run
`filter_between_songs` shows that it fails otherwise. `FilterFollows` also
assumes `LedForced` (run `filter_not_forced`). `Control`, `LinkSpec` and
`AssertionsHold` assume neither.

**VparrayProofs**: `WindowAllocated`, `MemoryBounded` and `ImplementsList`, the
refinement of `DynamicList`, for every set of items and every length of list,
from `VparrayAssumption` and `HalvesWell`. The inductive invariant adds that a
head which was not reclaimed is short of three quarters of the array
(`Unspent`); otherwise a queue could grow for ever, and `GrowthBounded` shows
that with it an array is doubled only while more than an eighth of the doubled
array is about to be used. `HalvesWell` says that the array never has seven
cells, the one length that is halved too far (section 4). It depends on the
first length only, and `ShortBeginningsHalveWell` proves it of every first
length below seven, the default of five among them. The bound of
`MemoryBounded` is the one the proof needed: an earlier, smaller one held on
the lists of five items that TLC checks, and is false for longer ones.

**PlayerProofs** has four parts: how a song is played, and three parts of the
machine that player programs use.

1. `UadePlayback`, for any range of subsongs, any size of block, read and seek,
   from `PlaybackAssumption`: `PositionsAgree` and `SeekExact`, and, without
   timeouts (`~Timeouts`), `SeekAhead`, `EndReported` and that `handle_seek()`
   never aborts (NeverAborts). With timeouts these three are not claimed, by the
   run either: a timeout counts its block without looking at the seek under way,
   which can so be overtaken, and reports an end that uadecore has not met. The
   inductive invariant is `Typed`, `Conversation`, `Counting` and
   `PositionsAgree`. `Conversation` says that a read request has not been
   answered (`Asked`), or its answer is on its way (`Answered`: a block whose
   frames continue those counted, an end before it if the subsong ends in it),
   or only the turn is (`Delivered`), and how far uadecore's position is from
   the library's in each. `Counting` has what ties both sides together
   besides: the subsong they are in, and that nothing is stashed while a seek
   skips. Without `Conversation` the positions are not inductive: they differ
   by the block that is on its way, and an end is announced ahead of its block.
2. `CiaTimers`, for every number of chips and width of a byte, from
   `CiaAssumption`: `AssertionsHold` (NoneMissedHolds), `CountsInRange`,
   `LagBounded`, `EventComing` and `UnderflowInterrupts`. `TimersInv` says that
   the event is not passed; that for a timer that counts clocks it is not later
   than what is left of a clock and `DIV10` for each count; and that what has
   not been counted is the two remainders, `div10` and `lastdiv10`. The code
   uses the older remainder where it counts and the newer one where it
   schedules; each is less than a clock, which is why no underflow is missed.
3. `CiaTod`, for every width of a byte: `ReadIsSnapshot` and `WrittenExactly`.
   `TodInv` says that a reading that is under way has latched the counter at its
   high byte, and that a counter that is being set is stopped and has the bytes
   written so far. The lemmas it rests on are about digits: a time is its three
   bytes, and writing one of them leaves the others alone.
4. `Cpu68k`, for every program, from `CpuAssumption` (the status registers a
   program loads are records with a mask of three bits): `NothingForgotten`,
   `NestingIncreases`, `ReturnRestores`. `CpuInv` describes the stacks by the
   exceptions that are being handled. The frames of each are where its
   exception found the pointers and hold its status (`Stacked`); the pointers
   each handler began with (`Seen` by a program, wherever they are kept) are
   those the next exception has found (`Entry`); no frame is above a pointer of
   a later exception (`Below`), so none is overwritten; and masks grow from
   handler to handler. A return pops the last frame only, but that the one
   before it is intact must be known before the last one is popped.

Where tests of the code overlap, the modules say IF ... ELSE IF in their order:
which arm of a CASE is taken when two guards are true is left open by TLA+.

**UadefsProofs**: `ReadsSong`, `StashesKept` (`StashNamed` and `StaleBounded`) and
`HeaderFixed`, for any number of threads, open files, songs, stashes, blocks and
changes of the songs' files, from `UadefsAssumption` (there is a stash, a block, a pipe and a stash time of at
least one; what is stashed is part of what the cache holds). Any thread may open,
read or release at any time. What two opens at once can spoil is named in the
properties: `StashNamed` leaves out the `torn` stashes, `ReadsSong` and
`StaleBounded` the `mixed` files (section 4), `HeaderFixed` nothing. The inductive
invariant relates these things that no property names:

1. `Ready`: between two blocks the decoder's place in its stream is where the
   cache ends, or the decoder is dead and drained; without a decoder the cache
   is exactly one stash. In the middle of a block `StoreOK` says what the reader
   carries. Both need that a reader at work has the mutex (`Mutex`), and that a
   file that is opened or released has no other user (`Alone`).
2. `Fresh`: an open that decodes takes all it will stash from one decoder, hence
   of one version of the file. For a stashed song only the song and the offset
   are known: what is read beyond the stash may be of a later version.
3. `Since` and `Lately`: the version a decoder reads was current when its file
   was opened, so a stash holds a version that was current when it was created;
   `check_stash()` then bounds the time by which it is too old. The clock may
   advance between the lookup and the spawn, which makes the stash look older
   than it is, never younger.
4. `FromStash` and `ToStash`: between the steps of a copy, what is copied already
   is right, if the stash is not `torn` and no other thread writes it. A thread
   that claims a stash makes the files that are just being prefilled from it
   `mixed`, so this is inductive. Offsets are right in any case: every
   thread copies a unit to the place it has in its song.

`HeaderFixed` has an invariant of its own, `HeaderInv`, on top of that one. The
size is appended to a header that comes from a decoder or a stash, and must be
added to neither twice: so no stash has it (`StashesShort`), because what a
thread stashes it read before it corrected the cache (`Opened`), and every file
that nobody is opening or taking apart has it (`Usable`). That a killed file has
no blocks while its decoder is waited for belongs to the first invariant.

Only model-checked:

* Liveness (`CallsReturn`, `NoOrphan`, `SeekStarts`, `AllArrives`, `Terminates`,
  `ReturnsOrPipeFull`, `StopEnds`, `CascadeUnderflows`, the alarm, `BlockSignalled`):
  it depends on fairness, and the prover has neither fairness nor ENABLED.
* `Uade123`, `Paula`: recursive operators or functions whose result on every
  input would need induction over data, which the prover's libraries cannot
  instantiate. `Copper` uses Bitwise, which the prover does not know.
* Alu68k and its users, Stack68k, OpcodeTable: statements about finite data of
  the sizes given; shifts and divisions are nonlinear in the width.
* The invariants of the databases and configurations, of `Detection`, `AmigaFiles`
  and `UadefsFiles`. A binary search and a fold over the lines of a file would
  need induction over data; the others are functions of one call's input.

## 6. Not modelled, not covered

`PROJECT.json` gives the reason for every part. In short: the Amiga programs are
an environment that may do anything `score.s` allows; signatures of formats
(`amifilemagic.c`), effects, mixing and filters are functions of data without a
state to interleave; the floating point unit uses the host's doubles; the
compiler is off in this build; the blitter, disk, serial and display registers
have no effect on sound.

Hazards for which no property is stated, since nothing in the repository says
what should happen:

* `uadecontrol.c:90` asserts a subsong below 256; the range comes unchecked from
  the eagleplayer.
* `songdb.c:495` rewrites the database in place: a crash in between loses entries
  (the action `Die` of ContentDb writes such a file).
* `rmc.c:213`: a name of a directory inside a container ends the program in
  bencode-tools.
* `newcpu.c:743`: an exception other than an interrupt in master mode clears M but
  leaves the master stack in A7.
* `gencpu.c:1557`: the most negative dividend by -1 traps on the host (the outcome
  "killed" of AluDivide).
* `newcpu.c:913`: without 64-bit integers an uninitialised quotient decides when
  the division overflows (`Uninitialised` in AluDivide).
* `gencpu.c:2048`: CAS2 stores both values through its first pointer.
* `audio.c:415`: a channel that stops on a pending interrupt keeps `intreq2`, so
  the next start interrupts a block early.
* `custom.c:795`: a copper that is a line behind compares its own place with the
  beam's line.

## 7. The plan

Everything planned as a model is there. Left, in this order:

1. Proofs: lemmas about the operators of `Alu68k` for every width.
2. The parameter commands of a session that are left out now.
