----------------------------- MODULE UadefsCache -----------------------------
(***************************************************************************)
(* frontends/uadefs/uadefs.c, open, read and release: each open song has a  *)
(* decoder process that writes a WAV stream into a pipe and a cache of the   *)
(* blocks read from it.  The first blocks of the songs opened last are       *)
(* stashed, so that a song opened to be looked at needs no decoder.          *)
(* FUSE calls the operations from several threads; one mutex serializes the *)
(* reads, nothing the opens: a stash may be written by two threads at once,  *)
(* or while another copies it, and hold two songs from then on.  What that   *)
(* touches is remembered, the rest has to be right.                         *)
(* A unit of sound is <<song, version of its file, offset>>.                *)
(***************************************************************************)
EXTENDS Integers, Sequences, SequencesExt, FiniteSetsExt

CONSTANTS
  Song,           \* the songs under the mounted directory
  Length,         \* how many units each decodes to
  Sized,          \* the songs whose playing time gives a WAV size
  Thread, Handle,
  BlockSize,      \* CACHE_BLOCK_SIZE, in units
  StashBlocks,    \* STASH_CACHE_BLOCKS
  NBlocks,        \* ctx->nblocks
  NStashes,
  StashTime,      \* STASH_TIME
  PipeSize,       \* units the pipe holds
  ReadAt,         \* the <<offset, size>> pairs applications ask for
  MaxTime, MaxVersion   \* bounds: the clock, the changes of a song's file

Nobody == "nobody"

UadefsAssumption ==
  /\ Length \in [Song -> Nat]
  /\ {BlockSize, NStashes, StashTime, PipeSize} \subseteq Nat \ {0}
  /\ NBlocks \in Nat /\ StashBlocks \in 1 .. NBlocks
  /\ ReadAt \subseteq Nat \X Nat
  /\ "none" \notin Song /\ Nobody \notin Thread \cup Handle

VARIABLES
  time,
  version,      \* of each song's file, with the time it was written
  stashes, nextstash,
  ctx,          \* the open files: song, time, cached blocks, decoder
  thread,       \* what each thread is doing
  readmutex,    \* its owner
  torn,         \* the stashes last written by several threads at once
  mixed         \* the files opened with a stash that was torn or written

vars == <<time, version, stashes, nextstash, ctx, thread, readmutex, torn, mixed>>

NoDecoder == [alive |-> FALSE, ver |-> -1, out |-> 0, pos |-> 0]
Closed == [song |-> "none", blocks |-> <<>>, decoder |-> NoDecoder, created |-> 0]
StashSize == StashBlocks * BlockSize
NoStash == [song |-> "none", data |-> [i \in 1 .. StashSize |-> <<"none", 0, i - 1>>], created |-> 0]
Idle == [pc |-> "idle", op |-> "none", h |-> Nobody, at |-> 0, size |-> 0,
         got |-> <<>>, block |-> <<>>, slot |-> 0]

Spawned(c) == c.decoder.ver # -1
Stream(f, v) == [o \in 1 .. Length[f] |-> <<f, v, o - 1>>]

\* The blocks of a stash.
Blocks(data) ==
  [b \in 1 .. StashBlocks |-> SubSeq(data, (b - 1) * BlockSize + 1, b * BlockSize)]

Init ==
  /\ time = 0
  /\ version = [f \in Song |-> <<0>>]
  /\ stashes = [i \in 1 .. NStashes |-> NoStash] /\ nextstash = 1
  /\ ctx = [h \in Handle |-> Closed]
  /\ thread = [t \in Thread |-> Idle]
  /\ readmutex = Nobody
  /\ torn = {} /\ mixed = {}

Current(f) == Len(version[f]) - 1
InUse(h) == \E t \in Thread : thread[t].pc # "idle" /\ thread[t].h = h

GoTo(t, pc) == thread' = [thread EXCEPT ![t].pc = pc]
Done(t) == thread' = [thread EXCEPT ![t] = Idle]
------------------------------------------------------------------------------
(* spawn_uade(): fork() may fail, an exec that fails is a decoder that dies. *)
Spawn(h) ==
  ctx' = [ctx EXCEPT ![h].decoder =
    [NoDecoder EXCEPT !.alive = TRUE, !.ver = Current(ctx[h].song)]]

DecoderOutput(h) ==
  LET d == ctx[h].decoder
  IN /\ d.alive /\ d.out < Length[ctx[h].song] /\ d.out - d.pos < PipeSize
     /\ ctx' = [ctx EXCEPT ![h].decoder.out = @ + 1]
     /\ UNCHANGED <<time, version, stashes, nextstash, thread, readmutex, torn, mixed>>

DecoderEnds(h) ==
  LET d == ctx[h].decoder
  IN /\ d.alive /\ d.out = Length[ctx[h].song]
     /\ ctx' = [ctx EXCEPT ![h].decoder.alive = FALSE]
     /\ UNCHANGED <<time, version, stashes, nextstash, thread, readmutex, torn, mixed>>

DecoderCrashes(h) ==
  /\ ctx[h].decoder.alive
  /\ ctx' = [ctx EXCEPT ![h].decoder.alive = FALSE]
  /\ UNCHANGED <<time, version, stashes, nextstash, thread, readmutex, torn, mixed>>

(* read_in_full() waits for n units or the end of the pipe. *)
Readable(d, n) == d.out - d.pos >= n \/ ~d.alive
Piece(c, n) ==
  LET d == c.decoder
  IN SubSeq(Stream(c.song, d.ver), d.pos + 1, Min({d.pos + n, d.out}))
------------------------------------------------------------------------------
(* uadefs_open() of a song: create_ctx(), then check_stash() of each stash.  *)
OpenBegin(t, f, h) ==
  /\ thread[t].pc = "idle" /\ ctx[h] = Closed /\ ~InUse(h)
  /\ ctx' = [ctx EXCEPT ![h].song = f, ![h].created = time]
  /\ thread' = [thread EXCEPT ![t] =
       [Idle EXCEPT !.pc = "lookup", !.op = "open", !.h = h, !.slot = 1]]
  /\ mixed' = mixed \ {h}
  /\ UNCHANGED <<time, version, stashes, nextstash, readmutex, torn>>

(* Mutation: old stashes are not rejected. *)
AnyAge(s, c) == s.song = c.song

check_stash(s, c) == s.song = c.song /\ c.created < s.created + StashTime

Writing == {"date", "name", "stash"}
Writes(t, i) == thread[t].pc \in Writing /\ thread[t].slot = i
Written(i) == \E t \in Thread : Writes(t, i)

\* slot is the stash the thread has come to; 0 when no stash was found.
OpenLookup(t) ==
  LET th == thread[t]  c == ctx[th.h]
  IN /\ th.pc = "lookup"
     /\ \/ /\ check_stash(stashes[th.slot], c)
           /\ GoTo(t, "prefill")
           /\ mixed' = IF th.slot \in torn \/ Written(th.slot) THEN mixed \cup {th.h} ELSE mixed
        \/ /\ ~check_stash(stashes[th.slot], c)
           /\ thread' = IF th.slot < NStashes THEN [thread EXCEPT ![t].slot = @ + 1]
                        ELSE [thread EXCEPT ![t].pc = "spawn", ![t].slot = 0]
           /\ UNCHANGED mixed
     /\ UNCHANGED <<time, version, stashes, nextstash, ctx, readmutex, torn>>

(* cache_prefill() copies the stash as it is found, unit by unit.            *)
OpenPrefill(t) ==
  LET th == thread[t]
  IN /\ th.pc = "prefill" /\ Len(th.got) < StashSize
     /\ thread' = [thread EXCEPT ![t].got = Append(@, stashes[th.slot].data[Len(@) + 1])]
     /\ UNCHANGED <<time, version, stashes, nextstash, ctx, readmutex, torn, mixed>>

(* warm_up_cache() reads the first StashBlocks blocks through the cache. *)
Warm(t) ==
  thread' = [thread EXCEPT ![t].pc = "read", ![t].at = 0, ![t].size = StashSize, ![t].got = <<>>]

OpenPrefilled(t) ==
  /\ thread[t].pc = "prefill" /\ Len(thread[t].got) = StashSize
  /\ ctx' = [ctx EXCEPT ![thread[t].h].blocks = Blocks(thread[t].got)]
  /\ Warm(t)
  /\ UNCHANGED <<time, version, stashes, nextstash, readmutex, torn, mixed>>

OpenSpawn(t) ==
  /\ thread[t].pc = "spawn"
  /\ \/ Spawn(thread[t].h) /\ Warm(t)
     \/ GoTo(t, "kill") /\ UNCHANGED ctx
  /\ UNCHANGED <<time, version, stashes, nextstash, readmutex, torn, mixed>>

AfterHeader(t) == IF thread[t].slot = 0 THEN GoTo(t, "claim") ELSE Done(t)

(* Mutation: the header of a stashed song is left alone. *)
FreshlyDecoded(th) == ctx[th.h].song \in Sized /\ th.slot = 0

SizeKnown(th) == ctx[th.h].song \in Sized

(* The size in the WAV header is corrected in the cache, if it is known.     *)
OpenHeader(t) ==
  LET c == ctx[thread[t].h]
  IN /\ thread[t].pc = "header"
     /\ ctx' = IF SizeKnown(thread[t])
               THEN [ctx EXCEPT ![thread[t].h].blocks[1][1] = Append(@, "size")]
               ELSE ctx
     /\ AfterHeader(t)
     /\ UNCHANGED <<time, version, stashes, nextstash, readmutex, torn, mixed>>

(* A stash is claimed, dated, named and filled, and nothing keeps another     *)
(* thread from doing the same with it: nextstash is read before it is set.   *)
OpenClaim(t) ==
  /\ thread[t].pc = "claim"
  /\ thread' = [thread EXCEPT ![t].pc = "date", ![t].slot = nextstash]
  /\ torn' = IF Written(nextstash) THEN torn \cup {nextstash} ELSE torn \ {nextstash}
  /\ mixed' = mixed \cup {thread[u].h : u \in
       {u \in Thread : thread[u].pc = "prefill" /\ thread[u].slot = nextstash}}
  /\ UNCHANGED <<time, version, stashes, nextstash, ctx, readmutex>>

After(i) == IF i = NStashes THEN 1 ELSE i + 1

\* A name that is half copied may be that of another song.
OpenStash(t) ==
  /\ thread[t].pc = "date"
  /\ \E half \in Song \cup {"none"} :
       stashes' = [stashes EXCEPT ![thread[t].slot].song = half,
                                  ![thread[t].slot].created = ctx[thread[t].h].created]
  /\ nextstash' = After(thread[t].slot)
  /\ GoTo(t, "name")
  /\ UNCHANGED <<time, version, ctx, readmutex, torn, mixed>>

OpenStashName(t) ==
  /\ thread[t].pc = "name"
  /\ stashes' = [stashes EXCEPT ![thread[t].slot].song = ctx[thread[t].h].song]
  /\ thread' = [thread EXCEPT ![t].pc = "stash", ![t].size = StashSize]
  /\ UNCHANGED <<time, version, nextstash, ctx, readmutex, torn, mixed>>

(* Mutation: the data goes to the stash that is next by then. *)
StashAfter(t) == nextstash

StashOf(t) == thread[t].slot

\* size counts what is left to copy.
OpenStashData(t) ==
  LET th == thread[t]  o == StashSize - th.size + 1
  IN /\ th.pc = "stash"
     /\ stashes' = [stashes EXCEPT ![StashOf(t)].data[o] = th.got[o]]
     /\ IF th.size = 1 THEN Done(t) ELSE thread' = [thread EXCEPT ![t].size = @ - 1]
     /\ UNCHANGED <<time, version, nextstash, ctx, readmutex, torn, mixed>>
------------------------------------------------------------------------------
(* uadefs_read() takes the mutex for the whole of its loop. *)
ReadBegin(t, h, r) ==
  /\ thread[t].pc = "idle" /\ ctx[h] # Closed
  /\ \A u \in Thread : thread[u].h = h => thread[u].op = "read"
  /\ thread' = [thread EXCEPT ![t] =
       [Idle EXCEPT !.pc = "lock", !.op = "read", !.h = h, !.at = r[1], !.size = r[2]]]
  /\ UNCHANGED <<time, version, stashes, nextstash, ctx, readmutex, torn, mixed>>

(* Mutation: the mutex is taken, whoever has it. *)
Free(m) == TRUE

Unlocked(m) == m = Nobody

ReadLock(t) ==
  /\ thread[t].pc = "lock" /\ Unlocked(readmutex)
  /\ readmutex' = t
  /\ GoTo(t, "read")
  /\ UNCHANGED <<time, version, stashes, nextstash, ctx, torn, mixed>>

Position(th) == th.at + Len(th.got)
Left(th) == th.size - Len(th.got)
Index(th) == Position(th) \div BlockSize
Lsb(th) == Position(th) - Index(th) * BlockSize
BSize(th) == Min({BlockSize - Lsb(th), Left(th)})

\* The loop ends: a read returns what it has; opening goes on if all is there.
ReadEnds(t) ==
  LET th == thread[t]
  IN /\ IF th.op = "read" THEN Done(t)
        ELSE GoTo(t, IF Len(th.got) = StashSize THEN "header" ELSE "kill")
     /\ readmutex' = IF readmutex = t THEN Nobody ELSE readmutex
     /\ UNCHANGED <<time, version, stashes, nextstash, ctx, torn, mixed>>

ReadDone(t) == thread[t].pc = "read" /\ Left(thread[t]) = 0 /\ ReadEnds(t)

\* cache_read(): a stashed song has no decoder until more of it is read.
NeedsDecoder(th) == Index(th) >= StashBlocks /\ ~Spawned(ctx[th.h])

ReadSpawn(t) ==
  LET th == thread[t]
  IN /\ th.pc = "read" /\ Left(th) > 0 /\ NeedsDecoder(th)
     /\ Spawn(th.h)
     /\ thread' = [thread EXCEPT ![t].pc = "skip"]
     /\ UNCHANGED <<time, version, stashes, nextstash, readmutex, torn, mixed>>

ReadSpawnFails(t) ==
  /\ thread[t].pc = "read" /\ Left(thread[t]) > 0 /\ NeedsDecoder(thread[t])
  /\ ReadEnds(t)

\* What the new decoder writes first is stashed already and skipped.
SkipSize == StashSize

ReadSkip(t) ==
  LET th == thread[t]  d == ctx[th.h].decoder  skip == SkipSize
  IN /\ th.pc = "skip" /\ Readable(d, skip - d.pos)
     /\ ctx' = [ctx EXCEPT ![th.h].decoder.pos = Min({skip, d.out})]
     /\ GoTo(t, IF d.out >= skip THEN "read" ELSE "end")
     /\ UNCHANGED <<time, version, stashes, nextstash, readmutex, torn, mixed>>

ReadSkipShort(t) == thread[t].pc = "end" /\ ReadEnds(t)

\* cache_block_read()
Cached(th) ==
  LET block == ctx[th.h].blocks[Index(th) + 1]
  IN SubSeq(block, Lsb(th) + 1, Min({Lsb(th) + BSize(th), Len(block)}))

ReadCached(t) ==
  LET th == thread[t]
  IN /\ th.pc = "read" /\ Left(th) > 0 /\ ~NeedsDecoder(th)
     /\ Index(th) < Len(ctx[th.h].blocks)
     /\ Cached(th) # <<>>
     /\ thread' = [thread EXCEPT ![t].got = @ \o Cached(th)]
     /\ UNCHANGED <<time, version, stashes, nextstash, ctx, readmutex, torn, mixed>>

ReadEnd(t) ==
  LET th == thread[t]
  IN /\ th.pc = "read" /\ Left(th) > 0 /\ ~NeedsDecoder(th)
     /\ \/ Index(th) >= NBlocks
        \/ Index(th) < Len(ctx[th.h].blocks) /\ Cached(th) = <<>>
     /\ ReadEnds(t)

(* Blocks are read in sequence until the wanted one is there. *)
FetchBlock(t) ==
  LET th == thread[t]  c == ctx[th.h]
  IN /\ th.pc = "read" /\ Left(th) > 0 /\ ~NeedsDecoder(th)
     /\ Index(th) < NBlocks /\ Index(th) >= Len(c.blocks)
     /\ Readable(c.decoder, BlockSize)
     /\ thread' = [thread EXCEPT ![t].pc = "store", ![t].block = Piece(c, BlockSize)]
     /\ ctx' = [ctx EXCEPT ![th.h].decoder.pos = @ + Len(Piece(c, BlockSize))]
     /\ UNCHANGED <<time, version, stashes, nextstash, readmutex, torn, mixed>>

StoreBlock(t) ==
  LET th == thread[t]
  IN /\ th.pc = "store" /\ th.block # <<>>
     /\ ctx' = [ctx EXCEPT ![th.h].blocks = Append(@, th.block)]
     /\ thread' = [thread EXCEPT ![t].block = <<>>,
          ![t].pc = IF Len(th.block) < BlockSize /\ Len(ctx'[th.h].blocks) <= Index(th)
                    THEN "end" ELSE "read"]
     /\ UNCHANGED <<time, version, stashes, nextstash, readmutex, torn, mixed>>

(* Mutation: a read of nothing is tried again. *)
StoreRetry(t) ==
  /\ thread[t].pc = "store" /\ thread[t].block = <<>> /\ GoTo(t, "read")
  /\ UNCHANGED <<time, version, stashes, nextstash, ctx, readmutex, torn, mixed>>

StoreNothing(t) == thread[t].pc = "store" /\ thread[t].block = <<>> /\ ReadEnds(t)
------------------------------------------------------------------------------
(* uadefs_release(), which FUSE calls after the last read of the handle, and *)
(* the end of an open that failed: kill_child() sends SIGINT and waits.      *)
ReleaseBegin(t, h) ==
  /\ thread[t].pc = "idle" /\ ctx[h] # Closed /\ ~InUse(h)
  /\ thread' = [thread EXCEPT ![t] = [Idle EXCEPT !.pc = "kill", !.op = "release", !.h = h]]
  /\ UNCHANGED <<time, version, stashes, nextstash, ctx, readmutex, torn, mixed>>

\* uade123 handles SIGINT, which ends it only in the middle of some calls.
Interrupt(t) ==
  LET h == thread[t].h
  IN /\ thread[t].pc = "kill"
     /\ \E alive \in {ctx[h].decoder.alive, FALSE} :
          ctx' = [ctx EXCEPT ![h].decoder.alive = alive, ![h].blocks = <<>>]
     /\ GoTo(t, "wait")
     /\ UNCHANGED <<time, version, stashes, nextstash, readmutex, torn, mixed>>

Reap(t) ==
  /\ thread[t].pc = "wait" /\ ~ctx[thread[t].h].decoder.alive
  /\ ctx' = [ctx EXCEPT ![thread[t].h] = Closed]
  /\ Done(t)
  /\ UNCHANGED <<time, version, stashes, nextstash, readmutex, torn, mixed>>
------------------------------------------------------------------------------
Tick ==
  /\ time < MaxTime /\ time' = time + 1
  /\ UNCHANGED <<version, stashes, nextstash, ctx, thread, readmutex, torn, mixed>>

SongReplaced(f) ==
  /\ Current(f) < MaxVersion
  /\ version' = [version EXCEPT ![f] = Append(@, time)]
  /\ UNCHANGED <<time, stashes, nextstash, ctx, thread, readmutex, torn, mixed>>

ThreadStep(t) ==
  \/ OpenLookup(t) \/ OpenPrefill(t) \/ OpenPrefilled(t) \/ OpenSpawn(t) \/ OpenHeader(t)
  \/ OpenClaim(t) \/ OpenStash(t) \/ OpenStashName(t) \/ OpenStashData(t)
  \/ ReadLock(t) \/ ReadDone(t) \/ ReadSpawn(t) \/ ReadSpawnFails(t) \/ ReadSkip(t)
  \/ ReadSkipShort(t) \/ ReadCached(t) \/ ReadEnd(t)
  \/ FetchBlock(t) \/ StoreBlock(t) \/ StoreNothing(t)
  \/ Interrupt(t) \/ Reap(t)

DecoderStep(h) == DecoderOutput(h) \/ DecoderEnds(h)

Next ==
  \/ \E t \in Thread, h \in Handle :
       \/ \E f \in Song : OpenBegin(t, f, h)
       \/ \E r \in ReadAt : ReadBegin(t, h, r)
       \/ ReleaseBegin(t, h)
  \/ \E t \in Thread : ThreadStep(t)
  \/ \E h \in Handle : DecoderStep(h) \/ DecoderCrashes(h)
  \/ Tick
  \/ \E f \in Song : SongReplaced(f)

Spec == Init /\ [][Next]_vars

FairSpec ==
  /\ Spec
  /\ \A t \in Thread : WF_vars(ThreadStep(t))
  /\ \A h \in Handle : WF_vars(DecoderStep(h))
------------------------------------------------------------------------------
Opening(h) == \E t \in Thread : thread[t].h = h /\ thread[t].op = "open"
Open(h) == ctx[h].song \in Song /\ ~Opening(h) /\ ctx[h].blocks # <<>>

(* Whatever the reads of other threads, the blocks a stash gave and those    *)
(* the decoder skipped, wrote or never wrote because it died: what a read    *)
(* returns is the sound of its offset, and of its song unless it was opened   *)
(* with a stash that was torn or just being written (uadefs_read()).         *)
ReadsSong ==
  \A t \in Thread : \A i \in DOMAIN thread[t].got :
    /\ thread[t].got[i][1] = ctx[thread[t].h].song \/ thread[t].h \in mixed
    /\ thread[t].got[i][3] = thread[t].at + i - 1

(* A stash that nobody is writing, and that one thread has written, holds     *)
(* the first sound of the song it is named after: struct stash, "File name    *)
(* for the stash".                                                          *)
StashNamed ==
  \A i \in (1 .. NStashes) \ torn :
    stashes[i].song \in Song /\ ~Written(i) =>
      \A o \in 1 .. StashSize : SubSeq(stashes[i].data[o], 1, 3) =
        <<stashes[i].song, stashes[i].data[1][2], o - 1>>

(* The stash may be older than the file, by less than STASH_TIME when the    *)
(* song was opened (check_stash()).                                         *)
StaleBounded ==
  \A h \in Handle \ mixed : Open(h) =>
    LET c == ctx[h]  v == c.blocks[1][1][2]
    IN v = Current(c.song) \/ version[c.song][v + 2] > c.created - StashTime

(* What may be prefilled from is the beginning of the right song, and what   *)
(* was is not much older than its file (check_stash(), cache_prefill()).     *)
StashesKept == StashNamed /\ StaleBounded

(* A song of known playing time is always opened with its size in the WAV    *)
(* header, which the decoder could not know (warm_up_cache()).               *)
HeaderFixed ==
  \A h \in Handle : Open(h) /\ ctx[h].song \in Sized => Len(ctx[h].blocks[1][1]) = 4

(* Every operation returns that does not wait for the mutex, unless it waits *)
(* for a decoder that did not end at SIGINT and cannot write, as nobody reads *)
(* the pipe any more (kill_child() comes before the pipe is closed).         *)
ReturnsOrPipeFull ==
  \A t \in Thread : thread[t].pc \notin {"idle", "lock"} ~>
    \/ thread[t].pc = "idle"
    \/ /\ thread[t].pc = "wait"
       /\ LET d == ctx[thread[t].h].decoder IN d.alive /\ d.out - d.pos = PipeSize
==============================================================================
