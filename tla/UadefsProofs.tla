---------------------------- MODULE UadefsProofs -----------------------------
(***************************************************************************)
(* The cache and the stashes of uadefs hold what their names say, for any   *)
(* number of threads that open, read and release, open files, songs, stashes *)
(* and sizes: what is read is the sound of its offset, and of its song unless *)
(* the file was opened with a stash that several threads had written at once, *)
(* or one was writing; any other stash has the first sound of the song it is  *)
(* named after, of one version of its file, and a file that was opened with  *)
(* one is not staler than the stash was allowed to be.  The size a decoder   *)
(* cannot know is in the header of every file that may be read, and was       *)
(* added to it once, whatever the threads do.                               *)
(***************************************************************************)
EXTENDS UadefsCache, SequenceTheorems, TLAPS

------------------------------------------------------------------------------
(* Sequences of sound *)

Unit == {u \in Seq(Song \cup Nat \cup {"none", "size"}) : Len(u) >= 3}

\* s is sound from offset o on, of the songs in F and of versions in V.
Run(s, F, o, V) ==
  /\ s \in Seq(Unit)
  /\ \A i \in 1 .. Len(s) : s[i][1] \in F /\ s[i][2] \in V /\ s[i][3] = o + i - 1

\* Blocks of such sound, from the beginning.
InBlocks(bs, F, V) ==
  /\ bs \in Seq(Seq(Unit))
  /\ \A b \in 1 .. Len(bs) : Run(bs[b], F, (b - 1) * BlockSize, V)

\* What may sound in a file of song f: anything a stash held, if it was mixed.
AnySong == Song \cup {"none"}
Sounds(h, f) == IF h \in mixed THEN AnySong ELSE {f}

------------------------------------------------------------------------------
(* Versions.  One that was current at some time was replaced later, if at all. *)

Since(f, v, when) ==
  v \in 0 .. Current(f) /\ (v = Current(f) \/ version[f][v + 2] >= when)

Lately(f, v, when) ==
  v \in 0 .. Current(f) /\ (v = Current(f) \/ version[f][v + 2] > when - StashTime)

------------------------------------------------------------------------------
(* The inductive invariant *)

\* Where a thread stands while its file is not to be read by others, and while
\* it has the mutex if it reads.
Upset == {"lookup", "spawn", "prefill", "skip", "store", "kill", "wait"}
Holding == {"read", "skip", "end", "store"}

Decoder == [alive : BOOLEAN, ver : Nat \cup {-1}, out : Nat, pos : Nat]
Context == [song : Song \cup {"none"}, blocks : Seq(Seq(Unit)), decoder : Decoder, created : Nat]
Activity ==
  [pc : {"idle", "lock", "header", "claim"} \cup Writing \cup Holding \cup Upset,
   op : {"none", "open", "read", "release"}, h : Handle \cup {Nobody}, at : Nat, size : Nat,
   got : Seq(Unit), block : Seq(Unit), slot : 0 .. NStashes]

\* The decoder has ended, and everything it wrote was read.
Drained(d) == ~d.alive /\ d.pos = d.out

\* What is true of an open file at any time.
FileOK(h, c) ==
  /\ c \in Context /\ c.created <= time
  /\ c = Closed \/ c.song \in Song
  /\ c.decoder.alive => Spawned(c)
  /\ c.song \in Song => c.decoder.pos <= c.decoder.out /\ c.decoder.out <= Length[c.song]
  /\ Spawned(c) => Since(c.song, c.decoder.ver, c.created)
  /\ InBlocks(c.blocks, Sounds(h, c.song), Nat)
  /\ c.blocks # <<>> =>
       c.blocks[1] # <<>> /\ (h \notin mixed => Lately(c.song, c.blocks[1][1][2], c.created))

\* What is true of it between two blocks: the decoder is where the cache ends.
Ready(c) ==
  IF Spawned(c) THEN Drained(c.decoder) \/ c.decoder.pos = Len(c.blocks) * BlockSize
                ELSE Len(c.blocks) = StashBlocks

\* An open that decodes the song itself, from the first block on.
Fresh(th) ==
  /\ th.op = "open"
  /\ th.pc \in Writing \/ (th.slot = 0 /\ th.pc \in Holding \cup {"header", "claim"})

FreshOK(th, c) ==
  /\ Spawned(c) /\ InBlocks(c.blocks, {c.song}, {c.decoder.ver})
  /\ Run(th.got, {c.song}, 0, {c.decoder.ver})

AtPlace(th) ==
  /\ th.op \in {"open", "read", "release"}
  /\ th.pc \in Holding \cup Upset \cup Writing \cup {"lock", "header", "claim"}
  /\ th.op = "open" => th.at = 0
  /\ th.op = "read" => th.pc \in Holding \cup {"lock"}
  /\ th.op = "release" => th.pc \in {"kill", "wait"}
  /\ th.pc = "lock" => th.op = "read"
  /\ th.pc \in {"lock", "lookup", "spawn"} => th.got = <<>>
  /\ th.pc \in {"spawn", "claim"} => th.slot = 0
  /\ th.pc \in {"lookup", "prefill"} \cup Writing => th.slot # 0
  /\ th.pc = "prefill" => Len(th.got) <= StashSize
  /\ th.pc \in {"header", "claim"} \cup Writing => Len(th.got) = StashSize
  /\ th.pc = "stash" => th.size \in 1 .. StashSize

StoreOK(th, c) ==
  /\ Spawned(c)
  /\ Run(th.block, {c.song}, Len(c.blocks) * BlockSize, {c.decoder.ver})
  /\ \/ Drained(c.decoder)
     \/ Len(th.block) = BlockSize /\ c.decoder.pos = (Len(c.blocks) + 1) * BlockSize

Doing(t, th, c) ==
  /\ th.h \in Handle /\ c.song \in Song
  /\ AtPlace(th)
  /\ Run(th.got, Sounds(th.h, c.song), th.at, Nat)
  /\ th.pc \in {"lookup", "spawn", "prefill"} => c.blocks = <<>> /\ c.decoder = NoDecoder
  /\ th.pc = "wait" => c.blocks = <<>>
  /\ th.pc = "skip" => Spawned(c) /\ c.decoder.pos = 0 /\ Len(c.blocks) = StashBlocks
  /\ th.pc = "store" => StoreOK(th, c)
  /\ Fresh(th) => FreshOK(th, c)

\* A stash one thread has written
Filled(s) ==
  \E v \in 0 .. Current(s.song) :
    /\ Run(s.data, {s.song}, 0, {v}) /\ Len(s.data) = StashSize
    /\ Since(s.song, v, s.created)

\* The stash that is copied into a file, and nothing has been mixed with
FromStash(th, c) ==
  LET s == stashes[th.slot]
  IN /\ th.slot \notin torn /\ ~Written(th.slot)
     /\ s.song = c.song /\ c.created < s.created + StashTime
     /\ th.got # <<>> => th.got[1] = s.data[1]

\* The stash a thread writes, when it is the only one
ToStash(th, c) ==
  LET s == stashes[th.slot]
  IN /\ th.pc \in {"name", "stash"} => s.created = c.created
     /\ th.pc = "stash" =>
          s.song = c.song /\ \A o \in 1 .. StashSize - th.size : s.data[o] = th.got[o]

TypesOK ==
  /\ time \in Nat
  /\ version \in [Song -> Seq(Nat)] /\ \A f \in Song : version[f] # <<>>
  /\ nextstash \in 1 .. NStashes
  /\ readmutex \in Thread \cup {Nobody}
  /\ thread \in [Thread -> Activity]
  /\ ctx \in [Handle -> Context]

FilesOK ==
  \A h \in Handle :
    /\ FileOK(h, ctx[h])
    /\ (\A t \in Thread : thread[t].h = h => thread[t].pc \notin Upset) =>
         ctx[h] = Closed \/ Ready(ctx[h])

ThreadsOK == \A t \in Thread : thread[t] = Idle \/ Doing(t, thread[t], ctx[thread[t].h])

\* Only reads share a file, and one of them at a time is at work.
Alone ==
  \A t, u \in Thread : t # u /\ thread[t].h = thread[u].h /\ thread[t].h \in Handle =>
    thread[t].op = "read"

Mutex ==
  \A t \in Thread : thread[t].op = "read" /\ thread[t].pc \in Holding => readmutex = t

\* The copies under way that nothing came between
UsesOK ==
  \A t \in Thread :
    LET th == thread[t]  c == ctx[th.h]
    IN /\ th.pc = "prefill" /\ th.h \notin mixed => FromStash(th, c)
       /\ th.pc \in Writing /\ th.slot \notin torn =>
            ToStash(th, c) /\ \A u \in Thread : Writes(u, th.slot) => u = t

\* Whoever writes a stash, each unit is of its place.
StashOK(s) ==
  /\ s = [song |-> s.song, data |-> s.data, created |-> s.created]
  /\ s.created \in Nat /\ s.created <= time
  /\ Run(s.data, AnySong, 0, Nat) /\ Len(s.data) = StashSize

StashesOK ==
  /\ DOMAIN stashes = 1 .. NStashes
  /\ \A i \in 1 .. NStashes :
       /\ StashOK(stashes[i])
       /\ i \notin torn /\ stashes[i].song \in Song /\ ~Written(i) => Filled(stashes[i])

Inv == TypesOK /\ FilesOK /\ ThreadsOK /\ Alone /\ Mutex /\ UsesOK /\ StashesOK
------------------------------------------------------------------------------
(* Lemmas about sequences of sound *)

LEMMA UnitFacts ==
  ASSUME NEW f \in Song, NEW v \in Nat, NEW o \in Nat
  PROVE  <<f, v, o>> \in Unit
<1>1. <<f, v, o>> \in Seq(Song \cup Nat \cup {"none", "size"}) OBVIOUS
<1>2. Len(<<f, v, o>>) = 3 OBVIOUS
<1> QED BY <1>1, <1>2 DEF Unit

LEMMA RunEmpty == ASSUME NEW F, NEW o, NEW V PROVE Run(<<>>, F, o, V)
BY DEF Run

LEMMA RunWider ==
  ASSUME NEW s, NEW F, NEW G, NEW o, NEW V, NEW W, Run(s, F, o, V), F \subseteq G, V \subseteq W
  PROVE  Run(s, G, o, W)
BY DEF Run

LEMMA BlocksWider ==
  ASSUME NEW bs, NEW F, NEW G, NEW V, NEW W, InBlocks(bs, F, V), F \subseteq G, V \subseteq W
  PROVE  InBlocks(bs, G, W)
BY RunWider DEF InBlocks

LEMMA SoundsHas ==
  ASSUME NEW h, NEW f \in Song
  PROVE  {f} \subseteq Sounds(h, f) /\ Sounds(h, f) \subseteq AnySong
BY DEF Sounds, AnySong

LEMMA SoundsGrow ==
  ASSUME NEW h, NEW f \in AnySong, h \in mixed => h \in mixed'
  PROVE  Sounds(h, f) \subseteq Sounds(h, f)'
BY DEF Sounds, AnySong

LEMMA SubSeqFacts ==
  ASSUME NEW S, NEW s \in Seq(S), NEW m \in Nat, NEW n \in Nat, m >= 1, m <= n + 1, n <= Len(s)
  PROVE  /\ SubSeq(s, m, n) \in Seq(S) /\ Len(SubSeq(s, m, n)) = n - m + 1
         /\ \A i \in 1 .. n - m + 1 : SubSeq(s, m, n)[i] = s[m + i - 1]
OBVIOUS

LEMMA RunPart ==
  ASSUME NEW s, NEW F, NEW o \in Nat, NEW V, Run(s, F, o, V),
         NEW m \in Nat, NEW n \in Nat, m >= 1, m <= n + 1, n <= Len(s)
  PROVE  Run(SubSeq(s, m, n), F, o + m - 1, V) /\ Len(SubSeq(s, m, n)) = n - m + 1
<1> DEFINE p == SubSeq(s, m, n)
<1>1. s \in Seq(Unit) BY DEF Run
<1>2. /\ p \in Seq(Unit) /\ Len(p) = n - m + 1
      /\ \A i \in 1 .. n - m + 1 : p[i] = s[m + i - 1]
  BY <1>1, SubSeqFacts
<1> HIDE DEF p
<1>3. ASSUME NEW i \in 1 .. Len(p)
      PROVE  p[i][1] \in F /\ p[i][2] \in V /\ p[i][3] = (o + m - 1) + i - 1
  <2>1. p[i] = s[m + i - 1] /\ m + i - 1 \in 1 .. Len(s) BY <1>1, <1>2
  <2>2. s[m + i - 1][3] = o + (m + i - 1) - 1 BY <2>1 DEF Run
  <2> QED BY <2>1, <2>2 DEF Run
<1>4. Run(p, F, o + m - 1, V) BY <1>2, <1>3 DEF Run
<1> QED BY <1>2, <1>4 DEF p

LEMMA RunJoined ==
  ASSUME NEW a, NEW b, NEW F, NEW o \in Nat, NEW V,
         Run(a, F, o, V), Run(b, F, o + Len(a), V)
  PROVE  Run(a \o b, F, o, V)
<1> DEFINE s == a \o b
<1>1. a \in Seq(Unit) /\ b \in Seq(Unit) BY DEF Run
<1>2. /\ s \in Seq(Unit) /\ Len(s) = Len(a) + Len(b)
      /\ \A i \in 1 .. Len(s) : s[i] = IF i <= Len(a) THEN a[i] ELSE b[i - Len(a)]
  BY <1>1
<1> HIDE DEF s
<1>3. ASSUME NEW i \in 1 .. Len(s)
      PROVE  s[i][1] \in F /\ s[i][2] \in V /\ s[i][3] = o + i - 1
  <2>1. CASE i <= Len(a)
    <3>1. i \in 1 .. Len(a) /\ s[i] = a[i] BY <1>1, <1>2, <2>1
    <3> QED BY <3>1 DEF Run
  <2>2. CASE ~(i <= Len(a))
    <3>1. i - Len(a) \in 1 .. Len(b) /\ s[i] = b[i - Len(a)] BY <1>1, <1>2, <2>2
    <3>2. s[i][3] = (o + Len(a)) + (i - Len(a)) - 1 BY <3>1 DEF Run
    <3>3. s[i][3] = o + i - 1 BY <1>1, <3>2
    <3> QED BY <3>1, <3>3 DEF Run
  <2> QED BY <2>1, <2>2
<1>4. Run(s, F, o, V) BY <1>2, <1>3 DEF Run
<1> QED BY <1>4 DEF s

\* What is read from a decoder's pipe.
LEMMA PieceFacts ==
  ASSUME UadefsAssumption, NEW c \in Context, c.song \in Song, Spawned(c), NEW n \in Nat,
         c.decoder.pos <= c.decoder.out, c.decoder.out <= Length[c.song]
  PROVE  /\ Run(Piece(c, n), {c.song}, c.decoder.pos, {c.decoder.ver})
         /\ Len(Piece(c, n)) = (IF c.decoder.pos + n <= c.decoder.out THEN n
                                ELSE c.decoder.out - c.decoder.pos)
         /\ Len(Piece(c, n)) \in Nat
<1> DEFINE d == c.decoder
           s == Stream(c.song, d.ver)
           last == IF d.pos + n <= d.out THEN d.pos + n ELSE d.out
<1>1. /\ d.pos \in Nat /\ d.out \in Nat /\ d.ver \in Nat /\ Length[c.song] \in Nat
      /\ d.pos <= d.out /\ d.out <= Length[c.song]
  BY DEF Context, Decoder, Spawned, UadefsAssumption
<1>2. Min({d.pos + n, d.out}) = last
  <2>1. last \in {d.pos + n, d.out} /\ \A y \in {d.pos + n, d.out} : last <= y BY <1>1
  <2>2. \A x \in {d.pos + n, d.out} : (\A y \in {d.pos + n, d.out} : x <= y) => x = last
    BY <1>1
  <2> QED BY <2>1, <2>2 DEF Min
<1>3. s \in Seq(Unit) /\ Len(s) = Length[c.song]
  <2>1. \A i \in 1 .. Length[c.song] : <<c.song, d.ver, i - 1>> \in Unit
    BY <1>1, UnitFacts
  <2> QED BY <1>1, <2>1 DEF Stream
<1>4. ASSUME NEW i \in 1 .. Len(s)
      PROVE  s[i][1] \in {c.song} /\ s[i][2] \in {d.ver} /\ s[i][3] = 0 + i - 1
  <2>1. s[i] = <<c.song, d.ver, i - 1>> BY <1>1, <1>3 DEF Stream
  <2> QED BY <2>1
<1>5. Run(s, {c.song}, 0, {d.ver}) BY <1>3, <1>4 DEF Run
<1>6. Piece(c, n) = SubSeq(s, d.pos + 1, last) BY <1>2 DEF Piece
<1> HIDE DEF s
<1>7. PICK p \in Nat, q \in Nat : p = d.pos /\ q = last BY <1>1
<1>8. p + 1 <= q + 1 /\ q <= Len(s) /\ p + 1 \in Nat /\ 0 \in Nat /\ p + 1 >= 1
  <2>1. PICK k \in Nat, l \in Nat, e \in Nat : k = d.out /\ l = Length[c.song] /\ e = Len(s)
    BY <1>1, <1>3
  <2>2. p <= k /\ k <= e /\ q = (IF p + n <= k THEN p + n ELSE k) BY <1>1, <1>3, <1>7, <2>1
  <2>3. p <= q /\ q <= e BY <2>2
  <2> QED BY <2>1, <2>3
<1>9. Run(SubSeq(s, p + 1, q), {c.song}, 0 + (p + 1) - 1, {d.ver})
      /\ Len(SubSeq(s, p + 1, q)) = q - (p + 1) + 1
  <2>1. PICK z \in Nat, m \in Nat : z = 0 /\ m = p + 1 OBVIOUS
  <2> PICK G, W : G = {c.song} /\ W = {d.ver} OBVIOUS
  <2>2. Run(s, G, z, W) /\ m >= 1 /\ m <= q + 1 /\ q <= Len(s) BY <1>5, <1>8, <2>1
  <2>3. Run(SubSeq(s, m, q), G, z + m - 1, W) /\ Len(SubSeq(s, m, q)) = q - m + 1
    BY <2>2, RunPart
  <2> QED BY <2>1, <2>3
<1>10. 0 + (p + 1) - 1 = p /\ q - (p + 1) + 1 = q - p BY <1>7
<1>11. Run(Piece(c, n), {c.song}, d.pos, {d.ver}) BY <1>6, <1>7, <1>9, <1>10
<1>12. Len(Piece(c, n)) = q - p BY <1>6, <1>7, <1>9, <1>10
<1>13. q - p = (IF d.pos + n <= d.out THEN n ELSE d.out - d.pos) BY <1>1, <1>7
<1> QED BY <1>8, <1>11, <1>12, <1>13

LEMMA MinOfTwo ==
  ASSUME NEW a \in Nat, NEW b \in Nat
  PROVE  /\ Min({a, b}) \in Nat /\ Min({a, b}) \in {a, b}
         /\ Min({a, b}) <= a /\ Min({a, b}) <= b
<1>1. PICK m \in {a, b} : \A y \in {a, b} : m <= y
  <2>1. CASE a <= b BY <2>1
  <2>2. CASE ~(a <= b) BY <2>2
  <2> QED BY <2>1, <2>2
<1>2. \A x \in {a, b} : (\A y \in {a, b} : x <= y) => x = m BY <1>1
<1>3. Min({a, b}) = m BY <1>1, <1>2 DEF Min
<1> QED BY <1>1, <1>3

LEMMA EmptySubSeq ==
  ASSUME NEW S, NEW s \in Seq(S), NEW m \in Nat, NEW n \in Nat, m > n
  PROVE  SubSeq(s, m, n) = <<>>
OBVIOUS
LEMMA BlockIndex ==
  ASSUME NEW B \in Nat \ {0}, NEW x \in Nat
  PROVE  /\ x \div B \in Nat /\ (x \div B) * B <= x /\ x < (x \div B) * B + B
         /\ (x \div B) * B \in Nat
OBVIOUS

\* What is read from the cache.
LEMMA CachedFacts ==
  ASSUME UadefsAssumption, NEW th \in Activity, NEW F, NEW V,
         InBlocks(ctx[th.h].blocks, F, V), Left(th) > 0, Index(th) < Len(ctx[th.h].blocks)
  PROVE  Run(Cached(th), F, Position(th), V)
<1> DEFINE bs == ctx[th.h].blocks
<1>1. PICK B \in Nat \ {0} : B = BlockSize BY DEF UadefsAssumption
<1>2. PICK x \in Nat : x = Position(th) BY DEF Activity, Position
<1>3. PICK k \in Nat : k = x \div B BY <1>1, <1>2, BlockIndex
<1>4. PICK y \in Nat : y = k * B /\ y <= x /\ x < y + B BY <1>1, <1>2, <1>3, BlockIndex
<1>5. Index(th) = k BY <1>1, <1>2, <1>3 DEF Index
<1>6. Lsb(th) = x - y BY <1>1, <1>2, <1>4, <1>5 DEF Lsb
<1>7. bs \in Seq(Seq(Unit)) /\ k + 1 \in 1 .. Len(bs) BY <1>5 DEF InBlocks
<1>8. PICK s \in Seq(Unit) : s = bs[k + 1] BY <1>7
<1>9. Run(s, F, y, V)
  <2>1. Run(bs[k + 1], F, ((k + 1) - 1) * BlockSize, V) BY <1>7 DEF InBlocks
  <2>2. ((k + 1) - 1) * BlockSize = y BY <1>1, <1>4
  <2> QED BY <1>8, <2>1, <2>2
<1>10. PICK n \in Nat : n = BSize(th) /\ n > 0
  <2>1. PICK l \in Nat : l = Left(th) /\ l > 0 BY DEF Activity, Left
  <2>2. PICK r \in Nat : r = B - (x - y) /\ r > 0 BY <1>1, <1>2, <1>4
  <2>3. BSize(th) = Min({r, l}) BY <1>1, <1>6, <2>1, <2>2 DEF BSize
  <2>4. Min({r, l}) \in {r, l} BY MinOfTwo
  <2> QED BY <2>1, <2>2, <2>3, <2>4
<1>11. PICK last \in Nat : last = Min({(x - y) + n, Len(s)})
  <2>1. (x - y) + n \in Nat /\ Len(s) \in Nat BY <1>2, <1>4, <1>10
  <2> QED BY <2>1, MinOfTwo
<1>12. Cached(th) = SubSeq(s, (x - y) + 1, last)
  BY <1>5, <1>6, <1>8, <1>10, <1>11 DEF Cached
<1>13. last <= (x - y) + n /\ last <= Len(s) /\ last \in {(x - y) + n, Len(s)}
  <2>1. (x - y) + n \in Nat /\ Len(s) \in Nat BY <1>2, <1>4, <1>10
  <2> QED BY <1>11, <2>1, MinOfTwo
<1>14. CASE (x - y) + 1 <= last + 1
  <2>1. PICK m \in Nat : m = (x - y) + 1 /\ m >= 1 /\ m <= last + 1 BY <1>2, <1>4, <1>14
  <2>2. Run(SubSeq(s, m, last), F, y + m - 1, V) BY <1>9, <1>13, <2>1, RunPart
  <2>3. y + m - 1 = x BY <1>2, <1>4, <2>1
  <2> QED BY <1>2, <1>12, <2>1, <2>2, <2>3
<1>15. CASE ~((x - y) + 1 <= last + 1)
  <2>1. SubSeq(s, (x - y) + 1, last) = <<>>
    <3>1. PICK m \in Nat : m = (x - y) + 1 /\ m > last BY <1>2, <1>4, <1>15
    <3>2. SubSeq(s, m, last) = <<>> BY <1>8, <3>1, EmptySubSeq
    <3> QED BY <3>1, <3>2
  <2> QED BY <1>12, <2>1, RunEmpty
<1> QED BY <1>14, <1>15

\* A block read after the last one.
LEMMA BlockAdded ==
  ASSUME UadefsAssumption, NEW bs, NEW b, NEW F, NEW V, InBlocks(bs, F, V),
         Run(b, F, Len(bs) * BlockSize, V)
  PROVE  /\ InBlocks(Append(bs, b), F, V) /\ Len(Append(bs, b)) = Len(bs) + 1
         /\ Append(bs, b)[1] = (IF bs = <<>> THEN b ELSE bs[1])
         /\ Append(bs, b) # <<>>
<1>1. bs \in Seq(Seq(Unit)) /\ b \in Seq(Unit) /\ Len(bs) \in Nat BY DEF InBlocks, Run
<1> DEFINE s == Append(bs, b)
<1>2. /\ s \in Seq(Seq(Unit)) /\ Len(s) = Len(bs) + 1 /\ s # <<>>
      /\ \A i \in 1 .. Len(bs) : s[i] = bs[i]
      /\ s[Len(bs) + 1] = b
  BY <1>1
<1>3. s[1] = (IF bs = <<>> THEN b ELSE bs[1]) BY <1>1, <1>2
<1> HIDE DEF s
<1>4. ASSUME NEW i \in 1 .. Len(s) PROVE Run(s[i], F, (i - 1) * BlockSize, V)
  <2>1. CASE i = Len(bs) + 1
    <3>1. i - 1 = Len(bs) BY <1>1, <2>1
    <3> QED BY <1>2, <2>1, <3>1
  <2>2. CASE i # Len(bs) + 1
    <3>1. i \in 1 .. Len(bs) BY <1>1, <1>2, <2>2
    <3> QED BY <1>2, <3>1 DEF InBlocks
  <2> QED BY <2>1, <2>2
<1>5. InBlocks(s, F, V) BY <1>2, <1>4 DEF InBlocks
<1> QED BY <1>2, <1>3, <1>5 DEF s

LEMMA Products ==
  ASSUME NEW B \in Nat, NEW b \in Nat, NEW n \in Nat, 1 <= b, b <= n
  PROVE  /\ (b - 1) * B \in Nat /\ b * B \in Nat /\ n * B \in Nat
         /\ b * B = (b - 1) * B + B /\ b * B <= n * B
<1>1. PICK k \in Nat : k = b - 1 OBVIOUS
<1>2. PICK j \in Nat : j = n - b OBVIOUS
<1>3. k * B \in Nat /\ b * B \in Nat /\ n * B \in Nat /\ j * B \in Nat OBVIOUS
<1>4. (k + 1) * B = k * B + B OBVIOUS
<1>5. (b + j) * B = b * B + j * B OBVIOUS
<1> QED BY <1>1, <1>2, <1>3, <1>4, <1>5

LEMMA StashSizeNat == ASSUME UadefsAssumption PROVE StashSize \in Nat \ {0}
<1>1. PICK a \in Nat, b \in Nat : a = StashBlocks /\ b = BlockSize /\ a >= 1 /\ b >= 1
  BY DEF UadefsAssumption
<1>2. PICK j \in Nat : a = j + 1 BY <1>1
<1>3. (j + 1) * b = j * b + b /\ j * b \in Nat OBVIOUS
<1> QED BY <1>1, <1>2, <1>3 DEF StashSize

\* A cache filled from a stash.
LEMMA PrefilledFacts ==
  ASSUME UadefsAssumption, NEW data, NEW F, NEW V, Run(data, F, 0, V), Len(data) = StashSize
  PROVE  /\ InBlocks(Blocks(data), F, V) /\ Len(Blocks(data)) = StashBlocks
         /\ Blocks(data) # <<>> /\ Blocks(data)[1] # <<>>
<1>0. PICK z \in Nat : z = 0 /\ Run(data, F, z, V) OBVIOUS
<1>1. PICK B \in Nat \ {0}, n \in Nat \ {0} : B = BlockSize /\ n = StashBlocks
  BY DEF UadefsAssumption
<1>2. data \in Seq(Unit) /\ Len(data) = n * B BY <1>1 DEF Run, StashSize
<1> DEFINE part(b) == SubSeq(data, (b - 1) * B + 1, b * B)
<1>3. ASSUME NEW b \in 1 .. n
      PROVE  Run(part(b), F, (b - 1) * B, V) /\ part(b) \in Seq(Unit) /\ Len(part(b)) = B
  <2>1. /\ (b - 1) * B \in Nat /\ b * B \in Nat
        /\ b * B = (b - 1) * B + B /\ b * B <= n * B
    BY <1>1, Products
  <2>2. PICK k \in Nat, l \in Nat : k = (b - 1) * B /\ l = b * B /\ l = k + B /\ l <= Len(data)
    BY <1>2, <2>1
  <2>3. PICK m \in Nat : m = k + 1 /\ m >= 1 /\ m <= l + 1 BY <1>1, <2>2
  <2>4. Run(SubSeq(data, m, l), F, z + m - 1, V) /\ Len(SubSeq(data, m, l)) = l - m + 1
    <3>1. m >= 1 /\ m <= l + 1 /\ l <= Len(data) BY <2>2, <2>3
    <3> QED BY <1>0, <3>1, RunPart
  <2>5. z + m - 1 = k /\ l - m + 1 = B BY <1>0, <1>1, <2>2, <2>3
  <2>6. Run(part(b), F, k, V) /\ Len(part(b)) = B BY <2>2, <2>3, <2>4, <2>5
  <2> QED BY <2>2, <2>6 DEF Run
<1> DEFINE s == Blocks(data)
<1>4. s = [b \in 1 .. n |-> part(b)] BY <1>1 DEF Blocks
<1> HIDE DEF part
<1>5. s \in Seq(Seq(Unit)) /\ Len(s) = n /\ \A b \in 1 .. n : s[b] = part(b)
  <2>1. \A b \in 1 .. n : part(b) \in Seq(Unit) BY <1>3
  <2> QED BY <1>1, <1>4, <2>1
<1> HIDE DEF s
<1>6. InBlocks(s, F, V) BY <1>1, <1>3, <1>5 DEF InBlocks
<1>7. s # <<>> /\ s[1] # <<>>
  <2>1. 1 \in 1 .. n BY <1>1
  <2>2. Len(s[1]) = B BY <1>3, <1>5, <2>1
  <2> QED BY <1>1, <1>5, <2>2
<1> QED BY <1>1, <1>5, <1>6, <1>7 DEF s

LEMMA FirstOfBlocks ==
  ASSUME UadefsAssumption, NEW data \in Seq(Unit), Len(data) = StashSize
  PROVE  Blocks(data)[1][1] = data[1]
<1>1. PICK B \in Nat \ {0}, n \in Nat \ {0} : B = BlockSize /\ n = StashBlocks
  BY DEF UadefsAssumption
<1>2. Len(data) = n * B /\ B <= n * B
  <2>1. PICK j \in Nat : n = j + 1 BY <1>1
  <2>2. (j + 1) * B = j * B + B /\ j * B \in Nat OBVIOUS
  <2> QED BY <1>1, <2>1, <2>2 DEF StashSize
<1>3. Blocks(data)[1] = SubSeq(data, (1 - 1) * B + 1, 1 * B) BY <1>1 DEF Blocks
<1>4. (1 - 1) * B + 1 = 1 /\ 1 * B = B BY <1>1
<1>5. Blocks(data)[1] = SubSeq(data, 1, B) BY <1>3, <1>4
<1>6. B <= Len(data) /\ 1 \in Nat /\ 1 >= 1 /\ 1 <= B + 1 BY <1>1, <1>2
<1>7. \A q \in 1 .. B - 1 + 1 : SubSeq(data, 1, B)[q] = data[1 + q - 1]
  BY <1>1, <1>6, SubSeqFacts
<1>8. 1 \in 1 .. B - 1 + 1 BY <1>1
<1> QED BY <1>5, <1>7, <1>8

\* A unit more.
LEMMA RunAdded ==
  ASSUME NEW s, NEW F, NEW o \in Nat, NEW V, Run(s, F, o, V),
         NEW u \in Unit, u[1] \in F, u[2] \in V, u[3] = o + Len(s)
  PROVE  /\ Run(Append(s, u), F, o, V) /\ Len(Append(s, u)) = Len(s) + 1
         /\ Append(s, u)[1] = (IF s = <<>> THEN u ELSE s[1])
<1>1. s \in Seq(Unit) /\ Len(s) \in Nat BY DEF Run
<1> DEFINE r == Append(s, u)
<1>2. /\ r \in Seq(Unit) /\ Len(r) = Len(s) + 1 /\ r[Len(s) + 1] = u
      /\ \A i \in 1 .. Len(s) : r[i] = s[i]
  BY <1>1
<1>3. r[1] = (IF s = <<>> THEN u ELSE s[1]) BY <1>1, <1>2
<1> HIDE DEF r
<1>4. ASSUME NEW i \in 1 .. Len(r)
      PROVE  r[i][1] \in F /\ r[i][2] \in V /\ r[i][3] = o + i - 1
  <2>1. CASE i = Len(s) + 1
    <3>1. o + Len(s) = o + i - 1 BY <1>1, <2>1
    <3> QED BY <1>2, <2>1, <3>1
  <2>2. CASE i # Len(s) + 1
    <3>1. i \in 1 .. Len(s) /\ r[i] = s[i] BY <1>1, <1>2, <2>2
    <3> QED BY <3>1 DEF Run
  <2> QED BY <2>1, <2>2
<1>5. Run(r, F, o, V) BY <1>2, <1>4 DEF Run
<1> QED BY <1>2, <1>3, <1>5 DEF r

LEMMA ReplacedFacts ==
  ASSUME NEW S, NEW s \in Seq(S), NEW i \in 1 .. Len(s), NEW x \in S,
         NEW r, r = [s EXCEPT ![i] = x]
  PROVE  /\ r \in Seq(S) /\ Len(r) = Len(s) /\ r[i] = x
         /\ \A j \in 1 .. Len(s) : j # i => r[j] = s[j]
OBVIOUS

\* The header's size is corrected.
LEMMA HeaderFacts ==
  ASSUME NEW bs, NEW F, NEW V, InBlocks(bs, F, V), bs # <<>>, bs[1] # <<>>,
         NEW ns, ns = [bs EXCEPT ![1] = [bs[1] EXCEPT ![1] = Append(bs[1][1], "size")]]
  PROVE  /\ InBlocks(ns, F, V) /\ Len(ns) = Len(bs) /\ ns # <<>>
         /\ ns[1] # <<>> /\ ns[1][1][2] = bs[1][1][2]
<1>1. bs \in Seq(Seq(Unit)) /\ 1 \in 1 .. Len(bs) BY DEF InBlocks
<1>2. PICK b \in Seq(Unit) : b = bs[1] BY <1>1
<1>3. 1 \in 1 .. Len(b) BY <1>2
<1>4. PICK u \in Unit : u = b[1] BY <1>3
<1>5. PICK x : x = Append(u, "size") OBVIOUS
<1>6. x \in Unit /\ x[1] = u[1] /\ x[2] = u[2] /\ x[3] = u[3]
  <2>1. u \in Seq(Song \cup Nat \cup {"none", "size"}) /\ Len(u) >= 3 /\ Len(u) \in Nat BY DEF Unit
  <2>2. x \in Seq(Song \cup Nat \cup {"none", "size"}) /\ Len(x) = Len(u) + 1
    BY <1>5, <2>1
  <2>3. \A i \in 1 .. Len(u) : x[i] = u[i] BY <1>5, <2>1
  <2>4. 1 \in 1 .. Len(u) /\ 2 \in 1 .. Len(u) /\ 3 \in 1 .. Len(u) BY <2>1
  <2>5. x[1] = u[1] /\ x[2] = u[2] /\ x[3] = u[3] BY <2>3, <2>4
  <2>6. x \in Unit BY <2>1, <2>2 DEF Unit
  <2> QED BY <2>5, <2>6
<1>7. PICK nb : nb = [b EXCEPT ![1] = x] OBVIOUS
<1>8. /\ nb \in Seq(Unit) /\ Len(nb) = Len(b) /\ nb[1] = x
      /\ \A i \in 1 .. Len(b) : i # 1 => nb[i] = b[i]
  BY <1>3, <1>6, <1>7, ReplacedFacts
<1>9. ns = [bs EXCEPT ![1] = nb] BY <1>2, <1>4, <1>5, <1>7
<1>10. /\ ns \in Seq(Seq(Unit)) /\ Len(ns) = Len(bs) /\ ns[1] = nb
       /\ \A i \in 1 .. Len(bs) : i # 1 => ns[i] = bs[i]
  <2>1. PICK T : T = Seq(Unit) OBVIOUS
  <2>2. bs \in Seq(T) /\ nb \in T BY <1>1, <1>8, <2>1
  <2>3. PICK j \in 1 .. Len(bs) : j = 1 BY <1>1
  <2>4. ns = [bs EXCEPT ![j] = nb] BY <1>9, <2>3
  <2>5. /\ ns \in Seq(T) /\ Len(ns) = Len(bs) /\ ns[j] = nb
        /\ \A i \in 1 .. Len(bs) : i # j => ns[i] = bs[i]
    BY ONLY <2>2, <2>4, ReplacedFacts, j \in 1 .. Len(bs)
  <2> QED BY <2>1, <2>3, <2>5
<1>11. Run(nb, F, (1 - 1) * BlockSize, V)
  <2>1. Run(b, F, (1 - 1) * BlockSize, V) BY <1>1, <1>2 DEF InBlocks
  <2>2. ASSUME NEW i \in 1 .. Len(nb)
        PROVE  nb[i][1] \in F /\ nb[i][2] \in V /\ nb[i][3] = (1 - 1) * BlockSize + i - 1
    <3>1. CASE i = 1
      <4>1. u[1] \in F /\ u[2] \in V /\ u[3] = (1 - 1) * BlockSize + 1 - 1
        BY <1>3, <1>4, <2>1 DEF Run
      <4> QED BY <1>6, <1>8, <3>1, <4>1
    <3>2. CASE i # 1
      <4>1. i \in 1 .. Len(b) /\ nb[i] = b[i] BY <1>8, <3>2
      <4> QED BY <2>1, <4>1 DEF Run
    <3> QED BY <3>1, <3>2
  <2> QED BY <1>8, <2>2 DEF Run
<1>12. ASSUME NEW i \in 1 .. Len(ns) PROVE Run(ns[i], F, (i - 1) * BlockSize, V)
  <2>1. CASE i = 1 BY <1>10, <1>11, <2>1
  <2>2. CASE i # 1 BY <1>10, <2>2 DEF InBlocks
  <2> QED BY <2>1, <2>2
<1>13. InBlocks(ns, F, V) BY <1>10, <1>12 DEF InBlocks
<1>14. ns[1] # <<>> /\ ns # <<>> BY <1>1, <1>3, <1>8, <1>10
<1>15. ns[1][1][2] = bs[1][1][2] BY <1>2, <1>4, <1>6, <1>8, <1>10
<1> QED BY <1>10, <1>13, <1>14, <1>15
------------------------------------------------------------------------------
(* Lemmas about versions *)

LEMMA VersionFacts ==
  ASSUME TypesOK, NEW f \in Song
  PROVE  /\ version[f] \in Seq(Nat) /\ Current(f) \in Nat /\ Len(version[f]) = Current(f) + 1
         /\ \A v \in 0 .. Current(f) : v # Current(f) => version[f][v + 2] \in Nat
BY DEF TypesOK, Current

LEMMA NewestSince ==
  ASSUME TypesOK, NEW f \in Song, NEW w
  PROVE  Since(f, Current(f), w)
BY VersionFacts DEF Since

LEMMA SinceLately ==
  ASSUME UadefsAssumption, TypesOK, NEW f \in Song, NEW v, NEW w \in Nat, NEW y \in Nat,
         Since(f, v, w), y < w + StashTime
  PROVE  Lately(f, v, y)
<1>1. StashTime \in Nat BY DEF UadefsAssumption
<1>2. CASE v = Current(f) BY <1>2 DEF Since, Lately
<1>3. CASE v # Current(f)
  <2>1. v \in 0 .. Current(f) /\ version[f][v + 2] >= w /\ version[f][v + 2] \in Nat
    BY <1>3, VersionFacts DEF Since
  <2>2. version[f][v + 2] > y - StashTime BY <1>1, <2>1
  <2> QED BY <2>1, <2>2 DEF Lately
<1> QED BY <1>2, <1>3

LEMMA VersionAdded ==
  ASSUME TypesOK, NEW g \in Song, version' = [version EXCEPT ![g] = Append(version[g], time)],
         NEW f \in Song
  PROVE  /\ version'[f] \in Seq(Nat) /\ version'[f] # <<>>
         /\ Current(f)' \in {Current(f), Current(f) + 1}
         /\ Current(f)' = Current(f) => version'[f] = version[f]
         /\ Current(f)' = Current(f) + 1 => version'[f][Current(f) + 2] = time
         /\ \A v \in 0 .. Current(f) : v # Current(f) => version'[f][v + 2] = version[f][v + 2]
<1>1. PICK s \in Seq(Nat) : s = version[f] BY DEF TypesOK
<1>2. time \in Nat BY DEF TypesOK
<1>3. version'[f] = (IF f = g THEN Append(s, time) ELSE s) BY <1>1 DEF TypesOK
<1>4. PICK n \in Nat : n = Len(s) BY <1>1
<1>5. n # 0 BY <1>1, <1>4 DEF TypesOK
<1>6. Current(f) = n - 1 BY <1>1, <1>4 DEF Current
<1>7. CASE f # g
  <2>1. version'[f] = s BY <1>3, <1>7
  <2>2. Current(f)' = n - 1 BY <1>4, <2>1 DEF Current
  <2>3. s # <<>> BY <1>4, <1>5
  <2>4. n - 1 # n - 1 + 1 BY <1>4
  <2> QED BY <1>1, <1>6, <2>1, <2>2, <2>3, <2>4
<1>8. CASE f = g
  <2>1. version'[f] = Append(s, time) BY <1>3, <1>8
  <2>2. /\ Append(s, time) \in Seq(Nat) /\ Len(Append(s, time)) = n + 1
        /\ \A i \in 1 .. n : Append(s, time)[i] = s[i]
        /\ Append(s, time)[n + 1] = time
        /\ Append(s, time) # <<>>
    BY <1>1, <1>2, <1>4
  <2>3. Current(f)' = n BY <1>4, <2>1, <2>2 DEF Current
  <2>4. n = (n - 1) + 1 /\ n + 1 = (n - 1) + 2 /\ n # n - 1 BY <1>4
  <2>5. \A v \in 0 .. n - 1 : v # n - 1 => v + 2 \in 1 .. n BY <1>4
  <2> QED BY <1>1, <1>6, <2>1, <2>2, <2>3, <2>4, <2>5
<1> QED BY <1>7, <1>8

LEMMA SinceStays ==
  ASSUME UadefsAssumption, TypesOK, NEW g \in Song,
         version' = [version EXCEPT ![g] = Append(version[g], time)],
         NEW f \in Song, NEW v, NEW w \in Nat, w <= time
  PROVE  /\ Since(f, v, w) => Since(f, v, w)'
         /\ Lately(f, v, w) => Lately(f, v, w)'
<1>1. Current(f) \in Nat /\ time \in Nat /\ StashTime \in Nat \ {0}
  BY VersionFacts DEF TypesOK, UadefsAssumption
<1>2. PICK n \in Nat, m \in Nat : n = Current(f) /\ m = Current(f)' /\ m \in {n, n + 1}
  <2>1. Current(f)' \in {Current(f), Current(f) + 1} BY VersionAdded
  <2> QED BY <1>1, <2>1
<1>3. CASE v = n
  <2>1. CASE m = n BY <1>2, <1>3, <2>1 DEF Since, Lately
  <2>2. CASE m = n + 1
    <3>1. version'[f][v + 2] = time BY <1>2, <1>3, <2>2, VersionAdded
    <3>2. v \in 0 .. m BY <1>2, <1>3
    <3>3. time >= w /\ time > w - StashTime BY <1>1
    <3> QED BY <1>2, <3>1, <3>2, <3>3 DEF Since, Lately
  <2> QED BY <1>2, <2>1, <2>2
<1>4. CASE v # n /\ v \in 0 .. n
  <2>1. version'[f][v + 2] = version[f][v + 2] BY <1>2, <1>4, VersionAdded
  <2>2. v \in 0 .. m BY <1>2, <1>4
  <2> QED BY <1>2, <1>4, <2>1, <2>2 DEF Since, Lately
<1>5. CASE v \notin 0 .. n BY <1>2, <1>5 DEF Since, Lately
<1> QED BY <1>2, <1>3, <1>4, <1>5
------------------------------------------------------------------------------
(* What a step leaves alone *)

LEMMA ThreadFacts ==
  ASSUME UadefsAssumption, Inv, NEW t \in Thread
  PROVE  /\ thread[t] \in Activity
         /\ thread[t].h = Nobody => thread[t] = Idle
         /\ thread[t].pc # "idle" => Doing(t, thread[t], ctx[thread[t].h])
         /\ thread[t].h \in Handle <=> thread[t].pc # "idle"
         /\ thread[t].op # "none" => thread[t].pc # "idle"
<1>1. thread[t] \in Activity BY DEF Inv, TypesOK
<1>2. CASE thread[t] = Idle
  <2>1. Nobody \notin Handle BY DEF UadefsAssumption
  <2> QED BY <1>1, <1>2, <2>1 DEF Idle
<1>3. CASE Doing(t, thread[t], ctx[thread[t].h])
  <2>1. thread[t].h \in Handle /\ thread[t].pc # "idle"
    BY <1>3 DEF Doing, AtPlace, Holding, Upset, Writing
  <2>2. thread[t].h # Nobody BY <2>1 DEF UadefsAssumption
  <2> QED BY <1>1, <1>3, <2>1, <2>2
<1> QED BY <1>2, <1>3 DEF Inv, ThreadsOK

\* Who else has the file of a thread at work waits for the mutex.
LEMMA OthersWait ==
  ASSUME UadefsAssumption, Inv, NEW t \in Thread, NEW u \in Thread, u # t,
         thread[t].pc # "idle", thread[t].pc # "lock", thread[u].h = thread[t].h
  PROVE  thread[u].pc = "lock" /\ thread[t].op = "read"
<1>1. thread[t].h \in Handle /\ thread[u].h \in Handle BY ThreadFacts
<1>2. thread[t].op = "read" /\ thread[u].op = "read" BY <1>1 DEF Inv, Alone
<1>3. Doing(t, thread[t], ctx[thread[t].h]) /\ Doing(u, thread[u], ctx[thread[u].h])
  BY <1>1, ThreadFacts
<1>4. /\ thread[t].pc \in Holding
      /\ thread[u].pc \in Holding \cup {"lock"}
  BY <1>2, <1>3 DEF Doing, AtPlace
<1>5. readmutex = t BY <1>2, <1>4 DEF Inv, Mutex
<1>6. thread[u].pc \notin Holding BY <1>2, <1>5 DEF Inv, Mutex
<1> QED BY <1>2, <1>4, <1>6


LEMMA FileStays ==
  ASSUME NEW h, NEW c, FileOK(h, c), UNCHANGED <<time, version>>, h \in mixed => h \in mixed'
  PROVE  FileOK(h, c)'
<1>1. c.song \in AnySong BY DEF FileOK, Context, AnySong
<1>2. InBlocks(c.blocks, Sounds(h, c.song)', Nat)
  <2>1. PICK F, G : F = Sounds(h, c.song) /\ G = Sounds(h, c.song)' OBVIOUS
  <2>2. F \subseteq G /\ InBlocks(c.blocks, F, Nat) BY <1>1, <2>1, SoundsGrow DEF FileOK
  <2> QED BY <2>1, <2>2, BlocksWider
<1> QED BY <1>2 DEF FileOK, Since, Lately, Current


LEMMA DoingStays ==
  ASSUME NEW t, NEW th, NEW c, Doing(t, th, c), th.h \in mixed => th.h \in mixed'
  PROVE  Doing(t, th, c)'
<1>1. c.song \in AnySong BY DEF Doing, AnySong
<1>2. Run(th.got, Sounds(th.h, c.song)', th.at, Nat)
  <2>1. PICK F, G : F = Sounds(th.h, c.song) /\ G = Sounds(th.h, c.song)' OBVIOUS
  <2>2. F \subseteq G /\ Run(th.got, F, th.at, Nat) BY <1>1, <2>1, SoundsGrow DEF Doing
  <2> QED BY <2>1, <2>2, RunWider
<1> QED BY <1>2 DEF Doing


LEMMA LockStays ==
  ASSUME NEW t, NEW th, NEW c, NEW k, Doing(t, th, c), th.pc = "lock", k.song = c.song
  PROVE  Doing(t, th, k)
<1>1. th.op = "read" BY DEF Doing, AtPlace
<1>2. ~Fresh(th) BY <1>1 DEF Fresh
<1> QED BY <1>2 DEF Doing


LEMMA FilledStays ==
  ASSUME NEW s, Filled(s), UNCHANGED version PROVE Filled(s)'
BY DEF Filled, Since, Current

(* A step of the thread that works on a file. *)
LEMMA Acts ==
  ASSUME UadefsAssumption, Inv,
         NEW t \in Thread, NEW h \in Handle, thread[t].h = h, thread[t].pc # "lock",
         NEW x \in Activity, thread' = [thread EXCEPT ![t] = x],
         NEW k \in Context, ctx' = [ctx EXCEPT ![h] = k],
         UNCHANGED <<time, version>>, nextstash' \in 1 .. NStashes,
         mixed \subseteq mixed', FileOK(h, k)', x.pc \notin Upset => k = Closed \/ Ready(k),
         x = Idle \/ (x.h = h /\ x.op = thread[t].op /\ Doing(t, x, k)'),
         k.song = ctx[h].song \/ thread[t].op # "read",
         readmutex' \in {readmutex, Nobody},
         readmutex' = readmutex \/ (readmutex = t /\ x.pc \notin Holding),
         UsesOK', StashesOK'
  PROVE  Inv'
<1> USE DEF Inv
<1>1. /\ thread[t].pc # "idle"
      /\ \A u \in Thread : u # t /\ thread[u].h = h => thread[u].pc = "lock" /\ thread[t].op = "read"
  BY ThreadFacts, OthersWait
<1>2. /\ thread' \in [Thread -> Activity] /\ ctx' \in [Handle -> Context]
      /\ thread'[t] = x /\ ctx'[h] = k
      /\ \A u \in Thread : u # t => thread'[u] = thread[u]
      /\ \A g \in Handle : g # h => ctx'[g] = ctx[g]
  BY DEF TypesOK
<1>3. x.h \in {h, Nobody} /\ (x # Idle => x.h = h /\ x.op = thread[t].op) BY DEF Idle
<1>4. Nobody \notin Handle BY DEF UadefsAssumption
<1>5. TypesOK' BY <1>2 DEF TypesOK
<1>6. FilesOK'
  <2> SUFFICES ASSUME NEW g \in Handle
               PROVE  /\ FileOK(g, ctx[g])'
                      /\ (\A u \in Thread : thread'[u].h = g => thread'[u].pc \notin Upset) =>
                           ctx'[g] = Closed \/ Ready(ctx'[g])
    BY DEF FilesOK, Ready, Spawned, Drained
  <2>1. CASE g = h
    <3>2. (\A u \in Thread : thread'[u].h = g => thread'[u].pc \notin Upset) /\ x # Idle =>
             k = Closed \/ Ready(k)
      BY <1>2, <1>3, <2>1
    <3>3. x = Idle => k = Closed \/ Ready(k) BY DEF Idle, Upset
    <3> QED BY <1>2, <2>1, <3>2, <3>3
  <2>2. CASE g # h
    <3>1. FileOK(g, ctx[g]) BY DEF FilesOK
    <3>2. FileOK(g, ctx[g])' /\ ctx'[g] = ctx[g]
      <4>1. PICK c : c = ctx[g] OBVIOUS
      <4>2. FileOK(g, c)' BY <3>1, <4>1, FileStays
      <4> QED BY <1>2, <2>2, <4>1, <4>2
    <3>3. ASSUME \A u \in Thread : thread'[u].h = g => thread'[u].pc \notin Upset,
                 NEW u \in Thread, thread[u].h = g
          PROVE  thread[u].pc \notin Upset
      BY <1>2, <2>2, <3>3
    <3> QED BY <1>2, <2>2, <3>2, <3>3 DEF FilesOK
  <2> QED BY <2>1, <2>2
<1>7. ThreadsOK'
  <2> SUFFICES ASSUME NEW u \in Thread
               PROVE  thread'[u] = Idle \/ Doing(u, thread[u], ctx[thread[u].h])'
    BY DEF ThreadsOK
  <2>1. CASE u = t BY <1>2, <2>1
  <2>2. CASE u # t /\ thread[u] # Idle
    <3>1. PICK th, c : th = thread[u] /\ c = ctx[thread[u].h] OBVIOUS
    <3>2. Doing(u, th, c) /\ th.h \in Handle BY <2>2, <3>1 DEF ThreadsOK, Doing
    <3>3. th.h \in mixed => th.h \in mixed' OBVIOUS
    <3>4. CASE th.h # h
      <4>1. Doing(u, th, c)' BY <3>2, <3>3, DoingStays
      <4> QED BY <1>2, <2>2, <3>1, <3>2, <3>4, <4>1
    <3>5. CASE th.h = h
      <4>1. th.pc = "lock" /\ k.song = c.song BY <1>1, <2>2, <3>1, <3>5
      <4>2. Doing(u, th, k) BY <3>2, <4>1, LockStays
      <4>3. Doing(u, th, k)' BY <3>3, <4>2, DoingStays
      <4> QED BY <1>2, <2>2, <3>1, <3>5, <4>3
    <3> QED BY <3>4, <3>5
  <2> QED BY <1>2, <2>1, <2>2
<1>8. Alone'
  <2> SUFFICES ASSUME NEW u \in Thread, NEW w \in Thread, u # w,
                      thread'[u].h = thread'[w].h, thread'[u].h \in Handle
               PROVE  thread'[u].op = "read"
    BY DEF Alone
  <2>1. CASE u = t
    <3>1. thread'[u].h = h /\ x # Idle BY <1>2, <1>3, <1>4, <2>1 DEF Idle
    <3>2. thread[t].op = "read" BY <1>1, <1>2, <2>1, <3>1
    <3> QED BY <1>2, <1>3, <2>1, <3>1, <3>2
  <2>2. CASE w = t
    <3>1. thread[u].h = h /\ u # t BY <1>2, <1>3, <1>4, <2>2
    <3> QED BY <1>2, <3>1 DEF Alone
  <2>3. CASE u # t /\ w # t BY <1>2, <2>3 DEF Alone
  <2> QED BY <2>1, <2>2, <2>3
<1>9. Mutex'
  <2> SUFFICES ASSUME NEW u \in Thread, thread'[u].op = "read", thread'[u].pc \in Holding
               PROVE  readmutex' = u
    BY DEF Mutex
  <2>1. CASE u = t
    <3>1. x.op = "read" /\ x.pc \in Holding BY <1>2, <2>1
    <3>2. x # Idle BY <3>1 DEF Idle
    <3>3. thread[t].op = "read" BY <1>3, <3>1, <3>2
    <3>4. thread[t].pc \in Holding
      <4>1. Doing(t, thread[t], ctx[thread[t].h]) BY <1>1, ThreadFacts
      <4> QED BY <3>3, <4>1 DEF Doing, AtPlace
    <3> QED BY <2>1, <3>1, <3>3, <3>4 DEF Mutex
  <2>2. CASE u # t
    <3>1. readmutex = u BY <1>2, <2>2 DEF Mutex
    <3> QED BY <2>2, <3>1
  <2> QED BY <2>1, <2>2
<1> QED BY <1>5, <1>6, <1>7, <1>8, <1>9

(* The stashes and the copies under way, when no stash is claimed or written. *)
LEMMA StashesStay ==
  ASSUME Inv, NEW t \in Thread, NEW x \in Activity, thread' = [thread EXCEPT ![t] = x],
         thread[t].pc \notin Writing, x.pc \notin Writing,
         UNCHANGED <<time, version, stashes, torn>>,
         \A u \in Thread : u # t /\ thread[u].pc \in Writing \cup {"prefill"} =>
           /\ ctx'[thread[u].h].song = ctx[thread[u].h].song
           /\ ctx'[thread[u].h].created = ctx[thread[u].h].created
           /\ thread[u].h \in mixed => thread[u].h \in mixed',
         x.pc = "prefill" /\ x.h \notin mixed' => FromStash(x, ctx'[x.h])
  PROVE  UsesOK' /\ StashesOK'
<1> USE DEF Inv
<1>1. thread'[t] = x /\ \A u \in Thread : u # t => thread'[u] = thread[u] BY DEF TypesOK
<1>2. \A i : \A u \in Thread : Writes(u, i)' <=> Writes(u, i) BY <1>1 DEF Writes
<1>3. \A i : Written(i)' <=> Written(i) BY <1>2 DEF Written
<1>4. ASSUME NEW u \in Thread, thread'[u].pc = "prefill", thread'[u].h \notin mixed'
      PROVE  FromStash(thread'[u], ctx'[thread'[u].h])
  <2>1. CASE u = t BY <1>1, <1>4, <2>1
  <2>2. CASE u # t
    <3>1. thread'[u] = thread[u] /\ thread[u].pc = "prefill" BY <1>1, <1>4, <2>2
    <3>2. FromStash(thread[u], ctx[thread[u].h]) BY <1>4, <2>2, <3>1 DEF UsesOK
    <3> QED BY <2>2, <3>1, <3>2 DEF FromStash
  <2> QED BY <2>1, <2>2
<1>5. ASSUME NEW u \in Thread, thread'[u].pc \in Writing, thread'[u].slot \notin torn
      PROVE  /\ ToStash(thread'[u], ctx'[thread'[u].h])
             /\ \A w \in Thread : Writes(w, thread'[u].slot) => w = u
  <2>1. u # t BY <1>1, <1>5
  <2>2. thread'[u] = thread[u] BY <1>1, <2>1
  <2>3. /\ ToStash(thread[u], ctx[thread[u].h])
        /\ \A w \in Thread : Writes(w, thread[u].slot) => w = u
    BY <1>5, <2>2 DEF UsesOK
  <2> QED BY <1>5, <2>1, <2>2, <2>3 DEF ToStash
<1>6. UsesOK'
  <2>1. ASSUME NEW th, NEW c, FromStash(th, c) PROVE FromStash(th, c)'
    BY <1>3, <2>1 DEF FromStash
  <2>2. ASSUME NEW th, NEW c, ToStash(th, c) PROVE ToStash(th, c)' BY <2>2 DEF ToStash
  <2>3. ASSUME NEW u \in Thread
        PROVE  /\ thread'[u].pc = "prefill" /\ thread'[u].h \notin mixed' =>
                    FromStash(thread[u], ctx[thread[u].h])'
               /\ thread'[u].pc \in Writing /\ thread'[u].slot \notin torn' =>
                    /\ ToStash(thread[u], ctx[thread[u].h])'
                    /\ \A w \in Thread : Writes(w, thread[u].slot)' => w = u
    <3>1. PICK th, c : th = thread'[u] /\ c = ctx'[thread'[u].h] OBVIOUS
    <3>2. FromStash(th, c) => FromStash(th, c)' BY <2>1
    <3>3. ToStash(th, c) => ToStash(th, c)' BY <2>2
    <3> QED BY <1>2, <1>4, <1>5, <3>1, <3>2, <3>3
  <2> QED BY <2>3 DEF UsesOK
<1>7. ASSUME NEW i \in 1 .. NStashes
      PROVE  /\ StashOK(stashes[i])'
             /\ i \notin torn /\ stashes[i].song \in Song /\ ~Written(i) => Filled(stashes[i])'
  <2>1. PICK s : s = stashes[i] OBVIOUS
  <2>2. StashOK(s) /\ (i \notin torn /\ s.song \in Song /\ ~Written(i) => Filled(s))
    BY <2>1 DEF StashesOK
  <2>3. StashOK(s)' BY <2>2 DEF StashOK
  <2>4. Filled(s) => Filled(s)' BY FilledStays
  <2> QED BY <2>1, <2>2, <2>3, <2>4
<1>8. StashesOK' BY <1>3, <1>7 DEF StashesOK
<1> QED BY <1>6, <1>8

(* The same, when thread t claims stash i or writes to it. *)
LEMMA StashWritten ==
  ASSUME Inv, NEW t \in Thread, NEW x \in Activity, thread' = [thread EXCEPT ![t] = x],
         NEW i \in 1 .. NStashes, NEW s, DOMAIN stashes' = 1 .. NStashes,
         \A j \in 1 .. NStashes : stashes'[j] = IF j = i THEN s ELSE stashes[j],
         thread[t].pc \in Writing => thread[t].slot = i,
         x.pc \in Writing => x.slot = i, x.pc # "prefill",
         UNCHANGED <<time, version, ctx>>, torn' \ {i} = torn \ {i}, mixed \subseteq mixed',
         \A u \in Thread : thread[u].pc = "prefill" /\ thread[u].slot = i => thread[u].h \in mixed',
         i \notin torn' => \A u \in Thread : u # t => ~Writes(u, i),
         i \notin torn' /\ x.pc \in Writing => ToStash(x, ctx[x.h])',
         StashOK(s), i \notin torn' /\ s.song \in Song /\ x.pc \notin Writing => Filled(s)
  PROVE  UsesOK' /\ StashesOK'
<1> USE DEF Inv
<1>1. thread'[t] = x /\ \A u \in Thread : u # t => thread'[u] = thread[u] BY DEF TypesOK
<1>2. /\ DOMAIN stashes' = 1 .. NStashes /\ stashes'[i] = s
      /\ \A j \in 1 .. NStashes : j # i => stashes'[j] = stashes[j]
  BY DEF StashesOK
<1>3. \A j : \A u \in Thread : j # i => (Writes(u, j)' <=> Writes(u, j)) BY <1>1 DEF Writes
<1>4. \A j : j # i => (Written(j)' <=> Written(j)) BY <1>3 DEF Written
<1>5. ASSUME NEW j, j # i PROVE j \in torn' <=> j \in torn BY <1>5
<1>6. ASSUME NEW u \in Thread, thread'[u].pc = "prefill", thread'[u].h \notin mixed'
      PROVE  FromStash(thread[u], ctx[thread[u].h])'
  <2>1. u # t /\ thread'[u] = thread[u] BY <1>1, <1>6
  <2>2. thread[u].slot # i BY <1>6, <2>1
  <2>3. PICK th, c : th = thread[u] /\ c = ctx[thread[u].h] OBVIOUS
  <2>4. FromStash(th, c) BY <1>6, <2>1, <2>3 DEF UsesOK
  <2>5. th.slot \in 1 .. NStashes
    <3>1. Doing(u, th, c) BY <1>6, <2>1, <2>3 DEF ThreadsOK, Idle
    <3> QED BY <1>6, <2>1, <2>3, <3>1 DEF Doing, AtPlace, TypesOK, Activity
  <2>6. FromStash(th, c)' BY <1>2, <1>4, <1>5, <2>2, <2>3, <2>4, <2>5 DEF FromStash
  <2> QED BY <2>1, <2>3, <2>6
<1>7. ASSUME NEW u \in Thread, thread'[u].pc \in Writing, thread'[u].slot \notin torn'
      PROVE  /\ ToStash(thread[u], ctx[thread[u].h])'
             /\ \A w \in Thread : Writes(w, thread[u].slot)' => w = u
  <2>1. CASE u = t
    <3>1. thread'[u].slot = i /\ i \notin torn' BY <1>1, <1>7, <2>1
    <3>2. PICK c : c = ctx[x.h] OBVIOUS
    <3>3. ToStash(x, c)' BY <1>1, <1>7, <2>1, <3>1, <3>2
    <3>4. \A w \in Thread : w # t => ~Writes(w, i)' BY <1>1, <3>1 DEF Writes
    <3> QED BY <1>1, <2>1, <3>1, <3>2, <3>3, <3>4
  <2>2. CASE u # t
    <3>1. PICK th, c : th = thread[u] /\ c = ctx[thread[u].h] OBVIOUS
    <3>2. thread'[u] = th BY <1>1, <2>2, <3>1
    <3>3. th.slot # i BY <1>7, <2>2, <3>1, <3>2 DEF Writes
    <3>4. ToStash(th, c) /\ \A w \in Thread : Writes(w, th.slot) => w = u
      BY <1>5, <1>7, <3>1, <3>2, <3>3 DEF UsesOK
    <3>5. th.slot \in 1 .. NStashes
      <4>1. Doing(u, th, c) BY <1>7, <3>1, <3>2 DEF ThreadsOK, Idle, Writing
      <4> QED BY <1>7, <3>1, <3>2, <4>1 DEF Doing, AtPlace, TypesOK, Activity
    <3>6. ToStash(th, c)' BY <1>2, <3>3, <3>4, <3>5 DEF ToStash
    <3> QED BY <1>3, <3>1, <3>2, <3>3, <3>4, <3>6
  <2> QED BY <2>1, <2>2
<1>8. UsesOK' BY <1>6, <1>7 DEF UsesOK
<1>9. ASSUME NEW j \in 1 .. NStashes
      PROVE  /\ StashOK(stashes[j])'
             /\ j \notin torn' /\ stashes'[j].song \in Song /\ ~Written(j)' => Filled(stashes[j])'
  <2>1. PICK q : q = stashes'[j] OBVIOUS
  <2>2. StashOK(q) BY <1>2, <2>1 DEF StashesOK
  <2>3. StashOK(q)' BY <2>2 DEF StashOK
  <2>4. ASSUME j \notin torn', q.song \in Song, ~Written(j)' PROVE Filled(q)
    <3>1. CASE j = i
      <4>1. x.pc \notin Writing BY <1>1, <2>4, <3>1 DEF Written, Writes
      <4> QED BY <1>2, <2>1, <2>4, <3>1, <4>1
    <3>2. CASE j # i BY <1>2, <1>4, <1>5, <2>1, <2>4, <3>2 DEF StashesOK
    <3> QED BY <3>1, <3>2
  <2>5. Filled(q) => Filled(q)' BY FilledStays
  <2> QED BY <2>1, <2>3, <2>4, <2>5
<1>10. StashesOK' BY <1>2, <1>9 DEF StashesOK
<1> QED BY <1>8, <1>10

LEMMA IdleFacts ==
  ASSUME UadefsAssumption PROVE Idle \in Activity /\ Idle.pc \notin Upset \cup Holding
<1>1. 0 \in 0 .. NStashes /\ <<>> \in Seq(Unit) BY DEF UadefsAssumption
<1> QED BY <1>1 DEF Idle, Activity, Upset, Holding

LEMMA AtRest ==
  ASSUME UadefsAssumption, Inv, NEW t \in Thread, thread[t].pc \notin Upset \cup {"idle", "lock"}
  PROVE  Ready(ctx[thread[t].h])
<1>1. thread[t].h \in Handle /\ Doing(t, thread[t], ctx[thread[t].h]) BY ThreadFacts
<1>2. \A u \in Thread : thread[u].h = thread[t].h => thread[u].pc \notin Upset
  BY OthersWait DEF Upset
<1>3. ctx[thread[t].h] # Closed BY <1>1 DEF Doing, Closed, UadefsAssumption
<1> QED BY <1>1, <1>2, <1>3 DEF Inv, FilesOK

\* What is known of the thread that takes a step, and of its file.
LEMMA WorkerFacts ==
  ASSUME UadefsAssumption, Inv, NEW t \in Thread, thread[t].pc # "idle"
  PROVE  /\ thread[t] \in Activity /\ thread[t].h \in Handle /\ ctx[thread[t].h] \in Context
         /\ Doing(t, thread[t], ctx[thread[t].h]) /\ FileOK(thread[t].h, ctx[thread[t].h])
BY ThreadFacts DEF Inv, TypesOK, FilesOK

LEMMA Copies ==
  ASSUME UadefsAssumption, Inv,
         NEW t \in Thread, NEW h \in Handle, thread[t].h = h, thread[t].pc \notin {"idle", "lock"} \cup Writing,
         NEW x \in Activity, thread' = [thread EXCEPT ![t] = x], x.pc \notin Writing,
         NEW k \in Context, ctx' = [ctx EXCEPT ![h] = k],
         UNCHANGED <<time, version, stashes, nextstash, torn>>, mixed \subseteq mixed',
         x.pc = "prefill" /\ x.h \notin mixed' => FromStash(x, k),
         FileOK(h, k)', x.pc \notin Upset => k = Closed \/ Ready(k),
         x = Idle \/ (x.h = h /\ x.op = thread[t].op /\ Doing(t, x, k)'),
         k.song = ctx[h].song \/ thread[t].op # "read",
         readmutex' \in {readmutex, Nobody},
         readmutex' = readmutex \/ (readmutex = t /\ x.pc \notin Holding)
  PROVE  Inv'
<1>2. ctx'[h] = k /\ \A g \in Handle : g # h => ctx'[g] = ctx[g]
  BY DEF Inv, TypesOK
<1>3. ASSUME NEW u \in Thread, u # t, thread[u].pc \in Writing \cup {"prefill"}
      PROVE  /\ ctx'[thread[u].h] = ctx[thread[u].h]
             /\ thread[u].h \in mixed => thread[u].h \in mixed'
  <2>1. thread[u].pc \notin {"idle", "lock"} BY <1>3 DEF Writing
  <2>2. thread[u].h \in Handle BY <2>1, ThreadFacts
  <2>3. thread[u].h # h BY <1>3, <2>1, OthersWait
  <2> QED BY <1>2, <2>2, <2>3
<1>4. x.pc = "prefill" /\ x.h \notin mixed' => FromStash(x, ctx'[x.h])
  BY <1>2 DEF Idle
<1>5. UsesOK' /\ StashesOK'
  <2>1. thread[t].pc \notin Writing OBVIOUS
  <2> QED BY <1>3, <1>4, <2>1, StashesStay
<1>6. nextstash' \in 1 .. NStashes BY DEF Inv, TypesOK
<1> QED BY <1>5, <1>6, Acts

\* A step that copies no stash.
LEMMA Works ==
  ASSUME UadefsAssumption, Inv,
         NEW t \in Thread, thread[t].pc \notin {"idle", "lock"} \cup Writing,
         NEW x \in Activity, thread' = [thread EXCEPT ![t] = x],
         x.pc \notin Writing \cup {"prefill"},
         NEW k \in Context, ctx' = [ctx EXCEPT ![thread[t].h] = k],
         UNCHANGED <<time, version, stashes, nextstash, torn, mixed>>,
         FileOK(thread[t].h, k), x.pc \notin Upset => k = Closed \/ Ready(k),
         x = Idle \/ (x.h = thread[t].h /\ x.op = thread[t].op /\ Doing(t, x, k)),
         k.song = ctx[thread[t].h].song \/ thread[t].op # "read",
         readmutex' \in {readmutex, Nobody},
         readmutex' = readmutex \/ (readmutex = t /\ x.pc \notin Holding)
  PROVE  Inv'
<1>1. PICK h \in Handle : h = thread[t].h BY WorkerFacts
<1>2. FileOK(h, k)' BY <1>1, FileStays
<1>3. x = Idle \/ Doing(t, x, k)' BY DoingStays
<1> QED BY <1>1, <1>2, <1>3, Copies


\* A step that leaves the file alone.
LEMMA Moves ==
  ASSUME UadefsAssumption, Inv,
         NEW t \in Thread, thread[t].pc \notin {"idle", "lock"} \cup Writing,
         NEW x \in Activity, thread' = [thread EXCEPT ![t] = x],
         x.pc \notin Writing \cup {"prefill"},
         UNCHANGED <<time, version, stashes, nextstash, ctx, torn, mixed>>,
         x.pc \notin Upset => Ready(ctx[thread[t].h]),
         x = Idle \/ (x.h = thread[t].h /\ x.op = thread[t].op /\ Doing(t, x, ctx[thread[t].h])),
         readmutex' \in {readmutex, Nobody},
         readmutex' = readmutex \/ (readmutex = t /\ x.pc \notin Holding)
  PROVE  Inv'
<1>1. PICK k \in Context : k = ctx[thread[t].h] /\ FileOK(thread[t].h, k) BY WorkerFacts
<1>2. ctx' = [ctx EXCEPT ![thread[t].h] = k] BY <1>1 DEF Inv, TypesOK
<1> QED BY <1>1, <1>2, Works
------------------------------------------------------------------------------
(* The steps of opening *)

LEMMA OpenLookupKeeps ==
  ASSUME UadefsAssumption, Inv, NEW t \in Thread, OpenLookup(t)
  PROVE  Inv'
<1>1. thread[t].pc = "lookup" BY DEF OpenLookup
<1>2. PICK th \in Activity, c \in Context, h \in Handle :
        /\ th = thread[t] /\ th.h = h /\ c = ctx[h]
        /\ Doing(t, th, c) /\ FileOK(h, c) /\ th.pc = "lookup"
  BY <1>1, WorkerFacts
<1>3. /\ c.blocks = <<>> /\ c.decoder = NoDecoder /\ c.song \in Song
      /\ th.got = <<>> /\ th.op = "open" /\ th.at = 0
  BY <1>2 DEF Doing, AtPlace, Upset, Holding, Writing
<1>4. PICK i \in 1 .. NStashes : i = th.slot /\ i # 0
  <2>1. th.slot # 0 BY <1>2 DEF Doing, AtPlace
  <2> QED BY <2>1 DEF Activity, UadefsAssumption
<1>5. UNCHANGED <<time, version, stashes, nextstash, ctx, readmutex, torn>> /\ mixed \subseteq mixed'
  BY DEF OpenLookup
<1>6. ctx' = [ctx EXCEPT ![h] = c] BY <1>2, <1>5 DEF Inv, TypesOK
<1> DEFINE Goes(x) ==
      /\ thread' = [thread EXCEPT ![t] = x]
      /\ x.h = h /\ x.op = "open" /\ x.at = 0 /\ x.got = <<>>
      /\ x.pc \in {"lookup", "spawn", "prefill"}
      /\ x.pc = "spawn" => x.slot = 0
      /\ x.pc # "spawn" => x.slot # 0
      /\ x.pc = "prefill" /\ h \notin mixed' => FromStash(x, c)
<1>7. PICK x \in Activity : Goes(x)
  <2>1. CASE /\ check_stash(stashes[i], c)
             /\ thread' = [thread EXCEPT ![t].pc = "prefill"]
             /\ mixed' = IF i \in torn \/ Written(i) THEN mixed \cup {h} ELSE mixed
    <3>1. PICK x : x = [th EXCEPT !.pc = "prefill"] OBVIOUS
    <3>2. /\ x \in Activity /\ x.h = h /\ x.op = "open" /\ x.at = 0 /\ x.got = <<>>
          /\ x.pc = "prefill" /\ x.slot = i
      BY <1>2, <1>3, <1>4, <3>1 DEF Activity, Upset
    <3>3. thread' = [thread EXCEPT ![t] = x] BY <1>2, <2>1, <3>1 DEF Inv, TypesOK
    <3>4. h \notin mixed' => FromStash(x, c) BY <2>1, <3>2 DEF FromStash, check_stash
    <3> QED BY <1>4, <3>2, <3>3, <3>4
  <2>2. CASE i < NStashes /\ thread' = [thread EXCEPT ![t].slot = @ + 1]
    <3>1. PICK x : x = [th EXCEPT !.slot = i + 1] OBVIOUS
    <3>2. i + 1 \in 0 .. NStashes /\ i + 1 # 0 BY <2>2 DEF UadefsAssumption
    <3>3. /\ x \in Activity /\ x.h = h /\ x.op = "open" /\ x.at = 0 /\ x.got = <<>>
          /\ x.pc = "lookup" /\ x.slot # 0
      BY <1>2, <1>3, <3>1, <3>2 DEF Activity
    <3>4. thread' = [thread EXCEPT ![t] = x] BY <1>2, <1>4, <2>2, <3>1 DEF Inv, TypesOK
    <3> QED BY <3>3, <3>4
  <2>3. CASE thread' = [thread EXCEPT ![t].pc = "spawn", ![t].slot = 0]
    <3>1. PICK x : x = [th EXCEPT !.pc = "spawn", !.slot = 0] OBVIOUS
    <3>2. 0 \in 0 .. NStashes BY DEF UadefsAssumption
    <3>3. /\ x \in Activity /\ x.h = h /\ x.op = "open" /\ x.at = 0 /\ x.got = <<>>
          /\ x.pc = "spawn" /\ x.slot = 0
      BY <1>2, <1>3, <3>1, <3>2 DEF Activity, Upset
    <3>4. thread' = [thread EXCEPT ![t] = x] BY <1>2, <2>3, <3>1 DEF Inv, TypesOK
    <3> QED BY <3>3, <3>4
  <2> QED BY <1>2, <1>4, <2>1, <2>2, <2>3 DEF OpenLookup, GoTo
<1>8. Doing(t, x, c)
  <2>1. Run(x.got, Sounds(x.h, c.song), x.at, Nat) BY <1>7, RunEmpty
  <2>2. ~Fresh(x) BY <1>7 DEF Fresh, Holding, Writing
  <2>3. Len(x.got) <= StashSize BY <1>7, StashSizeNat
  <2>4. AtPlace(x) BY <1>7, <2>3 DEF AtPlace, Upset, Holding, Writing
  <2> QED BY <1>3, <1>7, <2>1, <2>2, <2>4 DEF Doing
<1>9. Doing(t, x, c)' /\ FileOK(h, c)' BY <1>2, <1>5, <1>8, DoingStays, FileStays
<1>10. x.pc \in Upset /\ x.pc \notin Writing BY <1>7 DEF Upset, Writing
<1>11. thread[t].pc \notin {"idle", "lock"} \cup Writing BY <1>1 DEF Writing
<1> HIDE DEF Goes
<1>12. /\ thread' = [thread EXCEPT ![t] = x] /\ x.h = h /\ x.op = thread[t].op
       /\ x.pc = "prefill" /\ x.h \notin mixed' => FromStash(x, c)
  BY <1>2, <1>3, <1>7 DEF Goes
<1> QED BY <1>2, <1>5, <1>6, <1>9, <1>10, <1>11, <1>12, Copies


LEMMA OpenPrefillKeeps ==
  ASSUME UadefsAssumption, Inv, NEW t \in Thread, OpenPrefill(t)
  PROVE  Inv'
<1>1. thread[t].pc = "prefill" /\ Len(thread[t].got) < StashSize BY DEF OpenPrefill
<1>2. PICK th \in Activity, c \in Context, h \in Handle :
        /\ th = thread[t] /\ th.h = h /\ c = ctx[h]
        /\ Doing(t, th, c) /\ FileOK(h, c) /\ th.pc = "prefill"
  BY <1>1, WorkerFacts
<1>3. /\ c.blocks = <<>> /\ c.decoder = NoDecoder /\ c.song \in Song
      /\ th.op = "open" /\ th.at = 0 /\ Run(th.got, Sounds(h, c.song), 0, Nat)
  BY <1>2 DEF Doing, AtPlace, Upset, Holding, Writing
<1>4. PICK i \in 1 .. NStashes : i = th.slot
  <2>1. th.slot # 0 BY <1>2 DEF Doing, AtPlace
  <2> QED BY <2>1 DEF Activity, UadefsAssumption
<1>5. PICK s : s = stashes[i] /\ StashOK(s) BY DEF Inv, StashesOK
<1>6. PICK n \in Nat : n = Len(th.got) /\ n < StashSize BY <1>1, <1>2, <1>3 DEF Run
<1>7. /\ n + 1 \in 1 .. Len(s.data) /\ s.data \in Seq(Unit)
      /\ Run(s.data, AnySong, 0, Nat)
  BY <1>5, <1>6, StashSizeNat DEF StashOK, Run
<1>8. PICK u \in Unit : u = s.data[n + 1] BY <1>7
<1>9. u[1] \in AnySong /\ u[2] \in Nat /\ u[3] = 0 + n
  <2>1. u[3] = 0 + (n + 1) - 1 BY <1>7, <1>8 DEF Run
  <2> QED BY <1>7, <1>8, <2>1 DEF Run
<1>10. ASSUME h \notin mixed
       PROVE  FromStash(th, c) /\ u[1] = c.song
  <2>1. FromStash(th, c) BY <1>2, <1>10 DEF Inv, UsesOK
  <2>2. Filled(s) /\ s.song = c.song
    BY <1>3, <1>4, <1>5, <2>1 DEF FromStash, Inv, StashesOK
  <2>3. PICK v : Run(s.data, {c.song}, 0, {v}) BY <2>2 DEF Filled
  <2>4. s.data[n + 1][1] \in {c.song} BY <1>7, <2>3 DEF Run
  <2> QED BY <1>8, <2>1, <2>4
<1>11. u[1] \in Sounds(h, c.song) BY <1>9, <1>10 DEF Sounds
<1>12. PICK got : got = Append(th.got, u) OBVIOUS
<1>13. /\ Run(got, Sounds(h, c.song), 0, Nat) /\ Len(got) = n + 1
       /\ got[1] = (IF th.got = <<>> THEN u ELSE th.got[1])
  <2>1. PICK F : F = Sounds(h, c.song) OBVIOUS
  <2> PICK z \in Nat : z = 0 OBVIOUS
  <2>2. Run(th.got, F, z, Nat) /\ u[1] \in F /\ u[2] \in Nat /\ u[3] = z + Len(th.got)
    BY <1>3, <1>6, <1>9, <1>11, <2>1
  <2>3. /\ Run(got, F, z, Nat) /\ Len(got) = Len(th.got) + 1
        /\ got[1] = (IF th.got = <<>> THEN u ELSE th.got[1])
    BY <1>12, <2>2, RunAdded
  <2> QED BY <1>6, <2>1, <2>3
<1>14. PICK x : x = [th EXCEPT !.got = got] OBVIOUS
<1>15. /\ x \in Activity /\ x.h = h /\ x.op = "open" /\ x.at = 0 /\ x.got = got
       /\ x.pc = "prefill" /\ x.slot = i
  BY <1>2, <1>3, <1>4, <1>13, <1>14 DEF Activity, Run
<1>16. thread' = [thread EXCEPT ![t] = x]
  BY <1>2, <1>4, <1>5, <1>6, <1>8, <1>12, <1>14 DEF OpenPrefill, Inv, TypesOK
<1>17. Doing(t, x, c)
  <2>1. ~Fresh(x) BY <1>15 DEF Fresh, Holding, Writing
  <2>2. Len(x.got) <= StashSize BY <1>6, <1>13, <1>15, StashSizeNat
  <2>3. AtPlace(x) BY <1>15, <2>2 DEF AtPlace, Upset, Holding, Writing
  <2> QED BY <1>3, <1>13, <1>15, <2>1, <2>3 DEF Doing
<1>18. ASSUME h \notin mixed PROVE FromStash(x, c)
  <2>1. FromStash(th, c) BY <1>10, <1>18
  <2>2. x.got[1] = s.data[1]
    <3>1. CASE th.got = <<>> BY <1>6, <1>8, <1>13, <1>15, <3>1
    <3>2. CASE th.got # <<>> BY <1>4, <1>5, <1>13, <1>15, <2>1, <3>2 DEF FromStash
    <3> QED BY <3>1, <3>2
  <2> QED BY <1>4, <1>5, <1>15, <2>1, <2>2 DEF FromStash
<1>19. UNCHANGED <<time, version, stashes, nextstash, ctx, readmutex, torn, mixed>>
  BY DEF OpenPrefill
<1>20. ctx' = [ctx EXCEPT ![h] = c] BY <1>2, <1>19 DEF Inv, TypesOK
<1>21. Doing(t, x, c)' /\ FileOK(h, c)' BY <1>2, <1>17, <1>19, DoingStays, FileStays
<1>22. x.pc \in Upset /\ x.pc \notin Writing BY <1>15 DEF Upset, Writing
<1>23. thread[t].pc \notin {"idle", "lock"} \cup Writing BY <1>1 DEF Writing
<1>24. mixed \subseteq mixed' /\ (x.pc = "prefill" /\ x.h \notin mixed' => FromStash(x, c))
  BY <1>15, <1>18, <1>19
<1> QED BY <1>2, <1>3, <1>15, <1>16, <1>19, <1>20, <1>21, <1>22, <1>23, <1>24, Copies

LEMMA OpenPrefilledKeeps ==
  ASSUME UadefsAssumption, Inv, NEW t \in Thread, OpenPrefilled(t)
  PROVE  Inv'
<1>1. thread[t].pc = "prefill" /\ Len(thread[t].got) = StashSize BY DEF OpenPrefilled
<1>2. PICK th \in Activity, c \in Context, h \in Handle :
        /\ th = thread[t] /\ th.h = h /\ c = ctx[h]
        /\ Doing(t, th, c) /\ FileOK(h, c) /\ th.pc = "prefill"
  BY <1>1, WorkerFacts
<1>3. /\ c.blocks = <<>> /\ c.decoder = NoDecoder /\ c.song \in Song
      /\ th.op = "open" /\ th.at = 0 /\ Run(th.got, Sounds(h, c.song), 0, Nat)
      /\ Len(th.got) = StashSize
  BY <1>1, <1>2 DEF Doing, AtPlace, Upset, Holding, Writing
<1>4. PICK i \in 1 .. NStashes : i = th.slot
  <2>1. th.slot # 0 BY <1>2 DEF Doing, AtPlace
  <2> QED BY <2>1 DEF Activity, UadefsAssumption
<1>5. PICK bs : bs = Blocks(th.got) OBVIOUS
<1>6. /\ InBlocks(bs, Sounds(h, c.song), Nat) /\ Len(bs) = StashBlocks
      /\ bs # <<>> /\ bs[1] # <<>>
  <2>1. PICK F, V : F = Sounds(h, c.song) /\ V = Nat OBVIOUS
  <2>2. Run(th.got, F, 0, V) BY <1>3, <2>1
  <2> QED BY <1>3, <1>5, <2>1, <2>2, PrefilledFacts
<1>7. bs[1][1] = th.got[1] BY <1>3, <1>5, FirstOfBlocks DEF Run
<1>8. ASSUME h \notin mixed PROVE Lately(c.song, bs[1][1][2], c.created)
  <2>1. FromStash(th, c) BY <1>2, <1>8 DEF Inv, UsesOK
  <2>2. PICK s : s = stashes[i] /\ StashOK(s) BY DEF Inv, StashesOK
  <2>3. Filled(s) /\ s.song = c.song /\ c.created < s.created + StashTime
    BY <1>3, <1>4, <2>1, <2>2 DEF FromStash, Inv, StashesOK
  <2>4. PICK v : /\ Run(s.data, {c.song}, 0, {v}) /\ Len(s.data) = StashSize
                 /\ Since(c.song, v, s.created)
    BY <2>3 DEF Filled
  <2>5. th.got # <<>> /\ 1 \in 1 .. Len(s.data) BY <1>3, <2>4, StashSizeNat
  <2>6. bs[1][1][2] = v
    <3>1. th.got[1] = s.data[1] BY <1>4, <2>1, <2>2, <2>5 DEF FromStash
    <3> QED BY <1>7, <2>4, <2>5, <3>1 DEF Run
  <2>7. c.created \in Nat /\ s.created \in Nat BY <2>2 DEF Context, StashOK
  <2> QED BY <1>3, <2>3, <2>4, <2>6, <2>7, SinceLately DEF Inv
<1>9. PICK k : k = [c EXCEPT !.blocks = bs] OBVIOUS
<1>10. /\ k \in Context /\ k.song = c.song /\ k.blocks = bs
       /\ k.decoder = NoDecoder /\ k.created = c.created
  BY <1>3, <1>6, <1>9 DEF Context, InBlocks
<1>11. ~Spawned(k) /\ ~k.decoder.alive BY <1>10 DEF Spawned, NoDecoder
<1>12. FileOK(h, k) BY <1>2, <1>3, <1>6, <1>8, <1>10, <1>11 DEF FileOK
<1>13. Ready(k) BY <1>6, <1>10, <1>11 DEF Ready
<1>14. ctx' = [ctx EXCEPT ![thread[t].h] = k]
  BY <1>2, <1>5, <1>9 DEF OpenPrefilled, Inv, TypesOK
<1>15. PICK x : x = [th EXCEPT !.pc = "read", !.at = 0, !.size = StashSize, !.got = <<>>] OBVIOUS
<1>16. thread' = [thread EXCEPT ![t] = x]
  BY <1>2, <1>15 DEF OpenPrefilled, Warm, Inv, TypesOK
<1>17. /\ x \in Activity /\ x.h = h /\ x.op = "open" /\ x.at = 0 /\ x.got = <<>>
       /\ x.pc = "read" /\ x.slot # 0
  <2>1. <<>> \in Seq(Unit) /\ th.slot # 0 /\ 0 \in Nat /\ StashSize \in Nat
    BY <1>4, StashSizeNat
  <2> QED BY <1>2, <1>3, <1>15, <2>1 DEF Activity, Holding
<1>18. Doing(t, x, k)
  <2>1. Run(x.got, Sounds(x.h, k.song), x.at, Nat) BY <1>17, RunEmpty
  <2>2. ~Fresh(x) BY <1>17 DEF Fresh, Writing
  <2>3. AtPlace(x) BY <1>17 DEF AtPlace, Upset, Holding, Writing
  <2> QED BY <1>3, <1>10, <1>17, <2>1, <2>2, <2>3 DEF Doing
<1>19. UNCHANGED <<time, version, stashes, nextstash, readmutex, torn, mixed>>
  BY DEF OpenPrefilled
<1>20. /\ thread[t].pc \notin {"idle", "lock"} \cup Writing
       /\ x.pc \notin Writing \cup {"prefill"}
  BY <1>1, <1>17 DEF Writing
<1> QED BY <1>2, <1>3, <1>10, <1>12, <1>13, <1>14, <1>16, <1>17, <1>18, <1>19, <1>20, Works


\* A new decoder is of the version that is current.
LEMMA SpawnFacts ==
  ASSUME UadefsAssumption, Inv, NEW h \in Handle, ctx[h].song \in Song, Spawn(h)
  PROVE  \E k \in Context :
           /\ ctx' = [ctx EXCEPT ![h] = k]
           /\ k.song = ctx[h].song /\ k.blocks = ctx[h].blocks /\ Spawned(k)
           /\ k.decoder.pos = 0 /\ FileOK(h, k)
<1>1. PICK c \in Context : c = ctx[h] /\ c.song \in Song /\ FileOK(h, c)
  BY DEF Inv, TypesOK, FilesOK
<1>2. PICK v \in Nat : v = Current(c.song) BY <1>1, VersionFacts DEF Inv
<1>3. PICK d : d = [NoDecoder EXCEPT !.alive = TRUE, !.ver = v] OBVIOUS
<1>4. d \in Decoder /\ d.ver = v /\ d.pos = 0 /\ d.out = 0
  BY <1>3 DEF Decoder, NoDecoder
<1>5. PICK k : k = [c EXCEPT !.decoder = d] OBVIOUS
<1>6. /\ k \in Context /\ k.song = c.song /\ k.blocks = c.blocks
      /\ k.decoder = d /\ k.created = c.created
  BY <1>4, <1>5 DEF Context
<1>7. ctx' = [ctx EXCEPT ![h] = k]
  BY <1>1, <1>2, <1>3, <1>5 DEF Spawn, Inv, TypesOK
<1>8. Spawned(k) BY <1>4, <1>6 DEF Spawned
<1>9. FileOK(h, k)
  <2>1. Since(k.song, k.decoder.ver, k.created)
    BY <1>1, <1>2, <1>4, <1>6, NewestSince DEF Inv
  <2>2. Length[k.song] \in Nat BY <1>1, <1>6 DEF UadefsAssumption
  <2> QED BY <1>1, <1>4, <1>6, <1>8, <2>1, <2>2 DEF FileOK
<1> QED BY <1>1, <1>4, <1>6, <1>7, <1>8, <1>9

LEMMA OpenSpawnKeeps ==
  ASSUME UadefsAssumption, Inv, NEW t \in Thread, OpenSpawn(t)
  PROVE  Inv'
<1>1. thread[t].pc = "spawn" BY DEF OpenSpawn
<1>2. PICK th \in Activity, c \in Context :
        /\ th = thread[t] /\ th.h \in Handle /\ c = ctx[th.h]
        /\ Doing(t, th, c) /\ FileOK(th.h, c) /\ th.pc = "spawn"
  BY <1>1, WorkerFacts
<1>3. /\ c.blocks = <<>> /\ c.song \in Song
      /\ th.got = <<>> /\ th.op = "open" /\ th.at = 0 /\ th.slot = 0
  BY <1>2 DEF Doing, AtPlace, Upset, Holding, Writing
<1>4. UNCHANGED <<time, version, stashes, nextstash, readmutex, torn, mixed>> BY DEF OpenSpawn
<1>7. thread[t].pc \notin {"idle", "lock"} \cup Writing BY <1>1 DEF Writing
<1>5. CASE Spawn(th.h) /\ Warm(t)
  <2>1. PICK k \in Context :
          /\ ctx' = [ctx EXCEPT ![th.h] = k]
          /\ k.song = c.song /\ k.blocks = c.blocks /\ Spawned(k)
          /\ k.decoder.pos = 0 /\ FileOK(th.h, k)
    BY <1>2, <1>3, <1>5, SpawnFacts
  <2>2. Ready(k)
    <3>1. Len(k.blocks) * BlockSize = 0 BY <1>3, <2>1 DEF UadefsAssumption
    <3> QED BY <2>1, <3>1 DEF Ready
  <2>3. PICK x : x = [th EXCEPT !.pc = "read", !.at = 0, !.size = StashSize, !.got = <<>>] OBVIOUS
  <2>4. thread' = [thread EXCEPT ![t] = x]
    BY <1>2, <1>5, <2>3 DEF Warm, Inv, TypesOK
  <2>6. /\ x \in Activity /\ x.h = th.h /\ x.op = "open" /\ x.at = 0 /\ x.got = <<>>
        /\ x.pc = "read"
    BY <1>3, <2>3, StashSizeNat DEF Activity, Holding
  <2>7. Doing(t, x, k)
    <3>1. Run(x.got, Sounds(x.h, k.song), x.at, Nat) /\ Run(x.got, {k.song}, 0, {k.decoder.ver})
      BY <2>6, RunEmpty
    <3>3. FreshOK(x, k) BY <1>3, <2>1, <3>1 DEF FreshOK, InBlocks
    <3>4. AtPlace(x) BY <2>6 DEF AtPlace, Upset, Holding, Writing
    <3> QED BY <1>2, <1>3, <2>1, <2>6, <3>1, <3>3, <3>4 DEF Doing
  <2>8. x.pc \notin Writing \cup {"prefill"} BY <2>6 DEF Writing
  <2> QED BY <1>1, <1>2, <1>3, <1>4, <1>7, <2>1, <2>2, <2>4, <2>6, <2>7, <2>8, Works
<1>6. CASE GoTo(t, "kill") /\ UNCHANGED ctx
  <2>1. PICK x : x = [th EXCEPT !.pc = "kill"] OBVIOUS
  <2>2. thread' = [thread EXCEPT ![t] = x] BY <1>2, <1>6, <2>1 DEF GoTo, Inv, TypesOK
  <2>3. /\ x \in Activity /\ x.h = th.h /\ x.op = "open" /\ x.at = 0 /\ x.got = <<>>
        /\ x.pc = "kill"
    BY <1>3, <2>1 DEF Activity, Upset
  <2>4. Doing(t, x, c)
    <3>1. Run(x.got, Sounds(x.h, c.song), x.at, Nat) BY <2>3, RunEmpty
    <3>3. ~Fresh(x) BY <2>3 DEF Fresh, Holding, Writing
    <3>4. AtPlace(x) BY <2>3 DEF AtPlace, Upset, Holding, Writing
    <3> QED BY <1>2, <1>3, <2>3, <3>1, <3>3, <3>4 DEF Doing
  <2>5. x.pc \in Upset /\ x.pc \notin Writing \cup {"prefill"} BY <2>3 DEF Upset, Writing
  <2> QED BY <1>1, <1>2, <1>3, <1>4, <1>6, <1>7, <2>2, <2>3, <2>4, <2>5, Moves
<1> QED BY <1>2, <1>5, <1>6 DEF OpenSpawn

\* The file with a corrected header.
LEMMA CorrectedFacts ==
  ASSUME NEW h, NEW c \in Context, FileOK(h, c), c.song \in Song,
         NEW k, k = [c EXCEPT !.blocks[1][1] = Append(c.blocks[1][1], "size")]
  PROVE  /\ k \in Context /\ FileOK(h, k)
         /\ k.song = c.song /\ k.decoder = c.decoder /\ k.created = c.created
         /\ Len(k.blocks) = Len(c.blocks)
<1>1. PICK bs \in Seq(Seq(Unit)) : bs = c.blocks BY DEF Context
<1>2. PICK ns : ns = [bs EXCEPT ![1] = [bs[1] EXCEPT ![1] = Append(bs[1][1], "size")]] OBVIOUS
<1>3. k = [c EXCEPT !.blocks = ns] BY <1>1, <1>2 DEF Context
<1>4. InBlocks(bs, Sounds(h, c.song), Nat) BY <1>1 DEF FileOK
<1>5. CASE bs # <<>>
  <2>1. bs[1] # <<>> /\ (h \notin mixed => Lately(c.song, bs[1][1][2], c.created)) BY <1>1, <1>5 DEF FileOK
  <2>2. /\ InBlocks(ns, Sounds(h, c.song), Nat) /\ Len(ns) = Len(bs) /\ ns # <<>>
        /\ ns[1] # <<>> /\ ns[1][1][2] = bs[1][1][2]
    <3>1. PICK f, V : f = Sounds(h, c.song) /\ V = Nat OBVIOUS
    <3>2. InBlocks(bs, f, V) /\ bs[1] # <<>> BY <1>4, <2>1, <3>1
    <3>3. /\ InBlocks(ns, f, V) /\ Len(ns) = Len(bs) /\ ns # <<>>
          /\ ns[1] # <<>> /\ ns[1][1][2] = bs[1][1][2]
      BY <1>2, <1>5, <3>2, HeaderFacts
    <3> QED BY <3>1, <3>3
  <2>4. ns \in Seq(Seq(Unit)) BY <2>2 DEF InBlocks
  <2>5. /\ k \in Context /\ k.song = c.song /\ k.blocks = ns
        /\ k.decoder = c.decoder /\ k.created = c.created
    BY <1>3, <2>4 DEF Context
  <2>6. h \notin mixed => Lately(k.song, k.blocks[1][1][2], k.created) BY <2>1, <2>2, <2>5
  <2>7. FileOK(h, k) BY <2>2, <2>5, <2>6 DEF FileOK, Spawned
  <2> QED BY <1>1, <2>2, <2>5, <2>7
<1>6. CASE bs = <<>>
  <2>1. ns = bs BY <1>2, <1>6
  <2>2. k = c BY <1>1, <1>3, <2>1 DEF Context
  <2> QED BY <2>2
<1> QED BY <1>5, <1>6

LEMMA CorrectedBlocks ==
  ASSUME NEW h, NEW c \in Context, FileOK(h, c)
  PROVE  \E k : /\ k = [c EXCEPT !.blocks[1][1] = Append(c.blocks[1][1], "size")]
                /\ \A F, V : InBlocks(c.blocks, F, V) => InBlocks(k.blocks, F, V)
<1>1. PICK bs \in Seq(Seq(Unit)) : bs = c.blocks BY DEF Context
<1>2. PICK ns : ns = [bs EXCEPT ![1] = [bs[1] EXCEPT ![1] = Append(bs[1][1], "size")]] OBVIOUS
<1>3. PICK k : k = [c EXCEPT !.blocks[1][1] = Append(c.blocks[1][1], "size")] OBVIOUS
<1>4. k.blocks = ns BY <1>1, <1>2, <1>3 DEF Context
<1>5. ASSUME NEW F, NEW V, InBlocks(bs, F, V) PROVE InBlocks(ns, F, V)
  <2>1. CASE bs # <<>>
    <3>1. bs[1] # <<>> BY <1>1, <2>1 DEF FileOK
    <3> QED BY <1>2, <1>5, <2>1, <3>1, HeaderFacts
  <2>2. CASE bs = <<>> BY <1>2, <1>5, <2>2
  <2> QED BY <2>1, <2>2
<1> QED BY <1>1, <1>3, <1>4, <1>5

LEMMA OpenHeaderKeeps ==
  ASSUME UadefsAssumption, Inv, NEW t \in Thread, OpenHeader(t)
  PROVE  Inv'
<1>1. thread[t].pc = "header" BY DEF OpenHeader
<1>2. PICK th \in Activity, c \in Context :
        /\ th = thread[t] /\ th.h \in Handle /\ c = ctx[th.h]
        /\ Doing(t, th, c) /\ FileOK(th.h, c) /\ th.pc = "header"
  BY <1>1, WorkerFacts
<1>3. c.song \in Song /\ th.op = "open" /\ th.at = 0 /\ Len(th.got) = StashSize
  BY <1>2 DEF Doing, AtPlace, Upset, Holding, Writing
<1>4. UNCHANGED <<time, version, stashes, nextstash, readmutex, torn, mixed>> BY DEF OpenHeader
<1>5. Ready(c) BY <1>1, <1>2, AtRest DEF Upset
<1>6. PICK k \in Context :
        /\ ctx' = [ctx EXCEPT ![th.h] = k] /\ FileOK(th.h, k)
        /\ k.song = c.song /\ k.decoder = c.decoder /\ Len(k.blocks) = Len(c.blocks)
        /\ \A F, V : InBlocks(c.blocks, F, V) => InBlocks(k.blocks, F, V)
  <2>1. CASE ctx' = ctx
    <3>1. ctx' = [ctx EXCEPT ![th.h] = c] BY <1>2, <2>1 DEF Inv, TypesOK
    <3> QED BY <1>2, <3>1
  <2>2. CASE ctx' = [ctx EXCEPT ![th.h].blocks[1][1] = Append(@, "size")]
    <3>1. PICK k : k = [c EXCEPT !.blocks[1][1] = Append(c.blocks[1][1], "size")] OBVIOUS
    <3>2. ctx' = [ctx EXCEPT ![th.h] = k] BY <1>2, <2>2, <3>1
    <3>3. PICK g : g = th.h /\ FileOK(g, c) /\ c.song \in Song /\ c \in Context BY <1>2, <1>3
    <3>4. /\ k \in Context /\ FileOK(g, k)
          /\ k.song = c.song /\ k.decoder = c.decoder /\ k.created = c.created
          /\ Len(k.blocks) = Len(c.blocks)
          /\ \A F, V : InBlocks(c.blocks, F, V) => InBlocks(k.blocks, F, V)
      <4>1. PICK G : /\ G = [c EXCEPT !.blocks[1][1] = Append(c.blocks[1][1], "size")]
                    /\ \A F, V : InBlocks(c.blocks, F, V) => InBlocks(G.blocks, F, V)
        BY <3>3, CorrectedBlocks
      <4>2. c \in Context /\ FileOK(g, c) /\ c.song \in Song BY <3>3
      <4>3. /\ k \in Context /\ FileOK(g, k)
            /\ k.song = c.song /\ k.decoder = c.decoder /\ k.created = c.created
            /\ Len(k.blocks) = Len(c.blocks)
        BY <3>1, <4>2, CorrectedFacts
      <4> QED BY <3>1, <4>1, <4>3
    <3> QED BY <3>2, <3>3, <3>4
  <2> QED BY <1>2, <2>1, <2>2 DEF OpenHeader
<1>7. Ready(k) BY <1>5, <1>6 DEF Ready, Spawned
<1>10. thread[t].pc \notin {"idle", "lock"} \cup Writing BY <1>1 DEF Writing
<1>8. CASE th.slot = 0
  <2>1. PICK x : x = [th EXCEPT !.pc = "claim"] OBVIOUS
  <2>2. thread' = [thread EXCEPT ![t] = x]
    BY <1>2, <1>8, <2>1 DEF OpenHeader, AfterHeader, GoTo, Inv, TypesOK
  <2>3. /\ x \in Activity /\ x.h = th.h /\ x.op = "open" /\ x.at = 0 /\ x.got = th.got
        /\ x.pc = "claim" /\ x.slot = 0
    BY <1>3, <1>8, <2>1 DEF Activity
  <2>4. Doing(t, x, k)
    <3>1. Fresh(th) BY <1>2, <1>3, <1>8 DEF Fresh
    <3>2. FreshOK(th, c) BY <1>2, <3>1 DEF Doing
    <3>3. FreshOK(x, k) BY <1>6, <2>3, <3>2 DEF FreshOK, Spawned
    <3>5. AtPlace(x) BY <1>3, <2>3 DEF AtPlace, Upset, Holding, Writing
    <3>6. Run(x.got, Sounds(x.h, k.song), x.at, Nat) BY <1>2, <1>3, <1>6, <2>3 DEF Doing
    <3> QED BY <1>2, <1>3, <1>6, <2>3, <3>3, <3>5, <3>6 DEF Doing
  <2>5. x.pc \notin Writing \cup {"prefill"} BY <2>3 DEF Writing
  <2> QED BY <1>1, <1>2, <1>3, <1>4, <1>6, <1>7, <1>10, <2>2, <2>3, <2>4, <2>5, Works
<1>9. CASE th.slot # 0
  <2>1. thread' = [thread EXCEPT ![t] = Idle]
    BY <1>2, <1>9 DEF OpenHeader, AfterHeader, Done
  <2>2. Idle.pc \notin Writing \cup {"prefill"} BY DEF Idle, Writing
  <2> QED BY <1>1, <1>2, <1>4, <1>6, <1>7, <1>10, <2>1, <2>2, IdleFacts, Works
<1> QED BY <1>8, <1>9

\* A step of a thread that writes to a stash.
LEMMA Stashes ==
  ASSUME UadefsAssumption, Inv, NEW t \in Thread, thread[t].pc \in {"claim"} \cup Writing,
         NEW x \in Activity, thread' = [thread EXCEPT ![t] = x],
         NEW i \in 1 .. NStashes,
         \/ x = Idle
         \/ /\ x.pc \in Writing /\ x.slot = i /\ x.h = thread[t].h /\ x.op = thread[t].op
            /\ x.at = thread[t].at /\ x.got = thread[t].got
            /\ x.pc = "stash" => x.size \in 1 .. StashSize,
         UNCHANGED <<time, version, ctx, readmutex>>, nextstash' \in 1 .. NStashes,
         mixed \subseteq mixed', UsesOK', StashesOK'
  PROVE  Inv'
<1>1. thread[t].pc \notin {"idle", "lock"} BY DEF Writing
<1>2. PICK th \in Activity, c \in Context, h \in Handle :
        /\ th = thread[t] /\ th.h = h /\ c = ctx[h]
        /\ Doing(t, th, c) /\ FileOK(h, c) /\ th.pc \in {"claim"} \cup Writing
  BY <1>1, WorkerFacts
<1>3. /\ th.op = "open" /\ th.at = 0 /\ Len(th.got) = StashSize
      /\ th.pc = "claim" => th.slot = 0
  BY <1>2 DEF Doing, AtPlace, Upset, Holding, Writing
<1>4. FreshOK(th, c) /\ Run(th.got, Sounds(h, c.song), th.at, Nat)
  BY <1>2, <1>3 DEF Doing, Fresh
<1>5. x = Idle \/ Doing(t, x, c)
  <2>1. ASSUME x # Idle PROVE Doing(t, x, c)
    <3>1. /\ x.pc \in Writing /\ x.slot # 0 /\ x.h = h /\ x.op = "open" /\ x.at = 0
          /\ x.got = th.got
          /\ x.pc = "stash" => x.size \in 1 .. StashSize
      BY <1>2, <1>3, <2>1
    <3>2. FreshOK(x, c) BY <1>4, <3>1 DEF FreshOK
    <3>3. AtPlace(x) BY <1>3, <3>1 DEF AtPlace, Upset, Holding, Writing
    <3>4. Run(x.got, Sounds(x.h, c.song), x.at, Nat) BY <1>3, <1>4, <3>1
    <3>5. x.pc \notin {"lookup", "spawn", "prefill", "wait", "skip", "store"}
      BY <3>1 DEF Writing
    <3> QED BY <1>2, <3>1, <3>2, <3>3, <3>4, <3>5 DEF Doing
  <2> QED BY <2>1
<1>6. FileOK(h, c)' /\ (x = Idle \/ Doing(t, x, c)')
  <2>1. FileOK(h, c)' BY <1>2, FileStays
  <2>2. ASSUME Doing(t, x, c) PROVE Doing(t, x, c)' BY <2>2, DoingStays
  <2> QED BY <1>5, <2>1, <2>2
<1>7. Ready(c)
  <2>1. thread[t].pc \notin Upset \cup {"idle", "lock"} BY DEF Writing, Upset
  <2> QED BY <1>2, <2>1, AtRest
<1>8. ctx' = [ctx EXCEPT ![h] = c] BY <1>2 DEF Inv, TypesOK
<1>9. /\ thread[t].h = h /\ thread[t].pc # "lock" /\ c.song = ctx[h].song
      /\ x = Idle \/ (x.h = h /\ x.op = thread[t].op)
  BY <1>1, <1>2
<1> HIDE <1>2
<1> QED BY <1>6, <1>7, <1>8, <1>9, Acts

LEMMA WritingFacts ==
  ASSUME UadefsAssumption, Inv, NEW t \in Thread, thread[t].pc \in Writing
  PROVE  \E i \in 1 .. NStashes :
           /\ thread[t].slot = i
           /\ \A u \in Thread :
                thread[u].pc = "prefill" /\ thread[u].slot = i => thread[u].h \in mixed
           /\ i \notin torn => /\ ToStash(thread[t], ctx[thread[t].h])
                              /\ \A u \in Thread : u # t => ~Writes(u, i)
<1>1. thread[t] \in Activity /\ Doing(t, thread[t], ctx[thread[t].h])
  BY WorkerFacts DEF Writing
<1>2. PICK i \in 1 .. NStashes : i = thread[t].slot
  <2>1. thread[t].slot # 0 BY <1>1 DEF Doing, AtPlace
  <2> QED BY <1>1, <2>1 DEF Activity, UadefsAssumption
<1>3. Written(i) BY <1>2 DEF Written, Writes
<1>4. ASSUME NEW u \in Thread, thread[u].pc = "prefill", thread[u].slot = i
      PROVE  thread[u].h \in mixed
  BY <1>3, <1>4 DEF Inv, UsesOK, FromStash
<1>5. i \notin torn => /\ ToStash(thread[t], ctx[thread[t].h])
                      /\ \A u \in Thread : u # t => ~Writes(u, i)
  BY <1>2 DEF Inv, UsesOK
<1> QED BY <1>2, <1>4, <1>5

\* What is known of a thread that has a stash to write.
LEMMA StasherFacts ==
  ASSUME UadefsAssumption, Inv, NEW t \in Thread, thread[t].pc \in {"claim"} \cup Writing
  PROVE  \E th \in Activity, c \in Context :
           /\ th = thread[t] /\ th.h \in Handle /\ c = ctx[th.h] /\ th.at = 0 /\ c.song \in Song
           /\ Len(th.got) = StashSize /\ FreshOK(th, c)
           /\ Since(c.song, c.decoder.ver, c.created)
           /\ c.created \in Nat /\ c.created <= time
           /\ th.pc = "stash" => th.size \in 1 .. StashSize
<1>1. PICK th \in Activity, c \in Context :
        /\ th = thread[t] /\ th.h \in Handle /\ c = ctx[th.h]
        /\ Doing(t, th, c) /\ FileOK(th.h, c) /\ th.pc \in {"claim"} \cup Writing
  BY WorkerFacts DEF Writing
<1>2. /\ th.op = "open" /\ th.at = 0 /\ Len(th.got) = StashSize
      /\ th.pc = "claim" => th.slot = 0
      /\ th.pc = "stash" => th.size \in 1 .. StashSize
  BY <1>1 DEF Doing, AtPlace, Upset, Holding, Writing
<1>3. FreshOK(th, c) /\ c.song \in Song BY <1>1, <1>2 DEF Doing, Fresh
<1>4. Since(c.song, c.decoder.ver, c.created) BY <1>1, <1>3 DEF FileOK, FreshOK
<1>5. c.created \in Nat /\ c.created <= time BY <1>1 DEF FileOK, Context
<1> QED BY <1>1, <1>2, <1>3, <1>4, <1>5

LEMMA OpenClaimKeeps ==
  ASSUME UadefsAssumption, Inv, NEW t \in Thread, OpenClaim(t)
  PROVE  Inv'
<1>1. thread[t].pc = "claim" BY DEF OpenClaim
<1>2. PICK th \in Activity : th = thread[t] BY <1>1, WorkerFacts
<1>3. PICK i \in 1 .. NStashes : i = nextstash BY DEF Inv, TypesOK
<1>4. UNCHANGED <<time, version, ctx, readmutex, stashes, nextstash>> BY DEF OpenClaim
<1>5. PICK x : x = [th EXCEPT !.pc = "date", !.slot = i] OBVIOUS
<1>6. thread' = [thread EXCEPT ![t] = x]
  BY <1>2, <1>3, <1>5 DEF OpenClaim, Inv, TypesOK
<1>7. /\ x \in Activity /\ x.pc = "date" /\ x.slot = i /\ x.h = th.h /\ x.op = th.op
      /\ x.at = th.at /\ x.got = th.got
  <2>1. i \in 0 .. NStashes OBVIOUS
  <2> QED BY <1>5, <2>1 DEF Activity, Writing
<1>8. /\ torn' \ {i} = torn \ {i} /\ mixed \subseteq mixed'
      /\ \A u \in Thread : thread[u].pc = "prefill" /\ thread[u].slot = i => thread[u].h \in mixed'
      /\ i \notin torn' => ~Written(i)
  BY <1>3 DEF OpenClaim
<1>9. i \notin torn' => \A u \in Thread : u # t => ~Writes(u, i) BY <1>8 DEF Written
<1>10. ToStash(x, ctx[x.h])' BY <1>7 DEF ToStash
<1>11. PICK s : s = stashes[i] /\ StashOK(s) BY DEF Inv, StashesOK
<1>12. /\ DOMAIN stashes' = 1 .. NStashes
       /\ \A j \in 1 .. NStashes : stashes'[j] = IF j = i THEN s ELSE stashes[j]
  BY <1>4, <1>11 DEF Inv, StashesOK
<1>13. x.pc \in Writing /\ thread[t].pc \notin Writing /\ x.pc # "prefill"
  BY <1>1, <1>7 DEF Writing
<1>14. UsesOK' /\ StashesOK'
  <2> HIDE <1>2
  <2> QED BY <1>4, <1>6, <1>7, <1>8, <1>9, <1>10, <1>11, <1>12, <1>13, StashWritten
<1>15. x.pc # "stash" /\ nextstash' \in 1 .. NStashes BY <1>3, <1>4, <1>7
<1> QED BY <1>1, <1>2, <1>4, <1>6, <1>7, <1>8, <1>13, <1>14, <1>15, Stashes

LEMMA OpenStashKeeps ==
  ASSUME UadefsAssumption, Inv, NEW t \in Thread, OpenStash(t)
  PROVE  Inv'
<1>1. thread[t].pc = "date" /\ thread[t].pc \in Writing BY DEF OpenStash, Writing
<1>2. PICK th \in Activity, c \in Context :
        /\ th = thread[t] /\ c = ctx[th.h] /\ c.created \in Nat /\ c.created <= time
  BY <1>1, StasherFacts
<1>3. PICK i \in 1 .. NStashes :
        /\ th.slot = i
        /\ \A u \in Thread : thread[u].pc = "prefill" /\ thread[u].slot = i => thread[u].h \in mixed
        /\ i \notin torn => \A u \in Thread : u # t => ~Writes(u, i)
  BY <1>1, <1>2, WritingFacts
<1>4. UNCHANGED <<time, version, ctx, readmutex, torn, mixed>> BY DEF OpenStash
<1>5. nextstash' \in 1 .. NStashes BY <1>2, <1>3 DEF OpenStash, After, UadefsAssumption
<1>6. PICK half \in Song \cup {"none"} :
        stashes' = [stashes EXCEPT ![i].song = half, ![i].created = c.created]
  BY <1>2, <1>3 DEF OpenStash
<1>7. PICK q : q = stashes[i] /\ StashOK(q) BY DEF Inv, StashesOK
<1>8. PICK s : s = [q EXCEPT !.song = half, !.created = c.created] OBVIOUS
<1>9. /\ DOMAIN stashes' = 1 .. NStashes
      /\ \A j \in 1 .. NStashes : stashes'[j] = IF j = i THEN s ELSE stashes[j]
  BY <1>6, <1>7, <1>8 DEF Inv, StashesOK
<1>10. StashOK(s) /\ s.created = c.created
  <2>1. q = [song |-> q.song, data |-> q.data, created |-> q.created] BY <1>7 DEF StashOK
  <2>2. s = [song |-> half, data |-> q.data, created |-> c.created] BY <1>8, <2>1
  <2> QED BY <1>2, <1>7, <2>2 DEF StashOK
<1>11. PICK x : x = [th EXCEPT !.pc = "name"] OBVIOUS
<1>12. thread' = [thread EXCEPT ![t] = x]
  BY <1>2, <1>11 DEF OpenStash, GoTo, Inv, TypesOK
<1>13. /\ x \in Activity /\ x.pc = "name" /\ x.slot = i /\ x.h = th.h /\ x.op = th.op
       /\ x.at = th.at /\ x.got = th.got
  BY <1>3, <1>11 DEF Activity, Writing
<1>14. ToStash(x, ctx[x.h])' BY <1>2, <1>4, <1>9, <1>10, <1>13 DEF ToStash
<1>15. x.pc \in Writing /\ x.pc \notin {"prefill", "stash"} BY <1>13 DEF Writing
<1>16. thread[t].slot = i BY <1>2, <1>3
<1>17. UsesOK' /\ StashesOK'
  <2> HIDE <1>2
  <2> QED BY <1>1, <1>3, <1>4, <1>9, <1>10, <1>12, <1>13, <1>14, <1>15, <1>16, StashWritten
<1> QED BY <1>1, <1>2, <1>4, <1>5, <1>12, <1>13, <1>15, <1>17, Stashes

LEMMA OpenStashNameKeeps ==
  ASSUME UadefsAssumption, Inv, NEW t \in Thread, OpenStashName(t)
  PROVE  Inv'
<1>1. thread[t].pc = "name" /\ thread[t].pc \in Writing BY DEF OpenStashName, Writing
<1>2. PICK th \in Activity, c \in Context :
        th = thread[t] /\ c = ctx[th.h] /\ c.song \in Song
  BY <1>1, StasherFacts
<1>3. PICK i \in 1 .. NStashes :
        /\ th.slot = i
        /\ \A u \in Thread : thread[u].pc = "prefill" /\ thread[u].slot = i => thread[u].h \in mixed
        /\ i \notin torn => ToStash(th, c) /\ \A u \in Thread : u # t => ~Writes(u, i)
  BY <1>1, <1>2, WritingFacts
<1>4. UNCHANGED <<time, version, nextstash, ctx, readmutex, torn, mixed>> BY DEF OpenStashName
<1>5. nextstash' \in 1 .. NStashes BY <1>4 DEF Inv, TypesOK
<1>6. stashes' = [stashes EXCEPT ![i].song = c.song] BY <1>2, <1>3 DEF OpenStashName
<1>7. PICK q : q = stashes[i] /\ StashOK(q) BY DEF Inv, StashesOK
<1>8. PICK s : s = [q EXCEPT !.song = c.song] OBVIOUS
<1>9. /\ DOMAIN stashes' = 1 .. NStashes
      /\ \A j \in 1 .. NStashes : stashes'[j] = IF j = i THEN s ELSE stashes[j]
  BY <1>6, <1>7, <1>8 DEF Inv, StashesOK
<1>10. StashOK(s) /\ s.song = c.song /\ s.created = q.created
  <2>1. q = [song |-> q.song, data |-> q.data, created |-> q.created] BY <1>7 DEF StashOK
  <2>2. s = [song |-> c.song, data |-> q.data, created |-> q.created] BY <1>8, <2>1
  <2> QED BY <1>7, <2>2 DEF StashOK
<1>11. PICK x : x = [th EXCEPT !.pc = "stash", !.size = StashSize] OBVIOUS
<1>12. thread' = [thread EXCEPT ![t] = x]
  BY <1>2, <1>11 DEF OpenStashName, Inv, TypesOK
<1>13. StashSize \in Nat \ {0} BY StashSizeNat
<1>14. /\ x \in Activity /\ x.pc = "stash" /\ x.slot = i /\ x.h = th.h /\ x.op = th.op
       /\ x.at = th.at /\ x.got = th.got /\ x.size = StashSize
  BY <1>3, <1>11, <1>13 DEF Activity, Writing
<1>15. ASSUME i \notin torn' PROVE ToStash(x, ctx[x.h])'
  <2>1. q.created = c.created BY <1>1, <1>2, <1>3, <1>4, <1>7, <1>15 DEF ToStash
  <2>2. 1 .. StashSize - x.size = {} BY <1>13, <1>14
  <2>3. stashes'[x.slot] = s /\ ctx'[x.h] = c BY <1>2, <1>4, <1>9, <1>14
  <2> QED BY <1>10, <2>1, <2>2, <2>3 DEF ToStash
<1>16. x.pc \in Writing /\ x.pc # "prefill" /\ x.size \in 1 .. StashSize
  BY <1>13, <1>14 DEF Writing
<1>17. thread[t].slot = i BY <1>2, <1>3
<1>18. UsesOK' /\ StashesOK'
  <2> HIDE <1>2
  <2> QED BY <1>1, <1>3, <1>4, <1>9, <1>10, <1>12, <1>14, <1>15, <1>16, <1>17, StashWritten
<1> QED BY <1>1, <1>2, <1>4, <1>5, <1>12, <1>14, <1>16, <1>18, Stashes


\* A unit of sound that was copied to its place.
LEMMA RunReplaced ==
  ASSUME NEW s, NEW F, NEW V, Run(s, F, 0, V), NEW r, r \in Seq(Unit), Len(r) = Len(s),
         NEW o \in 1 .. Len(s), \A j \in 1 .. Len(s) : j # o => r[j] = s[j],
         r[o][1] \in F, r[o][2] \in V, r[o][3] = 0 + o - 1
  PROVE  Run(r, F, 0, V)
<1>1. ASSUME NEW j \in 1 .. Len(r) PROVE r[j][1] \in F /\ r[j][2] \in V /\ r[j][3] = 0 + j - 1
  <2>1. CASE j = o BY <2>1
  <2>2. CASE j # o BY <2>2 DEF Run
  <2> QED BY <2>1, <2>2
<1> QED BY <1>1 DEF Run


LEMMA OpenStashDataKeeps ==
  ASSUME UadefsAssumption, Inv, NEW t \in Thread, OpenStashData(t)
  PROVE  Inv'
<1>1. thread[t].pc = "stash" /\ thread[t].pc \in Writing BY DEF OpenStashData, Writing
<1>2. PICK th \in Activity, c \in Context :
        /\ th = thread[t] /\ c = ctx[th.h] /\ c.song \in Song
        /\ Len(th.got) = StashSize /\ FreshOK(th, c)
        /\ Since(c.song, c.decoder.ver, c.created)
        /\ th.size \in 1 .. StashSize
  BY <1>1, StasherFacts
<1>3. PICK i \in 1 .. NStashes :
        /\ th.slot = i
        /\ \A u \in Thread : thread[u].pc = "prefill" /\ thread[u].slot = i => thread[u].h \in mixed
        /\ i \notin torn => ToStash(th, c) /\ \A u \in Thread : u # t => ~Writes(u, i)
  BY <1>1, <1>2, WritingFacts
<1>4. UNCHANGED <<time, version, nextstash, ctx, readmutex, torn, mixed>> BY DEF OpenStashData
<1>5. nextstash' \in 1 .. NStashes BY <1>4 DEF Inv, TypesOK
<1>6. PICK n \in Nat \ {0} : n = StashSize BY StashSizeNat
<1>7. PICK o \in 1 .. n : o = n - th.size + 1 BY <1>2, <1>6
<1>8. stashes' = [stashes EXCEPT ![i].data[o] = th.got[o]]
  BY <1>2, <1>3, <1>6, <1>7 DEF OpenStashData, StashOf
<1>9. PICK q, a : q = stashes[i] /\ StashOK(q) /\ a = q.data BY DEF Inv, StashesOK
<1>10. PICK b : b = [a EXCEPT ![o] = th.got[o]] OBVIOUS
<1>11. PICK s : s = [q EXCEPT !.data = b] OBVIOUS
<1>12. /\ DOMAIN stashes' = 1 .. NStashes
       /\ \A j \in 1 .. NStashes : stashes'[j] = IF j = i THEN s ELSE stashes[j]
  BY <1>8, <1>9, <1>10, <1>11 DEF Inv, StashesOK
<1>13. PICK v : v = c.decoder.ver /\ Run(th.got, {c.song}, 0, {v}) /\ v \in 0 .. Current(c.song)
  BY <1>2 DEF FreshOK, Since
<1>14. /\ Run(a, AnySong, 0, Nat) /\ Len(a) = n /\ a \in Seq(Unit)
       /\ q = [song |-> q.song, data |-> a, created |-> q.created]
  BY <1>6, <1>9 DEF StashOK, Run
<1>15. /\ Run(b, AnySong, 0, Nat) /\ Len(b) = n /\ b[o] = th.got[o]
       /\ \A j \in 1 .. n : j # o => b[j] = a[j]
  <2>1. th.got \in Seq(Unit) /\ o \in 1 .. Len(th.got) BY <1>2, <1>6, <1>13 DEF Run
  <2>2. PICK u \in Unit : u = th.got[o] BY <2>1
  <2>3. u[1] = c.song /\ u[2] = v /\ u[3] = 0 + o - 1 BY <1>13, <2>1, <2>2 DEF Run
  <2>4. u[1] \in AnySong /\ u[2] \in Nat
    <3>1. v \in Nat BY <1>13 DEF Current
    <3> QED BY <1>2, <2>3, <3>1 DEF AnySong
  <2>5. o \in 1 .. Len(a) BY <1>14
  <2>6. /\ b \in Seq(Unit) /\ Len(b) = Len(a) /\ b[o] = u
        /\ \A j \in 1 .. Len(a) : j # o => b[j] = a[j]
    BY <1>10, <1>14, <2>2, <2>5, ReplacedFacts
  <2>7. Run(b, AnySong, 0, Nat) BY <1>14, <2>3, <2>4, <2>5, <2>6, RunReplaced
  <2> QED BY <1>14, <2>2, <2>6, <2>7
<1>16. s = [song |-> q.song, data |-> b, created |-> q.created] BY <1>11, <1>14
<1>17. StashOK(s) BY <1>6, <1>9, <1>15, <1>16 DEF StashOK
<1>18. ASSUME i \notin torn
       PROVE  /\ s.song = c.song /\ s.created = c.created
              /\ \A j \in 1 .. o : s.data[j] = th.got[j]
  <2>1. ToStash(th, c) BY <1>3, <1>18
  <2>2. /\ q.song = c.song /\ q.created = c.created
        /\ \A j \in 1 .. n - th.size : a[j] = th.got[j]
    BY <1>1, <1>2, <1>3, <1>6, <1>9, <2>1 DEF ToStash
  <2>3. ASSUME NEW j \in 1 .. o PROVE b[j] = th.got[j]
    <3>1. CASE j = o BY <1>15, <3>1
    <3>2. CASE j # o
      <4>1. j \in 1 .. n - th.size /\ j \in 1 .. n BY <1>2, <1>6, <1>7, <3>2
      <4> QED BY <1>15, <2>2, <3>2, <4>1
    <3> QED BY <3>1, <3>2
  <2> QED BY <1>16, <2>2, <2>3
<1>19. thread[t].slot = i /\ torn' = torn BY <1>2, <1>3, <1>4
<1>20. CASE th.size = 1
  <2>1. thread' = [thread EXCEPT ![t] = Idle] BY <1>2, <1>20 DEF OpenStashData, Done
  <2>2. PICK x \in Activity : x = Idle /\ x.pc \notin Writing /\ x.pc # "prefill"
    BY IdleFacts DEF Idle, Writing
  <2>3. ASSUME i \notin torn PROVE Filled(s)
    <3>1. o = n BY <1>7, <1>20
    <3>2. \A j \in 1 .. Len(b) : b[j] = th.got[j] BY <1>15, <1>16, <1>18, <2>3, <3>1
    <3>3. Run(b, {c.song}, 0, {v})
      <4>1. Len(th.got) = Len(b) BY <1>2, <1>6, <1>15
      <4> QED BY <1>13, <1>15, <3>2, <4>1 DEF Run
    <3> QED BY <1>2, <1>6, <1>13, <1>15, <1>16, <1>18, <2>3, <3>3 DEF Filled
  <2>4. UsesOK' /\ StashesOK'
    <3>1. thread' = [thread EXCEPT ![t] = x] /\ x \in Activity BY <2>1, <2>2
    <3>2. x.pc \notin Writing /\ x.pc # "prefill" BY <2>2
    <3>3. /\ UNCHANGED <<time, version, ctx>> /\ torn' \ {i} = torn \ {i} /\ mixed \subseteq mixed'
          /\ \A u \in Thread : thread[u].pc = "prefill" /\ thread[u].slot = i => thread[u].h \in mixed'
          /\ i \notin torn' => \A u \in Thread : u # t => ~Writes(u, i)
          /\ thread[t].pc \in Writing => thread[t].slot = i
          /\ x.pc \in Writing => x.slot = i
          /\ i \notin torn' /\ x.pc \in Writing => ToStash(x, ctx[x.h])'
          /\ i \notin torn' /\ s.song \in Song /\ x.pc \notin Writing => Filled(s)
      BY <1>3, <1>4, <1>19, <2>3, <3>2
    <3> HIDE <1>2, <2>2
    <3> QED BY <1>12, <1>17, <3>1, <3>2, <3>3, StashWritten
  <2> QED BY <1>1, <1>4, <1>5, <2>1, <2>2, <2>4, Stashes
<1>21. CASE th.size # 1
  <2>1. PICK x : x = [th EXCEPT !.size = th.size - 1] OBVIOUS
  <2>2. thread' = [thread EXCEPT ![t] = x]
    BY <1>2, <1>21, <2>1 DEF OpenStashData, Inv, TypesOK
  <2>3. /\ x \in Activity /\ x.pc = "stash" /\ x.slot = i /\ x.h = th.h /\ x.op = th.op
        /\ x.at = th.at /\ x.got = th.got /\ x.size = th.size - 1
        /\ x.size \in 1 .. StashSize /\ n - x.size = o
    <3>1. PICK m \in Nat : m = th.size - 1 /\ m \in 1 .. n /\ n - m = o
      BY <1>2, <1>6, <1>7, <1>21
    <3>2. x = [th EXCEPT !.size = m] /\ th.pc = "stash" /\ th.slot = i
      BY <1>1, <1>2, <1>3, <2>1, <3>1
    <3>3. /\ x \in Activity /\ x.pc = "stash" /\ x.slot = i /\ x.h = th.h /\ x.op = th.op
          /\ x.at = th.at /\ x.got = th.got /\ x.size = m
      BY <3>2 DEF Activity
    <3> QED BY <1>6, <3>1, <3>3
  <2>4. x.pc \in Writing /\ x.pc # "prefill" BY <2>3 DEF Writing
  <2>5. ASSUME i \notin torn PROVE ToStash(x, ctx[x.h])'
    <3>1. stashes'[x.slot] = s /\ ctx'[x.h] = c BY <1>2, <1>4, <1>12, <2>3
    <3> QED BY <1>6, <1>18, <2>3, <2>5, <3>1 DEF ToStash
  <2>6. UsesOK' /\ StashesOK'
    <3> HIDE <1>2
    <3> QED BY <1>1, <1>3, <1>4, <1>12, <1>17, <1>19, <2>2, <2>3, <2>4, <2>5, StashWritten
  <2> QED BY <1>1, <1>2, <1>4, <1>5, <2>2, <2>3, <2>4, <2>6, Stashes
<1> QED BY <1>20, <1>21

------------------------------------------------------------------------------
(* The steps of reading *)

\* Moving on to another place: what is kept, and what has to be shown.
LEMMA MovedFacts ==
  ASSUME UadefsAssumption, NEW t \in Thread, NEW th \in Activity, NEW c, Doing(t, th, c),
         th.pc \in Holding,
         NEW p \in {"read", "end", "header", "kill"}, p = "header" => Len(th.got) = StashSize,
         p \in {"header", "kill"} => th.op = "open",
         NEW x, x = [th EXCEPT !.pc = p]
  PROVE  /\ x \in Activity /\ x.h = th.h /\ x.op = th.op /\ x.pc = p
         /\ Doing(t, x, c)
<1>1. /\ x \in Activity /\ x.h = th.h /\ x.op = th.op /\ x.pc = p /\ x.at = th.at
      /\ x.got = th.got /\ x.slot = th.slot
  BY DEF Activity, Holding, Upset
<1>2. AtPlace(x)
  <2>1. AtPlace(th) BY DEF Doing
  <2> QED BY <1>1, <2>1 DEF AtPlace, Holding, Upset, Writing
<1>4. Fresh(x) => FreshOK(x, c)
  <2>1. Fresh(x) => Fresh(th) BY <1>1 DEF Fresh, Holding, Writing
  <2>2. FreshOK(th, c) => FreshOK(x, c) BY <1>1 DEF FreshOK
  <2> QED BY <2>1, <2>2 DEF Doing
<1>5. Doing(t, x, c)
  <2>1. x.pc \notin {"lookup", "spawn", "prefill", "skip", "store"} BY <1>1
  <2> QED BY <1>1, <1>2, <1>4, <2>1 DEF Doing
<1> QED BY <1>1, <1>5

LEMMA ReadEndsKeeps ==
  ASSUME UadefsAssumption, Inv, NEW t \in Thread, thread[t].pc \in Holding,
         Ready(ctx[thread[t].h]), ReadEnds(t)
  PROVE  Inv'
<1>1. thread[t].pc \notin {"idle", "lock"} \cup Writing BY DEF Holding, Writing
<1>2. PICK th \in Activity, c \in Context :
        /\ th = thread[t] /\ th.h \in Handle /\ c = ctx[th.h]
        /\ Doing(t, th, c) /\ FileOK(th.h, c) /\ th.pc \in Holding
  BY <1>1, WorkerFacts
<1>3. UNCHANGED <<time, version, stashes, nextstash, ctx, torn, mixed>> BY DEF ReadEnds
<1>4. /\ readmutex' \in {readmutex, Nobody}
      /\ readmutex' = readmutex \/ readmutex = t
  BY DEF ReadEnds
<1>5. th.op \in {"open", "read"} BY <1>2 DEF Doing, AtPlace, Holding
<1>6. CASE th.op = "read"
  <2>1. thread' = [thread EXCEPT ![t] = Idle] BY <1>2, <1>6 DEF ReadEnds, Done
  <2>2. Idle.pc \notin Writing \cup {"prefill"} BY DEF Idle, Writing
  <2> QED BY <1>1, <1>3, <1>4, <2>1, <2>2, IdleFacts, Moves
<1>7. CASE th.op = "open"
  <2>1. PICK p \in {"header", "kill"} :
          /\ p = "header" => Len(th.got) = StashSize
          /\ thread' = [thread EXCEPT ![t].pc = p]
    BY <1>2, <1>7 DEF ReadEnds, GoTo
  <2>2. PICK x : x = [th EXCEPT !.pc = p] OBVIOUS
  <2>3. thread' = [thread EXCEPT ![t] = x] BY <1>2, <2>1, <2>2 DEF Inv, TypesOK
  <2>4. x \in Activity /\ x.h = th.h /\ x.op = th.op /\ x.pc = p /\ Doing(t, x, c)
    BY <1>2, <1>7, <2>1, <2>2, MovedFacts
  <2>5. x.pc \notin Holding /\ x.pc \notin Writing \cup {"prefill"} BY <2>4 DEF Holding, Writing
  <2> QED BY <1>1, <1>2, <1>3, <1>4, <2>3, <2>4, <2>5, Moves
<1> QED BY <1>5, <1>6, <1>7

LEMMA ReadLockKeeps ==
  ASSUME UadefsAssumption, Inv, NEW t \in Thread, ReadLock(t)
  PROVE  Inv'
<1> USE DEF Inv
<1>1. thread[t].pc = "lock" /\ readmutex = Nobody BY DEF ReadLock, Unlocked
<1>2. PICK th \in Activity, c \in Context :
        /\ th = thread[t] /\ th.h \in Handle /\ c = ctx[th.h]
        /\ Doing(t, th, c) /\ FileOK(th.h, c) /\ th.pc = "lock"
  BY <1>1, WorkerFacts
<1>3. UNCHANGED <<time, version, stashes, nextstash, ctx, torn, mixed>> /\ readmutex' = t BY DEF ReadLock
<1>4. th.op = "read" BY <1>2 DEF Doing, AtPlace
<1>5. PICK x : x = [th EXCEPT !.pc = "read"] OBVIOUS
<1>6. thread' = [thread EXCEPT ![t] = x]
  BY <1>2, <1>5 DEF ReadLock, GoTo, TypesOK
<1>7. /\ x \in Activity /\ x.h = th.h /\ x.op = "read" /\ x.pc = "read" /\ x.at = th.at
      /\ x.got = th.got /\ x.slot = th.slot
  BY <1>4, <1>5 DEF Activity, Holding
<1>8. Doing(t, x, c)
  <2>1. AtPlace(th) BY <1>2 DEF Doing
  <2>2. AtPlace(x) BY <1>2, <1>7, <2>1 DEF AtPlace, Holding, Upset, Writing
  <2>4. ~Fresh(x) BY <1>7 DEF Fresh, Writing
  <2> QED BY <1>2, <1>4, <1>7, <2>2, <2>4 DEF Doing
<1>9. /\ thread' \in [Thread -> Activity] /\ thread'[t] = x
      /\ \A u \in Thread : u # t => thread'[u] = thread[u]
  BY <1>6, <1>7 DEF TypesOK
<1>10. TypesOK' BY <1>3, <1>9 DEF TypesOK
<1>11. FilesOK'
  <2> SUFFICES ASSUME NEW g \in Handle
               PROVE  /\ FileOK(g, ctx[g])'
                      /\ (\A u \in Thread : thread'[u].h = g => thread'[u].pc \notin Upset) =>
                           ctx'[g] = Closed \/ Ready(ctx[g])'
    BY DEF FilesOK
  <2>1. PICK k : k = ctx[g] OBVIOUS
  <2>2. FileOK(g, k) BY <2>1 DEF FilesOK
  <2>3. FileOK(g, k)' BY <1>3, <2>2, FileStays
  <2>4. ASSUME \A u \in Thread : thread'[u].h = g => thread'[u].pc \notin Upset,
               NEW u \in Thread, thread[u].h = g
        PROVE  thread[u].pc \notin Upset
    BY <1>1, <1>9, <2>4 DEF Upset
  <2>5. (\A u \in Thread : thread'[u].h = g => thread'[u].pc \notin Upset) => k = Closed \/ Ready(k)
    BY <2>1, <2>4 DEF FilesOK
  <2> QED BY <1>3, <2>1, <2>3, <2>5
<1>12. ThreadsOK'
  <2> SUFFICES ASSUME NEW u \in Thread
               PROVE  thread'[u] = Idle \/ Doing(u, thread[u], ctx[thread[u].h])'
    BY DEF ThreadsOK
  <2>1. CASE u = t
    <3>1. Doing(t, x, c)' BY <1>3, <1>8, DoingStays
    <3> QED BY <1>2, <1>3, <1>7, <1>9, <2>1, <3>1
  <2>2. CASE u # t /\ thread[u] # Idle
    <3>1. PICK w, k : w = thread[u] /\ k = ctx[thread[u].h] OBVIOUS
    <3>2. Doing(u, w, k) BY <2>2, <3>1 DEF ThreadsOK
    <3>3. Doing(u, w, k)' BY <1>3, <3>2, DoingStays
    <3> QED BY <1>3, <1>9, <2>2, <3>1, <3>3
  <2> QED BY <1>9, <2>1, <2>2
<1>13. Alone'
  <2>1. \A u \in Thread : thread'[u].h = thread[u].h /\ thread'[u].op = thread[u].op
    BY <1>2, <1>4, <1>7, <1>9
  <2> QED BY <2>1 DEF Alone
<1>14. Mutex'
  <2>1. Nobody \notin Thread BY DEF UadefsAssumption
  <2> QED BY <1>1, <1>3, <1>9, <2>1 DEF Mutex
<1>15. UsesOK' /\ StashesOK'
  <2>1. thread[t].pc \notin Writing /\ x.pc \notin Writing /\ x.pc # "prefill"
    BY <1>1, <1>7 DEF Writing
  <2> QED BY <1>3, <1>6, <1>7, <2>1, StashesStay
<1> QED BY <1>10, <1>11, <1>12, <1>13, <1>14, <1>15

LEMMA ReadSpawnKeeps ==
  ASSUME UadefsAssumption, Inv, NEW t \in Thread, ReadSpawn(t)
  PROVE  Inv'
<1>1. thread[t].pc = "read" BY DEF ReadSpawn
<1>2. PICK th \in Activity, c \in Context :
        /\ th = thread[t] /\ th.h \in Handle /\ c = ctx[th.h]
        /\ Doing(t, th, c) /\ FileOK(th.h, c) /\ th.pc = "read"
  BY <1>1, WorkerFacts
<1>3. /\ UNCHANGED <<time, version, stashes, nextstash, readmutex, torn, mixed>>
      /\ ~Spawned(c) /\ Spawn(th.h)
  BY <1>2 DEF ReadSpawn, NeedsDecoder
<1>4. c.song \in Song BY <1>2 DEF Doing
<1>5. PICK k \in Context :
        /\ ctx' = [ctx EXCEPT ![th.h] = k]
        /\ k.song = c.song /\ k.blocks = c.blocks /\ Spawned(k)
        /\ k.decoder.pos = 0 /\ FileOK(th.h, k)
  BY <1>2, <1>3, <1>4, SpawnFacts
<1>6. Len(k.blocks) = StashBlocks
  <2>1. Ready(c) BY <1>1, <1>2, AtRest DEF Upset
  <2> QED BY <1>3, <1>5, <2>1 DEF Ready
<1>7. PICK x : x = [th EXCEPT !.pc = "skip"] OBVIOUS
<1>8. thread' = [thread EXCEPT ![t] = x] BY <1>2, <1>7 DEF ReadSpawn, Inv, TypesOK
<1>9. /\ x \in Activity /\ x.h = th.h /\ x.op = th.op /\ x.pc = "skip" /\ x.at = th.at
      /\ x.got = th.got /\ x.slot = th.slot
  BY <1>7 DEF Activity, Holding
<1>10. Doing(t, x, k)
  <2>1. AtPlace(th) BY <1>2 DEF Doing
  <2>2. AtPlace(x) BY <1>2, <1>9, <2>1 DEF AtPlace, Holding, Upset, Writing
  <2>4. ~Fresh(x)
    <3>1. ~Fresh(th) BY <1>2, <1>3 DEF Doing, FreshOK
    <3> QED BY <1>2, <1>9, <3>1 DEF Fresh, Holding, Writing
  <2> QED BY <1>2, <1>4, <1>5, <1>6, <1>9, <2>2, <2>4 DEF Doing
<1>11. /\ x.pc \in Upset /\ x.pc \notin Writing \cup {"prefill"}
       /\ thread[t].pc \notin {"idle", "lock"} \cup Writing
  BY <1>1, <1>9 DEF Upset, Writing
<1> QED BY <1>1, <1>2, <1>3, <1>5, <1>8, <1>9, <1>10, <1>11, Works

\* A decoder's pipe was read up to some place.
Advanced(c, p) == [c EXCEPT !.decoder.pos = p]

LEMMA AdvancedFacts ==
  ASSUME NEW h, NEW c \in Context, FileOK(h, c), c.song \in Song, NEW p \in Nat, p <= c.decoder.out,
         NEW k, k = Advanced(c, p)
  PROVE  /\ k \in Context /\ k.song = c.song /\ k.blocks = c.blocks /\ k.created = c.created
         /\ k.decoder.ver = c.decoder.ver /\ k.decoder.alive = c.decoder.alive
         /\ k.decoder.out = c.decoder.out /\ k.decoder.pos = p
         /\ FileOK(h, k) /\ (Spawned(k) <=> Spawned(c))
<1>1. PICK d \in Decoder : d = c.decoder BY DEF Context
<1>2. PICK e : e = [d EXCEPT !.pos = p] OBVIOUS
<1>3. /\ e \in Decoder /\ e.ver = d.ver /\ e.alive = d.alive /\ e.out = d.out /\ e.pos = p
  BY <1>2 DEF Decoder
<1>4. k = [c EXCEPT !.decoder = e] BY <1>1, <1>2 DEF Advanced, Context
<1>5. /\ k \in Context /\ k.song = c.song /\ k.blocks = c.blocks /\ k.created = c.created
      /\ k.decoder = e
  BY <1>3, <1>4 DEF Context
<1>6. Spawned(k) <=> Spawned(c) BY <1>1, <1>3, <1>5 DEF Spawned
<1>7. FileOK(h, k) BY <1>1, <1>3, <1>5, <1>6 DEF FileOK
<1> QED BY <1>1, <1>3, <1>5, <1>6, <1>7

LEMMA ReadSkipKeeps ==
  ASSUME UadefsAssumption, Inv, NEW t \in Thread, ReadSkip(t)
  PROVE  Inv'
<1>1. thread[t].pc = "skip" BY DEF ReadSkip
<1>2. PICK th \in Activity, c \in Context :
        /\ th = thread[t] /\ th.h \in Handle /\ c = ctx[th.h]
        /\ Doing(t, th, c) /\ FileOK(th.h, c) /\ th.pc = "skip"
  BY <1>1, WorkerFacts
<1>3. /\ c.song \in Song /\ Spawned(c) /\ c.decoder.pos = 0 /\ Len(c.blocks) = StashBlocks
  BY <1>2 DEF Doing
<1>4. PICK skip \in Nat : skip = StashSize BY StashSizeNat
<1>5. PICK out \in Nat : out = c.decoder.out BY DEF Context, Decoder
<1>6. PICK p \in Nat : p = Min({skip, out}) /\ p <= out /\ p \in {skip, out} /\ p <= skip
  BY MinOfTwo
<1>7. out >= skip \/ ~c.decoder.alive
  BY <1>2, <1>3, <1>4, <1>5 DEF ReadSkip, Readable, SkipSize
<1>8. PICK k : k = Advanced(c, p) OBVIOUS
<1>9. /\ k \in Context /\ k.song = c.song /\ k.blocks = c.blocks
      /\ k.decoder.ver = c.decoder.ver /\ k.decoder.alive = c.decoder.alive
      /\ k.decoder.out = out /\ k.decoder.pos = p /\ FileOK(th.h, k) /\ Spawned(k)
  <2>1. p <= c.decoder.out BY <1>5, <1>6
  <2>2. /\ k \in Context /\ k.song = c.song /\ k.blocks = c.blocks
        /\ k.decoder.ver = c.decoder.ver /\ k.decoder.alive = c.decoder.alive
        /\ k.decoder.out = c.decoder.out /\ k.decoder.pos = p /\ FileOK(th.h, k)
        /\ Spawned(k) <=> Spawned(c)
    BY <1>2, <1>3, <1>8, <2>1, AdvancedFacts
  <2> QED BY <1>3, <1>5, <2>2
<1>10. ctx' = [ctx EXCEPT ![th.h] = k]
  BY <1>2, <1>4, <1>5, <1>6, <1>8 DEF ReadSkip, SkipSize, Advanced, Inv, TypesOK
<1>11. Ready(k)
  <2>1. CASE out >= skip
    <3>1. p = skip BY <1>6, <2>1
    <3>2. skip = Len(k.blocks) * BlockSize BY <1>3, <1>4, <1>9 DEF StashSize
    <3> QED BY <1>9, <3>1, <3>2 DEF Ready
  <2>2. CASE ~(out >= skip)
    <3>1. p = out BY <1>6, <2>2
    <3> QED BY <1>7, <1>9, <2>2, <3>1 DEF Ready, Drained
  <2> QED BY <2>1, <2>2
<1>12. PICK q \in {"read", "end"} : thread' = [thread EXCEPT ![t].pc = q]
  BY DEF ReadSkip, GoTo
<1>13. PICK x : x = [th EXCEPT !.pc = q] OBVIOUS
<1>14. thread' = [thread EXCEPT ![t] = x] BY <1>2, <1>12, <1>13 DEF Inv, TypesOK
<1>15. x \in Activity /\ x.h = th.h /\ x.op = th.op /\ x.pc = q /\ Doing(t, x, c)
  BY <1>2, <1>13, MovedFacts DEF Holding
<1>16. Doing(t, x, k)
  <2>2. Fresh(x) => FreshOK(x, k) BY <1>9, <1>15 DEF Doing, FreshOK
  <2> QED BY <1>9, <1>15, <2>2 DEF Doing
<1>17. UNCHANGED <<time, version, stashes, nextstash, readmutex, torn, mixed>> BY DEF ReadSkip
<1>18. /\ x.pc \notin Writing \cup {"prefill"}
       /\ thread[t].pc \notin {"idle", "lock"} \cup Writing
  BY <1>1, <1>15 DEF Writing
<1> QED BY <1>1, <1>2, <1>18, <1>9, <1>10, <1>11, <1>14, <1>15, <1>16, <1>17, Works

LEMMA ReadCachedKeeps ==
  ASSUME UadefsAssumption, Inv, NEW t \in Thread, ReadCached(t)
  PROVE  Inv'
<1>1. thread[t].pc = "read" BY DEF ReadCached
<1>2. PICK th \in Activity, c \in Context :
        /\ th = thread[t] /\ th.h \in Handle /\ c = ctx[th.h]
        /\ Doing(t, th, c) /\ FileOK(th.h, c) /\ th.pc = "read"
  BY <1>1, WorkerFacts
<1>3. UNCHANGED <<time, version, stashes, nextstash, ctx, readmutex, torn, mixed>> BY DEF ReadCached
<1>4. PICK more : more = Cached(th) OBVIOUS
<1>5. ASSUME NEW F, NEW V, InBlocks(c.blocks, F, V), Run(th.got, F, th.at, V)
      PROVE  Run(th.got \o more, F, th.at, V)
  <2>1. Left(th) > 0 /\ Index(th) < Len(ctx[th.h].blocks) BY <1>2 DEF ReadCached
  <2>2. Run(more, F, Position(th), V) BY <1>2, <1>4, <1>5, <2>1, CachedFacts
  <2>3. Run(more, F, th.at + Len(th.got), V) BY <2>2 DEF Position
  <2>4. th.at \in Nat BY DEF Activity
  <2> QED BY <1>5, <2>3, <2>4, RunJoined
<1>6. Run(th.got \o more, Sounds(th.h, c.song), th.at, Nat)
  <2>1. PICK F, V : F = Sounds(th.h, c.song) /\ V = Nat OBVIOUS
  <2>2. InBlocks(c.blocks, F, V) /\ Run(th.got, F, th.at, V) BY <1>2, <2>1 DEF Doing, FileOK
  <2> QED BY <1>5, <2>1, <2>2
<1>7. PICK x : x = [th EXCEPT !.got = th.got \o more] OBVIOUS
<1>8. /\ x \in Activity /\ x.h = th.h /\ x.op = th.op /\ x.pc = "read" /\ x.at = th.at
      /\ x.got = th.got \o more /\ x.slot = th.slot
  <2>1. th.got \o more \in Seq(Unit) BY <1>6 DEF Run
  <2> QED BY <1>2, <1>7, <2>1 DEF Activity
<1>9. thread' = [thread EXCEPT ![t] = x]
  BY <1>2, <1>4, <1>7 DEF ReadCached, Inv, TypesOK
<1>10. Doing(t, x, c)
  <2>1. AtPlace(th) BY <1>2 DEF Doing
  <2>2. AtPlace(x) BY <1>2, <1>8, <2>1 DEF AtPlace, Holding, Upset, Writing
  <2>4. ASSUME Fresh(x) PROVE FreshOK(x, c)
    <3>1. FreshOK(th, c) /\ th.at = 0
      BY <1>2, <1>8, <2>1, <2>4 DEF Doing, Fresh, AtPlace
    <3>2. PICK F, V : F = {c.song} /\ V = {c.decoder.ver} OBVIOUS
    <3>3. InBlocks(c.blocks, F, V) /\ Run(th.got, F, th.at, V) BY <3>1, <3>2 DEF FreshOK
    <3>4. Run(x.got, {c.song}, 0, {c.decoder.ver}) BY <1>5, <1>8, <3>1, <3>2, <3>3
    <3> QED BY <3>1, <3>4 DEF FreshOK
  <2> QED BY <1>2, <1>6, <1>8, <2>2, <2>4 DEF Doing
<1>11. Ready(c) BY <1>1, <1>2, AtRest DEF Upset
<1>12. /\ x.pc \notin Writing \cup {"prefill"}
       /\ thread[t].pc \notin {"idle", "lock"} \cup Writing
  BY <1>1, <1>8 DEF Writing
<1> QED BY <1>1, <1>2, <1>3, <1>8, <1>9, <1>10, <1>11, <1>12, Moves

LEMMA FetchBlockKeeps ==
  ASSUME UadefsAssumption, Inv, NEW t \in Thread, FetchBlock(t)
  PROVE  Inv'
<1>1. thread[t].pc = "read" BY DEF FetchBlock
<1>2. PICK th \in Activity, c \in Context :
        /\ th = thread[t] /\ th.h \in Handle /\ c = ctx[th.h]
        /\ Doing(t, th, c) /\ FileOK(th.h, c) /\ th.pc = "read"
  BY <1>1, WorkerFacts
<1>3. /\ UNCHANGED <<time, version, stashes, nextstash, readmutex, torn, mixed>>
      /\ ~NeedsDecoder(th) /\ Index(th) >= Len(c.blocks) /\ Readable(c.decoder, BlockSize)
  BY <1>2 DEF FetchBlock
<1>4. c.song \in Song /\ Ready(c) BY <1>1, <1>2, AtRest DEF Doing, Upset
<1>5. PICK B \in Nat \ {0}, n \in Nat : B = BlockSize /\ n = Len(c.blocks)
  BY DEF UadefsAssumption, Context
<1>6. Spawned(c)
  <2>1. SUFFICES ASSUME ~Spawned(c) PROVE FALSE OBVIOUS
  <2>2. n = StashBlocks BY <1>4, <1>5, <2>1 DEF Ready
  <2> QED BY <1>2, <1>3, <1>5, <2>1, <2>2 DEF NeedsDecoder
<1>7. PICK pos \in Nat, out \in Nat :
        pos = c.decoder.pos /\ out = c.decoder.out /\ pos <= out /\ out <= Length[c.song]
  BY <1>2, <1>4 DEF FileOK, Context, Decoder
<1>8. PICK b : b = Piece(c, B) OBVIOUS
<1>9. /\ Run(b, {c.song}, pos, {c.decoder.ver})
      /\ Len(b) = (IF pos + B <= out THEN B ELSE out - pos) /\ Len(b) \in Nat
  BY <1>4, <1>6, <1>7, <1>8, PieceFacts
<1>10. PICK p \in Nat : p = pos + Len(b) /\ p <= out BY <1>7, <1>9
<1>11. PICK k : k = Advanced(c, p) OBVIOUS
<1>12. /\ k \in Context /\ k.song = c.song /\ k.blocks = c.blocks
       /\ k.decoder.ver = c.decoder.ver /\ k.decoder.alive = c.decoder.alive
       /\ k.decoder.out = out /\ k.decoder.pos = p /\ FileOK(th.h, k) /\ Spawned(k)
  <2>1. p <= c.decoder.out BY <1>7, <1>10
  <2>2. /\ k \in Context /\ k.song = c.song /\ k.blocks = c.blocks
        /\ k.decoder.ver = c.decoder.ver /\ k.decoder.alive = c.decoder.alive
        /\ k.decoder.out = c.decoder.out /\ k.decoder.pos = p /\ FileOK(th.h, k)
        /\ Spawned(k) <=> Spawned(c)
    BY <1>2, <1>4, <1>11, <2>1, AdvancedFacts
  <2> QED BY <1>6, <1>7, <2>2
<1>13. ctx' = [ctx EXCEPT ![th.h] = k]
  BY <1>2, <1>5, <1>7, <1>8, <1>10, <1>11 DEF FetchBlock, Advanced, Inv, TypesOK
<1>14. PICK x : x = [th EXCEPT !.pc = "store", !.block = b] OBVIOUS
<1>15. thread' = [thread EXCEPT ![t] = x]
  BY <1>2, <1>5, <1>8, <1>14 DEF FetchBlock, Inv, TypesOK
<1>16. /\ x \in Activity /\ x.h = th.h /\ x.op = th.op /\ x.pc = "store" /\ x.at = th.at
       /\ x.got = th.got /\ x.slot = th.slot /\ x.block = b
  <2>1. b \in Seq(Unit) BY <1>9 DEF Run
  <2> QED BY <1>14, <2>1 DEF Activity, Holding
<1>17. StoreOK(x, k)
  <2>1. PICK y \in Nat : y = n * B BY <1>5
  <2>2. (n + 1) * B = y + B BY <1>5, <2>1
  <2>3. CASE Drained(c.decoder)
    <3>1. pos = out /\ ~c.decoder.alive BY <1>7, <2>3 DEF Drained
    <3>2. Len(b) = 0 BY <1>5, <1>7, <1>9, <3>1
    <3>3. b = <<>> BY <1>9, <3>2 DEF Run
    <3>4. Drained(k.decoder) BY <1>10, <1>12, <3>1, <3>2 DEF Drained
    <3> QED BY <1>12, <1>16, <3>3, <3>4, RunEmpty DEF StoreOK
  <2>4. CASE pos = y
    <3>1. Run(x.block, {k.song}, Len(k.blocks) * BlockSize, {k.decoder.ver})
      BY <1>5, <1>9, <1>12, <1>16, <2>1, <2>4
    <3>2. CASE pos + B <= out
      <4>1. Len(b) = B /\ p = y + B BY <1>9, <1>10, <2>4, <3>2
      <4>2. Len(x.block) = BlockSize /\ k.decoder.pos = (Len(k.blocks) + 1) * BlockSize
        BY <1>5, <1>12, <1>16, <2>2, <4>1
      <4> QED BY <1>12, <3>1, <4>2 DEF StoreOK
    <3>3. CASE ~(pos + B <= out)
      <4>1. ~c.decoder.alive BY <1>3, <1>5, <1>7, <3>3 DEF Readable
      <4>2. p = out BY <1>7, <1>9, <1>10, <3>3
      <4> QED BY <1>12, <3>1, <4>1, <4>2 DEF StoreOK, Drained
    <3> QED BY <3>2, <3>3
  <2> QED BY <1>4, <1>5, <1>6, <1>7, <2>1, <2>3, <2>4 DEF Ready
<1>18. Doing(t, x, k)
  <2>1. AtPlace(th) BY <1>2 DEF Doing
  <2>2. AtPlace(x) BY <1>2, <1>16, <2>1 DEF AtPlace, Holding, Upset, Writing
  <2>4. Fresh(x) => FreshOK(x, k)
    <3>1. Fresh(x) => Fresh(th) BY <1>2, <1>16 DEF Fresh, Holding, Writing
    <3> QED BY <1>2, <1>12, <1>16, <3>1 DEF Doing, FreshOK
  <2> QED BY <1>2, <1>4, <1>12, <1>16, <1>17, <2>2, <2>4 DEF Doing
<1>19. /\ x.pc \in Upset /\ x.pc \notin Writing \cup {"prefill"}
       /\ thread[t].pc \notin {"idle", "lock"} \cup Writing
  BY <1>1, <1>16 DEF Upset, Writing
<1> QED BY <1>1, <1>2, <1>3, <1>12, <1>13, <1>15, <1>16, <1>18, <1>19, Works

LEMMA StoreBlockKeeps ==
  ASSUME UadefsAssumption, Inv, NEW t \in Thread, StoreBlock(t)
  PROVE  Inv'
<1>1. thread[t].pc = "store" BY DEF StoreBlock
<1>2. PICK th \in Activity, c \in Context :
        /\ th = thread[t] /\ th.h \in Handle /\ c = ctx[th.h]
        /\ Doing(t, th, c) /\ FileOK(th.h, c) /\ th.pc = "store"
  BY <1>1, WorkerFacts
<1>3. /\ UNCHANGED <<time, version, stashes, nextstash, readmutex, torn, mixed>> /\ th.block # <<>>
  BY <1>2 DEF StoreBlock
<1>4. PICK b \in Seq(Unit), n \in Nat : b = th.block /\ n = Len(c.blocks) /\ b # <<>>
  BY <1>3 DEF Activity, Context
<1>5. StoreOK(th, c) /\ c.song \in Song BY <1>2 DEF Doing
<1>6. PICK bs : bs = Append(c.blocks, b) OBVIOUS
<1>7. ASSUME NEW F, NEW V, InBlocks(c.blocks, F, V), Run(b, F, n * BlockSize, V)
      PROVE  InBlocks(bs, F, V)
  BY <1>4, <1>6, <1>7, BlockAdded
<1>8. Run(b, {c.song}, n * BlockSize, {c.decoder.ver}) BY <1>4, <1>5 DEF StoreOK
<1>9. c.decoder.ver \in Nat BY <1>5 DEF StoreOK, Spawned, Context, Decoder
<1>10. PICK F, V : F = Sounds(th.h, c.song) /\ V = Nat OBVIOUS
<1>23. /\ InBlocks(c.blocks, F, V) /\ InBlocks(bs, F, V)
       /\ Run(b, F, n * BlockSize, V)
  <2>1. PICK G, W : G = {c.song} /\ W = {c.decoder.ver} OBVIOUS
  <2>2. G \subseteq F /\ W \subseteq V BY <1>5, <1>9, <1>10, <2>1, SoundsHas
  <2>3. Run(b, G, n * BlockSize, W) BY <1>8, <2>1
  <2>4. Run(b, F, n * BlockSize, V) BY <2>2, <2>3, RunWider
  <2>5. InBlocks(c.blocks, F, V) BY <1>2, <1>10 DEF FileOK
  <2> QED BY <1>7, <2>4, <2>5
<1>11. /\ Len(bs) = n + 1 /\ bs # <<>> /\ bs[1] = (IF c.blocks = <<>> THEN b ELSE c.blocks[1])
  <2>1. InBlocks(c.blocks, F, V) /\ Run(b, F, Len(c.blocks) * BlockSize, V) BY <1>4, <1>23
  <2> QED BY <1>4, <1>6, <2>1, BlockAdded
<1>12. bs[1] # <<>> /\ (th.h \notin mixed => Lately(c.song, bs[1][1][2], c.created))
  <2>1. CASE c.blocks # <<>> BY <1>2, <1>11, <2>1 DEF FileOK
  <2>2. CASE c.blocks = <<>>
    <3>1. bs[1] = b /\ b[1][2] = c.decoder.ver BY <1>4, <1>8, <1>11, <2>2 DEF Run
    <3>2. Since(c.song, c.decoder.ver, c.created) BY <1>2, <1>5 DEF FileOK, StoreOK
    <3>3. c.created \in Nat /\ c.created < c.created + StashTime
      BY DEF Context, UadefsAssumption
    <3>4. Lately(c.song, c.decoder.ver, c.created)
      BY <1>5, <3>2, <3>3, SinceLately DEF Inv
    <3> QED BY <1>4, <3>1, <3>4
  <2> QED BY <2>1, <2>2
<1>13. PICK k : k = [c EXCEPT !.blocks = bs] OBVIOUS
<1>14. /\ k \in Context /\ k.song = c.song /\ k.blocks = bs
       /\ k.decoder = c.decoder /\ k.created = c.created
  <2>1. bs \in Seq(Seq(Unit)) BY <1>23 DEF InBlocks
  <2> QED BY <1>13, <2>1 DEF Context
<1>15. FileOK(th.h, k) BY <1>2, <1>5, <1>10, <1>23, <1>11, <1>12, <1>14 DEF FileOK, Spawned
<1>16. ctx' = [ctx EXCEPT ![th.h] = k]
  BY <1>2, <1>4, <1>6, <1>13 DEF StoreBlock, Inv, TypesOK
<1>17. Ready(k) BY <1>4, <1>5, <1>11, <1>14 DEF StoreOK, Ready, Spawned
<1>18. PICK p \in {"read", "end"} :
         thread' = [thread EXCEPT ![t].block = <<>>, ![t].pc = p]
  BY DEF StoreBlock
<1>19. PICK x : x = [th EXCEPT !.block = <<>>, !.pc = p] OBVIOUS
<1>20. thread' = [thread EXCEPT ![t] = x] BY <1>2, <1>18, <1>19 DEF Inv, TypesOK
<1>21. /\ x \in Activity /\ x.h = th.h /\ x.op = th.op /\ x.pc = p /\ x.at = th.at
       /\ x.got = th.got /\ x.slot = th.slot
  <2>1. <<>> \in Seq(Unit) OBVIOUS
  <2> QED BY <1>19, <2>1 DEF Activity, Holding
<1>22. Doing(t, x, k)
  <2>1. AtPlace(th) BY <1>2 DEF Doing
  <2>2. AtPlace(x) BY <1>2, <1>21, <2>1 DEF AtPlace, Holding, Upset, Writing
  <2>4. ASSUME Fresh(x) PROVE FreshOK(x, k)
    <3>1. Fresh(th) BY <1>2, <1>21, <2>4 DEF Fresh, Holding, Writing
    <3>2. FreshOK(th, c) BY <1>2, <3>1 DEF Doing
    <3>3. PICK G, W : G = {c.song} /\ W = {c.decoder.ver} OBVIOUS
    <3>4. InBlocks(c.blocks, G, W) /\ Run(b, G, n * BlockSize, W) BY <1>8, <3>2, <3>3 DEF FreshOK
    <3>5. InBlocks(bs, {c.song}, {c.decoder.ver}) BY <1>7, <3>3, <3>4
    <3> QED BY <1>14, <1>21, <3>2, <3>5 DEF FreshOK, Spawned
  <2> QED BY <1>2, <1>5, <1>14, <1>21, <2>2, <2>4 DEF Doing
<1>24. /\ x.pc \notin Writing \cup {"prefill"}
       /\ thread[t].pc \notin {"idle", "lock"} \cup Writing
  BY <1>1, <1>21 DEF Writing
<1> QED BY <1>1, <1>2, <1>3, <1>24, <1>14, <1>15, <1>16, <1>17, <1>20, <1>21, <1>22, Works

LEMMA ReadReturnsKeeps ==
  ASSUME UadefsAssumption, Inv, NEW t \in Thread,
         ReadDone(t) \/ ReadSpawnFails(t) \/ ReadSkipShort(t) \/ ReadEnd(t) \/ StoreNothing(t)
  PROVE  Inv'
<1>1. ReadEnds(t) /\ thread[t].pc \in Holding
  BY DEF ReadDone, ReadSpawnFails, ReadSkipShort, ReadEnd, StoreNothing, Holding
<1>2. CASE thread[t].pc \in {"read", "end"}
  <2>1. thread[t].pc \notin Upset \cup {"idle", "lock"} BY <1>2 DEF Upset
  <2> QED BY <1>1, <2>1, AtRest, ReadEndsKeeps
<1>3. CASE thread[t].pc = "store" /\ thread[t].block = <<>>
  <2>1. PICK th \in Activity, c \in Context :
          th = thread[t] /\ c = ctx[th.h] /\ Doing(t, th, c) /\ th.block = <<>>
    BY <1>3, WorkerFacts
  <2>2. StoreOK(th, c) BY <1>3, <2>1 DEF Doing
  <2>3. Ready(c)
    <3>1. Len(th.block) # BlockSize BY <2>1 DEF UadefsAssumption
    <3> QED BY <2>2, <3>1 DEF StoreOK, Ready
  <2> QED BY <1>1, <2>1, <2>3, ReadEndsKeeps
<1> QED BY <1>2, <1>3 DEF ReadDone, ReadSpawnFails, ReadSkipShort, ReadEnd, StoreNothing
------------------------------------------------------------------------------
(* The steps of releasing, and the beginning of a call *)

LEMMA InterruptKeeps ==
  ASSUME UadefsAssumption, Inv, NEW t \in Thread, Interrupt(t)
  PROVE  Inv'
<1>1. thread[t].pc = "kill" BY DEF Interrupt
<1>2. PICK th \in Activity, c \in Context :
        /\ th = thread[t] /\ th.h \in Handle /\ c = ctx[th.h]
        /\ Doing(t, th, c) /\ FileOK(th.h, c) /\ th.pc = "kill"
  BY <1>1, WorkerFacts
<1>3. UNCHANGED <<time, version, stashes, nextstash, readmutex, torn, mixed>> BY DEF Interrupt
<1>4. c.song \in Song BY <1>2 DEF Doing
<1>5. PICK alive \in {c.decoder.alive, FALSE} :
        ctx' = [ctx EXCEPT ![th.h].decoder.alive = alive, ![th.h].blocks = <<>>]
  BY <1>2 DEF Interrupt
<1>6. PICK d \in Decoder : d = c.decoder BY DEF Context
<1>7. PICK e : e = [d EXCEPT !.alive = alive] OBVIOUS
<1>8. /\ e \in Decoder /\ e.ver = d.ver /\ e.out = d.out /\ e.pos = d.pos /\ e.alive = alive
      /\ e.alive => d.alive
  BY <1>5, <1>6, <1>7 DEF Decoder
<1>9. PICK k : k = [c EXCEPT !.decoder = e, !.blocks = <<>>] OBVIOUS
<1>10. ctx' = [ctx EXCEPT ![th.h] = k]
  BY <1>2, <1>5, <1>6, <1>7, <1>9 DEF Inv, TypesOK, Context
<1>11. /\ k \in Context /\ k.song = c.song /\ k.blocks = <<>>
       /\ k.decoder = e /\ k.created = c.created
  <2>1. <<>> \in Seq(Seq(Unit)) OBVIOUS
  <2> QED BY <1>8, <1>9, <2>1 DEF Context
<1>12. FileOK(th.h, k)
  <2>1. InBlocks(<<>>, Sounds(th.h, c.song), Nat) BY DEF InBlocks
  <2> QED BY <1>2, <1>4, <1>6, <1>8, <1>11, <2>1 DEF FileOK, Spawned
<1>13. PICK x : x = [th EXCEPT !.pc = "wait"] OBVIOUS
<1>14. thread' = [thread EXCEPT ![t] = x] BY <1>2, <1>13 DEF Interrupt, GoTo, Inv, TypesOK
<1>15. /\ x \in Activity /\ x.h = th.h /\ x.op = th.op /\ x.pc = "wait" /\ x.at = th.at
       /\ x.got = th.got /\ x.slot = th.slot
  BY <1>13 DEF Activity, Upset
<1>16. Doing(t, x, k)
  <2>1. AtPlace(th) BY <1>2 DEF Doing
  <2>2. AtPlace(x) BY <1>2, <1>15, <2>1 DEF AtPlace, Holding, Upset, Writing
  <2>4. ~Fresh(x) BY <1>15 DEF Fresh, Holding, Writing
  <2> QED BY <1>2, <1>4, <1>11, <1>15, <2>2, <2>4 DEF Doing
<1>17. /\ x.pc \in Upset /\ x.pc \notin Writing \cup {"prefill"}
       /\ thread[t].pc \notin {"idle", "lock"} \cup Writing
  BY <1>1, <1>15 DEF Upset, Writing
<1> QED BY <1>1, <1>2, <1>3, <1>10, <1>11, <1>12, <1>14, <1>15, <1>16, <1>17, Works

LEMMA ClosedFacts ==
  ASSUME UadefsAssumption, TypesOK, NEW h PROVE Closed \in Context /\ FileOK(h, Closed)
<1>1. NoDecoder \in Decoder /\ ~NoDecoder.alive /\ NoDecoder.ver = -1 BY DEF NoDecoder, Decoder
<1>2. <<>> \in Seq(Seq(Unit)) OBVIOUS
<1>3. /\ Closed \in Context /\ Closed.song \notin Song /\ Closed.blocks = <<>>
      /\ Closed.decoder = NoDecoder /\ Closed.created = 0
  BY <1>1, <1>2 DEF Closed, Context, UadefsAssumption
<1>4. time \in Nat BY DEF TypesOK
<1>5. InBlocks(<<>>, Sounds(h, Closed.song), Nat) BY DEF InBlocks
<1> QED BY <1>1, <1>3, <1>4, <1>5 DEF FileOK, Spawned

LEMMA ReapKeeps ==
  ASSUME UadefsAssumption, Inv, NEW t \in Thread, Reap(t)
  PROVE  Inv'
<1>1. thread[t].pc = "wait" BY DEF Reap
<1>2. Doing(t, thread[t], ctx[thread[t].h]) BY <1>1, WorkerFacts
<1>3. thread[t].op # "read" BY <1>1, <1>2 DEF Doing, AtPlace, Holding
<1>4. UNCHANGED <<time, version, stashes, nextstash, readmutex, torn, mixed>> BY DEF Reap
<1>5. /\ ctx' = [ctx EXCEPT ![thread[t].h] = Closed]
      /\ thread' = [thread EXCEPT ![t] = Idle]
  BY DEF Reap, Done
<1>6. Closed \in Context /\ FileOK(thread[t].h, Closed) BY ClosedFacts DEF Inv
<1>7. /\ Idle.pc \notin Writing \cup {"prefill"}
      /\ thread[t].pc \notin {"idle", "lock"} \cup Writing
  BY <1>1 DEF Idle, Writing
<1> QED BY <1>1, <1>3, <1>4, <1>5, <1>6, <1>7, IdleFacts, Works

(* A call that begins: an idle thread gets something to do. *)
LEMMA Begins ==
  ASSUME UadefsAssumption, Inv,
         NEW t \in Thread, thread[t].pc = "idle",
         NEW h \in Handle, NEW x \in Activity, thread' = [thread EXCEPT ![t] = x],
         NEW k \in Context, ctx' = [ctx EXCEPT ![h] = k],
         UNCHANGED <<time, version, stashes, nextstash, readmutex, torn>>,
         \A g : g # h => (g \in mixed <=> g \in mixed'),
         \A u \in Thread : thread[u].h = h => (h \in mixed <=> h \in mixed'),
         FileOK(h, k)', k = ctx[h] \/ ~InUse(h),
         x.h = h, Doing(t, x, k)', x.pc \notin Holding \cup Writing \cup {"prefill"},
         x.pc \in Upset \/ k = ctx[h],
         \A u \in Thread : thread[u].h = h => thread[u].op = "read" /\ x.op = "read"
  PROVE  Inv'
<1> USE DEF Inv
<1>1. /\ thread' \in [Thread -> Activity] /\ ctx' \in [Handle -> Context]
      /\ thread'[t] = x /\ ctx'[h] = k
      /\ \A u \in Thread : u # t => thread'[u] = thread[u]
      /\ \A g \in Handle : g # h => ctx'[g] = ctx[g]
  BY DEF TypesOK
<1>2. thread[t].h \notin Handle BY ThreadFacts
<1>3. TypesOK' BY <1>1 DEF TypesOK
<1>4. FilesOK'
  <2> SUFFICES ASSUME NEW g \in Handle
               PROVE  /\ FileOK(g, ctx[g])'
                      /\ (\A u \in Thread : thread'[u].h = g => thread'[u].pc \notin Upset) =>
                           ctx'[g] = Closed \/ Ready(ctx[g])'
    BY DEF FilesOK
  <2>1. PICK c : c = ctx'[g] OBVIOUS
  <2>3. FileOK(g, c)'
    <3>1. CASE g = h BY <1>1, <2>1, <3>1
    <3>2. CASE g # h
      <4>1. FileOK(g, c) /\ (g \in mixed => g \in mixed') BY <1>1, <2>1, <3>2 DEF FilesOK
      <4> QED BY <4>1, FileStays
    <3> QED BY <3>1, <3>2
  <2>4. ASSUME \A u \in Thread : thread'[u].h = g => thread'[u].pc \notin Upset
        PROVE  c = Closed \/ Ready(c)
    <3>1. c = ctx[g]
      <4>1. CASE g = h
        <5>1. x.pc \notin Upset BY <1>1, <2>4, <4>1
        <5> QED BY <1>1, <2>1, <4>1, <5>1
      <4>2. CASE g # h BY <1>1, <2>1, <4>2
      <4> QED BY <4>1, <4>2
    <3>2. ASSUME NEW u \in Thread, thread[u].h = g PROVE thread[u].pc \notin Upset
      <4>1. u # t BY <1>2, <3>2
      <4> QED BY <1>1, <2>4, <3>2, <4>1
    <3> QED BY <3>1, <3>2 DEF FilesOK
  <2> QED BY <2>1, <2>3, <2>4
<1>5. ThreadsOK'
  <2> SUFFICES ASSUME NEW u \in Thread
               PROVE  thread'[u] = Idle \/ Doing(u, thread[u], ctx[thread[u].h])'
    BY DEF ThreadsOK
  <2>1. CASE u = t
    <3> QED BY <1>1, <2>1
  <2>2. CASE u # t /\ thread[u] # Idle
    <3>1. PICK th, c : th = thread[u] /\ c = ctx[thread[u].h] OBVIOUS
    <3>2. Doing(u, th, c) /\ th.h \in Handle BY <2>2, <3>1 DEF ThreadsOK, Doing
    <3>3. Doing(u, th, c)'
      <4>1. th.h \in mixed => th.h \in mixed' BY <3>1
      <4> QED BY <3>2, <4>1, DoingStays
    <3>4. th.h = h => k = c
      <4>1. thread[u].pc # "idle" BY <3>1, <3>2, ThreadFacts
      <4>2. th.h = h => InUse(h) BY <3>1, <4>1 DEF InUse
      <4> QED BY <3>1, <4>2
    <3>5. ctx'[th.h] = c BY <1>1, <3>1, <3>2, <3>4
    <3> QED BY <1>1, <2>2, <3>1, <3>3, <3>5
  <2> QED BY <1>1, <2>1, <2>2
<1>6. Alone'
  <2> SUFFICES ASSUME NEW u \in Thread, NEW w \in Thread, u # w,
                      thread'[u].h = thread'[w].h, thread'[u].h \in Handle
               PROVE  thread'[u].op = "read"
    BY DEF Alone
  <2>1. CASE u = t BY <1>1, <2>1
  <2>2. CASE w = t BY <1>1, <2>2
  <2>3. CASE u # t /\ w # t BY <1>1, <2>3 DEF Alone
  <2> QED BY <2>1, <2>2, <2>3
<1>7. Mutex'
  <2> SUFFICES ASSUME NEW u \in Thread, thread'[u].op = "read", thread'[u].pc \in Holding
               PROVE  readmutex' = u
    BY DEF Mutex
  <2>1. u # t BY <1>1
  <2> QED BY <1>1, <2>1 DEF Mutex
<1>8. UsesOK' /\ StashesOK'
  <2>1. /\ thread[t].pc \notin Writing /\ x.pc \notin Writing /\ x.pc # "prefill"
        /\ UNCHANGED <<time, version, stashes, torn>>
    BY DEF Writing
  <2>2. ASSUME NEW u \in Thread, u # t, thread[u].pc \in Writing \cup {"prefill"}
        PROVE  /\ ctx'[thread[u].h] = ctx[thread[u].h]
               /\ thread[u].h \in mixed => thread[u].h \in mixed'
    <3>1. thread[u].pc # "idle" /\ thread[u].op # "read"
      <4>1. thread[u].pc \notin {"idle", "lock"} \cup Holding BY <2>2 DEF Writing, Holding
      <4> QED BY <4>1, ThreadFacts DEF Doing, AtPlace
    <3>2. thread[u].h # h BY <3>1
    <3>3. thread[u].h \in Handle BY <3>1, ThreadFacts
    <3> QED BY <1>1, <3>2, <3>3
  <2> QED BY <2>1, <2>2, StashesStay
<1> QED BY <1>3, <1>4, <1>5, <1>6, <1>7, <1>8

LEMMA OpenBeginKeeps ==
  ASSUME UadefsAssumption, Inv,
         NEW t \in Thread, NEW f \in Song, NEW h \in Handle, OpenBegin(t, f, h)
  PROVE  Inv'
<1>1. /\ thread[t].pc = "idle" /\ ctx[h] = Closed /\ ~InUse(h)
      /\ UNCHANGED <<time, version, stashes, nextstash, readmutex, torn>> /\ mixed' = mixed \ {h}
  BY DEF OpenBegin
<1>2. PICK k : k = [Closed EXCEPT !.song = f, !.created = time] OBVIOUS
<1>3. ctx' = [ctx EXCEPT ![h] = k] BY <1>1, <1>2 DEF OpenBegin, Inv, TypesOK, Closed
<1>4. PICK x : x = [Idle EXCEPT !.pc = "lookup", !.op = "open", !.h = h, !.slot = 1] OBVIOUS
<1>5. thread' = [thread EXCEPT ![t] = x] BY <1>4 DEF OpenBegin
<1>6. /\ x \in Activity /\ x.h = h /\ x.op = "open" /\ x.pc = "lookup" /\ x.at = 0
      /\ x.got = <<>> /\ x.slot = 1
  <2>1. Idle \in Activity /\ 1 \in 0 .. NStashes BY IdleFacts DEF UadefsAssumption
  <2> QED BY <1>4, <2>1 DEF Activity, Upset, Idle
<1>7. /\ k \in Context /\ k.song = f /\ k.blocks = <<>> /\ k.decoder = NoDecoder /\ k.created = time
  <2>1. Closed \in Context /\ time \in Nat BY ClosedFacts DEF Inv, TypesOK
  <2> QED BY <1>2, <2>1 DEF Context, Closed
<1>8. FileOK(h, k)'
  <2>1. time \in Nat /\ Length[f] \in Nat BY DEF Inv, TypesOK, UadefsAssumption
  <2>2. InBlocks(<<>>, Sounds(h, f)', Nat) BY DEF InBlocks
  <2>3. /\ ~NoDecoder.alive /\ NoDecoder.ver = -1 /\ NoDecoder.pos = 0 /\ NoDecoder.out = 0
    BY DEF NoDecoder
  <2> QED BY <1>1, <1>7, <2>1, <2>2, <2>3 DEF FileOK, Spawned
<1>9. Doing(t, x, k)'
  <2>1. AtPlace(x) BY <1>6 DEF AtPlace, Upset, Holding, Writing
  <2>3. ~Fresh(x) BY <1>6 DEF Fresh, Holding, Writing
  <2>4. Run(x.got, Sounds(x.h, k.song)', x.at, Nat) BY <1>6, RunEmpty
  <2> QED BY <1>1, <1>6, <1>7, <2>1, <2>3, <2>4 DEF Doing
<1>10. \A u \in Thread : thread[u].h # h BY <1>1, ThreadFacts DEF InUse
<1>11. x.pc \in Upset /\ x.pc \notin Holding \cup Writing \cup {"prefill"} BY <1>6 DEF Upset, Holding, Writing
<1>12. \A g : g # h => (g \in mixed <=> g \in mixed') BY <1>1
<1>13. /\ \A u \in Thread : thread[u].h = h => (h \in mixed <=> h \in mixed')
       /\ \A u \in Thread : thread[u].h = h => thread[u].op = "read" /\ x.op = "read"
  BY <1>10
<1>14. /\ thread[t].pc = "idle" /\ ~InUse(h)
       /\ UNCHANGED <<time, version, stashes, nextstash, readmutex, torn>>
  BY <1>1
<1>15. x \in Activity /\ x.h = h /\ k \in Context BY <1>6, <1>7
<1> QED BY <1>3, <1>5, <1>8, <1>9, <1>11, <1>12, <1>13, <1>14, <1>15, Begins

LEMMA ReadBeginKeeps ==
  ASSUME UadefsAssumption, Inv,
         NEW t \in Thread, NEW h \in Handle, NEW r \in ReadAt, ReadBegin(t, h, r)
  PROVE  Inv'
<1>1. /\ thread[t].pc = "idle" /\ ctx[h] # Closed
      /\ \A u \in Thread : thread[u].h = h => thread[u].op = "read"
      /\ UNCHANGED <<time, version, stashes, nextstash, ctx, readmutex, torn, mixed>>
  BY DEF ReadBegin
<1>2. PICK k \in Context : k = ctx[h] /\ FileOK(h, k) /\ k.song \in Song
  BY <1>1 DEF Inv, TypesOK, FilesOK, FileOK
<1>3. ctx' = [ctx EXCEPT ![h] = k] BY <1>1, <1>2 DEF Inv, TypesOK
<1>4. PICK a \in Nat, n \in Nat : a = r[1] /\ n = r[2] BY DEF UadefsAssumption
<1>5. PICK x : x = [Idle EXCEPT !.pc = "lock", !.op = "read", !.h = h, !.at = a, !.size = n] OBVIOUS
<1>6. thread' = [thread EXCEPT ![t] = x] BY <1>4, <1>5 DEF ReadBegin
<1>7. /\ x \in Activity /\ x.h = h /\ x.op = "read" /\ x.pc = "lock" /\ x.at = a
      /\ x.got = <<>> /\ x.slot = 0
  <2>1. Idle \in Activity BY IdleFacts
  <2> QED BY <1>5, <2>1 DEF Activity, Idle
<1>8. Doing(t, x, k)
  <2>1. AtPlace(x) BY <1>7 DEF AtPlace, Upset, Holding, Writing
  <2>3. ~Fresh(x) BY <1>7 DEF Fresh, Writing
  <2>4. Run(x.got, Sounds(x.h, k.song), x.at, Nat) BY <1>7, RunEmpty
  <2> QED BY <1>2, <1>7, <2>1, <2>3, <2>4 DEF Doing
<1>9. x.pc \notin Holding \cup Writing \cup {"prefill"} BY <1>7 DEF Holding, Writing
<1>10. \A u \in Thread : thread[u].h = h => thread[u].op = "read" /\ x.op = "read"
  BY <1>1, <1>7
<1>11. thread[t].pc = "idle" /\ UNCHANGED <<time, version, stashes, nextstash, readmutex, torn, mixed>>
  BY <1>1
<1>12. x \in Activity /\ x.h = h BY <1>7
<1>13. FileOK(h, k)' /\ Doing(t, x, k)'
  <2>1. mixed' = mixed BY <1>1
  <2>2. FileOK(h, k)' BY <1>1, <1>2, <2>1, FileStays
  <2>3. Doing(t, x, k)' BY <1>8, <2>1, DoingStays
  <2> QED BY <2>2, <2>3
<1> QED BY <1>13, <1>2, <1>3, <1>6, <1>8, <1>9, <1>10, <1>11, <1>12, Begins

LEMMA ReleaseBeginKeeps ==
  ASSUME UadefsAssumption, Inv, NEW t \in Thread, NEW h \in Handle, ReleaseBegin(t, h)
  PROVE  Inv'
<1>1. /\ thread[t].pc = "idle" /\ ctx[h] # Closed /\ ~InUse(h)
      /\ UNCHANGED <<time, version, stashes, nextstash, ctx, readmutex, torn, mixed>>
  BY DEF ReleaseBegin
<1>2. PICK k \in Context : k = ctx[h] /\ FileOK(h, k) /\ k.song \in Song
  BY <1>1 DEF Inv, TypesOK, FilesOK, FileOK
<1>3. ctx' = [ctx EXCEPT ![h] = k] BY <1>1, <1>2 DEF Inv, TypesOK
<1>4. PICK x : x = [Idle EXCEPT !.pc = "kill", !.op = "release", !.h = h] OBVIOUS
<1>5. thread' = [thread EXCEPT ![t] = x] BY <1>4 DEF ReleaseBegin
<1>6. /\ x \in Activity /\ x.h = h /\ x.op = "release" /\ x.pc = "kill" /\ x.at = 0
      /\ x.got = <<>> /\ x.slot = 0
  <2>1. Idle \in Activity BY IdleFacts
  <2> QED BY <1>4, <2>1 DEF Activity, Upset, Idle
<1>7. Doing(t, x, k)
  <2>1. AtPlace(x) BY <1>6 DEF AtPlace, Upset, Holding, Writing
  <2>3. ~Fresh(x) BY <1>6 DEF Fresh, Writing
  <2>4. Run(x.got, Sounds(x.h, k.song), x.at, Nat) BY <1>6, RunEmpty
  <2> QED BY <1>1, <1>2, <1>6, <2>1, <2>3, <2>4 DEF Doing
<1>8. \A u \in Thread : thread[u].h # h BY <1>1, ThreadFacts DEF InUse
<1>9. x.pc \in Upset /\ x.pc \notin Holding \cup Writing \cup {"prefill"} BY <1>6 DEF Upset, Holding, Writing
<1>10. FileOK(h, k)' /\ Doing(t, x, k)'
  <2>1. mixed' = mixed BY <1>1
  <2>2. FileOK(h, k)' BY <1>1, <1>2, <2>1, FileStays
  <2>3. Doing(t, x, k)' BY <1>7, <2>1, DoingStays
  <2> QED BY <2>2, <2>3
<1>11. \A u \in Thread : thread[u].h = h => thread[u].op = "read" /\ x.op = "read" BY <1>8
<1>12. /\ thread[t].pc = "idle" /\ ~InUse(h)
       /\ UNCHANGED <<time, version, stashes, nextstash, readmutex, torn, mixed>>
  BY <1>1
<1>13. x \in Activity /\ x.h = h BY <1>6
<1> QED BY <1>2, <1>3, <1>5, <1>9, <1>10, <1>11, <1>12, <1>13, Begins
------------------------------------------------------------------------------
(* The steps of decoders, of the clock, and of who writes songs *)

\* The copies under way, when threads and stashes are left alone.
LEMMA UsesStay ==
  ASSUME UadefsAssumption, Inv, UNCHANGED <<thread, stashes, torn, mixed>>,
         \A h \in Handle : ctx'[h].song = ctx[h].song /\ ctx'[h].created = ctx[h].created
  PROVE  UsesOK'
<1>1. \A i : \A u \in Thread : Writes(u, i)' <=> Writes(u, i) BY DEF Writes
<1>2. \A i : Written(i)' <=> Written(i) BY <1>1 DEF Written
<1>3. ASSUME NEW u \in Thread, thread[u].pc \in Writing \cup {"prefill"}
      PROVE  thread[u].h \in Handle
  BY <1>3, ThreadFacts DEF Writing
<1>4. ASSUME NEW u \in Thread, thread[u].pc = "prefill", thread[u].h \notin mixed
      PROVE  FromStash(thread[u], ctx[thread[u].h])'
  <2>1. FromStash(thread[u], ctx[thread[u].h]) BY <1>4 DEF Inv, UsesOK
  <2> QED BY <1>2, <1>3, <1>4, <2>1 DEF FromStash
<1>5. ASSUME NEW u \in Thread, thread[u].pc \in Writing, thread[u].slot \notin torn
      PROVE  /\ ToStash(thread[u], ctx[thread[u].h])'
             /\ \A w \in Thread : Writes(w, thread[u].slot)' => w = u
  <2>1. /\ ToStash(thread[u], ctx[thread[u].h])
        /\ \A w \in Thread : Writes(w, thread[u].slot) => w = u
    BY <1>5 DEF Inv, UsesOK
  <2> QED BY <1>1, <1>3, <1>5, <2>1 DEF ToStash
<1> QED BY <1>4, <1>5 DEF UsesOK

\* The stashes, when the versions in them remain as new as they were.
LEMMA StashesLeft ==
  ASSUME Inv, UNCHANGED <<thread, stashes, torn>>, time <= time', time' \in Nat,
         \A s : StashOK(s) /\ s.song \in Song /\ Filled(s) => Filled(s)'
  PROVE  StashesOK'
<1>1. \A i : Written(i)' <=> Written(i) BY DEF Written, Writes
<1>2. time \in Nat BY DEF Inv, TypesOK
<1>3. ASSUME NEW i \in 1 .. NStashes
      PROVE  /\ StashOK(stashes[i])'
             /\ i \notin torn /\ stashes[i].song \in Song /\ ~Written(i) => Filled(stashes[i])'
  <2>1. PICK s : s = stashes[i] OBVIOUS
  <2>2. StashOK(s) /\ (i \notin torn /\ s.song \in Song /\ ~Written(i) => Filled(s))
    BY <2>1 DEF Inv, StashesOK
  <2>3. StashOK(s)'
    <3>1. s.created <= time' BY <1>2, <2>2 DEF StashOK
    <3> QED BY <2>2, <3>1 DEF StashOK
  <2> QED BY <2>1, <2>2, <2>3
<1> QED BY <1>1, <1>3 DEF Inv, StashesOK

\* What a decoder does by itself: it writes, or it ends.
LEMMA DecoderFacts ==
  ASSUME UadefsAssumption, Inv, NEW h \in Handle, DecoderStep(h) \/ DecoderCrashes(h)
  PROVE  \E k \in Context :
           /\ ctx' = [ctx EXCEPT ![h] = k] /\ ctx[h].decoder.alive
           /\ k.song = ctx[h].song /\ k.blocks = ctx[h].blocks /\ k.created = ctx[h].created
           /\ k.decoder.ver = ctx[h].decoder.ver /\ k.decoder.pos = ctx[h].decoder.pos
           /\ k.decoder.out >= ctx[h].decoder.out
           /\ k.decoder.out <= Length[k.song] \/ k.decoder.out = ctx[h].decoder.out
<1>1. PICK c \in Context : c = ctx[h] BY DEF Inv, TypesOK
<1>2. PICK d \in Decoder : d = c.decoder BY DEF Context
<1>3. PICK e \in Decoder :
        /\ ctx' = [ctx EXCEPT ![h] = [c EXCEPT !.decoder = e]]
        /\ d.alive /\ e.ver = d.ver /\ e.pos = d.pos /\ e.out >= d.out
        /\ e.out <= Length[c.song] \/ e.out = d.out
  <2>1. CASE DecoderOutput(h)
    <3>1. PICK e : e = [d EXCEPT !.out = @ + 1] OBVIOUS
    <3>2. /\ e \in Decoder /\ e.ver = d.ver /\ e.pos = d.pos /\ e.out = d.out + 1 /\ d.out \in Nat
      BY <3>1 DEF Decoder
    <3>3. ctx' = [ctx EXCEPT ![h] = [c EXCEPT !.decoder = e]]
      BY <1>1, <1>2, <2>1, <3>1 DEF DecoderOutput, Inv, TypesOK, Context
    <3>4. d.alive /\ d.out < Length[c.song] BY <1>1, <1>2, <2>1 DEF DecoderOutput
    <3>5. c.song \in Song
      <4>1. FileOK(h, c) BY <1>1 DEF Inv, FilesOK
      <4>2. c # Closed BY <1>2, <3>4 DEF Closed, NoDecoder
      <4> QED BY <4>1, <4>2 DEF FileOK
    <3>6. Length[c.song] \in Nat BY <3>5 DEF UadefsAssumption
    <3>7. e.out >= d.out /\ e.out <= Length[c.song] BY <3>2, <3>4, <3>6
    <3> QED BY <3>2, <3>3, <3>4, <3>7
  <2>2. CASE DecoderEnds(h) \/ DecoderCrashes(h)
    <3>1. PICK e : e = [d EXCEPT !.alive = FALSE] OBVIOUS
    <3>2. e \in Decoder /\ e.ver = d.ver /\ e.pos = d.pos /\ e.out = d.out /\ d.out \in Nat
      BY <3>1 DEF Decoder
    <3>3. ctx' = [ctx EXCEPT ![h] = [c EXCEPT !.decoder = e]]
      BY <1>1, <1>2, <2>2, <3>1 DEF DecoderEnds, DecoderCrashes, Inv, TypesOK, Context
    <3>4. d.alive BY <1>1, <1>2, <2>2 DEF DecoderEnds, DecoderCrashes
    <3>5. e.out >= d.out BY <3>2
    <3> QED BY <3>2, <3>3, <3>4, <3>5
  <2> QED BY <2>1, <2>2 DEF DecoderStep
<1>4. PICK k : k = [c EXCEPT !.decoder = e] OBVIOUS
<1>5. /\ k \in Context /\ k.song = c.song /\ k.blocks = c.blocks
      /\ k.created = c.created /\ k.decoder = e
  BY <1>4 DEF Context
<1> QED BY <1>1, <1>2, <1>3, <1>4, <1>5

LEMMA DecoderKeeps ==
  ASSUME UadefsAssumption, Inv, NEW h \in Handle, DecoderStep(h) \/ DecoderCrashes(h)
  PROVE  Inv'
<1> USE DEF Inv
<1>1. PICK c \in Context, k \in Context :
        /\ c = ctx[h] /\ ctx' = [ctx EXCEPT ![h] = k] /\ c.decoder.alive
        /\ k.song = c.song /\ k.blocks = c.blocks /\ k.created = c.created
        /\ k.decoder.ver = c.decoder.ver /\ k.decoder.pos = c.decoder.pos
        /\ k.decoder.out >= c.decoder.out
        /\ k.decoder.out <= Length[k.song] \/ k.decoder.out = c.decoder.out
  BY DecoderFacts DEF TypesOK
<1>2. UNCHANGED <<time, version, stashes, nextstash, thread, readmutex, torn, mixed>>
  BY DEF DecoderStep, DecoderOutput, DecoderEnds, DecoderCrashes
<1>3. /\ ctx' \in [Handle -> Context] /\ ctx'[h] = k
      /\ \A g \in Handle : g # h => ctx'[g] = ctx[g]
  BY <1>1 DEF TypesOK
<1>4. FileOK(h, c) BY <1>1 DEF FilesOK
<1>5. Spawned(c) /\ Spawned(k) BY <1>1, <1>4 DEF FileOK, Spawned
<1>6. c.song \in Song
  <2>1. c # Closed BY <1>1 DEF Closed, NoDecoder
  <2> QED BY <1>4, <2>1 DEF FileOK
<1>7. FileOK(h, k)
  <2>1. PICK p \in Nat, o \in Nat, q \in Nat, l \in Nat :
          p = c.decoder.pos /\ o = c.decoder.out /\ q = k.decoder.out /\ l = Length[c.song]
    BY <1>6 DEF Context, Decoder, UadefsAssumption
  <2>2. p <= o /\ o <= l BY <1>4, <1>6, <2>1 DEF FileOK
  <2>3. p <= q /\ q <= l BY <1>1, <2>1, <2>2
  <2>4. k.decoder.pos <= k.decoder.out /\ k.decoder.out <= Length[k.song] BY <1>1, <2>1, <2>3
  <2> QED BY <1>1, <1>4, <1>5, <1>6, <2>4 DEF FileOK
<1>8. Ready(c) => Ready(k) BY <1>1, <1>5 DEF Ready, Drained
<1>9. ASSUME NEW u \in Thread, NEW th, Doing(u, th, c) PROVE Doing(u, th, k)
  <2>2. FreshOK(th, c) => FreshOK(th, k) BY <1>1, <1>5 DEF FreshOK
  <2>3. StoreOK(th, c) => StoreOK(th, k) BY <1>1, <1>5 DEF StoreOK, Drained
  <2>4. th.pc \notin {"lookup", "spawn", "prefill"}
    <3>1. c.decoder # NoDecoder BY <1>1 DEF NoDecoder
    <3> QED BY <1>9, <3>1 DEF Doing
  <2> QED BY <1>1, <1>5, <1>9, <2>2, <2>3, <2>4 DEF Doing
<1>10. TypesOK' BY <1>2, <1>3 DEF TypesOK
<1>11. FilesOK'
  <2> SUFFICES ASSUME NEW g \in Handle
               PROVE  /\ FileOK(g, ctx[g])'
                      /\ (\A u \in Thread : thread'[u].h = g => thread'[u].pc \notin Upset) =>
                           ctx'[g] = Closed \/ Ready(ctx[g])'
    BY DEF FilesOK
  <2>1. CASE g = h
    <3>1. FileOK(h, k)' BY <1>2, <1>7, FileStays
    <3>2. c # Closed BY <1>1 DEF Closed, NoDecoder
    <3>3. (\A u \in Thread : thread'[u].h = g => thread'[u].pc \notin Upset) => Ready(k)
      BY <1>1, <1>2, <1>8, <2>1, <3>2 DEF FilesOK
    <3> QED BY <1>3, <2>1, <3>1, <3>3
  <2>2. CASE g # h
    <3>1. PICK m : m = ctx[g] OBVIOUS
    <3>2. FileOK(g, m) BY <3>1 DEF FilesOK
    <3>3. FileOK(g, m)' BY <1>2, <3>2, FileStays
    <3>4. (\A u \in Thread : thread'[u].h = g => thread'[u].pc \notin Upset) =>
            m = Closed \/ Ready(m)
      BY <1>2, <3>1 DEF FilesOK
    <3> QED BY <1>3, <2>2, <3>1, <3>3, <3>4
  <2> QED BY <2>1, <2>2
<1>12. ThreadsOK'
  <2> SUFFICES ASSUME NEW u \in Thread
               PROVE  thread'[u] = Idle \/ Doing(u, thread[u], ctx[thread[u].h])'
    BY DEF ThreadsOK
  <2>1. CASE thread[u] # Idle
    <3>1. PICK th, m : th = thread[u] /\ m = ctx[thread[u].h] OBVIOUS
    <3>2. Doing(u, th, m) /\ th.h \in Handle BY <2>1, <3>1 DEF ThreadsOK, Doing
    <3>3. PICK n : n = ctx'[th.h] OBVIOUS
    <3>4. Doing(u, th, n)
      <4>1. CASE th.h = h BY <1>1, <1>3, <1>9, <3>1, <3>2, <3>3, <4>1
      <4>2. CASE th.h # h BY <1>3, <3>1, <3>2, <3>3, <4>2
      <4> QED BY <4>1, <4>2
    <3>5. Doing(u, th, n)' BY <1>2, <3>4, DoingStays
    <3> QED BY <1>2, <3>1, <3>3, <3>5
  <2> QED BY <1>2, <2>1
<1>13. Alone' /\ Mutex' BY <1>2 DEF Alone, Mutex
<1>14. UsesOK'
  <2>1. \A g \in Handle : ctx'[g].song = ctx[g].song /\ ctx'[g].created = ctx[g].created
    BY <1>1, <1>3
  <2> QED BY <1>2, <2>1, UsesStay
<1>15. StashesOK'
  <2>1. time <= time' /\ time' \in Nat BY <1>2 DEF TypesOK
  <2> QED BY <1>2, <2>1, FilledStays, StashesLeft
<1> QED BY <1>10, <1>11, <1>12, <1>13, <1>14, <1>15


LEMMA TickKeeps ==
  ASSUME UadefsAssumption, Inv, Tick \/ UNCHANGED vars PROVE Inv'
<1> USE DEF Inv
<1>1. /\ UNCHANGED <<version, stashes, nextstash, ctx, thread, readmutex, torn, mixed>>
      /\ time \in Nat /\ time' \in Nat /\ time <= time'
  BY DEF Tick, vars, TypesOK
<1>2. TypesOK' BY <1>1 DEF TypesOK
<1>3. FilesOK'
  <2>1. ASSUME NEW h, NEW c, FileOK(h, c) PROVE FileOK(h, c)'
    <3>1. c.created \in Nat /\ c.created <= time BY <2>1 DEF FileOK, Context
    <3>2. c.created <= time' BY <1>1, <3>1
    <3> QED BY <1>1, <2>1, <3>2 DEF FileOK, Since, Lately, Current, Sounds
  <2>2. ASSUME NEW g \in Handle PROVE FileOK(g, ctx[g])'
    <3>1. PICK c : c = ctx[g] OBVIOUS
    <3>2. FileOK(g, c) BY <3>1 DEF FilesOK
    <3>3. FileOK(g, c)' BY <2>1, <3>2
    <3> QED BY <1>1, <3>1, <3>3
  <2> QED BY <1>1, <2>2 DEF FilesOK, Ready, Drained, Spawned
<1>4. ThreadsOK'
  <2> SUFFICES ASSUME NEW u \in Thread
               PROVE  thread'[u] = Idle \/ Doing(u, thread[u], ctx[thread[u].h])'
    BY DEF ThreadsOK
  <2>1. PICK th, c : th = thread[u] /\ c = ctx[thread[u].h] OBVIOUS
  <2>2. Doing(u, th, c) => Doing(u, th, c)' BY <1>1, DoingStays
  <2> QED BY <1>1, <2>1, <2>2 DEF ThreadsOK
<1>5. Alone' /\ Mutex' BY <1>1 DEF Alone, Mutex
<1>6. UsesOK' BY <1>1, UsesStay
<1>7. StashesOK' BY <1>1, FilledStays, StashesLeft
<1> QED BY <1>2, <1>3, <1>4, <1>5, <1>6, <1>7


LEMMA SongReplacedKeeps ==
  ASSUME UadefsAssumption, Inv, NEW g \in Song, SongReplaced(g) PROVE Inv'
<1> USE DEF Inv
<1>1. /\ UNCHANGED <<time, stashes, nextstash, ctx, thread, readmutex, torn, mixed>>
      /\ version' = [version EXCEPT ![g] = Append(version[g], time)]
  BY DEF SongReplaced
<1>2. TypesOK'
  <2>1. version' \in [Song -> Seq(Nat)]
    <3>1. time \in Nat /\ version \in [Song -> Seq(Nat)] BY DEF TypesOK
    <3>2. Append(version[g], time) \in Seq(Nat) BY <3>1
    <3> QED BY <1>1, <3>1, <3>2
  <2>2. \A f \in Song : version'[f] # <<>> BY <1>1, VersionAdded
  <2> QED BY <1>1, <2>1, <2>2 DEF TypesOK
<1>3. FilesOK'
  <2>1. ASSUME NEW h, NEW c, FileOK(h, c) PROVE FileOK(h, c)'
    <3>1. c.created \in Nat /\ c.created <= time BY <2>1 DEF FileOK, Context
    <3>2. CASE c = Closed
      <4>1. ~Spawned(c) /\ c.blocks = <<>> /\ c.song \notin Song
        BY <3>2 DEF Closed, Spawned, NoDecoder, UadefsAssumption
      <4> QED BY <1>1, <2>1, <4>1 DEF FileOK, Sounds
    <3>3. CASE c.song \in Song
      <4>1. PICK f \in Song, w \in Nat : f = c.song /\ w = c.created /\ w <= time BY <3>1, <3>3
      <4>2. PICK v, y : v = c.decoder.ver /\ y = c.blocks[1][1][2] OBVIOUS
      <4>3. Since(f, v, w) => Since(f, v, w)' BY <1>1, <4>1, SinceStays
      <4>4. Lately(f, y, w) => Lately(f, y, w)' BY <1>1, <4>1, SinceStays
      <4>5. Spawned(c) => Since(c.song, c.decoder.ver, c.created)'
        BY <2>1, <4>1, <4>2, <4>3 DEF FileOK
      <4>6. c.blocks # <<>> =>
                c.blocks[1] # <<>> /\ (h \notin mixed => Lately(c.song, c.blocks[1][1][2], c.created)')
        BY <2>1, <4>1, <4>2, <4>4 DEF FileOK
      <4> QED BY <1>1, <2>1, <4>5, <4>6 DEF FileOK, Sounds
    <3> QED BY <2>1, <3>2, <3>3 DEF FileOK
  <2>2. ASSUME NEW h \in Handle PROVE FileOK(h, ctx[h])'
    <3>1. PICK c : c = ctx[h] OBVIOUS
    <3>2. FileOK(h, c) BY <3>1 DEF FilesOK
    <3>3. FileOK(h, c)' BY <2>1, <3>2
    <3> QED BY <1>1, <3>1, <3>3
  <2> QED BY <1>1, <2>2 DEF FilesOK, Ready, Drained, Spawned
<1>4. ThreadsOK'
  <2> SUFFICES ASSUME NEW u \in Thread
               PROVE  thread'[u] = Idle \/ Doing(u, thread[u], ctx[thread[u].h])'
    BY DEF ThreadsOK
  <2>1. PICK th, c : th = thread[u] /\ c = ctx[thread[u].h] OBVIOUS
  <2>2. Doing(u, th, c) => Doing(u, th, c)' BY <1>1, DoingStays
  <2> QED BY <1>1, <2>1, <2>2 DEF ThreadsOK
<1>5. Alone' /\ Mutex' BY <1>1 DEF Alone, Mutex
<1>6. UsesOK' BY <1>1, UsesStay
<1>7. StashesOK'
  <2>1. ASSUME NEW s, StashOK(s), s.song \in Song, Filled(s) PROVE Filled(s)'
    <3>1. PICK f \in Song, w \in Nat : f = s.song /\ w = s.created /\ w <= time
      BY <2>1 DEF StashOK
    <3>2. PICK v \in 0 .. Current(f) :
            Run(s.data, {f}, 0, {v}) /\ Len(s.data) = StashSize /\ Since(f, v, w)
      BY <2>1, <3>1 DEF Filled
    <3>3. Since(f, v, w)' BY <1>1, <3>1, <3>2, SinceStays
    <3>4. v \in 0 .. Current(f)' BY <3>3 DEF Since
    <3> QED BY <3>1, <3>2, <3>3, <3>4 DEF Filled
  <2>2. time <= time' /\ time' \in Nat BY <1>1 DEF TypesOK
  <2> QED BY <1>1, <2>1, <2>2, StashesLeft
<1> QED BY <1>2, <1>3, <1>4, <1>5, <1>6, <1>7
------------------------------------------------------------------------------
(* The invariant *)

LEMMA NoStashFacts == ASSUME UadefsAssumption, time = 0 PROVE StashOK(NoStash) /\ NoStash.song \notin Song
<1>1. PICK n \in Nat : n = StashSize BY StashSizeNat
<1>2. PICK s : s = [i \in 1 .. n |-> <<"none", 0, i - 1>>] OBVIOUS
<1>3. ASSUME NEW i \in 1 .. n
      PROVE  s[i] \in Unit /\ s[i][1] \in AnySong /\ s[i][2] \in Nat /\ s[i][3] = 0 + i - 1
  <2>1. PICK o \in Nat : o = i - 1 OBVIOUS
  <2>2. s[i] = <<"none", 0, o>> BY <1>2, <2>1
  <2>3. <<"none", 0, o>> \in Seq(Song \cup Nat \cup {"none", "size"}) OBVIOUS
  <2>4. Len(<<"none", 0, o>>) = 3 OBVIOUS
  <2>5. s[i] \in Unit BY <2>2, <2>3, <2>4 DEF Unit
  <2> QED BY <2>1, <2>2, <2>5 DEF AnySong
<1>4. s \in Seq(Unit) /\ Len(s) = n
  <2>1. s \in [1 .. n -> Unit] BY <1>2, <1>3
  <2> QED BY <2>1
<1>5. Run(s, AnySong, 0, Nat) BY <1>3, <1>4 DEF Run
<1>6. NoStash = [song |-> "none", data |-> s, created |-> 0] BY <1>1, <1>2 DEF NoStash
<1> QED BY <1>1, <1>4, <1>5, <1>6 DEF StashOK, UadefsAssumption

LEMMA InitInv == ASSUME UadefsAssumption, Init PROVE Inv
<1> USE DEF Init
<1>1. TypesOK
  <2>1. Idle \in Activity BY IdleFacts
  <2>2. NoDecoder \in Decoder BY DEF NoDecoder, Decoder
  <2>3. Closed \in Context BY <2>2 DEF Closed, Context
  <2>4. <<0>> \in Seq(Nat) /\ <<0>> # <<>> OBVIOUS
  <2>5. 1 \in 1 .. NStashes BY DEF UadefsAssumption
  <2> QED BY <2>1, <2>3, <2>4, <2>5 DEF TypesOK
<1>2. FilesOK
  <2>1. \A h \in Handle : FileOK(h, Closed) BY <1>1, ClosedFacts
  <2> QED BY <2>1 DEF FilesOK
<1>3. ThreadsOK BY DEF ThreadsOK
<1>4. Alone /\ Mutex
  <2>1. \A t \in Thread : thread[t].h \notin Handle /\ thread[t].op = "none"
    BY DEF Idle, UadefsAssumption
  <2> QED BY <2>1 DEF Alone, Mutex
<1>5. StashesOK
  <2>1. StashOK(NoStash) /\ NoStash.song \notin Song BY NoStashFacts
  <2>2. DOMAIN stashes = 1 .. NStashes /\ \A i \in 1 .. NStashes : stashes[i] = NoStash OBVIOUS
  <2> HIDE DEF Init
  <2> QED BY <2>1, <2>2 DEF StashesOK
<1>6. UsesOK BY DEF UsesOK, Idle, Writing
<1> QED BY <1>1, <1>2, <1>3, <1>4, <1>5, <1>6 DEF Inv


LEMMA ThreadStepKeeps ==
  ASSUME UadefsAssumption, Inv, NEW t \in Thread, ThreadStep(t)
  PROVE  Inv'
<1>1. CASE OpenLookup(t) BY <1>1, OpenLookupKeeps
<1>2. CASE OpenPrefill(t) BY <1>2, OpenPrefillKeeps
<1>3. CASE OpenSpawn(t) BY <1>3, OpenSpawnKeeps
<1>4. CASE OpenHeader(t) BY <1>4, OpenHeaderKeeps
<1>5. CASE OpenStash(t) BY <1>5, OpenStashKeeps
<1>6. CASE OpenStashData(t) BY <1>6, OpenStashDataKeeps
<1>7. CASE ReadLock(t) BY <1>7, ReadLockKeeps
<1>8. CASE ReadSpawn(t) BY <1>8, ReadSpawnKeeps
<1>9. CASE ReadSkip(t) BY <1>9, ReadSkipKeeps
<1>10. CASE ReadCached(t) BY <1>10, ReadCachedKeeps
<1>11. CASE FetchBlock(t) BY <1>11, FetchBlockKeeps
<1>12. CASE StoreBlock(t) BY <1>12, StoreBlockKeeps
<1>13. CASE ReadDone(t) \/ ReadSpawnFails(t) \/ ReadSkipShort(t) \/ ReadEnd(t) \/ StoreNothing(t)
  BY <1>13, ReadReturnsKeeps
<1>14. CASE Interrupt(t) BY <1>14, InterruptKeeps
<1>15. CASE Reap(t) BY <1>15, ReapKeeps
<1>16. CASE OpenPrefilled(t) BY <1>16, OpenPrefilledKeeps
<1>17. CASE OpenClaim(t) BY <1>17, OpenClaimKeeps
<1>18. CASE OpenStashName(t) BY <1>18, OpenStashNameKeeps
<1> QED BY <1>1, <1>2, <1>3, <1>4, <1>5, <1>6, <1>7, <1>8, <1>9, <1>10, <1>11, <1>12, <1>13,
           <1>14, <1>15, <1>16, <1>17, <1>18 DEF ThreadStep

LEMMA NextKeeps ==
  ASSUME UadefsAssumption, Inv, [Next]_vars PROVE Inv'
<1>1. ASSUME NEW t \in Thread, NEW h \in Handle, NEW f \in Song, OpenBegin(t, f, h) PROVE Inv'
  BY <1>1, OpenBeginKeeps
<1>2. ASSUME NEW t \in Thread, NEW h \in Handle, NEW r \in ReadAt, ReadBegin(t, h, r) PROVE Inv'
  BY <1>2, ReadBeginKeeps
<1>3. ASSUME NEW t \in Thread, NEW h \in Handle, ReleaseBegin(t, h) PROVE Inv'
  BY <1>3, ReleaseBeginKeeps
<1>4. ASSUME NEW t \in Thread, ThreadStep(t) PROVE Inv' BY <1>4, ThreadStepKeeps
<1>5. ASSUME NEW h \in Handle, DecoderStep(h) \/ DecoderCrashes(h) PROVE Inv'
  BY <1>5, DecoderKeeps
<1>6. CASE Tick \/ UNCHANGED vars BY <1>6, TickKeeps
<1>7. ASSUME NEW f \in Song, SongReplaced(f) PROVE Inv' BY <1>7, SongReplacedKeeps
<1> QED BY <1>1, <1>2, <1>3, <1>4, <1>5, <1>6, <1>7 DEF Next

(* The invariant of uadefs: the pipe of a decoder goes on where the cache     *)
(* ends, a thread that reads holds the mutex, a file that is being opened is  *)
(* nobody else's, what is on its way to a stash is of one decoder, and the    *)
(* copies to and from a stash that no other thread came between are exact.    *)
THEOREM InvHolds == UadefsAssumption => (Spec => []Inv)
<1> SUFFICES ASSUME UadefsAssumption PROVE Spec => []Inv OBVIOUS
<1>1. Init => Inv BY InitInv
<1>2. Inv /\ [Next]_vars => Inv' BY NextKeeps
<1> QED BY <1>1, <1>2, PTL DEF Spec

(* What uadefs_read() returns is the sound of its offset, from the stash, the *)
(* cache or the decoder, however many threads open songs; and of its song,    *)
(* unless the stash it was opened with was torn or being written.            *)
THEOREM ReadsSongHolds == UadefsAssumption => (Spec => []ReadsSong)
<1> SUFFICES ASSUME UadefsAssumption PROVE Spec => []ReadsSong OBVIOUS
<1>1. Inv => ReadsSong
  <2> SUFFICES ASSUME Inv, NEW t \in Thread, NEW i \in DOMAIN thread[t].got
               PROVE  /\ \/ thread[t].got[i][1] = ctx[thread[t].h].song
                         \/ thread[t].h \in mixed
                      /\ thread[t].got[i][3] = thread[t].at + i - 1
    BY DEF ReadsSong
  <2>1. thread[t] # Idle BY DEF Idle
  <2>2. Run(thread[t].got, Sounds(thread[t].h, ctx[thread[t].h].song), thread[t].at, Nat)
    BY <2>1 DEF Inv, ThreadsOK, Doing
  <2>3. i \in 1 .. Len(thread[t].got) BY <2>2 DEF Run
  <2> QED BY <2>2, <2>3 DEF Run, Sounds
<1>2. Spec => []Inv BY InvHolds
<1> QED BY <1>1, <1>2, PTL

(* A stash that nobody is writing, and that one thread wrote, holds the first  *)
(* sound of the song it is named after, all of one version of its file       *)
(* (struct stash), whatever was opened meanwhile.                           *)
THEOREM StashNamedHolds == UadefsAssumption => (Spec => []StashNamed)
<1> SUFFICES ASSUME UadefsAssumption PROVE Spec => []StashNamed OBVIOUS
<1>1. Inv => StashNamed
  <2> SUFFICES ASSUME Inv, NEW i \in (1 .. NStashes) \ torn, stashes[i].song \in Song,
                      ~Written(i), NEW o \in 1 .. StashSize
               PROVE  SubSeq(stashes[i].data[o], 1, 3) =
                        <<stashes[i].song, stashes[i].data[1][2], o - 1>>
    BY DEF StashNamed
  <2>1. PICK s, f : s = stashes[i].data /\ f = stashes[i].song OBVIOUS
  <2>2. Filled(stashes[i]) BY DEF Inv, StashesOK
  <2>3. PICK v : Run(s, {f}, 0, {v}) /\ Len(s) = StashSize BY <2>1, <2>2 DEF Filled
  <2>4. s \in Seq(Unit) /\ 1 \in 1 .. Len(s) /\ o \in 1 .. Len(s)
    <3>1. StashSize \in Nat \ {0} BY StashSizeNat
    <3> QED BY <2>3, <3>1 DEF Run
  <2>5. PICK u \in Unit : u = s[o] BY <2>4
  <2>6. u[1] = f /\ u[2] = v /\ u[3] = 0 + o - 1 /\ s[1][2] = v BY <2>3, <2>4, <2>5 DEF Run
  <2>7. SubSeq(u, 1, 3) = <<u[1], u[2], u[3]>>
    <3>1. u \in Seq(Song \cup Nat \cup {"none", "size"}) /\ 3 <= Len(u) BY DEF Unit
    <3>2. PICK S : S = Song \cup Nat \cup {"none", "size"} OBVIOUS
    <3>3. PICK p : p = SubSeq(u, 1, 3) OBVIOUS
    <3>4. p \in Seq(S) /\ Len(p) = 3 /\ \A j \in 1 .. 3 : p[j] = u[j] BY <3>1, <3>2, <3>3
    <3>5. PICK q : q = <<u[1], u[2], u[3]>> OBVIOUS
    <3>6. u[1] \in S /\ u[2] \in S /\ u[3] \in S BY <3>1, <3>2
    <3>7. q \in Seq(S) /\ Len(q) = 3 /\ q[1] = u[1] /\ q[2] = u[2] /\ q[3] = u[3] BY <3>5, <3>6
    <3>8. \A j \in 1 .. Len(p) : p[j] = q[j] BY <3>4, <3>7
    <3>9. p = q BY <3>4, <3>7, <3>8, SeqEqual
    <3> QED BY <3>3, <3>5, <3>9
  <2>8. 0 + o - 1 = o - 1 BY <2>4
  <2> QED BY <2>1, <2>5, <2>6, <2>7, <2>8
<1>2. Spec => []Inv BY InvHolds
<1> QED BY <1>1, <1>2, PTL

(* A song that was opened with a stash nobody was writing is the current one,  *)
(* or was replaced less than STASH_TIME before it was opened (check_stash()).  *)
THEOREM StaleBoundedHolds == UadefsAssumption => (Spec => []StaleBounded)
<1> SUFFICES ASSUME UadefsAssumption PROVE Spec => []StaleBounded OBVIOUS
<1>1. Inv => StaleBounded
  <2> SUFFICES ASSUME Inv, NEW h \in Handle \ mixed, ctx[h].blocks # <<>>
               PROVE  LET c == ctx[h]  v == c.blocks[1][1][2]
                      IN v = Current(c.song) \/ version[c.song][v + 2] > c.created - StashTime
    BY DEF StaleBounded, Open
  <2>1. FileOK(h, ctx[h]) BY DEF Inv, FilesOK
  <2> QED BY <2>1 DEF FileOK, Lately
<1>2. Spec => []Inv BY InvHolds
<1> QED BY <1>1, <1>2, PTL

(* A stash that one thread wrote is named after the song it has, and a song    *)
(* opened with one is not much older than its file (check_stash(),            *)
(* cache_prefill()).                                                        *)
THEOREM StashesKeptHolds == UadefsAssumption => (Spec => []StashesKept)
<1> SUFFICES ASSUME UadefsAssumption PROVE Spec => []StashesKept OBVIOUS
<1>1. StashNamed /\ StaleBounded => StashesKept BY DEF StashesKept
<1> QED BY <1>1, StashNamedHolds, StaleBoundedHolds, PTL
------------------------------------------------------------------------------
(* The size in the header.  A decoder writes none, so a unit that begins a    *)
(* stream is of three parts until the open that knows the size adds it.       *)

Headless(s) == s # <<>> => Len(s[1]) = 3

Corrected(c) == c.blocks # <<>> /\ (c.song \in Sized => Len(c.blocks[1][1]) = 4)

\* While a thread opens a file, the header is corrected at one place, and what
\* it has read for the stash was read before that.
Opened(th, c) ==
  /\ Headless(th.got)
  /\ th.pc \notin {"prefill", "kill", "wait"} => (th.got # <<>> => c.blocks # <<>>)
  /\ th.pc \in {"claim"} \cup Writing => Corrected(c)
  /\ th.pc \notin {"claim", "kill", "wait"} \cup Writing /\ c.blocks # <<>> =>
       Len(c.blocks[1][1]) = 3
  /\ th.pc = "store" /\ c.blocks = <<>> => Headless(th.block)

\* Nobody opens the file, or has begun to take it apart.
Usable(h) ==
  \A t \in Thread : thread[t].h = h =>
    thread[t].op = "read" \/ (thread[t].op = "release" /\ thread[t].pc = "kill")

StashesShort == \A i \in 1 .. NStashes : Len(stashes[i].data[1]) = 3

HeaderInv ==
  /\ StashesShort
  /\ \A t \in Thread : thread[t].op = "open" => Opened(thread[t], ctx[thread[t].h])
  /\ \A h \in Handle : ctx[h] # Closed /\ Usable(h) => Corrected(ctx[h])

\* One thread and its file change; who else has the file reads it.
LEMMA HeaderStep ==
  ASSUME UadefsAssumption, Inv, HeaderInv, NEW t \in Thread, NEW h \in Handle,
         thread[t].h \in {h, Nobody}, thread'[t].h \in {h, Nobody},
         \A u \in Thread : u # t => thread'[u] = thread[u],
         \A g \in Handle : g # h => ctx'[g] = ctx[g],
         StashesShort',
         \A u \in Thread : u # t /\ thread[u].h = h => thread[u].op = "read",
         thread'[t].op = "open" => thread'[t].h = h /\ Opened(thread'[t], ctx'[h]),
         ctx'[h] # Closed /\ Usable(h)' => Corrected(ctx'[h])
  PROVE  HeaderInv'
<1>1. ASSUME NEW u \in Thread, thread'[u].op = "open"
      PROVE  Opened(thread'[u], ctx'[thread'[u].h])
  <2>1. CASE u = t BY <1>1, <2>1
  <2>2. CASE u # t
    <3>1. thread[u].op = "open" /\ thread'[u] = thread[u] BY <1>1, <2>2
    <3>2. thread[u].h \in Handle BY <3>1, ThreadFacts
    <3>3. thread[u].h # h BY <2>2, <3>1
    <3> QED BY <3>1, <3>2, <3>3 DEF HeaderInv
  <2> QED BY <2>1, <2>2
<1>2. ASSUME NEW g \in Handle, ctx'[g] # Closed, Usable(g)' PROVE Corrected(ctx'[g])
  <2>1. CASE g = h BY <1>2, <2>1
  <2>2. CASE g # h
    <3>1. ctx'[g] = ctx[g] BY <2>2
    <3>2. ASSUME NEW u \in Thread, thread[u].h = g
          PROVE  thread[u].op = "read" \/ (thread[u].op = "release" /\ thread[u].pc = "kill")
      <4>1. u # t BY <2>2, <3>2 DEF UadefsAssumption
      <4> QED BY <1>2, <3>2, <4>1 DEF Usable
    <3>3. Usable(g) BY <3>2 DEF Usable
    <3> QED BY <1>2, <3>1, <3>3 DEF HeaderInv
  <2> QED BY <2>1, <2>2
<1> QED BY <1>1, <1>2 DEF HeaderInv

\* What the header of a thread's file is like.
LEMMA HeaderNow ==
  ASSUME UadefsAssumption, Inv, HeaderInv, NEW t \in Thread, thread[t].pc # "idle"
  PROVE  /\ thread[t].op = "open" => Opened(thread[t], ctx[thread[t].h])
         /\ thread[t].op = "read" => Corrected(ctx[thread[t].h])
<1>1. PICK h \in Handle : h = thread[t].h /\ Doing(t, thread[t], ctx[h]) BY WorkerFacts
<1>2. ctx[h] # Closed BY <1>1 DEF Doing, Closed, UadefsAssumption
<1>3. ASSUME thread[t].op = "read" PROVE Usable(h)
  <2>1. ASSUME NEW u \in Thread, thread[u].h = h PROVE thread[u].op = "read"
    BY <1>1, <1>3, <2>1 DEF Inv, Alone
  <2> QED BY <2>1 DEF Usable
<1> QED BY <1>1, <1>2, <1>3 DEF HeaderInv

\* A step of the thread that works on a file.
LEMMA HeaderWorks ==
  ASSUME UadefsAssumption, Inv, HeaderInv, NEW t \in Thread,
         thread[t].pc # "idle", thread[t].pc # "lock",
         NEW x, thread' = [thread EXCEPT ![t] = x],
         NEW k, ctx' = [ctx EXCEPT ![thread[t].h] = k],
         StashesShort',
         x = Idle \/ (x.h = thread[t].h /\ x.op = thread[t].op),
         x.op = "open" => Opened(x, k),
         thread[t].op = "read" => Corrected(k),
         x = Idle /\ thread[t].op # "read" => k = Closed \/ Corrected(k),
         x.op = "release" => x.pc # "kill"
  PROVE  HeaderInv'
<1>1. PICK h \in Handle : h = thread[t].h BY WorkerFacts
<1>2. /\ thread'[t] = x /\ ctx'[h] = k
      /\ \A u \in Thread : u # t => thread'[u] = thread[u]
      /\ \A g \in Handle : g # h => ctx'[g] = ctx[g]
  BY <1>1 DEF Inv, TypesOK
<1>3. x.h \in {h, Nobody} /\ (x = Idle => x.op = "none") BY <1>1 DEF Idle
<1>4. \A u \in Thread : u # t /\ thread[u].h = h => thread[u].op = "read"
  BY <1>1 DEF Inv, Alone
<1>5. ASSUME k # Closed, Usable(h)' PROVE Corrected(k)
  <2>1. CASE x = Idle BY <1>5, <2>1
  <2>2. CASE x # Idle /\ thread[t].op # "read"
    <3>1. thread'[t].h = h BY <1>1, <1>2, <2>2
    <3> QED BY <1>2, <1>5, <2>2, <3>1 DEF Usable
  <2> QED BY <2>1, <2>2
<1>6. thread'[t].op = "open" => thread'[t].h = h /\ Opened(thread'[t], ctx'[h])
  BY <1>1, <1>2, <1>3
<1> QED BY <1>1, <1>2, <1>3, <1>4, <1>5, <1>6, HeaderStep

\* Files whose songs and blocks stay, while no thread does anything.
LEMMA HeaderRests ==
  ASSUME UadefsAssumption, Inv, HeaderInv, UNCHANGED <<stashes, thread>>,
         \A h \in Handle : /\ ctx'[h].song = ctx[h].song /\ ctx'[h].blocks = ctx[h].blocks
                           /\ ctx[h] = Closed => ctx'[h] = Closed
  PROVE  HeaderInv'
<1>1. StashesShort' BY DEF HeaderInv, StashesShort
<1>2. ASSUME NEW u \in Thread, thread[u].op = "open"
      PROVE  Opened(thread[u], ctx'[thread[u].h])
  <2>1. thread[u].h \in Handle BY <1>2, ThreadFacts
  <2> QED BY <1>2, <2>1 DEF HeaderInv, Opened, Corrected
<1>3. ASSUME NEW g \in Handle, ctx'[g] # Closed, Usable(g) PROVE Corrected(ctx'[g])
  BY <1>3 DEF HeaderInv, Corrected
<1> QED BY <1>1, <1>2, <1>3 DEF HeaderInv, Usable

LEMMA AppendedFacts ==
  ASSUME NEW S, NEW s \in Seq(S), NEW y \in S
  PROVE  /\ Len(Append(s, y)) = Len(s) + 1 /\ Append(s, y) # <<>>
         /\ Append(s, y)[1] = (IF s = <<>> THEN y ELSE s[1])
<1>1. /\ Append(s, y) \in Seq(S) /\ Len(Append(s, y)) = Len(s) + 1
      /\ \A i \in 1 .. Len(s) : Append(s, y)[i] = s[i]
      /\ Append(s, y)[Len(s) + 1] = y
  OBVIOUS
<1>2. CASE s = <<>> BY <1>1, <1>2
<1>3. CASE s # <<>>
  <2>1. 1 \in 1 .. Len(s) BY <1>3
  <2> QED BY <1>1, <1>3, <2>1
<1> QED BY <1>2, <1>3

LEMMA OpenLookupHeader ==
  ASSUME UadefsAssumption, Inv, HeaderInv, NEW t \in Thread, OpenLookup(t) PROVE HeaderInv'
<1>1. PICK th \in Activity, c \in Context :
        /\ th = thread[t] /\ th.h \in Handle /\ c = ctx[th.h] /\ th.pc = "lookup"
        /\ Doing(t, th, c)
  BY WorkerFacts DEF OpenLookup
<1>2. c.blocks = <<>> /\ th.got = <<>> /\ th.op = "open"
  BY <1>1 DEF Doing, AtPlace, Upset, Holding, Writing
<1>3. ctx' = [ctx EXCEPT ![th.h] = c] /\ UNCHANGED stashes
  BY <1>1 DEF OpenLookup, Inv, TypesOK
<1>4. PICK x : /\ thread' = [thread EXCEPT ![t] = x] /\ x.h = th.h /\ x.op = "open"
               /\ x.got = <<>> /\ x.pc \in {"lookup", "spawn", "prefill"}
  <2>1. CASE thread' = [thread EXCEPT ![t].pc = "prefill"]
    <3>1. PICK x : x = [th EXCEPT !.pc = "prefill"] OBVIOUS
    <3>2. thread' = [thread EXCEPT ![t] = x] BY <1>1, <2>1, <3>1 DEF Inv, TypesOK
    <3>3. x.h = th.h /\ x.op = "open" /\ x.got = <<>> /\ x.pc = "prefill"
      BY <1>2, <3>1 DEF Activity
    <3> QED BY <3>2, <3>3
  <2>2. CASE thread' = [thread EXCEPT ![t].slot = @ + 1]
    <3>1. PICK x : x = [th EXCEPT !.slot = th.slot + 1] OBVIOUS
    <3>2. thread' = [thread EXCEPT ![t] = x] BY <1>1, <2>2, <3>1 DEF Inv, TypesOK
    <3>3. x.h = th.h /\ x.op = "open" /\ x.got = <<>> /\ x.pc = "lookup"
      BY <1>1, <1>2, <3>1 DEF Activity
    <3> QED BY <3>2, <3>3
  <2>3. CASE thread' = [thread EXCEPT ![t].pc = "spawn", ![t].slot = 0]
    <3>1. PICK x : x = [th EXCEPT !.pc = "spawn", !.slot = 0] OBVIOUS
    <3>2. thread' = [thread EXCEPT ![t] = x] BY <1>1, <2>3, <3>1 DEF Inv, TypesOK
    <3>3. x.h = th.h /\ x.op = "open" /\ x.got = <<>> /\ x.pc = "spawn"
      BY <1>2, <3>1 DEF Activity
    <3> QED BY <3>2, <3>3
  <2> QED BY <2>1, <2>2, <2>3 DEF OpenLookup, GoTo
<1>5. Opened(x, c) BY <1>2, <1>4 DEF Opened, Headless, Writing
<1>6. x # Idle /\ StashesShort' BY <1>3, <1>4 DEF Idle, HeaderInv, StashesShort
<1> QED BY <1>1, <1>2, <1>3, <1>4, <1>5, <1>6, HeaderWorks


LEMMA OpenPrefillHeader ==
  ASSUME UadefsAssumption, Inv, HeaderInv, NEW t \in Thread, OpenPrefill(t)
  PROVE  HeaderInv'
<1>1. PICK th \in Activity, c \in Context :
        /\ th = thread[t] /\ th.h \in Handle /\ c = ctx[th.h] /\ th.pc = "prefill"
        /\ Doing(t, th, c)
  BY WorkerFacts DEF OpenPrefill
<1>2. c.blocks = <<>> /\ th.op = "open" /\ th.slot # 0 /\ th.got \in Seq(Unit)
  BY <1>1 DEF Doing, AtPlace, Upset, Holding, Writing, Activity
<1>3. PICK i \in 1 .. NStashes : i = th.slot BY <1>2 DEF Activity, UadefsAssumption
<1>4. PICK a \in Seq(Unit) : a = stashes[i].data /\ Len(a) = StashSize /\ Len(a[1]) = 3
  BY DEF Inv, StashesOK, StashOK, Run, HeaderInv, StashesShort
<1>5. PICK n \in Nat : n = Len(th.got) /\ n + 1 \in 1 .. Len(a)
  <2>1. Len(th.got) < StashSize BY <1>1 DEF OpenPrefill
  <2>2. Len(th.got) \in Nat BY <1>2
  <2> QED BY <1>4, <2>1, <2>2
<1>6. PICK u \in Unit : u = a[n + 1] BY <1>5
<1>7. PICK got : got = Append(th.got, u) OBVIOUS
<1>8. Headless(got)
  <2>1. got[1] = (IF th.got = <<>> THEN u ELSE th.got[1]) BY <1>2, <1>7, AppendedFacts
  <2>2. Headless(th.got) BY <1>1, <1>2, HeaderNow DEF Opened
  <2>3. th.got = <<>> => n + 1 = 1 BY <1>5
  <2> QED BY <1>4, <1>6, <2>1, <2>2, <2>3 DEF Headless
<1>9. PICK x : x = [th EXCEPT !.got = got] OBVIOUS
<1>10. thread' = [thread EXCEPT ![t] = x]
  BY <1>1, <1>3, <1>4, <1>5, <1>6, <1>7, <1>9 DEF OpenPrefill, Inv, TypesOK
<1>11. x.h = th.h /\ x.op = "open" /\ x.got = got /\ x.pc = "prefill"
  BY <1>1, <1>2, <1>9 DEF Activity
<1>12. Opened(x, c) BY <1>2, <1>8, <1>11 DEF Opened, Writing
<1>13. ctx' = [ctx EXCEPT ![th.h] = c] /\ UNCHANGED stashes
  BY <1>1 DEF OpenPrefill, Inv, TypesOK
<1>14. x # Idle /\ StashesShort' BY <1>11, <1>13 DEF Idle, HeaderInv, StashesShort
<1> QED BY <1>1, <1>2, <1>10, <1>11, <1>12, <1>13, <1>14, HeaderWorks

LEMMA OpenPrefilledHeader ==
  ASSUME UadefsAssumption, Inv, HeaderInv, NEW t \in Thread, OpenPrefilled(t)
  PROVE  HeaderInv'
<1>1. PICK th \in Activity, c \in Context :
        /\ th = thread[t] /\ th.h \in Handle /\ c = ctx[th.h] /\ th.pc = "prefill"
        /\ Doing(t, th, c) /\ Len(th.got) = StashSize
  BY WorkerFacts DEF OpenPrefilled
<1>2. th.op = "open" /\ th.got \in Seq(Unit)
  BY <1>1 DEF Doing, AtPlace, Upset, Holding, Writing, Activity
<1>3. PICK bs : bs = Blocks(th.got) OBVIOUS
<1>4. Len(bs[1][1]) = 3
  <2>1. bs[1][1] = th.got[1] BY <1>1, <1>2, <1>3, FirstOfBlocks
  <2>2. Headless(th.got) BY <1>1, <1>2, HeaderNow DEF Opened
  <2>3. th.got # <<>> BY <1>1, <1>2, StashSizeNat
  <2> QED BY <2>1, <2>2, <2>3 DEF Headless
<1>5. PICK k : k = [c EXCEPT !.blocks = bs] OBVIOUS
<1>6. ctx' = [ctx EXCEPT ![th.h] = k] /\ k.blocks = bs /\ UNCHANGED stashes
  BY <1>1, <1>3, <1>5 DEF OpenPrefilled, Inv, TypesOK, Context
<1>7. PICK x : x = [th EXCEPT !.pc = "read", !.at = 0, !.size = StashSize, !.got = <<>>] OBVIOUS
<1>8. thread' = [thread EXCEPT ![t] = x] BY <1>1, <1>7 DEF OpenPrefilled, Warm, Inv, TypesOK
<1>9. x.h = th.h /\ x.op = "open" /\ x.got = <<>> /\ x.pc = "read"
  BY <1>2, <1>7 DEF Activity
<1>10. Opened(x, k) BY <1>4, <1>6, <1>9 DEF Opened, Headless, Writing
<1>11. x # Idle /\ StashesShort' BY <1>6, <1>9 DEF Idle, HeaderInv, StashesShort
<1> QED BY <1>1, <1>2, <1>6, <1>8, <1>9, <1>10, <1>11, HeaderWorks


LEMMA OpenSpawnHeader ==
  ASSUME UadefsAssumption, Inv, HeaderInv, NEW t \in Thread, OpenSpawn(t) PROVE HeaderInv'
<1>1. PICK th \in Activity, c \in Context :
        /\ th = thread[t] /\ th.h \in Handle /\ c = ctx[th.h] /\ th.pc = "spawn"
        /\ Doing(t, th, c)
  BY WorkerFacts DEF OpenSpawn
<1>2. c.blocks = <<>> /\ th.got = <<>> /\ th.op = "open" /\ c.song \in Song
  BY <1>1 DEF Doing, AtPlace, Upset, Holding, Writing
<1>3. PICK k : ctx' = [ctx EXCEPT ![th.h] = k] /\ k.blocks = <<>>
  <2>1. CASE Spawn(th.h) BY <1>1, <1>2, <2>1, SpawnFacts
  <2>2. CASE UNCHANGED ctx
    <3>1. ctx' = [ctx EXCEPT ![th.h] = c] BY <1>1, <2>2 DEF Inv, TypesOK
    <3> QED BY <1>2, <3>1
  <2> QED BY <1>1, <2>1, <2>2 DEF OpenSpawn
<1>4. PICK x : thread' = [thread EXCEPT ![t] = x] /\ x.h = th.h /\ x.op = "open"
               /\ x.got = <<>> /\ x.pc \in {"read", "kill"}
  <2>1. CASE Warm(t)
    <3>1. PICK x : x = [th EXCEPT !.pc = "read", !.at = 0, !.size = StashSize, !.got = <<>>] OBVIOUS
    <3>2. thread' = [thread EXCEPT ![t] = x] BY <1>1, <2>1, <3>1 DEF Warm, Inv, TypesOK
    <3>3. x.h = th.h /\ x.op = "open" /\ x.got = <<>> /\ x.pc = "read"
      BY <1>2, <3>1 DEF Activity
    <3> QED BY <3>2, <3>3
  <2>2. CASE GoTo(t, "kill")
    <3>1. PICK x : x = [th EXCEPT !.pc = "kill"] OBVIOUS
    <3>2. thread' = [thread EXCEPT ![t] = x] BY <1>1, <2>2, <3>1 DEF GoTo, Inv, TypesOK
    <3>3. x.h = th.h /\ x.op = "open" /\ x.got = <<>> /\ x.pc = "kill"
      BY <1>2, <3>1 DEF Activity
    <3> QED BY <3>2, <3>3
  <2> QED BY <2>1, <2>2 DEF OpenSpawn
<1>5. Opened(x, k) BY <1>3, <1>4 DEF Opened, Headless, Writing
<1>6. x # Idle BY <1>4 DEF Idle
<1>7. StashesShort' BY DEF OpenSpawn, HeaderInv, StashesShort
<1> QED BY <1>1, <1>2, <1>3, <1>4, <1>5, <1>6, <1>7, HeaderWorks


\* The size is added to a unit of three parts.
LEMMA SizeAdded ==
  ASSUME NEW c \in Context, c.blocks # <<>>, c.blocks[1] # <<>>, Len(c.blocks[1][1]) = 3,
         NEW k, k = [c EXCEPT !.blocks[1][1] = Append(c.blocks[1][1], "size")]
  PROVE  k.blocks # <<>> /\ Len(k.blocks[1][1]) = 4
<1>1. PICK bs \in Seq(Seq(Unit)) : bs = c.blocks BY DEF Context
<1>2. PICK b \in Seq(Unit) : b = bs[1] /\ 1 \in 1 .. Len(bs) BY <1>1
<1>3. PICK u \in Unit : u = b[1] /\ 1 \in 1 .. Len(b) BY <1>1, <1>2
<1>4. PICK w : w = Append(u, "size") OBVIOUS
<1>5. Len(w) = 4
  <2>1. PICK S : S = Song \cup Nat \cup {"none", "size"} OBVIOUS
  <2>2. u \in Seq(S) /\ Len(u) = 3 /\ "size" \in S BY <1>1, <1>2, <1>3, <2>1 DEF Unit
  <2>3. Len(w) = Len(u) + 1 BY <1>4, <2>2, AppendedFacts
  <2> QED BY <2>2, <2>3
<1>6. PICK nb : nb = [b EXCEPT ![1] = w] OBVIOUS
<1>7. PICK ns : ns = [bs EXCEPT ![1] = nb] OBVIOUS
<1>8. k.blocks = ns BY <1>1, <1>2, <1>3, <1>4, <1>6, <1>7 DEF Context
<1>9. nb[1] = w BY <1>3, <1>6
<1>10. ns[1] = nb /\ 1 \in DOMAIN ns BY <1>2, <1>7
<1>11. ns # <<>> BY <1>10
<1> QED BY <1>5, <1>8, <1>9, <1>10, <1>11

LEMMA OpenHeaderHeader ==
  ASSUME UadefsAssumption, Inv, HeaderInv, NEW t \in Thread, OpenHeader(t) PROVE HeaderInv'
<1>1. PICK th \in Activity, c \in Context :
        /\ th = thread[t] /\ th.h \in Handle /\ c = ctx[th.h] /\ th.pc = "header"
        /\ Doing(t, th, c) /\ FileOK(th.h, c)
  BY WorkerFacts DEF OpenHeader
<1>2. th.op = "open" /\ c.song \in Song /\ Len(th.got) = StashSize
  BY <1>1 DEF Doing, AtPlace, Upset, Holding, Writing
<1>3. Opened(th, c) BY <1>1, <1>2, HeaderNow
<1>4. c.blocks # <<>> /\ Len(c.blocks[1][1]) = 3
  <2>1. th.got # <<>> BY <1>2, StashSizeNat
  <2> QED BY <1>1, <1>3, <2>1 DEF Opened, Writing
<1>5. PICK k : ctx' = [ctx EXCEPT ![th.h] = k] /\ Corrected(k)
  <2>1. CASE c.song \in Sized
    <3>1. PICK k : k = [c EXCEPT !.blocks[1][1] = Append(c.blocks[1][1], "size")] OBVIOUS
    <3>2. ctx' = [ctx EXCEPT ![th.h] = k]
      BY <1>1, <2>1, <3>1 DEF OpenHeader, SizeKnown
    <3>3. c.blocks[1] # <<>> BY <1>1, <1>4 DEF FileOK
    <3>4. k.blocks # <<>> /\ Len(k.blocks[1][1]) = 4 BY <1>4, <3>1, <3>3, SizeAdded
    <3> QED BY <3>2, <3>4 DEF Corrected
  <2>2. CASE c.song \notin Sized
    <3>1. ctx' = ctx BY <1>1, <2>2 DEF OpenHeader, SizeKnown
    <3>2. ctx' = [ctx EXCEPT ![th.h] = c] BY <1>1, <3>1 DEF Inv, TypesOK
    <3> QED BY <1>4, <2>2, <3>2 DEF Corrected
  <2> QED BY <2>1, <2>2
<1>6. PICK x : /\ thread' = [thread EXCEPT ![t] = x]
               /\ x = Idle \/ (x.h = th.h /\ x.op = "open" /\ x.got = th.got /\ x.pc = "claim")
  <2>1. CASE th.slot = 0
    <3>1. PICK x : x = [th EXCEPT !.pc = "claim"] OBVIOUS
    <3>2. thread' = [thread EXCEPT ![t] = x]
      BY <1>1, <2>1, <3>1 DEF OpenHeader, AfterHeader, GoTo, Inv, TypesOK
    <3>3. x.h = th.h /\ x.op = "open" /\ x.got = th.got /\ x.pc = "claim"
      BY <1>2, <3>1 DEF Activity
    <3> QED BY <3>2, <3>3
  <2>2. CASE th.slot # 0 BY <1>1, <2>2 DEF OpenHeader, AfterHeader, Done
  <2> QED BY <2>1, <2>2
<1>7. x.op = "open" => Opened(x, k)
  <2>1. Idle.op # "open" BY DEF Idle
  <2> QED BY <1>3, <1>5, <1>6, <2>1 DEF Opened, Corrected
<1>8. x.op # "release" BY <1>6 DEF Idle
<1>9. UNCHANGED stashes BY DEF OpenHeader
<1> QED BY <1>1, <1>2, <1>5, <1>6, <1>7, <1>8, <1>9, HeaderWorks DEF HeaderInv, StashesShort

\* A thread that claims a stash, or writes something in it.
LEMMA StashingHeader ==
  ASSUME UadefsAssumption, Inv, HeaderInv, NEW t \in Thread,
         thread[t].pc \in {"claim"} \cup Writing,
         NEW x, thread' = [thread EXCEPT ![t] = x],
         x = Idle \/ /\ x.h = thread[t].h /\ x.op = thread[t].op
                     /\ x.got = thread[t].got /\ x.pc \in Writing,
         UNCHANGED ctx, StashesShort'
  PROVE  HeaderInv'
<1>1. PICK th \in Activity, c \in Context :
        /\ th = thread[t] /\ th.h \in Handle /\ c = ctx[th.h]
        /\ th.pc \in {"claim"} \cup Writing /\ Doing(t, th, c)
  BY WorkerFacts DEF Writing
<1>2. th.op = "open" BY <1>1 DEF Doing, AtPlace, Upset, Holding, Writing
<1>3. thread[t].pc \notin {"idle", "lock"} BY DEF Writing
<1>4. Opened(th, c) BY <1>1, <1>2, <1>3, HeaderNow
<1>5. Corrected(c) BY <1>1, <1>4 DEF Opened
<1>6. ctx' = [ctx EXCEPT ![th.h] = c] BY <1>1 DEF Inv, TypesOK
<1>7. x.op = "open" => Opened(x, c)
  <2>1. Idle.op # "open" BY DEF Idle
  <2> QED BY <1>1, <1>4, <1>5, <2>1 DEF Opened, Corrected, Writing
<1>8. x.op # "release" BY <1>1, <1>2 DEF Idle
<1> QED BY <1>1, <1>2, <1>3, <1>5, <1>6, <1>7, <1>8, HeaderWorks

LEMMA ShortStays ==
  ASSUME StashesOK, StashesShort, NEW i \in 1 .. NStashes, NEW s, Len(s.data[1]) = 3,
         stashes' = [stashes EXCEPT ![i] = s]
  PROVE  StashesShort'
<1>1. ASSUME NEW j \in 1 .. NStashes PROVE Len(stashes'[j].data[1]) = 3
  <2>1. CASE j = i BY <2>1 DEF StashesOK
  <2>2. CASE j # i BY <2>2 DEF StashesOK, StashesShort
  <2> QED BY <2>1, <2>2
<1> QED BY <1>1 DEF StashesShort

LEMMA OpenClaimHeader ==
  ASSUME UadefsAssumption, Inv, HeaderInv, NEW t \in Thread, OpenClaim(t) PROVE HeaderInv'
<1>1. PICK th \in Activity : th = thread[t] /\ th.pc = "claim"
  BY DEF OpenClaim, Inv, TypesOK
<1>2. PICK x : x = [th EXCEPT !.pc = "date", !.slot = nextstash] OBVIOUS
<1>3. thread' = [thread EXCEPT ![t] = x] BY <1>1, <1>2 DEF OpenClaim, Inv, TypesOK
<1>4. x.h = th.h /\ x.op = th.op /\ x.got = th.got /\ x.pc \in Writing
  BY <1>2 DEF Activity, Writing
<1>5. UNCHANGED ctx /\ StashesShort' BY DEF OpenClaim, HeaderInv, StashesShort
<1> QED BY <1>1, <1>3, <1>4, <1>5, StashingHeader

LEMMA OpenStashHeader ==
  ASSUME UadefsAssumption, Inv, HeaderInv, NEW t \in Thread, OpenStash(t) PROVE HeaderInv'
<1>1. thread[t].pc = "date" /\ thread[t].pc \in Writing BY DEF OpenStash, Writing
<1>2. PICK th \in Activity, i \in 1 .. NStashes : th = thread[t] /\ th.slot = i
  BY <1>1, WritingFacts DEF Inv, TypesOK
<1>3. PICK half, made : stashes' = [stashes EXCEPT ![i].song = half, ![i].created = made]
  BY <1>2 DEF OpenStash
<1>4. PICK q : q = stashes[i] /\ StashOK(q) /\ Len(q.data[1]) = 3
  BY DEF Inv, StashesOK, HeaderInv, StashesShort
<1>5. PICK s : s = [q EXCEPT !.song = half, !.created = made] OBVIOUS
<1>6. stashes' = [stashes EXCEPT ![i] = s] /\ Len(s.data[1]) = 3
  BY <1>3, <1>4, <1>5 DEF Inv, StashesOK, StashOK
<1>7. StashesShort' BY <1>6, ShortStays DEF Inv, HeaderInv
<1>8. PICK x : x = [th EXCEPT !.pc = "name"] OBVIOUS
<1>9. thread' = [thread EXCEPT ![t] = x]
  BY <1>2, <1>8 DEF OpenStash, GoTo, Inv, TypesOK
<1>10. x.h = th.h /\ x.op = th.op /\ x.got = th.got /\ x.pc \in Writing
  BY <1>8 DEF Activity, Writing
<1>11. UNCHANGED ctx BY DEF OpenStash
<1> QED BY <1>1, <1>2, <1>7, <1>9, <1>10, <1>11, StashingHeader

LEMMA OpenStashNameHeader ==
  ASSUME UadefsAssumption, Inv, HeaderInv, NEW t \in Thread, OpenStashName(t) PROVE HeaderInv'
<1>1. thread[t].pc = "name" /\ thread[t].pc \in Writing BY DEF OpenStashName, Writing
<1>2. PICK th \in Activity, i \in 1 .. NStashes : th = thread[t] /\ th.slot = i
  BY <1>1, WritingFacts DEF Inv, TypesOK
<1>3. PICK f : stashes' = [stashes EXCEPT ![i].song = f] BY <1>2 DEF OpenStashName
<1>4. PICK q : q = stashes[i] /\ StashOK(q) /\ Len(q.data[1]) = 3
  BY DEF Inv, StashesOK, HeaderInv, StashesShort
<1>5. PICK s : s = [q EXCEPT !.song = f] OBVIOUS
<1>6. stashes' = [stashes EXCEPT ![i] = s] /\ Len(s.data[1]) = 3
  BY <1>3, <1>4, <1>5 DEF Inv, StashesOK, StashOK
<1>7. StashesShort' BY <1>6, ShortStays DEF Inv, HeaderInv
<1>8. PICK x : x = [th EXCEPT !.pc = "stash", !.size = StashSize] OBVIOUS
<1>9. thread' = [thread EXCEPT ![t] = x]
  BY <1>2, <1>8 DEF OpenStashName, Inv, TypesOK
<1>10. x.h = th.h /\ x.op = th.op /\ x.got = th.got /\ x.pc \in Writing
  BY <1>8 DEF Activity, Writing
<1>11. UNCHANGED ctx BY DEF OpenStashName
<1> QED BY <1>1, <1>2, <1>7, <1>9, <1>10, <1>11, StashingHeader


LEMMA OpenStashDataHeader ==
  ASSUME UadefsAssumption, Inv, HeaderInv, NEW t \in Thread, OpenStashData(t) PROVE HeaderInv'
<1>1. thread[t].pc = "stash" /\ thread[t].pc \in Writing BY DEF OpenStashData, Writing
<1>2. PICK th \in Activity, i \in 1 .. NStashes : th = thread[t] /\ th.slot = i
  BY <1>1, WritingFacts DEF Inv, TypesOK
<1>3. PICK n \in Nat \ {0} : n = StashSize BY StashSizeNat
<1>4. PICK o \in 1 .. n : o = n - th.size + 1 /\ Len(th.got) = n
  BY <1>1, <1>2, <1>3, StasherFacts
<1>5. PICK q : q = stashes[i] /\ StashOK(q) /\ Len(q.data[1]) = 3
  BY DEF Inv, StashesOK, HeaderInv, StashesShort
<1>6. PICK b : b = [q.data EXCEPT ![o] = th.got[o]] OBVIOUS
<1>7. PICK s : s = [q EXCEPT !.data = b] OBVIOUS
<1>8. stashes' = [stashes EXCEPT ![i] = s] /\ s.data = b
  BY <1>2, <1>3, <1>4, <1>5, <1>6, <1>7 DEF OpenStashData, StashOf, Inv, StashesOK, StashOK
<1>9. Len(b[1]) = 3
  <2>1. PICK a \in Seq(Unit) : a = q.data /\ Len(a) = n
    BY <1>3, <1>5 DEF StashOK, Run
  <2>2. CASE o = 1
    <3>1. thread[t].op = "open" /\ thread[t].pc # "idle"
      BY <1>1, WorkerFacts DEF Doing, AtPlace, Upset, Holding, Writing
    <3>2. Headless(th.got) BY <1>2, <3>1, HeaderNow DEF Opened
    <3>3. b[1] = th.got[1] BY <1>3, <1>6, <2>1, <2>2
    <3> QED BY <1>3, <1>4, <3>2, <3>3 DEF Headless
  <2>3. CASE o # 1 BY <1>3, <1>5, <1>6, <2>1, <2>3
  <2> QED BY <2>2, <2>3
<1>10. StashesShort' BY <1>8, <1>9, ShortStays DEF Inv, HeaderInv
<1>11. UNCHANGED ctx BY DEF OpenStashData
<1>12. CASE th.size = 1
  <2>1. thread' = [thread EXCEPT ![t] = Idle] BY <1>2, <1>12 DEF OpenStashData, Done
  <2>2. PICK x : x = Idle /\ thread' = [thread EXCEPT ![t] = x] BY <2>1
  <2> QED BY <1>1, <1>10, <1>11, <2>2, StashingHeader
<1>13. CASE th.size # 1
  <2>1. PICK x : x = [th EXCEPT !.size = th.size - 1] OBVIOUS
  <2>2. thread' = [thread EXCEPT ![t] = x]
    BY <1>2, <1>13, <2>1 DEF OpenStashData, Inv, TypesOK
  <2>3. x.h = th.h /\ x.op = th.op /\ x.got = th.got /\ x.pc \in Writing
    BY <1>1, <1>2, <2>1 DEF Activity
  <2> QED BY <1>1, <1>2, <1>10, <1>11, <2>2, <2>3, StashingHeader
<1> QED BY <1>12, <1>13


\* Moving on to another place of the loop.
LEMMA MovedHeader ==
  ASSUME UadefsAssumption, Inv, HeaderInv, NEW t \in Thread, thread[t].pc \in Holding,
         NEW p \in {"read", "end", "header", "kill", "skip"},
         thread' = [thread EXCEPT ![t].pc = p],
         NEW k, ctx' = [ctx EXCEPT ![thread[t].h] = k],
         k.song = ctx[thread[t].h].song, k.blocks = ctx[thread[t].h].blocks,
         UNCHANGED stashes
  PROVE  HeaderInv'
<1>1. PICK th \in Activity, c \in Context :
        /\ th = thread[t] /\ th.h \in Handle /\ c = ctx[th.h] /\ th.pc \in Holding
        /\ Doing(t, th, c)
  BY WorkerFacts DEF Holding
<1>2. th.op \in {"open", "read"} BY <1>1 DEF Doing, AtPlace, Holding
<1>3. PICK x : x = [th EXCEPT !.pc = p] OBVIOUS
<1>4. thread' = [thread EXCEPT ![t] = x] BY <1>1, <1>3 DEF Inv, TypesOK
<1>5. x.h = th.h /\ x.op = th.op /\ x.got = th.got /\ x.pc = p BY <1>3 DEF Activity
<1>6. x.op = "open" => Opened(x, k)
  <2>1. ASSUME th.op = "open" PROVE Opened(x, k)
    <3>1. Opened(th, c) BY <1>1, <2>1, HeaderNow DEF Holding
    <3> QED BY <1>1, <1>5, <3>1 DEF Opened, Holding, Writing
  <2> QED BY <1>5, <2>1
<1>7. th.op = "read" => Corrected(k)
  <2>1. th.op = "read" => Corrected(c) BY <1>1, HeaderNow DEF Holding
  <2> QED BY <1>1, <2>1 DEF Corrected
<1>8. x # Idle /\ StashesShort' BY <1>2, <1>5 DEF Idle, HeaderInv, StashesShort
<1>9. x.op # "release" BY <1>2, <1>5
<1>10. thread[t].pc # "idle" /\ thread[t].pc # "lock" BY DEF Holding
<1> QED BY <1>1, <1>2, <1>4, <1>5, <1>6, <1>7, <1>8, <1>9, <1>10, HeaderWorks

LEMMA ReadEndsHeader ==
  ASSUME UadefsAssumption, Inv, HeaderInv, NEW t \in Thread, thread[t].pc \in Holding, ReadEnds(t)
  PROVE  HeaderInv'
<1>1. PICK th \in Activity, c \in Context :
        /\ th = thread[t] /\ th.h \in Handle /\ c = ctx[th.h] /\ th.pc \in Holding
        /\ Doing(t, th, c)
  BY WorkerFacts DEF Holding
<1>2. ctx' = [ctx EXCEPT ![th.h] = c] /\ UNCHANGED stashes
  BY <1>1 DEF ReadEnds, Inv, TypesOK
<1>3. CASE th.op = "read"
  <2>1. thread' = [thread EXCEPT ![t] = Idle] BY <1>1, <1>3 DEF ReadEnds, Done
  <2>2. Corrected(c) BY <1>1, <1>3, HeaderNow DEF Holding
  <2>3. Idle.op = "none" /\ StashesShort' BY <1>2 DEF Idle, HeaderInv, StashesShort
  <2> QED BY <1>1, <1>2, <1>3, <2>1, <2>2, <2>3, HeaderWorks DEF Holding
<1>4. CASE th.op # "read"
  <2>1. PICK p \in {"header", "kill"} : thread' = [thread EXCEPT ![t].pc = p]
    BY <1>1, <1>4 DEF ReadEnds, GoTo
  <2> QED BY <1>1, <1>2, <2>1, MovedHeader
<1> QED BY <1>3, <1>4

LEMMA ReadCachedHeader ==
  ASSUME UadefsAssumption, Inv, HeaderInv, NEW t \in Thread, ReadCached(t) PROVE HeaderInv'
<1>1. PICK th \in Activity, c \in Context :
        /\ th = thread[t] /\ th.h \in Handle /\ c = ctx[th.h] /\ th.pc = "read"
        /\ Doing(t, th, c) /\ FileOK(th.h, c)
  BY WorkerFacts DEF ReadCached
<1>2. /\ th.op \in {"open", "read"} /\ (th.op = "open" => th.at = 0)
  BY <1>1 DEF Doing, AtPlace, Holding
<1>3. PICK more : more = Cached(th) OBVIOUS
<1>4. /\ more # <<>> /\ Index(th) < Len(c.blocks) /\ Left(th) > 0
      /\ thread' = [thread EXCEPT ![t].got = @ \o more]
      /\ ctx' = ctx /\ stashes' = stashes
  BY <1>1, <1>3 DEF ReadCached
<1>5. PICK x : x = [th EXCEPT !.got = th.got \o more] OBVIOUS
<1>6. thread' = [thread EXCEPT ![t] = x] BY <1>1, <1>4, <1>5 DEF Inv, TypesOK
<1>7. x.h = th.h /\ x.op = th.op /\ x.got = th.got \o more /\ x.pc = "read"
  BY <1>1, <1>5 DEF Activity
<1>8. more \in Seq(Unit)
  <2>1. PICK f, v : f = Sounds(th.h, c.song) /\ v = Nat OBVIOUS
  <2>2. InBlocks(ctx[th.h].blocks, f, v) BY <1>1, <2>1 DEF FileOK
  <2>3. Left(th) > 0 /\ Index(th) < Len(ctx[th.h].blocks) BY <1>1, <1>4
  <2>4. Run(Cached(th), f, Position(th), v) BY <2>2, <2>3, CachedFacts
  <2> QED BY <1>3, <2>4 DEF Run
<1>9. ASSUME th.op = "open" PROVE Opened(x, c)
  <2>1. Opened(th, c) BY <1>1, <1>9, HeaderNow
  <2>2. th.got \in Seq(Unit) /\ more \in Seq(Unit) BY <1>8 DEF Activity
  <2>3. c.blocks # <<>>
    <3>1. th.at + Len(th.got) \in Nat BY <2>2 DEF Activity
    <3>2. Index(th) \in Nat
      <4>1. PICK B \in Nat \ {0} : B = BlockSize BY DEF UadefsAssumption
      <4> QED BY <3>1, <4>1, BlockIndex DEF Index, Position
    <3> QED BY <1>4, <3>2
  <2>4. Len(c.blocks[1][1]) = 3 BY <1>1, <2>1, <2>3 DEF Opened, Writing
  <2>5. CASE th.got = <<>>
    <3>1. x.got = more BY <1>7, <2>2, <2>5
    <3>2. more[1] = c.blocks[1][1]
      <4>1. PICK B \in Nat \ {0} : B = BlockSize BY DEF UadefsAssumption
      <4>2. Position(th) = 0 BY <1>2, <1>9, <2>5 DEF Position
      <4>3. 0 \div B = 0 /\ 0 * B = 0 BY <4>1
      <4>4. Index(th) = 0 /\ Lsb(th) = 0 BY <4>1, <4>2, <4>3 DEF Index, Lsb
      <4>5. PICK b \in Seq(Unit) : b = c.blocks[1] BY <2>3 DEF Context
      <4>6. PICK n \in Nat : n = Left(th) /\ n > 0 BY <1>4 DEF Left, Activity
      <4>7. PICK m \in Nat : m = BSize(th)
        <5>1. BSize(th) = Min({B, n}) BY <4>1, <4>4, <4>6 DEF BSize
        <5> QED BY <4>1, <4>6, <5>1, MinOfTwo
      <4>8. PICK last \in Nat : last = Min({0 + m, Len(b)}) /\ last <= Len(b)
        <5>1. 0 + m \in Nat /\ Len(b) \in Nat BY <4>5
        <5> QED BY <5>1, MinOfTwo
      <4>9. more = SubSeq(b, 1, last)
        BY <1>1, <1>3, <4>4, <4>5, <4>7, <4>8 DEF Cached
      <4>10. last >= 1
        <5>1. CASE last = 0
          <6>1. SubSeq(b, 1, last) = <<>> BY <4>5, <5>1, EmptySubSeq
          <6> QED BY <1>4, <4>9, <6>1
        <5> QED BY <5>1
      <4>11. \A q \in 1 .. last - 1 + 1 : SubSeq(b, 1, last)[q] = b[1 + q - 1]
        BY <4>5, <4>8, <4>10, SubSeqFacts
      <4>12. 1 \in 1 .. last - 1 + 1 BY <4>10
      <4> QED BY <4>5, <4>9, <4>11, <4>12
    <3> QED BY <1>7, <2>3, <2>4, <3>1, <3>2 DEF Opened, Headless, Writing
  <2>6. CASE th.got # <<>>
    <3>1. Len(th.got[1]) = 3 BY <2>1, <2>6 DEF Opened, Headless, Writing
    <3>2. x.got[1] = th.got[1] /\ x.got # <<>> BY <1>7, <2>2, <2>6
    <3> QED BY <1>7, <2>3, <2>4, <3>1, <3>2 DEF Opened, Headless, Writing
  <2> QED BY <2>5, <2>6
<1>10. th.op = "read" => Corrected(c) BY <1>1, HeaderNow
<1>11. ctx' = [ctx EXCEPT ![th.h] = c] BY <1>1, <1>4 DEF Inv, TypesOK
<1>12. x # Idle /\ x.op # "release" /\ StashesShort'
  BY <1>2, <1>4, <1>7 DEF Idle, HeaderInv, StashesShort
<1> QED BY <1>1, <1>2, <1>6, <1>7, <1>9, <1>10, <1>11, <1>12, HeaderWorks

LEMMA FetchBlockHeader ==
  ASSUME UadefsAssumption, Inv, HeaderInv, NEW t \in Thread, FetchBlock(t) PROVE HeaderInv'
<1>1. PICK th \in Activity, c \in Context :
        /\ th = thread[t] /\ th.h \in Handle /\ c = ctx[th.h] /\ th.pc = "read"
        /\ Doing(t, th, c) /\ FileOK(th.h, c)
  BY WorkerFacts DEF FetchBlock
<1>2. th.op \in {"open", "read"} /\ c.song \in Song BY <1>1 DEF Doing, AtPlace, Holding
<1>3. PICK b : b = Piece(c, BlockSize) OBVIOUS
<1>4. PICK k : k = [c EXCEPT !.decoder.pos = @ + Len(b)] OBVIOUS
<1>5. /\ ctx' = [ctx EXCEPT ![th.h] = k] /\ k.song = c.song /\ k.blocks = c.blocks
  BY <1>1, <1>3, <1>4 DEF FetchBlock, Inv, TypesOK, Context
<1>6. PICK x : x = [th EXCEPT !.pc = "store", !.block = b] OBVIOUS
<1>7. thread' = [thread EXCEPT ![t] = x] BY <1>1, <1>3, <1>6 DEF FetchBlock, Inv, TypesOK
<1>8. x.h = th.h /\ x.op = th.op /\ x.got = th.got /\ x.pc = "store" /\ x.block = b
  BY <1>6 DEF Activity
<1>9. ASSUME b # <<>> PROVE Len(b[1]) = 3
  <2>1. PICK p \in Nat, q \in Nat, l \in Nat, v \in Nat \cup {-1} :
          p = c.decoder.pos /\ q = c.decoder.out /\ l = Length[c.song] /\ v = c.decoder.ver
    BY <1>2 DEF Context, Decoder, UadefsAssumption
  <2>2. PICK B \in Nat : B = BlockSize BY DEF UadefsAssumption
  <2>3. PICK last \in Nat : last = Min({p + B, q}) /\ last <= q
    <3>1. p + B \in Nat OBVIOUS
    <3> QED BY <3>1, MinOfTwo
  <2>4. q <= l BY <1>1, <1>2, <2>1 DEF FileOK
  <2>5. PICK f : f = c.song OBVIOUS
  <2>6. PICK s : s = [o \in 1 .. l |-> <<f, v, o - 1>>] OBVIOUS
  <2>7. b = SubSeq(s, p + 1, last)
    BY <1>3, <2>1, <2>2, <2>3, <2>5, <2>6 DEF Piece, Stream
  <2>8. PICK T : T = {<<f, v, o - 1>> : o \in 1 .. l} OBVIOUS
  <2>9. s \in Seq(T) /\ Len(s) = l
    <3>1. \A o \in 1 .. l : s[o] \in T BY <2>6, <2>8
    <3> QED BY <2>6, <3>1
  <2>10. p + 1 <= last
    <3>1. CASE p + 1 > last
      <4>1. SubSeq(s, p + 1, last) = <<>> BY <2>9, <3>1, EmptySubSeq
      <4> QED BY <1>9, <2>7, <4>1
    <3> QED BY <3>1
  <2>11. b[1] = s[p + 1]
    <3>1. /\ p + 1 \in Nat /\ p + 1 >= 1 /\ p + 1 <= last + 1 /\ last <= Len(s)
      BY <2>3, <2>4, <2>9, <2>10
    <3>2. \A j \in 1 .. last - (p + 1) + 1 : SubSeq(s, p + 1, last)[j] = s[(p + 1) + j - 1]
      BY <2>9, <3>1, SubSeqFacts
    <3>3. 1 \in 1 .. last - (p + 1) + 1 /\ (p + 1) + 1 - 1 = p + 1 BY <2>10
    <3> QED BY <2>7, <3>2, <3>3
  <2>12. p + 1 \in 1 .. l BY <2>3, <2>4, <2>10
  <2>13. b[1] = <<f, v, (p + 1) - 1>> BY <2>6, <2>11, <2>12
  <2> QED BY <2>13
<1>10. ASSUME th.op = "open" PROVE Opened(x, k)
  <2>1. Opened(th, c) BY <1>1, <1>10, HeaderNow
  <2> QED BY <1>1, <1>5, <1>8, <1>9, <2>1 DEF Opened, Headless, Writing
<1>11. th.op = "read" => Corrected(k)
  <2>1. th.op = "read" => Corrected(c) BY <1>1, HeaderNow
  <2> QED BY <1>5, <2>1 DEF Corrected
<1>12. x # Idle /\ x.op # "release" BY <1>2, <1>8 DEF Idle
<1>13. StashesShort' BY DEF FetchBlock, HeaderInv, StashesShort
<1> QED BY <1>1, <1>2, <1>5, <1>7, <1>8, <1>10, <1>11, <1>12, <1>13, HeaderWorks

LEMMA StoreBlockHeader ==
  ASSUME UadefsAssumption, Inv, HeaderInv, NEW t \in Thread, StoreBlock(t) PROVE HeaderInv'
<1>1. PICK th \in Activity, c \in Context :
        /\ th = thread[t] /\ th.h \in Handle /\ c = ctx[th.h] /\ th.pc = "store"
        /\ Doing(t, th, c)
  BY WorkerFacts DEF StoreBlock
<1>2. th.op \in {"open", "read"} BY <1>1 DEF Doing, AtPlace, Holding
<1>3. PICK b \in Seq(Unit), bs \in Seq(Seq(Unit)) :
        b = th.block /\ b # <<>> /\ bs = c.blocks
  BY <1>1 DEF StoreBlock, Activity, Context
<1>4. PICK k : k = [c EXCEPT !.blocks = Append(bs, b)] OBVIOUS
<1>5. ctx' = [ctx EXCEPT ![th.h] = k] /\ k.song = c.song /\ k.blocks = Append(bs, b)
  BY <1>1, <1>3, <1>4 DEF StoreBlock, Inv, TypesOK, Context
<1>6. /\ k.blocks # <<>> /\ k.blocks[1] = (IF bs = <<>> THEN b ELSE bs[1])
  <2>1. PICK S : S = Seq(Unit) OBVIOUS
  <2>2. bs \in Seq(S) /\ b \in S BY <1>3, <2>1
  <2>3. Append(bs, b) # <<>> /\ Append(bs, b)[1] = (IF bs = <<>> THEN b ELSE bs[1])
    BY <2>2, AppendedFacts
  <2> QED BY <1>5, <2>3
<1>7. PICK p \in {"read", "end"} : thread' = [thread EXCEPT ![t].block = <<>>, ![t].pc = p]
  BY DEF StoreBlock
<1>8. PICK x : x = [th EXCEPT !.block = <<>>, !.pc = p] OBVIOUS
<1>9. thread' = [thread EXCEPT ![t] = x] BY <1>1, <1>7, <1>8 DEF Inv, TypesOK
<1>10. x.h = th.h /\ x.op = th.op /\ x.got = th.got /\ x.pc = p BY <1>8 DEF Activity
<1>11. ASSUME th.op = "open" PROVE Opened(x, k)
  <2>1. Opened(th, c) BY <1>1, <1>11, HeaderNow
  <2>2. Len(k.blocks[1][1]) = 3 BY <1>1, <1>3, <1>6, <2>1 DEF Opened, Headless, Writing
  <2> QED BY <1>6, <1>10, <2>1, <2>2 DEF Opened, Writing
<1>12. ASSUME th.op = "read" PROVE Corrected(k)
  <2>1. Corrected(c) BY <1>1, <1>12, HeaderNow
  <2> QED BY <1>3, <1>5, <1>6, <2>1 DEF Corrected
<1>13. x # Idle /\ x.op # "release" BY <1>2, <1>10 DEF Idle
<1>14. StashesShort' BY DEF StoreBlock, HeaderInv, StashesShort
<1> QED BY <1>1, <1>2, <1>5, <1>9, <1>10, <1>11, <1>12, <1>13, <1>14, HeaderWorks

LEMMA InterruptHeader ==
  ASSUME UadefsAssumption, Inv, HeaderInv, NEW t \in Thread, Interrupt(t) PROVE HeaderInv'
<1>1. PICK th \in Activity, c \in Context :
        /\ th = thread[t] /\ th.h \in Handle /\ c = ctx[th.h] /\ th.pc = "kill"
        /\ Doing(t, th, c)
  BY WorkerFacts DEF Interrupt
<1>2. th.op \in {"open", "release"} BY <1>1 DEF Doing, AtPlace, Holding
<1>3. PICK alive \in {c.decoder.alive, FALSE} :
        ctx' = [ctx EXCEPT ![th.h].decoder.alive = alive, ![th.h].blocks = <<>>]
  BY <1>1 DEF Interrupt
<1>4. PICK k : k = [c EXCEPT !.decoder.alive = alive, !.blocks = <<>>] OBVIOUS
<1>5. ctx' = [ctx EXCEPT ![th.h] = k] BY <1>1, <1>3, <1>4 DEF Inv, TypesOK
<1>6. PICK x : x = [th EXCEPT !.pc = "wait"] OBVIOUS
<1>7. thread' = [thread EXCEPT ![t] = x] BY <1>1, <1>6 DEF Interrupt, GoTo, Inv, TypesOK
<1>8. x.h = th.h /\ x.op = th.op /\ x.got = th.got /\ x.pc = "wait" BY <1>6 DEF Activity
<1>9. ASSUME th.op = "open" PROVE Opened(x, k)
  <2>1. Opened(th, c) BY <1>1, <1>9, HeaderNow
  <2> QED BY <1>8, <2>1 DEF Opened, Writing
<1>10. x # Idle BY <1>2, <1>8 DEF Idle
<1>11. StashesShort' BY DEF Interrupt, HeaderInv, StashesShort
<1> QED BY <1>1, <1>2, <1>5, <1>7, <1>8, <1>9, <1>10, <1>11, HeaderWorks

LEMMA ReapHeader ==
  ASSUME UadefsAssumption, Inv, HeaderInv, NEW t \in Thread, Reap(t) PROVE HeaderInv'
<1>1. thread[t].pc = "wait" BY DEF Reap
<1>2. Doing(t, thread[t], ctx[thread[t].h]) BY <1>1, WorkerFacts
<1>3. thread[t].op # "read" BY <1>1, <1>2 DEF Doing, AtPlace, Holding
<1>4. /\ ctx' = [ctx EXCEPT ![thread[t].h] = Closed]
      /\ thread' = [thread EXCEPT ![t] = Idle]
  BY DEF Reap, Done
<1>5. Idle.op = "none" /\ StashesShort' BY DEF Reap, Idle, HeaderInv, StashesShort
<1> QED BY <1>1, <1>3, <1>4, <1>5, HeaderWorks

\* A call that begins: the thread had no file.
LEMMA OpenBeginHeader ==
  ASSUME UadefsAssumption, Inv, HeaderInv,
         NEW t \in Thread, NEW f \in Song, NEW h \in Handle, OpenBegin(t, f, h)
  PROVE  HeaderInv'
<1>1. PICK x : x = [Idle EXCEPT !.pc = "lookup", !.op = "open", !.h = h, !.slot = 1] OBVIOUS
<1>2. x.h = h /\ x.op = "open" /\ x.pc = "lookup" /\ x.got = <<>> BY <1>1 DEF Idle
<1>3. PICK k : k = [Closed EXCEPT !.song = f, !.created = time] OBVIOUS
<1>4. k.blocks = <<>> BY <1>3 DEF Closed
<1>5. /\ thread'[t] = x /\ ctx'[h] = k
      /\ \A u \in Thread : u # t => thread'[u] = thread[u]
      /\ \A g \in Handle : g # h => ctx'[g] = ctx[g]
  BY <1>1, <1>3 DEF OpenBegin, Inv, TypesOK
<1>6. thread[t].h = Nobody /\ \A u \in Thread : thread[u].h # h
  <2>1. thread[t].pc = "idle" /\ ~InUse(h) BY DEF OpenBegin
  <2> QED BY <2>1, ThreadFacts DEF InUse, Inv, TypesOK, Activity
<1>7. Opened(x, k) BY <1>2, <1>4 DEF Opened, Headless, Writing
<1>8. ~Usable(h)' BY <1>2, <1>5 DEF Usable
<1>9. StashesShort' BY DEF OpenBegin, HeaderInv, StashesShort
<1> QED BY <1>2, <1>5, <1>6, <1>7, <1>8, <1>9, HeaderStep

LEMMA ReadBeginHeader ==
  ASSUME UadefsAssumption, Inv, HeaderInv,
         NEW t \in Thread, NEW h \in Handle, NEW r \in ReadAt, ReadBegin(t, h, r)
  PROVE  HeaderInv'
<1>1. /\ thread'[t].h = h /\ thread'[t].op = "read"
      /\ \A u \in Thread : u # t => thread'[u] = thread[u]
      /\ ctx' = ctx /\ ctx[h] # Closed
      /\ \A u \in Thread : thread[u].h = h => thread[u].op = "read"
  BY DEF ReadBegin, Inv, TypesOK, Idle
<1>2. thread[t].h = Nobody
  <2>1. thread[t].pc = "idle" BY DEF ReadBegin
  <2> QED BY <2>1, ThreadFacts DEF Inv, TypesOK, Activity
<1>3. Corrected(ctx[h])
  <2>1. Usable(h) BY <1>1 DEF Usable
  <2> QED BY <1>1, <2>1 DEF HeaderInv
<1>4. StashesShort' BY DEF ReadBegin, HeaderInv, StashesShort
<1> QED BY <1>1, <1>2, <1>3, <1>4, HeaderStep

LEMMA ReadLockHeader ==
  ASSUME UadefsAssumption, Inv, HeaderInv, NEW t \in Thread, ReadLock(t) PROVE HeaderInv'
<1>1. PICK th \in Activity, c \in Context, h \in Handle :
        /\ th = thread[t] /\ th.h = h /\ c = ctx[h] /\ th.pc = "lock" /\ Doing(t, th, c)
  BY WorkerFacts DEF ReadLock
<1>2. th.op = "read" BY <1>1 DEF Doing, AtPlace
<1>3. /\ thread'[t].h = h /\ thread'[t].op = "read" /\ ctx' = ctx
      /\ \A u \in Thread : u # t => thread'[u] = thread[u]
  BY <1>1, <1>2 DEF ReadLock, GoTo, Inv, TypesOK, Activity
<1>4. Corrected(c) BY <1>1, <1>2, HeaderNow
<1>5. \A u \in Thread : u # t /\ thread[u].h = h => thread[u].op = "read"
  BY <1>1 DEF Inv, Alone
<1>6. StashesShort' BY DEF ReadLock, HeaderInv, StashesShort
<1> QED BY <1>1, <1>3, <1>4, <1>5, <1>6, HeaderStep

LEMMA DecoderHeader ==
  ASSUME UadefsAssumption, Inv, HeaderInv, NEW h \in Handle, DecoderStep(h) \/ DecoderCrashes(h)
  PROVE  HeaderInv'
<1>1. PICK k \in Context :
        /\ ctx' = [ctx EXCEPT ![h] = k] /\ ctx[h].decoder.alive
        /\ k.song = ctx[h].song /\ k.blocks = ctx[h].blocks
  BY DecoderFacts
<1>2. ctx[h] # Closed BY <1>1 DEF Closed, NoDecoder
<1>3. UNCHANGED <<stashes, thread>>
  BY DEF DecoderStep, DecoderOutput, DecoderEnds, DecoderCrashes
<1>4. \A g \in Handle : /\ ctx'[g].song = ctx[g].song /\ ctx'[g].blocks = ctx[g].blocks
                        /\ ctx[g] = Closed => ctx'[g] = Closed
  BY <1>1, <1>2 DEF Inv, TypesOK
<1> QED BY <1>3, <1>4, HeaderRests

LEMMA ReadSkipHeader ==
  ASSUME UadefsAssumption, Inv, HeaderInv, NEW t \in Thread, ReadSkip(t) PROVE HeaderInv'
<1>1. PICK th \in Activity, c \in Context :
        th = thread[t] /\ th.h \in Handle /\ c = ctx[th.h] /\ th.pc = "skip"
  BY WorkerFacts DEF ReadSkip
<1>2. PICK p : ctx' = [ctx EXCEPT ![th.h].decoder.pos = p] BY <1>1 DEF ReadSkip
<1>3. PICK k : k = [c EXCEPT !.decoder.pos = p] OBVIOUS
<1>4. ctx' = [ctx EXCEPT ![th.h] = k] /\ k.song = c.song /\ k.blocks = c.blocks
  BY <1>1, <1>2, <1>3 DEF Inv, TypesOK, Context
<1>5. PICK q \in {"read", "end"} : thread' = [thread EXCEPT ![t].pc = q]
  BY DEF ReadSkip, GoTo
<1>6. UNCHANGED stashes BY DEF ReadSkip
<1> QED BY <1>1, <1>4, <1>5, <1>6, MovedHeader DEF Holding

LEMMA ReadSpawnHeader ==
  ASSUME UadefsAssumption, Inv, HeaderInv, NEW t \in Thread, ReadSpawn(t) PROVE HeaderInv'
<1>1. PICK th \in Activity, c \in Context :
        /\ th = thread[t] /\ th.h \in Handle /\ c = ctx[th.h] /\ th.pc = "read"
        /\ Doing(t, th, c)
  BY WorkerFacts DEF ReadSpawn
<1>2. c.song \in Song /\ Spawn(th.h) BY <1>1 DEF Doing, ReadSpawn
<1>3. PICK k : ctx' = [ctx EXCEPT ![th.h] = k] /\ k.song = c.song /\ k.blocks = c.blocks
  BY <1>1, <1>2, SpawnFacts
<1>4. thread' = [thread EXCEPT ![t].pc = "skip"] /\ UNCHANGED stashes BY DEF ReadSpawn
<1> QED BY <1>1, <1>3, <1>4, MovedHeader DEF Holding

LEMMA ReleaseBeginHeader ==
  ASSUME UadefsAssumption, Inv, HeaderInv, NEW t \in Thread, NEW h \in Handle, ReleaseBegin(t, h)
  PROVE  HeaderInv'
<1>1. /\ thread'[t].h = h /\ thread'[t].op = "release"
      /\ \A u \in Thread : u # t => thread'[u] = thread[u]
      /\ ctx' = ctx /\ ctx[h] # Closed /\ ~InUse(h) /\ thread[t].pc = "idle"
  BY DEF ReleaseBegin, Inv, TypesOK, Idle
<1>2. thread[t].h = Nobody /\ \A u \in Thread : thread[u].h # h
  BY <1>1, ThreadFacts DEF InUse, Inv, TypesOK, Activity
<1>3. Corrected(ctx[h])
  <2>1. Usable(h) BY <1>2 DEF Usable
  <2> QED BY <1>1, <2>1 DEF HeaderInv
<1>4. StashesShort' BY DEF ReleaseBegin, HeaderInv, StashesShort
<1> QED BY <1>1, <1>2, <1>3, <1>4, HeaderStep

LEMMA InitHeader == ASSUME UadefsAssumption, Init PROVE HeaderInv
<1>1. StashesShort
  <2>1. PICK n \in Nat : n = StashSize /\ 1 \in 1 .. n BY StashSizeNat
  <2>2. PICK d : d = [i \in 1 .. n |-> <<"none", 0, i - 1>>] OBVIOUS
  <2>3. d[1] = <<"none", 0, 1 - 1>> BY <2>1, <2>2
  <2>4. Len(d[1]) = 3 BY <2>3
  <2>5. NoStash.data = d BY <2>1, <2>2 DEF NoStash
  <2>6. \A i \in 1 .. NStashes : stashes[i] = NoStash BY DEF Init
  <2> QED BY <2>4, <2>5, <2>6 DEF StashesShort
<1>2. \A t \in Thread : thread[t].op = "none" BY DEF Init, Idle
<1>3. \A h \in Handle : ctx[h] = Closed BY DEF Init
<1> QED BY <1>1, <1>2, <1>3 DEF HeaderInv

LEMMA NextHeader ==
  ASSUME UadefsAssumption, Inv, HeaderInv, [Next]_vars PROVE HeaderInv'
<1>1. ASSUME NEW t \in Thread, NEW h \in Handle, NEW f \in Song, OpenBegin(t, f, h)
      PROVE  HeaderInv'
  BY <1>1, OpenBeginHeader
<1>2. ASSUME NEW t \in Thread, NEW h \in Handle, NEW r \in ReadAt, ReadBegin(t, h, r)
      PROVE  HeaderInv'
  BY <1>2, ReadBeginHeader
<1>3. ASSUME NEW t \in Thread, NEW h \in Handle, ReleaseBegin(t, h) PROVE HeaderInv'
  BY <1>3, ReleaseBeginHeader
<1>4. ASSUME NEW t \in Thread, ThreadStep(t) PROVE HeaderInv'
  <2>1. CASE OpenLookup(t) BY <2>1, OpenLookupHeader
  <2>2. CASE OpenPrefill(t) BY <2>2, OpenPrefillHeader
  <2>3. CASE OpenSpawn(t) BY <2>3, OpenSpawnHeader
  <2>4. CASE OpenHeader(t) BY <2>4, OpenHeaderHeader
  <2>5. CASE OpenStash(t) BY <2>5, OpenStashHeader
  <2>6. CASE OpenStashData(t) BY <2>6, OpenStashDataHeader
  <2>7. CASE ReadLock(t) BY <2>7, ReadLockHeader
  <2>8. CASE ReadSpawn(t) BY <2>8, ReadSpawnHeader
  <2>9. CASE ReadSkip(t) BY <2>9, ReadSkipHeader
  <2>10. CASE ReadCached(t) BY <2>10, ReadCachedHeader
  <2>11. CASE FetchBlock(t) BY <2>11, FetchBlockHeader
  <2>12. CASE StoreBlock(t) BY <2>12, StoreBlockHeader
  <2>13. CASE ReadDone(t) \/ ReadSpawnFails(t) \/ ReadSkipShort(t) \/ ReadEnd(t)
                \/ StoreNothing(t)
    <3>1. ReadEnds(t) /\ thread[t].pc \in Holding
      BY <2>13 DEF ReadDone, ReadSpawnFails, ReadSkipShort, ReadEnd, StoreNothing, Holding
    <3> QED BY <3>1, ReadEndsHeader
  <2>14. CASE Interrupt(t) BY <2>14, InterruptHeader
  <2>15. CASE Reap(t) BY <2>15, ReapHeader
  <2>16. CASE OpenPrefilled(t) BY <2>16, OpenPrefilledHeader
  <2>17. CASE OpenClaim(t) BY <2>17, OpenClaimHeader
  <2>18. CASE OpenStashName(t) BY <2>18, OpenStashNameHeader
  <2> QED BY <1>4, <2>1, <2>2, <2>3, <2>4, <2>5, <2>6, <2>7, <2>8, <2>9, <2>10, <2>11, <2>12,
             <2>13, <2>14, <2>15, <2>16, <2>17, <2>18 DEF ThreadStep
<1>5. ASSUME NEW h \in Handle, DecoderStep(h) \/ DecoderCrashes(h) PROVE HeaderInv'
  BY <1>5, DecoderHeader
<1>6. CASE Tick \/ (\E f \in Song : SongReplaced(f)) \/ UNCHANGED vars
  <2>1. UNCHANGED <<stashes, thread, ctx>> BY <1>6 DEF Tick, SongReplaced, vars
  <2> QED BY <2>1, HeaderRests
<1> QED BY <1>1, <1>2, <1>3, <1>4, <1>5, <1>6 DEF Next

(* The size is in the header of every file that may be read, and in no stash, *)
(* as the next open of the song would add it again: a stash takes what was    *)
(* read before the header was corrected, however many threads write it       *)
(* (warm_up_cache(), cache_prefill()).                                       *)
THEOREM HeaderInvHolds == UadefsAssumption => (Spec => []HeaderInv)
<1> SUFFICES ASSUME UadefsAssumption PROVE Spec => []HeaderInv OBVIOUS
<1>1. Init => HeaderInv BY InitHeader
<1>2. Inv /\ HeaderInv /\ [Next]_vars => HeaderInv' BY NextHeader
<1>3. Spec => []Inv BY InvHolds
<1> QED BY <1>1, <1>2, <1>3, PTL DEF Spec

(* A song of known playing time is always opened with its size in the WAV      *)
(* header, whether it was decoded or prefilled from a stash, and whichever     *)
(* threads open and read it (warm_up_cache()).                               *)
THEOREM HeaderFixedHolds == UadefsAssumption => (Spec => []HeaderFixed)
<1> SUFFICES ASSUME UadefsAssumption PROVE Spec => []HeaderFixed OBVIOUS
<1>1. Inv /\ HeaderInv => HeaderFixed
  <2> SUFFICES ASSUME Inv, HeaderInv, NEW h \in Handle, ctx[h].song \in Song, ~Opening(h),
                      ctx[h].blocks # <<>>, ctx[h].song \in Sized
               PROVE  Len(ctx[h].blocks[1][1]) = 4
    BY DEF HeaderFixed, Open
  <2>1. ctx[h] # Closed BY DEF Closed, UadefsAssumption
  <2>2. Usable(h)
    <3> SUFFICES ASSUME NEW t \in Thread, thread[t].h = h, thread[t].op # "read"
                 PROVE  thread[t].op = "release" /\ thread[t].pc = "kill"
      BY DEF Usable
    <3>1. Doing(t, thread[t], ctx[h]) BY ThreadFacts
    <3>2. thread[t].op # "open" BY DEF Opening
    <3>3. thread[t].op = "release" /\ thread[t].pc \in {"kill", "wait"}
      BY <3>1, <3>2 DEF Doing, AtPlace, Upset, Holding, Writing
    <3>4. thread[t].pc # "wait" BY <3>1 DEF Doing
    <3> QED BY <3>3, <3>4
  <2> QED BY <2>1, <2>2 DEF HeaderInv, Corrected
<1>2. Spec => []Inv BY InvHolds
<1>3. Spec => []HeaderInv BY HeaderInvHolds
<1> QED BY <1>1, <1>2, <1>3, PTL
==============================================================================
