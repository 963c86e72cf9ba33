------------------------ MODULE KperfPipelineProofs ------------------------
(***************************************************************************)
(* What the macOS pipeline hands its sink, for any set of CPUs, threads    *)
(* and stack walks, any number of switches, wakeups and samples, and any   *)
(* number of frames in a record.                                           *)
(***************************************************************************)
EXTENDS KperfPipeline, SequenceTheorems, TLAPS

KpRec ==
  [k : {"start"}, tid : KpTids, ts : Nat]
  \cup [k : {"error", "end"}]
  \cup [k : {"uhdr", "khdr"}, main : Nat, async : Nat]
  \cup [k : {"udata", "kdata"}, frames : [1 .. Chunk -> Nat]]
\* What is left of a stack when it is cut at its first null.
CutStack == {UpToNull(fs) : fs \in Seq(Nat)} \cup {<<>>}
Closed == [tid : KpTids, run : BOOLEAN, from : Nat, to : Nat]
Interval == [tid : KpTids, kind : {"on", "off"}, from : Nat, to : Nat, stack : CutStack,
             waker : KpTids \cup {0}]
Wakeup == [at : Nat, waker : KpTids, wakee : KpTids]
ParserRec == [busy : BOOLEAN, tid : KpTids \cup {0}, ts : Nat, user : Seq(Nat), kernel : Seq(Nat),
              main : Nat, left : Nat, kleft : Nat]
ScannerRec == [busy : BOOLEAN, tid : KpTids \cup {0}, triggered : BOOLEAN,
               last : Seq(KpTids \cup {0})]
ThreadRec == [on : Nat, off : Nat, user : CutStack, kernel : CutStack, waker : KpTids \cup {0}]
SampleRec == [tid : KpTids \cup {0}, ts : Nat, user : CutStack, kernel : CutStack]

KernType ==
  kern \in [now : Nat, on : [KpCpus -> KpTids \cup {0}], closed : SUBSET Closed, todo : Seq(KpRec),
            walk : Seq(Walks), walks : Nat, wakes : Nat,
            mark : [KpTids -> [run : BOOLEAN, at : Nat]], stack : [KpTids -> CutStack]]
TrackerRec ==
  [onCpu : [KpCpus -> KpTids \cup {0, Unseen}], th : [KpTids -> ThreadRec],
   pending : Seq(Interval), wakeups : Seq(Wakeup)]
KpTypeOK ==
  /\ KernType
  /\ ps \in ParserRec
  /\ tg \in ScannerRec
  /\ tr \in TrackerRec
  /\ seen \in SUBSET (KpTids \cup {0})
  /\ out \in [sample : Seq([s : SampleRec, w : Walks]), intervals : SUBSET Interval,
              wakeups : Seq(Wakeup)]

-----------------------------------------------------------------------------
(* How far the parser has got with a walk *)

Main(w) == w.chain \o w.fixup
UserFrames(w) == Main(w) \o w.async
ChunkCount(fs) == (Len(fs) + Chunk - 1) \div Chunk
\* The frames i data records carry, and how many are still to come.
Taken(fs, i) == IF i * Chunk < Len(fs) THEN i * Chunk ELSE Len(fs)
Got(fs, i) == SubSeq(fs, 1, Taken(fs, i))
Owed(fs, i) == Len(fs) - Taken(fs, i)

\* The places of the last record about the user stack, and about the kernel's.
UserEnd(w) == IF w.chain = <<>> THEN 2 ELSE 2 + ChunkCount(UserFrames(w))
KernelEnd(w) == IF w.kernel = <<>> THEN UserEnd(w) ELSE UserEnd(w) + 1 + ChunkCount(w.kernel)

\* The parser after the first n records of a walk, its end record excepted.
UserAssembled(p, w, n) ==
  IF n = 1 \/ w.chain = <<>> THEN p.user = <<>> /\ p.main = 0
  ELSE \E i \in Nat : /\ i = (IF n < UserEnd(w) THEN n ELSE UserEnd(w)) - 2
                      /\ p.user = Got(UserFrames(w), i)
                      /\ p.left = Owed(UserFrames(w), i)
                      /\ p.main = Len(Main(w))
KernelAssembled(p, w, n) ==
  IF n <= UserEnd(w) THEN p.kernel = <<>>
  ELSE \E i \in Nat : /\ i = n - UserEnd(w) - 1
                      /\ p.kernel = Got(w.kernel, i)
                      /\ p.kleft = Owed(w.kernel, i)
Assembled(p, w, n) ==
  p.busy /\ p.tid = w.tid /\ UserAssembled(p, w, n) /\ KernelAssembled(p, w, n)
\* The scanner: it fires at the header of the user stack.
Triggered(g, w, n) ==
  /\ n <= KernelEnd(w) => g.busy /\ g.tid = w.tid
  /\ n = 1 => ~g.triggered
  /\ n >= 2 /\ w.chain # <<>> => g.last = <<w.tid>>

FeedAt(w, ts, n) ==
  /\ kern.walk = <<w>>
  /\ kern.todo = SubSeq(WalkRecords(w, ts), n + 1, KernelEnd(w) + 1)
  /\ n \in 1 .. KernelEnd(w) => Assembled(ps, w, n)
  /\ n >= 1 => Triggered(tg, w, n)

FeedInv ==
  IF kern.walk = <<>> THEN kern.todo = <<>> /\ out.sample = <<>>
  ELSE \E w \in Walks : \E ts \in Nat : \E n \in 0 .. KernelEnd(w) + 1 : FeedAt(w, ts, n)

\* A sample handed over is a walk.
SampleOf(s, w) == s.tid = w.tid /\ s.user = CallStack(w) /\ s.kernel = UpToNull(w.kernel)
SamplesWhole == \A i \in DOMAIN out.sample : SampleOf(out.sample[i].s, out.sample[i].w)

-----------------------------------------------------------------------------
(* The tracker against the kernel *)

\* A CPU the tracker knows runs what the tracker thinks; a time noted for a
\* thread is when its present spell began, on a known CPU or on none.
OnCpusExact ==
  /\ \A c \in KpCpus : tr.onCpu[c] \in {Unseen, kern.on[c]}
  /\ \A c, d \in KpCpus : kern.on[c] = kern.on[d] /\ kern.on[c] # 0 => c = d
ThreadExact(t) ==
  /\ tr.th[t].on # 0 => /\ tr.th[t].on = kern.mark[t].at
                        /\ \E c \in KpCpus : tr.onCpu[c] = t
  /\ tr.th[t].off # 0 => /\ tr.th[t].off = kern.mark[t].at
                         /\ \A c \in KpCpus : kern.on[c] # t
ThreadsExact == \A t \in KpTids : ThreadExact(t)

AsClosed(i) == [tid |-> i.tid, run |-> i.kind = "on", from |-> i.from, to |-> i.to]
PendingExact ==
  /\ \A j \in DOMAIN tr.pending : /\ AsClosed(tr.pending[j]) \in kern.closed
                                  /\ tr.pending[j].to <= kern.now
                                  /\ tr.pending[j].kind = "off" => tr.pending[j].stack # <<>>
  /\ \A i \in out.intervals : AsClosed(i) \in kern.closed
  /\ \A j, l \in DOMAIN tr.pending : tr.pending[j] = tr.pending[l] => j = l
StacksExact == \A t \in KpTids : tr.th[t].user = kern.stack[t]

-----------------------------------------------------------------------------
(* Chunks and the records of a walk *)

\* Dividing by the size of a record and rounding up leaves room for every frame.
LEMMA DivideUp ==
  ASSUME NEW l \in Nat
  PROVE  /\ (l + Chunk - 1) \div Chunk \in Nat
         /\ ((l + Chunk - 1) \div Chunk) * Chunk >= l
<1> DEFINE q == (l + Chunk - 1) \div Chunk
           r == (l + Chunk - 1) % Chunk
<1>1. Chunk \in Nat /\ Chunk > 0
  BY KpAssumption
<1>2. l + Chunk - 1 \in Nat
  BY <1>1
<1>3. q \in Int /\ r \in 0 .. Chunk - 1 /\ l + Chunk - 1 = Chunk * q + r
  BY <1>1, <1>2, Z3
<1>4. q \in Nat
  BY <1>1, <1>2, Z3
<1>5. Chunk * q = q * Chunk /\ Chunk * q \in Int
  BY <1>1, <1>3
<1> HIDE DEF q, r
<1>6. q * Chunk >= l
  BY <1>1, <1>3, <1>5
<1> QED
  BY <1>4, <1>6 DEF q

\* The product the places of frames are counted in.
LEMMA Places ==
  ASSUME NEW i \in Nat
  PROVE  i * Chunk \in Nat /\ (i + 1) * Chunk = i * Chunk + Chunk
BY KpAssumption

\* The data records of a stack.
LEMMA ChunksType ==
  ASSUME NEW fs \in Seq(Nat)
  PROVE  /\ ChunkCount(fs) \in Nat /\ ChunkCount(fs) * Chunk >= Len(fs)
         /\ Chunks(fs) \in Seq([1 .. Chunk -> Nat]) /\ Len(Chunks(fs)) = ChunkCount(fs)
         /\ \A i \in 1 .. ChunkCount(fs) : \A j \in 1 .. Chunk :
              Chunks(fs)[i][j] = IF (i - 1) * Chunk + j <= Len(fs) THEN fs[(i - 1) * Chunk + j]
                                                                   ELSE 0
<1>1. Len(fs) \in Nat /\ Chunk \in Nat \ {0}
  BY KpAssumption
<1>2. ChunkCount(fs) \in Nat /\ ChunkCount(fs) * Chunk >= Len(fs)
  BY <1>1, DivideUp DEF ChunkCount
<1> DEFINE N == ChunkCount(fs)
           f(n) == IF n <= Len(fs) THEN fs[n] ELSE 0
<1>3. Chunks(fs) = [i \in 1 .. N |-> [j \in 1 .. Chunk |-> f((i - 1) * Chunk + j)]]
  BY DEF Chunks, ChunkCount
<1>4. ASSUME NEW i \in 1 .. N, NEW j \in 1 .. Chunk PROVE f((i - 1) * Chunk + j) \in Nat
  <2>1. (i - 1) * Chunk \in Nat
    BY <1>2, Places, i - 1 \in Nat
  <2> HIDE DEF N
  <2>2. (i - 1) * Chunk + j \in Nat \ {0}
    BY <2>1, <1>1
  <2> QED
    BY <2>2, <1>1
<1> HIDE DEF N, f
<1>5. Chunks(fs) \in [1 .. N -> [1 .. Chunk -> Nat]]
  BY <1>3, <1>4
<1>6. Chunks(fs) \in Seq([1 .. Chunk -> Nat]) /\ Len(Chunks(fs)) = N
  BY <1>5, <1>2 DEF N
<1>7. \A i \in 1 .. N : \A j \in 1 .. Chunk : Chunks(fs)[i][j] = f((i - 1) * Chunk + j)
  BY <1>3
<1> QED
  BY <1>2, <1>6, <1>7 DEF f, N

\* How much of a stack the first i data records carry.
LEMMA TakenType ==
  ASSUME NEW fs \in Seq(Nat), NEW i \in Nat
  PROVE  Taken(fs, i) \in 0 .. Len(fs) /\ Owed(fs, i) \in Nat /\ Got(fs, i) \in Seq(Nat)
         /\ Len(Got(fs, i)) = Taken(fs, i)
<1>1. i * Chunk \in Nat
  BY Places
<1>2. Len(fs) \in Nat
  OBVIOUS
<1>3. Taken(fs, i) \in 0 .. Len(fs)
  BY <1>1, <1>2 DEF Taken
<1> QED
  BY <1>2, <1>3 DEF Got, Owed

\* A concatenation, element by element.
LEMMA ConcatIs ==
  ASSUME NEW S, NEW g \in Seq(S), NEW s \in Seq(S), NEW h \in Seq(S),
         Len(h) = Len(g) + Len(s),
         \A j \in 1 .. Len(g) : g[j] = h[j],
         \A j \in 1 .. Len(s) : s[j] = h[Len(g) + j]
  PROVE  g \o s = h
<1>1. PICK a \in Nat, b \in Nat : a = Len(g) /\ b = Len(s)
  OBVIOUS
<1>2. g \o s \in Seq(S) /\ Len(g \o s) = a + b
  BY <1>1
<1>3. ASSUME NEW j \in 1 .. a + b PROVE (g \o s)[j] = h[j]
  <2>1. CASE j <= a
    <3>1. j \in 1 .. a
      BY <2>1
    <3> QED
      BY <3>1, <1>1, ConcatProperties
  <2>2. CASE j > a
    <3>1. j - a \in 1 .. b /\ a + (j - a) = j
      BY <2>2
    <3>2. (g \o s)[j] = s[j - a]
      BY <2>2, <1>1, <3>1, ConcatProperties
    <3> QED
      BY <3>1, <3>2, <1>1
  <2>3. j <= a \/ j > a
    OBVIOUS
  <2> QED
    BY <2>1, <2>2, <2>3, Zenon
<1>4. Len(h) = a + b
  BY <1>1
<1> QED
  BY <1>2, <1>3, <1>4, SeqEqual

\* append_chunk: one more data record, never a frame more than announced.
LEMMA AppendChunk ==
  ASSUME NEW fs \in Seq(Nat), NEW i \in Nat, i < ChunkCount(fs), NEW rec,
         rec.frames = Chunks(fs)[i + 1]
  PROVE  /\ Appended(Got(fs, i), Owed(fs, i), rec) = Got(fs, i + 1)
         /\ Remaining(Owed(fs, i)) = Owed(fs, i + 1)
<1>1. PICK n \in Nat : n = i * Chunk /\ (i + 1) * Chunk = n + Chunk
  BY Places
<1>2. PICK l \in Nat : l = Len(fs)
  OBVIOUS
<1>3. PICK m \in Nat \ {0} : m = Chunk
  BY KpAssumption
<1>4. PICK c : c = Chunks(fs)[i + 1]
  OBVIOUS
<1>5. i + 1 \in 1 .. ChunkCount(fs) /\ (i + 1) - 1 = i
  BY ChunksType
<1>6. c \in [1 .. m -> Nat] /\ \A j \in 1 .. m : c[j] = IF n + j <= l THEN fs[n + j] ELSE 0
  <2>1. /\ Chunks(fs) \in Seq([1 .. m -> Nat]) /\ Len(Chunks(fs)) = ChunkCount(fs)
        /\ ChunkCount(fs) \in Nat
    BY <1>3, ChunksType
  <2>2. c \in [1 .. m -> Nat]
    BY <2>1, <1>4, <1>5
  <2>3. \A j \in 1 .. m : c[j] = IF ((i + 1) - 1) * Chunk + j <= Len(fs)
                                 THEN fs[((i + 1) - 1) * Chunk + j] ELSE 0
    BY <1>3, <1>4, <1>5, ChunksType
  <2> QED
    BY <2>2, <2>3, <1>1, <1>2, <1>5
<1>7. PICK a \in 0 .. l : a = Taken(fs, i) /\ a = IF n < l THEN n ELSE l
  BY <1>1, <1>2 DEF Taken
<1>8. PICK b \in 0 .. l : b = Taken(fs, i + 1) /\ b = IF n + m < l THEN n + m ELSE l
  BY <1>1, <1>2, <1>3 DEF Taken
<1>9. PICK left \in Nat : left = Owed(fs, i) /\ left = l - a
  <2>1. Owed(fs, i) = l - a /\ l - a \in Nat
    BY <1>2, <1>7 DEF Owed
  <2> QED
    BY <2>1
<1>10. PICK take \in 0 .. m : take = IF left < m THEN left ELSE m
  BY <1>3
<1>11. b = a + take
  BY <1>7, <1>8, <1>9, <1>10, <1>3
<1>12. Remaining(left) = Owed(fs, i + 1)
  <2>1. Owed(fs, i + 1) = l - b
    BY <1>2, <1>8 DEF Owed
  <2>2. Remaining(left) = IF left < m THEN 0 ELSE left - m
    BY <1>3 DEF Remaining
  <2> QED
    BY <2>1, <2>2, <1>9, <1>10, <1>11, <1>3
<1>13. c \in Seq(Nat) /\ Len(c) = m
  BY <1>3, <1>6
<1>14. PICK s : s = SubSeq(c, 1, take)
  OBVIOUS
<1>15. s \in Seq(Nat) /\ Len(s) = take /\ \A j \in 1 .. take : s[j] = c[j]
  BY <1>3, <1>10, <1>13, <1>14
<1>16. PICK g : g = Got(fs, i)
  OBVIOUS
<1>17. PICK h : h = Got(fs, i + 1)
  OBVIOUS
<1>18. g = SubSeq(fs, 1, a) /\ h = SubSeq(fs, 1, b)
  BY <1>7, <1>8, <1>16, <1>17 DEF Got
<1>19. g \in Seq(Nat) /\ Len(g) = a /\ \A j \in 1 .. a : g[j] = fs[j]
  BY <1>18, <1>7, <1>2
<1>20. h \in Seq(Nat) /\ Len(h) = b /\ \A j \in 1 .. b : h[j] = fs[j]
  BY <1>18, <1>8, <1>2, SubSeqProperties
<1>21. ASSUME NEW j \in 1 .. take PROVE s[j] = h[a + j]
  <2>1. j \in 1 .. m /\ a = n /\ n + j <= l /\ a + j \in 1 .. b
    BY <1>3, <1>7, <1>9, <1>10, <1>11
  <2>2. c[j] = fs[n + j]
    BY <1>6, <2>1
  <2> QED
    BY <1>15, <1>20, <2>1, <2>2
<1>22. g \o s = h
  <2>1. Len(h) = Len(g) + Len(s)
    BY <1>11, <1>15, <1>19, <1>20
  <2>2. \A j \in 1 .. Len(g) : g[j] = h[j]
    BY <1>19, <1>20, <1>11, <1>7, <1>10, <1>3
  <2>3. \A j \in 1 .. Len(s) : s[j] = h[Len(g) + j]
    BY <1>15, <1>19, <1>21
  <2> QED
    BY <2>1, <2>2, <2>3, <1>15, <1>19, <1>20, ConcatIs
<1>23. Appended(g, left, rec) = g \o s
  BY <1>3, <1>4, <1>10, <1>14 DEF Appended
<1> QED
  BY <1>9, <1>12, <1>16, <1>17, <1>22, <1>23

DataRecs(k, fs) == [i \in 1 .. Len(Chunks(fs)) |-> [k |-> k, frames |-> Chunks(fs)[i]]]
StartRec(w, ts) == [k |-> "start", tid |-> w.tid, ts |-> ts]
UserHeader(w) == [k |-> "uhdr", main |-> Len(Main(w)), async |-> Len(w.async)]
KernelHeader(w) == [k |-> "khdr", main |-> Len(w.kernel), async |-> 0]
UserPart(w) == IF w.chain = <<>> THEN <<[k |-> "error"]>>
               ELSE <<UserHeader(w)>> \o DataRecs("udata", UserFrames(w))
KernelPart(w) == IF w.kernel = <<>> THEN <<>>
                 ELSE <<KernelHeader(w)>> \o DataRecs("kdata", w.kernel)

\* The frames of a walk.
LEMMA WalkType ==
  ASSUME NEW w \in Walks
  PROVE  /\ w.tid \in KpTids /\ w.chain \in Seq(Nat) /\ w.fixup \in Seq(Nat)
         /\ w.async \in Seq(Nat) /\ w.kernel \in Seq(Nat)
         /\ Main(w) \in Seq(Nat) /\ UserFrames(w) \in Seq(Nat)
         /\ Len(Main(w)) = Len(w.chain) + Len(w.fixup)
         /\ Len(UserFrames(w)) = Len(Main(w)) + Len(w.async)
         /\ Main(w) = <<>> <=> w.chain = <<>>
         /\ w.chain # <<>> => Len(w.chain) >= 1 /\ Len(w.fixup) = 1
<1>1. w \in [tid : KpTids, chain : Seq(Nat), fixup : Seq(Nat), async : Seq(Nat), kernel : Seq(Nat)]
      /\ IF w.chain = <<>> THEN w.fixup = <<>> /\ w.async = <<>> ELSE Len(w.fixup) = 1
  BY KpAssumption
<1>2. /\ w.tid \in KpTids /\ w.chain \in Seq(Nat) /\ w.fixup \in Seq(Nat)
      /\ w.async \in Seq(Nat) /\ w.kernel \in Seq(Nat)
  BY <1>1
<1>3. Main(w) \in Seq(Nat) /\ Len(Main(w)) = Len(w.chain) + Len(w.fixup)
  BY <1>2, ConcatProperties DEF Main
<1>4. UserFrames(w) \in Seq(Nat) /\ Len(UserFrames(w)) = Len(Main(w)) + Len(w.async)
  BY <1>2, <1>3, ConcatProperties DEF UserFrames
<1>5. Main(w) = <<>> <=> w.chain = <<>>
  <2>1. Main(w) = <<>> <=> w.chain = <<>> /\ w.fixup = <<>>
    BY <1>2, ConcatEqualIffEmpty DEF Main
  <2> QED
    BY <1>1, <2>1
<1>6. w.chain # <<>> => Len(w.chain) >= 1 /\ Len(w.fixup) = 1
  BY <1>1, <1>2, EmptySeq
<1> QED
  BY <1>2, <1>3, <1>4, <1>5, <1>6

\* The data records of a stack, as records.
LEMMA DataRecsType ==
  ASSUME NEW fs \in Seq(Nat), NEW k \in {"udata", "kdata"}
  PROVE  /\ DataRecs(k, fs) \in Seq(KpRec) /\ Len(DataRecs(k, fs)) = ChunkCount(fs)
         /\ ChunkCount(fs) \in Nat
         /\ \A i \in 1 .. ChunkCount(fs) : DataRecs(k, fs)[i] = [k |-> k, frames |-> Chunks(fs)[i]]
<1>1. /\ ChunkCount(fs) \in Nat /\ Len(Chunks(fs)) = ChunkCount(fs)
      /\ Chunks(fs) \in Seq([1 .. Chunk -> Nat])
  BY ChunksType
<1>2. \A i \in 1 .. ChunkCount(fs) : [k |-> k, frames |-> Chunks(fs)[i]] \in KpRec
  BY <1>1 DEF KpRec
<1>3. DataRecs(k, fs) = [i \in 1 .. ChunkCount(fs) |-> [k |-> k, frames |-> Chunks(fs)[i]]]
  BY <1>1 DEF DataRecs
<1>4. DataRecs(k, fs) \in [1 .. ChunkCount(fs) -> KpRec]
  BY <1>2, <1>3
<1>5. DataRecs(k, fs) \in Seq(KpRec) /\ Len(DataRecs(k, fs)) = ChunkCount(fs)
  <2>1. PICK n \in Nat : n = ChunkCount(fs)
    BY <1>1
  <2>2. PICK d \in [1 .. n -> KpRec] : d = DataRecs(k, fs)
    BY <1>4, <2>1
  <2>3. d \in Seq(KpRec) /\ Len(d) = n
    OBVIOUS
  <2> QED
    BY <2>1, <2>2, <2>3
<1> QED
  BY <1>1, <1>3, <1>5

\* A header in front of data records.
LEMMA HeaderFirst ==
  ASSUME NEW S, NEW h \in S, NEW d \in Seq(S)
  PROVE  /\ <<h>> \o d \in Seq(S) /\ Len(<<h>> \o d) = Len(d) + 1
         /\ (<<h>> \o d)[1] = h
         /\ \A i \in 1 .. Len(d) : (<<h>> \o d)[i + 1] = d[i]
<1>1. <<h>> \in Seq(S) /\ Len(<<h>>) = 1 /\ <<h>>[1] = h
  OBVIOUS
<1>2. Len(d) \in Nat
  OBVIOUS
<1>3. <<h>> \o d \in Seq(S) /\ Len(<<h>> \o d) = 1 + Len(d)
      /\ \A i \in 1 .. 1 + Len(d) : (<<h>> \o d)[i] = IF i <= 1 THEN <<h>>[i] ELSE d[i - 1]
  BY <1>1, ConcatProperties
<1>4. (<<h>> \o d)[1] = h
  BY <1>1, <1>2, <1>3
<1>5. ASSUME NEW i \in 1 .. Len(d) PROVE (<<h>> \o d)[i + 1] = d[i]
  <2>1. i + 1 \in 1 .. 1 + Len(d) /\ ~(i + 1 <= 1) /\ (i + 1) - 1 = i
    BY <1>2
  <2> QED
    BY <1>3, <2>1
<1> QED
  BY <1>2, <1>3, <1>4, <1>5

\* What a walk writes about the user stack.
LEMMA UserPartType ==
  ASSUME NEW w \in Walks
  PROVE  /\ UserEnd(w) \in Nat /\ UserEnd(w) >= 2
         /\ UserPart(w) \in Seq(KpRec) /\ Len(UserPart(w)) = UserEnd(w) - 1
         /\ UserPart(w)[1] = IF w.chain = <<>> THEN [k |-> "error"] ELSE UserHeader(w)
         /\ w.chain # <<>> => \A i \in 1 .. UserEnd(w) - 2 :
              UserPart(w)[i + 1] = [k |-> "udata", frames |-> Chunks(UserFrames(w))[i]]
<1>1. CASE w.chain = <<>>
  <2>1. [k |-> "error"] \in KpRec
    BY DEF KpRec
  <2>2. UserPart(w) = <<[k |-> "error"]>> /\ UserEnd(w) = 2
    BY <1>1 DEF UserPart, UserEnd
  <2> QED
    BY <1>1, <2>1, <2>2
<1>2. CASE w.chain # <<>>
  <2>1. UserHeader(w) \in KpRec
    BY WalkType DEF UserHeader, KpRec
  <2>2. UserFrames(w) \in Seq(Nat)
    BY WalkType
  <2> DEFINE d == DataRecs("udata", UserFrames(w))
  <2>3. d \in Seq(KpRec) /\ Len(d) = UserEnd(w) - 2 /\ UserEnd(w) \in Nat /\ UserEnd(w) >= 2
        /\ \A i \in 1 .. UserEnd(w) - 2 : d[i] = [k |-> "udata", frames |-> Chunks(UserFrames(w))[i]]
    BY <1>2, <2>2, DataRecsType DEF UserEnd
  <2>4. UserPart(w) = <<UserHeader(w)>> \o d
    BY <1>2 DEF UserPart
  <2> HIDE DEF d
  <2> QED
    BY <1>2, <2>1, <2>3, <2>4, HeaderFirst
<1> QED
  BY <1>1, <1>2

\* What a walk writes about the kernel stack.
LEMMA KernelPartType ==
  ASSUME NEW w \in Walks
  PROVE  /\ KernelEnd(w) \in Nat /\ KernelEnd(w) >= UserEnd(w)
         /\ KernelPart(w) \in Seq(KpRec) /\ Len(KernelPart(w)) = KernelEnd(w) - UserEnd(w)
         /\ w.kernel # <<>> => /\ KernelEnd(w) > UserEnd(w)
                               /\ KernelPart(w)[1] = KernelHeader(w)
         /\ w.kernel # <<>> => \A i \in 1 .. KernelEnd(w) - UserEnd(w) - 1 :
              KernelPart(w)[i + 1] = [k |-> "kdata", frames |-> Chunks(w.kernel)[i]]
         /\ w.kernel = <<>> => KernelEnd(w) = UserEnd(w)
<1>0. UserEnd(w) \in Nat
  BY UserPartType
<1>1. CASE w.kernel = <<>>
  BY <1>0, <1>1 DEF KernelPart, KernelEnd
<1>2. CASE w.kernel # <<>>
  <2>1. KernelHeader(w) \in KpRec
    BY WalkType DEF KernelHeader, KpRec
  <2>2. w.kernel \in Seq(Nat)
    BY WalkType
  <2> DEFINE d == DataRecs("kdata", w.kernel)
             n == ChunkCount(w.kernel)
  <2>3. d \in Seq(KpRec) /\ Len(d) = n /\ n \in Nat
        /\ \A i \in 1 .. n : d[i] = [k |-> "kdata", frames |-> Chunks(w.kernel)[i]]
    BY <2>2, DataRecsType
  <2>4. KernelPart(w) = <<KernelHeader(w)>> \o d
    BY <1>2 DEF KernelPart
  <2>5. KernelEnd(w) = UserEnd(w) + 1 + n
    BY <1>2 DEF KernelEnd
  <2> HIDE DEF d, n
  <2>6. KernelEnd(w) - UserEnd(w) - 1 = n
    BY <1>0, <2>3, <2>5
  <2> QED
    BY <1>0, <1>2, <2>1, <2>3, <2>4, <2>5, <2>6, HeaderFirst
<1> QED
  BY <1>1, <1>2

\* A walk's records one by one.
LEMMA WalkRecordsAre ==
  ASSUME NEW w \in Walks, NEW ts \in Nat
  PROVE  WalkRecords(w, ts) = <<StartRec(w, ts)>> \o UserPart(w) \o KernelPart(w) \o <<[k |-> "end"]>>
<1>1. w.chain \o w.fixup = Main(w) /\ w.chain \o w.fixup \o w.async = UserFrames(w)
  BY DEF Main, UserFrames
<1>2. (w.chain \o w.fixup = <<>>) <=> (w.chain = <<>>)
  BY <1>1, WalkType
<1>3. CASE w.chain = <<>>
  BY <1>2, <1>3 DEF WalkRecords, UserPart, KernelPart, StartRec, KernelHeader, DataRecs
<1>4. CASE w.chain # <<>>
  BY <1>1, <1>2, <1>4 DEF WalkRecords, UserPart, KernelPart, StartRec, UserHeader, KernelHeader, DataRecs
<1> QED
  BY <1>3, <1>4

RecordAt(w, ts, j) ==
  IF j = 1 THEN StartRec(w, ts)
  ELSE IF j <= UserEnd(w) THEN UserPart(w)[j - 1]
  ELSE IF j <= KernelEnd(w) THEN KernelPart(w)[j - UserEnd(w)]
  ELSE [k |-> "end"]

\* The j-th of them.
LEMMA RecordsAt ==
  ASSUME NEW w \in Walks, NEW ts \in Nat
  PROVE  /\ WalkRecords(w, ts) \in Seq(KpRec)
         /\ Len(WalkRecords(w, ts)) = KernelEnd(w) + 1
         /\ \A j \in 1 .. KernelEnd(w) + 1 : WalkRecords(w, ts)[j] = RecordAt(w, ts, j)
<1>1. PICK u \in Nat : u = UserEnd(w) /\ u >= 2
  BY UserPartType
<1>2. PICK e \in Nat : e = KernelEnd(w) /\ e >= u
  BY KernelPartType, <1>1
<1>3. PICK A : A = <<StartRec(w, ts)>>
  OBVIOUS
<1>4. PICK B \in Seq(KpRec) : B = UserPart(w) /\ Len(B) = u - 1
  BY UserPartType, <1>1
<1>5. PICK C \in Seq(KpRec) : C = KernelPart(w) /\ Len(C) = e - u
  BY KernelPartType, <1>1, <1>2
<1>6. PICK D : D = <<[k |-> "end"]>>
  OBVIOUS
<1>7. A \in Seq(KpRec) /\ Len(A) = 1 /\ A[1] = StartRec(w, ts)
  <2>1. StartRec(w, ts) \in KpRec
    BY WalkType DEF StartRec, KpRec
  <2> QED
    BY <2>1, <1>3
<1>8. D \in Seq(KpRec) /\ Len(D) = 1 /\ D[1] = [k |-> "end"]
  <2>1. [k |-> "end"] \in KpRec
    BY DEF KpRec
  <2> QED
    BY <2>1, <1>6
<1>9. PICK AB : AB = A \o B
  OBVIOUS
<1>10. AB \in Seq(KpRec) /\ Len(AB) = u
       /\ \A j \in 1 .. u : AB[j] = IF j <= 1 THEN A[j] ELSE B[j - 1]
  <2>1. 1 \in Nat /\ 1 = Len(A) /\ u = 1 + Len(B)
    BY <1>1, <1>4, <1>7
  <2>2. A \o B \in Seq(KpRec) /\ Len(A \o B) = Len(A) + Len(B)
        /\ \A j \in 1 .. Len(A) + Len(B) :
             (A \o B)[j] = IF j <= Len(A) THEN A[j] ELSE B[j - Len(A)]
    BY <1>4, <1>7, ConcatProperties
  <2>3. AB \in Seq(KpRec) /\ Len(AB) = Len(A) + Len(B)
        /\ \A j \in 1 .. Len(A) + Len(B) :
             AB[j] = IF j <= Len(A) THEN A[j] ELSE B[j - Len(A)]
    BY <2>2, <1>9, Zenon
  <2>4. Len(A) + Len(B) = u /\ Len(A) = 1
    BY <2>1
  <2> QED
    BY <2>3, <2>4
<1>11. PICK ABC : ABC = AB \o C
  OBVIOUS
<1>12. ABC \in Seq(KpRec) /\ Len(ABC) = e
       /\ \A j \in 1 .. e : ABC[j] = IF j <= u THEN AB[j] ELSE C[j - u]
  <2>1. u = Len(AB) /\ e = u + Len(C)
    BY <1>1, <1>2, <1>5, <1>10
  <2>2. AB \o C \in Seq(KpRec) /\ Len(AB \o C) = Len(AB) + Len(C)
        /\ \A j \in 1 .. Len(AB) + Len(C) :
             (AB \o C)[j] = IF j <= Len(AB) THEN AB[j] ELSE C[j - Len(AB)]
    BY <1>5, <1>10, ConcatProperties
  <2>3. ABC \in Seq(KpRec) /\ Len(ABC) = Len(AB) + Len(C)
        /\ \A j \in 1 .. Len(AB) + Len(C) :
             ABC[j] = IF j <= Len(AB) THEN AB[j] ELSE C[j - Len(AB)]
    BY <2>2, <1>11, Zenon
  <2>4. Len(AB) + Len(C) = e /\ Len(AB) = u
    BY <2>1
  <2> QED
    BY <2>3, <2>4
<1>13. PICK R : R = ABC \o D
  OBVIOUS
<1>14. R \in Seq(KpRec) /\ Len(R) = e + 1
       /\ \A j \in 1 .. e + 1 : R[j] = IF j <= e THEN ABC[j] ELSE D[j - e]
  <2>1. e = Len(ABC) /\ e + 1 \in Nat /\ e + 1 = e + Len(D)
    BY <1>8, <1>12
  <2>2. ABC \o D \in Seq(KpRec) /\ Len(ABC \o D) = Len(ABC) + Len(D)
        /\ \A j \in 1 .. Len(ABC) + Len(D) :
             (ABC \o D)[j] = IF j <= Len(ABC) THEN ABC[j] ELSE D[j - Len(ABC)]
    BY <1>8, <1>12, ConcatProperties
  <2>3. R \in Seq(KpRec) /\ Len(R) = Len(ABC) + Len(D)
        /\ \A j \in 1 .. Len(ABC) + Len(D) :
             R[j] = IF j <= Len(ABC) THEN ABC[j] ELSE D[j - Len(ABC)]
    BY <2>2, <1>13, Zenon
  <2>4. Len(ABC) + Len(D) = e + 1 /\ Len(ABC) = e
    BY <2>1
  <2> QED
    BY <2>3, <2>4
<1>15. R = WalkRecords(w, ts)
  BY <1>3, <1>4, <1>5, <1>6, <1>9, <1>11, <1>13, WalkRecordsAre
<1>16. ASSUME NEW j \in 1 .. e + 1 PROVE R[j] = RecordAt(w, ts, j)
  <2>1. CASE j = 1
    <3>1. R[j] = StartRec(w, ts)
      BY <2>1, <1>1, <1>2, <1>7, <1>10, <1>12, <1>14
    <3> QED
      BY <2>1, <3>1 DEF RecordAt
  <2>2. CASE j \in 2 .. u
    <3>1. R[j] = B[j - 1] /\ j # 1
      BY <2>2, <1>1, <1>2, <1>10, <1>12, <1>14
    <3> QED
      BY <2>2, <3>1, <1>1, <1>4 DEF RecordAt
  <2>3. CASE j \in u + 1 .. e
    <3>1. j # 1 /\ ~(j <= u) /\ j <= e /\ j \in 1 .. e
      BY <2>3, <1>1, <1>2
    <3>2. R[j] = C[j - u]
      BY <3>1, <1>12, <1>14
    <3> QED
      BY <3>1, <3>2, <1>1, <1>2, <1>5 DEF RecordAt
  <2>4. CASE j = e + 1
    <3>1. R[j] = D[1] /\ j # 1 /\ ~(j <= u) /\ ~(j <= e)
      BY <2>4, <1>1, <1>2, <1>14
    <3> QED
      BY <3>1, <1>1, <1>2, <1>8 DEF RecordAt
  <2>5. j = 1 \/ j \in 2 .. u \/ j \in u + 1 .. e \/ j = e + 1
    BY <1>1, <1>2
  <2> QED
    BY <2>1, <2>2, <2>3, <2>4, <2>5, Zenon
<1> QED
  BY <1>2, <1>14, <1>15, <1>16

\* The rest of a walk's records: its first, and what is left after it.
LEMMA RestOfRecords ==
  ASSUME NEW w \in Walks, NEW ts \in Nat, NEW n \in 0 .. KernelEnd(w) + 1
  PROVE  LET rest == SubSeq(WalkRecords(w, ts), n + 1, KernelEnd(w) + 1)
         IN  /\ rest \in Seq(KpRec)
             /\ rest = <<>> <=> n = KernelEnd(w) + 1
             /\ n <= KernelEnd(w) =>
                  /\ Head(rest) = RecordAt(w, ts, n + 1)
                  /\ Tail(rest) = SubSeq(WalkRecords(w, ts), (n + 1) + 1, KernelEnd(w) + 1)
<1>1. PICK e \in Nat : e = KernelEnd(w)
  BY KernelPartType
<1>2. PICK R \in Seq(KpRec) : R = WalkRecords(w, ts) /\ Len(R) = e + 1
                              /\ \A j \in 1 .. e + 1 : R[j] = RecordAt(w, ts, j)
  BY RecordsAt, <1>1
<1>3. PICK rest : rest = SubSeq(R, n + 1, e + 1)
  OBVIOUS
<1>4. rest \in Seq(KpRec) /\ Len(rest) = e + 1 - n
      /\ \A j \in 1 .. e + 1 - n : rest[j] = R[n + j]
  <2>1. n + 1 \in 1 .. Len(R) + 1 /\ e + 1 \in (n + 1) - 1 .. Len(R)
    BY <1>1, <1>2
  <2> QED
    BY <1>1, <1>2, <1>3, <2>1, SubSeqProperties
<1>5. rest = <<>> <=> n = e + 1
  BY <1>1, <1>4
<1>6. ASSUME n <= e PROVE Head(rest) = R[n + 1] /\ Tail(rest) = SubSeq(R, (n + 1) + 1, e + 1)
  <2>1. Head(rest) = R[n + 1]
    BY <1>1, <1>4, <1>6
  <2>2. Tail(rest) = SubSeq(R, (n + 1) + 1, e + 1)
    BY <1>1, <1>2, <1>3, <1>6, HeadTailOfSubSeq
  <2> QED
    BY <2>1, <2>2
<1>7. n <= e => R[n + 1] = RecordAt(w, ts, n + 1)
  BY <1>1, <1>2
<1> QED
  BY <1>1, <1>2, <1>3, <1>4, <1>5, <1>6, <1>7

-----------------------------------------------------------------------------
(* A whole walk normalised is its call stack *)

\* Lists of frames joined in either order.
LEMMA FramesAssociate ==
  \A a, b, c \in Seq(Nat) : (a \o b) \o c = a \o (b \o c)
BY ConcatAssociative

\* The last m elements of n, past the first l and one more.
LEMMA PastTheFixup ==
  ASSUME NEW l \in Nat, NEW m \in Nat, NEW n \in Nat, n = l + 1 + m
  PROVE  /\ l + 2 \in Int /\ n \in Int /\ n - (l + 2) + 1 = m
         /\ (IF l + 2 <= n THEN n - (l + 2) + 1 ELSE 0) = m
OBVIOUS

FramesOf(F, c, x, y) ==
  /\ F \in Seq(Nat) /\ Len(F) = Len(c) + 1 + Len(y) /\ F[Len(c) + 1] = x
  /\ \A j \in 1 .. Len(c) : F[j] = c[j]
  /\ \A j \in 1 .. Len(y) : F[Len(c) + 1 + j] = y[j]

\* The frames in call order: the fixup after the first, unless it is there.
InCallOrder(c, x, y) ==
  IF x = 0 THEN c \o <<x>> \o y
  ELSE IF Len(c) > 1 /\ c[2] = x THEN c \o y
  ELSE (<<c[1]>> \o <<x>> \o Tail(c)) \o y

\* A chain, its fixup and the async frames, element by element.
LEMMA FramesAre ==
  ASSUME NEW c \in Seq(Nat), NEW x \in Nat, NEW y \in Seq(Nat)
  PROVE  FramesOf(c \o <<x>> \o y, c, x, y)
<1>1. PICK l \in Nat : l = Len(c)
  OBVIOUS
<1>2. PICK m \in Nat : m = Len(y)
  OBVIOUS
<1>3. PICK M : M = c \o <<x>>
  OBVIOUS
<1>4. M \in Seq(Nat) /\ Len(M) = l + 1 /\ M[l + 1] = x /\ \A j \in 1 .. l : M[j] = c[j]
  BY <1>1, <1>3
<1>5. PICK G : G = M \o y
  OBVIOUS
<1>6. M \o y \in Seq(Nat) /\ Len(M \o y) = Len(M) + Len(y)
      /\ \A j \in 1 .. Len(M) + Len(y) :
           (M \o y)[j] = IF j <= Len(M) THEN M[j] ELSE y[j - Len(M)]
  BY <1>4, ConcatProperties
<1>7. G \in Seq(Nat) /\ Len(G) = Len(M) + Len(y)
      /\ \A j \in 1 .. Len(M) + Len(y) : G[j] = IF j <= Len(M) THEN M[j] ELSE y[j - Len(M)]
  BY <1>5, <1>6, Zenon
<1>8. \A j \in 1 .. l + 1 + m : G[j] = IF j <= l + 1 THEN M[j] ELSE y[j - (l + 1)]
  BY <1>2, <1>4, <1>7
<1>9. G[l + 1] = x /\ \A j \in 1 .. l : G[j] = c[j]
  BY <1>4, <1>8
<1>10. ASSUME NEW j \in 1 .. m PROVE G[l + 1 + j] = y[j]
  <2>1. l + 1 + j \in 1 .. l + 1 + m /\ ~(l + 1 + j <= l + 1) /\ (l + 1 + j) - (l + 1) = j
    OBVIOUS
  <2> QED
    BY <1>8, <2>1
<1>11. Len(G) = l + 1 + m
  BY <1>2, <1>4, <1>7
<1>12. c \o <<x>> \o y = G
  BY <1>3, <1>5
<1> QED
  <2>1. FramesOf(G, c, x, y)
    BY <1>1, <1>2, <1>7, <1>9, <1>10, <1>11 DEF FramesOf
  <2> QED
    BY <1>12, <2>1, Zenon

\* Taking the fixup out.
LEMMA FixupRemoved ==
  ASSUME NEW c \in Seq(Nat), NEW y \in Seq(Nat), NEW F \in Seq(Nat),
         Len(F) = Len(c) + 1 + Len(y),
         \A j \in 1 .. Len(c) : F[j] = c[j],
         \A j \in 1 .. Len(y) : F[Len(c) + 1 + j] = y[j]
  PROVE  RemoveAt(F, Len(c) + 1) = c \o y
<1>1. PICK l \in Nat : l = Len(c)
  OBVIOUS
<1>2. PICK m \in Nat : m = Len(y)
  OBVIOUS
<1>3. PICK n \in Nat : n = Len(F) /\ n = l + 1 + m
  BY <1>1, <1>2
<1>4. SubSeq(F, 1, l) = c
  <2>1. SubSeq(F, 1, l) \in Seq(Nat) /\ Len(SubSeq(F, 1, l)) = l
        /\ \A j \in 1 .. l : SubSeq(F, 1, l)[j] = F[j]
    BY <1>3
  <2> QED
    BY <2>1, <1>1, SeqEqual
<1>5. PICK G : G = SubSeq(F, l + 2, n)
  OBVIOUS
<1>6. G = y
  <2>1. \A j \in l + 2 .. n : F[j] \in Nat
    BY <1>3
  <2>2. l + 2 \in Int /\ n \in Int /\ n - (l + 2) + 1 = m
        /\ (IF l + 2 <= n THEN n - (l + 2) + 1 ELSE 0) = m
    BY <1>3, PastTheFixup
  <2>3. G \in Seq(Nat) /\ Len(G) = (IF l + 2 <= n THEN n - (l + 2) + 1 ELSE 0)
        /\ \A j \in 1 .. n - (l + 2) + 1 : G[j] = F[l + 2 + j - 1]
    BY <2>1, <2>2, <1>5, SubSeqProperties
  <2>4. \A j \in 1 .. m : l + 2 + j - 1 = l + 1 + j
    OBVIOUS
  <2>5. \A j \in 1 .. m : G[j] = y[j]
    BY <2>2, <2>3, <2>4, <1>1, <1>2
  <2> QED
    BY <2>2, <2>3, <2>5, <1>2, SeqEqual
<1>7. RemoveAt(F, l + 1) = SubSeq(F, 1, (l + 1) - 1) \o SubSeq(F, (l + 1) + 1, Len(F))
  BY DEF RemoveAt
<1>8. (l + 1) - 1 = l /\ (l + 1) + 1 = l + 2
  OBVIOUS
<1> QED
  BY <1>1, <1>3, <1>4, <1>5, <1>6, <1>7, <1>8

\* Inserting the fixup after the first frame.
LEMMA FixupInserted ==
  ASSUME NEW c \in Seq(Nat), c # <<>>, NEW x \in Nat, NEW y \in Seq(Nat)
  PROVE  InsertAt(c \o y, 2, x) = (<<c[1]>> \o <<x>> \o Tail(c)) \o y
<1>0. c[1] \in Nat /\ Tail(c) \in Seq(Nat)
  OBVIOUS
<1>1. PICK h \in Nat, t \in Seq(Nat) : h = c[1] /\ t = Tail(c)
  BY <1>0
<1>2. c = <<h>> \o t
  <2>1. Len(c) \in Nat /\ Len(c) >= 1 /\ Len(t) = Len(c) - 1 /\ \A j \in 1 .. Len(t) : t[j] = c[j + 1]
    BY <1>1, HeadTailProperties, EmptySeq
  <2>2. <<h>> \o t \in Seq(Nat) /\ Len(<<h>> \o t) = Len(t) + 1 /\ (<<h>> \o t)[1] = h
        /\ \A j \in 1 .. Len(t) : (<<h>> \o t)[j + 1] = t[j]
    BY HeaderFirst
  <2>3. ASSUME NEW j \in 1 .. Len(c) PROVE c[j] = (<<h>> \o t)[j]
    <3>1. CASE j = 1
      BY <3>1, <2>2, <1>1
    <3>2. CASE j # 1
      <4>1. j - 1 \in 1 .. Len(t) /\ (j - 1) + 1 = j
        BY <3>2, <2>1
      <4> QED
        BY <4>1, <2>1, <2>2
    <3> QED
      BY <3>1, <3>2
  <2>4. Len(c) = Len(<<h>> \o t)
    BY <2>1, <2>2
  <2>5. PICK q : q = <<h>> \o t
    OBVIOUS
  <2>6. q \in Seq(Nat) /\ Len(c) = Len(q) /\ \A j \in 1 .. Len(c) : c[j] = q[j]
    BY <2>2, <2>3, <2>4, <2>5, Zenon
  <2>7. c = q
    BY <2>6, SeqEqual
  <2> QED
    BY <2>5, <2>7
<1>3. PICK r : r = t \o y
  OBVIOUS
<1>4. r \in Seq(Nat)
  BY <1>3
<1>5. c \o y = <<h>> \o r
  BY <1>2, <1>3, <1>1, ConcatAssociative, <<h>> \in Seq(Nat)
<1>6. PICK z : z = <<h>> \o r
  OBVIOUS
<1>7. z \in Seq(Nat) /\ Len(z) = Len(r) + 1 /\ z[1] = h /\ \A j \in 1 .. Len(r) : z[j + 1] = r[j]
  BY <1>4, <1>6, HeaderFirst
<1>8. SubSeq(z, 1, 1) = <<h>>
  <2>1. Len(z) \in Nat /\ Len(z) >= 1
    BY <1>7, <1>4
  <2>2. SubSeq(z, 1, 1) \in Seq(Nat) /\ Len(SubSeq(z, 1, 1)) = 1 /\ SubSeq(z, 1, 1)[1] = z[1]
    BY <2>1, <1>7
  <2> QED
    <3>1. PICK q \in Seq(Nat) : q = SubSeq(z, 1, 1)
      BY <2>2
    <3>2. Len(q) = 1 /\ q[1] = h
      BY <2>2, <3>1, <1>7
    <3>3. q = <<h>>
      BY <3>2
    <3> QED
      BY <3>1, <3>3
<1>9. SubSeq(z, 2, Len(z)) = r
  <2>1. z # <<>> /\ Len(r) \in Nat
    BY <1>7, <1>4
  <2>2. SubSeq(z, 2, Len(z)) = Tail(z)
    BY <2>1, <1>7, TailIsSubSeq
  <2>3. Tail(z) \in Seq(Nat) /\ Len(Tail(z)) = Len(r) /\ \A j \in 1 .. Len(r) : Tail(z)[j] = z[j + 1]
    BY <2>1, <1>7, HeadTailProperties
  <2>4. \A j \in 1 .. Len(r) : Tail(z)[j] = r[j]
    BY <2>3, <1>7
  <2> QED
    BY <2>2, <2>3, <2>4, <1>4, SeqEqual
<1>10. InsertAt(z, 2, x) = <<h>> \o <<x>> \o r
  <2>1. InsertAt(z, 2, x) = SubSeq(z, 1, 2 - 1) \o <<x>> \o SubSeq(z, 2, Len(z))
    BY DEF InsertAt
  <2>2. 2 - 1 = 1
    OBVIOUS
  <2> QED
    BY <2>1, <2>2, <1>8, <1>9
<1>11. (<<h>> \o <<x>>) \o (t \o y) = ((<<h>> \o <<x>>) \o t) \o y
  <2>1. <<h>> \o <<x>> \in Seq(Nat)
    OBVIOUS
  <2>2. PICK q \in Seq(Nat) : q = <<h>> \o <<x>>
    BY <2>1
  <2>3. (q \o t) \o y = q \o (t \o y)
    BY FramesAssociate
  <2> QED
    BY <2>2, <2>3, Zenon
<1> QED
  BY <1>1, <1>3, <1>5, <1>6, <1>10, <1>11

\* normalize_user_fixup on a chain, its fixup and async frames.
LEMMA FramesNormalized ==
  ASSUME NEW c \in Seq(Nat), c # <<>>, NEW x \in Nat, NEW y \in Seq(Nat),
         NEW p, p.user = c \o <<x>> \o y, p.main = Len(c) + 1
  PROVE  Normalized(p) = InCallOrder(c, x, y)
<1>0. PICK F : F = c \o <<x>> \o y
  OBVIOUS
<1>1. /\ F \in Seq(Nat) /\ Len(F) = Len(c) + 1 + Len(y) /\ F[Len(c) + 1] = x
      /\ \A j \in 1 .. Len(c) : F[j] = c[j]
      /\ \A j \in 1 .. Len(y) : F[Len(c) + 1 + j] = y[j]
  <2>1. FramesOf(F, c, x, y)
    BY <1>0, FramesAre, Zenon
  <2> QED
    BY <2>1 DEF FramesOf
<1>2. PICK l \in Nat : l = Len(c)
  OBVIOUS
<1>3. PICK m \in Nat : m = Len(y)
  OBVIOUS
<1>4. l # 0
  BY <1>2, EmptySeq
<1>5. RemoveAt(F, l + 1) = c \o y
  BY <1>1, <1>2, FixupRemoved, Zenon
<1>6. l > 1 => F[2] = c[2]
  <2>1. l > 1 => 2 \in 1 .. l
    OBVIOUS
  <2> QED
    BY <1>1, <1>2, <2>1, Zenon
<1>7. PICK n \in Nat : n = Len(F) /\ n = l + 1 + m
  BY <1>1, <1>2, <1>3
<1>8. (IF l + 1 < n THEN l + 1 ELSE n) = l + 1 /\ ~(l + 1 < 2) /\ (l + 1 > 2 <=> l > 1)
  BY <1>4, <1>7
<1>9. (IF p.main < Len(p.user) THEN p.main ELSE Len(p.user)) = l + 1
  BY <1>0, <1>2, <1>7, <1>8, Zenon
<1>10. Normalized(p) = IF F[l + 1] = 0 THEN F
                       ELSE IF l + 1 > 2 /\ F[2] = F[l + 1] THEN RemoveAt(F, l + 1)
                       ELSE InsertAt(RemoveAt(F, l + 1), 2, F[l + 1])
  BY <1>0, <1>8, <1>9, Zenon DEF Normalized
<1>11. F[l + 1] = x
  BY <1>1, <1>2, Zenon
<1>12. InsertAt(c \o y, 2, x) = (<<c[1]>> \o <<x>> \o Tail(c)) \o y
  BY FixupInserted, Zenon
<1>13. CASE x = 0
  BY <1>0, <1>10, <1>11, <1>13, Zenon DEF InCallOrder
<1>14. CASE x # 0 /\ l > 1 /\ c[2] = x
  BY <1>2, <1>5, <1>6, <1>8, <1>10, <1>11, <1>14, Zenon DEF InCallOrder
<1>15. CASE x # 0 /\ ~(l > 1 /\ c[2] = x)
  BY <1>2, <1>5, <1>6, <1>8, <1>10, <1>11, <1>12, <1>15, Zenon DEF InCallOrder
<1> QED
  BY <1>13, <1>14, <1>15, Zenon

\* A list joined with nothing.
LEMMA NothingJoined ==
  ASSUME NEW c \in Seq(Nat), c # <<>>, NEW x \in Nat
  PROVE  /\ c \o <<>> = c
         /\ (<<c[1]>> \o <<x>> \o Tail(c)) \o <<>> = <<c[1]>> \o <<x>> \o Tail(c)
         /\ <<x>> # <<>> /\ <<x>>[1] = x /\ (<<x>> = <<0>> <=> x = 0)
<1>1. c[1] \in Nat /\ Tail(c) \in Seq(Nat)
  OBVIOUS
<1>2. <<c[1]>> \o <<x>> \o Tail(c) \in Seq(Nat)
  BY <1>1
<1> QED
  BY <1>2, ConcatEmptySeq

\* The call stack a walk stands for, by its fixup.
LEMMA CallStackIs ==
  ASSUME NEW w, NEW c \in Seq(Nat), c # <<>>, NEW x \in Nat, NEW y \in Seq(Nat),
         w.chain = c, w.fixup = <<x>>, w.async = y
  PROVE  CallStack(w) = UpToNull(InCallOrder(c, x, y))
<1>1. <<x>> # <<>> /\ <<x>>[1] = x /\ (<<x>> = <<0>> <=> x = 0)
  BY NothingJoined
<1>2. CASE x = 0
  BY <1>1, <1>2, Zenon DEF CallStack, InCallOrder
<1>3. CASE x # 0 /\ Len(c) > 1 /\ c[2] = x
  <2>1. CallStack(w) = UpToNull(c \o <<>> \o y)
    BY <1>1, <1>3, Zenon DEF CallStack
  <2>2. c \o <<>> = c
    BY NothingJoined
  <2> QED
    BY <1>3, <2>1, <2>2, Zenon DEF InCallOrder
<1>4. CASE x # 0 /\ ~(Len(c) > 1 /\ c[2] = x)
  <2>1. CallStack(w) = UpToNull((<<c[1]>> \o <<x>> \o Tail(c)) \o <<>> \o y)
    BY <1>1, <1>4, Zenon DEF CallStack
  <2>2. (<<c[1]>> \o <<x>> \o Tail(c)) \o <<>> = <<c[1]>> \o <<x>> \o Tail(c)
    BY NothingJoined
  <2> QED
    BY <1>4, <2>1, <2>2, Zenon DEF InCallOrder
<1> QED
  BY <1>2, <1>3, <1>4, Zenon

\* normalize_user_fixup on a whole walk.
LEMMA WalkNormalized ==
  ASSUME NEW w \in Walks, NEW p,
         w.chain = <<>> => p.user = <<>> /\ p.main = 0,
         w.chain # <<>> => p.user = UserFrames(w) /\ p.main = Len(Main(w))
  PROVE  UpToNull(Normalized(p)) = CallStack(w)
<1>1. CASE w.chain = <<>>
  <2>1. w.fixup = <<>> /\ w.async = <<>> /\ p.user = <<>> /\ p.main = 0
    BY <1>1, KpAssumption
  <2>2. Normalized(p) = <<>>
    BY <2>1 DEF Normalized
  <2>3. <<>> # <<0>>
    OBVIOUS
  <2>4. CallStack(w) = UpToNull(<<>> \o <<>> \o <<>>)
    BY <1>1, <2>1, <2>3 DEF CallStack
  <2>5. <<>> \o <<>> \o <<>> = <<>>
    OBVIOUS
  <2> QED
    BY <2>2, <2>4, <2>5
<1>2. CASE w.chain # <<>>
  <2>1. w.chain \in Seq(Nat) /\ w.async \in Seq(Nat) /\ w.fixup \in Seq(Nat) /\ Len(w.fixup) = 1
        /\ Len(Main(w)) = Len(w.chain) + 1
    BY <1>2, WalkType
  <2>2. PICK x \in Nat : w.fixup = <<x>>
    <3>1. w.fixup[1] \in Nat /\ w.fixup = <<w.fixup[1]>>
      BY <2>1
    <3> QED
      BY <3>1
  <2>3. p.user = w.chain \o <<x>> \o w.async /\ p.main = Len(w.chain) + 1
    BY <1>2, <2>1, <2>2, Zenon DEF UserFrames, Main
  <2>4. Normalized(p) = InCallOrder(w.chain, x, w.async)
    BY <1>2, <2>1, <2>3, FramesNormalized, Zenon
  <2>5. CallStack(w) = UpToNull(InCallOrder(w.chain, x, w.async))
    BY <1>2, <2>1, <2>2, CallStackIs, Zenon
  <2> QED
    BY <2>4, <2>5, Zenon
<1> QED
  BY <1>1, <1>2

-----------------------------------------------------------------------------
(* One record at a time *)

\* Nothing taken yet, and everything taken.
LEMMA GotEnds ==
  ASSUME NEW fs \in Seq(Nat)
  PROVE  /\ Got(fs, 0) = <<>> /\ Owed(fs, 0) = Len(fs)
         /\ Got(fs, ChunkCount(fs)) = fs
<1>1. Len(fs) \in Nat /\ Chunk \in Nat /\ 0 * Chunk = 0
  BY KpAssumption
<1>2. Taken(fs, 0) = 0
  BY <1>1 DEF Taken
<1>3. Taken(fs, ChunkCount(fs)) = Len(fs)
  <2>1. ChunkCount(fs) \in Nat /\ ChunkCount(fs) * Chunk >= Len(fs)
    BY ChunksType
  <2>2. ChunkCount(fs) * Chunk \in Nat
    BY <2>1, Places
  <2>3. ~(ChunkCount(fs) * Chunk < Len(fs))
    BY <1>1, <2>1, <2>2
  <2> QED
    BY <2>3 DEF Taken
<1>4. SubSeq(fs, 1, 0) = <<>> /\ SubSeq(fs, 1, Len(fs)) = fs
  BY SubSeqFull, SubSeqEmpty
<1> QED
  BY <1>1, <1>2, <1>3, <1>4 DEF Got, Owed

\* The record after the first n, by where they end.
LEMMA NextRecord ==
  ASSUME NEW w \in Walks, NEW ts \in Nat, NEW n \in 0 .. KernelEnd(w), NEW rec,
         rec = RecordAt(w, ts, n + 1)
  PROVE  /\ UserEnd(w) \in Nat /\ UserEnd(w) >= 2 /\ KernelEnd(w) \in Nat /\ KernelEnd(w) >= UserEnd(w)
         /\ n = 0 => rec = StartRec(w, ts)
         /\ n = 1 => rec = IF w.chain = <<>> THEN [k |-> "error"] ELSE UserHeader(w)
         /\ n \in 2 .. UserEnd(w) - 1 =>
              /\ w.chain # <<>> /\ n - 2 < ChunkCount(UserFrames(w))
              /\ rec = [k |-> "udata", frames |-> Chunks(UserFrames(w))[(n - 2) + 1]]
         /\ n = UserEnd(w) /\ n < KernelEnd(w) => w.kernel # <<>> /\ rec = KernelHeader(w)
         /\ n > UserEnd(w) /\ n < KernelEnd(w) =>
              /\ w.kernel # <<>> /\ n - UserEnd(w) - 1 < ChunkCount(w.kernel)
              /\ rec = [k |-> "kdata", frames |-> Chunks(w.kernel)[(n - UserEnd(w) - 1) + 1]]
         /\ n = KernelEnd(w) => rec = [k |-> "end"]
<1>1. PICK u \in Nat : u = UserEnd(w) /\ u >= 2
  BY UserPartType
<1>2. PICK e \in Nat : e = KernelEnd(w) /\ e >= u
  BY KernelPartType, <1>1
<1>3. rec = IF n + 1 = 1 THEN StartRec(w, ts)
            ELSE IF n + 1 <= u THEN UserPart(w)[(n + 1) - 1]
            ELSE IF n + 1 <= e THEN KernelPart(w)[(n + 1) - u] ELSE [k |-> "end"]
  BY <1>1, <1>2 DEF RecordAt
<1>4. n \in Nat /\ n <= e
  BY <1>2
<1>5. n = 0 => rec = StartRec(w, ts)
  BY <1>3
<1>6. n >= 1 /\ n < u => rec = UserPart(w)[n]
  BY <1>3, <1>4
<1>7. n >= u /\ n < e => rec = KernelPart(w)[n - u + 1]
  <2>1. ASSUME n >= u, n < e PROVE (n + 1) - u = n - u + 1 /\ ~(n + 1 = 1) /\ ~(n + 1 <= u) /\ n + 1 <= e
    BY <2>1, <1>1, <1>4
  <2> QED
    BY <1>3, <2>1
<1>8. n = e => rec = [k |-> "end"]
  BY <1>1, <1>2, <1>3, <1>4
<1>9. n = 1 => rec = IF w.chain = <<>> THEN [k |-> "error"] ELSE UserHeader(w)
  BY <1>1, <1>6, UserPartType
<1>10. ASSUME n \in 2 .. u - 1
       PROVE  /\ w.chain # <<>> /\ n - 2 < ChunkCount(UserFrames(w))
              /\ rec = [k |-> "udata", frames |-> Chunks(UserFrames(w))[(n - 2) + 1]]
  <2>1. w.chain # <<>> /\ u = 2 + ChunkCount(UserFrames(w))
    BY <1>1, <1>10 DEF UserEnd
  <2>2. ChunkCount(UserFrames(w)) \in Nat
    BY WalkType, ChunksType
  <2>3. n - 1 \in 1 .. u - 2 /\ (n - 1) + 1 = n /\ (n - 2) + 1 = n - 1 /\ n < u /\ n >= 1
        /\ n - 2 < ChunkCount(UserFrames(w))
    BY <1>1, <1>10, <2>1, <2>2
  <2>4. UserPart(w)[(n - 1) + 1] = [k |-> "udata", frames |-> Chunks(UserFrames(w))[n - 1]]
    BY <2>1, <2>3, <1>1, UserPartType
  <2> QED
    BY <1>6, <2>1, <2>3, <2>4
<1>11. ASSUME n >= u, n < e PROVE w.kernel # <<>> /\ e = u + 1 + ChunkCount(w.kernel)
  BY <1>1, <1>2, <1>11 DEF KernelEnd
<1>12. ASSUME n = u, n < e PROVE w.kernel # <<>> /\ rec = KernelHeader(w)
  <2>1. n >= u /\ n - u + 1 = 1
    BY <1>12
  <2> QED
    BY <1>7, <1>11, <1>12, <2>1, KernelPartType
<1>13. ASSUME n > u, n < e
       PROVE  /\ w.kernel # <<>> /\ n - u - 1 < ChunkCount(w.kernel)
              /\ rec = [k |-> "kdata", frames |-> Chunks(w.kernel)[(n - u - 1) + 1]]
  <2>1. w.kernel # <<>> /\ e = u + 1 + ChunkCount(w.kernel)
    BY <1>11, <1>13, <1>4
  <2>2. ChunkCount(w.kernel) \in Nat
    BY WalkType, ChunksType
  <2>3. n - u \in 1 .. e - u - 1 /\ (n - u - 1) + 1 = n - u /\ n - u - 1 < ChunkCount(w.kernel) /\ n >= u
    BY <1>4, <1>13, <2>1, <2>2
  <2>4. KernelPart(w)[(n - u) + 1] = [k |-> "kdata", frames |-> Chunks(w.kernel)[n - u]]
    BY <2>1, <2>3, <1>1, <1>2, KernelPartType
  <2> QED
    BY <1>7, <1>13, <2>1, <2>3, <2>4
<1> QED
  BY <1>1, <1>2, <1>5, <1>8, <1>9, <1>10, <1>12, <1>13

\* Parser::feed, up to the end record.
LEMMA FeedStep ==
  ASSUME NEW w \in Walks, NEW ts \in Nat, NEW n \in 0 .. KernelEnd(w), n < KernelEnd(w),
         NEW p \in ParserRec, n >= 1 => Assembled(p, w, n), NEW rec, rec = RecordAt(w, ts, n + 1)
  PROVE  Assembled(Fed(p, rec), w, n + 1) /\ rec.k # "end" /\ Completed(p, rec) = <<>>
<1>1. PICK u \in Nat : u = UserEnd(w) /\ u >= 2
  BY UserPartType
<1>2. PICK e \in Nat : e = KernelEnd(w) /\ e >= u
  BY KernelPartType, <1>1
<1>3. n \in Nat /\ n < e
  BY <1>2
<1>4. w.kernel \in Seq(Nat) /\ UserFrames(w) \in Seq(Nat) /\ Len(UserFrames(w)) = Len(Main(w)) + Len(w.async)
  BY WalkType
<1>5. CASE n = 0
  <2>1. rec = StartRec(w, ts)
    BY <1>5, NextRecord
  <2>2. rec.k = "start" /\ rec.tid = w.tid /\ rec.ts = ts
    BY <2>1 DEF StartRec
  <2>3. Fed(p, rec) = [IdleParser EXCEPT !.busy = TRUE, !.tid = w.tid, !.ts = ts]
    BY <2>2 DEF Fed
  <2>4. Completed(p, rec) = <<>>
    BY <2>2 DEF Completed
  <2>5. PICK q : q = Fed(p, rec)
    OBVIOUS
  <2>6. q.busy /\ q.tid = w.tid /\ q.user = <<>> /\ q.main = 0 /\ q.kernel = <<>>
    BY <2>3, <2>5 DEF IdleParser
  <2>7. Assembled(q, w, 1)
    BY <1>1, <2>6 DEF Assembled, UserAssembled, KernelAssembled
  <2>8. n + 1 = 1
    BY <1>5
  <2> QED
    BY <2>2, <2>4, <2>5, <2>7, <2>8
<1>6. CASE n = 1 /\ w.chain = <<>>
  <2>1. rec = [k |-> "error"] /\ Assembled(p, w, n)
    BY <1>6, NextRecord
  <2>2. rec.k = "error"
    BY <2>1
  <2>3. Fed(p, rec) = p /\ Completed(p, rec) = <<>>
    BY <2>2 DEF Fed, Completed
  <2> QED
    BY <1>1, <1>6, <2>1, <2>2, <2>3 DEF Assembled, UserAssembled, KernelAssembled
<1>7. CASE n = 1 /\ w.chain # <<>>
  <2>1. rec = UserHeader(w) /\ Assembled(p, w, n)
    BY <1>7, NextRecord
  <2>2. rec.k = "uhdr" /\ rec.main = Len(Main(w)) /\ rec.async = Len(w.async)
    BY <2>1 DEF UserHeader
  <2>3. p.busy /\ p.tid = w.tid /\ p.user = <<>> /\ p.kernel = <<>>
    BY <1>1, <1>7, <2>1 DEF Assembled, UserAssembled, KernelAssembled
  <2>4. Fed(p, rec) = [p EXCEPT !.main = Len(Main(w)), !.left = Len(Main(w)) + Len(w.async)]
    BY <2>2, <2>3 DEF Fed
  <2>5. Fed(p, rec).busy /\ Fed(p, rec).tid = w.tid /\ Fed(p, rec).user = Got(UserFrames(w), 0)
        /\ Fed(p, rec).left = Owed(UserFrames(w), 0) /\ Fed(p, rec).main = Len(Main(w))
        /\ Fed(p, rec).kernel = <<>>
    <3>1. Got(UserFrames(w), 0) = <<>> /\ Owed(UserFrames(w), 0) = Len(Main(w)) + Len(w.async)
      BY <1>4, GotEnds
    <3>2. Fed(p, rec).busy /\ Fed(p, rec).tid = w.tid /\ Fed(p, rec).user = <<>>
          /\ Fed(p, rec).left = Len(Main(w)) + Len(w.async) /\ Fed(p, rec).main = Len(Main(w))
          /\ Fed(p, rec).kernel = <<>>
      BY <2>3, <2>4 DEF ParserRec
    <3> QED
      BY <3>1, <3>2
  <2>6. 0 = (IF n + 1 < u THEN n + 1 ELSE u) - 2 /\ 0 \in Nat /\ ~(n + 1 = 1) /\ n + 1 <= u
    BY <1>1, <1>7
  <2>7. UserAssembled(Fed(p, rec), w, n + 1) /\ KernelAssembled(Fed(p, rec), w, n + 1)
    BY <1>1, <1>7, <2>5, <2>6 DEF UserAssembled, KernelAssembled
  <2>8. Completed(p, rec) = <<>>
    BY <2>2 DEF Completed
  <2> QED
    BY <2>2, <2>5, <2>7, <2>8 DEF Assembled
<1>8. CASE n \in 2 .. u - 1
  <2>1. w.chain # <<>> /\ n - 2 < ChunkCount(UserFrames(w)) /\ Assembled(p, w, n)
        /\ rec = [k |-> "udata", frames |-> Chunks(UserFrames(w))[(n - 2) + 1]]
    BY <1>1, <1>8, NextRecord
  <2>2. PICK i \in Nat : i = n - 2 /\ i + 1 = (IF n + 1 < u THEN n + 1 ELSE u) - 2
                         /\ i = (IF n < u THEN n ELSE u) - 2
    BY <1>1, <1>8
  <2>3. p.busy /\ p.tid = w.tid /\ p.user = Got(UserFrames(w), i) /\ p.left = Owed(UserFrames(w), i)
        /\ p.main = Len(Main(w)) /\ p.kernel = <<>>
    BY <1>1, <1>8, <2>1, <2>2 DEF Assembled, UserAssembled, KernelAssembled
  <2>4. rec.k = "udata" /\ rec.frames = Chunks(UserFrames(w))[i + 1]
    BY <2>1, <2>2
  <2>5. Appended(p.user, p.left, rec) = Got(UserFrames(w), i + 1) /\ Remaining(p.left) = Owed(UserFrames(w), i + 1)
    BY <1>4, <2>1, <2>2, <2>3, <2>4, AppendChunk
  <2>6. Fed(p, rec) = [p EXCEPT !.user = Got(UserFrames(w), i + 1), !.left = Owed(UserFrames(w), i + 1)]
    BY <2>3, <2>4, <2>5 DEF Fed
  <2>7. Fed(p, rec).busy /\ Fed(p, rec).tid = w.tid /\ Fed(p, rec).user = Got(UserFrames(w), i + 1)
        /\ Fed(p, rec).left = Owed(UserFrames(w), i + 1) /\ Fed(p, rec).main = Len(Main(w))
        /\ Fed(p, rec).kernel = <<>>
    BY <2>3, <2>6 DEF ParserRec
  <2>8. i + 1 \in Nat /\ ~(n + 1 = 1) /\ n + 1 <= u
    BY <1>1, <1>8
  <2>9. UserAssembled(Fed(p, rec), w, n + 1) /\ KernelAssembled(Fed(p, rec), w, n + 1)
    BY <1>1, <2>1, <2>2, <2>7, <2>8 DEF UserAssembled, KernelAssembled
  <2>10. Completed(p, rec) = <<>>
    BY <2>4 DEF Completed
  <2> QED
    BY <2>4, <2>7, <2>9, <2>10 DEF Assembled
<1>9. ASSUME n >= u PROVE UserAssembled(p, w, n) => \A q : q.user = p.user /\ q.left = p.left /\ q.main = p.main => UserAssembled(q, w, n + 1)
  <2>1. (IF n < u THEN n ELSE u) = u /\ (IF n + 1 < u THEN n + 1 ELSE u) = u /\ n # 1 /\ n + 1 # 1
    BY <1>1, <1>3, <1>9
  <2> QED
    BY <1>1, <2>1 DEF UserAssembled
<1>10. CASE n = u
  <2>1. w.kernel # <<>> /\ rec = KernelHeader(w) /\ Assembled(p, w, n)
    BY <1>1, <1>2, <1>3, <1>10, NextRecord
  <2>2. rec.k = "khdr" /\ rec.main = Len(w.kernel) /\ rec.async = 0
    BY <2>1 DEF KernelHeader
  <2>3. p.busy /\ p.tid = w.tid /\ p.kernel = <<>> /\ UserAssembled(p, w, n)
    BY <1>1, <1>10, <2>1 DEF Assembled, KernelAssembled
  <2>4. Len(w.kernel) + 0 = Len(w.kernel)
    BY <1>4
  <2>5. Fed(p, rec) = [p EXCEPT !.kleft = Len(w.kernel)]
    BY <2>2, <2>3, <2>4 DEF Fed
  <2>6. Fed(p, rec).busy /\ Fed(p, rec).tid = w.tid /\ Fed(p, rec).user = p.user
        /\ Fed(p, rec).left = p.left /\ Fed(p, rec).main = p.main
        /\ Fed(p, rec).kernel = Got(w.kernel, 0) /\ Fed(p, rec).kleft = Owed(w.kernel, 0)
    BY <1>4, <2>3, <2>5, GotEnds DEF ParserRec
  <2>7. UserAssembled(Fed(p, rec), w, n + 1)
    BY <1>3, <1>9, <1>10, <2>3, <2>6
  <2>8. 0 \in Nat /\ 0 = n + 1 - u - 1 /\ ~(n + 1 <= u)
    BY <1>10
  <2>9. KernelAssembled(Fed(p, rec), w, n + 1)
    BY <1>1, <2>6, <2>8 DEF KernelAssembled
  <2>10. Completed(p, rec) = <<>>
    BY <2>2 DEF Completed
  <2> QED
    BY <2>2, <2>6, <2>7, <2>9, <2>10 DEF Assembled
<1>11. CASE n > u
  <2>1. w.kernel # <<>> /\ n - u - 1 < ChunkCount(w.kernel) /\ Assembled(p, w, n)
        /\ rec = [k |-> "kdata", frames |-> Chunks(w.kernel)[(n - u - 1) + 1]]
    BY <1>1, <1>2, <1>3, <1>11, NextRecord
  <2>2. PICK i \in Nat : i = n - u - 1 /\ i + 1 = n + 1 - u - 1
    BY <1>1, <1>3, <1>11
  <2>3. p.busy /\ p.tid = w.tid /\ UserAssembled(p, w, n)
        /\ p.kernel = Got(w.kernel, i) /\ p.kleft = Owed(w.kernel, i)
    BY <1>1, <1>11, <2>1, <2>2 DEF Assembled, KernelAssembled
  <2>4. rec.k = "kdata" /\ rec.frames = Chunks(w.kernel)[i + 1]
    BY <2>1, <2>2
  <2>5. Appended(p.kernel, p.kleft, rec) = Got(w.kernel, i + 1) /\ Remaining(p.kleft) = Owed(w.kernel, i + 1)
    BY <1>4, <2>1, <2>2, <2>3, <2>4, AppendChunk
  <2>6. Fed(p, rec) = [p EXCEPT !.kernel = Got(w.kernel, i + 1), !.kleft = Owed(w.kernel, i + 1)]
    BY <2>3, <2>4, <2>5 DEF Fed
  <2>7. Fed(p, rec).busy /\ Fed(p, rec).tid = w.tid /\ Fed(p, rec).user = p.user
        /\ Fed(p, rec).left = p.left /\ Fed(p, rec).main = p.main
        /\ Fed(p, rec).kernel = Got(w.kernel, i + 1) /\ Fed(p, rec).kleft = Owed(w.kernel, i + 1)
    BY <2>3, <2>6 DEF ParserRec
  <2>8. UserAssembled(Fed(p, rec), w, n + 1)
    BY <1>3, <1>9, <1>11, <2>3, <2>7
  <2>9. i + 1 \in Nat /\ ~(n + 1 <= u)
    BY <1>11, <1>3
  <2>10. KernelAssembled(Fed(p, rec), w, n + 1)
    BY <1>1, <2>2, <2>7, <2>9 DEF KernelAssembled
  <2>11. Completed(p, rec) = <<>>
    BY <2>4 DEF Completed
  <2> QED
    BY <2>4, <2>7, <2>8, <2>10, <2>11 DEF Assembled
<1>12. n = 0 \/ n = 1 \/ n \in 2 .. u - 1 \/ n = u \/ n > u
  BY <1>1, <1>3
<1> QED
  BY <1>5, <1>6, <1>7, <1>8, <1>10, <1>11, <1>12, Zenon

\* The end record completes the sample, and the sample is the walk.
LEMMA FeedEnd ==
  ASSUME NEW w \in Walks, NEW p \in ParserRec, Assembled(p, w, KernelEnd(w)), NEW rec,
         rec = [k |-> "end"]
  PROVE  Completed(p, rec) = <<[tid |-> w.tid, ts |-> p.ts, user |-> CallStack(w),
                                kernel |-> UpToNull(w.kernel)]>>
<1>1. PICK u \in Nat : u = UserEnd(w) /\ u >= 2
  BY UserPartType
<1>2. PICK e \in Nat : e = KernelEnd(w) /\ e >= u /\ (w.kernel = <<>> => e = u)
                       /\ (w.kernel # <<>> => e = u + 1 + ChunkCount(w.kernel))
  BY KernelPartType, <1>1 DEF KernelEnd
<1>3. w.kernel \in Seq(Nat) /\ UserFrames(w) \in Seq(Nat)
  BY WalkType
<1>4. p.busy /\ p.tid = w.tid /\ UserAssembled(p, w, e) /\ KernelAssembled(p, w, e)
  BY <1>2 DEF Assembled
<1>5. p.kernel = w.kernel
  <2>1. CASE w.kernel = <<>>
    BY <1>1, <1>2, <1>4, <2>1 DEF KernelAssembled
  <2>2. CASE w.kernel # <<>>
    <3>1. ChunkCount(w.kernel) \in Nat
      BY <1>3, ChunksType
    <3>2. e - u - 1 = ChunkCount(w.kernel) /\ ~(e <= u)
      BY <1>2, <2>2, <3>1
    <3>3. p.kernel = Got(w.kernel, ChunkCount(w.kernel))
      BY <1>1, <1>4, <3>2 DEF KernelAssembled
    <3> QED
      BY <1>3, <3>3, GotEnds
  <2> QED
    BY <2>1, <2>2
<1>6. w.chain = <<>> => p.user = <<>> /\ p.main = 0
  BY <1>4 DEF UserAssembled
<1>7. ASSUME w.chain # <<>> PROVE p.user = UserFrames(w) /\ p.main = Len(Main(w))
  <2>1. ChunkCount(UserFrames(w)) \in Nat /\ u = 2 + ChunkCount(UserFrames(w))
    BY <1>1, <1>3, <1>7, ChunksType DEF UserEnd
  <2>2. (IF e < u THEN e ELSE u) - 2 = ChunkCount(UserFrames(w)) /\ e # 1
    BY <1>1, <1>2, <2>1
  <2>3. p.user = Got(UserFrames(w), ChunkCount(UserFrames(w))) /\ p.main = Len(Main(w))
    BY <1>1, <1>4, <1>7, <2>2 DEF UserAssembled
  <2> QED
    BY <1>3, <2>3, GotEnds
<1>8. UpToNull(Normalized(p)) = CallStack(w)
  BY <1>6, <1>7, WalkNormalized
<1>9. rec.k = "end"
  OBVIOUS
<1> QED
  BY <1>4, <1>5, <1>8, <1>9, Zenon DEF Completed

\* KperfProbeTriggerScanner::feed: it fires at the user header of the walk.
LEMMA ScanStep ==
  ASSUME NEW w \in Walks, NEW ts \in Nat, NEW n \in 0 .. KernelEnd(w), NEW g \in ScannerRec,
         n >= 1 => Triggered(g, w, n), NEW rec, rec = RecordAt(w, ts, n + 1)
  PROVE  Triggered(Scanned(g, rec), w, n + 1)
<1>1. PICK u \in Nat : u = UserEnd(w) /\ u >= 2
  BY UserPartType
<1>2. PICK e \in Nat : e = KernelEnd(w) /\ e >= u
  BY KernelPartType, <1>1
<1>3. n \in Nat /\ n <= e
  BY <1>2
<1>4. CASE n = 0
  <2>1. rec.k = "start" /\ rec.tid = w.tid
    <3>1. rec = StartRec(w, ts)
      BY <1>4, NextRecord
    <3> QED
      BY <3>1 DEF StartRec
  <2>2. Scanned(g, rec) = [g EXCEPT !.busy = TRUE, !.tid = w.tid, !.triggered = FALSE]
    BY <2>1 DEF Scanned
  <2>3. Scanned(g, rec).busy /\ Scanned(g, rec).tid = w.tid /\ ~Scanned(g, rec).triggered
    BY <2>2 DEF ScannerRec
  <2> QED
    BY <1>4, <2>3 DEF Triggered
<1>5. CASE n = 1 /\ w.chain = <<>>
  <2>1. rec.k = "error"
    BY <1>5, NextRecord
  <2>2. Scanned(g, rec) = g
    BY <2>1 DEF Scanned
  <2> QED
    BY <1>1, <1>2, <1>5, <2>2 DEF Triggered
<1>6. CASE n = 1 /\ w.chain # <<>>
  <2>1. rec = UserHeader(w)
    BY <1>6, NextRecord
  <2>2. rec.k = "uhdr" /\ rec.main = Len(Main(w)) /\ rec.async = Len(w.async)
    BY <2>1 DEF UserHeader
  <2>3. PICK a \in Nat, b \in Nat : a = Len(Main(w)) /\ b = Len(w.async) /\ a > 0
    <3>1. w.chain \in Seq(Nat) /\ w.async \in Seq(Nat) /\ Len(Main(w)) = Len(w.chain) + 1
      BY <1>6, WalkType
    <3>2. Len(w.chain) \in Nat /\ Len(w.async) \in Nat
      BY <3>1, LenProperties
    <3>3. Len(Main(w)) \in Nat /\ Len(Main(w)) > 0
      BY <3>1, <3>2
    <3> QED
      BY <3>2, <3>3
  <2>4. Len(Main(w)) + Len(w.async) > 0
    BY <2>3
  <2>5. g.busy /\ g.tid = w.tid /\ ~g.triggered
    BY <1>1, <1>2, <1>6 DEF Triggered
  <2>6. Scanned(g, rec) = [g EXCEPT !.triggered = TRUE, !.last = <<w.tid>>]
    BY <2>2, <2>4, <2>5 DEF Scanned
  <2>7. Scanned(g, rec).busy /\ Scanned(g, rec).tid = w.tid /\ Scanned(g, rec).last = <<w.tid>>
    BY <2>5, <2>6 DEF ScannerRec
  <2> QED
    BY <1>6, <2>7 DEF Triggered
<1>7. CASE n >= 2 /\ n < e
  <2>1. rec.k \in {"udata", "khdr", "kdata"}
    <3>1. n \in 2 .. u - 1 \/ (n = u /\ n < e) \/ (n > u /\ n < e)
      BY <1>1, <1>3, <1>7
    <3> QED
      BY <1>1, <1>2, <3>1, NextRecord DEF KernelHeader
  <2>2. Scanned(g, rec) = g
    BY <2>1 DEF Scanned
  <2>3. Triggered(g, w, n)
    BY <1>7
  <2> QED
    BY <1>2, <1>3, <1>7, <2>2, <2>3 DEF Triggered
<1>8. CASE n >= 2 /\ n = e
  <2>1. rec.k = "end"
    BY <1>2, <1>8, NextRecord
  <2>2. Scanned(g, rec) = [g EXCEPT !.busy = FALSE]
    BY <2>1 DEF Scanned
  <2>3. Scanned(g, rec).last = g.last
    BY <2>2 DEF ScannerRec
  <2>4. Triggered(g, w, n)
    BY <1>8
  <2> QED
    BY <1>2, <1>3, <1>8, <2>3, <2>4 DEF Triggered
<1>9. n = 0 \/ n = 1 \/ (n >= 2 /\ n < e) \/ (n >= 2 /\ n = e)
  BY <1>3
<1> QED
  BY <1>4, <1>5, <1>6, <1>7, <1>8, <1>9, Zenon

-----------------------------------------------------------------------------
(* Types *)

\* Taking out and putting in a frame.
LEMMA NormalizedType ==
  ASSUME NEW p \in ParserRec
  PROVE  Normalized(p) \in Seq(Nat)
<1>1. PICK s \in Seq(Nat) : s = p.user
  BY DEF ParserRec
<1>2. PICK m \in Nat : m = IF p.main < Len(s) THEN p.main ELSE Len(s)
  BY <1>1 DEF ParserRec
<1>3. m <= Len(s) /\ Len(s) \in Nat
  BY <1>1, <1>2 DEF ParserRec
<1>4. Normalized(p) = IF m < 2 THEN s ELSE IF s[m] = 0 THEN s
                      ELSE IF m > 2 /\ s[2] = s[m] THEN RemoveAt(s, m)
                      ELSE InsertAt(RemoveAt(s, m), 2, s[m])
  BY <1>1, <1>2, Zenon DEF Normalized
<1>5. CASE m < 2
  BY <1>4, <1>5
<1>6. CASE ~(m < 2)
  <2>1. s[m] \in Nat
    BY <1>3, <1>6
  <2>2. SubSeq(s, 1, m - 1) \in Seq(Nat) /\ SubSeq(s, m + 1, Len(s)) \in Seq(Nat)
        /\ Len(SubSeq(s, 1, m - 1)) = m - 1
    BY <1>3, <1>6
  <2>3. RemoveAt(s, m) \in Seq(Nat) /\ Len(RemoveAt(s, m)) >= 1 /\ Len(RemoveAt(s, m)) \in Nat
    <3>1. PICK a \in Seq(Nat), b \in Seq(Nat) : a = SubSeq(s, 1, m - 1) /\ b = SubSeq(s, m + 1, Len(s))
      BY <2>2
    <3>2. a \o b \in Seq(Nat) /\ Len(a \o b) = Len(a) + Len(b)
      BY ConcatProperties
    <3>3. Len(a) = m - 1 /\ Len(b) \in Nat
      BY <2>2, <3>1
    <3>4. RemoveAt(s, m) = a \o b
      BY <3>1 DEF RemoveAt
    <3> QED
      BY <1>6, <3>2, <3>3, <3>4
  <2>4. PICK r \in Seq(Nat) : r = RemoveAt(s, m) /\ Len(r) >= 1 /\ Len(r) \in Nat
    BY <2>3
  <2>5. SubSeq(r, 1, 1) \in Seq(Nat) /\ SubSeq(r, 2, Len(r)) \in Seq(Nat) /\ <<s[m]>> \in Seq(Nat)
    BY <2>1, <2>4
  <2>6. 2 - 1 = 1
    OBVIOUS
  <2>7. InsertAt(r, 2, s[m]) \in Seq(Nat)
    BY <2>5, <2>6, ConcatProperties DEF InsertAt
  <2> QED
    BY <1>4, <2>3, <2>4, <2>7
<1> QED
  BY <1>5, <1>6

\* Parser::feed and the sample it completes.
LEMMA FedType ==
  ASSUME NEW p \in ParserRec, NEW rec \in KpRec
  PROVE  /\ Fed(p, rec) \in ParserRec
         /\ Completed(p, rec) # <<>> => Completed(p, rec)[1] \in SampleRec
<1>0. Chunk \in Nat \ {0}
  BY KpAssumption
<1>1. ASSUME NEW fs \in Seq(Nat), NEW left \in Nat, rec.k \in {"udata", "kdata"}
      PROVE  Appended(fs, left, rec) \in Seq(Nat) /\ Remaining(left) \in Nat
  <2>1. PICK c \in [1 .. Chunk -> Nat] : c = rec.frames
    BY <1>1 DEF KpRec
  <2>2. PICK n \in 0 .. Chunk : n = IF left < Chunk THEN left ELSE Chunk
    BY <1>0
  <2>3. SubSeq(c, 1, n) \in Seq(Nat)
    BY <1>0, <2>1, <2>2
  <2>4. Remaining(left) \in Nat
    BY <1>0 DEF Remaining
  <2> QED
    BY <2>1, <2>2, <2>3, <2>4, ConcatProperties DEF Appended
<1>2. CASE rec.k = "start"
  <2>1. rec.tid \in KpTids /\ rec.ts \in Nat
    BY <1>2 DEF KpRec
  <2>2. Fed(p, rec) = [IdleParser EXCEPT !.busy = TRUE, !.tid = rec.tid, !.ts = rec.ts]
    BY <1>2 DEF Fed
  <2>3. IdleParser \in ParserRec
    BY DEF IdleParser, ParserRec
  <2>4. Fed(p, rec) \in ParserRec
    BY <2>1, <2>2, <2>3 DEF ParserRec
  <2> QED
    BY <1>2, <2>4 DEF Completed
<1>3. CASE rec.k = "end"
  <2>1. Fed(p, rec) = [p EXCEPT !.busy = FALSE]
    BY <1>3 DEF Fed
  <2>2. Fed(p, rec) \in ParserRec
    BY <2>1 DEF ParserRec
  <2>3. UpToNull(Normalized(p)) \in CutStack /\ UpToNull(p.kernel) \in CutStack
    BY NormalizedType DEF ParserRec, CutStack
  <2>4. PICK s : s = [tid |-> p.tid, ts |-> p.ts, user |-> UpToNull(Normalized(p)),
                      kernel |-> UpToNull(p.kernel)]
    OBVIOUS
  <2>5. s \in SampleRec
    BY <2>3, <2>4 DEF SampleRec, ParserRec
  <2>6. Completed(p, rec) # <<>> => Completed(p, rec)[1] = s
    BY <2>4 DEF Completed
  <2> QED
    BY <2>2, <2>5, <2>6
<1>4. CASE rec.k \in {"udata", "kdata"}
  <2>1. p.user \in Seq(Nat) /\ p.kernel \in Seq(Nat) /\ p.left \in Nat /\ p.kleft \in Nat
    BY DEF ParserRec
  <2>2. Appended(p.user, p.left, rec) \in Seq(Nat) /\ Remaining(p.left) \in Nat
        /\ Appended(p.kernel, p.kleft, rec) \in Seq(Nat) /\ Remaining(p.kleft) \in Nat
    BY <1>1, <1>4, <2>1
  <2>3. Fed(p, rec) \in {p, [p EXCEPT !.user = Appended(p.user, p.left, rec), !.left = Remaining(p.left)],
                         [p EXCEPT !.kernel = Appended(p.kernel, p.kleft, rec), !.kleft = Remaining(p.kleft)]}
    BY <1>4 DEF Fed
  <2>4. Fed(p, rec) \in ParserRec
    BY <2>2, <2>3 DEF ParserRec
  <2> QED
    BY <1>4, <2>4 DEF Completed
<1>5. CASE rec.k \in {"uhdr", "khdr", "error"}
  <2>1. rec.k \in {"uhdr", "khdr"} => rec.main \in Nat /\ rec.async \in Nat
    BY DEF KpRec
  <2>2. Fed(p, rec) \in {p, [p EXCEPT !.main = rec.main, !.left = rec.main + rec.async],
                         [p EXCEPT !.kleft = rec.main + rec.async]}
        /\ (rec.k = "error" => Fed(p, rec) = p)
    BY <1>5 DEF Fed
  <2>3. Fed(p, rec) \in ParserRec
    <3>1. CASE rec.k = "error"
      BY <3>1, <2>2
    <3>2. CASE rec.k \in {"uhdr", "khdr"}
      <4>1. PICK a \in Nat, b \in Nat : a = rec.main /\ b = rec.main + rec.async
        BY <3>2, <2>1
      <4>2. [p EXCEPT !.main = a, !.left = b] \in ParserRec /\ [p EXCEPT !.kleft = b] \in ParserRec
        BY DEF ParserRec
      <4> QED
        BY <2>2, <4>1, <4>2
    <3> QED
      BY <1>5, <3>1, <3>2
  <2> QED
    BY <1>5, <2>3 DEF Completed
<1>6. rec.k \in {"start", "end", "error", "uhdr", "khdr", "udata", "kdata"}
  BY DEF KpRec
<1> QED
  BY <1>2, <1>3, <1>4, <1>5, <1>6

\* KperfProbeTriggerScanner::feed.
LEMMA ScannedType ==
  ASSUME NEW g \in ScannerRec, NEW rec \in KpRec
  PROVE  Scanned(g, rec) \in ScannerRec
<1>1. rec.k = "start" => rec.tid \in KpTids
  BY DEF KpRec
<1>2. <<g.tid>> \in Seq(KpTids \cup {0})
  BY DEF ScannerRec
<1>3. CASE rec.k = "start"
  BY <1>1, <1>3 DEF Scanned, ScannerRec
<1>4. CASE rec.k # "start"
  <2>1. Scanned(g, rec) \in {g, [g EXCEPT !.busy = FALSE], [g EXCEPT !.triggered = TRUE, !.last = <<g.tid>>]}
    BY <1>4 DEF Scanned
  <2> QED
    BY <1>2, <2>1 DEF ScannerRec
<1> QED
  BY <1>3, <1>4

OnInterval(x, t, ts) == [tid |-> t, kind |-> "on", from |-> x.th[t].on, to |-> ts,
                         stack |-> <<>>, waker |-> 0]
OffInterval(x, t, ts) == [tid |-> t, kind |-> "off", from |-> x.th[t].off, to |-> ts,
                          stack |-> x.th[t].user, waker |-> x.th[t].waker]
DepartedTo(x, y, t, ts) ==
  /\ y \in TrackerRec /\ y.onCpu = x.onCpu /\ y.wakeups = x.wakeups
  /\ y.th[t].on = 0 /\ y.th[t].off = ts /\ y.th[t].user = x.th[t].user
  /\ \A o \in KpTids : o # t => y.th[o] = x.th[o]
  /\ \/ y.pending = x.pending
     \/ x.th[t].on # 0 /\ y.pending = Append(x.pending, OnInterval(x, t, ts))
ArrivedTo(x, y, t, ts) ==
  /\ y \in TrackerRec /\ y.onCpu = x.onCpu /\ y.wakeups = x.wakeups
  /\ y.th[t].on = ts /\ y.th[t].off = 0 /\ y.th[t].user = x.th[t].user
  /\ \A o \in KpTids : o # t => y.th[o] = x.th[o]
  /\ \/ y.pending = x.pending
     \/ /\ x.th[t].off # 0 /\ x.th[t].user # <<>>
        /\ y.pending = Append(x.pending, OffInterval(x, t, ts))

\* The thread that leaves its CPU, field by field.
LEMMA DepartedIs ==
  ASSUME NEW x \in TrackerRec, NEW t \in KpTids, NEW ts \in Nat
  PROVE  DepartedTo(x, Departed(x, t, ts), t, ts)
<1>0. PICK y : y = Departed(x, t, ts)
  OBVIOUS
<1> DEFINE i == OnInterval(x, t, ts)
<1>1. x.th \in [KpTids -> ThreadRec] /\ x.pending \in Seq(Interval)
  BY DEF TrackerRec
<1>2. x.th[t] \in ThreadRec
  BY <1>1
<1>3. i \in Interval
  BY <1>2 DEF Interval, ThreadRec, CutStack, OnInterval
<1> HIDE DEF i
<1>4. PICK pend \in Seq(Interval) : pend = IF x.th[t].on # 0 /\ ts > x.th[t].on THEN Append(x.pending, i)
                                                                               ELSE x.pending
  <2>1. Append(x.pending, i) \in Seq(Interval)
    BY <1>1, <1>3, AppendProperties
  <2> QED
    BY <1>1, <2>1
<1>5. PICK th : th = [x.th EXCEPT ![t] = [@ EXCEPT !.on = 0, !.off = ts]]
  OBVIOUS
<1>6. th \in [KpTids -> ThreadRec] /\ th[t].on = 0 /\ th[t].off = ts /\ th[t].user = x.th[t].user
      /\ \A o \in KpTids : o # t => th[o] = x.th[o]
  BY <1>1, <1>2, <1>5 DEF ThreadRec
<1>7. y = [x EXCEPT !.th = th, !.pending = pend]
  BY <1>0, <1>1, <1>2, <1>4, <1>5 DEF Departed, TrackerRec, ThreadRec, i, OnInterval
<1>8. y \in TrackerRec /\ y.onCpu = x.onCpu /\ y.wakeups = x.wakeups /\ y.th = th /\ y.pending = pend
  BY <1>4, <1>6, <1>7 DEF TrackerRec
<1> QED
  BY <1>0, <1>4, <1>6, <1>8 DEF i, DepartedTo

\* The thread that comes on, field by field.
LEMMA ArrivedIs ==
  ASSUME NEW x \in TrackerRec, NEW t \in KpTids, NEW ts \in Nat
  PROVE  ArrivedTo(x, Arrived(x, t, ts), t, ts)
<1> DEFINE i == OffInterval(x, t, ts)
           closes == x.th[t].off # 0 /\ ts > x.th[t].off
<1>0. PICK y : y = Arrived(x, t, ts)
  OBVIOUS
<1>1. x.th \in [KpTids -> ThreadRec] /\ x.pending \in Seq(Interval)
  BY DEF TrackerRec
<1>2. x.th[t] \in ThreadRec
  BY <1>1
<1>3. i \in Interval
  BY <1>2 DEF Interval, ThreadRec, OffInterval
<1> HIDE DEF i
<1>4. PICK pend \in Seq(Interval) : pend = IF closes /\ x.th[t].user # <<>> THEN Append(x.pending, i)
                                                                          ELSE x.pending
  <2>1. Append(x.pending, i) \in Seq(Interval)
    BY <1>1, <1>3, AppendProperties
  <2> QED
    BY <1>1, <2>1
<1>5. PICK k \in KpTids \cup {0} : k = IF closes THEN 0 ELSE x.th[t].waker
  BY <1>2 DEF ThreadRec
<1>6. PICK th : th = [x.th EXCEPT ![t] = [@ EXCEPT !.off = 0, !.on = ts, !.waker = k]]
  OBVIOUS
<1>7. th \in [KpTids -> ThreadRec] /\ th[t].on = ts /\ th[t].off = 0 /\ th[t].user = x.th[t].user
      /\ \A o \in KpTids : o # t => th[o] = x.th[o]
  <2>1. PICK r : r = [x.th[t] EXCEPT !.off = 0, !.on = ts, !.waker = k]
    OBVIOUS
  <2>2. r \in ThreadRec /\ r.on = ts /\ r.off = 0 /\ r.user = x.th[t].user
    BY <1>2, <2>1 DEF ThreadRec
  <2>3. th = [x.th EXCEPT ![t] = r]
    BY <1>1, <1>6, <2>1
  <2> QED
    BY <1>1, <2>2, <2>3
<1>8. y = [x EXCEPT !.th = th, !.pending = pend]
  <2>1. y = [x EXCEPT !.th[t].off = 0, !.th[t].on = ts, !.th[t].waker = k, !.pending = pend]
    BY <1>0, <1>1, <1>2, <1>4, <1>5 DEF Arrived, TrackerRec, ThreadRec, i, OffInterval
  <2> QED
    BY <1>1, <1>2, <1>6, <2>1 DEF TrackerRec, ThreadRec
<1>9. y \in TrackerRec /\ y.onCpu = x.onCpu /\ y.wakeups = x.wakeups /\ y.th = th /\ y.pending = pend
  BY <1>4, <1>7, <1>8 DEF TrackerRec
<1> QED
  BY <1>0, <1>4, <1>7, <1>9 DEF i, ArrivedTo

\* MACH_MAKERUNNABLE moves wakers and wakeups only.
LEMMA WakeFedIs ==
  ASSUME NEW x \in TrackerRec, NEW c \in KpCpus, NEW t \in KpTids, NEW ts \in Nat, NEW y,
         y = WakeFed(x, c, t, ts)
  PROVE  /\ y \in TrackerRec /\ y.onCpu = x.onCpu /\ y.pending = x.pending
         /\ \A o \in KpTids : y.th[o].on = x.th[o].on /\ y.th[o].off = x.th[o].off
                              /\ y.th[o].user = x.th[o].user
<1>1. CASE y = x
  BY <1>1
<1>2. CASE y # x
  <2>1. PICK k \in KpTids : k = x.onCpu[c]
    BY <1>2 DEF WakeFed
  <2>2. PICK th : th = [x.th EXCEPT ![t] = [@ EXCEPT !.waker = k]]
    OBVIOUS
  <2>3. PICK wk : wk = Append(x.wakeups, [at |-> ts, waker |-> k, wakee |-> t])
    OBVIOUS
  <2>4. x.th \in [KpTids -> ThreadRec] /\ x.wakeups \in Seq(Wakeup)
    BY DEF TrackerRec
  <2>5. [at |-> ts, waker |-> k, wakee |-> t] \in Wakeup
    BY DEF Wakeup
  <2>6. wk \in Seq(Wakeup)
    BY <2>3, <2>4, <2>5
  <2>7. th \in [KpTids -> ThreadRec]
        /\ \A o \in KpTids : th[o].on = x.th[o].on /\ th[o].off = x.th[o].off /\ th[o].user = x.th[o].user
    BY <2>2, <2>4 DEF ThreadRec
  <2>8. y = [x EXCEPT !.wakeups = wk, !.th = th]
    BY <1>2, <2>1, <2>2, <2>3 DEF WakeFed, TrackerRec
  <2> QED
    BY <2>6, <2>7, <2>8 DEF TrackerRec
<1> QED
  BY <1>1, <1>2

\* What a switch does to the tracker: the thread it knew on this CPU leaves,
\* the new one comes, and at most these two intervals close.
SwitchOf(x, y, c, new, ts) ==
  /\ y \in TrackerRec /\ y.wakeups = x.wakeups
  /\ y.onCpu = [x.onCpu EXCEPT ![c] = new]
  /\ \A o \in KpTids : y.th[o].user = x.th[o].user
  /\ \A o \in KpTids : o # new /\ o # x.onCpu[c] => y.th[o] = x.th[o]
  /\ new \in KpTids => y.th[new].on = ts /\ y.th[new].off = 0
  /\ x.onCpu[c] \in KpTids /\ x.onCpu[c] # new => y.th[x.onCpu[c]].on = 0 /\ y.th[x.onCpu[c]].off = ts
\* Reading the times an interval may close with.
LeftInterval(x, c, new, ts, i) ==
  /\ x.onCpu[c] \in KpTids /\ x.onCpu[c] # new /\ x.th[x.onCpu[c]].on # 0
  /\ i = OnInterval(x, x.onCpu[c], ts)
CameInterval(x, new, ts, i) ==
  /\ new \in KpTids /\ x.th[new].off # 0 /\ x.th[new].user # <<>>
  /\ i = OffInterval(x, new, ts)
ClosedBy(x, y, c, new, ts) ==
  \E mid : /\ \/ mid = x.pending
              \/ \E i : LeftInterval(x, c, new, ts, i) /\ mid = Append(x.pending, i)
           /\ \/ y.pending = mid
              \/ \E i : CameInterval(x, new, ts, i) /\ y.pending = Append(mid, i)

LEMMA SchedFedIs ==
  ASSUME NEW x \in TrackerRec, NEW c \in KpCpus, NEW new \in KpTids \cup {0}, NEW ts \in Nat,
         NEW z, z = SchedFed(x, c, new, ts)
  PROVE  SwitchOf(x, z, c, new, ts) /\ ClosedBy(x, z, c, new, ts)
<1>1. PICK prev \in KpTids \cup {0, Unseen} : prev = x.onCpu[c]
  BY DEF TrackerRec
<1>2. PICK left : left = IF prev \in KpTids /\ prev # new THEN Departed(x, prev, ts) ELSE x
  OBVIOUS
<1>3. /\ left \in TrackerRec /\ left.onCpu = x.onCpu /\ left.wakeups = x.wakeups
      /\ \A o \in KpTids : left.th[o].user = x.th[o].user
      /\ \A o \in KpTids : o # prev \/ prev = new => left.th[o] = x.th[o]
      /\ prev \in KpTids /\ prev # new => left.th[prev].on = 0 /\ left.th[prev].off = ts
      /\ \/ left.pending = x.pending
         \/ \E i : LeftInterval(x, c, new, ts, i) /\ left.pending = Append(x.pending, i)
  <2>1. CASE prev \in KpTids /\ prev # new
    <3>1. left = Departed(x, prev, ts)
      BY <1>2, <2>1
    <3>2. DepartedTo(x, left, prev, ts)
      BY <2>1, <3>1, DepartedIs
    <3> QED
      BY <1>1, <2>1, <3>2 DEF LeftInterval, DepartedTo
  <2>2. CASE ~(prev \in KpTids /\ prev # new)
    BY <1>2, <2>2
  <2> QED
    BY <2>1, <2>2
<1>4. PICK y : y = [left EXCEPT !.onCpu[c] = new]
  OBVIOUS
<1>5. y \in TrackerRec /\ y.onCpu = [x.onCpu EXCEPT ![c] = new] /\ y.wakeups = x.wakeups
      /\ y.th = left.th /\ y.pending = left.pending
  BY <1>3, <1>4 DEF TrackerRec
<1>6. z = IF new # 0 THEN Arrived(y, new, ts) ELSE y
  BY <1>1, <1>2, <1>4 DEF SchedFed
<1>7. CASE new = 0
  <2>1. z = y /\ new \notin KpTids
    BY <1>6, <1>7, KpAssumption
  <2>2. SwitchOf(x, z, c, new, ts)
    BY <1>1, <1>3, <1>5, <2>1 DEF SwitchOf
  <2>3. ClosedBy(x, z, c, new, ts)
    BY <1>3, <1>5, <2>1, Zenon DEF ClosedBy
  <2> QED
    BY <2>2, <2>3
<1>8. CASE new # 0
  <2>1. new \in KpTids /\ z = Arrived(y, new, ts)
    BY <1>6, <1>8
  <2>2. /\ z \in TrackerRec /\ z.onCpu = y.onCpu /\ z.wakeups = y.wakeups
        /\ z.th[new].on = ts /\ z.th[new].off = 0 /\ z.th[new].user = y.th[new].user
        /\ \A o \in KpTids : o # new => z.th[o] = y.th[o]
    <3>1. ArrivedTo(y, z, new, ts)
      BY <1>5, <2>1, ArrivedIs
    <3> QED
      BY <3>1 DEF ArrivedTo
  <2>3. y.th[new] = x.th[new]
    BY <1>3, <1>5, <2>1
  <2>4. \/ z.pending = y.pending
        \/ \E i : CameInterval(x, new, ts, i) /\ z.pending = Append(y.pending, i)
    <3>1. ArrivedTo(y, z, new, ts)
      BY <1>5, <2>1, ArrivedIs
    <3>2. OffInterval(y, new, ts) = OffInterval(x, new, ts)
      BY <2>3 DEF OffInterval
    <3> QED
      BY <2>1, <2>3, <3>1, <3>2 DEF ArrivedTo, CameInterval
  <2>5. SwitchOf(x, z, c, new, ts)
    BY <1>1, <1>3, <1>5, <2>1, <2>2 DEF SwitchOf
  <2>6. ClosedBy(x, z, c, new, ts)
    BY <1>3, <1>5, <2>4, Zenon DEF ClosedBy
  <2> QED
    BY <2>5, <2>6
<1> QED
  BY <1>7, <1>8

-----------------------------------------------------------------------------
(* The actions, field by field *)

ClosedNow(t, run, ts) == [tid |-> t, run |-> run, from |-> kern.mark[t].at, to |-> ts]

\* A switch at the next tick.
SwitchFacts(c, new, ts) ==
  /\ ts = kern.now + 1 /\ ts \in Nat
  /\ new # kern.on[c] /\ (new # 0 => \A d \in KpCpus : kern.on[d] # new)
  /\ KernType'
  /\ kern'.now = ts /\ kern'.on = [kern.on EXCEPT ![c] = new]
  /\ kern'.todo = kern.todo /\ kern'.walk = kern.walk /\ kern'.stack = kern.stack
  /\ kern.closed \subseteq kern'.closed
  /\ kern.on[c] # 0 => ClosedNow(kern.on[c], TRUE, ts) \in kern'.closed
  /\ new # 0 => ClosedNow(new, FALSE, ts) \in kern'.closed
  /\ \A t \in KpTids : kern'.mark[t].at = IF t = kern.on[c] \/ t = new THEN ts ELSE kern.mark[t].at
  /\ SwitchOf(tr, tr', c, new, ts) /\ ClosedBy(tr, tr', c, new, ts)
  /\ UNCHANGED <<ps, tg, seen, out>>

\* MACH_SCHED, in the kernel and in the tracker.
LEMMA SchedIs ==
  ASSUME KpTypeOK, NEW c \in KpCpus, NEW new \in KpTids \cup {0}, Sched(c, new)
  PROVE  \E ts \in Nat : SwitchFacts(c, new, ts)
<1>0. kern.now \in Nat /\ kern.on \in [KpCpus -> KpTids \cup {0}] /\ kern.closed \in SUBSET Closed
      /\ kern.mark \in [KpTids -> [run : BOOLEAN, at : Nat]] /\ tr \in TrackerRec /\ KernType
      /\ 0 \notin KpTids
  BY KpAssumption DEF KpTypeOK, KernType
<1> DEFINE prev == kern.on[c]
           gone(ts) == IF prev # 0 THEN {ClosedNow(prev, TRUE, ts)} ELSE {}
           came(ts) == IF new # 0 THEN {ClosedNow(new, FALSE, ts)} ELSE {}
           mark(ts) == [t \in KpTids |-> IF t = prev THEN [run |-> FALSE, at |-> ts]
                                         ELSE IF t = new THEN [run |-> TRUE, at |-> ts]
                                         ELSE kern.mark[t]]
<1>1. PICK ts \in Later :
        /\ new # prev
        /\ new # 0 => \A d \in KpCpus : kern.on[d] # new
        /\ kern' = [kern EXCEPT !.now = ts, !.on[c] = new,
                                !.closed = @ \cup gone(ts) \cup came(ts), !.mark = mark(ts)]
        /\ tr' = SchedFed(tr, c, new, ts)
        /\ UNCHANGED <<ps, tg, seen, out>>
  BY Zenon DEF Sched, ClosedNow
<1>2. ts = kern.now + 1 /\ ts \in Nat
  BY <1>0, <1>1 DEF Later
<1>3. prev \in KpTids \cup {0}
  BY <1>0
<1>4. gone(ts) \subseteq Closed /\ came(ts) \subseteq Closed
  <2>1. ASSUME NEW t \in KpTids, NEW run \in BOOLEAN PROVE ClosedNow(t, run, ts) \in Closed
    <3>1. kern.mark[t].at \in Nat
      BY <1>0
    <3> QED
      BY <1>2, <3>1 DEF Closed, ClosedNow
  <2> QED
    BY <1>3, <2>1
<1>5. mark(ts) \in [KpTids -> [run : BOOLEAN, at : Nat]]
      /\ \A t \in KpTids : mark(ts)[t].at = IF t = prev \/ t = new THEN ts ELSE kern.mark[t].at
  BY <1>0, <1>2
<1>6. PICK on : on = [kern.on EXCEPT ![c] = new]
  OBVIOUS
<1>7. PICK closed : closed = kern.closed \cup gone(ts) \cup came(ts)
  OBVIOUS
<1>8. closed \in SUBSET Closed /\ kern.closed \subseteq closed
      /\ (prev # 0 => ClosedNow(prev, TRUE, ts) \in closed)
      /\ (new # 0 => ClosedNow(new, FALSE, ts) \in closed)
  BY <1>0, <1>4, <1>7
<1>9. on \in [KpCpus -> KpTids \cup {0}]
  BY <1>0, <1>6
<1>10. PICK mk \in [KpTids -> [run : BOOLEAN, at : Nat]] : mk = mark(ts)
  BY <1>5
<1> HIDE DEF mark, gone, came
<1>11. kern' = [kern EXCEPT !.now = ts, !.on = on, !.closed = closed, !.mark = mk]
  BY <1>0, <1>1, <1>6, <1>7, <1>10 DEF KernType
<1>12. KernType' /\ kern'.now = ts /\ kern'.on = on /\ kern'.closed = closed /\ kern'.mark = mk
       /\ kern'.todo = kern.todo /\ kern'.walk = kern.walk /\ kern'.stack = kern.stack
  BY <1>0, <1>2, <1>8, <1>9, <1>11 DEF KernType
<1>13. SwitchOf(tr, tr', c, new, ts) /\ ClosedBy(tr, tr', c, new, ts)
  BY <1>0, <1>1, <1>2, SchedFedIs
<1> QED
  <2>1. \A t \in KpTids : kern'.mark[t].at = IF t = kern.on[c] \/ t = new THEN ts ELSE kern.mark[t].at
    BY <1>5, <1>10, <1>12
  <2>2. SwitchFacts(c, new, ts)
    BY <1>1, <1>2, <1>6, <1>8, <1>12, <1>13, <2>1 DEF SwitchFacts
  <2> QED
    BY <1>2, <2>2

\* MACH_MAKERUNNABLE.
LEMMA MakeRunnableIs ==
  ASSUME KpTypeOK, NEW c \in KpCpus, NEW t \in KpTids, MakeRunnable(c, t)
  PROVE  /\ KpTypeOK'
         /\ kern'.now = kern.now /\ kern'.on = kern.on /\ kern'.closed = kern.closed
         /\ kern'.todo = kern.todo /\ kern'.walk = kern.walk /\ kern'.stack = kern.stack
         /\ kern'.mark = kern.mark /\ UNCHANGED <<ps, tg, seen, out>>
         /\ tr'.onCpu = tr.onCpu /\ tr'.pending = tr.pending
         /\ \A o \in KpTids : tr'.th[o].on = tr.th[o].on /\ tr'.th[o].off = tr.th[o].off
                              /\ tr'.th[o].user = tr.th[o].user
<1>1. kern' = [kern EXCEPT !.wakes = @ + 1] /\ tr' = WakeFed(tr, c, t, kern.now)
      /\ UNCHANGED <<ps, tg, seen, out>>
  BY DEF MakeRunnable
<1>2. KernType' /\ kern'.now = kern.now /\ kern'.on = kern.on /\ kern'.closed = kern.closed
      /\ kern'.todo = kern.todo /\ kern'.walk = kern.walk /\ kern'.stack = kern.stack
      /\ kern'.mark = kern.mark
  <2>1. KernType /\ kern.wakes \in Nat
    BY DEF KpTypeOK, KernType
  <2>2. PICK n \in Nat : n = kern.wakes + 1
    BY <2>1
  <2>3. kern' = [kern EXCEPT !.wakes = n]
    BY <1>1, <2>2
  <2> QED
    BY <2>1, <2>3 DEF KernType
<1>3. tr \in TrackerRec /\ kern.now \in Nat
  BY DEF KpTypeOK, KernType
<1>4. /\ tr' \in TrackerRec /\ tr'.onCpu = tr.onCpu /\ tr'.pending = tr.pending
      /\ \A o \in KpTids : tr'.th[o].on = tr.th[o].on /\ tr'.th[o].off = tr.th[o].off
                           /\ tr'.th[o].user = tr.th[o].user
  BY <1>1, <1>3, WakeFedIs
<1>5. KpTypeOK'
  BY <1>1, <1>2, <1>4 DEF KpTypeOK
<1> QED
  BY <1>1, <1>2, <1>4, <1>5

\* PET takes a walk.
LEMMA TakeWalkIs ==
  ASSUME KpTypeOK, NEW w \in Walks, TakeWalk(w)
  PROVE  /\ KpTypeOK'
         /\ kern'.now = kern.now /\ kern'.on = kern.on /\ kern'.closed = kern.closed
         /\ kern'.stack = kern.stack /\ kern'.mark = kern.mark
         /\ kern'.walk = <<w>> /\ kern.now \in Nat /\ kern'.todo = WalkRecords(w, kern.now)
         /\ UNCHANGED <<ps, tg, tr, seen, out>>
<1>1. kern' = [kern EXCEPT !.todo = WalkRecords(w, kern.now), !.walk = <<w>>, !.walks = @ + 1]
      /\ UNCHANGED <<ps, tg, tr, seen, out>>
  BY DEF TakeWalk
<1>2. kern.now \in Nat
  BY DEF KpTypeOK, KernType
<1>3. PICK R \in Seq(KpRec) : R = WalkRecords(w, kern.now)
  BY <1>2, RecordsAt
<1>4. PICK v \in Seq(Walks) : v = <<w>>
  <2>1. <<w>> \in Seq(Walks)
    OBVIOUS
  <2> QED
    BY <2>1
<1>5. KernType' /\ kern'.now = kern.now /\ kern'.on = kern.on /\ kern'.closed = kern.closed
      /\ kern'.stack = kern.stack /\ kern'.mark = kern.mark /\ kern'.walk = v /\ kern'.todo = R
  <2>1. KernType /\ kern.walks \in Nat
    BY DEF KpTypeOK, KernType
  <2>2. PICK n \in Nat : n = kern.walks + 1
    BY <2>1
  <2>3. kern' = [kern EXCEPT !.todo = R, !.walk = v, !.walks = n]
    BY <1>1, <1>3, <1>4, <2>2
  <2> QED
    BY <2>1, <2>3 DEF KernType
<1>6. KpTypeOK'
  BY <1>1, <1>5 DEF KpTypeOK
<1> QED
  BY <1>1, <1>2, <1>3, <1>4, <1>5, <1>6

\* The end of a batch.
LEMMA EndBatchIs ==
  ASSUME KpTypeOK, EndBatch
  PROVE  /\ KpTypeOK' /\ UNCHANGED <<kern, ps, tg, seen>>
         /\ tr'.onCpu = tr.onCpu /\ tr'.th = tr.th /\ tr'.pending = <<>>
         /\ out'.sample = out.sample /\ out'.intervals \subseteq ToSet(tr.pending)
<1>1. /\ out' = [out EXCEPT !.wakeups = tr.wakeups,
                            !.intervals = {i \in ToSet(tr.pending) : i.tid \in seen}]
      /\ tr' = [tr EXCEPT !.pending = <<>>, !.wakeups = <<>>]
      /\ UNCHANGED <<kern, ps, tg, seen>>
  BY DEF EndBatch
<1>2. tr \in TrackerRec
  BY DEF KpTypeOK
<1>3. tr' \in TrackerRec /\ tr'.onCpu = tr.onCpu /\ tr'.th = tr.th /\ tr'.pending = <<>>
  <2>0. <<>> \in Seq(Interval) /\ <<>> \in Seq(Wakeup)
    OBVIOUS
  <2>1. PICK e \in Seq(Interval) : e = <<>>
    BY <2>0
  <2>2. PICK f \in Seq(Wakeup) : f = <<>>
    BY <2>0
  <2>3. tr' = [tr EXCEPT !.pending = e, !.wakeups = f]
    BY <1>1, <2>1, <2>2
  <2> QED
    BY <1>2, <2>1, <2>3 DEF TrackerRec
<1>4. PICK I : I = {i \in ToSet(tr.pending) : i.tid \in seen}
  OBVIOUS
<1>5. I \in SUBSET Interval /\ I \subseteq ToSet(tr.pending)
  BY <1>2, <1>4 DEF ToSet, TrackerRec
<1>6. tr.wakeups \in Seq(Wakeup)
  BY <1>2 DEF TrackerRec
<1>7. out' \in [sample : Seq([s : SampleRec, w : Walks]), intervals : SUBSET Interval,
                wakeups : Seq(Wakeup)]
      /\ out'.sample = out.sample /\ out'.intervals = I
  BY <1>1, <1>4, <1>5, <1>6 DEF KpTypeOK
<1>8. KpTypeOK'
  BY <1>1, <1>3, <1>7 DEF KpTypeOK, KernType
<1> QED
  BY <1>1, <1>3, <1>5, <1>7, <1>8


\* A record of the walk under way.
RecordFacts(w, ts, n) ==
  /\ KpTypeOK'
  /\ kern'.now = kern.now /\ kern'.on = kern.on /\ kern'.closed = kern.closed
  /\ kern'.mark = kern.mark /\ kern'.walk = kern.walk
  /\ kern'.todo = SubSeq(WalkRecords(w, ts), (n + 1) + 1, KernelEnd(w) + 1)
  /\ n < KernelEnd(w) => Assembled(ps', w, n + 1)
  /\ Triggered(tg', w, n + 1)
  /\ tr'.onCpu = tr.onCpu /\ tr'.pending = tr.pending /\ out'.intervals = out.intervals
  /\ \A o \in KpTids : tr'.th[o].on = tr.th[o].on /\ tr'.th[o].off = tr.th[o].off
  /\ \/ out'.sample = out.sample
     \/ \E s \in SampleRec : SampleOf(s, w) /\ out'.sample = <<[s |-> s, w |-> w]>>
  /\ \/ \A o \in KpTids : tr'.th[o].user = tr.th[o].user /\ kern'.stack[o] = kern.stack[o]
     \/ \A o \in KpTids : /\ tr'.th[o].user = IF o = w.tid THEN CallStack(w) ELSE tr.th[o].user
                          /\ kern'.stack[o] = IF o = w.tid THEN CallStack(w) ELSE kern.stack[o]

\* What note_sample does to a thread.
LEMMA NotedIs ==
  ASSUME NEW th \in [KpTids -> ThreadRec], NEW s \in SampleRec
  PROVE  /\ Noted(th, s) \in [KpTids -> ThreadRec]
         /\ \A o \in KpTids : /\ Noted(th, s)[o].on = th[o].on /\ Noted(th, s)[o].off = th[o].off
                              /\ Noted(th, s)[o].user = IF o = s.tid /\ s.user # <<>> THEN s.user
                                                                                     ELSE th[o].user
<1>1. CASE s.user = <<>>
  BY <1>1 DEF Noted
<1>2. CASE s.user # <<>>
  <2>1. Noted(th, s) = [th EXCEPT ![s.tid] = [@ EXCEPT !.user = s.user, !.kernel = s.kernel]]
    BY <1>2 DEF Noted, ThreadRec, SampleRec
  <2>2. PICK u \in CutStack, k \in CutStack : u = s.user /\ k = s.kernel
    BY DEF SampleRec
  <2>3. PICK t : t = s.tid
    OBVIOUS
  <2>4. PICK z : z = [th EXCEPT ![t] = [@ EXCEPT !.user = u, !.kernel = k]]
    OBVIOUS
  <2>5. /\ z \in [KpTids -> ThreadRec]
        /\ \A o \in KpTids : /\ z[o].on = th[o].on /\ z[o].off = th[o].off
                             /\ z[o].user = IF o = t THEN u ELSE th[o].user
    BY <2>4 DEF ThreadRec
  <2> QED
    BY <1>2, <2>1, <2>2, <2>3, <2>4, <2>5
<1> QED
  BY <1>1, <1>2

LEMMA PerfRecordIs ==
  ASSUME KpTypeOK, NEW w \in Walks, NEW ts \in Nat, NEW n \in 0 .. KernelEnd(w) + 1,
         FeedAt(w, ts, n), PerfRecord
  PROVE  n \in 0 .. KernelEnd(w) /\ RecordFacts(w, ts, n)
<1>1. PICK e \in Nat : e = KernelEnd(w) /\ e >= 2
  BY KernelPartType, UserPartType
<1>2. PICK rec : rec = Head(kern.todo)
  OBVIOUS
<1>3. PICK done : done = Completed(ps, rec)
  OBVIOUS
<1>4. kern.walk = <<w>> /\ kern.walk[1] = w
  BY DEF FeedAt
<1>5. /\ ps' = Fed(ps, rec) /\ tg' = Scanned(tg, rec)
      /\ kern' = [kern EXCEPT !.todo = Tail(@),
                    !.stack = IF rec.k = "end" /\ CallStack(w) # <<>>
                                THEN [@ EXCEPT ![w.tid] = CallStack(w)] ELSE @]
      /\ IF done = <<>> THEN UNCHANGED <<tr, seen, out>>
         ELSE /\ seen' = seen \cup {done[1].tid}
              /\ tr' = [tr EXCEPT !.th = Noted(@, done[1])]
              /\ out' = IF done[1].user = <<>> THEN out
                        ELSE [out EXCEPT !.sample = <<[s |-> done[1], w |-> w]>>]
  BY <1>2, <1>3, <1>4 DEF PerfRecord
<1>6. PICK rest : rest = SubSeq(WalkRecords(w, ts), (n + 1) + 1, KernelEnd(w) + 1)
  OBVIOUS
<1>7. n \in 0 .. e /\ rec = RecordAt(w, ts, n + 1) /\ Tail(kern.todo) = rest /\ rest \in Seq(KpRec)
  <2>1. kern.todo # <<>> /\ kern.todo = SubSeq(WalkRecords(w, ts), n + 1, KernelEnd(w) + 1)
    BY DEF PerfRecord, FeedAt
  <2>2. n # e + 1
    BY <1>1, <2>1, RestOfRecords
  <2>3. n \in 0 .. e
    BY <1>1, <2>2
  <2>4. n <= KernelEnd(w) /\ n + 1 \in 0 .. KernelEnd(w) + 1
    BY <1>1, <2>3
  <2>5. rest \in Seq(KpRec)
    BY <1>6, <2>4, RestOfRecords
  <2> QED
    BY <1>2, <1>6, <2>1, <2>3, <2>4, <2>5, RestOfRecords
<1>8. rec \in KpRec
  <2>1. kern.todo \in Seq(KpRec) /\ kern.todo # <<>>
    BY DEF KpTypeOK, KernType, PerfRecord
  <2> QED
    BY <1>2, <2>1
<1>9. ps \in ParserRec /\ tg \in ScannerRec /\ tr \in TrackerRec
  BY DEF KpTypeOK
<1>10. ps' \in ParserRec /\ tg' \in ScannerRec
  BY <1>5, <1>8, <1>9, FedType, ScannedType
<1>11. Triggered(tg', w, n + 1)
  <2>1. n >= 1 => Triggered(tg, w, n)
    BY DEF FeedAt
  <2> QED
    BY <1>1, <1>5, <1>7, <1>9, <2>1, ScanStep
<1>12. n >= 1 => Assembled(ps, w, n)
  BY <1>1, <1>7 DEF FeedAt
<1>13. CASE n < e
  <2>1. Assembled(ps', w, n + 1) /\ rec.k # "end" /\ done = <<>>
    BY <1>1, <1>3, <1>5, <1>7, <1>9, <1>12, <1>13, FeedStep
  <2>2. UNCHANGED <<tr, seen, out>>
    BY <1>5, <2>1
  <2>3. kern' = [kern EXCEPT !.todo = rest]
    BY <1>5, <1>7, <2>1 DEF KpTypeOK, KernType
  <2>4. /\ KernType' /\ kern'.now = kern.now /\ kern'.on = kern.on /\ kern'.closed = kern.closed
        /\ kern'.mark = kern.mark /\ kern'.walk = kern.walk /\ kern'.stack = kern.stack
        /\ kern'.todo = rest
    BY <1>7, <2>3 DEF KpTypeOK, KernType
  <2>5. KpTypeOK'
    BY <1>10, <2>2, <2>4 DEF KpTypeOK
  <2>6. out'.sample = out.sample /\ out'.intervals = out.intervals /\ tr' = tr
    BY <2>2
  <2>7. RecordFacts(w, ts, n)
    BY <1>1, <1>6, <1>11, <2>1, <2>4, <2>5, <2>6 DEF RecordFacts
  <2> QED
    BY <1>1, <1>7, <2>7
<1>14. CASE n = e
  <2>1. rec = [k |-> "end"]
    BY <1>1, <1>7, <1>14, NextRecord
  <2>2. Assembled(ps, w, KernelEnd(w))
    BY <1>1, <1>12, <1>14
  <2>3. PICK s : s = [tid |-> w.tid, ts |-> ps.ts, user |-> CallStack(w), kernel |-> UpToNull(w.kernel)]
    OBVIOUS
  <2>4. done = <<s>>
    BY <1>3, <1>9, <2>1, <2>2, <2>3, FeedEnd
  <2>5. done # <<>> /\ done[1] = s
    BY <2>4
  <2>6. s \in SampleRec
    BY <1>3, <1>8, <1>9, <2>5, FedType
  <2>7. s.tid = w.tid /\ s.user = CallStack(w) /\ SampleOf(s, w)
    BY <2>3 DEF SampleOf
  <2>8. PICK v \in CutStack : v = CallStack(w)
    BY <2>6, <2>7 DEF SampleRec
  <2>9. w.tid \in KpTids
    BY KpAssumption
  <2>10. PICK th : th = Noted(tr.th, s)
    OBVIOUS
  <2>11. tr' = [tr EXCEPT !.th = th]
    BY <1>5, <2>5, <2>10
  <2>12. /\ th \in [KpTids -> ThreadRec]
         /\ \A o \in KpTids : /\ th[o].on = tr.th[o].on /\ th[o].off = tr.th[o].off
                              /\ th[o].user = IF o = w.tid /\ v # <<>> THEN v ELSE tr.th[o].user
    <3>1. tr.th \in [KpTids -> ThreadRec]
      BY <1>9 DEF TrackerRec
    <3> QED
      BY <2>6, <2>7, <2>8, <2>10, <3>1, NotedIs
  <2>13. tr' \in TrackerRec /\ tr'.th = th /\ tr'.onCpu = tr.onCpu /\ tr'.pending = tr.pending
    BY <1>9, <2>11, <2>12 DEF TrackerRec
  <2>14. PICK st : st = IF v # <<>> THEN [kern.stack EXCEPT ![w.tid] = v] ELSE kern.stack
    OBVIOUS
  <2>15. st \in [KpTids -> CutStack]
         /\ \A o \in KpTids : st[o] = IF o = w.tid /\ v # <<>> THEN v ELSE kern.stack[o]
    BY <2>9, <2>14 DEF KpTypeOK, KernType
  <2>16. kern' = [kern EXCEPT !.todo = rest, !.stack = st]
    <3>1. rec.k = "end"
      BY <2>1
    <3> QED
      BY <1>5, <1>7, <2>8, <2>14, <3>1 DEF KpTypeOK, KernType
  <2>17. /\ KernType' /\ kern'.now = kern.now /\ kern'.on = kern.on /\ kern'.closed = kern.closed
         /\ kern'.mark = kern.mark /\ kern'.walk = kern.walk /\ kern'.stack = st
         /\ kern'.todo = rest
    BY <1>7, <2>15, <2>16 DEF KpTypeOK, KernType
  <2>18. seen' \in SUBSET (KpTids \cup {0})
    BY <1>5, <2>5, <2>7, <2>9 DEF KpTypeOK
  <2>19. PICK o1 : o1 = <<[s |-> s, w |-> w]>>
    OBVIOUS
  <2>20. o1 \in Seq([s : SampleRec, w : Walks])
    <3>1. [s |-> s, w |-> w] \in [s : SampleRec, w : Walks]
      BY <2>6
    <3> QED
      BY <2>19, <3>1
  <2>21. out' = out \/ out' = [out EXCEPT !.sample = o1]
    BY <1>5, <2>5, <2>19
  <2>22. /\ out' \in [sample : Seq([s : SampleRec, w : Walks]), intervals : SUBSET Interval,
                      wakeups : Seq(Wakeup)]
         /\ out'.intervals = out.intervals /\ (out'.sample = out.sample \/ out'.sample = o1)
    BY <2>20, <2>21 DEF KpTypeOK
  <2>23. KpTypeOK'
    BY <1>10, <2>13, <2>17, <2>18, <2>22 DEF KpTypeOK
  <2>24. \/ out'.sample = out.sample
         \/ \E r \in SampleRec : SampleOf(r, w) /\ out'.sample = <<[s |-> r, w |-> w]>>
    BY <2>6, <2>7, <2>19, <2>22
  <2>25. \/ \A o \in KpTids : tr'.th[o].user = tr.th[o].user /\ kern'.stack[o] = kern.stack[o]
         \/ \A o \in KpTids : /\ tr'.th[o].user = IF o = w.tid THEN CallStack(w) ELSE tr.th[o].user
                              /\ kern'.stack[o] = IF o = w.tid THEN CallStack(w) ELSE kern.stack[o]
    <3>1. CASE v = <<>>
      BY <3>1, <2>12, <2>13, <2>15, <2>17
    <3>2. CASE v # <<>>
      BY <3>2, <2>8, <2>12, <2>13, <2>15, <2>17
    <3> QED
      BY <3>1, <3>2
  <2>26. \A o \in KpTids : tr'.th[o].on = tr.th[o].on /\ tr'.th[o].off = tr.th[o].off
    BY <2>12, <2>13
  <2>27. ~(n < KernelEnd(w))
    BY <1>1, <1>14
  <2>28. RecordFacts(w, ts, n)
    BY <1>6, <1>11, <2>13, <2>17, <2>22, <2>23, <2>24, <2>25, <2>26, <2>27, Zenon DEF RecordFacts
  <2> QED
    BY <1>1, <1>7, <2>28
<1> QED
  BY <1>1, <1>7, <1>13, <1>14


-----------------------------------------------------------------------------
(* The inductive invariant *)

KpInv ==
  /\ KpTypeOK /\ FeedInv /\ SamplesWhole
  /\ OnCpusExact /\ ThreadsExact /\ PendingExact /\ StacksExact

LEMMA KpInvInit ==
  ASSUME KpInit
  PROVE  KpInv
<1>0. 0 \notin KpTids
  BY KpAssumption
<1> DEFINE run(on, t) == \E c \in KpCpus : on[c] = t
<1>1. PICK on \in [KpCpus -> KpTids \cup {0}] :
        /\ \A c, d \in KpCpus : c # d /\ on[c] # 0 => on[c] # on[d]
        /\ kern = [now |-> 1, on |-> on, closed |-> {}, todo |-> <<>>,
                   walk |-> <<>>, walks |-> 0, wakes |-> 0,
                   mark |-> [t \in KpTids |-> [run |-> run(on, t), at |-> 1]],
                   stack |-> [t \in KpTids |-> <<>>]]
  BY DEF KpInit
<1>2. PICK mk : mk = [t \in KpTids |-> [run |-> run(on, t), at |-> 1]]
  OBVIOUS
<1>3. mk \in [KpTids -> [run : BOOLEAN, at : Nat]]
  <2>1. \A t \in KpTids : run(on, t) \in BOOLEAN
    BY Zenon
  <2> HIDE DEF run
  <2> QED
    BY <1>2, <2>1
<1>4. <<>> \in CutStack
  BY DEF CutStack
<1>5. /\ kern.now = 1 /\ kern.on = on /\ kern.closed = {} /\ kern.todo = <<>> /\ kern.walk = <<>>
      /\ kern.stack = [t \in KpTids |-> <<>>] /\ KernType
  <2> HIDE DEF run
  <2>1. /\ <<>> \in Seq(KpRec) /\ <<>> \in Seq(Walks)
        /\ [t \in KpTids |-> <<>>] \in [KpTids -> CutStack]
    BY <1>4
  <2> QED
    BY <1>1, <1>2, <1>3, <2>1 DEF KernType
<1>6. ps \in ParserRec /\ tg \in ScannerRec
  <2>1. <<>> \in Seq(Nat) /\ <<>> \in Seq(KpTids \cup {0})
    OBVIOUS
  <2> QED
    BY <2>1 DEF KpInit, IdleParser, IdleScanner, ParserRec, ScannerRec
<1>7. tr = [onCpu |-> [c \in KpCpus |-> Unseen], th |-> [t \in KpTids |-> NoThread],
            pending |-> <<>>, wakeups |-> <<>>]
  BY DEF KpInit
<1>8. NoThread \in ThreadRec /\ NoThread.on = 0 /\ NoThread.off = 0 /\ NoThread.user = <<>>
  BY <1>4 DEF NoThread, ThreadRec
<1>9. /\ tr \in TrackerRec /\ tr.pending = <<>>
      /\ \A c \in KpCpus : tr.onCpu[c] = Unseen
      /\ \A t \in KpTids : tr.th[t].on = 0 /\ tr.th[t].off = 0 /\ tr.th[t].user = <<>>
  <2>1. <<>> \in Seq(Interval) /\ <<>> \in Seq(Wakeup)
    OBVIOUS
  <2> QED
    BY <1>7, <1>8, <2>1 DEF TrackerRec
<1>10. out = [sample |-> <<>>, intervals |-> {}, wakeups |-> <<>>] /\ seen = {}
  BY DEF KpInit
<1>11. /\ out \in [sample : Seq([s : SampleRec, w : Walks]), intervals : SUBSET Interval,
                   wakeups : Seq(Wakeup)]
       /\ out.sample = <<>> /\ out.intervals = {} /\ seen \in SUBSET (KpTids \cup {0})
  <2>1. <<>> \in Seq([s : SampleRec, w : Walks]) /\ <<>> \in Seq(Wakeup)
    OBVIOUS
  <2> QED
    BY <1>10, <2>1
<1>12. KpTypeOK
  BY <1>5, <1>6, <1>9, <1>11 DEF KpTypeOK
<1>13. FeedInv /\ SamplesWhole
  BY <1>5, <1>11 DEF FeedInv, SamplesWhole
<1>14. OnCpusExact /\ ThreadsExact
  BY <1>1, <1>5, <1>9 DEF OnCpusExact, ThreadsExact, ThreadExact
<1>15. PendingExact /\ StacksExact
  BY <1>5, <1>9, <1>11 DEF PendingExact, StacksExact
<1> QED
  BY <1>12, <1>13, <1>14, <1>15 DEF KpInv

\* Switches, wakeups and the end of a batch leave the walk under way alone.
LEMMA FeedKept ==
  ASSUME FeedInv, kern'.walk = kern.walk, kern'.todo = kern.todo, ps' = ps, tg' = tg,
         out'.sample = out.sample
  PROVE  FeedInv'
<1>1. CASE kern.walk = <<>>
  BY <1>1 DEF FeedInv
<1>2. CASE kern.walk # <<>>
  <2>0. PICK w \in Walks : \E ts \in Nat : \E n \in 0 .. KernelEnd(w) + 1 : FeedAt(w, ts, n)
    BY <1>2 DEF FeedInv
  <2>1. PICK ts \in Nat, n \in 0 .. KernelEnd(w) + 1 : FeedAt(w, ts, n)
    BY <2>0
  <2>2. FeedAt(w, ts, n)'
    BY <2>1 DEF FeedAt
  <2> QED
    BY <1>2, <2>2 DEF FeedInv
<1> QED
  BY <1>1, <1>2

\* A walk that begins has all its records before it.
LEMMA FeedBegins ==
  ASSUME NEW w \in Walks, NEW ts \in Nat, kern'.walk = <<w>>, kern'.todo = WalkRecords(w, ts)
  PROVE  FeedInv'
<1>1. PICK e \in Nat : e = KernelEnd(w)
  BY KernelPartType
<1>2. PICK R \in Seq(KpRec) : R = WalkRecords(w, ts) /\ Len(R) = e + 1
  BY RecordsAt, <1>1
<1>3. SubSeq(R, 1, e + 1) = R
  BY <1>2, SubSeqFull
<1>4. 0 + 1 = 1 /\ 0 \in 0 .. KernelEnd(w) + 1 /\ ~(0 \in 1 .. KernelEnd(w)) /\ ~(0 >= 1)
  BY <1>1
<1>5. kern'.todo = SubSeq(WalkRecords(w, ts), 0 + 1, KernelEnd(w) + 1)
  BY <1>1, <1>2, <1>3, <1>4
<1>6. FeedAt(w, ts, 0)'
  BY <1>4, <1>5 DEF FeedAt
<1>7. kern'.walk # <<>>
  OBVIOUS
<1> QED
  BY <1>4, <1>6, <1>7 DEF FeedInv

\* The records of a walk reach the parser in order.
LEMMA FeedAdvances ==
  ASSUME NEW w \in Walks, NEW ts \in Nat, NEW n \in 0 .. KernelEnd(w), FeedAt(w, ts, n),
         RecordFacts(w, ts, n)
  PROVE  FeedInv'
<1>1. PICK e \in Nat : e = KernelEnd(w)
  BY KernelPartType
<1>2. n + 1 \in 0 .. KernelEnd(w) + 1 /\ (n + 1 \in 1 .. KernelEnd(w) => n < KernelEnd(w))
  BY <1>1
<1>3. kern'.walk = <<w>> /\ kern'.todo = SubSeq(WalkRecords(w, ts), (n + 1) + 1, KernelEnd(w) + 1)
  BY DEF FeedAt, RecordFacts
<1>4. FeedAt(w, ts, n + 1)'
  BY <1>2, <1>3 DEF FeedAt, RecordFacts
<1>5. kern'.walk # <<>>
  BY <1>3
<1> QED
  BY <1>2, <1>4, <1>5 DEF FeedInv

\* A switch keeps the tracker's CPUs and threads exact.
LEMMA SwitchKeepsThreads ==
  ASSUME KpTypeOK, OnCpusExact, ThreadsExact, NEW c \in KpCpus, NEW new \in KpTids \cup {0},
         NEW ts \in Nat, SwitchFacts(c, new, ts)
  PROVE  OnCpusExact' /\ ThreadsExact'
<1>0. 0 \notin KpTids /\ Unseen \notin KpTids
  BY KpAssumption
<1>1. PICK prev \in KpTids \cup {0, Unseen} : prev = tr.onCpu[c]
  BY DEF KpTypeOK, TrackerRec
<1>2. PICK was \in KpTids \cup {0} : was = kern.on[c]
  BY DEF KpTypeOK, KernType
<1>3. prev \in KpTids => prev = was
  BY <1>0, <1>1, <1>2 DEF OnCpusExact
<1>4. /\ \A d \in KpCpus : kern'.on[d] = IF d = c THEN new ELSE kern.on[d]
      /\ \A d \in KpCpus : tr'.onCpu[d] = IF d = c THEN new ELSE tr.onCpu[d]
  BY DEF KpTypeOK, KernType, TrackerRec, SwitchFacts, SwitchOf
<1>5. new # was /\ (new # 0 => \A d \in KpCpus : kern.on[d] # new)
  BY <1>2 DEF SwitchFacts
<1>6. OnCpusExact'
  <2>1. \A d \in KpCpus : tr'.onCpu[d] \in {Unseen, kern'.on[d]}
    BY <1>4 DEF OnCpusExact
  <2>2. \A a, b \in KpCpus : kern'.on[a] = kern'.on[b] /\ kern'.on[a] # 0 => a = b
    BY <1>4, <1>5 DEF OnCpusExact
  <2> QED
    BY <2>1, <2>2 DEF OnCpusExact
<1>7. \A t \in KpTids : kern'.mark[t].at = IF t = was \/ t = new THEN ts ELSE kern.mark[t].at
  BY <1>2 DEF SwitchFacts
<1>8. /\ \A o \in KpTids : o # new /\ o # prev => tr'.th[o] = tr.th[o]
      /\ new \in KpTids => tr'.th[new].on = ts /\ tr'.th[new].off = 0
      /\ prev \in KpTids /\ prev # new => tr'.th[prev].on = 0 /\ tr'.th[prev].off = ts
  BY <1>1 DEF SwitchFacts, SwitchOf
<1>9. ASSUME NEW t \in KpTids PROVE ThreadExact(t)'
  <2>1. CASE t = new
    BY <1>4, <1>7, <1>8, <2>1 DEF ThreadExact
  <2>2. CASE t = prev /\ t # new
    <3>1. \A d \in KpCpus : kern'.on[d] # t
      BY <1>0, <1>2, <1>3, <1>4, <2>2 DEF OnCpusExact
    <3>2. kern'.mark[t].at = ts /\ tr'.th[t].on = 0 /\ tr'.th[t].off = ts
      BY <1>3, <1>7, <1>8, <2>2
    <3> QED
      BY <3>1, <3>2 DEF ThreadExact
  <2>3. CASE t # prev /\ t # new
    <3>1. tr'.th[t] = tr.th[t] /\ ThreadExact(t)
      BY <1>8, <2>3 DEF ThreadsExact
    <3>2. ASSUME tr.th[t].on # 0
          PROVE  tr.th[t].on = kern'.mark[t].at /\ \E d \in KpCpus : tr'.onCpu[d] = t
      <4>1. PICK d \in KpCpus : tr.onCpu[d] = t
        BY <3>1, <3>2 DEF ThreadExact
      <4>2. d # c
        BY <1>1, <2>3, <4>1
      <4>3. kern.on[d] = t
        BY <1>0, <4>1 DEF OnCpusExact
      <4>4. t # was
        BY <1>0, <1>2, <4>2, <4>3 DEF OnCpusExact
      <4>5. tr'.onCpu[d] = t
        BY <1>4, <4>1, <4>2
      <4> QED
        BY <1>7, <2>3, <3>1, <3>2, <4>4, <4>5 DEF ThreadExact
    <3>3. ASSUME tr.th[t].off # 0
          PROVE  tr.th[t].off = kern'.mark[t].at /\ \A d \in KpCpus : kern'.on[d] # t
      <4>1. tr.th[t].off = kern.mark[t].at /\ \A d \in KpCpus : kern.on[d] # t
        BY <3>1, <3>3 DEF ThreadExact
      <4> QED
        BY <1>2, <1>4, <1>7, <2>3, <4>1
    <3> QED
      BY <3>1, <3>2, <3>3 DEF ThreadExact
  <2> QED
    BY <2>1, <2>2, <2>3
<1> QED
  BY <1>6, <1>9 DEF ThreadsExact

\* The intervals that wait, against the closed ones.
PendingGood(p, closed, now) ==
  /\ \A j \in DOMAIN p : /\ AsClosed(p[j]) \in closed
                         /\ p[j].to <= now
                         /\ p[j].kind = "off" => p[j].stack # <<>>
  /\ \A j, l \in DOMAIN p : p[j] = p[l] => j = l

\* One more interval that is none of those.
LEMMA PendingGrows ==
  ASSUME NEW p \in Seq(Interval), NEW closed, NEW ts \in Nat, PendingGood(p, closed, ts),
         NEW i \in Interval, AsClosed(i) \in closed, i.to <= ts, i.kind = "off" => i.stack # <<>>,
         \A j \in DOMAIN p : p[j] # i
  PROVE  PendingGood(Append(p, i), closed, ts)
<1>1. PICK n \in Nat : n = Len(p) /\ DOMAIN p = 1 .. n
  OBVIOUS
<1>2. PICK q : q = Append(p, i)
  OBVIOUS
<1>3. DOMAIN q = 1 .. n + 1 /\ q[n + 1] = i /\ \A j \in 1 .. n : q[j] = p[j]
  BY <1>1, <1>2
<1>4. \A j \in 1 .. n + 1 : j \in 1 .. n \/ j = n + 1
  OBVIOUS
<1>5. \A j \in DOMAIN q : /\ AsClosed(q[j]) \in closed
                          /\ q[j].to <= ts
                          /\ q[j].kind = "off" => q[j].stack # <<>>
  BY <1>1, <1>3, <1>4 DEF PendingGood
<1>6. \A j, l \in DOMAIN q : q[j] = q[l] => j = l
  BY <1>1, <1>3, <1>4 DEF PendingGood
<1> QED
  BY <1>2, <1>5, <1>6 DEF PendingGood

\* The intervals a switch closes really ended with it, and are new.
LEMMA SwitchKeepsPending ==
  ASSUME KpTypeOK, OnCpusExact, ThreadsExact, PendingExact, NEW c \in KpCpus,
         NEW new \in KpTids \cup {0}, NEW ts \in Nat, SwitchFacts(c, new, ts)
  PROVE  PendingExact'
<1>0. 0 \notin KpTids /\ Unseen \notin KpTids
  BY KpAssumption
<1>1. kern.now \in Nat /\ ts = kern.now + 1 /\ kern'.now = ts /\ kern.closed \subseteq kern'.closed
      /\ out' = out /\ tr \in TrackerRec
  BY DEF SwitchFacts, KpTypeOK, KernType
<1>2. tr.pending \in Seq(Interval) /\ tr.th \in [KpTids -> ThreadRec]
      /\ tr.onCpu \in [KpCpus -> KpTids \cup {0, Unseen}]
  BY <1>1 DEF TrackerRec
<1>3. PICK C : C = kern'.closed
  OBVIOUS
<1>4. PendingGood(tr.pending, C, ts) /\ \A j \in DOMAIN tr.pending : tr.pending[j].to < ts
  <2>1. \A j \in DOMAIN tr.pending : tr.pending[j].to \in Nat /\ tr.pending[j].to <= kern.now
    <3>1. \A j \in DOMAIN tr.pending : tr.pending[j] \in Interval
      BY <1>2
    <3>2. \A i \in Interval : i.to \in Nat
      BY DEF Interval
    <3> QED
      BY <3>1, <3>2 DEF PendingExact
  <2>2. \A j \in DOMAIN tr.pending : tr.pending[j].to <= ts /\ tr.pending[j].to < ts
    BY <1>1, <2>1
  <2> QED
    BY <1>1, <1>3, <2>2 DEF PendingExact, PendingGood
<1>5. ASSUME NEW i, LeftInterval(tr, c, new, ts, i)
      PROVE  i \in Interval /\ AsClosed(i) \in C /\ i.to = ts /\ i.kind = "on"
  <2>1. PICK t \in KpTids : t = tr.onCpu[c] /\ tr.th[t].on # 0
    BY <1>5 DEF LeftInterval
  <2>2. t = kern.on[c] /\ t # 0
    BY <1>0, <2>1 DEF OnCpusExact
  <2>3. tr.th[t].on = kern.mark[t].at /\ tr.th[t].on \in Nat
    BY <1>2, <2>1 DEF ThreadsExact, ThreadExact, ThreadRec
  <2>4. i = [tid |-> t, kind |-> "on", from |-> tr.th[t].on, to |-> ts, stack |-> <<>>, waker |-> 0]
    BY <1>5, <2>1 DEF LeftInterval, OnInterval
  <2>5. i \in Interval /\ i.to = ts /\ i.kind = "on" /\ i.tid = t /\ i.from = tr.th[t].on
    BY <2>3, <2>4 DEF Interval, CutStack
  <2>6. (i.kind = "on") = TRUE
    BY <2>5
  <2>7. AsClosed(i) = ClosedNow(t, TRUE, ts)
    BY <2>3, <2>5, <2>6, Zenon DEF AsClosed, ClosedNow
  <2>8. ClosedNow(t, TRUE, ts) \in C
    BY <1>3, <2>2 DEF SwitchFacts
  <2> QED
    BY <2>5, <2>7, <2>8
<1>6. ASSUME NEW i, CameInterval(tr, new, ts, i)
      PROVE  i \in Interval /\ AsClosed(i) \in C /\ i.to = ts /\ i.kind = "off" /\ i.stack # <<>>
  <2>1. new \in KpTids /\ new # 0 /\ tr.th[new].off # 0 /\ tr.th[new].user # <<>>
    BY <1>0, <1>6 DEF CameInterval
  <2>2. tr.th[new].off = kern.mark[new].at /\ tr.th[new] \in ThreadRec
    BY <1>2, <2>1 DEF ThreadsExact, ThreadExact
  <2>3. i = [tid |-> new, kind |-> "off", from |-> tr.th[new].off, to |-> ts,
             stack |-> tr.th[new].user, waker |-> tr.th[new].waker]
    BY <1>6 DEF CameInterval, OffInterval
  <2>4. i \in Interval /\ i.to = ts /\ i.kind = "off" /\ i.tid = new /\ i.from = tr.th[new].off
        /\ i.stack = tr.th[new].user
    BY <2>1, <2>2, <2>3 DEF Interval, ThreadRec
  <2>5. (i.kind = "on") = FALSE
    BY <2>4
  <2>6. AsClosed(i) = ClosedNow(new, FALSE, ts)
    BY <2>2, <2>4, <2>5, Zenon DEF AsClosed, ClosedNow
  <2>7. ClosedNow(new, FALSE, ts) \in C
    BY <1>3, <2>1 DEF SwitchFacts
  <2> QED
    BY <2>1, <2>4, <2>6, <2>7
<1>7. PICK mid : /\ \/ mid = tr.pending
                    \/ \E i : LeftInterval(tr, c, new, ts, i) /\ mid = Append(tr.pending, i)
                 /\ \/ tr'.pending = mid
                    \/ \E i : CameInterval(tr, new, ts, i) /\ tr'.pending = Append(mid, i)
  BY Zenon DEF SwitchFacts, ClosedBy
<1>8. /\ mid \in Seq(Interval) /\ PendingGood(mid, C, ts)
      /\ \A j \in DOMAIN mid : mid[j].to < ts \/ mid[j].kind = "on"
  <2>1. CASE mid = tr.pending
    BY <1>2, <1>4, <2>1
  <2>2. CASE \E i : LeftInterval(tr, c, new, ts, i) /\ mid = Append(tr.pending, i)
    <3>1. PICK i : LeftInterval(tr, c, new, ts, i) /\ mid = Append(tr.pending, i)
      BY <2>2
    <3>2. i \in Interval /\ AsClosed(i) \in C /\ i.to = ts /\ i.kind = "on"
      BY <1>5, <3>1
    <3>3. \A j \in DOMAIN tr.pending : tr.pending[j] # i
      BY <1>4, <3>2
    <3>4. i.to <= ts /\ (i.kind = "off" => i.stack # <<>>)
      BY <3>2
    <3>5. PendingGood(mid, C, ts)
      BY <1>2, <1>4, <3>1, <3>2, <3>3, <3>4, PendingGrows
    <3>6. mid \in Seq(Interval) /\ \A j \in DOMAIN mid : mid[j] = i \/ \E l \in DOMAIN tr.pending : mid[j] = tr.pending[l]
      BY <1>2, <3>1, <3>2
    <3> QED
      BY <1>4, <3>2, <3>5, <3>6
  <2> QED
    BY <1>7, <2>1, <2>2
<1>9. PendingGood(tr'.pending, C, ts)
  <2>1. CASE tr'.pending = mid
    BY <1>8, <2>1
  <2>2. CASE \E i : CameInterval(tr, new, ts, i) /\ tr'.pending = Append(mid, i)
    <3>1. PICK i : CameInterval(tr, new, ts, i) /\ tr'.pending = Append(mid, i)
      BY <2>2
    <3>2. i \in Interval /\ AsClosed(i) \in C /\ i.to = ts /\ i.kind = "off" /\ i.stack # <<>>
      BY <1>6, <3>1
    <3>3. \A j \in DOMAIN mid : mid[j] # i
      BY <1>8, <3>2
    <3>4. i.to <= ts
      BY <3>2
    <3> QED
      BY <1>8, <3>1, <3>2, <3>3, <3>4, PendingGrows
  <2> QED
    BY <1>7, <2>1, <2>2
<1>10. \A i \in out'.intervals : AsClosed(i) \in C
  BY <1>1, <1>3 DEF PendingExact
<1> QED
  BY <1>1, <1>3, <1>9, <1>10 DEF PendingExact, PendingGood


\* One step per operation of the kernel and of the pipeline.
LEMMA KpInvStep ==
  ASSUME KpInv, [KpNext]_kpVars
  PROVE  KpInv'
<1> USE DEF KpInv
<1>1. ASSUME NEW c \in KpCpus, NEW new \in KpTids \cup {0}, Sched(c, new) PROVE KpInv'
  <2>1. PICK ts \in Nat : SwitchFacts(c, new, ts)
    BY <1>1, SchedIs
  <2>2. KernType' /\ tr' \in TrackerRec /\ UNCHANGED <<ps, tg, seen, out>>
        /\ kern'.todo = kern.todo /\ kern'.walk = kern.walk /\ kern'.stack = kern.stack
        /\ \A o \in KpTids : tr'.th[o].user = tr.th[o].user
    BY <2>1 DEF SwitchFacts, SwitchOf
  <2>3. KpTypeOK'
    BY <2>2 DEF KpTypeOK
  <2>4. FeedInv'
    BY <2>2, FeedKept
  <2>5. SamplesWhole'
    BY <2>2 DEF SamplesWhole
  <2>6. OnCpusExact' /\ ThreadsExact'
    BY <1>1, <2>1, SwitchKeepsThreads
  <2>7. PendingExact'
    BY <1>1, <2>1, SwitchKeepsPending
  <2>8. StacksExact'
    BY <2>2 DEF StacksExact
  <2> QED
    BY <2>3, <2>4, <2>5, <2>6, <2>7, <2>8
<1>2. ASSUME NEW c \in KpCpus, NEW t \in KpTids, MakeRunnable(c, t) PROVE KpInv'
  <2>1. /\ KpTypeOK'
        /\ kern'.now = kern.now /\ kern'.on = kern.on /\ kern'.closed = kern.closed
        /\ kern'.todo = kern.todo /\ kern'.walk = kern.walk /\ kern'.stack = kern.stack
        /\ kern'.mark = kern.mark /\ UNCHANGED <<ps, tg, seen, out>>
        /\ tr'.onCpu = tr.onCpu /\ tr'.pending = tr.pending
        /\ \A o \in KpTids : tr'.th[o].on = tr.th[o].on /\ tr'.th[o].off = tr.th[o].off
                             /\ tr'.th[o].user = tr.th[o].user
    BY <1>2, MakeRunnableIs
  <2>2. FeedInv'
    BY <2>1, FeedKept
  <2>3. SamplesWhole' /\ StacksExact'
    BY <2>1 DEF SamplesWhole, StacksExact
  <2>4. OnCpusExact' /\ ThreadsExact'
    BY <2>1 DEF OnCpusExact, ThreadsExact, ThreadExact
  <2>5. PendingExact'
    BY <2>1 DEF PendingExact
  <2> QED
    BY <2>1, <2>2, <2>3, <2>4, <2>5
<1>3. ASSUME NEW w \in Walks, TakeWalk(w) PROVE KpInv'
  <2>1. /\ KpTypeOK'
        /\ kern'.now = kern.now /\ kern'.on = kern.on /\ kern'.closed = kern.closed
        /\ kern'.stack = kern.stack /\ kern'.mark = kern.mark
        /\ kern'.walk = <<w>> /\ kern.now \in Nat /\ kern'.todo = WalkRecords(w, kern.now)
        /\ UNCHANGED <<ps, tg, tr, seen, out>>
    BY <1>3, TakeWalkIs
  <2>2. FeedInv'
    BY <2>1, FeedBegins
  <2>3. SamplesWhole' /\ StacksExact'
    BY <2>1 DEF SamplesWhole, StacksExact
  <2>4. OnCpusExact' /\ ThreadsExact'
    BY <2>1 DEF OnCpusExact, ThreadsExact, ThreadExact
  <2>5. PendingExact'
    BY <2>1 DEF PendingExact
  <2> QED
    BY <2>1, <2>2, <2>3, <2>4, <2>5
<1>4. ASSUME PerfRecord PROVE KpInv'
  <2>1. kern.walk # <<>>
    BY <1>4 DEF FeedInv, PerfRecord
  <2>2. PICK w \in Walks : \E ts \in Nat : \E n \in 0 .. KernelEnd(w) + 1 : FeedAt(w, ts, n)
    BY <2>1 DEF FeedInv
  <2>3. PICK ts \in Nat, n \in 0 .. KernelEnd(w) + 1 : FeedAt(w, ts, n)
    BY <2>2
  <2>4. n \in 0 .. KernelEnd(w) /\ RecordFacts(w, ts, n)
    BY <1>4, <2>3, PerfRecordIs
  <2>5. FeedInv'
    BY <2>3, <2>4, FeedAdvances
  <2>6. SamplesWhole'
    <3>1. CASE out'.sample = out.sample
      BY <3>1 DEF SamplesWhole
    <3>2. CASE \E s \in SampleRec : SampleOf(s, w) /\ out'.sample = <<[s |-> s, w |-> w]>>
      <4>1. PICK s \in SampleRec : SampleOf(s, w) /\ out'.sample = <<[s |-> s, w |-> w]>>
        BY <3>2
      <4>2. \A i \in DOMAIN out'.sample : out'.sample[i].s = s /\ out'.sample[i].w = w
        BY <4>1
      <4> QED
        BY <4>1, <4>2 DEF SamplesWhole
    <3> QED
      BY <2>4, <3>1, <3>2 DEF RecordFacts
  <2>7. OnCpusExact' /\ ThreadsExact'
    BY <2>4 DEF OnCpusExact, ThreadsExact, ThreadExact, RecordFacts
  <2>8. PendingExact'
    BY <2>4 DEF PendingExact, RecordFacts
  <2>9. StacksExact'
    BY <2>4 DEF StacksExact, RecordFacts
  <2>10. KpTypeOK'
    BY <2>4 DEF RecordFacts
  <2> QED
    BY <2>5, <2>6, <2>7, <2>8, <2>9, <2>10
<1>5. ASSUME EndBatch PROVE KpInv'
  <2>1. /\ KpTypeOK' /\ UNCHANGED <<kern, ps, tg, seen>>
        /\ tr'.onCpu = tr.onCpu /\ tr'.th = tr.th /\ tr'.pending = <<>>
        /\ out'.sample = out.sample /\ out'.intervals \subseteq ToSet(tr.pending)
    BY <1>5, EndBatchIs
  <2>2. FeedInv'
    BY <2>1, FeedKept
  <2>3. SamplesWhole' /\ StacksExact'
    BY <2>1 DEF SamplesWhole, StacksExact
  <2>4. OnCpusExact' /\ ThreadsExact'
    BY <2>1 DEF OnCpusExact, ThreadsExact, ThreadExact
  <2>5. PendingExact'
    BY <2>1 DEF PendingExact, ToSet
  <2> QED
    BY <2>1, <2>2, <2>3, <2>4, <2>5
<1>6. ASSUME UNCHANGED kpVars PROVE KpInv'
  <2>1. kern' = kern /\ ps' = ps /\ tg' = tg /\ tr' = tr /\ seen' = seen /\ out' = out
    BY <1>6 DEF kpVars
  <2>2. KpTypeOK' /\ FeedInv'
    BY <2>1, FeedKept DEF KpTypeOK, KernType
  <2>3. SamplesWhole' /\ StacksExact' /\ PendingExact'
    BY <2>1 DEF SamplesWhole, StacksExact, PendingExact
  <2>4. OnCpusExact' /\ ThreadsExact'
    BY <2>1 DEF OnCpusExact, ThreadsExact, ThreadExact
  <2> QED
    BY <2>2, <2>3, <2>4
<1> QED
  BY <1>1, <1>2, <1>3, <1>4, <1>5, <1>6 DEF KpNext

LEMMA KpInvAlways == KpSpec => []KpInv
<1>1. KpInit => KpInv
  BY KpInvInit
<1>2. KpInv /\ [KpNext]_kpVars => KpInv'
  BY KpInvStep
<1> QED
  BY <1>1, <1>2, PTL DEF KpSpec

-----------------------------------------------------------------------------
(* Theorems *)

\* Parser, scanner, tracker and sink keep their shapes: whatever the order of
\* records and switches, a record is one xnu writes, and every stack a thread
\* or a sample carries has been cut at its null frame.
THEOREM KpTyped == KpSpec => []KpTypeOK
<1>1. KpInv => KpTypeOK
  BY DEF KpInv
<1> QED
  BY <1>1, KpInvAlways, PTL

\* Parser::feed and normalize_user_fixup: for any walk, any size of a data
\* record and any interleaving with switches and wakeups, a sample the sink
\* gets is its walk, whole and in call order, and the probe trigger fired
\* for the walk's thread.
THEOREM SamplesAreFaithful == KpSpec => []SamplesFaithful
<1>1. ASSUME KpInv PROVE SamplesFaithful
  <2> USE <1>1 DEF KpInv
  <2>1. SUFFICES ASSUME out.sample # <<>>
                 PROVE  /\ SampleOf(out.sample[1].s, out.sample[1].w)
                        /\ kern.todo = <<>> =>
                             tg.last = <<kern.walk[1].tid>> \/ kern.walk[1].chain = <<>>
    BY DEF SamplesFaithful, SampleOf
  <2>2. 1 \in DOMAIN out.sample
    <3>1. out.sample \in Seq([s : SampleRec, w : Walks])
      BY DEF KpTypeOK
    <3> QED
      BY <2>1, <3>1
  <2>3. SampleOf(out.sample[1].s, out.sample[1].w)
    BY <2>2 DEF SamplesWhole
  <2>4. ASSUME kern.todo = <<>> PROVE tg.last = <<kern.walk[1].tid>> \/ kern.walk[1].chain = <<>>
    <3>1. PICK w \in Walks : \E ts \in Nat : \E n \in 0 .. KernelEnd(w) + 1 : FeedAt(w, ts, n)
      BY <2>1 DEF FeedInv
    <3>2. PICK ts \in Nat, n \in 0 .. KernelEnd(w) + 1 : FeedAt(w, ts, n)
      BY <3>1
    <3>3. PICK e \in Nat : e = KernelEnd(w) /\ e >= 2
      BY KernelPartType, UserPartType
    <3>4. n = e + 1
      BY <2>4, <3>2, <3>3, RestOfRecords DEF FeedAt
    <3>5. Triggered(tg, w, n) /\ kern.walk[1] = w
      BY <3>2, <3>3, <3>4 DEF FeedAt
    <3> QED
      BY <3>3, <3>4, <3>5 DEF Triggered
  <2> QED
    BY <2>3, <2>4
<1> QED
  BY <1>1, KpInvAlways, PTL

\* CpuIntervalTracker: for any CPUs and threads, an interval on its way to the
\* sink was really spent on or off a CPU from its first tick to its last, none
\* is reported twice in a batch, an off-CPU one carries a stack, and the
\* cached stack of a thread is that of its last sample.
THEOREM IntervalsAreExact == KpSpec => []IntervalsExact
<1>1. ASSUME KpInv PROVE IntervalsExact
  <2> USE <1>1 DEF KpInv
  <2>1. \A i \in ToSet(tr.pending) \cup out.intervals : AsClosed(i) \in kern.closed
    BY DEF PendingExact, ToSet
  <2>2. \A i \in ToSet(tr.pending) : i.kind = "off" => i.stack # <<>>
    BY DEF PendingExact, ToSet
  <2>3. \A t \in KpTids : tr.th[t].user = kern.stack[t]
    BY DEF StacksExact
  <2>4. IsInjective(tr.pending)
    BY DEF PendingExact, IsInjective
  <2> QED
    BY <2>1, <2>2, <2>3, <2>4, Zenon DEF IntervalsExact, AsClosed
<1> QED
  BY <1>1, KpInvAlways, PTL
=============================================================================
