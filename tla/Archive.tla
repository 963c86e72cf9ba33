------------------------------ MODULE Archive ------------------------------
(* The saved-run archive: what write_archive puts on disk, file by file, for  *)
(* a directory and for a .stax package; what a crash or a failed write leaves *)
(* there; what the two readers (stax-server's open, the CLI's compare) make   *)
(* of it; and the comparison of two archives.                                 *)
(*                                                                            *)
(* A snapshot is the live stores at the time of a save: run summaries, clock, *)
(* names, threads with their three streams, binaries, target diagnostics,     *)
(* target events and markers.  Stacks, symbols, counters and definitions ride *)
(* along with these unchanged and are left out; format versions are the       *)
(* current one.                                                               *)
EXTENDS Integers, Sequences, FiniteSets, TLC, SequencesExt, FiniteSetsExt

CONSTANTS ArSnapshots,   \* the states of the stores that may be saved
          ArLimits,      \* compare's --fail-* thresholds: metric -> limit
          ArNoText,      \* a binary without text bytes, an absent file
          ArTorn,        \* a file, or a line, that a crash cut short
          ArMaxSaves, ArMaxCuts

VARIABLES arDir,         \* the directory archive: file -> content
          arBundle,      \* the single-file package
          arSave,        \* the save under way
          arDone,        \* the snapshot whose save was the last to complete
          arReport,      \* the last comparison: baseline package, candidate directory
          arSaves, arCuts

arVars == <<arDir, arBundle, arSave, arDone, arReport, arSaves, arCuts>>

NoArchive == [at |-> 0]

\* Aggregator, BinaryRegistry and ObservabilityStore::to_saved: maps become lists
\* ordered by tid, the rest is copied as it is kept.
ToSaved(live) ==
  LET tids == SetToSortSeq(DOMAIN live.names, <)
  IN  [live EXCEPT !.names = [i \in DOMAIN tids |-> [tid |-> tids[i], name |-> live.names[tids[i]]]]]

\* replace_from_saved of the three: a later name or binary of the same key wins,
\* a binary moves to the end, the events are sorted.
InsertBinary(bins, b) == Append(SelectSeq(bins, LAMBDA x : x.base # b.base), b)
ReplaceFromSaved(a) ==
  [a EXCEPT !.names = FoldLeft(LAMBDA f, n : (n.tid :> n.name) @@ f, <<>>, a.names),
            !.binaries = FoldLeft(InsertBinary, <<>>, a.binaries),
            !.signals = SortSeq(a.signals, <)]

\* binary_text_blob_member: the position in the list and the base name the member.
TextMember(i, b) == <<i, b.base>>

\* archive_for_storage: the text bytes go to blobs, the rest stays.
StoredBinaries(a) == [i \in DOMAIN a.binaries |-> [a.binaries[i] EXCEPT !.text = ArNoText]]
WithText(a) == {i \in DOMAIN a.binaries : a.binaries[i].text # ArNoText}
StoredBlobs(a) ==
  [m \in {TextMember(i, a.binaries[i]) : i \in WithText(a)} |-> a.binaries[m[1]].text]

(* ------------------------- the event log ---------------------------------- *)

Entry(t, v) == [t |-> t, v |-> v]

\* The timed entries with the key they are sorted by; within one key the order
\* of the stream is kept (sort_by_key is stable).
Timed(a) ==
  LET Of(order, tid, stream, t, At(_)) ==
        {[key |-> <<At(stream[i]), order, tid, i>>, e |-> Entry(t, [tid |-> tid, x |-> stream[i]])] :
           i \in DOMAIN stream}
      Start(x) == x.start
      Time(x) == x
  IN  UNION {Of(0, tid, a.threads[tid].samples, "sample", Time) : tid \in DOMAIN a.threads}
      \cup UNION {Of(1, tid, a.threads[tid].intervals, "interval", Start) : tid \in DOMAIN a.threads}
      \cup UNION {Of(2, tid, a.threads[tid].wakeups, "wakeup", Time) : tid \in DOMAIN a.threads}
      \cup Of(3, 0, a.signals, "signal", Time)

KeyBefore(k, l) ==
  \E i \in DOMAIN k : k[i] < l[i] /\ \A j \in 1..(i - 1) : k[j] = l[j]

SortedTimed(a) ==
  LET T == Timed(a)
  IN  [n \in 1..Cardinality(T) |->
         (CHOOSE x \in T : Cardinality({y \in T : KeyBefore(y.key, x.key)}) = n - 1).e]

\* archive_event_log_entries.  The markers have no entry.
EventLog(a) ==
  <<Entry("saved", a.at)>>
  \o [i \in DOMAIN a.runs |-> Entry("run", a.runs[i])]
  \o <<Entry("clock", a.clock)>>
  \o [i \in DOMAIN a.names |-> Entry("name", a.names[i])]
  \o [i \in DOMAIN a.binaries |-> Entry("binary", StoredBinaries(a)[i])]
  \o <<Entry("target", a.target)>>
  \o SortedTimed(a)

OfType(es, t) ==
  LET S == SelectSeq(es, LAMBDA e : e.t = t) IN [i \in DOMAIN S |-> S[i].v]

LastOf(es, t, default) ==
  LET S == OfType(es, t) IN IF S = <<>> THEN default ELSE Last(S)

\* SavedRunArchive::from_event_log_entries.  Names and threads come back ordered
\* by tid; a thread with no event is not there; the markers are the default.
FromEventLog(at, es) ==
  LET Names == OfType(es, "name")
      Items(t, tid) ==
        LET S == SelectSeq(OfType(es, t), LAMBDA v : v.tid = tid) IN [i \in DOMAIN S |-> S[i].x]
      tids == {e.v.tid : e \in {f \in ToSet(es) : f.t \in {"sample", "interval", "wakeup"}}}
      Signals == OfType(es, "signal")
  IN  [at       |-> LastOf(es, "saved", at),
       runs     |-> OfType(es, "run"),
       clock    |-> LastOf(es, "clock", 0),
       names    |-> Names,
       threads  |-> [tid \in tids |-> [samples   |-> Items("sample", tid),
                                       intervals |-> Items("interval", tid),
                                       wakeups   |-> Items("wakeup", tid)]],
       binaries |-> OfType(es, "binary"),
       target   |-> LastOf(es, "target", 0),
       signals  |-> [i \in DOMAIN Signals |-> Signals[i].x],
       markers  |-> <<>>]

(* ------------------------- reading ---------------------------------------- *)

Unreadable == [at |-> -1]

\* restore_directory_blobs, restore_bundle_blobs
Restored(a, blobs) ==
  [a EXCEPT !.binaries =
     [i \in DOMAIN a.binaries |->
        LET m == TextMember(i, a.binaries[i])
        IN  IF m \in DOMAIN blobs THEN [a.binaries[i] EXCEPT !.text = blobs[m]]
            ELSE a.binaries[i]]]

WithRuns(a, runs) == IF a.runs = <<>> THEN [a EXCEPT !.runs = runs] ELSE a

\* read_archive_manifest, read_event_log: the log when it has an entry, the chunks
\* otherwise; a cut line, a cut chunk or a missing one is an error.
ReadManifest(d) ==
  LET es == d.events
      chunks == {d.aggregator, d.binaries, d.target, d.obs}
  IN  IF d.manifest = ArTorn THEN Unreadable
      ELSE IF es # ArNoText /\ es # <<>>
        THEN IF Last(es) = ArTorn THEN Unreadable
             ELSE Restored(WithRuns(FromEventLog(d.manifest.at, es), d.manifest.runs), d.blobs)
      ELSE IF chunks \cap {ArTorn, ArNoText} # {} THEN Unreadable
      ELSE Restored([at |-> d.manifest.at, runs |-> d.manifest.runs,
                     clock |-> d.aggregator.clock, names |-> d.aggregator.names,
                     threads |-> d.aggregator.threads, binaries |-> d.binaries,
                     target |-> d.target, signals |-> d.obs,
                     markers |-> d.aggregator.markers],
                    d.blobs)

\* read_archive: the manifest, or the one-file archive of format 1.
ReadDirectory(d) ==
  IF d.manifest # ArNoText THEN ReadManifest(d)
  ELSE IF d.legacy # ArNoText THEN d.legacy
  ELSE Unreadable

\* read_archive_bundle
ReadBundle(b) ==
  IF b \in {ArNoText, ArTorn} THEN Unreadable
  ELSE Restored(WithRuns(FromEventLog(b.at, b.events), b.runs), b.blobs)

\* The CLI has readers of its own; they take the same steps.
ReadSavedDirectory(d) == ReadDirectory(d)
ReadSavedBundle(b) == ReadBundle(b)

(* ------------------------- compare ---------------------------------------- *)

\* summarize_archive
Durations(a, kind) ==
  LET Of(tid) ==
        FoldLeft(LAMBDA n, x : n + IF x.kind = kind THEN x.end - x.start ELSE 0, 0,
                 a.threads[tid].intervals)
  IN  FoldFunction(+, 0, [tid \in DOMAIN a.threads |-> Of(tid)])

SpanCount(a, Is(_)) ==
  FoldFunction(+, 0, [tid \in DOMAIN a.threads |->
    Cardinality({i \in DOMAIN a.threads[tid].intervals :
                   LET x == a.threads[tid].intervals[i] IN x.kind = "span" /\ Is(x)})])

\* The lanes are told apart by the thread's name, by its tid when it has none.
LaneName(a, tid) ==
  LET named == {i \in DOMAIN a.names : a.names[i].tid = tid}
  IN  IF named = {} THEN <<"tid", tid>> ELSE <<"name", a.names[CHOOSE i \in named : TRUE].name>>

\* The target time and the spans of each lane; two threads may share one.
Lanes(a) ==
  LET items == UNION {{<<tid, i>> : i \in {j \in DOMAIN a.threads[tid].intervals :
                                             a.threads[tid].intervals[j].kind = "span"}} :
                        tid \in DOMAIN a.threads}
      of(n) == {x \in items : LaneName(a, x[1]) = n}
      ns(x) == a.threads[x[1]].intervals[x[2]].end - a.threads[x[1]].intervals[x[2]].start
  IN  [n \in {LaneName(a, x[1]) : x \in items} |->
         [ns |-> MapThenSumSet(ns, of(n)), spans |-> Cardinality(of(n))]]

SummarizeArchive(a) ==
  [samples  |-> FoldFunction(+, 0, [tid \in DOMAIN a.threads |-> Len(a.threads[tid].samples)]),
   on       |-> Durations(a, "on"),
   off      |-> Durations(a, "off"),
   target   |-> Durations(a, "span"),
   spans    |-> SpanCount(a, LAMBDA x : TRUE),
   linked   |-> SpanCount(a, LAMBDA x : x.origin /\ x.depth > 2),
   unlinked |-> SpanCount(a, LAMBDA x : x.origin /\ x.depth <= 2),
   missing  |-> SpanCount(a, LAMBDA x : ~x.origin),
   lanes    |-> Cardinality(DOMAIN Lanes(a)),
   drops    |-> a.target]

\* compare_lanes: the lanes of either archive, a lane that is not there has no
\* time; `above` is the order of the table (equal lanes go by name).
CompareLanes(base, cand) ==
  LET names == DOMAIN base \cup DOMAIN cand
      at(lanes, n) == IF n \in DOMAIN lanes THEN lanes[n] ELSE [ns |-> 0, spans |-> 0]
      most(n) == Max({at(base, n).ns, at(cand, n).ns})
  IN  [delta |-> [n \in names |-> [ns    |-> at(cand, n).ns - at(base, n).ns,
                                   spans |-> at(cand, n).spans - at(base, n).spans]],
       above |-> {<<n, m>> \in names \X names : most(n) > most(m)}]

\* positive_delta_pct: more than limit percent; any growth from nothing is.
OverPct(b, c, limit) == c > b /\ (b = 0 \/ (c - b) * 100 > limit * b)

\* compare_threshold_failures: a metric fails when it grew by more than its limit.
CompareFailures(b, c) ==
  {m \in DOMAIN ArLimits \ {"pct"} : Max({0, c[m] - b[m]}) > ArLimits[m]}
  \cup {m \in {"pct"} \cap DOMAIN ArLimits : OverPct(b.target, c.target, ArLimits.pct)}

\* build_compare_report
CompareReport(base, cand) ==
  LET b == SummarizeArchive(base)
      c == SummarizeArchive(cand)
  IN  [delta  |-> [m \in DOMAIN b |-> c[m] - b[m]],
       lanes  |-> CompareLanes(Lanes(base), Lanes(cand)),
       failed |-> CompareFailures(b, c)]

(* ------------------------- saving ------------------------------------------ *)

NoSave == [step |-> 0]

EmptyDir == [legacy |-> ArNoText, manifest |-> ArNoText, aggregator |-> ArNoText,
             binaries |-> ArNoText, target |-> ArNoText, obs |-> ArNoText,
             blobs |-> <<>>, events |-> ArNoText]

\* The log is written before the chunks and the blobs it relies on.
MutantOrder == <<"legacy", "manifest", "events", "aggregator", "binaries", "target", "obs", "clear", "blobs">>

\* The files in the order write_archive_directory touches them: the one-file
\* archive of format 1 goes first, the event log comes last.
WriteOrder == <<"legacy", "manifest", "aggregator", "binaries", "target", "obs", "clear", "blobs", "events">>

\* What file f holds once it is written.
Content(f, a) ==
  CASE f = "legacy"     -> ArNoText
    [] f = "manifest"   -> [at |-> a.at, runs |-> a.runs]
    [] f = "aggregator" -> [clock |-> a.clock, names |-> a.names, threads |-> a.threads,
                            markers |-> a.markers]
    [] f = "binaries"   -> StoredBinaries(a)
    [] f = "target"     -> a.target
    [] f = "obs"        -> a.signals
    [] f = "clear"      -> <<>>
    [] f = "blobs"      -> StoredBlobs(a)
    [] f = "events"     -> EventLog(a)

FileOf(f) == IF f = "clear" THEN "blobs" ELSE f

\* What a write of f may leave when it is cut short: nothing changed yet, or the
\* file truncated part way.  The log is flushed in pieces of any length; blobs
\* are written one by one, each of them after it was truncated.
CutContents(f, a) ==
  {arDir[FileOf(f)]} \cup
  (CASE f = "legacy" -> {}
     [] f = "clear"  -> {[m \in K |-> arDir.blobs[m]] : K \in SUBSET DOMAIN arDir.blobs}
     [] f = "blobs"  -> LET B == StoredBlobs(a)
                        IN  UNION {{[m \in K |-> B[m]], [m \in K |-> IF m = t THEN ArTorn ELSE B[m]]} :
                                     K \in SUBSET DOMAIN B, t \in DOMAIN B}
     [] f = "events" -> LET E == EventLog(a)
                        IN  {SubSeq(E, 1, n) : n \in 0..Len(E)}
                            \cup {Append(SubSeq(E, 1, n), ArTorn) : n \in 0..(Len(E) - 1)}
     [] OTHER -> {ArTorn})

\* The path is free, or holds a one-file archive an older version left there.
ArInit ==
  /\ \E l \in {ArNoText} \cup {ToSaved(s) : s \in ArSnapshots} : arDir = [EmptyDir EXCEPT !.legacy = l]
  /\ arBundle = ArNoText
  /\ arSave = NoSave
  /\ arDone = [dir |-> NoArchive, bundle |-> NoArchive]
  /\ arReport = {}
  /\ arSaves = 0
  /\ arCuts = 0

\* write_archive picks the format by the path's extension.
BeginSave(a, to) ==
  /\ arSave = NoSave
  /\ arSaves < ArMaxSaves
  /\ arSave' = [step |-> 1, live |-> a, what |-> ToSaved(a), to |-> to]
  /\ arSaves' = arSaves + 1
  /\ arDone' = [arDone EXCEPT ![to] = NoArchive]
  /\ UNCHANGED <<arDir, arBundle, arReport, arCuts>>

\* One file of the directory written to its end.
WriteFile ==
  /\ arSave # NoSave
  /\ arSave.to = "dir"
  /\ LET f == WriteOrder[arSave.step]
         a == arSave.what
     IN  /\ arDir' = [arDir EXCEPT ![FileOf(f)] = Content(f, a)]
         /\ IF arSave.step = Len(WriteOrder)
              THEN arSave' = NoSave /\ arDone' = [arDone EXCEPT !.dir = arSave.live]
              ELSE arSave' = [arSave EXCEPT !.step = @ + 1] /\ arDone' = arDone
  /\ UNCHANGED <<arBundle, arReport, arSaves, arCuts>>

\* The process dies, or the write fails and write_archive returns its error.
CutFile ==
  /\ arSave # NoSave
  /\ arSave.to = "dir"
  /\ arCuts < ArMaxCuts
  /\ \E c \in CutContents(WriteOrder[arSave.step], arSave.what) :
        arDir' = [arDir EXCEPT ![FileOf(WriteOrder[arSave.step])] = c]
  /\ arSave' = NoSave
  /\ arCuts' = arCuts + 1
  /\ UNCHANGED <<arBundle, arDone, arReport, arSaves>>

Package(a) == [at |-> a.at, runs |-> a.runs, events |-> EventLog(a), blobs |-> StoredBlobs(a)]

\* write_archive_bundle: one fs::write of the whole package.
WriteBundle ==
  /\ arSave # NoSave
  /\ arSave.to = "bundle"
  /\ arBundle' = Package(arSave.what)
  /\ arSave' = NoSave
  /\ arDone' = [arDone EXCEPT !.bundle = arSave.live]
  /\ UNCHANGED <<arDir, arReport, arSaves, arCuts>>

CutBundle ==
  /\ arSave # NoSave
  /\ arSave.to = "bundle"
  /\ arCuts < ArMaxCuts
  /\ arBundle' \in {arBundle, ArTorn}
  /\ arSave' = NoSave
  /\ arCuts' = arCuts + 1
  /\ UNCHANGED <<arDir, arDone, arReport, arSaves>>

\* run_compare: baseline from the package, candidate from the directory.
Compare ==
  /\ ReadSavedBundle(arBundle) # Unreadable
  /\ ReadSavedDirectory(arDir) # Unreadable
  /\ arReport' = {CompareReport(ReadSavedBundle(arBundle), ReadSavedDirectory(arDir))}
  /\ arReport' # arReport
  /\ UNCHANGED <<arDir, arBundle, arSave, arDone, arSaves, arCuts>>

ArNext ==
  \/ \E a \in ArSnapshots, to \in {"dir", "bundle"} : BeginSave(a, to)
  \/ WriteFile \/ CutFile \/ WriteBundle \/ CutBundle
  \/ Compare

ArSpec == ArInit /\ [][ArNext]_arVars

(* ------------------------- properties --------------------------------------- *)

\* Thread tid of archive a, an empty one when the archive does not list it.
StreamsOf(a, tid) ==
  IF tid \in DOMAIN a.threads THEN a.threads[tid]
  ELSE [samples |-> <<>>, intervals |-> <<>>, wakeups |-> <<>>]

SameItems(s, t) == Len(s) = Len(t) /\ \A x \in ToSet(s) \cup ToSet(t) :
  Cardinality({i \in DOMAIN s : s[i] = x}) = Cardinality({i \in DOMAIN t : t[i] = x})

\* What saving and opening may change of the stores: markers apart, every run,
\* name, event, binary with its text bytes, and every item of every stream is
\* there once, and the streams are in time order.
ReadsAs(r, a) ==
  /\ r.at = a.at /\ r.runs = a.runs /\ r.clock = a.clock /\ r.target = a.target
  /\ r.names = a.names /\ r.binaries = a.binaries /\ r.signals = a.signals
  /\ \A tid \in DOMAIN a.threads \cup DOMAIN r.threads :
       LET s == StreamsOf(r, tid)
           t == StreamsOf(a, tid)
       IN  /\ SameItems(s.samples, t.samples)
           /\ SameItems(s.intervals, t.intervals)
           /\ SameItems(s.wakeups, t.wakeups)
           /\ \A i, j \in DOMAIN s.intervals : i < j => s.intervals[i].start <= s.intervals[j].start

\* Of every archive that opens, the streams, the names and the binaries come from
\* one save: not from the log of one beside the chunks of another, whatever was
\* cut short.  (A log cut between two lines opens as a shorter run.)
FromOneSave(r) ==
  \E a \in {ToSaved(s) : s \in ArSnapshots} :
    /\ r.at = a.at
    /\ ToSet(r.names) \subseteq ToSet(a.names)
    /\ {b.base : b \in ToSet(r.binaries)} \subseteq {b.base : b \in ToSet(a.binaries)}
    /\ r.target \in {0, a.target}
    /\ \A tid \in DOMAIN r.threads :
         /\ tid \in DOMAIN a.threads
         /\ ToSet(r.threads[tid].samples) \subseteq ToSet(a.threads[tid].samples)
         /\ ToSet(r.threads[tid].intervals) \subseteq ToSet(a.threads[tid].intervals)

\* Saves cut short so far, the one under way included.
Unfinished == arCuts + IF arSave = NoSave THEN 0 ELSE 1

\* A completed save reads back, from a directory and from a package, whatever was
\* at the path before; an interrupted one opens as one save or not at all, unless
\* it follows another interrupted one (a log cut to nothing sends the reader to
\* chunks the next save is replacing); compare's report on what it reads is the
\* report on the snapshots, its lanes and its kinds of span add up to its totals,
\* and it fails nothing that did not grow (main.rs write_archive, read_archive;
\* cli run_compare).
ArchiveReadsBack ==
  /\ arDone.dir # NoArchive => ReadsAs(ReplaceFromSaved(ReadDirectory(arDir)), arDone.dir)
  /\ arDone.bundle # NoArchive => ReadsAs(ReplaceFromSaved(ReadBundle(arBundle)), arDone.bundle)
  /\ Unfinished <= 1 =>
       \A r \in {ReadDirectory(arDir), ReadBundle(arBundle)} : r # Unreadable => FromOneSave(r)
  /\ (arDone.dir # NoArchive /\ arDone.bundle # NoArchive) =>
       CompareReport(ReadSavedBundle(arBundle), ReadSavedDirectory(arDir))
         = CompareReport(ToSaved(arDone.bundle), ToSaved(arDone.dir))
  /\ \A r \in arReport :
       /\ MapThenSumSet(LAMBDA n : r.lanes.delta[n].ns, DOMAIN r.lanes.delta) = r.delta.target
       /\ MapThenSumSet(LAMBDA n : r.lanes.delta[n].spans, DOMAIN r.lanes.delta) = r.delta.spans
       /\ r.delta.linked + r.delta.unlinked + r.delta.missing = r.delta.spans
       /\ \A m \in r.failed \ {"pct"} : r.delta[m] > 0

\* "Persisted so an opened archive keeps its `--window <marker>..` anchors"
\* (stax-live-proto/src/lib.rs:2097): a completed save opens with its markers.
MarkersKept ==
  arDone.dir # NoArchive => ReadDirectory(arDir).markers = arDone.dir.markers
=============================================================================
