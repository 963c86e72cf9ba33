---------------------------- MODULE SignalStore ----------------------------
(* The store of what a cooperating target reports (stax-live/src/             *)
(* observability.rs): batches of definitions, events and counter samples are  *)
(* judged and kept up to a bound, and the queries read the bounded store.     *)
(* Batches arrive late and out of order, and an accepted one moves the bounds *)
(* of the run that the next one is judged by (target_ingest.rs).              *)
(*                                                                            *)
(* An item is an event or a counter sample: kind, set (the id of its          *)
(* definition), src (the pid it names), tid, at, n (values carried), v (the   *)
(* value of its first, monotonic counter).                                    *)
EXTENDS Integers, Sequences, FiniteSets, TLC, SequencesExt, FiniteSetsExt

CONSTANTS SgBatches,     \* the batches a target may send: [defs, items]
          SgPid,         \* the recorded process, which sends them
          SgBounds,      \* the run's first and latest timestamp when they start
          SgSlop,        \* TIMESTAMP_BOUND_SLOP_NS
          SgCap,         \* MAX_EVENTS and MAX_COUNTER_SAMPLES
          SgMaxBatches,
          SgNone         \* no tid, no sample, no time

VARIABLES sgDefs,        \* definitions: <<kind, set>> -> number of values
          sgKept,        \* the two queues: kind -> sequence of items
          sgDiag,        \* ObservabilityDiagnostics
          sgSpan,        \* session_start and last_event of the run
          sgLog,         \* every item accepted so far, in that order
          sgBatch        \* batches taken

sgVars == <<sgDefs, sgKept, sgDiag, sgSpan, sgLog, sgBatch>>

Kinds == {"event", "counter"}

SgInit ==
  /\ sgDefs = <<>>
  /\ sgKept = [k \in Kinds |-> <<>>]
  /\ sgDiag = [received |-> 0, recorded |-> 0, evicted |-> 0, unknown |-> 0, width |-> 0,
               tid |-> 0, time |-> 0, conflicts |-> 0, regressions |-> 0]
  /\ sgSpan = SgBounds
  /\ sgLog = <<>>
  /\ sgBatch = 0

\* insert_definition after valid_*_definition: the first definition of an id stays,
\* a different or an oversized one is counted.
InsertDefinition(st, d) ==
  LET key == <<d.kind, d.set>>
  IN  IF ~d.valid \/ (key \in DOMAIN st.defs /\ st.defs[key] # d.n)
      THEN [st EXCEPT !.diag.conflicts = @ + 1]
      ELSE [st EXCEPT !.defs = @ @@ (key :> d.n)]

\* The checks of ingest in their order: definition, values, tid, timestamp. A tid
\* counts only with the pid of the batch; none may be a synthetic lane's.
SignalVerdict(st, x) ==
  CASE <<x.kind, x.set>> \notin DOMAIN st.defs -> "unknown"
    [] x.n # st.defs[<<x.kind, x.set>>] -> "width"
    [] x.tid # SgNone /\ (x.src # SgPid \/ x.tid = "lane") -> "tid"
    [] x.at = SgNone -> "time"
    [] x.at + SgSlop < sgSpan.start \/ x.at > sgSpan.last + SgSlop -> "time"
    [] OTHER -> "ok"

SameSeries(x, y) == x.src = y.src /\ x.set = y.set

\* check_monotonic_regression: against the last sample of the series in the queue,
\* which is the newest, or the one before it in this batch.
Regressed(q, x) ==
  LET i == SelectLastInSeq(q, LAMBDA y : SameSeries(x, y))
  IN  x.kind = "counter" /\ i > 0 /\ x.v < q[i].v

\* A batch past the bound loses its own tail.
MutantPushBounded(q, x) == IF Len(q) = SgCap THEN q ELSE Append(q, x)

PushBounded(q, x) == Append(IF Len(q) = SgCap THEN Tail(q) ELSE q, x)

IngestItem(st, x) ==
  LET verdict == SignalVerdict(st, x)
      q == st.kept[x.kind]
  IN  IF verdict # "ok" THEN [st EXCEPT !.diag[verdict] = @ + 1]
      ELSE [st EXCEPT !.kept[x.kind] = PushBounded(q, x),
                      !.diag.recorded = @ + 1,
                      !.diag.evicted = @ + IF Len(q) = SgCap THEN 1 ELSE 0,
                      !.diag.regressions = @ + IF Regressed(q, x) THEN 1 ELSE 0,
                      !.log = Append(@, x)]

\* sort_samples: by time, then by id, which counts up in the order of sending.
Before(x, y) == x.at < y.at \/ (x.at = y.at /\ x.id < y.id)

\* note_external_timestamp_range with what was accepted.
WithRange(span, bounds) ==
  IF bounds = {} THEN span
  ELSE [start |-> Min({span.start} \cup bounds), last |-> Max({span.last} \cup bounds)]

\* ingest: definitions, then events, then counter samples, then the sort; the
\* bounds of the run were read before.
Ingest(b) ==
  /\ sgBatch < SgMaxBatches
  /\ LET sent  == [i \in DOMAIN b.items |-> b.items[i] @@ [id |-> sgDiag.received + i]]
         of(k) == SelectSeq(sent, LAMBDA x : x.kind = k)
         start == [defs |-> sgDefs, kept |-> sgKept, log |-> <<>>,
                   diag |-> [sgDiag EXCEPT !.received = @ + Len(b.items)]]
         end   == FoldLeft(IngestItem, FoldLeft(InsertDefinition, start, b.defs),
                           of("event") \o of("counter"))
     IN  /\ sgDefs' = end.defs
         /\ sgKept' = [k \in Kinds |-> SortSeq(end.kept[k], Before)]
         /\ sgDiag' = end.diag
         /\ sgSpan' = WithRange(sgSpan, {x.at : x \in ToSet(end.log)})
         /\ sgLog' = sgLog \o end.log
         /\ sgBatch' = sgBatch + 1

SgNext == \E b \in SgBatches : Ingest(b)

SgSpec == SgInit /\ [][SgNext]_sgVars

-----------------------------------------------------------------------------
(* Queries *)

InWindow(t, w) == w.from <= t /\ t < w.to

\* events_update: every event in the window is counted, the first ones are listed.
EventsUpdate(w, limit) ==
  LET found == SelectSeq(sgKept["event"], LAMBDA x : InWindow(x.at, w))
      shown == SubSeq(found, 1, Min({Max({limit, 1}), Len(found)}))
  IN  [events |-> shown, total |-> Len(found), truncated |-> Len(found) > Len(shown)]

\* counters_update: one series per pid and set.
SeriesIn(x, w) == SelectSeq(sgKept["counter"], LAMBDA y : SameSeries(x, y) /\ InWindow(y.at, w))

CountersUpdate(x, w) ==
  LET s       == SeriesIn(x, w)
      changes == {i \in 2 .. Len(s) : s[i].v # s[i - 1].v}
  IN  [count  |-> Len(s), first |-> Head(s).v, last |-> Last(s).v,
       min    |-> Min({y.v : y \in ToSet(s)}), max |-> Max({y.v : y \in ToSet(s)}),
       delta  |-> Last(s).v - Head(s).v,
       change |-> IF changes = {} THEN SgNone ELSE s[Max(changes)].at]

\* incident_counters: the last sample before the window, those in it and the first
\* after it; the counter is called unchanged when its first and last value agree.
IncidentCounter(x, w) ==
  LET all    == SeriesIn(x, [from |-> 0, to |-> sgSpan.last + 1])
      inside == SeriesIn(x, w)
      prior  == SelectLastInSeq(all, LAMBDA y : y.at < w.from)
      later  == SelectInSeq(all, LAMBDA y : y.at >= w.to)
      before == IF prior = 0 THEN <<>> ELSE <<all[prior]>>
      after  == IF later = 0 THEN <<>> ELSE <<all[later]>>
      first  == before \o inside
      last   == IF inside # <<>> THEN inside ELSE after
  IN  [before |-> before, samples |-> inside, after |-> after,
       unchanged |-> first # <<>> /\ last # <<>> /\ Head(first).v = (IF inside # <<>> THEN Last(last) ELSE Head(last)).v]

-----------------------------------------------------------------------------
(* Properties *)

Kept == ToSet(sgKept["event"]) \cup ToSet(sgKept["counter"])
LogOf(k) == SelectSeq(sgLog, LAMBDA x : x.kind = k)

\* The items of one kind reached the store in the order of their times.
InOrder(k) == \A i \in 1 .. (Len(LogOf(k)) - 1) : LogOf(k)[i].at <= LogOf(k)[i + 1].at

Windows == {w \in [from : sgSpan.start .. sgSpan.last, to : sgSpan.start .. (sgSpan.last + 1)] : w.from < w.to}

\* One sample of each series.
Series == {x \in ToSet(sgKept["counter"]) :
             ~\E y \in ToSet(sgKept["counter"]) : SameSeries(x, y) /\ Before(y, x)}

\* Every item received is recorded or counted as refused, for one reason; every
\* one recorded is kept or counted as evicted; what is kept fits the definition
\* that was there first, is in the order of time and lies in the bounds of the
\* run, which a batch moves by at most the slop; when nothing came late it is the
\* newest (observability.rs ingest).
SignalsAccounted ==
  /\ sgDiag.received = sgDiag.recorded + sgDiag.unknown + sgDiag.width + sgDiag.tid + sgDiag.time
  /\ sgDiag.recorded = Len(sgLog)
  /\ sgDiag.evicted = Len(sgLog) - Cardinality(Kept)
  /\ Kept \subseteq ToSet(sgLog)
  /\ SgBounds.start - sgSpan.start <= sgBatch * SgSlop
  /\ sgSpan.last - SgBounds.last <= sgBatch * SgSlop
  /\ \A x \in Kept : /\ x.n = sgDefs[<<x.kind, x.set>>]
                     /\ sgSpan.start <= x.at /\ x.at <= sgSpan.last
                     /\ x.tid = SgNone \/ x.src = SgPid
  /\ \A k \in Kinds :
       LET log == LogOf(k)
       IN  /\ \A i, j \in DOMAIN sgKept[k] : i < j => Before(sgKept[k][i], sgKept[k][j])
           /\ Len(sgKept[k]) = Min({SgCap, Len(log)})
           /\ InOrder(k) => ToSet(sgKept[k]) = ToSet(SubSeq(log, Max({1, Len(log) - SgCap + 1}), Len(log)))

\* What a query says about the store is what it holds: a window and the rest of
\* the run split the events and the samples; a cut list says so and keeps the
\* oldest. Of samples that came in the order of time, the regressions counted are
\* the drops of the series, and without one a counter's extremes are its ends,
\* and one called unchanged has one value from before the incident to its last
\* sample inside.
SeriesFaithful ==
  /\ \A w \in Windows, limit \in 0 .. 2 :
       LET u == EventsUpdate(w, limit)
           rest == {x \in ToSet(sgKept["event"]) : ~InWindow(x.at, w)}
       IN  /\ u.total + Cardinality(rest) = Len(sgKept["event"])
           /\ u.truncated <=> u.total > Max({limit, 1})
           /\ \A x \in ToSet(u.events), y \in ToSet(sgKept["event"]) \ rest :
                y \in ToSet(u.events) \/ Before(x, y)
  /\ \A x \in Series :
       LET all   == SeriesIn(x, [from |-> 0, to |-> sgSpan.last + 1])
           drops == {i \in 2 .. Len(all) : all[i].v < all[i - 1].v}
       IN  /\ (InOrder("counter") /\ sgDiag.evicted = 0
               /\ \A y \in ToSet(sgKept["counter"]) : SameSeries(x, y)) =>
                 sgDiag.regressions = Cardinality(drops)
           /\ \A w \in Windows :
                LET in  == SeriesIn(x, w)
                    c   == CountersUpdate(x, w)
                    inc == IncidentCounter(x, w)
                IN  /\ in # <<>> => c.count = Len(in) /\ (drops = {} => c.min = c.first /\ c.max = c.last
                                                            /\ (c.delta = 0 <=> c.change = SgNone))
                    /\ \A y \in ToSet(inc.before) : \A z \in ToSet(all) :
                         z.at < w.from => z = y \/ Before(z, y)
                    /\ (inc.unchanged /\ drops = {}) =>
                         \A y, z \in ToSet(inc.before) \cup ToSet(inc.samples) : y.v = z.v
=============================================================================
