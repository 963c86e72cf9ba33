---------------------------- MODULE LiveQueries ----------------------------
(***************************************************************************)
(* The aggregator's event log (stax-live/src/aggregator.rs) and the views  *)
(* computed from it on every query (stax-live/src/lib.rs): the flame       *)
(* graph, the top table, callers and callees, the interval, sample, span,  *)
(* thread and waker lists and the timeline; and what the command line      *)
(* makes of them (cli/src/main.rs): windows and stalls.  A stack tree is   *)
(* represented by the time of each of its paths, caller first.             *)
(***************************************************************************)
EXTENDS Naturals, Integers, Sequences, FiniteSets, TLC, SequencesExt, FiniteSetsExt

CONSTANTS LqTid,     \* the sampled thread
          LqLane,    \* the synthetic thread of a target lane
          LqAll,     \* "all threads"
          SymbolOf,  \* address -> symbol the registry resolves it to
          NoSymbol,  \* an address outside every image
          Stacks,    \* sampled stacks, leaf first
          SpanStack, \* the stack of a target span: span, lane, origin
          ReasonOf,  \* symbol of a blocking leaf -> off-CPU reason
          Filters,   \* [from, to, exclude] with to = 0 for "no time range"
          LogCap,    \* MAX_EVENTS_PER_THREAD
          DrillCap,  \* DRILLDOWN_ENTRY_CAP
          WakerCap,  \* wakers listed
          Wakeups,   \* [tid, user, kernel]: a waker and its stacks
          LqMaxTime, LqMaxSamples, LqMaxSpans, LqMaxWakes \* bounds

VARIABLES lqNow,     \* last_event_ns, relative to the session's start
          lqSince,   \* [on, at]: what the sampled thread is doing, since when
          lqSamples, \* pet_samples of the sampled thread: [at, stack]
          lqLog,     \* [tid -> intervals]: [start, end, kind, stack, origin]
          lqWakes,   \* wakeups of the sampled thread, as kept
          lqWoken    \* every wakeup of it so far

lqVars == <<lqNow, lqSince, lqSamples, lqLog>>
wkVars == <<lqWakes, lqWoken>>

LqTids == {LqTid, LqLane}

-----------------------------------------------------------------------------
(* Recording *)

\* A full per-thread queue loses its oldest entry.
Bounded(seq, x) == Append(IF Len(seq) >= LogCap THEN Tail(seq) ELSE seq, x)

LqInit == /\ lqNow = 0 /\ lqSince = [on |-> TRUE, at |-> 0]
          /\ lqSamples = <<>> /\ lqLog = [t \in LqTids |-> <<>>]

\* Time passes between two events.
LqTick == /\ lqNow < LqMaxTime /\ lqNow' = lqNow + 1
          /\ UNCHANGED <<lqSince, lqSamples, lqLog>>

RecordPetSample(stack) ==
  /\ lqSince.on /\ Len(lqSamples) < LqMaxSamples
  /\ \A i \in DOMAIN lqSamples : lqSamples[i].at < lqNow
  /\ lqSamples' = Bounded(lqSamples, [at |-> lqNow, stack |-> stack])
  /\ UNCHANGED <<lqNow, lqSince, lqLog>>

\* The thread leaves or enters a CPU: the interval that ends is recorded,
\* an off-CPU one with the stack it blocked on.
RecordInterval(stack) ==
  /\ lqSince.at < lqNow
  /\ lqLog' = [lqLog EXCEPT ![LqTid] = Bounded(@,
       [start |-> lqSince.at, end |-> lqNow, kind |-> IF lqSince.on THEN "on" ELSE "off",
        stack |-> IF lqSince.on THEN <<>> ELSE stack, origin |-> LqAll])]
  /\ lqSince' = [on |-> ~lqSince.on, at |-> lqNow]
  /\ UNCHANGED <<lqNow, lqSamples>>

\* The target reports a span of its lane, queued by the sampled thread.
RecordSpan(from) ==
  /\ Len(lqLog[LqLane]) < LqMaxSpans /\ from <= lqNow
  /\ lqLog' = [lqLog EXCEPT ![LqLane] = Bounded(@,
       [start |-> from, end |-> lqNow, kind |-> "span", stack |-> SpanStack, origin |-> LqTid])]
  /\ UNCHANGED <<lqNow, lqSince, lqSamples>>

LqNext ==
  \/ LqTick
  \/ \E s \in Stacks : RecordPetSample(s) \/ RecordInterval(s)
  \/ \E from \in 0 .. lqNow : RecordSpan(from)

\* The ledger of wakeups, apart from the rest.
WkInit == lqWakes = <<>> /\ lqWoken = <<>>

RecordWakeup(w) == /\ Len(lqWoken) < LqMaxWakes
                   /\ lqWakes' = Bounded(lqWakes, w) /\ lqWoken' = Append(lqWoken, w)

WkNext == \E w \in Wakeups : RecordWakeup(w)

LqSpec == /\ LqInit /\ WkInit
          /\ [][(LqNext /\ UNCHANGED wkVars) \/ (WkNext /\ UNCHANGED lqVars)]_<<lqVars, wkVars>>

-----------------------------------------------------------------------------
(* aggregate *)

\* make_predicate: the start lies in the time range and no frame is excluded.
Passes(f, at, stack) ==
  /\ f.to # 0 => f.from <= at /\ at < f.to
  /\ \A i \in DOMAIN stack : SymbolOf[stack[i]] \notin f.exclude

\* Which intervals a query about one thread sees: its own, and the spans it queued.
InView(tid, t, i) == tid = LqAll \/ t = tid \/ (i.kind = "span" /\ i.origin = tid)

\* The cursor moves past samples before the interval and never back.
CursorFrom(cursor, start) ==
  Min({k \in cursor .. Len(lqSamples) : lqSamples[k].at >= start} \cup {Len(lqSamples) + 1})

SamplesIn(cursor, end, f) ==
  LET stop == Min({k \in cursor .. Len(lqSamples) : lqSamples[k].at >= end} \cup {Len(lqSamples) + 1})
  IN  SelectSeq(SubSeq(lqSamples, cursor, stop - 1), LAMBDA s : Passes(f, s.at, s.stack))

\* One interval: its time is shared evenly by the samples inside it (the
\* remainder of the division is dropped); a span and an off-CPU interval
\* credit their own stack.
CreditInterval(acc, i, f) ==
  LET span     == i.end - i.start
      from     == IF i.kind = "on" /\ span > 0 THEN CursorFrom(acc.cursor, i.start) ELSE acc.cursor
      matching == SamplesIn(from, i.end, f)
      share    == IF matching = <<>> THEN 0 ELSE span \div Len(matching)
      each     == [k \in DOMAIN matching |-> [stack |-> matching[k].stack, ns |-> share]]
  IN  CASE span = 0 -> acc
        [] i.kind = "on" ->
             IF share = 0 THEN [acc EXCEPT !.cursor = from]
             ELSE [acc EXCEPT !.cursor = from, !.on = @ \o each, !.total = @ + span]
        [] i.kind = "span" /\ Passes(f, i.start, i.stack) ->
             [acc EXCEPT !.on = Append(@, [stack |-> SubSeq(i.stack, 1, Min({2, Len(i.stack)})), ns |-> span]),
                         !.total = @ + span, !.target = @ + span, !.spans = @ + 1]
        [] i.kind = "off" /\ Passes(f, i.start, i.stack) ->
             [acc EXCEPT !.off = Append(@, [stack |-> i.stack, ns |-> span])]
        [] OTHER -> acc

AggregateThread(acc, t, tid, f) ==
  FoldLeft(LAMBDA a, i : IF InView(tid, t, i) THEN CreditInterval(a, i, f) ELSE a,
           [acc EXCEPT !.cursor = 1], lqLog[t])

Aggregate(tid, f) ==
  AggregateThread(AggregateThread([on |-> <<>>, off |-> <<>>, total |-> 0, target |-> 0,
                                   spans |-> 0, cursor |-> 1], LqTid, tid, f), LqLane, tid, f)

SumNs(credits, Test(_)) ==
  FoldLeft(LAMBDA a, c : IF Test(c) THEN a + c.ns ELSE a, 0, credits)

-----------------------------------------------------------------------------
(* Views *)

\* credit_on_cpu_to_tree: every node on the path of a stack, by address.
Path(c) == Reverse(c.stack)
NodePaths(credits) == UNION {{SubSeq(Path(credits[k]), 1, n) : n \in 1 .. Len(credits[k].stack)} :
                               k \in DOMAIN credits}
NodeNs(credits, p) == SumNs(credits, LAMBDA c : IsPrefix(p, Path(c)))

\* by_address: a leaf's own time.
SelfNs(credits, a) == SumNs(credits, LAMBDA c : c.stack # <<>> /\ c.stack[1] = a)

\* group_top_entries: the addresses of one function are added up.
TopSelf(credits, sym) ==
  MapThenSumSet(LAMBDA a : SelfNs(credits, a), {a \in DOMAIN SymbolOf : SymbolOf[a] = sym})

\* build_children: siblings of one symbol are one node, level by level.
Symbols(p) == [k \in DOMAIN p |-> SymbolOf[p[k]]]
SymTree(credits) ==
  LET paths == NodePaths(credits)
      ns    == [p \in paths |-> NodeNs(credits, p)]
  IN  [sp \in {Symbols(p) : p \in paths} |->
         MapThenSumSet(LAMBDA p : ns[p], {p \in paths : Symbols(p) = sp})]

\* fold_recursion: a child with its parent's symbol is spliced out.
Folded(sp) == /\ Len(sp) > 1 /\ sp[Len(sp)] = sp[Len(sp) - 1] /\ sp[Len(sp)] # NoSymbol
FlameNodes(tree) == {sp \in DOMAIN tree : ~Folded(sp)}

\* The children of a spliced-out child are lost.
MutantBeneath(sp, cp) == Len(cp) = Len(sp) + 1 /\ IsPrefix(sp, cp)

Beneath(sp, cp) == /\ Len(sp) < Len(cp) /\ IsPrefix(sp, cp)
                   /\ \A n \in (Len(sp) + 1) .. (Len(cp) - 1) : Folded(SubSeq(cp, 1, n))
FlameSelf(tree, sp) ==
  tree[sp] - MapThenSumSet(LAMBDA cp : tree[cp], {cp \in FlameNodes(tree) : Beneath(sp, cp)})

\* compute_neighbors_update: the paths that end in the symbol, what is under
\* them, and what they are called from.
OwnPaths(credits, sym) == {p \in NodePaths(credits) : SymbolOf[p[Len(p)]] = sym}
OwnNs(credits, sym) == MapThenSumSet(LAMBDA p : NodeNs(credits, p), OwnPaths(credits, sym))
CalleesNs(credits, sym) ==
  MapThenSumSet(LAMBDA p : NodeNs(credits, p), {p \in NodePaths(credits) :
                  Len(p) > 1 /\ Front(p) \in OwnPaths(credits, sym)})
CallersNs(credits, sym) ==
  MapThenSumSet(LAMBDA p : NodeNs(credits, p), {p \in OwnPaths(credits, sym) : Len(p) > 1})

\* build_intervals_update: closed off-CPU intervals that start in the range;
\* excluded symbols are not looked at.
IntervalsListed(tid, f) ==
  SelectSeq(IF tid \in {LqTid, LqAll} THEN lqLog[LqTid] ELSE <<>>,
            LAMBDA i : i.kind = "off" /\ (f.to # 0 => f.from <= i.start /\ i.start < f.to) /\ i.end > i.start)

\* The entries of a list: the first DrillCap met, newest first; the totals next
\* to them count everything.
Newest(seq, At(_)) == SortSeq(SubSeq(seq, 1, Min({DrillCap, Len(seq)})), LAMBDA x, y : At(x) > At(y))

\* build_pet_samples_update, build_target_spans_update
SamplesListed(tid, f) ==
  SelectSeq(IF tid \in {LqTid, LqAll} THEN lqSamples ELSE <<>>,
            LAMBDA s : f.to # 0 => f.from <= s.at /\ s.at < f.to)
SpansListed(tid, f) ==
  LET seen(t) == SelectSeq(lqLog[t], LAMBDA i : i.kind = "span" /\ InView(tid, t, i)
                                       /\ Passes(f, i.start, i.stack) /\ i.end > i.start)
  IN  seen(LqTid) \o seen(LqLane)

\* The spans grouped by what they are and who queued them, and one group.
SpanKeys(spans) == {<<spans[k].stack, spans[k].origin>> : k \in DOMAIN spans}
SpanGroup(spans, key) ==
  LET own  == SelectSeq(spans, LAMBDA i : <<i.stack, i.origin>> = key)
      each == {own[k].end - own[k].start : k \in DOMAIN own}
  IN  [count |-> Len(own), max |-> Max(each), last |-> Max({own[k].start : k \in DOMAIN own}),
       total |-> FoldLeft(LAMBDA a, i : a + (i.end - i.start), 0, own)]

\* build_threads_update: the threads with events, the busiest first.
AllTime == [from |-> 0, to |-> 0, exclude |-> {}]
ThreadInfo(t) ==
  LET agg == Aggregate(t, AllTime)
  IN  [tid |-> t, on |-> agg.total, target |-> agg.target, spans |-> agg.spans,
       off |-> SumNs(agg.off, LAMBDA c : TRUE),
       samples |-> IF t = LqTid THEN Len(lqSamples) ELSE 0]
ThreadBefore(a, b) ==
  LET key(x) == <<x.on + x.off, x.samples>>
  IN  \/ key(a)[1] > key(b)[1]
      \/ key(a)[1] = key(b)[1] /\ key(a)[2] > key(b)[2]
      \/ key(a) = key(b) /\ a.tid < b.tid
Threads ==
  SetToSortSeq({ThreadInfo(t) : t \in {t \in LqTids : lqLog[t] # <<>> \/ (t = LqTid /\ lqSamples # <<>>)}},
               ThreadBefore)

\* top_wakers: wakeups by waker and the leaf it woke from, the most frequent
\* first, cut at the limit. Groups with equal counts come in any order.
WakerLeaf(w) == IF w.user # <<>> THEN w.user[1] ELSE IF w.kernel # <<>> THEN w.kernel[1] ELSE 0
WakerGroups == {<<lqWakes[k].tid, WakerLeaf(lqWakes[k])>> : k \in DOMAIN lqWakes}
WakerCount(g) == Len(SelectSeq(lqWakes, LAMBDA w : <<w.tid, WakerLeaf(w)>> = g))
TopWakers == {SubSeq(s, 1, Min({WakerCap, Len(s)})) : s \in
                {s \in SetToSeqs(WakerGroups) :
                   \A k \in 1 .. (Len(s) - 1) : WakerCount(s[k]) >= WakerCount(s[k + 1])}}

\* build_wakers_update: total_wakeups is the sum over the wakers listed.
TotalWakeups(top) == FoldLeft(LAMBDA a, g : a + WakerCount(g), 0, top)

\* A bucket an interval touches counts as full.
MutantShare(i, w, size, b) ==
  LET hi == Min({(b + 1) * size, i.end - w.from})
      lo == Max({b * size, IF i.start > w.from THEN i.start - w.from ELSE 0})
  IN  IF i.end > w.from /\ hi > lo THEN size ELSE 0

\* build_timeline_update: the part of an interval that falls in one bucket.
NBuckets(w, size) == ((w.to - w.from) \div size) + 1
Share(i, w, size, b) ==
  LET lo == Max({b * size, IF i.start > w.from THEN i.start - w.from ELSE 0})
      hi == Min({(b + 1) * size, i.end - w.from})
  IN  IF i.end > w.from /\ hi > lo THEN hi - lo ELSE 0

\* The off-CPU time of a bucket, by reason of the blocking leaf.
BucketNs(tid, w, size, b, kinds) ==
  MapThenSumSet(LAMBDA t : FoldLeft(LAMBDA a, i : a + Share(i, w, size, b), 0,
                  SelectSeq(lqLog[t], LAMBDA i : InView(tid, t, i) /\ i.kind \in kinds)), LqTids)

Reason(stack) == IF stack = <<>> THEN "other" ELSE ReasonOf[SymbolOf[stack[1]]]

BucketReason(w, size, b, r) ==
  FoldLeft(LAMBDA a, i : a + Share(i, w, size, b), 0,
           SelectSeq(lqLog[LqTid], LAMBDA i : i.kind = "off" /\ Reason(i.stack) = r))

\* classify, summed over the off-CPU credits of a query.
OffByReason(tid, f, r) == SumNs(Aggregate(tid, f).off, LAMBDA c : Reason(c.stack) = r)

-----------------------------------------------------------------------------
(* Windows and stalls, on the command line *)

BadWindow == [from |-> 1, to |-> 0]

\* A bound is absent, a duration, a marker's label or a wall-clock time.
Bound(kind, v) == [kind |-> kind, v |-> v]

\* find_marker: the last marker of that label.
MarkerAt(markers, label) ==
  markers[SelectLastInSeq(markers, LAMBDA m : m.label = label)].at

Ordered(w) == IF w.to <= w.from THEN BadWindow ELSE w

\* resolve_video_window: `started` is the wall-clock time of the start; no other
\* kind of bound goes with it.
VideoWindow(spec, started, duration) ==
  LET at(b, open) == IF b.kind = "open" THEN open
                     ELSE IF b.kind = "video" /\ b.v >= started THEN b.v - started ELSE -1
      w == [from |-> at(spec.a, 0), to |-> at(spec.b, duration)]
  IN  IF w.from < 0 \/ w.to < 0 THEN BadWindow ELSE Ordered(w)

\* resolve_marker_window: labels and offsets; an unknown label is refused, an end
\* before the start is not.
MarkerWindow(spec, markers, duration) ==
  LET at(b, open) == CASE b.kind = "open" -> open
                       [] b.kind = "for"  -> b.v
                       [] OTHER -> MarkerAt(markers, b.v)
      labels == {b.v : b \in {x \in {spec.a, spec.b} : x.kind = "marker"}}
  IN  IF labels \subseteq {markers[k].label : k \in DOMAIN markers}
      THEN [from |-> at(spec.a, 0), to |-> at(spec.b, duration)] ELSE BadWindow

\* WindowArgs::resolve: a single length counts from the end, a slice from the start.
PlainWindow(spec, duration) ==
  LET slice == MarkerWindow(spec, <<>>, duration)
  IN  IF ~spec.dots THEN [from |-> Max({0, duration - spec.a.v}), to |-> duration]
      ELSE IF spec.b.kind = "open" THEN slice ELSE Ordered(slice)

\* resolve_window: one kind of bound decides how the other is read. An open end is
\* the recording's duration at the time of the question.
ResolveWindow(spec, markers, started, duration) ==
  LET kinds == {spec.a.kind, spec.b.kind}
  IN  IF "video" \in kinds THEN VideoWindow(spec, started, duration)
      ELSE IF "marker" \in kinds THEN MarkerWindow(spec, markers, duration)
      ELSE PlainWindow(spec, duration)

\* detect_stalls over the on-CPU time of the buckets: nothing without a median;
\* consecutive buckets at or below half of it are one window.
StallWindows(on) ==
  LET median  == SortSeq(on, <)[(Len(on) \div 2) + 1]
      low(b)  == on[b] <= median \div 2
      step(acc, b) ==
        CASE low(b) /\ acc.first = 0  -> [acc EXCEPT !.first = b, !.ns = on[b]]
          [] low(b) /\ acc.first # 0  -> [acc EXCEPT !.ns = @ + on[b]]
          [] ~low(b) /\ acc.first = 0 -> acc
          [] OTHER -> [first |-> 0, ns |-> 0,
                       out |-> Append(acc.out, [first |-> acc.first, last |-> b - 1, ns |-> acc.ns])]
      end == FoldLeft(step, [first |-> 0, ns |-> 0, out |-> <<>>], [b \in DOMAIN on |-> b])
  IN  IF median = 0 THEN <<>>
      ELSE IF end.first = 0 THEN end.out
      ELSE Append(end.out, [first |-> end.first, last |-> Len(on), ns |-> end.ns])

\* The windows that last long enough, the longest first.
Stalls(on, size, least) ==
  LET span(s) == (s.last - s.first + 1) * size
  IN  SortSeq(SelectSeq(StallWindows(on), LAMBDA s : span(s) >= least),
              LAMBDA s, t : span(s) > span(t))

\* run_stalls: the window printed for a stall, and its off-CPU time by reason.
StallRange(s, w, size) == [from |-> w.from + (s.first - 1) * size, to |-> w.from + s.last * size]
StallReason(s, w, size, r) ==
  MapThenSumSet(LAMBDA b : BucketReason(w, size, b - 1, r), s.first .. s.last)

-----------------------------------------------------------------------------
(* Properties *)

Queries == {LqAll, LqTid, LqLane}

\* The flame graph and the top table tell the same story. For every thread
\* and filter, the self time of a function in the folded flame graph, added
\* over its nodes, is the self time the top table gives it; no node has less
\* time than its children; and the nodes under the root hold the total, up to
\* what the even split rounds off and the samples without a stack.
FlameAgreesWithTop ==
  lqNow > 0 => \A tid \in Queries, f \in Filters :
    LET agg   == Aggregate(tid, f)
        tree  == SymTree(agg.on)
        nodes == FlameNodes(tree)
        own   == [sp \in nodes |-> FlameSelf(tree, sp)]
        top   == MapThenSumSet(LAMBDA sp : tree[sp], {sp \in nodes : Len(sp) = 1})
    IN  /\ \A sp \in nodes : own[sp] >= 0
        /\ \A s \in {SymbolOf[a] : a \in DOMAIN SymbolOf} :
             MapThenSumSet(LAMBDA sp : own[sp], {sp \in nodes : sp[Len(sp)] = s})
               = TopSelf(agg.on, s)
        /\ top <= agg.total
        /\ agg.total - top <= Len(agg.on)
             + SumNs(agg.on, LAMBDA c : c.stack = <<>>)
        /\ \A s \in {SymbolOf[a] : a \in DOMAIN SymbolOf} :
             /\ CalleesNs(agg.on, s) <= OwnNs(agg.on, s)
             /\ CallersNs(agg.on, s) <= OwnNs(agg.on, s)

Length(i) == i.end - i.start
TotalNs(seq) == FoldLeft(LAMBDA a, i : a + Length(i), 0, seq)

\* Over any window and bucket width the buckets hold each interval's time
\* once: a bucket never holds more of a thread's time than its width, the
\* buckets of the whole run add up to what the interval list and the flame
\* graph's off-CPU side report, reason by reason.
TimelineAddsUp ==
  \A size \in 1 .. 3 :
    /\ \A from \in 0 .. lqNow : \A to \in from .. lqNow :
         \A b \in 0 .. (NBuckets([from |-> from, to |-> to], size) - 1) :
           BucketNs(LqTid, [from |-> from, to |-> to], size, b, {"on", "off"}) <= size
    /\ LET whole   == [from |-> 0, to |-> lqNow]
           buckets == 0 .. (NBuckets(whole, size) - 1)
       IN  /\ MapThenSumSet(LAMBDA b : BucketNs(LqTid, whole, size, b, {"off"}), buckets)
                = TotalNs(IntervalsListed(LqTid, AllTime))
           /\ \A r \in {ReasonOf[s] : s \in DOMAIN ReasonOf} :
                MapThenSumSet(LAMBDA b : BucketReason(whole, size, b, r), buckets)
                  = OffByReason(LqTid, AllTime, r)
           /\ \A f \in {x \in Filters : x.exclude = {}} :
                TotalNs(IntervalsListed(LqTid, f)) = SumNs(Aggregate(LqTid, f).off, LAMBDA c : TRUE)

\* The lists agree with the aggregation: the spans listed, and their groups, are
\* the target time of the flame graph; the threads' own time adds up to that of
\* all threads, a span being the lane's and its queuer's; and a list that is cut
\* shows older entries than it leaves out, whatever its order.
ListsAddUp ==
  /\ \A tid \in Queries, f \in Filters :
       LET agg    == Aggregate(tid, f)
           spans  == SpansListed(tid, f)
           groups == {<<k, SpanGroup(spans, k)>> : k \in SpanKeys(spans)}
           listed == SamplesListed(tid, f)
           shown  == Newest(listed, LAMBDA s : s.at)
       IN  /\ agg.spans = Len(spans) /\ agg.target = TotalNs(spans)
           /\ MapThenSumSet(LAMBDA g : g[2].total, groups) = agg.target
           /\ MapThenSumSet(LAMBDA g : g[2].count, groups) = agg.spans
           /\ \A g \in groups : g[2].max <= g[2].total /\ g[2].total <= g[2].count * g[2].max
           /\ Len(shown) = Min({DrillCap, Len(listed)})
           /\ \A x \in ToSet(shown), y \in ToSet(listed) \ ToSet(shown) : x.at < y.at
  /\ LET all == Aggregate(LqAll, AllTime)
         each == ToSet(Threads)
     IN  /\ MapThenSumSet(LAMBDA t : t.on - t.target, each) = all.total - all.target
         /\ MapThenSumSet(LAMBDA t : t.off, each) = SumNs(all.off, LAMBDA c : TRUE)
         /\ \A t \in each : t.tid = LqLane => t.target = all.target /\ t.spans = all.spans

\* The stalls of the whole run are the longest stretches of buckets that have at
\* most half of the median bucket's on-CPU time, each stretch once, with all of
\* its time, the longest first; the window printed for one is the time its
\* buckets cover, and its off-CPU reasons are the blocking in that window.
StallsMaximal ==
  \A size \in 1 .. 2 :
    LET whole  == [from |-> 0, to |-> lqNow]
        n      == NBuckets(whole, size)
        on     == [b \in 1 .. n |-> BucketNs(LqAll, whole, size, b - 1, {"on", "span"})]
        median == CHOOSE m \in {on[b] : b \in 1 .. n} :
                    /\ 2 * Cardinality({b \in 1 .. n : on[b] < m}) <= n
                    /\ 2 * Cardinality({b \in 1 .. n : on[b] > m}) < n
        low(b) == b \in 1 .. n /\ on[b] <= median \div 2
        runs   == {<<i, j>> \in (1 .. n) \X (1 .. n) :
                     i <= j /\ (\A b \in i .. j : low(b)) /\ ~low(i - 1) /\ ~low(j + 1)}
        found  == Stalls(on, size, size + 1)
    IN  /\ {<<s.first, s.last>> : s \in ToSet(found)}
             = {r \in runs : median > 0 /\ (r[2] - r[1] + 1) * size > size}
        /\ \A s \in ToSet(found) : s.ns = MapThenSumSet(LAMBDA b : on[b], s.first .. s.last)
        /\ \A s \in ToSet(found), r \in {ReasonOf[x] : x \in DOMAIN ReasonOf} :
             LET w == StallRange(s, whole, size)
                 within(i) == Max({0, Min({i.end, w.to}) - Max({i.start, w.from})})
             IN  StallReason(s, whole, size, r)
                   = FoldLeft(LAMBDA a, i : a + within(i), 0,
                       SelectSeq(IntervalsListed(LqAll, AllTime), LAMBDA i : Reason(i.stack) = r))
        /\ \A k \in 1 .. (Len(found) - 1) :
             found[k].last - found[k].first >= found[k + 1].last - found[k + 1].first

\* An instant means the same in every notation (a marker set twice, an offset, a
\* trailing length, a wall-clock time), and a window up to it and one from it on
\* split the recording: each off-CPU interval is in one of them, and each sample
\* but those at the latest time, which no window reaches.
WindowsSplit ==
  \A x \in 1 .. (lqNow - 1) : \A y \in 0 .. x :
    LET markers == <<[label |-> "m", at |-> y], [label |-> "m", at |-> x]>>
        open    == Bound("open", 0)
        started == 7
        window(dots, a, b) == ResolveWindow([dots |-> dots, a |-> a, b |-> b], markers, started, lqNow)
        before  == window(TRUE, open, Bound("marker", "m")) @@ [exclude |-> {}]
        after   == window(TRUE, Bound("marker", "m"), open) @@ [exclude |-> {}]
        count(f) == Len(IntervalsListed(LqAll, f))
        hits(f)  == Len(SamplesListed(LqAll, f))
    IN  /\ \A w \in {window(TRUE, Bound("for", x), open), window(FALSE, Bound("for", lqNow - x), open),
                     window(TRUE, Bound("video", started + x), open)} : w = [from |-> after.from, to |-> after.to]
        /\ window(TRUE, Bound("video", started + x), Bound("video", started + y)) = BadWindow
        /\ window(TRUE, Bound("video", started - 1), open) = BadWindow
        /\ window(FALSE, Bound("marker", "other"), open) = BadWindow
        /\ count(before) + count(after) = count(AllTime)
        /\ hits(before) + hits(after)
             = hits(AllTime) - Len(SelectSeq(lqSamples, LAMBDA s : s.at = lqNow))

\* The wakers of a thread are those of its newest wakeups: the listed ones are
\* the most frequent, and the total beside them is short of the ledger by
\* exactly the wakers that were cut.
WakersCounted ==
  \A top \in TopWakers :
    LET kept == SubSeq(lqWoken, Max({1, Len(lqWoken) - LogCap + 1}), Len(lqWoken))
        of(g) == Len(SelectSeq(kept, LAMBDA w : <<w.tid, WakerLeaf(w)>> = g))
        cut  == WakerGroups \ ToSet(top)
    IN  /\ \A g \in ToSet(top), h \in cut : of(g) >= of(h)
        /\ TotalWakeups(top) + MapThenSumSet(of, cut) = Len(kept)

\* What a query, a list or a command says about a run is what its events say,
\* and no two of them disagree: see the five parts above.
ViewsExact ==
  /\ WakersCounted
  /\ lqNow > 0 => TimelineAddsUp /\ ListsAddUp /\ StallsMaximal /\ WindowsSplit
=============================================================================
