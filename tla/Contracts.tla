----------------------------- MODULE Contracts -----------------------------
(***************************************************************************)
(* Application contracts (stax-live/src/observability.rs): while a run is  *)
(* recorded the target emits events and blocks off the CPU; every query    *)
(* evaluates each contract over what is stored so far (duty windows, raw   *)
(* violations, coalescing) and a client asks for the incident behind a     *)
(* violation it was shown earlier.  Signals reach the store in order but   *)
(* later than the scheduler events that move the end of the run.           *)
(***************************************************************************)
EXTENDS SignalStore

CONSTANTS ContractSet, \* the contracts declared: [id, kind, duty, ...]
          CtIds,       \* correlation ids, each used once
          NoCorr,      \* "no correlation id"
          NoViolation, \* the client has not been shown one
          CtMaxTime,   \* bound: the length of the run
          CtMaxSignals \* bound: signals emitted

VARIABLES ctEnd,    \* last_event_ns of the run, relative to its start
          ctEvents, \* events: set of [kind, at, corr]
          ctOff,    \* off-CPU intervals of the owner thread: [start, end], end 0 = open
          ctShown   \* the violation the client was shown

ctVars == <<ctEnd, ctEvents, ctOff, ctShown>>

Monus(a, b) == IF a > b THEN a - b ELSE 0

-----------------------------------------------------------------------------
(* Duty windows *)

\* Windows that meet are kept apart.
MutantMergeStep(acc, w) == Append(acc, w)

MergeStep(acc, w) ==
  IF acc # <<>> /\ w[1] <= Last(acc)[2]
  THEN Front(acc) \o <<<<Last(acc)[1], Max({Last(acc)[2], w[2]})>>>>
  ELSE Append(acc, w)

\* merge_windows: sort, then fold every window into the last one it meets.
MergeWindows(ws) ==
  FoldLeft(MergeStep, <<>>,
           SetToSortSeq(ws, LAMBDA a, b : a[1] < b[1] \/ (a[1] = b[1] /\ a[2] < b[2])))

DutyWindows(duty) ==
  IF duty.kind = "entire"
  THEN {<<duty.startup, Monus(ctEnd, duty.shutdown)>>}
  ELSE Range(MergeWindows({<<e.at, Min({e.at + duty.within, ctEnd})>> :
                             e \in {x \in ctEvents : x.kind = duty.event}}))

-----------------------------------------------------------------------------
(* Raw violations *)

Raw(from, to, corr, open) ==
  [start |-> from, end |-> to, corr |-> corr, open |-> open, n |-> 1, id |-> <<from, to, corr>>]

\* eval_off_cpu: each interval clipped to each duty window.
EvalOffCpu(c) ==
  LET clip(i, w) == [from |-> Max({i.start, w[1]}),
                     to   |-> Min({IF i.end = 0 THEN ctEnd ELSE i.end, w[2]}),
                     open |-> i.end = 0]
      clips == {clip(i, w) : i \in ctOff, w \in DutyWindows(c.duty)}
  IN  {Raw(x.from, x.to, NoCorr, x.open) : x \in {y \in clips : Monus(y.to, y.from) > c.max}}

\* eval_signal_gap: the stretches between consecutive signals of a duty
\* window, the window's two ends included; the last one is reported open.
EvalSignalGap(c) ==
  LET points(w) == {e.at : e \in {x \in ctEvents : x.kind = c.event /\ x.at >= w[1] /\ x.at <= w[2]}}
      prev(w, p) == Max({w[1]} \cup {q \in points(w) : q < p})
      inner(w) == {Raw(prev(w, p), p, NoCorr, FALSE) :
                     p \in {q \in points(w) : Monus(q, prev(w, q)) > c.max}}
      last(w)  == Max({w[1]} \cup points(w))
      tail(w)  == IF Monus(w[2], last(w)) > c.max THEN {Raw(last(w), w[2], NoCorr, TRUE)} ELSE {}
  IN  UNION {inner(w) \cup tail(w) : w \in DutyWindows(c.duty)}

\* eval_latency: each start event in duty, to its end event or the run's end.
EvalLatency(c) ==
  LET starts  == {x \in ctEvents : x.kind = c.start /\ x.corr # NoCorr
                    /\ \E w \in DutyWindows(c.duty) : x.at >= w[1] /\ x.at <= w[2]}
      ends(s) == {x.at : x \in {y \in ctEvents : y.kind = c.stop /\ y.corr = s.corr}}
      to(s)   == IF ends(s) = {} THEN ctEnd ELSE Max(ends(s))
  IN  {Raw(s.at, to(s), s.corr, ends(s) = {}) : s \in {x \in starts : Monus(to(x), x.at) > c.max}}

RawViolations(c) ==
  CASE c.kind = "off_cpu" -> EvalOffCpu(c)
    [] c.kind = "signal_gap" -> EvalSignalGap(c)
    [] c.kind = "latency" -> EvalLatency(c)

-----------------------------------------------------------------------------
(* Reports *)

\* A violation starting within the threshold of the last one's end joins it.
Joins(last, v, cooldown) == last.corr = v.corr /\ v.start <= last.end + cooldown

Absorbed(last, v) == [last EXCEPT !.end = Max({@, v.end}), !.open = @ \/ v.open, !.n = @ + v.n]

\* Joining renames the violation after the newest one it absorbed.
MutantJoined(last, v) == [Absorbed(last, v) EXCEPT !.id = v.id]

\* The joined violation keeps the identity of its first part.
JoinedViolation(last, v) == Absorbed(last, v)

Coalesce(raw, cooldown) ==
  LET step(acc, v) == IF acc # <<>> /\ Joins(Last(acc), v, cooldown)
                        THEN Front(acc) \o <<JoinedViolation(Last(acc), v)>>
                        ELSE Append(acc, v)
  IN  FoldLeft(step, <<>>, SetToSortSeq(raw, LAMBDA a, b : a.start < b.start))

Violations(c) == Coalesce(RawViolations(c), c.max)

\* incident: the violation is evaluated again and found by its id.
IncidentFor(c, id) == SelectSeq(Violations(c), LAMBDA v : v.id = id)

\* scheduler_evidence: off-CPU intervals that overlap the violation, clipped.
SchedulerEvidence(v) ==
  LET to(i) == IF i.end = 0 THEN ctEnd ELSE i.end
  IN  {<<Max({i.start, v.start}), Min({to(i), v.end})>> :
         i \in {x \in ctOff : x.start < v.end /\ to(x) > v.start}}

-----------------------------------------------------------------------------
CtInit == /\ ctEnd = 0 /\ ctEvents = {} /\ ctOff = {} /\ ctShown = NoViolation

\* A scheduler event or a sample moves the end of the run.
CtAdvance ==
  /\ ctEnd < CtMaxTime
  /\ ctEnd' = ctEnd + 1
  /\ UNCHANGED <<ctEvents, ctOff, ctShown>>

OffOpen == {i \in ctOff : i.end = 0}

\* The owner thread blocks, and comes back (an interval of zero length is not kept).
CtBlock ==
  /\ OffOpen = {} /\ ctEnd > 0 /\ \A i \in ctOff : i.end < ctEnd
  /\ ctOff' = ctOff \cup {[start |-> ctEnd, end |-> 0]}
  /\ UNCHANGED <<ctEnd, ctEvents, ctShown>>

CtUnblock ==
  /\ \E i \in OffOpen : /\ i.start < ctEnd
                        /\ ctOff' = (ctOff \ {i}) \cup {[i EXCEPT !.end = ctEnd]}
  /\ UNCHANGED <<ctEnd, ctEvents, ctShown>>

RequestKinds == UNION {{c.start, c.stop} : c \in {x \in ContractSet : x.kind = "latency"}}

EventKinds ==
  RequestKinds \cup {c.event : c \in {x \in ContractSet : x.kind = "signal_gap"}}
  \cup {c.duty.event : c \in {x \in ContractSet : x.duty.kind = "recent"}}

\* A batch of the target is ingested: stamped no earlier than the signals
\* before it, no later than the end of the run; only requests are correlated.
CtSignal(kind, at, corr) ==
  /\ Cardinality(ctEvents) < CtMaxSignals
  /\ corr # NoCorr <=> kind \in RequestKinds
  /\ \A e \in ctEvents : e.at <= at
  /\ \A e \in ctEvents : ~(e.kind = kind /\ (e.at = at \/ (corr # NoCorr /\ e.corr = corr)))
  /\ ctEvents' = ctEvents \cup {[kind |-> kind, at |-> at, corr |-> corr]}
  /\ UNCHANGED <<ctEnd, ctOff, ctShown>>

\* A client lists the violations and keeps one to open its incident later.
CtList(c) ==
  /\ ctShown = NoViolation
  /\ \E i \in DOMAIN Violations(c) : ctShown' = [contract |-> c, v |-> Violations(c)[i]]
  /\ UNCHANGED <<ctEnd, ctEvents, ctOff>>

CtNext ==
  \/ CtAdvance \/ CtBlock \/ CtUnblock
  \/ \E k \in EventKinds, t \in 0 .. ctEnd, id \in CtIds \cup {NoCorr} : CtSignal(k, t, id)
  \/ \E c \in ContractSet : CtList(c)

CtSpec == CtInit /\ [][CtNext]_ctVars

-----------------------------------------------------------------------------
(* Properties *)

\* Instants (unit slots) that a contract's rule puts in breach: the slot lies
\* on duty, in a stretch with no signal (or off the CPU) longer than allowed.
Quiet(c, a, b) ==
  IF c.kind = "off_cpu"
  THEN \E i \in ctOff : i.start <= a /\ b <= (IF i.end = 0 THEN ctEnd ELSE i.end)
  ELSE ~\E e \in ctEvents : e.kind = c.event /\ a < e.at /\ e.at < b

OnDuty(d, t) ==
  IF d.kind = "entire" THEN d.startup <= t /\ t < ctEnd - d.shutdown
  ELSE t < ctEnd /\ \E e \in ctEvents : e.kind = d.event /\ e.at <= t /\ t < e.at + d.within

InBreach(c, t) ==
  \E a \in 0 .. t, b \in (t + 1) .. ctEnd :
    /\ b - a > c.max /\ Quiet(c, a, b)
    /\ \A x \in a .. (b - 1) : OnDuty(c.duty, x)

\* The violations of a contract cover exactly the instants in breach, up to
\* holes no longer than the cool-down between two breaches it joins, and two
\* reported violations are farther apart than the cool-down; the parts are
\* all counted.
ViolationsExact ==
  \A c \in {x \in ContractSet : x.kind # "latency"} :
    LET list   == Violations(c)
        vs     == Range(list)
        breach == {t \in 0 .. (ctEnd - 1) : InBreach(c, t)}
    IN  /\ \A t \in breach : \E v \in vs : v.start <= t /\ t < v.end
        /\ \A v \in vs : {v.start, v.end - 1} \subseteq breach
        /\ \A v \in vs : \A t \in v.start .. (v.end - 1) :
             \E u \in t .. (t + c.max) : u < v.end /\ u \in breach
        /\ \A v, w \in vs : v # w => v.end + c.max < w.start \/ w.end + c.max < v.start
        /\ FoldLeft(LAMBDA acc, v : acc + v.n, 0, list) = Cardinality(RawViolations(c))

\* What the store reports is what the target sent and the scheduler saw: see the
\* violations above, and the events and counters of SignalStore.
ReportExact == ViolationsExact /\ (sgBatch > 0 => SignalsAccounted /\ SeriesFaithful)

\* A closed violation a client was shown can still be opened: however the run
\* goes on, evaluating the contracts again finds the same id, and it still
\* covers what was shown, with evidence only from inside it.
ClosedStaysFound ==
  (ctShown # NoViolation /\ ~ctShown.v.open) =>
    \E v \in Range(IncidentFor(ctShown.contract, ctShown.v.id)) :
      /\ v.start = ctShown.v.start /\ v.end >= ctShown.v.end
      /\ \A w \in SchedulerEvidence(v) : v.start <= w[1] /\ w[1] < w[2] /\ w[2] <= v.end
=============================================================================
