---------------------------- MODULE TargetIngest ----------------------------
(***************************************************************************)
(* The server's half of target reporting: the TargetIngest handlers of     *)
(* stax-server/src/target_ingest.rs and the stores they fill, next to the  *)
(* run changes that replace those stores (stax-server/src/main.rs).        *)
(*                                                                         *)
(* A handler is a call slot.  It runs on the server's thread pool and its  *)
(* grain is one lock section, so several handlers and a begin_run may      *)
(* interleave.  begin_run holds the lock of Inner while it resets the      *)
(* stores one by one; active_target_pid waits for that lock.               *)
(*                                                                         *)
(*   run      the active run's id and target pid (0: none yet)             *)
(*   agg      the aggregator: whose run it is, the synthetic spans and the *)
(*            names of the synthetic threads                               *)
(*   bin      the symbols of the "<target spans>" binary, by address       *)
(*   lanes    TargetLaneRegistry; tids and symbol addresses are positions  *)
(*            in the order of first sight                                  *)
(*   obs      ObservabilityStore, as far as ingest writes it               *)
(***************************************************************************)
EXTENDS Naturals, Sequences, FiniteSets, SequencesExt

CONSTANTS Targets,         \* the pid each run comes to record, a sequence
          Slots,           \* calls the server may be serving at a time
          MaxEvents,       \* MAX_EVENTS
          Outcomes,        \* how lookups of an origin's stack end in this instance
          BeginMidIngest   \* FALSE: no run begins while a handler is at work

\* The server serves finitely many calls at a time and its stores hold something.
ASSUME SlotsAssumption == IsFiniteSet(Slots)
ASSUME MaxEventsAssumption == MaxEvents \in Nat \ {0}

\* OriginLinkCounters: how the lookup of an origin's stack may end.
LinkResults == {"linked", "invalid_tid", "no_thread", "no_stack", "too_far"}
ASSUME OutcomesAssumption == Outcomes \subseteq LinkResults

VARIABLES run, begun, agg, bin, lanes, obs, call

server == <<run, begun, agg, bin, lanes, obs>>

NoLanes == [tids |-> <<>>, syms |-> <<>>, noRun |-> 0, wrongPid |-> 0,
            received |-> 0, recorded |-> 0, bad |-> 0, withOrigin |-> 0,
            links |-> [o \in LinkResults |-> 0], stats |-> 0]

NoAgg(r) == [run |-> r, spans |-> <<>>, names |-> <<>>]

NoObs == [kinds |-> {}, events |-> <<>>, received |-> 0, recorded |-> 0,
          unknown |-> 0, evicted |-> 0, noRun |-> 0, wrongPid |-> 0]

NoCall == [pc |-> "free", msg |-> [t |-> "none"], pid |-> 0, tid |-> 0,
           addr |-> <<>>, list |-> <<>>, key |-> <<>>, link |-> "none"]

IngestInit ==
  /\ run = [id |-> 0, pid |-> 0]
  /\ begun = "idle"
  /\ agg = NoAgg(0)
  /\ bin = <<>>
  /\ lanes = NoLanes
  /\ obs = NoObs
  /\ call = [s \in Slots |-> NoCall]

Busy(s) == call[s].pc \notin {"free", "sent", "done"}
ServerIdle == begun = "idle" /\ \A s \in Slots : ~Busy(s)

----------------------------------------------------------------------------
(* Run changes *)

\* begin_run takes the slot and resets the stores, in this order.
BeginRun ==
  /\ run.id = 0 /\ begun = "idle"
  /\ agg.run < Len(Targets)
  /\ BeginMidIngest \/ \A s \in Slots : ~Busy(s)
  /\ run' = [id |-> agg.run + 1, pid |-> 0]
  /\ agg' = NoAgg(agg.run + 1)
  /\ begun' = "bins"
  /\ UNCHANGED <<bin, lanes, obs, call>>

ResetStores ==
  \/ /\ begun = "bins" /\ begun' = "obs" /\ bin' = <<>>
     /\ UNCHANGED <<lanes, obs>>
  \/ /\ begun = "obs" /\ begun' = "lanes" /\ obs' = NoObs
     /\ UNCHANGED <<lanes, bin>>
  \/ /\ begun = "lanes" /\ begun' = "idle" /\ lanes' = NoLanes
     /\ UNCHANGED <<obs, bin>>

BeginReset == ResetStores /\ UNCHANGED <<run, agg, call>>

\* target_attached: the recorder publishes the pid it records.
TargetAttached ==
  /\ begun = "idle" /\ run.id # 0 /\ run.pid = 0
  /\ run' = [run EXCEPT !.pid = Targets[run.id]]
  /\ UNCHANGED <<begun, agg, bin, lanes, obs, call>>

\* finalize_run empties the slot; the stores stay for queries.
FinalizeRun ==
  /\ begun = "idle" /\ run.id # 0
  /\ run' = [id |-> 0, pid |-> 0]
  /\ UNCHANGED <<begun, agg, bin, lanes, obs, call>>

----------------------------------------------------------------------------
(* The handlers *)

Step(s, pc) == call' = [call EXCEPT ![s].pc = pc]
Finish(s) == Step(s, "done")

MutantAnyPid(s) == run.pid # 0

\* active_target_pid() == Some(batch.pid)
ForActiveTarget(s) == run.pid # 0 /\ run.pid = call[s].pid

\* ingest, first section: a batch that is not for the active run's target is
\* counted and dropped.
IngestCheck(s) ==
  /\ call[s].pc = "sent" /\ call[s].msg.t = "spans" /\ begun = "idle"
  /\ IF ForActiveTarget(s)
     THEN Step(s, "tid") /\ UNCHANGED lanes
     ELSE /\ Finish(s)
          /\ lanes' = IF run.pid = 0 THEN [lanes EXCEPT !.noRun = @ + 1]
                      ELSE [lanes EXCEPT !.wrongPid = @ + 1]
  /\ UNCHANGED <<run, begun, agg, bin, obs>>

\* The position of a (pid, lane) among the lanes seen, 0 when it is new.
LaneIndex(seq, key) == SelectInSeq(seq, LAMBDA k : k = key)

\* lane_tid, registry section: a lane's tid is its rank of first sight.
LaneTid(s) ==
  LET key == <<call[s].pid, call[s].msg.lane>>
      at == LaneIndex(lanes.tids, key)
      tids == IF at = 0 THEN Append(lanes.tids, key) ELSE lanes.tids
  IN /\ call[s].pc = "tid"
     /\ lanes' = [lanes EXCEPT !.tids = tids]
     /\ call' = [call EXCEPT ![s].pc = "name",
                             ![s].tid = IF at = 0 THEN Len(tids) ELSE at]
     /\ UNCHANGED <<run, begun, agg, bin, obs>>

\* Aggregator::set_thread_name, a map insert.
NameThread(names, tid, lane) ==
  [t \in DOMAIN names \cup {tid} |-> IF t = tid THEN lane ELSE names[t]]

\* lane_tid, aggregator section: the name is set again on every batch.
SetThreadName(s) ==
  /\ call[s].pc = "name"
  /\ agg' = [agg EXCEPT !.names = NameThread(@, call[s].tid, call[s].msg.lane)]
  /\ call' = [call EXCEPT ![s].pc = "sym", ![s].key = <<"lane", call[s].msg.lane>>]
  /\ UNCHANGED <<run, begun, bin, lanes, obs>>

\* Where the handler goes once symbol `key` has an address: a lane's is
\* followed by the span's unless its duration is not positive.
AfterSymbol(s, key) ==
  IF key[1] = "lane" /\ call[s].msg.dur > 0
  THEN [pc |-> "sym", key |-> <<"span", call[s].msg.name>>]
  ELSE [pc |-> "write", key |-> <<>>]

MutantPerKind(at, syms) ==
  IF at = 0 THEN Len(SelectSeq(syms, LAMBDA k : k[1] = Last(syms)[1])) ELSE at

\* The address of a symbol: its rank of first sight.
AddrOf(at, syms) == IF at = 0 THEN Len(syms) ELSE at

\* symbol_addr, registry section: a known symbol needs nothing more; a new one
\* is registered and the whole list copied for the binary.
SymbolAddr(s) ==
  LET key == call[s].key
      at == SelectInSeq(lanes.syms, LAMBDA k : k = key)
      syms == IF at = 0 THEN Append(lanes.syms, key) ELSE lanes.syms
      next == AfterSymbol(s, key)
  IN /\ call[s].pc = "sym"
     /\ lanes' = [lanes EXCEPT !.syms = syms]
     /\ call' = [call EXCEPT ![s].addr = Append(@, AddrOf(at, syms)),
                             ![s].list = IF at = 0 THEN syms ELSE <<>>,
                             ![s].pc = IF at = 0 THEN "publish" ELSE next.pc,
                             ![s].key = IF at = 0 THEN key ELSE next.key]
     /\ UNCHANGED <<run, begun, agg, bin, obs>>

\* symbol_addr, after the registry's lock is dropped: BinaryRegistry::insert
\* replaces the synthetic binary by the list copied above.
PublishSymbols(s) ==
  LET next == AfterSymbol(s, call[s].key)
  IN /\ call[s].pc = "publish"
     /\ bin' = call[s].list
     /\ call' = [call EXCEPT ![s].pc = next.pc, ![s].key = next.key,
                             ![s].list = <<>>]
     /\ UNCHANGED <<run, begun, agg, lanes, obs>>

\* What looking up the origin's stack may answer.
LinkOutcome(s) == IF call[s].msg.origin THEN Outcomes ELSE {"none"}

\* The section under the aggregator's lock: one sample and one interval per
\* span of positive duration, with the borrowed stack when there is one.
WriteSpans(s) ==
  /\ call[s].pc = "write"
  /\ \E o \in IF call[s].msg.dur > 0 THEN LinkOutcome(s) ELSE {"none"} :
       call' = [call EXCEPT ![s].pc = "count", ![s].link = o]
  /\ agg' = IF call[s].msg.dur = 0 THEN agg
            ELSE [agg EXCEPT !.spans = Append(@,
                   [pid |-> call[s].pid, lane |-> call[s].msg.lane,
                    tid |-> call[s].tid, name |-> call[s].msg.name,
                    laneAddr |-> call[s].addr[1], addr |-> call[s].addr[2]])]
  /\ UNCHANGED <<run, begun, bin, lanes, obs>>

\* OriginLinkCounters::add
CountLink(links, o) == IF o = "none" THEN links ELSE [links EXCEPT ![o] = @ + 1]

MutantRecordedAll(s) == 1

\* recorded_spans: the events that survived the duration check.
RecordedSpans(s) == IF call[s].msg.dur > 0 THEN 1 ELSE 0

\* record_batch, the last section of ingest.
RecordBatch(s) ==
  /\ call[s].pc = "count"
  /\ lanes' = [lanes EXCEPT !.received = @ + 1,
                 !.recorded = @ + RecordedSpans(s),
                 !.bad = @ + (1 - RecordedSpans(s)),
                 !.withOrigin = @ + (IF call[s].link = "none" THEN 0 ELSE 1),
                 !.links = CountLink(@, call[s].link)]
  /\ Finish(s)
  /\ UNCHANGED <<run, begun, agg, bin, obs>>

IngestSpans(s) ==
  IngestCheck(s) \/ LaneTid(s) \/ SetThreadName(s) \/ SymbolAddr(s)
  \/ PublishSymbols(s) \/ WriteSpans(s) \/ RecordBatch(s)

----------------------------------------------------------------------------
(* ingest_signals, reporter_stats, should_report *)

SignalsCheck(s) ==
  /\ call[s].pc = "sent" /\ call[s].msg.t = "signals" /\ begun = "idle"
  /\ IF ForActiveTarget(s)
     THEN Step(s, "store") /\ UNCHANGED obs
     ELSE /\ Finish(s)
          /\ obs' = IF run.pid = 0 THEN [obs EXCEPT !.noRun = @ + 1]
                    ELSE [obs EXCEPT !.wrongPid = @ + 1]
  /\ UNCHANGED <<run, begun, agg, bin, lanes>>

\* push_bounded: a full store evicts its oldest entry.
PushBounded(q, e) == Append(IF Len(q) = MaxEvents THEN Tail(q) ELSE q, e)

\* ObservabilityStore::ingest of the definitions and at most one event.
StoreSignals(o, m) ==
  LET kinds == o.kinds \cup m.defs
      known == m.event \in kinds
  IN IF m.event = "none" THEN [o EXCEPT !.kinds = kinds]
     ELSE [o EXCEPT !.kinds = kinds, !.received = @ + 1,
             !.unknown = @ + (IF known THEN 0 ELSE 1),
             !.recorded = @ + (IF known THEN 1 ELSE 0),
             !.evicted = @ + (IF known /\ Len(o.events) = MaxEvents THEN 1 ELSE 0),
             !.events = IF known THEN PushBounded(@, m.event) ELSE @]

IngestSignals(s) ==
  \/ SignalsCheck(s)
  \/ /\ call[s].pc = "store"
     /\ obs' = StoreSignals(obs, call[s].msg)
     /\ Finish(s)
     /\ UNCHANGED <<run, begun, agg, bin, lanes>>

\* reporter_stats: checked, then recorded under the registry's lock.
ReporterStats(s) ==
  \/ /\ call[s].pc = "sent" /\ call[s].msg.t = "stats" /\ begun = "idle"
     /\ Step(s, IF ForActiveTarget(s) THEN "stats" ELSE "done")
     /\ UNCHANGED lanes
  \/ /\ call[s].pc = "stats"
     /\ lanes' = [lanes EXCEPT !.stats = call[s].msg.dropped]
     /\ Finish(s)

ShouldReport(s) ==
  /\ call[s].pc = "sent" /\ call[s].msg.t = "gate" /\ begun = "idle"
  /\ call' = [call EXCEPT ![s].pc = "done", ![s].link =
                IF ForActiveTarget(s) THEN "yes" ELSE "no"]

Handle(s) ==
  \/ IngestSpans(s)
  \/ IngestSignals(s)
  \/ ReporterStats(s) /\ UNCHANGED <<run, begun, agg, bin, obs>>
  \/ ShouldReport(s) /\ UNCHANGED server

\* What diagnostics() shows of the registry.
Diagnostics ==
  [received |-> lanes.received, recorded |-> lanes.recorded, bad |-> lanes.bad,
   linked |-> lanes.links["linked"],
   unlinked |-> lanes.withOrigin - lanes.links["linked"]]

RunChange ==
  \/ BeginRun
  \/ BeginReset
  \/ TargetAttached
  \/ FinalizeRun

----------------------------------------------------------------------------
(* Properties *)

\* Every span on a run's timeline was reported by the process that run
\* records: the pid is checked in one section and the span written in a later
\* one (ingest).
OnlyTargetSpans ==
  \A i \in DOMAIN agg.spans : agg.spans[i].pid = Targets[agg.run]

\* Over any interleaving of handlers, two spans are on the same synthetic
\* thread exactly when the same process reported them on the same lane, and the
\* thread bears the lane's name (lane_tid); and a recorded address never
\* resolves to another symbol than the one it was given out for, whatever copy
\* of the symbol list was published last (symbol_addr drops its lock before
\* BinaryRegistry::insert).
NamesNeverWrong ==
  \A i, j \in DOMAIN agg.spans :
    LET a == agg.spans[i]
        b == agg.spans[j]
    IN /\ (a.tid = b.tid) <=> (<<a.pid, a.lane>> = <<b.pid, b.lane>>)
       /\ agg.names[a.tid] = a.lane
       /\ a.addr <= Len(bin) => bin[a.addr] = <<"span", a.name>>
       /\ a.laneAddr <= Len(bin) => bin[a.laneAddr] = <<"lane", a.lane>>

\* Every span received is recorded or dropped for its duration, and the recorded
\* ones are the ones on the timeline (record_batch counts after the write).
SpansCounted ==
  ServerIdle /\ agg.run # 0 =>
    /\ Diagnostics.received = Diagnostics.recorded + Diagnostics.bad
    /\ Diagnostics.recorded = Len(agg.spans)

\* Every unlinked origin has a reason (OriginLinkCounters).
LinksCounted ==
  ServerIdle /\ agg.run # 0 =>
    Diagnostics.unlinked = lanes.links["invalid_tid"] + lanes.links["no_thread"]
                           + lanes.links["no_stack"] + lanes.links["too_far"]

\* Every application event received is stored under a kind the store knows,
\* evicted at the bound or counted as unknown (ObservabilityStore::ingest).
SignalsCounted ==
  /\ Len(obs.events) <= MaxEvents /\ Range(obs.events) \subseteq obs.kinds
  /\ obs.received = Len(obs.events) + obs.evicted + obs.unknown

\* Between two calls the diagnostics agree with the stores: the spans and their
\* origins, and at all times the application's events.
DiagnosticsAgree == SpansCounted /\ LinksCounted /\ SignalsCounted
=============================================================================
