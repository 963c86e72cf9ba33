------------------------ MODULE TargetReporterProofs ------------------------
(***************************************************************************)
(* Target reporting, for any app, any spans, any number of calls served at *)
(* a time and any store bound, as long as no run begins while a handler is *)
(* at work.                                                                *)
(***************************************************************************)
EXTENDS TargetReporter, SequenceTheorems, FiniteSetTheorems, TLAPS

SpanLanes == {b.lane : b \in BuiltSpans \cup RawSpans}
SpanNames == {b.name : b \in BuiltSpans \cup RawSpans}
AllKinds  == UNION {b.kinds : b \in Budgets}

SignalMsg == [t : {"signals"}, defs : SUBSET AllKinds, event : AllKinds \cup {"none"}]
OtherMsg  == [t : {"gate", "none"}] \cup [t : {"stats"}, dropped : Nat]

LaneKeys == {Own} \X SpanLanes
SymKeys  == ({"lane"} \X SpanLanes) \cup ({"span"} \X SpanNames)

SpanRec == [pid : {Own}, lane : SpanLanes, tid : Nat, name : SpanNames,
            laneAddr : Nat, addr : Nat]

LanesRec ==
  [tids : Seq(LaneKeys), syms : Seq(SymKeys), noRun : Nat, wrongPid : Nat,
   received : Nat, recorded : Nat, bad : Nat, withOrigin : Nat,
   links : [LinkResults -> Nat], stats : Nat]

ObsRec ==
  [kinds : SUBSET AllKinds, events : Seq(AllKinds), received : Nat, recorded : Nat,
   unknown : Nat, evicted : Nat, noRun : Nat, wrongPid : Nat]

Quiet    == {"free", "sent", "done"}
Lookup   == {"tid", "name"}
Symbols  == {"sym", "publish"}
SpanPcs  == Lookup \cup Symbols \cup {"write", "count"}
Pcs      == Quiet \cup SpanPcs \cup {"store", "stats"}

CallRec ==
  [pc : Pcs, msg : SpanMsg \cup SignalMsg \cup OtherMsg, pid : {0, Own}, tid : Nat,
   addr : Seq(Nat), list : Seq(SymKeys), key : SymKeys \cup {<<>>},
   link : Outcomes \cup {"none", "yes", "no"}]

----------------------------------------------------------------------------
(* The inductive invariant *)

AggShape ==
  /\ agg = [run |-> agg.run, spans |-> agg.spans, names |-> agg.names]
  /\ agg.run \in Nat
  /\ agg.spans \in Seq(SpanRec)

ServerTypes ==
  /\ run = [id |-> run.id, pid |-> run.pid]
  /\ begun \in {"idle", "bins", "obs", "lanes"}
  /\ AggShape
  /\ bin \in Seq(SymKeys)
  /\ lanes \in LanesRec
  /\ obs \in ObsRec

AppTypes ==
  /\ queue \in Seq(SpanMsg \cup SignalMsg)
  /\ dropped \in [full : Nat, closed : Nat]
  /\ defs \subseteq AllKinds
  /\ kinds \subseteq AllKinds

\* Position i of seq is the one given out for key.
At(seq, i, key) == i \in 1 .. Len(seq) /\ seq[i] = key

Distinct(seq) == \A i, j \in 1 .. Len(seq) : seq[i] = seq[j] => i = j

\* q has grown from p.
Grown(p, q) == Len(p) <= Len(q) /\ \A i \in 1 .. Len(p) : p[i] = q[i]

\* The stores belong to the run of the aggregator: only its handlers write.
RunInv ==
  /\ run.id \in {0, agg.run}
  /\ run.id = 0 => run.pid = 0
  /\ run.pid # 0 => run.pid = Targets[agg.run]
  /\ begun # "idle" => /\ \A s \in Slots : ~Busy(s)
                       /\ agg.spans = <<>>
                       /\ DOMAIN agg.names = {}
  /\ begun \in {"obs", "lanes"} => bin = <<>>

\* Ranks are given out once and never change; a published list is an older
\* copy of the registered one.
RanksInv ==
  /\ Distinct(lanes.tids)
  /\ Distinct(lanes.syms)
  /\ Grown(bin, lanes.syms)
  /\ \A t \in DOMAIN agg.names : /\ t \in 1 .. Len(lanes.tids)
                                 /\ agg.names[t] = lanes.tids[t][2]

LaneKey(m) == <<"lane", m.lane>>
SpanKey(m) == <<"span", m.name>>

\* The addresses handler c has so far are those of its lane and its span.
HasLane(c, syms) == At(syms, c.addr[1], LaneKey(c.msg))
HasSpan(c, syms) == Len(c.addr) = 2 /\ At(syms, c.addr[2], SpanKey(c.msg))

\* What a handler relies on from one of its sections to the next.
HandlerOk(c, tids, syms, named) ==
  /\ c.pc # "free" => c.pid = Own
  /\ c.pc \in {"sent"} \cup Lookup => c.addr = <<>>
  /\ c.pc \in SpanPcs => c.msg \in SpanMsg
  /\ c.pc = "store" => c.msg \in SignalMsg
  /\ c.pc = "stats" => c.msg.t = "stats"
  /\ c.pc = "count" => c.link \in Outcomes \cup {"none"}
  /\ c.pc \in {"name", "write"} \cup Symbols => At(tids, c.tid, <<Own, c.msg.lane>>)
  /\ c.pc \in {"write"} \cup Symbols => c.tid \in named
  /\ c.pc = "sym" =>
       \/ c.key = LaneKey(c.msg) /\ c.addr = <<>>
       \/ c.key = SpanKey(c.msg) /\ Len(c.addr) = 1 /\ HasLane(c, syms)
  /\ c.pc = "publish" =>
       /\ Grown(c.list, syms) /\ HasLane(c, syms)
       /\ \/ c.key = LaneKey(c.msg) /\ Len(c.addr) = 1
          \/ c.key = SpanKey(c.msg) /\ HasSpan(c, syms)
  /\ c.pc = "write" /\ c.msg.dur > 0 => HasLane(c, syms) /\ HasSpan(c, syms)

HandlersInv ==
  \A s \in Slots :
    /\ HandlerOk(call[s], lanes.tids, lanes.syms, DOMAIN agg.names)
    /\ call[s].pc \in SpanPcs => Own = Targets[agg.run]

\* A span of the timeline: the registry still has its lane and its symbols.
SpanOk(p, tids, syms, named) ==
  /\ p.tid \in named
  /\ At(tids, p.tid, <<p.pid, p.lane>>)
  /\ At(syms, p.addr, SpanKey(p))
  /\ At(syms, p.laneAddr, LaneKey(p))

TimelineInv ==
  \A i \in 1 .. Len(agg.spans) :
    /\ SpanOk(agg.spans[i], lanes.tids, lanes.syms, DOMAIN agg.names)
    /\ Own = Targets[agg.run]

\* Handlers that have written their span and not counted it yet.
Pending == {s \in Slots : call[s].pc = "count" /\ call[s].msg.dur > 0}

CountsInv ==
  begun = "idle" => /\ lanes.received = lanes.recorded + lanes.bad
                    /\ lanes.recorded + Cardinality(Pending) = Len(agg.spans)

TargetInv ==
  /\ ServerTypes /\ AppTypes /\ call \in [Slots -> CallRec]
  /\ RunInv /\ RanksInv /\ HandlersInv /\ TimelineInv /\ CountsInv /\ SignalsCounted

----------------------------------------------------------------------------
(* The registry's ranks *)

\* The place of key in seq, 0 if there is none: what SelectInSeq looks for.
Place(seq, key) ==
  LET I == {i \in 1 .. Len(seq) : seq[i] = key}
  IN IF I # {} THEN Min(I) ELSE 0

\* In a list without repetition the place of a key is the one it is at.
LEMMA RankOf ==
  ASSUME NEW S, NEW seq \in Seq(S), Distinct(seq), NEW key
  PROVE  /\ Place(seq, key) = 0 => \A i \in 1 .. Len(seq) : seq[i] # key
         /\ Place(seq, key) # 0 => At(seq, Place(seq, key), key)
  <1> DEFINE I == {i \in 1 .. Len(seq) : seq[i] = key}
  <1>1. Place(seq, key) = IF I # {} THEN Min(I) ELSE 0
    BY DEF Place
  <1>2. CASE I = {}
    BY <1>1, <1>2
  <1>3. CASE I # {}
    <2>1. PICK i \in I : TRUE
      BY <1>3
    <2>2. I = {i}
      BY <2>1 DEF Distinct
    <2>3. i \in 1 .. Len(seq) /\ i >= i
      BY <2>1
    <2>4. Min(I) = i
      <3>1. Min({i}) = i
        BY <2>3 DEF Min
      <3> QED BY <2>2, <3>1
    <2> HIDE DEF I
    <2>5. i # 0 /\ seq[i] = key
      BY <2>1, <2>3 DEF I
    <2> QED BY <1>1, <1>3, <2>3, <2>4, <2>5 DEF At
  <1> QED BY <1>2, <1>3

\* Registering a key keeps every rank given out and gives the key one.
LEMMA Registered ==
  ASSUME NEW S, NEW seq \in Seq(S), Distinct(seq), NEW key \in S,
         NEW at, at = Place(seq, key),
         NEW grown, grown = IF at = 0 THEN Append(seq, key) ELSE seq
  PROVE  /\ grown \in Seq(S)
         /\ Distinct(grown)
         /\ Grown(seq, grown)
         /\ At(grown, IF at = 0 THEN Len(grown) ELSE at, key)
  <1>1. /\ at = 0 => \A i \in 1 .. Len(seq) : seq[i] # key
        /\ at # 0 => At(seq, at, key)
    BY RankOf
  <1>2. Len(seq) \in Nat
    BY LenProperties
  <1>3. CASE at = 0
    <2>1. /\ grown \in Seq(S) /\ Len(grown) = Len(seq) + 1
          /\ \A i \in 1 .. Len(seq) : grown[i] = seq[i]
          /\ grown[Len(seq) + 1] = key
      BY <1>3, AppendProperties
    <2>2. \A i \in 1 .. Len(grown) : i \in 1 .. Len(seq) \/ i = Len(seq) + 1
      BY <1>2, <2>1
    <2>3. Distinct(grown)
      BY <1>1, <1>3, <2>1, <2>2 DEF Distinct
    <2> QED BY <1>2, <1>3, <2>1, <2>3 DEF Grown, At
  <1>4. CASE at # 0
    BY <1>1, <1>2, <1>4 DEF Grown
  <1> QED BY <1>3, <1>4

LEMMA GrownSelf ==
  ASSUME NEW S, NEW seq \in Seq(S)
  PROVE  Grown(seq, seq)
  BY LenProperties DEF Grown

LEMMA GrownTrans ==
  ASSUME NEW S, NEW p \in Seq(S), NEW q \in Seq(S), NEW r \in Seq(S),
         Grown(p, q), Grown(q, r)
  PROVE  Grown(p, r)
  BY LenProperties DEF Grown

LEMMA AtGrown ==
  ASSUME NEW S, NEW p \in Seq(S), NEW q \in Seq(S), Grown(p, q), NEW i, NEW key, At(p, i, key)
  PROVE  At(q, i, key)
  BY LenProperties DEF Grown, At

\* What a handler relies on survives what the others register and name.
LEMMA HandlerKept ==
  ASSUME NEW c \in CallRec,
         NEW t1 \in Seq(LaneKeys), NEW t2 \in Seq(LaneKeys), Grown(t1, t2),
         NEW s1 \in Seq(SymKeys), NEW s2 \in Seq(SymKeys), Grown(s1, s2),
         NEW n1, NEW n2, n1 \subseteq n2,
         HandlerOk(c, t1, s1, n1)
  PROVE  HandlerOk(c, t2, s2, n2)
  <1>1. \A i, key : At(t1, i, key) => At(t2, i, key)
    BY AtGrown
  <1>2. \A i, key : At(s1, i, key) => At(s2, i, key)
    BY AtGrown
  <1>3. c.list \in Seq(SymKeys)
    BY DEF CallRec
  <1>4. Grown(c.list, s1) => Grown(c.list, s2)
    BY <1>3, GrownTrans
  <1> QED BY <1>1, <1>2, <1>4 DEF HandlerOk, HasLane, HasSpan

\* And so does a span of the timeline.
LEMMA SpanKept ==
  ASSUME NEW p,
         NEW t1 \in Seq(LaneKeys), NEW t2 \in Seq(LaneKeys), Grown(t1, t2),
         NEW s1 \in Seq(SymKeys), NEW s2 \in Seq(SymKeys), Grown(s1, s2),
         NEW n1, NEW n2, n1 \subseteq n2,
         SpanOk(p, t1, s1, n1)
  PROVE  SpanOk(p, t2, s2, n2)
  BY AtGrown DEF SpanOk

----------------------------------------------------------------------------
(* Steps of the environment, and of one handler *)

LEMMA Constants ==
  /\ NoCall \in CallRec
  /\ NoLanes \in LanesRec
  /\ NoObs \in ObsRec
  BY EmptySeq DEF NoCall, NoLanes, NoObs, CallRec, LanesRec, ObsRec, OtherMsg, Pcs, Quiet

\* The app and its worker only fill free slots and free quiet ones.
LEMMA EnvStep ==
  ASSUME TargetInv, UNCHANGED server, AppTypes',
         call' \in [Slots -> CallRec],
         \A s \in Slots :
           \/ call'[s] = call[s]
           \/ /\ call[s].pc \in Quiet
              /\ call'[s].pc \in {"free", "sent"}
              /\ call'[s].pc = "sent" => call'[s].pid = Own /\ call'[s].addr = <<>>
  PROVE  TargetInv'
  <1> USE DEF TargetInv, server
  <1>1. ServerTypes'
    BY DEF ServerTypes, AggShape
  <1>2. RunInv'
    BY DEF RunInv, Busy, Quiet
  <1>3. RanksInv' /\ TimelineInv' /\ SignalsCounted'
    BY DEF RanksInv, TimelineInv, SignalsCounted
  <1>4. HandlersInv'
    BY DEF HandlersInv, HandlerOk, Quiet, SpanPcs, Lookup, Symbols
  <1>5. Pending' = Pending
    BY DEF Pending, Quiet
  <1>6. CountsInv'
    BY <1>5 DEF CountsInv
  <1> QED BY <1>1, <1>2, <1>3, <1>4, <1>6

\* The other handlers go on as before, whatever this one registers or names.
LEMMA OthersKept ==
  ASSUME TargetInv, NEW s \in Slots, lanes' \in LanesRec, agg'.run = agg.run,
         call' \in [Slots -> CallRec], \A r \in Slots \ {s} : call'[r] = call[r],
         Grown(lanes.tids, lanes'.tids), Grown(lanes.syms, lanes'.syms),
         DOMAIN agg.names \subseteq DOMAIN agg'.names,
         HandlerOk(call'[s], lanes'.tids, lanes'.syms, DOMAIN agg'.names),
         call'[s].pc \in SpanPcs => Own = Targets[agg.run]
  PROVE  /\ HandlersInv'
         /\ \A i \in 1 .. Len(agg.spans) :
              SpanOk(agg.spans[i], lanes'.tids, lanes'.syms, DOMAIN agg'.names)
  <1>1. /\ lanes.tids \in Seq(LaneKeys) /\ lanes'.tids \in Seq(LaneKeys)
        /\ lanes.syms \in Seq(SymKeys) /\ lanes'.syms \in Seq(SymKeys)
    BY DEF TargetInv, ServerTypes, LanesRec
  <1>2. ASSUME NEW r \in Slots
        PROVE  /\ HandlerOk(call'[r], lanes'.tids, lanes'.syms, DOMAIN agg'.names)
               /\ call'[r].pc \in SpanPcs => Own = Targets[agg'.run]
    <2>1. CASE r = s
      BY <2>1
    <2>2. CASE r # s
      <3>1. call'[r] = call[r] /\ call[r] \in CallRec
        BY <2>2 DEF TargetInv
      <3>2. /\ HandlerOk(call[r], lanes.tids, lanes.syms, DOMAIN agg.names)
            /\ call[r].pc \in SpanPcs => Own = Targets[agg.run]
        BY DEF TargetInv, HandlersInv
      <3>3. HandlerOk(call[r], lanes'.tids, lanes'.syms, DOMAIN agg'.names)
        BY <1>1, <3>1, <3>2, HandlerKept
      <3> QED BY <3>1, <3>2, <3>3
    <2> QED BY <2>1, <2>2
  <1>3. HandlersInv'
    BY <1>2 DEF HandlersInv
  <1>4. ASSUME NEW i \in 1 .. Len(agg.spans)
        PROVE  SpanOk(agg.spans[i], lanes'.tids, lanes'.syms, DOMAIN agg'.names)
    <2>1. SpanOk(agg.spans[i], lanes.tids, lanes.syms, DOMAIN agg.names)
      BY DEF TargetInv, TimelineInv
    <2> QED BY <1>1, <2>1, SpanKept
  <1> QED BY <1>3, <1>4

\* A section of a handler that neither writes nor counts a span.
LEMMA HandlerStep ==
  ASSUME TargetInv, NEW s \in Slots, begun = "idle", UNCHANGED <<run, begun>>, UNCHANGED app,
         call' \in [Slots -> CallRec], \A r \in Slots \ {s} : call'[r] = call[r],
         s \notin Pending, s \notin Pending',
         ServerTypes', RanksInv', SignalsCounted',
         agg'.run = agg.run, agg'.spans = agg.spans,
         Grown(lanes.tids, lanes'.tids), Grown(lanes.syms, lanes'.syms),
         lanes'.received = lanes.received, lanes'.recorded = lanes.recorded,
         lanes'.bad = lanes.bad,
         DOMAIN agg.names \subseteq DOMAIN agg'.names,
         HandlerOk(call'[s], lanes'.tids, lanes'.syms, DOMAIN agg'.names),
         call'[s].pc \in SpanPcs => Own = Targets[agg.run]
  PROVE  TargetInv'
  <1>1. AppTypes'
    BY DEF TargetInv, AppTypes, app
  <1>2. RunInv'
    BY DEF TargetInv, RunInv
  <1>3. lanes' \in LanesRec
    BY DEF ServerTypes
  <1>4. /\ HandlersInv'
        /\ \A i \in 1 .. Len(agg.spans) :
             SpanOk(agg.spans[i], lanes'.tids, lanes'.syms, DOMAIN agg'.names)
    BY <1>3, OthersKept
  <1>5. TimelineInv'
    BY <1>4 DEF TargetInv, TimelineInv
  <1>6. Pending' = Pending
    BY DEF Pending
  <1>7. CountsInv'
    BY <1>6 DEF TargetInv, CountsInv
  <1> QED BY <1>1, <1>2, <1>4, <1>5, <1>7 DEF TargetInv

----------------------------------------------------------------------------
(* The sections of a handler *)

\* What every section starts from.
LEMMA AtWork ==
  ASSUME TargetInv, NEW s \in Slots
  PROVE  /\ call \in [Slots -> CallRec] /\ call[s] \in CallRec
         /\ lanes \in LanesRec /\ obs \in ObsRec /\ AggShape /\ bin \in Seq(SymKeys)
         /\ HandlerOk(call[s], lanes.tids, lanes.syms, DOMAIN agg.names)
         /\ call[s].pc \in SpanPcs => Own = Targets[agg.run]
         /\ call[s].pc \notin Quiet => begun = "idle"
         /\ Grown(lanes.tids, lanes.tids) /\ Grown(lanes.syms, lanes.syms)
  <1>1. lanes \in LanesRec
    BY DEF TargetInv, ServerTypes
  <1>2. lanes.tids \in Seq(LaneKeys) /\ lanes.syms \in Seq(SymKeys)
    BY <1>1 DEF LanesRec
  <1>3. Grown(lanes.tids, lanes.tids) /\ Grown(lanes.syms, lanes.syms)
    BY <1>2, GrownSelf
  <1> QED BY <1>1, <1>3 DEF TargetInv, ServerTypes, HandlersInv, RunInv, Busy, Quiet

\* A handler that only moves on: no store changes but counters of drops and
\* of the reporter.
LEMMA MovesOn ==
  ASSUME TargetInv, NEW s \in Slots, begun = "idle",
         UNCHANGED <<run, begun, agg, bin>>, UNCHANGED app,
         NEW c \in CallRec, call' = [call EXCEPT ![s] = c],
         call[s].pc # "count", c.pc # "count",
         lanes' \in LanesRec, lanes'.tids = lanes.tids, lanes'.syms = lanes.syms,
         lanes'.received = lanes.received, lanes'.recorded = lanes.recorded,
         lanes'.bad = lanes.bad,
         obs' \in ObsRec, SignalsCounted',
         HandlerOk(c, lanes.tids, lanes.syms, DOMAIN agg.names),
         c.pc \in SpanPcs => Own = Targets[agg.run]
  PROVE  TargetInv'
  <1>1. /\ call' \in [Slots -> CallRec] /\ call'[s] = c
        /\ \A r \in Slots \ {s} : call'[r] = call[r]
    BY AtWork
  <1>2. s \notin Pending /\ s \notin Pending'
    BY <1>1 DEF Pending
  <1>3. ServerTypes'
    BY DEF TargetInv, ServerTypes, AggShape
  <1>4. RanksInv'
    BY DEF TargetInv, RanksInv
  <1>5. Grown(lanes.tids, lanes'.tids) /\ Grown(lanes.syms, lanes'.syms)
    BY AtWork
  <1> QED BY <1>1, <1>2, <1>3, <1>4, <1>5, HandlerStep

\* The pid that passes the check is the one of the run whose stores these are.
LEMMA Checked ==
  ASSUME TargetInv, NEW s \in Slots, ForActiveTarget(s), call[s].pc # "free"
  PROVE  Own = Targets[agg.run]
  BY AtWork DEF ForActiveTarget, TargetInv, RunInv, HandlerOk

LEMMA IngestCheckKept ==
  ASSUME TargetInv, NEW s \in Slots, IngestCheck(s), UNCHANGED app
  PROVE  TargetInv'
  <1> DEFINE c == [call[s] EXCEPT !.pc = IF ForActiveTarget(s) THEN "tid" ELSE "done"]
  <1>1. /\ call[s].pc = "sent" /\ call[s].msg.t = "spans" /\ begun = "idle"
        /\ UNCHANGED <<run, begun, agg, bin, obs>> /\ call[s] \in CallRec
        /\ HandlerOk(call[s], lanes.tids, lanes.syms, DOMAIN agg.names)
    BY AtWork DEF IngestCheck
  <1>2. call' = [call EXCEPT ![s] = c]
    BY AtWork DEF IngestCheck, Step, Finish
  <1>3. c \in CallRec /\ c.pc \in {"tid", "done"} /\ c.msg = call[s].msg
        /\ c.addr = call[s].addr /\ c.pid = call[s].pid
    BY <1>1 DEF CallRec, Pcs, SpanPcs, Lookup, Quiet
  <1>4. call[s].msg \in SpanMsg
    BY <1>1 DEF CallRec, SignalMsg, OtherMsg
  <1>5. HandlerOk(c, lanes.tids, lanes.syms, DOMAIN agg.names)
    BY <1>1, <1>3, <1>4 DEF HandlerOk, SpanPcs, Lookup, Symbols
  <1>6. c.pc \in SpanPcs => Own = Targets[agg.run]
    BY <1>1, Checked DEF SpanPcs, Lookup, Symbols
  <1>7. /\ lanes' \in LanesRec /\ lanes'.tids = lanes.tids /\ lanes'.syms = lanes.syms
        /\ lanes'.received = lanes.received /\ lanes'.recorded = lanes.recorded
        /\ lanes'.bad = lanes.bad
    <2>1. lanes \in LanesRec
      BY AtWork
    <2>2. \/ lanes' = lanes
          \/ lanes' = [lanes EXCEPT !.noRun = @ + 1]
          \/ lanes' = [lanes EXCEPT !.wrongPid = @ + 1]
      BY DEF IngestCheck
    <2>3. CASE lanes' = [lanes EXCEPT !.noRun = @ + 1]
      <3>1. lanes.noRun + 1 \in Nat
        BY <2>1 DEF LanesRec
      <3> QED BY <2>1, <2>3, <3>1 DEF LanesRec
    <2>4. CASE lanes' = [lanes EXCEPT !.wrongPid = @ + 1]
      <3>1. lanes.wrongPid + 1 \in Nat
        BY <2>1 DEF LanesRec
      <3> QED BY <2>1, <2>4, <3>1 DEF LanesRec
    <2> QED BY <2>1, <2>2, <2>3, <2>4
  <1>8. obs' \in ObsRec /\ SignalsCounted'
    BY <1>1, AtWork DEF TargetInv, SignalsCounted
  <1> HIDE DEF c
  <1> QED BY <1>1, <1>2, <1>3, <1>5, <1>6, <1>7, <1>8, MovesOn

LEMMA LaneTidKept ==
  ASSUME TargetInv, NEW s \in Slots, LaneTid(s), UNCHANGED app
  PROVE  TargetInv'
  <1> DEFINE key  == <<call[s].pid, call[s].msg.lane>>
             at   == LaneIndex(lanes.tids, key)
             tids == IF at = 0 THEN Append(lanes.tids, key) ELSE lanes.tids
             tid  == IF at = 0 THEN Len(tids) ELSE at
             c    == [call[s] EXCEPT !.pc = "name", !.tid = tid]
  <1>1. /\ call[s].pc = "tid" /\ lanes' = [lanes EXCEPT !.tids = tids]
        /\ call' = [call EXCEPT ![s].pc = "name", ![s].tid = tid]
        /\ UNCHANGED <<run, begun, agg, bin, obs>>
    BY DEF LaneTid
  <1>2. /\ call \in [Slots -> CallRec] /\ call[s] \in CallRec
        /\ lanes \in LanesRec /\ HandlerOk(call[s], lanes.tids, lanes.syms, DOMAIN agg.names)
        /\ begun = "idle" /\ Grown(lanes.syms, lanes.syms) /\ Own = Targets[agg.run]
    BY <1>1, AtWork DEF Quiet, SpanPcs, Lookup
  <1>3. call[s].pid = Own /\ call[s].msg \in SpanMsg /\ call[s].addr = <<>>
    BY <1>1, <1>2 DEF HandlerOk, SpanPcs, Lookup
  <1>4. key \in LaneKeys /\ key = <<Own, call[s].msg.lane>>
    BY <1>3 DEF LaneKeys, SpanLanes, SpanMsg
  <1>5. /\ tids \in Seq(LaneKeys) /\ Distinct(tids) /\ Grown(lanes.tids, tids)
        /\ At(tids, tid, key)
    <2>1. lanes.tids \in Seq(LaneKeys) /\ Distinct(lanes.tids)
      BY <1>2 DEF LanesRec, TargetInv, RanksInv
    <2>2. at = Place(lanes.tids, key)
      BY DEF LaneIndex, SelectInSeq, Place
    <2>3. tids = IF at = 0 THEN Append(lanes.tids, key) ELSE lanes.tids
      OBVIOUS
    <2>4. tid = IF at = 0 THEN Len(tids) ELSE at
      OBVIOUS
    <2> HIDE DEF at, key, tids, tid
    <2> QED BY <1>4, <2>1, <2>2, <2>3, <2>4, Registered
  <1> HIDE DEF tids, at, key
  <1>6. tid \in Nat
    BY <1>5, LenProperties DEF At
  <1> HIDE DEF tid
  <1>7. /\ c \in CallRec /\ c.pc = "name" /\ c.tid = tid /\ c.pid = Own
        /\ c.msg = call[s].msg /\ c.addr = <<>>
    BY <1>2, <1>3, <1>6 DEF CallRec, Pcs, SpanPcs, Lookup
  <1>8. /\ call' \in [Slots -> CallRec] /\ call'[s] = c
        /\ \A r \in Slots \ {s} : call'[r] = call[r]
    BY <1>1, <1>2, <1>7
  <1> HIDE DEF c
  <1>9. s \notin Pending /\ s \notin Pending'
    BY <1>1, <1>7, <1>8 DEF Pending
  <1>10. /\ lanes' \in LanesRec /\ lanes'.tids = tids /\ lanes'.syms = lanes.syms
         /\ lanes'.received = lanes.received /\ lanes'.recorded = lanes.recorded
         /\ lanes'.bad = lanes.bad
    BY <1>1, <1>2, <1>5 DEF LanesRec
  <1>11. ServerTypes'
    BY <1>1, <1>10 DEF TargetInv, ServerTypes, AggShape
  <1>12. RanksInv'
    <2>1. lanes.tids \in Seq(LaneKeys)
      BY <1>2 DEF LanesRec
    <2>2. Len(lanes.tids) \in Nat /\ Len(tids) \in Nat
      BY <1>5, <2>1, LenProperties
    <2> QED BY <1>1, <1>5, <1>10, <2>2 DEF TargetInv, RanksInv, Grown
  <1>13. SignalsCounted'
    BY <1>1 DEF TargetInv, SignalsCounted
  <1>14. HandlerOk(c, tids, lanes.syms, DOMAIN agg.names)
    BY <1>3, <1>4, <1>5, <1>7 DEF HandlerOk, SpanPcs, Lookup, Symbols
  <1> QED BY <1>1, <1>2, <1>5, <1>8, <1>9, <1>10, <1>11, <1>12, <1>13, <1>14, HandlerStep

LEMMA SetThreadNameKept ==
  ASSUME TargetInv, NEW s \in Slots, SetThreadName(s), UNCHANGED app
  PROVE  TargetInv'
  <1> DEFINE c == [call[s] EXCEPT !.pc = "sym", !.key = LaneKey(call[s].msg)]
  <1>1. /\ call[s].pc = "name"
        /\ agg' = [agg EXCEPT !.names = NameThread(@, call[s].tid, call[s].msg.lane)]
        /\ call' = [call EXCEPT ![s].pc = "sym", ![s].key = LaneKey(call[s].msg)]
        /\ UNCHANGED <<run, begun, bin, lanes, obs>>
    BY DEF SetThreadName, LaneKey
  <1>2. /\ call \in [Slots -> CallRec] /\ call[s] \in CallRec /\ AggShape
        /\ lanes \in LanesRec /\ HandlerOk(call[s], lanes.tids, lanes.syms, DOMAIN agg.names)
        /\ begun = "idle" /\ Own = Targets[agg.run]
        /\ Grown(lanes.tids, lanes.tids) /\ Grown(lanes.syms, lanes.syms)
    BY <1>1, AtWork DEF Quiet, SpanPcs, Lookup
  <1>3. /\ call[s].pid = Own /\ call[s].msg \in SpanMsg /\ call[s].addr = <<>>
        /\ At(lanes.tids, call[s].tid, <<Own, call[s].msg.lane>>)
    BY <1>1, <1>2 DEF HandlerOk, SpanPcs, Lookup
  <1>4. /\ agg'.run = agg.run /\ agg'.spans = agg.spans
        /\ agg'.names = NameThread(agg.names, call[s].tid, call[s].msg.lane)
        /\ AggShape'
    BY <1>1, <1>2 DEF AggShape
  <1>5. /\ DOMAIN agg'.names = DOMAIN agg.names \cup {call[s].tid}
        /\ \A t \in DOMAIN agg'.names :
             agg'.names[t] = IF t = call[s].tid THEN call[s].msg.lane ELSE agg.names[t]
    BY <1>4 DEF NameThread
  <1>6. LaneKey(call[s].msg) \in SymKeys
    BY <1>3 DEF SymKeys, LaneKey, SpanLanes, SpanMsg
  <1>7. /\ c \in CallRec /\ c.pc = "sym" /\ c.tid = call[s].tid /\ c.pid = Own
        /\ c.msg = call[s].msg /\ c.addr = <<>> /\ c.key = LaneKey(c.msg)
    BY <1>2, <1>3, <1>6 DEF CallRec, Pcs, SpanPcs, Symbols
  <1>8. /\ call' \in [Slots -> CallRec] /\ call'[s] = c
        /\ \A r \in Slots \ {s} : call'[r] = call[r]
    BY <1>1, <1>2, <1>7
  <1> HIDE DEF c
  <1>9. s \notin Pending /\ s \notin Pending'
    BY <1>1, <1>7, <1>8 DEF Pending
  <1>10. ServerTypes'
    BY <1>1, <1>4 DEF TargetInv, ServerTypes
  <1>11. RanksInv'
    BY <1>1, <1>3, <1>5 DEF TargetInv, RanksInv, At
  <1>12. SignalsCounted'
    BY <1>1 DEF TargetInv, SignalsCounted
  <1>13. HandlerOk(c, lanes.tids, lanes.syms, DOMAIN agg'.names)
    BY <1>3, <1>5, <1>7 DEF HandlerOk, SpanPcs, Lookup, Symbols
  <1> QED BY <1>1, <1>2, <1>4, <1>5, <1>8, <1>9, <1>10, <1>11, <1>12, <1>13, HandlerStep

\* The handler looks up the lane first, then the span if it lasted.
LEMMA AfterSymbolOk ==
  ASSUME NEW s \in Slots, call[s].msg \in SpanMsg,
         NEW key, key \in {LaneKey(call[s].msg), SpanKey(call[s].msg)},
         NEW next, next = AfterSymbol(s, key)
  PROVE  /\ next.pc \in {"sym", "write"} /\ next.key \in SymKeys \cup {<<>>}
         /\ next.pc = "sym" => key = LaneKey(call[s].msg) /\ next.key = SpanKey(call[s].msg)
         /\ next.pc = "write" /\ call[s].msg.dur > 0 => key = SpanKey(call[s].msg)
  BY DEF AfterSymbol, LaneKey, SpanKey, SymKeys, SpanNames, SpanMsg

LEMMA SymbolAddrKept ==
  ASSUME TargetInv, NEW s \in Slots, SymbolAddr(s), UNCHANGED app
  PROVE  TargetInv'
  <1> DEFINE m    == call[s].msg
             key  == call[s].key
             at   == SelectInSeq(lanes.syms, LAMBDA k : k = key)
             syms == IF at = 0 THEN Append(lanes.syms, key) ELSE lanes.syms
             next == AfterSymbol(s, key)
             a    == AddrOf(at, syms)
             addr == Append(call[s].addr, a)
             list == IF at = 0 THEN syms ELSE <<>>
             pc   == IF at = 0 THEN "publish" ELSE next.pc
             nkey == IF at = 0 THEN key ELSE next.key
             c    == [call[s] EXCEPT !.addr = addr, !.list = list, !.pc = pc, !.key = nkey]
  <1>1. /\ call[s].pc = "sym" /\ lanes' = [lanes EXCEPT !.syms = syms]
        /\ call' = [call EXCEPT ![s].addr = Append(@, a), ![s].list = list,
                                ![s].pc = pc, ![s].key = nkey]
        /\ UNCHANGED <<run, begun, agg, bin, obs>>
    BY DEF SymbolAddr
  <1>2. /\ call \in [Slots -> CallRec] /\ call[s] \in CallRec
        /\ lanes \in LanesRec /\ HandlerOk(call[s], lanes.tids, lanes.syms, DOMAIN agg.names)
        /\ begun = "idle" /\ Grown(lanes.tids, lanes.tids) /\ Own = Targets[agg.run]
    BY <1>1, AtWork DEF Quiet, SpanPcs, Symbols
  <1>3. /\ call[s].pid = Own /\ m \in SpanMsg
        /\ At(lanes.tids, call[s].tid, <<Own, m.lane>>) /\ call[s].tid \in DOMAIN agg.names
        /\ \/ key = LaneKey(m) /\ call[s].addr = <<>>
           \/ key = SpanKey(m) /\ Len(call[s].addr) = 1 /\ HasLane(call[s], lanes.syms)
    BY <1>1, <1>2 DEF HandlerOk, SpanPcs, Symbols
  <1>4. key \in SymKeys
    BY <1>3 DEF SymKeys, LaneKey, SpanKey, SpanLanes, SpanNames, SpanMsg
  <1>5. lanes.syms \in Seq(SymKeys) /\ Distinct(lanes.syms)
    BY <1>2 DEF LanesRec, TargetInv, RanksInv
  <1>6. /\ syms \in Seq(SymKeys) /\ Distinct(syms) /\ Grown(lanes.syms, syms)
        /\ At(syms, a, key)
    <2>1. at = Place(lanes.syms, key)
      BY DEF SelectInSeq, Place
    <2>2. syms = IF at = 0 THEN Append(lanes.syms, key) ELSE lanes.syms
      OBVIOUS
    <2>3. a = IF at = 0 THEN Len(syms) ELSE at
      BY DEF AddrOf
    <2> HIDE DEF at, key, syms, a
    <2> QED BY <1>4, <1>5, <2>1, <2>2, <2>3, Registered
  <1>7. /\ next.pc \in {"sym", "write"} /\ next.key \in SymKeys \cup {<<>>}
        /\ next.pc = "sym" => key = LaneKey(m) /\ next.key = SpanKey(m)
        /\ next.pc = "write" /\ m.dur > 0 => key = SpanKey(m)
    BY <1>3, AfterSymbolOk
  <1>8. /\ pc \in {"publish", "sym", "write"} /\ nkey \in SymKeys \cup {<<>>}
        /\ pc = "publish" => nkey = key /\ list = syms
        /\ pc = "sym" => key = LaneKey(m) /\ nkey = SpanKey(m)
        /\ pc = "write" /\ m.dur > 0 => key = SpanKey(m)
        /\ list \in Seq(SymKeys)
    BY <1>4, <1>6, <1>7, EmptySeq
  <1> HIDE DEF at, syms, next, a, pc, nkey, list
  <1>9. a \in Nat
    BY <1>6, LenProperties DEF At
  <1>10. call[s].addr \in Seq(Nat)
    BY <1>2 DEF CallRec
  <1>11. /\ addr \in Seq(Nat) /\ Len(addr) = Len(call[s].addr) + 1
         /\ \A i \in 1 .. Len(call[s].addr) : addr[i] = call[s].addr[i]
         /\ addr[Len(call[s].addr) + 1] = a
    BY <1>9, <1>10, AppendProperties
  <1>12. \/ key = LaneKey(m) /\ Len(addr) = 1 /\ At(syms, addr[1], LaneKey(m))
         \/ /\ key = SpanKey(m) /\ Len(addr) = 2
            /\ At(syms, addr[1], LaneKey(m)) /\ At(syms, addr[2], SpanKey(m))
    <2>1. CASE key = LaneKey(m) /\ call[s].addr = <<>>
      <3>1. Len(call[s].addr) = 0
        BY <2>1, EmptySeq
      <3> QED BY <1>6, <1>11, <2>1, <3>1
    <2>2. CASE key = SpanKey(m) /\ Len(call[s].addr) = 1 /\ HasLane(call[s], lanes.syms)
      <3>1. At(syms, call[s].addr[1], LaneKey(m))
        BY <1>5, <1>6, <2>2, AtGrown DEF HasLane
      <3>2. addr[1] = call[s].addr[1] /\ addr[2] = a
        BY <1>11, <2>2
      <3> QED BY <1>6, <1>11, <2>2, <3>1, <3>2
    <2> QED BY <1>3, <2>1, <2>2
  <1> HIDE DEF addr
  <1>13. /\ c \in CallRec /\ c.pc = pc /\ c.tid = call[s].tid /\ c.pid = Own
         /\ c.msg = m /\ c.addr = addr /\ c.key = nkey /\ c.list = list
    BY <1>2, <1>3, <1>8, <1>11 DEF CallRec, Pcs, SpanPcs, Symbols
  <1>14. /\ call' \in [Slots -> CallRec] /\ call'[s] = c
         /\ \A r \in Slots \ {s} : call'[r] = call[r]
    <2>1. call' = [call EXCEPT ![s] = c]
      BY <1>1, <1>2 DEF addr
    <2> HIDE DEF c
    <2> QED BY <1>2, <1>13, <2>1
  <1> HIDE DEF c
  <1>15. s \notin Pending /\ s \notin Pending'
    BY <1>1, <1>8, <1>13, <1>14 DEF Pending
  <1>16. /\ lanes' \in LanesRec /\ lanes'.tids = lanes.tids /\ lanes'.syms = syms
         /\ lanes'.received = lanes.received /\ lanes'.recorded = lanes.recorded
         /\ lanes'.bad = lanes.bad
    BY <1>1, <1>2, <1>6 DEF LanesRec
  <1>17. ServerTypes'
    BY <1>1, <1>16 DEF TargetInv, ServerTypes, AggShape
  <1>18. RanksInv'
    <2>1. Grown(bin, syms)
      BY <1>5, <1>6, GrownTrans DEF TargetInv, ServerTypes, RanksInv
    <2> QED BY <1>1, <1>6, <1>16, <2>1 DEF TargetInv, RanksInv
  <1>19. SignalsCounted'
    BY <1>1 DEF TargetInv, SignalsCounted
  <1>20. HandlerOk(c, lanes.tids, syms, DOMAIN agg.names)
    <2>1. Grown(syms, syms)
      BY <1>6, GrownSelf
    <2> QED BY <1>3, <1>8, <1>12, <1>13, <2>1
            DEF HandlerOk, HasLane, HasSpan, SpanPcs, Lookup, Symbols, LaneKey, SpanKey
  <1> QED BY <1>1, <1>2, <1>6, <1>14, <1>15, <1>16, <1>17, <1>18, <1>19, <1>20, HandlerStep

LEMMA PublishSymbolsKept ==
  ASSUME TargetInv, NEW s \in Slots, PublishSymbols(s), UNCHANGED app
  PROVE  TargetInv'
  <1> DEFINE m    == call[s].msg
             next == AfterSymbol(s, call[s].key)
             c    == [call[s] EXCEPT !.pc = next.pc, !.key = next.key, !.list = <<>>]
  <1>1. /\ call[s].pc = "publish" /\ bin' = call[s].list
        /\ call' = [call EXCEPT ![s].pc = next.pc, ![s].key = next.key, ![s].list = <<>>]
        /\ UNCHANGED <<run, begun, agg, lanes, obs>>
    BY DEF PublishSymbols
  <1>2. /\ call \in [Slots -> CallRec] /\ call[s] \in CallRec
        /\ lanes \in LanesRec /\ HandlerOk(call[s], lanes.tids, lanes.syms, DOMAIN agg.names)
        /\ begun = "idle" /\ Own = Targets[agg.run]
        /\ Grown(lanes.tids, lanes.tids) /\ Grown(lanes.syms, lanes.syms)
    BY <1>1, AtWork DEF Quiet, SpanPcs, Symbols
  <1>3. /\ call[s].pid = Own /\ m \in SpanMsg
        /\ At(lanes.tids, call[s].tid, <<Own, m.lane>>) /\ call[s].tid \in DOMAIN agg.names
        /\ Grown(call[s].list, lanes.syms) /\ HasLane(call[s], lanes.syms)
        /\ \/ call[s].key = LaneKey(m) /\ Len(call[s].addr) = 1
           \/ call[s].key = SpanKey(m) /\ HasSpan(call[s], lanes.syms)
    BY <1>1, <1>2 DEF HandlerOk, SpanPcs, Symbols
  <1>4. /\ next.pc \in {"sym", "write"} /\ next.key \in SymKeys \cup {<<>>}
        /\ next.pc = "sym" => call[s].key = LaneKey(m) /\ next.key = SpanKey(m)
        /\ next.pc = "write" /\ m.dur > 0 => call[s].key = SpanKey(m)
    BY <1>3, AfterSymbolOk
  <1> HIDE DEF next
  <1>5. /\ c \in CallRec /\ c.pc = next.pc /\ c.tid = call[s].tid /\ c.pid = Own
        /\ c.msg = m /\ c.addr = call[s].addr /\ c.key = next.key
    BY <1>2, <1>3, <1>4, EmptySeq DEF CallRec, Pcs, SpanPcs, Symbols
  <1>6. /\ call' \in [Slots -> CallRec] /\ call'[s] = c
        /\ \A r \in Slots \ {s} : call'[r] = call[r]
    <2>1. call' = [call EXCEPT ![s] = c]
      BY <1>1, <1>2
    <2> HIDE DEF c
    <2> QED BY <1>2, <1>5, <2>1
  <1> HIDE DEF c
  <1>7. s \notin Pending /\ s \notin Pending'
    BY <1>1, <1>4, <1>5, <1>6 DEF Pending
  <1>8. bin' \in Seq(SymKeys)
    BY <1>1, <1>2 DEF CallRec
  <1>9. ServerTypes'
    BY <1>1, <1>8 DEF TargetInv, ServerTypes, AggShape
  <1>10. RanksInv'
    BY <1>1, <1>3 DEF TargetInv, RanksInv
  <1>11. SignalsCounted'
    BY <1>1 DEF TargetInv, SignalsCounted
  <1>12. SpanKey(m) # LaneKey(m)
    BY DEF SpanKey, LaneKey
  <1>13. HandlerOk(c, lanes.tids, lanes.syms, DOMAIN agg.names)
    BY <1>3, <1>4, <1>5, <1>12 DEF HandlerOk, HasLane, HasSpan, SpanPcs, Lookup, Symbols
  <1> QED BY <1>1, <1>2, <1>6, <1>7, <1>9, <1>10, <1>11, <1>13, HandlerStep

\* A written span is not counted yet: it is on the timeline and pending.
LEMMA WriteSpansKept ==
  ASSUME TargetInv, NEW s \in Slots, WriteSpans(s), UNCHANGED app
  PROVE  TargetInv'
  <1> DEFINE m == call[s].msg
             p == [pid |-> call[s].pid, lane |-> m.lane, tid |-> call[s].tid, name |-> m.name,
                   laneAddr |-> call[s].addr[1], addr |-> call[s].addr[2]]
  <1>1. /\ call[s].pc = "write" /\ UNCHANGED <<run, begun, bin, lanes, obs>>
        /\ agg' = IF m.dur = 0 THEN agg ELSE [agg EXCEPT !.spans = Append(@, p)]
    BY DEF WriteSpans
  <1>2. PICK o \in IF m.dur > 0 THEN LinkOutcome(s) ELSE {"none"} :
          call' = [call EXCEPT ![s].pc = "count", ![s].link = o]
    BY DEF WriteSpans
  <1> DEFINE c == [call[s] EXCEPT !.pc = "count", !.link = o]
  <1>3. /\ call \in [Slots -> CallRec] /\ call[s] \in CallRec /\ AggShape
        /\ lanes \in LanesRec /\ HandlerOk(call[s], lanes.tids, lanes.syms, DOMAIN agg.names)
        /\ begun = "idle" /\ Own = Targets[agg.run]
        /\ Grown(lanes.tids, lanes.tids) /\ Grown(lanes.syms, lanes.syms)
    BY <1>1, AtWork DEF Quiet, SpanPcs
  <1>4. /\ call[s].pid = Own /\ m \in SpanMsg
        /\ At(lanes.tids, call[s].tid, <<Own, m.lane>>) /\ call[s].tid \in DOMAIN agg.names
        /\ m.dur > 0 => HasLane(call[s], lanes.syms) /\ HasSpan(call[s], lanes.syms)
    BY <1>1, <1>3 DEF HandlerOk, SpanPcs
  <1>5. m.dur \in Nat
    BY <1>4 DEF SpanMsg
  <1>6. o \in Outcomes \cup {"none"}
    BY DEF LinkOutcome
  <1>7. /\ c \in CallRec /\ c.pc = "count" /\ c.pid = Own /\ c.msg = m /\ c.link = o
    BY <1>3, <1>4, <1>6 DEF CallRec, Pcs, SpanPcs
  <1>8. /\ call' \in [Slots -> CallRec] /\ call'[s] = c
        /\ \A r \in Slots \ {s} : call'[r] = call[r]
    BY <1>2, <1>3, <1>7
  <1> HIDE DEF c
  <1>9. HandlerOk(c, lanes.tids, lanes.syms, DOMAIN agg.names)
    BY <1>4, <1>6, <1>7 DEF HandlerOk, SpanPcs, Lookup, Symbols
  <1>10. /\ agg'.run = agg.run /\ agg'.names = agg.names
         /\ agg' = [run |-> agg'.run, spans |-> agg'.spans, names |-> agg'.names]
         /\ agg'.spans = IF m.dur = 0 THEN agg.spans ELSE Append(agg.spans, p)
    BY <1>1, <1>3 DEF AggShape
  <1>11. m.dur # 0 => /\ p \in SpanRec
                      /\ SpanOk(p, lanes.tids, lanes.syms, DOMAIN agg.names)
    <2> SUFFICES ASSUME m.dur # 0
                 PROVE  p \in SpanRec /\ SpanOk(p, lanes.tids, lanes.syms, DOMAIN agg.names)
      OBVIOUS
    <2>1. /\ At(lanes.syms, call[s].addr[1], LaneKey(m))
          /\ At(lanes.syms, call[s].addr[2], SpanKey(m))
      BY <1>4, <1>5 DEF HasLane, HasSpan
    <2>2. call[s].addr[1] \in Nat /\ call[s].addr[2] \in Nat
      BY <2>1 DEF At
    <2>3. m.lane \in SpanLanes /\ m.name \in SpanNames
      BY <1>4 DEF SpanMsg, SpanLanes, SpanNames
    <2>4. p \in SpanRec
      BY <1>3, <1>4, <2>2, <2>3 DEF SpanRec, CallRec
    <2>5. LaneKey(p) = LaneKey(m) /\ SpanKey(p) = SpanKey(m)
      BY DEF LaneKey, SpanKey
    <2>6. SpanOk(p, lanes.tids, lanes.syms, DOMAIN agg.names)
      BY <1>4, <2>1, <2>5 DEF SpanOk
    <2> QED BY <2>4, <2>6
  <1> HIDE DEF p
  <1>12. agg.spans \in Seq(SpanRec) /\ Len(agg.spans) \in Nat
    BY <1>3, LenProperties DEF AggShape
  <1>13. m.dur # 0 =>
           /\ agg'.spans \in Seq(SpanRec) /\ Len(agg'.spans) = Len(agg.spans) + 1
           /\ \A i \in 1 .. Len(agg.spans) : agg'.spans[i] = agg.spans[i]
           /\ agg'.spans[Len(agg.spans) + 1] = p
    BY <1>10, <1>11, <1>12, AppendProperties
  <1>14. ServerTypes'
    BY <1>1, <1>10, <1>12, <1>13 DEF TargetInv, ServerTypes, AggShape
  <1>15. AppTypes' /\ RunInv'
    BY <1>1, <1>3, <1>10 DEF TargetInv, AppTypes, RunInv, app
  <1>16. RanksInv' /\ SignalsCounted'
    BY <1>1, <1>10 DEF TargetInv, RanksInv, SignalsCounted
  <1>17. /\ HandlersInv'
         /\ \A i \in 1 .. Len(agg.spans) :
              SpanOk(agg.spans[i], lanes.tids, lanes.syms, DOMAIN agg.names)
    BY <1>1, <1>3, <1>8, <1>9, <1>10, OthersKept
  <1>18. TimelineInv'
    <2>1. CASE m.dur = 0
      BY <1>1, <1>3, <1>10, <1>17, <2>1 DEF TimelineInv
    <2>2. CASE m.dur # 0
      <3>1. \A i \in 1 .. Len(agg'.spans) :
              SpanOk(agg'.spans[i], lanes.tids, lanes.syms, DOMAIN agg.names)
        BY <1>11, <1>12, <1>13, <1>17, <2>2
      <3> QED BY <1>1, <1>3, <1>10, <3>1 DEF TimelineInv
    <2> QED BY <2>1, <2>2
  <1>19. CountsInv'
    <2>1. IsFiniteSet(Pending) /\ s \notin Pending
      BY <1>1, SlotsAssumption, FS_Subset DEF Pending
    <2>2. Pending' = IF m.dur > 0 THEN Pending \cup {s} ELSE Pending
      BY <1>1, <1>7, <1>8 DEF Pending
    <2>3. Cardinality(Pending) \in Nat /\ Cardinality(Pending \cup {s}) = Cardinality(Pending) + 1
      BY <2>1, FS_CardinalityType, FS_AddElement
    <2>4. lanes.recorded \in Nat
      BY <1>3 DEF LanesRec
    <2>5. /\ lanes.received = lanes.recorded + lanes.bad
          /\ lanes.recorded + Cardinality(Pending) = Len(agg.spans)
      BY <1>3 DEF TargetInv, CountsInv
    <2>6. lanes.recorded + Cardinality(Pending') = Len(agg'.spans)
      <3>1. CASE m.dur = 0
        BY <1>10, <2>2, <2>5, <3>1
      <3>2. CASE m.dur # 0
        <4>1. Cardinality(Pending') = Cardinality(Pending) + 1
          BY <1>5, <2>2, <2>3, <3>2
        <4>2. Len(agg'.spans) = Len(agg.spans) + 1
          BY <1>13, <3>2
        <4>3. lanes.recorded + (Cardinality(Pending) + 1) = Len(agg.spans) + 1
          BY <1>12, <2>3, <2>4, <2>5
        <4> QED BY <4>1, <4>2, <4>3
      <3> QED BY <3>1, <3>2
    <2> QED BY <1>1, <2>5, <2>6 DEF CountsInv
  <1> QED BY <1>8, <1>14, <1>15, <1>16, <1>17, <1>18, <1>19 DEF TargetInv

\* Counting the batch takes the span off the pending ones.
LEMMA RecordBatchKept ==
  ASSUME TargetInv, NEW s \in Slots, RecordBatch(s), UNCHANGED app
  PROVE  TargetInv'
  <1> DEFINE m == call[s].msg
             o == call[s].link
             c == [call[s] EXCEPT !.pc = "done"]
             n == RecordedSpans(s)
             w == IF o = "none" THEN 0 ELSE 1
  <1>1. /\ call[s].pc = "count" /\ UNCHANGED <<run, begun, agg, bin, obs>>
        /\ call' = [call EXCEPT ![s].pc = "done"]
        /\ lanes' = [lanes EXCEPT !.received = @ + 1, !.recorded = @ + n, !.bad = @ + (1 - n),
                                  !.withOrigin = @ + w, !.links = CountLink(@, o)]
    BY DEF RecordBatch, Finish, Step
  <1>2. /\ call \in [Slots -> CallRec] /\ call[s] \in CallRec /\ AggShape
        /\ lanes \in LanesRec /\ HandlerOk(call[s], lanes.tids, lanes.syms, DOMAIN agg.names)
        /\ begun = "idle" /\ Own = Targets[agg.run]
        /\ Grown(lanes.tids, lanes.tids) /\ Grown(lanes.syms, lanes.syms)
    BY <1>1, AtWork DEF Quiet, SpanPcs
  <1>3. call[s].pid = Own /\ m \in SpanMsg /\ o \in Outcomes \cup {"none"}
    BY <1>1, <1>2 DEF HandlerOk, SpanPcs
  <1>4. n \in {0, 1} /\ (n = 1 <=> m.dur > 0)
    BY DEF RecordedSpans
  <1>5. CountLink(lanes.links, o) \in [LinkResults -> Nat]
    <2>1. lanes.links \in [LinkResults -> Nat]
      BY <1>2 DEF LanesRec
    <2> QED BY <1>3, <2>1, OutcomesAssumption DEF CountLink
  <1>6. w \in {0, 1}
    OBVIOUS
  <1> HIDE DEF n, w
  <1>7. /\ lanes.received \in Nat /\ lanes.recorded \in Nat /\ lanes.bad \in Nat
        /\ lanes.withOrigin \in Nat
    BY <1>2 DEF LanesRec
  <1>8. /\ lanes.received + 1 \in Nat /\ lanes.recorded + n \in Nat
        /\ lanes.bad + (1 - n) \in Nat /\ lanes.withOrigin + w \in Nat
    BY <1>4, <1>6, <1>7
  <1>9. /\ lanes' \in LanesRec /\ lanes'.tids = lanes.tids /\ lanes'.syms = lanes.syms
        /\ lanes'.received = lanes.received + 1 /\ lanes'.recorded = lanes.recorded + n
        /\ lanes'.bad = lanes.bad + (1 - n)
    BY <1>1, <1>2, <1>5, <1>8 DEF LanesRec
  <1>10. c \in CallRec /\ c.pc = "done" /\ c.pid = Own
    BY <1>2, <1>3 DEF CallRec, Pcs, Quiet
  <1>11. /\ call' \in [Slots -> CallRec] /\ call'[s] = c
         /\ \A r \in Slots \ {s} : call'[r] = call[r]
    BY <1>1, <1>2, <1>10
  <1> HIDE DEF c
  <1>12. HandlerOk(c, lanes.tids, lanes.syms, DOMAIN agg.names) /\ c.pc \notin SpanPcs
    BY <1>10 DEF HandlerOk, SpanPcs, Lookup, Symbols
  <1>13. ServerTypes'
    BY <1>1, <1>9 DEF TargetInv, ServerTypes, AggShape
  <1>14. AppTypes' /\ RunInv'
    BY <1>1, <1>2 DEF TargetInv, AppTypes, RunInv, app
  <1>15. RanksInv' /\ SignalsCounted'
    BY <1>1, <1>9 DEF TargetInv, RanksInv, SignalsCounted
  <1>16. /\ HandlersInv'
         /\ \A i \in 1 .. Len(agg.spans) :
              SpanOk(agg.spans[i], lanes'.tids, lanes'.syms, DOMAIN agg'.names)
    BY <1>1, <1>2, <1>9, <1>11, <1>12, OthersKept
  <1>17. TimelineInv'
    BY <1>1, <1>16 DEF TargetInv, TimelineInv
  <1>18. CountsInv'
    <2>1. IsFiniteSet(Pending) /\ (s \in Pending <=> n = 1)
      BY <1>1, <1>4, SlotsAssumption, FS_Subset DEF Pending
    <2>2. Pending' = Pending \ {s}
      BY <1>10, <1>11 DEF Pending
    <2>3. /\ Cardinality(Pending) \in Nat
          /\ Cardinality(Pending \ {s}) = IF s \in Pending THEN Cardinality(Pending) - 1
                                          ELSE Cardinality(Pending)
      BY <2>1, FS_CardinalityType, FS_RemoveElement
    <2>4. lanes.received = lanes.recorded + lanes.bad
          /\ lanes.recorded + Cardinality(Pending) = Len(agg.spans)
      BY <1>2 DEF TargetInv, CountsInv
    <2>5. lanes.recorded + n + Cardinality(Pending') = Len(agg.spans)
      BY <1>4, <1>7, <2>1, <2>2, <2>3, <2>4
    <2> QED BY <1>1, <1>4, <1>7, <1>9, <2>4, <2>5 DEF CountsInv
  <1> QED BY <1>11, <1>13, <1>14, <1>15, <1>16, <1>17, <1>18 DEF TargetInv

\* The accounting of one store.
ObsOk(o) ==
  /\ Len(o.events) <= MaxEvents /\ Range(o.events) \subseteq o.kinds
  /\ o.received = Len(o.events) + o.evicted + o.unknown

\* One event more is stored, evicts another or is unknown.
LEMMA OneMore ==
  ASSUME NEW l \in Nat, NEW e \in Nat, NEW k \in Nat, NEW u \in Nat, NEW v \in Nat
  PROVE  (l + e + k) + 1 = (l + (1 - u) - v) + (e + v) + (k + u)
  OBVIOUS

\* A batch keeps it, at the bound and below it.
LEMMA StoreSignalsOk ==
  ASSUME NEW o \in ObsRec, ObsOk(o), NEW m \in SignalMsg
  PROVE  StoreSignals(o, m) \in ObsRec /\ ObsOk(StoreSignals(o, m))
  <1> DEFINE ks    == o.kinds \cup m.defs
             known == m.event \in ks
             full  == Len(o.events) = MaxEvents
             u     == IF known THEN 0 ELSE 1
             r     == IF known THEN 1 ELSE 0
             v     == IF known /\ full THEN 1 ELSE 0
             es    == IF known THEN PushBounded(o.events, m.event) ELSE o.events
  <1>1. /\ o.kinds \subseteq AllKinds /\ o.events \in Seq(AllKinds) /\ Len(o.events) \in Nat
        /\ o.received \in Nat /\ o.recorded \in Nat /\ o.unknown \in Nat /\ o.evicted \in Nat
    BY LenProperties DEF ObsRec
  <1>2. ks \subseteq AllKinds /\ o.kinds \subseteq ks
    BY <1>1 DEF SignalMsg
  <1>3. Range(o.events) \subseteq ks
    BY <1>2 DEF ObsOk
  <1>4. CASE m.event = "none"
    <2>1. StoreSignals(o, m) = [o EXCEPT !.kinds = ks]
      BY <1>4 DEF StoreSignals
    <2> HIDE DEF ks
    <2> QED BY <1>2, <1>3, <2>1 DEF ObsRec, ObsOk
  <1>5. CASE m.event # "none"
    <2>1. StoreSignals(o, m) =
            [o EXCEPT !.kinds = ks, !.received = @ + 1, !.unknown = @ + u, !.recorded = @ + r,
                      !.evicted = @ + v, !.events = es]
      BY <1>5 DEF StoreSignals
    <2>2. /\ \/ known /\ u = 0 /\ r = 1
             \/ ~known /\ u = 1 /\ r = 0
          /\ \/ known /\ full /\ v = 1
             \/ ~(known /\ full) /\ v = 0
      OBVIOUS
    <2>3. /\ es \in Seq(AllKinds) /\ Len(es) <= MaxEvents /\ Range(es) \subseteq ks
          /\ Len(es) = Len(o.events) + r - v
      <3>1. CASE ~known
        BY <1>1, <1>3, <3>1 DEF ObsOk
      <3>2. CASE known
        <4> DEFINE q == IF full THEN Tail(o.events) ELSE o.events
        <4>1. m.event \in AllKinds /\ es = Append(q, m.event)
          BY <1>2, <3>2 DEF PushBounded
        <4>2. /\ q \in Seq(AllKinds) /\ Len(q) = Len(o.events) - v
              /\ \A i \in 1 .. Len(q) : q[i] \in ks
          <5>1. \A i \in 1 .. Len(o.events) : o.events[i] \in ks
            BY <1>1, <1>3, LenProperties DEF Range
          <5>2. CASE ~full
            BY <1>1, <5>1, <5>2
          <5>3. CASE full
            <6>1. o.events # <<>>
              BY <5>3, MaxEventsAssumption, EmptySeq
            <6>2. /\ Tail(o.events) \in Seq(AllKinds)
                  /\ Len(Tail(o.events)) = Len(o.events) - 1
                  /\ \A i \in 1 .. Len(Tail(o.events)) : Tail(o.events)[i] = o.events[i + 1]
              BY <1>1, <6>1, HeadTailProperties
            <6> QED BY <1>1, <3>2, <5>1, <5>3, <6>2
          <5> QED BY <5>2, <5>3
        <4> HIDE DEF q, es, ks, u, r, v, full
        <4>3. /\ es \in Seq(AllKinds) /\ Len(es) = Len(q) + 1
              /\ \A i \in 1 .. Len(q) : es[i] = q[i]
              /\ es[Len(q) + 1] = m.event
          BY <4>1, <4>2, AppendProperties
        <4>4. DOMAIN es = 1 .. Len(q) + 1 /\ Len(q) \in Nat
          BY <4>2, <4>3, LenProperties
        <4>5. ASSUME NEW i \in DOMAIN es PROVE es[i] \in ks
          <5>1. CASE i \in 1 .. Len(q)
            BY <4>2, <4>3, <5>1
          <5>2. CASE i = Len(q) + 1
            BY <3>2, <4>3, <5>2
          <5> QED BY <4>4, <5>1, <5>2
        <4>6. Range(es) \subseteq ks
          BY <4>5 DEF Range
        <4>7. Len(es) = Len(o.events) + r - v
          BY <1>1, <2>2, <3>2, <4>2, <4>3
        <4>8. Len(es) <= MaxEvents
          BY <1>1, <2>2, <3>2, <4>7, MaxEventsAssumption DEF ObsOk, full
        <4> QED BY <4>3, <4>6, <4>7, <4>8
      <3> QED BY <3>1, <3>2
    <2> HIDE DEF ks, u, r, v, es, known, full
    <2>4. /\ o.received + 1 \in Nat /\ o.recorded + r \in Nat /\ o.unknown + u \in Nat
          /\ o.evicted + v \in Nat
      BY <1>1, <2>2
    <2> DEFINE n == StoreSignals(o, m)
    <2>5. /\ n \in ObsRec /\ n.kinds = ks /\ n.events = es /\ n.received = o.received + 1
          /\ n.unknown = o.unknown + u /\ n.evicted = o.evicted + v
      BY <1>2, <2>1, <2>3, <2>4 DEF ObsRec
    <2> HIDE DEF n
    <2>6. n.received = Len(es) + n.evicted + n.unknown
      <3>1. o.received = Len(o.events) + o.evicted + o.unknown
        BY DEF ObsOk
      <3>2. u \in Nat /\ v \in Nat /\ r = 1 - u
        BY <2>2
      <3>3. \A l, e, k \in Nat : (l + e + k) + 1 = (l + (1 - u) - v) + (e + v) + (k + u)
        BY <3>2, OneMore
      <3>4. (Len(o.events) + o.evicted + o.unknown) + 1
              = (Len(o.events) + (1 - u) - v) + (o.evicted + v) + (o.unknown + u)
        BY <1>1, <3>3, Zenon
      <3>5. Len(es) = Len(o.events) + (1 - u) - v
        BY <2>3, <3>2
      <3>6. n.received = (Len(o.events) + o.evicted + o.unknown) + 1
        BY <2>5, <3>1
      <3> QED BY <2>5, <3>4, <3>5, <3>6
    <2>7. ObsOk(n)
      BY <2>3, <2>5, <2>6 DEF ObsOk
    <2> QED BY <2>5, <2>7 DEF n
  <1> QED BY <1>4, <1>5

LEMMA IngestSignalsKept ==
  ASSUME TargetInv, NEW s \in Slots, IngestSignals(s), UNCHANGED app
  PROVE  TargetInv'
  <1>1. /\ call \in [Slots -> CallRec] /\ call[s] \in CallRec /\ lanes \in LanesRec
        /\ obs \in ObsRec /\ HandlerOk(call[s], lanes.tids, lanes.syms, DOMAIN agg.names)
        /\ call[s].pc \notin Quiet => begun = "idle"
    BY AtWork
  <1>2. UNCHANGED <<run, begun, agg, bin, lanes>>
    BY DEF IngestSignals, SignalsCheck
  <1>3. ObsOk(obs) /\ (ObsOk(obs)' => SignalsCounted')
    BY DEF TargetInv, SignalsCounted, ObsOk
  <1>4. CASE SignalsCheck(s)
    <2> DEFINE c == [call[s] EXCEPT !.pc = IF ForActiveTarget(s) THEN "store" ELSE "done"]
    <2>1. /\ call[s].pc = "sent" /\ call[s].msg.t = "signals" /\ begun = "idle"
          /\ call' = [call EXCEPT ![s] = c]
      BY <1>1, <1>4 DEF SignalsCheck, Step, Finish
    <2>2. c \in CallRec /\ c.pc \in {"store", "done"} /\ c.msg = call[s].msg /\ c.pid = call[s].pid
      BY <1>1 DEF CallRec, Pcs, Quiet
    <2>3. call[s].msg \in SignalMsg
      BY <1>1, <2>1 DEF CallRec, SpanMsg, OtherMsg
    <2> HIDE DEF c
    <2>4. HandlerOk(c, lanes.tids, lanes.syms, DOMAIN agg.names) /\ c.pc \notin SpanPcs
      BY <1>1, <2>1, <2>2, <2>3 DEF HandlerOk, SpanPcs, Lookup, Symbols
    <2>5. \/ obs' = obs
          \/ obs' = [obs EXCEPT !.noRun = @ + 1]
          \/ obs' = [obs EXCEPT !.wrongPid = @ + 1]
      BY <1>4 DEF SignalsCheck
    <2>6. obs.noRun + 1 \in Nat /\ obs.wrongPid + 1 \in Nat
      BY <1>1 DEF ObsRec
    <2>7. obs' \in ObsRec /\ ObsOk(obs')
      <3>1. CASE obs' = [obs EXCEPT !.noRun = @ + 1]
        BY <1>1, <1>3, <2>6, <3>1 DEF ObsRec, ObsOk
      <3>2. CASE obs' = [obs EXCEPT !.wrongPid = @ + 1]
        BY <1>1, <1>3, <2>6, <3>2 DEF ObsRec, ObsOk
      <3> QED BY <1>1, <1>3, <2>5, <3>1, <3>2
    <2> QED BY <1>1, <1>2, <1>3, <2>1, <2>2, <2>4, <2>7, MovesOn
  <1>5. CASE call[s].pc = "store" /\ obs' = StoreSignals(obs, call[s].msg) /\ Finish(s)
    <2> DEFINE c == [call[s] EXCEPT !.pc = "done"]
    <2>1. call' = [call EXCEPT ![s] = c] /\ begun = "idle" /\ call[s].msg \in SignalMsg
      BY <1>1, <1>5 DEF Finish, Step, Quiet, HandlerOk
    <2>2. c \in CallRec /\ c.pc = "done" /\ c.pid = call[s].pid
      BY <1>1 DEF CallRec, Pcs, Quiet
    <2> HIDE DEF c
    <2>3. HandlerOk(c, lanes.tids, lanes.syms, DOMAIN agg.names) /\ c.pc \notin SpanPcs
      BY <1>1, <1>5, <2>2 DEF HandlerOk, SpanPcs, Lookup, Symbols
    <2>4. obs' \in ObsRec /\ ObsOk(obs')
      BY <1>1, <1>3, <1>5, <2>1, StoreSignalsOk
    <2> QED BY <1>1, <1>2, <1>3, <1>5, <2>1, <2>2, <2>3, <2>4, MovesOn
  <1> QED BY <1>4, <1>5 DEF IngestSignals

LEMMA ReporterStatsKept ==
  ASSUME TargetInv, NEW s \in Slots, ReporterStats(s), UNCHANGED <<run, begun, agg, bin, obs>>,
         UNCHANGED app
  PROVE  TargetInv'
  <1>1. /\ call \in [Slots -> CallRec] /\ call[s] \in CallRec /\ lanes \in LanesRec
        /\ obs' \in ObsRec /\ HandlerOk(call[s], lanes.tids, lanes.syms, DOMAIN agg.names)
        /\ call[s].pc \notin Quiet => begun = "idle"
    BY AtWork
  <1>2. SignalsCounted'
    BY DEF TargetInv, SignalsCounted
  <1>3. call[s].pc \in {"sent", "stats"} /\ begun = "idle" /\ call[s].msg.t = "stats"
    BY <1>1 DEF ReporterStats, Quiet, HandlerOk
  <1>4. PICK pc \in {"stats", "done"} : call' = [call EXCEPT ![s].pc = pc]
    BY DEF ReporterStats, Step, Finish
  <1> DEFINE c == [call[s] EXCEPT !.pc = pc]
  <1>5. call' = [call EXCEPT ![s] = c]
    BY <1>1, <1>4
  <1>6. /\ c \in CallRec /\ c.pc \in {"stats", "done"} /\ c.msg = call[s].msg
        /\ c.pid = call[s].pid
    BY <1>1 DEF CallRec, Pcs, Quiet
  <1> HIDE DEF c
  <1>7. HandlerOk(c, lanes.tids, lanes.syms, DOMAIN agg.names) /\ c.pc \notin SpanPcs
    BY <1>1, <1>3, <1>6 DEF HandlerOk, SpanPcs, Lookup, Symbols
  <1>8. call[s].msg.dropped \in Nat
    BY <1>1, <1>3 DEF CallRec, OtherMsg, SpanMsg, SignalMsg
  <1>9. /\ lanes' \in LanesRec /\ lanes'.tids = lanes.tids /\ lanes'.syms = lanes.syms
        /\ lanes'.received = lanes.received /\ lanes'.recorded = lanes.recorded
        /\ lanes'.bad = lanes.bad
    <2>1. lanes' = lanes \/ lanes' = [lanes EXCEPT !.stats = call[s].msg.dropped]
      BY DEF ReporterStats
    <2> QED BY <1>1, <1>8, <2>1 DEF LanesRec
  <1> QED BY <1>1, <1>2, <1>3, <1>5, <1>6, <1>7, <1>9, MovesOn

LEMMA ShouldReportKept ==
  ASSUME TargetInv, NEW s \in Slots, ShouldReport(s), UNCHANGED server, UNCHANGED app
  PROVE  TargetInv'
  <1>1. /\ call \in [Slots -> CallRec] /\ call[s] \in CallRec /\ lanes \in LanesRec
        /\ obs \in ObsRec /\ HandlerOk(call[s], lanes.tids, lanes.syms, DOMAIN agg.names)
    BY AtWork
  <1> DEFINE a == IF ForActiveTarget(s) THEN "yes" ELSE "no"
             c == [call[s] EXCEPT !.pc = "done", !.link = a]
  <1>2. /\ call[s].pc = "sent" /\ begun = "idle" /\ UNCHANGED <<run, begun, agg, bin, lanes, obs>>
        /\ call' = [call EXCEPT ![s].pc = "done", ![s].link = a]
    BY DEF ShouldReport, server
  <1>3. call' = [call EXCEPT ![s] = c]
    BY <1>1, <1>2
  <1>4. c \in CallRec /\ c.pc = "done" /\ c.pid = call[s].pid
    BY <1>1 DEF CallRec, Pcs, Quiet
  <1> HIDE DEF c
  <1>5. HandlerOk(c, lanes.tids, lanes.syms, DOMAIN agg.names) /\ c.pc \notin SpanPcs
    BY <1>1, <1>2, <1>4 DEF HandlerOk, SpanPcs, Lookup, Symbols
  <1>6. SignalsCounted'
    BY <1>2 DEF TargetInv, SignalsCounted
  <1> QED BY <1>1, <1>2, <1>3, <1>4, <1>5, <1>6, MovesOn

LEMMA HandleKept ==
  ASSUME TargetInv, NEW s \in Slots, Handle(s), UNCHANGED app
  PROVE  TargetInv'
  BY IngestCheckKept, LaneTidKept, SetThreadNameKept, SymbolAddrKept, PublishSymbolsKept,
     WriteSpansKept, RecordBatchKept, IngestSignalsKept, ReporterStatsKept, ShouldReportKept
     DEF Handle, IngestSpans

----------------------------------------------------------------------------
(* Run changes *)

\* Without a handler at work nothing depends on the registry.
LEMMA QuietHandlers ==
  ASSUME TargetInv, \A s \in Slots : ~Busy(s)
  PROVE  /\ \A s \in Slots : \A tids, syms, named : HandlerOk(call[s], tids, syms, named)
         /\ \A s \in Slots : call[s].pc \notin SpanPcs
         /\ Pending = {}
  <1>1. \A s \in Slots : call[s].pc \in Quiet
    BY DEF Busy, Quiet
  <1>2. \A s \in Slots : HandlerOk(call[s], lanes.tids, lanes.syms, DOMAIN agg.names)
    BY DEF TargetInv, HandlersInv
  <1> QED BY <1>1, <1>2 DEF HandlerOk, Quiet, SpanPcs, Lookup, Symbols, Pending

\* A new run starts with an empty timeline and no handler at work.
LEMMA BeginRunKept ==
  ASSUME TargetInv, ~BeginMidIngest, BeginRun, UNCHANGED app
  PROVE  TargetInv'
  <1>1. /\ \A s \in Slots : ~Busy(s)
        /\ run' = [id |-> agg.run + 1, pid |-> 0] /\ agg' = NoAgg(agg.run + 1)
        /\ begun = "idle" /\ begun' = "bins" /\ UNCHANGED <<bin, lanes, obs, call>>
    BY DEF BeginRun
  <1>2. agg.run + 1 \in Nat
    BY DEF TargetInv, ServerTypes, AggShape
  <1>3. /\ agg' = [run |-> agg'.run, spans |-> agg'.spans, names |-> agg'.names]
        /\ agg'.run = agg.run + 1 /\ agg'.spans = <<>> /\ agg'.names = <<>>
    BY <1>1 DEF NoAgg
  <1>4. agg'.spans \in Seq(SpanRec) /\ Len(agg'.spans) = 0 /\ DOMAIN agg'.names = {}
    BY <1>3, EmptySeq
  <1>5. ServerTypes'
    BY <1>1, <1>2, <1>3, <1>4 DEF TargetInv, ServerTypes, AggShape
  <1>6. AppTypes' /\ SignalsCounted' /\ (call \in [Slots -> CallRec])'
    BY <1>1 DEF TargetInv, AppTypes, SignalsCounted, app
  <1>7. RunInv'
    BY <1>1, <1>3, <1>4 DEF RunInv, Busy
  <1>8. RanksInv'
    BY <1>1, <1>4 DEF TargetInv, RanksInv
  <1>9. HandlersInv'
    BY <1>1, QuietHandlers DEF HandlersInv
  <1>10. TimelineInv' /\ CountsInv'
    BY <1>1, <1>4 DEF TimelineInv, CountsInv
  <1> QED BY <1>5, <1>6, <1>7, <1>8, <1>9, <1>10 DEF TargetInv

\* The stores of the run before are gone before the new one is let in.
LEMMA BeginResetKept ==
  ASSUME TargetInv, BeginReset, UNCHANGED app
  PROVE  TargetInv'
  <1>1. /\ begun \in {"bins", "obs", "lanes"} /\ UNCHANGED <<run, agg, call>>
        /\ \/ begun = "bins" /\ begun' = "obs" /\ bin' = <<>> /\ UNCHANGED <<lanes, obs>>
           \/ begun = "obs" /\ begun' = "lanes" /\ obs' = NoObs /\ UNCHANGED <<lanes, bin>>
           \/ begun = "lanes" /\ begun' = "idle" /\ lanes' = NoLanes /\ UNCHANGED <<obs, bin>>
    BY DEF BeginReset, ResetStores
  <1>2. /\ \A s \in Slots : ~Busy(s)
        /\ agg.spans = <<>> /\ DOMAIN agg.names = {}
        /\ begun \in {"obs", "lanes"} => bin = <<>>
    BY <1>1 DEF TargetInv, RunInv
  <1>3. bin' \in Seq(SymKeys) /\ obs' \in ObsRec /\ lanes' \in LanesRec
    BY <1>1, Constants, EmptySeq DEF TargetInv, ServerTypes
  <1>4. ServerTypes'
    BY <1>1, <1>3 DEF TargetInv, ServerTypes, AggShape
  <1>5. AppTypes' /\ (call \in [Slots -> CallRec])'
    BY <1>1 DEF TargetInv, AppTypes, app
  <1>6. RunInv'
    BY <1>1, <1>2 DEF TargetInv, RunInv, Busy
  <1>7. Len(<<>>) = 0
    BY EmptySeq
  <1>8. Distinct(lanes'.tids) /\ Distinct(lanes'.syms)
    BY <1>1, <1>7 DEF TargetInv, RanksInv, NoLanes, Distinct
  <1>9. Grown(bin', lanes'.syms)
    <2>1. lanes'.syms \in Seq(SymKeys)
      BY <1>3 DEF LanesRec
    <2>2. Len(lanes'.syms) \in Nat
      BY <2>1, LenProperties
    <2>3. bin' = <<>>
      BY <1>1, <1>2
    <2> QED BY <1>7, <2>2, <2>3 DEF Grown
  <1>10. RanksInv'
    BY <1>1, <1>2, <1>8, <1>9 DEF RanksInv
  <1>11. HandlersInv'
    BY <1>1, <1>2, QuietHandlers DEF HandlersInv
  <1>12. TimelineInv'
    BY <1>1, <1>2, <1>7 DEF TimelineInv
  <1>13. CountsInv'
    <2>1. Pending' = {} /\ Cardinality({}) = 0
      BY <1>1, <1>2, QuietHandlers, FS_EmptySet DEF Pending
    <2>2. begun' = "idle" => lanes' = NoLanes
      BY <1>1
    <2> QED BY <1>1, <1>2, <1>7, <2>1, <2>2 DEF CountsInv, NoLanes
  <1>14. SignalsCounted'
    <2>1. CASE obs' = obs
      BY <2>1 DEF TargetInv, SignalsCounted
    <2>2. CASE obs' = NoObs
      <3>1. obs'.events = <<>> /\ obs'.received = 0 /\ obs'.evicted = 0 /\ obs'.unknown = 0
        BY <2>2 DEF NoObs
      <3>2. Range(obs'.events) = {}
        BY <3>1 DEF Range
      <3> QED BY <1>7, <3>1, <3>2, MaxEventsAssumption DEF SignalsCounted
    <2> QED BY <1>1, <2>1, <2>2
  <1> QED BY <1>4, <1>5, <1>6, <1>10, <1>11, <1>12, <1>13, <1>14 DEF TargetInv

LEMMA RunChangeKept ==
  ASSUME TargetInv, ~BeginMidIngest, RunChange, UNCHANGED app
  PROVE  TargetInv'
  <1>1. ASSUME UNCHANGED <<begun, agg, bin, lanes, obs, call>>,
               run' = [id |-> run'.id, pid |-> run'.pid], run'.id \in {0, agg.run},
               run'.id = 0 => run'.pid = 0, run'.pid # 0 => run'.pid = Targets[agg.run]
        PROVE  TargetInv'
    BY <1>1 DEF TargetInv, ServerTypes, AggShape, AppTypes, RunInv, RanksInv, HandlersInv,
                TimelineInv, CountsInv, Pending, SignalsCounted, Busy, app
  <1>2. CASE TargetAttached
    <2>1. run = [id |-> run.id, pid |-> run.pid] /\ run.id \in {0, agg.run} /\ run.id # 0
      BY <1>2 DEF TargetAttached, TargetInv, ServerTypes, RunInv
    <2>2. run' = [id |-> run.id, pid |-> Targets[run.id]]
      BY <1>2, <2>1 DEF TargetAttached
    <2> QED BY <1>1, <1>2, <2>1, <2>2 DEF TargetAttached
  <1>3. CASE FinalizeRun
    BY <1>1, <1>3 DEF FinalizeRun
  <1> QED BY <1>2, <1>3, BeginRunKept, BeginResetKept DEF RunChange

----------------------------------------------------------------------------
(* The app and its worker *)

LEMMA TrySendKept ==
  ASSUME AppTypes, NEW m \in SpanMsg \cup SignalMsg, TrySend(m)
  PROVE  queue' \in Seq(SpanMsg \cup SignalMsg) /\ dropped' \in [full : Nat, closed : Nat]
  <1>1. queue \in Seq(SpanMsg \cup SignalMsg) /\ dropped \in [full : Nat, closed : Nat]
    BY DEF AppTypes
  <1>2. queue' \in {queue, Append(queue, m)}
    BY DEF TrySend, Enqueued
  <1>3. Append(queue, m) \in Seq(SpanMsg \cup SignalMsg)
    BY <1>1, AppendProperties
  <1>4. \/ dropped' = dropped
        \/ dropped' = [dropped EXCEPT !.closed = @ + 1]
        \/ dropped' = [dropped EXCEPT !.full = @ + 1]
    BY DEF TrySend
  <1>5. dropped' \in [full : Nat, closed : Nat]
    BY <1>1, <1>4
  <1> QED BY <1>1, <1>2, <1>3, <1>5

LEMMA AppStepKept ==
  ASSUME AppTypes, AppStep
  PROVE  AppTypes'
  <1>1. \A b \in BuiltSpans \cup RawSpans, o \in BOOLEAN : [b EXCEPT !.origin = o] \in SpanMsg
    BY SpansAssumption DEF SpanMsg
  <1>2. CASE CaptureOrigin \/ BeginSpan
    BY <1>2 DEF CaptureOrigin, BeginSpan, AppTypes
  <1>3. ASSUME NEW b \in BuiltSpans, ReportCaptured(b) PROVE AppTypes'
    <2>1. [b EXCEPT !.origin = (token = "origin")] \in SpanMsg
      BY <1>1
    <2>2. /\ TrySend([b EXCEPT !.origin = (token = "origin")])
          /\ UNCHANGED <<defs, kinds>>
      BY <1>3 DEF ReportCaptured
    <2> QED BY <2>1, <2>2, TrySendKept DEF AppTypes
  <1>4. ASSUME NEW b \in BuiltSpans, FinishSpan(b) PROVE AppTypes'
    <2>1. [b EXCEPT !.origin = FALSE] \in SpanMsg
      BY <1>1
    <2>2. /\ TrySend([b EXCEPT !.origin = FALSE]) \/ UNCHANGED <<queue, dropped>>
          /\ UNCHANGED <<defs, kinds>>
      BY <1>4 DEF FinishSpan
    <2> QED BY <2>1, <2>2, TrySendKept DEF AppTypes
  <1>5. ASSUME NEW b \in RawSpans, Report(b) PROVE AppTypes'
    <2>1. [b EXCEPT !.origin = FALSE] \in SpanMsg
      BY <1>1
    <2>2. TrySend([b EXCEPT !.origin = FALSE]) /\ UNCHANGED <<defs, kinds>>
      BY <1>5 DEF Report
    <2> QED BY <2>1, <2>2, TrySendKept DEF AppTypes
  <1>6. ASSUME NEW k \in kinds, Define(k) PROVE AppTypes'
    BY <1>6 DEF Define, AppTypes
  <1>7. ASSUME NEW k \in defs, Emit(k) PROVE AppTypes'
    <2>1. [t |-> "signals", defs |-> {}, event |-> k] \in SignalMsg
      BY DEF AppTypes, SignalMsg
    <2>2. TrySend([t |-> "signals", defs |-> {}, event |-> k]) /\ UNCHANGED <<defs, kinds>>
      BY <1>7 DEF Emit
    <2> QED BY <2>1, <2>2, TrySendKept DEF AppTypes
  <1> QED BY <1>2, <1>3, <1>4, <1>5, <1>6, <1>7 DEF AppStep

\* A slot that is filled holds a fresh call of this app.
LEMMA SendKept ==
  ASSUME TargetInv, UNCHANGED server, AppTypes',
         NEW s \in Slots, NEW m \in SpanMsg \cup SignalMsg \cup OtherMsg, NEW pc, Send(s, m, pc)
  PROVE  TargetInv'
  <1> DEFINE c == [NoCall EXCEPT !.pc = "sent", !.msg = m, !.pid = Own]
  <1>1. call[s].pc = "free" /\ call' = [call EXCEPT ![s] = c] /\ call \in [Slots -> CallRec]
    BY DEF Send, TargetInv
  <1>2. c \in CallRec /\ c.pc = "sent" /\ c.pid = Own /\ c.addr = <<>>
    BY Constants DEF NoCall, CallRec, Pcs, Quiet
  <1> HIDE DEF c
  <1>3. call' \in [Slots -> CallRec]
    BY <1>1, <1>2
  <1>4. \A r \in Slots : call'[r] = IF r = s THEN c ELSE call[r]
    BY <1>1
  <1> QED BY <1>1, <1>2, <1>3, <1>4, EnvStep DEF Quiet

\* A slot is freed once its call is quiet.
LEMMA FreeKept ==
  ASSUME TargetInv, UNCHANGED server, AppTypes',
         NEW w, call[w].pc \in Quiet, call' = [call EXCEPT ![w] = NoCall]
  PROVE  TargetInv'
  <1>1. call \in [Slots -> CallRec]
    BY DEF TargetInv
  <1>2. call' \in [Slots -> CallRec]
    BY <1>1, Constants
  <1>3. \A r \in Slots : call'[r] = IF r = w THEN NoCall ELSE call[r]
    BY <1>1
  <1>4. NoCall.pc = "free"
    BY DEF NoCall
  <1> QED BY <1>1, <1>2, <1>3, <1>4, EnvStep

LEMMA SameCalls ==
  ASSUME TargetInv, UNCHANGED server, AppTypes', UNCHANGED call
  PROVE  TargetInv'
  BY EnvStep DEF TargetInv

LEMMA WorkerStepKept ==
  ASSUME TargetInv, WorkerStep, UNCHANGED server
  PROVE  TargetInv'
  <1>1. AppTypes
    BY DEF TargetInv
  <1>2. CASE PollGate
    <2>1. AppTypes'
      BY <1>1, <1>2 DEF PollGate, AppTypes
    <2>2. [t |-> "gate"] \in OtherMsg
      BY DEF OtherMsg
    <2>3. UNCHANGED call \/ \E s \in Slots : Send(s, [t |-> "gate"], "gate")
      BY <1>2 DEF PollGate
    <2> QED BY <2>1, <2>2, <2>3, SendKept, SameCalls
  <1>3. CASE GateAnswered
    <2>1. AppTypes' /\ call[wcall].pc = "done" /\ call' = [call EXCEPT ![wcall] = NoCall]
      BY <1>1, <1>3 DEF GateAnswered, AppTypes
    <2>2. call[wcall].pc \in Quiet
      BY <2>1 DEF Quiet
    <2> QED BY <2>1, <2>2, FreeKept
  <1>4. CASE RisingEdge
    <2> DEFINE m == [t |-> "signals", defs |-> defs, event |-> "none"]
    <2>1. AppTypes'
      BY <1>1, <1>4 DEF RisingEdge, AppTypes
    <2>2. m \in SignalMsg
      BY <1>1 DEF AppTypes, SignalMsg
    <2>3. UNCHANGED call \/ \E s \in Slots : Send(s, m, "defs")
      BY <1>4 DEF RisingEdge
    <2> HIDE DEF m
    <2> QED BY <2>1, <2>2, <2>3, SendKept, SameCalls
  <1>5. CASE SendStats
    <2> DEFINE m == [t |-> "stats", dropped |-> dropped.full + dropped.closed]
    <2>1. AppTypes'
      BY <1>1, <1>5 DEF SendStats, AppTypes
    <2>2. dropped.full + dropped.closed \in Nat
      BY <1>1 DEF AppTypes
    <2>3. m \in OtherMsg
      BY <2>2 DEF OtherMsg
    <2>4. UNCHANGED call \/ \E s \in Slots : Send(s, m, "await")
      BY <1>5 DEF SendStats
    <2> HIDE DEF m
    <2> QED BY <2>1, <2>3, <2>4, SendKept, SameCalls
  <1>6. CASE SendBatch
    <2>1. queue \in Seq(SpanMsg \cup SignalMsg) /\ queue # <<>>
      BY <1>1, <1>6 DEF SendBatch, AppTypes
    <2>2. Head(queue) \in SpanMsg \cup SignalMsg /\ Tail(queue) \in Seq(SpanMsg \cup SignalMsg)
      BY <2>1, HeadTailProperties
    <2>3. AppTypes'
      BY <1>1, <1>6, <2>2 DEF SendBatch, AppTypes
    <2>4. UNCHANGED call \/ \E s \in Slots : Send(s, Head(queue), "await")
      BY <1>6 DEF SendBatch
    <2> QED BY <2>2, <2>3, <2>4, SendKept, SameCalls
  <1>7. CASE Answered
    <2>1. AppTypes' /\ call[wcall].pc = "done" /\ call' = [call EXCEPT ![wcall] = NoCall]
      BY <1>1, <1>7 DEF Answered, AppTypes
    <2>2. call[wcall].pc \in Quiet
      BY <2>1 DEF Quiet
    <2> QED BY <2>1, <2>2, FreeKept
  <1> QED BY <1>2, <1>3, <1>4, <1>5, <1>6, <1>7 DEF WorkerStep

----------------------------------------------------------------------------
(* The theorems *)

LEMMA TargetInit ==
  ASSUME Init
  PROVE  TargetInv
  <1>1. /\ run = [id |-> 0, pid |-> 0] /\ begun = "idle" /\ agg = NoAgg(0) /\ bin = <<>>
        /\ lanes = NoLanes /\ obs = NoObs /\ call = [s \in Slots |-> NoCall]
    BY DEF Init, IngestInit
  <1>2. /\ agg = [run |-> agg.run, spans |-> agg.spans, names |-> agg.names]
        /\ agg.run = 0 /\ agg.spans = <<>> /\ agg.names = <<>>
    BY <1>1 DEF NoAgg
  <1>3. Len(<<>>) = 0 /\ DOMAIN agg.names = {}
    BY <1>2, EmptySeq
  <1>4. ServerTypes
    <2>1. run = [id |-> run.id, pid |-> run.pid]
      BY <1>1
    <2>2. AggShape
      BY <1>2, EmptySeq DEF AggShape
    <2>3. bin \in Seq(SymKeys) /\ lanes \in LanesRec /\ obs \in ObsRec
      BY <1>1, Constants, EmptySeq
    <2> QED BY <1>1, <2>1, <2>2, <2>3 DEF ServerTypes
  <1>5. AppTypes
    BY EmptySeq DEF Init, ReporterInit, AppTypes, AllKinds
  <1>6. call \in [Slots -> CallRec] /\ \A s \in Slots : call[s].pc = "free"
    BY <1>1, Constants DEF NoCall
  <1>7. RunInv
    BY <1>1, <1>2, <1>3 DEF RunInv
  <1>8. RanksInv
    BY <1>1, <1>3 DEF RanksInv, NoLanes, Distinct, Grown
  <1>9. HandlersInv
    BY <1>6 DEF HandlersInv, HandlerOk, SpanPcs, Lookup, Symbols
  <1>10. TimelineInv
    BY <1>2, <1>3 DEF TimelineInv
  <1>11. CountsInv
    <2>1. Pending = {} /\ Cardinality({}) = 0
      BY <1>6, FS_EmptySet DEF Pending
    <2> QED BY <1>1, <1>2, <1>3, <2>1 DEF CountsInv, NoLanes
  <1>12. SignalsCounted
    <2>1. Range(<<>>) = {}
      BY DEF Range
    <2> QED BY <1>1, <1>3, <2>1, MaxEventsAssumption DEF SignalsCounted, NoObs
  <1> QED BY <1>4, <1>5, <1>6, <1>7, <1>8, <1>9, <1>10, <1>11, <1>12 DEF TargetInv

LEMMA TargetNext ==
  ASSUME TargetInv, ~BeginMidIngest, [Next]_vars
  PROVE  TargetInv'
  <1>1. AppTypes
    BY DEF TargetInv
  <1>2. CASE AppStep /\ UNCHANGED <<server, call>>
    BY <1>1, <1>2, AppStepKept, SameCalls
  <1>3. CASE WorkerStep /\ UNCHANGED server
    BY <1>3, WorkerStepKept
  <1>4. CASE GiveUp /\ UNCHANGED server
    <2>1. AppTypes'
      BY <1>1, <1>4 DEF GiveUp, AppTypes
    <2>2. \/ UNCHANGED call
          \/ call[wcall].pc \in Quiet /\ call' = [call EXCEPT ![wcall] = NoCall]
      BY <1>4 DEF GiveUp, Quiet
    <2> QED BY <1>4, <2>1, <2>2, FreeKept, SameCalls
  <1>5. ASSUME NEW s \in Slots, Orphaned(s), UNCHANGED server PROVE TargetInv'
    <2>1. AppTypes'
      BY <1>1, <1>5 DEF Orphaned, AppTypes, app
    <2>2. call[s].pc \in Quiet /\ call' = [call EXCEPT ![s] = NoCall]
      BY <1>5 DEF Orphaned, Quiet
    <2> QED BY <1>5, <2>1, <2>2, FreeKept
  <1>6. ASSUME NEW s \in Slots, Handle(s), UNCHANGED app PROVE TargetInv'
    BY <1>6, HandleKept
  <1>7. CASE RunChange /\ UNCHANGED app
    BY <1>7, RunChangeKept
  <1>8. CASE UNCHANGED vars
    <2>1. UNCHANGED server /\ UNCHANGED call /\ AppTypes'
      BY <1>1, <1>8 DEF vars, AppTypes, app
    <2> QED BY <2>1, SameCalls
  <1> QED BY <1>2, <1>3, <1>4, <1>5, <1>6, <1>7, <1>8 DEF Next

\* The invariant of target reporting as long as no run begins while a handler is
\* at work: ranks are given out once, what a handler checked, looked up or
\* registered in one lock section still holds in the next, and the counters of
\* the registry and the store match what they hold.
THEOREM TargetInvariant ==
  ASSUME ~BeginMidIngest
  PROVE  Spec => []TargetInv
  BY TargetInit, TargetNext, PTL DEF Spec

\* Under that condition every span on a run's timeline was reported by the
\* process the run records (ingest checks the pid sections before it writes).
THEOREM OnlyTargetSpansThm ==
  ASSUME ~BeginMidIngest
  PROVE  Spec => []OnlyTargetSpans
  <1>1. TargetInv => OnlyTargetSpans
    <2> SUFFICES ASSUME TargetInv, NEW i \in DOMAIN agg.spans
                 PROVE  agg.spans[i].pid = Targets[agg.run]
      BY DEF OnlyTargetSpans
    <2>1. agg.spans \in Seq(SpanRec) /\ DOMAIN agg.spans = 1 .. Len(agg.spans)
      BY LenProperties DEF TargetInv, ServerTypes, AggShape
    <2>2. agg.spans[i] \in SpanRec
      BY <2>1, ElementOfSeq
    <2>3. agg.spans[i].pid = Own
      BY <2>2 DEF SpanRec
    <2> QED BY <2>1, <2>3 DEF TargetInv, TimelineInv
  <1> QED BY <1>1, TargetInvariant, PTL

\* Over any number of handlers and any interleaving of their lock sections, spans
\* share a synthetic thread exactly when they share process and lane, the thread
\* bears the lane's name, and a published symbol list never gives an address
\* another name than the one it was given out for (lane_tid, symbol_addr).
THEOREM NamesNeverWrongThm ==
  ASSUME ~BeginMidIngest
  PROVE  Spec => []NamesNeverWrong
  <1>1. TargetInv => NamesNeverWrong
    <2> SUFFICES ASSUME TargetInv, NEW i \in DOMAIN agg.spans, NEW j \in DOMAIN agg.spans
                 PROVE  LET a == agg.spans[i]
                            b == agg.spans[j]
                        IN /\ (a.tid = b.tid) <=> (<<a.pid, a.lane>> = <<b.pid, b.lane>>)
                           /\ agg.names[a.tid] = a.lane
                           /\ a.addr <= Len(bin) => bin[a.addr] = <<"span", a.name>>
                           /\ a.laneAddr <= Len(bin) => bin[a.laneAddr] = <<"lane", a.lane>>
      BY DEF NamesNeverWrong
    <2> DEFINE a == agg.spans[i]
               b == agg.spans[j]
    <2>1. agg.spans \in Seq(SpanRec) /\ DOMAIN agg.spans = 1 .. Len(agg.spans)
      BY LenProperties DEF TargetInv, ServerTypes, AggShape
    <2>2. /\ SpanOk(a, lanes.tids, lanes.syms, DOMAIN agg.names)
          /\ SpanOk(b, lanes.tids, lanes.syms, DOMAIN agg.names)
      BY <2>1 DEF TargetInv, TimelineInv
    <2> SUFFICES /\ (a.tid = b.tid) <=> (<<a.pid, a.lane>> = <<b.pid, b.lane>>)
                 /\ agg.names[a.tid] = a.lane
                 /\ a.addr <= Len(bin) => bin[a.addr] = <<"span", a.name>>
                 /\ a.laneAddr <= Len(bin) => bin[a.laneAddr] = <<"lane", a.lane>>
      OBVIOUS
    <2> HIDE DEF a, b
    <2>3. (a.tid = b.tid) <=> (<<a.pid, a.lane>> = <<b.pid, b.lane>>)
      <3>1. /\ a.tid \in 1 .. Len(lanes.tids) /\ lanes.tids[a.tid] = <<a.pid, a.lane>>
            /\ b.tid \in 1 .. Len(lanes.tids) /\ lanes.tids[b.tid] = <<b.pid, b.lane>>
        BY <2>2 DEF SpanOk, At
      <3>2. Distinct(lanes.tids)
        BY DEF TargetInv, RanksInv
      <3>3. CASE a.tid = b.tid
        BY <3>1, <3>3
      <3>4. CASE <<a.pid, a.lane>> = <<b.pid, b.lane>>
        <4>1. lanes.tids[a.tid] = lanes.tids[b.tid]
          BY <3>1, <3>4
        <4>2. a.tid = b.tid
          BY <3>1, <3>2, <4>1 DEF Distinct
        <4> QED BY <3>4, <4>2
      <3> QED BY <3>3, <3>4
    <2>4. agg.names[a.tid] = a.lane
      BY <2>2 DEF SpanOk, At, TargetInv, RanksInv
    <2>5. bin \in Seq(SymKeys) /\ Len(bin) \in Nat /\ Grown(bin, lanes.syms)
      BY LenProperties DEF TargetInv, ServerTypes, RanksInv
    <2>6. /\ a.addr <= Len(bin) => bin[a.addr] = <<"span", a.name>>
          /\ a.laneAddr <= Len(bin) => bin[a.laneAddr] = <<"lane", a.lane>>
      <3>1. /\ a.addr \in 1 .. Len(lanes.syms) /\ lanes.syms[a.addr] = <<"span", a.name>>
            /\ a.laneAddr \in 1 .. Len(lanes.syms)
            /\ lanes.syms[a.laneAddr] = <<"lane", a.lane>>
        BY <2>2 DEF SpanOk, At, SpanKey, LaneKey
      <3>2. \A k \in 1 .. Len(lanes.syms) : k <= Len(bin) => bin[k] = lanes.syms[k]
        BY <2>5 DEF Grown
      <3> QED BY <3>1, <3>2
    <2> QED BY <2>3, <2>4, <2>6
  <1> QED BY <1>1, TargetInvariant, PTL

\* The span counters: between two calls every span received is recorded or
\* dropped, and the recorded ones are the ones on the timeline (record_batch).
THEOREM SpansCountedThm ==
  ASSUME ~BeginMidIngest
  PROVE  Spec => []SpansCounted
  <1>1. TargetInv => SpansCounted
    <2> SUFFICES ASSUME TargetInv, ServerIdle
                 PROVE  /\ lanes.received = lanes.recorded + lanes.bad
                        /\ lanes.recorded = Len(agg.spans)
      BY DEF SpansCounted, Diagnostics
    <2>1. Pending = {} /\ begun = "idle"
      BY DEF ServerIdle, Busy, Pending
    <2>2. Cardinality(Pending) = 0
      BY <2>1, FS_EmptySet
    <2>3. lanes.recorded \in Nat
      BY DEF TargetInv, ServerTypes, LanesRec
    <2> QED BY <2>1, <2>2, <2>3 DEF TargetInv, CountsInv
  <1> QED BY <1>1, TargetInvariant, PTL

\* At all times every event received is stored under a kind the store knows,
\* evicted at the bound or counted as unknown (ObservabilityStore::ingest).
THEOREM SignalsCountedThm ==
  ASSUME ~BeginMidIngest
  PROVE  Spec => []SignalsCounted
  BY TargetInvariant, PTL DEF TargetInv

\* Every origin looked up ended in one of the five ways.
LinksExact ==
  lanes.withOrigin = lanes.links["linked"] + lanes.links["invalid_tid"] + lanes.links["no_thread"]
                     + lanes.links["no_stack"] + lanes.links["too_far"]

\* One more origin with its outcome: the counter of that outcome moves, no other.
LEMMA OneMoreLink ==
  ASSUME NEW f \in [LinkResults -> Nat], NEW o \in LinkResults
  PROVE  LET g == [f EXCEPT ![o] = @ + 1]
         IN  g["linked"] + g["invalid_tid"] + g["no_thread"] + g["no_stack"] + g["too_far"]
             = f["linked"] + f["invalid_tid"] + f["no_thread"] + f["no_stack"] + f["too_far"] + 1
  <1>1. \A r \in LinkResults : f[r] \in Nat
    OBVIOUS
  <1>2. PICK a \in Nat, b \in Nat, c \in Nat, d \in Nat, e \in Nat :
          /\ a = f["linked"] /\ b = f["invalid_tid"] /\ c = f["no_thread"]
          /\ d = f["no_stack"] /\ e = f["too_far"]
    BY <1>1 DEF LinkResults
  <1>3. PICK g : g = [f EXCEPT ![o] = @ + 1]
    OBVIOUS
  <1>4. \A r \in LinkResults : g[r] = IF r = o THEN f[r] + 1 ELSE f[r]
    BY <1>3
  <1>5. /\ g["linked"] = IF o = "linked" THEN a + 1 ELSE a
        /\ g["invalid_tid"] = IF o = "invalid_tid" THEN b + 1 ELSE b
        /\ g["no_thread"] = IF o = "no_thread" THEN c + 1 ELSE c
        /\ g["no_stack"] = IF o = "no_stack" THEN d + 1 ELSE d
        /\ g["too_far"] = IF o = "too_far" THEN e + 1 ELSE e
    BY <1>2, <1>4 DEF LinkResults
  <1>6. g["linked"] + g["invalid_tid"] + g["no_thread"] + g["no_stack"] + g["too_far"]
        = a + b + c + d + e + 1
    <2>1. CASE o = "linked"       BY <2>1, <1>5
    <2>2. CASE o = "invalid_tid"  BY <2>2, <1>5
    <2>3. CASE o = "no_thread"    BY <2>3, <1>5
    <2>4. CASE o = "no_stack"     BY <2>4, <1>5
    <2>5. CASE o = "too_far"      BY <2>5, <1>5
    <2> QED BY <2>1, <2>2, <2>3, <2>4, <2>5 DEF LinkResults
  <1> QED BY <1>2, <1>3, <1>6

\* Only record_batch and a new run touch these counters.
LEMMA LinksStep ==
  ASSUME TargetInv, LinksExact, [Next]_vars
  PROVE  LinksExact'
  <1>0. lanes \in LanesRec
    BY DEF TargetInv, ServerTypes
  <1>1. ASSUME NEW s \in Slots, RecordBatch(s) PROVE LinksExact'
    <2>1. call[s].pc = "count" /\ call[s].link \in Outcomes \cup {"none"}
      BY <1>1 DEF RecordBatch, TargetInv, HandlersInv, HandlerOk
    <2>2. PICK o : o = call[s].link
      OBVIOUS
    <2>3. PICK w \in {0, 1} : w = IF o = "none" THEN 0 ELSE 1
      OBVIOUS
    <2>4. lanes'.withOrigin = lanes.withOrigin + w /\ lanes'.links = CountLink(lanes.links, o)
      BY <1>0, <1>1, <2>2, <2>3 DEF RecordBatch, LanesRec
    <2>5. lanes.links \in [LinkResults -> Nat] /\ lanes.withOrigin \in Nat
      BY <1>0 DEF LanesRec
    <2>6. CASE o = "none"
      BY <2>3, <2>4, <2>5, <2>6 DEF LinksExact, CountLink
    <2>7. CASE o # "none"
      <3>1. o \in LinkResults /\ w = 1
        BY <2>1, <2>2, <2>3, <2>7, OutcomesAssumption
      <3>2. lanes'.links = [lanes.links EXCEPT ![o] = @ + 1]
        BY <2>4, <2>7 DEF CountLink
      <3> QED BY <2>4, <2>5, <3>1, <3>2, OneMoreLink DEF LinksExact
    <2> QED BY <2>6, <2>7
  <1>2. ASSUME lanes'.withOrigin = lanes.withOrigin, lanes'.links = lanes.links PROVE LinksExact'
    BY <1>2 DEF LinksExact
  <1>3. ASSUME NEW s \in Slots, IngestSpans(s) PROVE LinksExact'
    <2>1. CASE IngestCheck(s)
      BY <1>0, <1>2, <2>1 DEF IngestCheck, LanesRec
    <2>2. CASE LaneTid(s)
      BY <1>0, <1>2, <2>2 DEF LaneTid, LanesRec
    <2>3. CASE SymbolAddr(s)
      BY <1>0, <1>2, <2>3 DEF SymbolAddr, LanesRec
    <2>4. CASE SetThreadName(s) \/ PublishSymbols(s) \/ WriteSpans(s)
      BY <1>2, <2>4 DEF SetThreadName, PublishSymbols, WriteSpans
    <2> QED BY <1>1, <1>3, <2>1, <2>2, <2>3, <2>4 DEF IngestSpans
  <1>4. ASSUME NEW s \in Slots, Handle(s) PROVE LinksExact'
    <2>1. CASE IngestSignals(s)
      BY <1>2, <2>1 DEF IngestSignals, SignalsCheck
    <2>2. CASE ReporterStats(s)
      BY <1>0, <1>2, <2>2 DEF ReporterStats, LanesRec
    <2>3. CASE ShouldReport(s) /\ UNCHANGED server
      BY <1>2, <2>3 DEF server
    <2> QED BY <1>3, <1>4, <2>1, <2>2, <2>3 DEF Handle
  <1>5. CASE RunChange
    <2>1. CASE lanes' = NoLanes
      BY <2>1 DEF LinksExact, NoLanes, LinkResults
    <2>2. CASE lanes' = lanes
      BY <1>2, <2>2
    <2> QED BY <1>5, <2>1, <2>2 DEF RunChange, BeginRun, BeginReset, ResetStores, TargetAttached, FinalizeRun
  <1>6. CASE lanes' = lanes
    BY <1>2, <1>6
  <1> QED BY <1>4, <1>5, <1>6 DEF Next, vars, server

\* All the diagnostics of target reporting agree with the stores between two
\* calls: the spans, the reason of every unlinked origin, and the events
\* (record_batch, OriginLinkCounters::add, ObservabilityStore::ingest).
THEOREM DiagnosticsAgreeThm ==
  ASSUME ~BeginMidIngest
  PROVE  Spec => []DiagnosticsAgree
  <1>1. Init => LinksExact
    BY DEF Init, IngestInit, NoLanes, LinksExact, LinkResults
  <1>2. TargetInv /\ LinksExact /\ [Next]_vars => LinksExact'
    BY LinksStep
  <1>3. TargetInv /\ LinksExact => LinksCounted
    <2> SUFFICES ASSUME TargetInv, LinksExact
                 PROVE  lanes.withOrigin - lanes.links["linked"]
                          = lanes.links["invalid_tid"] + lanes.links["no_thread"]
                            + lanes.links["no_stack"] + lanes.links["too_far"]
      BY DEF LinksCounted, Diagnostics
    <2>1. lanes.links \in [LinkResults -> Nat] /\ lanes.withOrigin \in Nat
      BY DEF TargetInv, ServerTypes, LanesRec
    <2>2. \A r \in {"linked", "invalid_tid", "no_thread", "no_stack", "too_far"} : lanes.links[r] \in Nat
      BY <2>1 DEF LinkResults
    <2> QED BY <2>1, <2>2 DEF LinksExact
  <1> QED
    BY <1>1, <1>2, <1>3, TargetInvariant, SpansCountedThm, SignalsCountedThm, PTL
       DEF Spec, DiagnosticsAgree
=============================================================================
