------------------------------ MODULE Streams ------------------------------
(* The live query service: ServerProfiler's choice of the store a query is    *)
(* answered from, and the subscription loops of LiveServer, which look at a   *)
(* revision counter on a timer and rebuild their view when it moved.  The     *)
(* recorder and the target ingest write a store and then bump the counter;    *)
(* begin_run and restore_archive_to_query_state replace the three stores in   *)
(* place, one lock after the other, and bump it at the end.                   *)
(*                                                                            *)
(* A store is the run its data belongs to and how many writes it has had.     *)
(* The model is of the Linux build, where attach_local_shared_cache is empty. *)
EXTENDS Integers, Sequences, FiniteSets

CONSTANTS StSubs,        \* subscriptions
          StWriters,     \* the recorder's sink and the target ingest
          StMaxWrites, StMaxInstalls

VARIABLES stStore,       \* agg, bins, obs
          stRev,         \* LiveServer.revision
          stActive,      \* inner.active's id, 0 for none
          stHist,        \* inner.history: run -> its archived stores
          stInstall,     \* a begin_run or a restore under way
          stWriter,      \* has the writer still to bump?
          stSub,
          stPaused,      \* LiveServer.paused
          stWrites, stInstalls

stVars == <<stStore, stRev, stActive, stHist, stInstall, stWriter, stSub, stPaused,
            stWrites, stInstalls>>

Stores == {"agg", "bins", "obs"}
FreshStores(r) == [k \in Stores |-> [run |-> r, n |-> 0]]
NoInstall == [kind |-> "none"]

(* Which stores a view reads, and under how many locks: the sets of one       *)
(* section are held together.                                                 *)
TopSections == <<{"agg", "bins"}>>
AnnotatedSections == <<{"agg", "bins"}, {"bins"}>>
CfgSections == <<{"agg", "bins"}, {"bins"}>>
FlamegraphSections == <<{"agg", "bins"}>>
NeighborsSections == <<{"agg", "bins"}>>
TimelineSections == <<{"agg", "bins"}>>
WakersSections == <<{"agg", "bins"}>>
IntervalsSections == <<{"agg", "bins"}>>
PetSamplesSections == <<{"agg"}>>
TargetSpansSections == <<{"agg", "bins"}>>
ThreadsSections == <<{"agg", "bins"}>>
ViolationsSections == <<{"agg", "bins", "obs"}>>

\* Views that read the same way behave the same way.
ViewSections ==
  {TopSections, AnnotatedSections, CfgSections, FlamegraphSections, NeighborsSections,
   TimelineSections, WakersSections, IntervalsSections, PetSamplesSections,
   TargetSpansSections, ThreadsSections, ViolationsSections}

NotAsked == [pc |-> "off"]
NothingShown == [k \in {} |-> 0]

StInit ==
  /\ stStore = FreshStores(0)
  /\ stRev = 1
  /\ stActive = 0
  /\ stHist = [r \in {} |-> FreshStores(0)]
  /\ stInstall = NoInstall
  /\ stWriter = [w \in StWriters |-> FALSE]
  /\ stSub = [s \in StSubs |-> NotAsked]
  /\ stPaused = FALSE
  /\ stWrites = 0
  /\ stInstalls = 0

(* ------------------------- the writers ------------------------------------- *)

\* A handler of ServerLiveSink or of the target ingest: the store is written
\* under its lock, the counter is bumped after the lock is dropped.  None of
\* them reads `paused`.
WriteStore(w, k) ==
  /\ stActive # 0
  /\ stInstall = NoInstall
  /\ ~stWriter[w]
  /\ stWrites < StMaxWrites
  /\ stWrites' = stWrites + 1
  /\ stStore' = [stStore EXCEPT ![k].n = @ + 1]
  /\ stWriter' = [stWriter EXCEPT ![w] = TRUE]
  /\ UNCHANGED <<stRev, stActive, stHist, stInstall, stSub, stPaused, stInstalls>>

BumpRevision(w) ==
  /\ stWriter[w]
  /\ stWriter' = [stWriter EXCEPT ![w] = FALSE]
  /\ stRev' = stRev + 1
  /\ UNCHANGED <<stStore, stActive, stHist, stInstall, stSub, stPaused, stWrites, stInstalls>>

\* begin_run: the slot is claimed and the stores are replaced under inner's lock.
BeginLiveRun ==
  /\ stActive = 0
  /\ stInstall = NoInstall
  /\ stInstalls < StMaxInstalls
  /\ stInstalls' = stInstalls + 1
  /\ stActive' = stInstalls + 1
  /\ stInstall' = [kind |-> "begin", from |-> FreshStores(stInstalls + 1),
                   left |-> <<"agg", "bins", "obs">>]
  /\ UNCHANGED <<stStore, stRev, stHist, stWriter, stSub, stPaused, stWrites>>

\* select_run, open_saved: inner's lock is not held over the replacement.
RestoreRun(r) ==
  /\ stActive = 0
  /\ stInstall = NoInstall
  /\ r \in DOMAIN stHist
  /\ stInstalls < StMaxInstalls
  /\ stInstalls' = stInstalls + 1
  /\ stInstall' = [kind |-> "restore", from |-> stHist[r], left |-> <<"agg", "bins", "obs">>]
  /\ UNCHANGED <<stStore, stRev, stActive, stHist, stWriter, stSub, stPaused, stWrites>>

\* One store replaced; the last step bumps the counter.
InstallStep ==
  /\ stInstall # NoInstall
  /\ IF stInstall.left # <<>>
       THEN LET k == Head(stInstall.left)
            IN  /\ stStore' = [stStore EXCEPT ![k] = stInstall.from[k]]
                /\ stInstall' = [stInstall EXCEPT !.left = Tail(@)]
                /\ stRev' = stRev
       ELSE /\ stRev' = stRev + 1
            /\ stInstall' = NoInstall
            /\ stStore' = stStore
  /\ UNCHANGED <<stActive, stHist, stWriter, stSub, stPaused, stWrites, stInstalls>>

\* finalize_run: the archive goes to history and the slot is cleared in one lock
\* section; the stores stay as they are.
FinishRun ==
  /\ stActive # 0
  /\ stInstall = NoInstall
  /\ \A w \in StWriters : ~stWriter[w]
  /\ stHist' = [r \in DOMAIN stHist \cup {stActive} |->
                  IF r = stActive THEN stStore ELSE stHist[r]]
  /\ stActive' = 0
  /\ UNCHANGED <<stStore, stRev, stInstall, stWriter, stSub, stPaused, stWrites, stInstalls>>

\* set_paused: a flag that is_paused gives back.
SetPaused(b) ==
  /\ b # stPaused
  /\ stPaused' = b
  /\ UNCHANGED <<stStore, stRev, stActive, stHist, stInstall, stWriter, stSub, stWrites, stInstalls>>

(* ------------------------- the subscriptions -------------------------------- *)

InnerFree == stInstall.kind # "begin"

\* should_stream_run
ShouldStream(r) == r = 0 \/ r = stActive

\* subscribe_*: follow the live stores, or answer once.
Ask(s, v, r) ==
  /\ stSub[s] = NotAsked
  /\ InnerFree
  /\ stSub' = [stSub EXCEPT ![s] =
       [pc |-> "bind", sections |-> v, run |-> r, follow |-> ShouldStream(r), live |-> FALSE,
        frozen |-> FreshStores(0), seen |-> 0, at |-> 1, got |-> NothingShown, shown |-> NothingShown]]
  /\ UNCHANGED <<stStore, stRev, stActive, stHist, stInstall, stWriter, stPaused, stWrites, stInstalls>>

\* profiler_for_run, which looks at the slot again: the shared stores, a copy of
\* the archived run, or empty stores.
Bind(s) ==
  /\ stSub[s].pc = "bind"
  /\ InnerFree
  /\ LET r == stSub[s].run
     IN  stSub' = [stSub EXCEPT
           ![s].pc = IF stSub[s].follow THEN "tick" ELSE "read",
           ![s].live = ShouldStream(r),
           ![s].frozen = IF r \in DOMAIN stHist THEN stHist[r] ELSE FreshStores(0)]
  /\ UNCHANGED <<stStore, stRev, stActive, stHist, stInstall, stWriter, stPaused, stWrites, stInstalls>>

\* The stores behind s, and their counter (1 and never bumped for a copy).
SourceOf(s) == IF stSub[s].live THEN stStore ELSE stSub[s].frozen
RevisionOf(s) == IF stSub[s].live THEN stRev ELSE 1

\* should_publish_revision: the counter is noted before the stores are read.
StreamTick(s) ==
  /\ stSub[s].pc = "tick"
  /\ stSub[s].seen # RevisionOf(s)
  /\ stSub' = [stSub EXCEPT ![s].seen = RevisionOf(s), ![s].pc = "read", ![s].at = 1,
                            ![s].got = NothingShown]
  /\ UNCHANGED <<stStore, stRev, stActive, stHist, stInstall, stWriter, stPaused, stWrites, stInstalls>>

\* One section of locks; a store read again keeps the later value.
ReadSection(s) ==
  /\ stSub[s].pc = "read"
  /\ LET sub == stSub[s]
         ks == sub.sections[sub.at]
     IN  stSub' = [stSub EXCEPT
           ![s].got = [k \in DOMAIN sub.got \cup ks |->
                         IF k \in ks THEN SourceOf(s)[k] ELSE sub.got[k]],
           ![s].pc = IF sub.at = Len(sub.sections) THEN "send" ELSE "read",
           ![s].at = IF sub.at = Len(sub.sections) THEN 1 ELSE sub.at + 1]
  /\ UNCHANGED <<stStore, stRev, stActive, stHist, stInstall, stWriter, stPaused, stWrites, stInstalls>>

MutantSendUpdate(s) ==
  /\ stSub[s].pc = "send"
  /\ stSub' = [stSub EXCEPT ![s].shown = stSub[s].got, ![s].seen = RevisionOf(s),
                            ![s].pc = IF stSub[s].follow THEN "tick" ELSE "done"]
  /\ UNCHANGED <<stStore, stRev, stActive, stHist, stInstall, stWriter, stPaused, stWrites, stInstalls>>

SendUpdate(s) ==
  /\ stSub[s].pc = "send"
  /\ stSub' = [stSub EXCEPT ![s].shown = stSub[s].got,
                            ![s].pc = IF stSub[s].follow THEN "tick" ELSE "done"]
  /\ UNCHANGED <<stStore, stRev, stActive, stHist, stInstall, stWriter, stPaused, stWrites, stInstalls>>

\* The client is gone: the send fails and the loop ends.
StreamEnds(s) ==
  /\ stSub[s].pc = "send"
  /\ stSub' = [stSub EXCEPT ![s].pc = "done"]
  /\ UNCHANGED <<stStore, stRev, stActive, stHist, stInstall, stWriter, stPaused, stWrites, stInstalls>>

StNext ==
  \/ \E w \in StWriters : BumpRevision(w) \/ \E k \in Stores : WriteStore(w, k)
  \/ BeginLiveRun
  \/ \E r \in DOMAIN stHist : RestoreRun(r)
  \/ InstallStep
  \/ FinishRun
  \/ \E b \in BOOLEAN : SetPaused(b)
  \/ \E s \in StSubs :
       \/ \E v \in ViewSections, r \in 0..StMaxInstalls : Ask(s, v, r)
       \/ Bind(s) \/ StreamTick(s) \/ ReadSection(s) \/ SendUpdate(s) \/ StreamEnds(s)

\* A task that has something to do is scheduled, a handler that wrote bumps, and
\* an installation runs to its end: all are code with no wait in between.
StProgress ==
  \/ InstallStep
  \/ \E w \in StWriters : BumpRevision(w)
  \/ \E s \in StSubs : Bind(s) \/ StreamTick(s) \/ ReadSection(s) \/ SendUpdate(s)

StSpec == StInit /\ [][StNext]_stVars /\ WF_stVars(StProgress)

(* ------------------------- properties --------------------------------------- *)

\* Writes and runs are bounded in the model, so there is a last one: from some
\* time on every open stream has delivered what its stores hold, though a tick,
\* the write it may miss, the bump and the rebuild interleave in any order
\* (lib.rs should_publish_revision and the subscribe_* loops).
StreamsSettle ==
  <>[](\A s \in StSubs :
         stSub[s].pc \in {"off", "done"}
         \/ \A k \in UNION {stSub[s].sections[i] : i \in DOMAIN stSub[s].sections} :
              k \in DOMAIN stSub[s].shown /\ stSub[s].shown[k] = SourceOf(s)[k])
=============================================================================
