---------------------------- MODULE RunRegistry ----------------------------
(***************************************************************************)
(* The run registry of stax-server (stax-server/src/main.rs, ServerState)  *)
(* with the RunControl RPCs that drive it and the recorder thread of each  *)
(* run (stax-server/src/recorder.rs).                                      *)
(*                                                                         *)
(* Handlers run concurrently on a multi-threaded runtime and share state   *)
(* through separate locks, so the grain of atomicity is one lock section:  *)
(* an operation that takes k locks in turn is k actions, and its local     *)
(* variables live in the client (cRun, cSnap) or the recorder (rSnap).     *)
(*                                                                         *)
(*   active, selected, recordingStop, history   the fields of Inner        *)
(*   agg, bins       the query state: the live aggregator, and the binary  *)
(*                   registry standing for the three stores that are       *)
(*                   replaced beside it (binaries, observability, lanes)   *)
(*   stopFlag[r]     the Arc<AtomicBool> of run r's recorder               *)
(*   recordingStop   the run whose flag Inner holds, 0 for None            *)
(*                                                                         *)
(* Data is kept as provenance: an aggregator is how many samples of each   *)
(* origin it holds, where origin 0 is a run recorded by another server     *)
(* process and found in an archive.  Run id 0 is None: ids start at 1.     *)
(***************************************************************************)
EXTENDS Naturals, FiniteSets

CONSTANTS Clients,     \* RPC clients (CLI invocations, agents, the web UI)
          Ops,         \* the RunControl operations these clients call
          Paths,       \* archive paths
          ForeignIds,  \* run ids of archives other server processes left
          MaxRuns,     \* bound: ids the server hands out
          MaxSamples   \* bound: samples one recorder delivers

AllOps == {"start", "stop", "wait", "mark", "save", "open", "select"}

ASSUME OpsAssumption == Ops \subseteq AllOps
ASSUME BoundsAssumption == MaxRuns \in Nat \ {0} /\ MaxSamples \in Nat

RunIds == 1..MaxRuns
Origins == 0..MaxRuns

ASSUME ForeignAssumption == ForeignIds \subseteq RunIds

VARIABLES active, selected, recordingStop, history, nextRunId,
          agg, bins, disk,
          stopFlag, rpc, why, rLimit, rSnap,
          pc, cRun, cSnap, reply

inner == <<active, selected, recordingStop, history>>
stores == <<agg, bins>>
recorders == <<stopFlag, rpc, why, rLimit, rSnap>>
clients == <<pc, cRun, cSnap, reply>>
vars == <<inner, nextRunId, stores, disk, recorders, clients>>

----------------------------------------------------------------------------
(* Values *)

StopReasons == {"TargetExited", "TimeLimit", "UserStop", "RecorderError"}

RunSummary == [id : Origins, state : {"Recording", "Stopped"},
               reason : StopReasons \cup {"None"},
               attached : BOOLEAN, samples : Nat]

\* Option<RunSummary>::None.
NoRun == [id |-> 0, state |-> "Stopped", reason |-> "None",
          attached |-> FALSE, samples |-> 0]

Aggregator == [samples : [Origins -> Nat], marks : SUBSET RunIds]

EmptyAgg == [samples |-> [o \in Origins |-> 0], marks |-> {}]

\* RunSnapshot and SavedRunArchive: a summary with a copy of the query state.
Snapshot == [summary : RunSummary, agg : Aggregator, bins : SUBSET Origins]

NoSnapshot == [summary |-> NoRun, agg |-> EmptyAgg, bins |-> {}]

InHistory(r) == history[r].summary.id # 0

\* An archive some other server process saved: it too numbers runs from 1.
ForeignArchive(f) ==
  [summary |-> [id |-> f, state |-> "Stopped", reason |-> "UserStop",
                attached |-> TRUE, samples |-> f],
   agg |-> [samples |-> [o \in Origins |-> IF o = 0 THEN f ELSE 0],
            marks |-> {}],
   bins |-> {0}]

----------------------------------------------------------------------------
(* Program counters *)

RestorePcs == {"openAgg", "openBins", "openCommit", "openAdvance",
               "selectLookup", "selectAgg", "selectBins", "selectCommit"}
WaitPcs == {"waitStopped", "waitSamples", "waitSeconds", "waitQuery"}
ClientPcs == {"idle", "begin", "spawn", "stopPoll", "mark",
              "saveAgg", "saveBins"} \cup WaitPcs \cup RestorePcs

\* The call works on behalf of a run: cRun names it.
RunPcs == {"spawn", "stopPoll", "mark", "selectLookup"}

LivePcs == {"attach", "setTarget", "loop", "record", "final",
            "snapAgg", "snapBins", "commit"}
RecorderPcs == LivePcs \cup {"none", "done"}

LoopExits == {"stop", "exited", "deadline"}

Replies == {"none", "Ok", "NoActiveRun", "AlreadyActive", "NotFound",
            "Stopped", "ConditionMet", "TimedOut"}

TypeOK ==
  /\ active \in RunSummary
  /\ selected \in RunSummary
  /\ recordingStop \in Origins
  /\ history \in [RunIds -> Snapshot]
  /\ nextRunId \in 1..(MaxRuns + 1)
  /\ agg \in Aggregator
  /\ bins \in SUBSET Origins
  /\ disk \in [Paths -> Snapshot]
  /\ stopFlag \in [RunIds -> BOOLEAN]
  /\ rpc \in [RunIds -> RecorderPcs]
  /\ why \in [RunIds -> LoopExits \cup StopReasons \cup {"None"}]
  /\ rLimit \in [RunIds -> BOOLEAN]
  /\ rSnap \in [RunIds -> Snapshot]
  /\ pc \in [Clients -> ClientPcs]
  /\ cRun \in [Clients -> Origins]
  /\ cSnap \in [Clients -> Snapshot]
  /\ reply \in [Clients -> [tag : Replies, sum : RunSummary]]
  /\ \A c \in Clients : pc[c] \in RunPcs => cRun[c] \in RunIds
  /\ \A r \in RunIds : rpc[r] = "final" => why[r] \in StopReasons

Init ==
  /\ active = NoRun
  /\ selected = NoRun
  /\ recordingStop = 0
  /\ history = [r \in RunIds |-> NoSnapshot]
  /\ nextRunId = 1
  /\ agg = EmptyAgg
  /\ bins = {}
  /\ disk \in [Paths -> {NoSnapshot} \cup {ForeignArchive(f) : f \in ForeignIds}]
  /\ stopFlag = [r \in RunIds |-> FALSE]
  /\ rpc = [r \in RunIds |-> "none"]
  /\ why = [r \in RunIds |-> "None"]
  /\ rLimit = [r \in RunIds |-> FALSE]
  /\ rSnap = [r \in RunIds |-> NoSnapshot]
  /\ pc = [c \in Clients |-> "idle"]
  /\ cRun = [c \in Clients |-> 0]
  /\ cSnap = [c \in Clients |-> NoSnapshot]
  /\ reply = [c \in Clients |-> [tag |-> "none", sum |-> NoRun]]

----------------------------------------------------------------------------
(* Steps of a client's call *)

\* Client c makes call op, which works on behalf of run r, and goes on at p.
Call(c, op, r, p) ==
  /\ op \in Ops
  /\ pc[c] = "idle"
  /\ pc' = [pc EXCEPT ![c] = p]
  /\ cRun' = [cRun EXCEPT ![c] = r]
  /\ reply' = [reply EXCEPT ![c] = [tag |-> "none", sum |-> NoRun]]

\* The call is refused at once, without a run.
Refuse(c, op, tag) ==
  /\ op \in Ops
  /\ pc[c] = "idle"
  /\ cRun' = [cRun EXCEPT ![c] = 0]
  /\ reply' = [reply EXCEPT ![c] = [tag |-> tag, sum |-> NoRun]]
  /\ UNCHANGED <<pc, cSnap>>

\* The call in progress returns tag (and a summary) to client c.
Return(c, tag, summary) ==
  /\ pc' = [pc EXCEPT ![c] = "idle"]
  /\ cSnap' = [cSnap EXCEPT ![c] = NoSnapshot]
  /\ reply' = [reply EXCEPT ![c] = [tag |-> tag, sum |-> summary]]
  /\ UNCHANGED cRun

Goto(c, p) ==
  /\ pc' = [pc EXCEPT ![c] = p]
  /\ UNCHANGED <<cRun, reply>>

----------------------------------------------------------------------------
(* Helpers of the operations, each after the mutants that stand for a      *)
(* plausible slip in that code.                                            *)

MutantDropSnapshot(h, s) == h

\* upsert_history_snapshot
Upsert(h, s) == [h EXCEPT ![s.summary.id] = s]

\* sweep_stopped_active_into_history refuses while a run is recording. Its
\* other branch, a Stopped run still in `active`, is never reached: see
\* ActiveIsRecording.
SweepRefuses == active.id # 0 /\ active.state = "Recording"

MutantSlotUnchecked == FALSE

\* begin_run's second look at the slot, under the lock that fills it.
SlotTaken == active.id # 0

MutantSameId(n) == n

\* fetch_add on next_run_id.
NextId(n) == n + 1

MutantKeepAgg == agg

\* The aggregator a new run starts with.
ResetAgg == EmptyAgg

MutantLeaveBins(s) == bins

\* The registry that restoring snapshot s leaves in the query state.
RestoredBins(s) == s.bins

MutantLatestSummary(r) == selected

\* The summary stop_active looks up in the history, by run id.
FinalSummary(r) == history[r].summary

MutantSummaryLast(c) == [cSnap[c] EXCEPT !.bins = bins,
                           !.summary = IF active.id # 0 THEN active ELSE selected]

\* The archive save_current writes once it has read the last store.
ArchiveToWrite(c) == [cSnap[c] EXCEPT !.bins = bins]

MutantStayPut(n, next) == n

\* advance_next_run_id: the compare-exchange loop ends as one maximum.
AdvancedTo(n, next) == IF n < next THEN next ELSE n

\* What finalize_run leaves in the slot.
FinalizedSlot(r) == NoRun

MutantIgnoreStop(r, w) == w = "exited" \/ (w = "deadline" /\ rLimit[r])

\* The capture loop of run r may end for reason w.
LoopExit(r, w) ==
  \/ w = "stop" /\ stopFlag[r]
  \/ w = "exited"
  \/ w = "deadline" /\ rLimit[r]

MutantRawExit(r) == why[r]

\* run_attach computes the stop reason from the exit and the flag as it is now.
StopReasonOf(r) ==
  IF why[r] = "exited" THEN "TargetExited"
  ELSE IF ~stopFlag[r] /\ rLimit[r] THEN "TimeLimit" ELSE "UserStop"

----------------------------------------------------------------------------
(* start_attach *)

\* begin_run, first lock section.
StartSweep(c) ==
  /\ \/ SweepRefuses /\ Refuse(c, "start", "AlreadyActive")
     \/ /\ ~SweepRefuses
        /\ nextRunId + Cardinality({d \in Clients : pc[d] = "begin"}) <= MaxRuns
        /\ Call(c, "start", 0, "begin")
        /\ UNCHANGED cSnap
  /\ UNCHANGED <<inner, nextRunId, stores, disk, recorders>>

\* begin_run, second lock section: re-check, take an id, reset every store.
\* The stores are reset one by one under their own locks inside it; a writer
\* that slips between two resets is a writer before or after all of them.
BeginRun(c, limit) ==
  /\ pc[c] = "begin"
  /\ \/ /\ SlotTaken
        /\ Return(c, "AlreadyActive", NoRun)
        /\ UNCHANGED <<inner, nextRunId, stores, recorders>>
     \/ /\ ~SlotTaken
        /\ nextRunId <= MaxRuns
        /\ nextRunId' = NextId(nextRunId)
        /\ active' = [NoRun EXCEPT !.id = nextRunId, !.state = "Recording"]
        /\ selected' = NoRun
        /\ recordingStop' = 0
        /\ agg' = ResetAgg
        /\ bins' = {}
        /\ rLimit' = [rLimit EXCEPT ![nextRunId] = limit]
        /\ pc' = [pc EXCEPT ![c] = "spawn"]
        /\ cRun' = [cRun EXCEPT ![c] = nextRunId]
        /\ UNCHANGED <<history, stopFlag, rpc, why, rSnap, cSnap, reply>>
  /\ UNCHANGED disk

\* spawn_attach: set_recording_stop_flag, then start the recorder thread.
SpawnAttach(c) ==
  /\ pc[c] = "spawn"
  /\ recordingStop' = IF active.id = cRun[c] THEN cRun[c] ELSE recordingStop
  /\ rpc' = [rpc EXCEPT ![cRun[c]] = "attach"]
  /\ Return(c, "Ok", NoRun)
  /\ UNCHANGED <<active, selected, history, nextRunId, stores, disk,
                 stopFlag, why, rLimit, rSnap>>

----------------------------------------------------------------------------
(* stop_active *)

StopRequest(c) ==
  /\ \/ active.id = 0 /\ Refuse(c, "stop", "NoActiveRun") /\ UNCHANGED stopFlag
     \/ /\ active.id # 0
        /\ Call(c, "stop", active.id, "stopPoll")
        /\ stopFlag' = [r \in RunIds |-> stopFlag[r] \/ r = recordingStop]
        /\ UNCHANGED cSnap
  /\ UNCHANGED <<inner, nextRunId, stores, disk, rpc, why, rLimit, rSnap>>

\* The 10 ms poll of the history, by run id.
StopPoll(c) ==
  /\ pc[c] = "stopPoll"
  /\ InHistory(cRun[c])
  /\ Return(c, "Stopped", FinalSummary(cRun[c]))
  /\ UNCHANGED <<inner, nextRunId, stores, disk, recorders>>

----------------------------------------------------------------------------
(* wait_active *)

WaitCall(c, cond) ==
  /\ Call(c, "wait", 0, cond)
  /\ UNCHANGED <<inner, nextRunId, stores, disk, recorders, cSnap>>

\* The wait condition holds; `elapsed` says whether the caller's clock ran
\* out. waitQuery is a predicate of the query state (UntilSymbolSeen and
\* UntilViolation), true once the recorder has filled the registry.
ConditionMet(cond, elapsed) ==
  \/ cond = "waitSamples" /\ active.samples >= 1
  \/ cond = "waitSeconds" /\ elapsed
  \/ cond = "waitQuery" /\ bins # {}

\* What one turn of the loop returns, "none" to sleep and poll again.
WaitOutcome(cond, elapsed) ==
  IF active.id = 0 THEN "NoActiveRun"
  ELSE IF active.state = "Stopped" THEN "Stopped"
  ELSE IF ConditionMet(cond, elapsed) THEN "ConditionMet"
  ELSE IF elapsed THEN "TimedOut" ELSE "none"

\* One turn of the 50 ms loop: `active` is cloned under the lock and the rest
\* only reads.
WaitPoll(c, elapsed) ==
  /\ pc[c] \in WaitPcs
  /\ \/ /\ WaitOutcome(pc[c], elapsed) # "none"
        /\ Return(c, WaitOutcome(pc[c], elapsed), active)
     \/ WaitOutcome(pc[c], elapsed) = "none" /\ UNCHANGED clients
  /\ UNCHANGED <<inner, nextRunId, stores, disk, recorders>>

----------------------------------------------------------------------------
(* mark *)

MarkCheck(c) ==
  /\ \/ active.id = 0 /\ Refuse(c, "mark", "NoActiveRun")
     \/ active.id # 0 /\ Call(c, "mark", active.id, "mark") /\ UNCHANGED cSnap
  /\ UNCHANGED <<inner, nextRunId, stores, disk, recorders>>

MarkRecord(c) ==
  /\ pc[c] = "mark"
  /\ agg' = [agg EXCEPT !.marks = @ \cup {cRun[c]}]
  /\ Return(c, "Ok", NoRun)
  /\ UNCHANGED <<inner, nextRunId, bins, disk, recorders>>

----------------------------------------------------------------------------
(* save_current *)

\* queryable_run_summary; history.last() is never needed, since a run that
\* leaves `active` is put in `selected` in the same lock section.
QueryableRun == IF active.id # 0 THEN active ELSE selected

SaveSummary(c) ==
  /\ \/ QueryableRun.id = 0 /\ Refuse(c, "save", "NotFound")
     \/ /\ QueryableRun.id # 0
        /\ Call(c, "save", QueryableRun.id, "saveAgg")
        /\ cSnap' = [cSnap EXCEPT ![c].summary = QueryableRun]
  /\ UNCHANGED <<inner, nextRunId, stores, disk, recorders>>

SaveAgg(c) ==
  /\ pc[c] = "saveAgg"
  /\ Goto(c, "saveBins")
  /\ cSnap' = [cSnap EXCEPT ![c].agg = agg]
  /\ UNCHANGED <<inner, nextRunId, stores, disk, recorders>>

\* The last store is read and the archive written.
SaveBins(c, p) ==
  /\ pc[c] = "saveBins"
  /\ disk' = [disk EXCEPT ![p] = ArchiveToWrite(c)]
  /\ Return(c, "Ok", NoRun)
  /\ UNCHANGED <<inner, nextRunId, stores, recorders>>

----------------------------------------------------------------------------
(* open_saved, select_run and the restore they share *)

\* read_archive fails before anything is touched.
OpenMissing(c, p) ==
  /\ disk[p].summary.id = 0
  /\ Refuse(c, "open", "NotFound")
  /\ UNCHANGED <<inner, nextRunId, stores, disk, recorders>>

OpenSweep(c, p) ==
  /\ disk[p].summary.id # 0
  /\ \/ SweepRefuses /\ Refuse(c, "open", "AlreadyActive")
     \/ /\ ~SweepRefuses
        /\ Call(c, "open", disk[p].summary.id, "openAgg")
        /\ cSnap' = [cSnap EXCEPT ![c] = [disk[p] EXCEPT !.summary.state = "Stopped"]]
  /\ UNCHANGED <<inner, nextRunId, stores, disk, recorders>>

SelectSweep(c, r) ==
  /\ \/ SweepRefuses /\ Refuse(c, "select", "AlreadyActive")
     \/ ~SweepRefuses /\ Call(c, "select", r, "selectLookup") /\ UNCHANGED cSnap
  /\ UNCHANGED <<inner, nextRunId, stores, disk, recorders>>

SelectLookup(c) ==
  /\ pc[c] = "selectLookup"
  /\ \/ /\ InHistory(cRun[c])
        /\ Goto(c, "selectAgg")
        /\ cSnap' = [cSnap EXCEPT ![c] = history[cRun[c]]]
     \/ ~InHistory(cRun[c]) /\ Return(c, "NotFound", NoRun)
  /\ UNCHANGED <<inner, nextRunId, stores, disk, recorders>>

\* restore_archive_to_query_state, store by store.
RestoreAgg(c) ==
  /\ pc[c] \in {"openAgg", "selectAgg"}
  /\ agg' = cSnap[c].agg
  /\ Goto(c, IF pc[c] = "openAgg" THEN "openBins" ELSE "selectBins")
  /\ UNCHANGED <<inner, nextRunId, bins, disk, recorders, cSnap>>

RestoreBins(c) ==
  /\ pc[c] \in {"openBins", "selectBins"}
  /\ bins' = RestoredBins(cSnap[c])
  /\ Goto(c, IF pc[c] = "openBins" THEN "openCommit" ELSE "selectCommit")
  /\ UNCHANGED <<inner, nextRunId, agg, disk, recorders, cSnap>>

RestoreCommit(c) ==
  /\ pc[c] \in {"openCommit", "selectCommit"}
  /\ active' = NoRun
  /\ recordingStop' = 0
  /\ selected' = cSnap[c].summary
  /\ history' = Upsert(history, cSnap[c])
  /\ IF pc[c] = "openCommit"
     THEN Goto(c, "openAdvance") /\ UNCHANGED cSnap
     ELSE Return(c, "Ok", cSnap[c].summary)
  /\ UNCHANGED <<nextRunId, stores, disk, recorders>>

OpenAdvance(c) ==
  /\ pc[c] = "openAdvance"
  /\ nextRunId' = AdvancedTo(nextRunId, cRun[c] + 1)
  /\ Return(c, "Ok", NoRun)
  /\ UNCHANGED <<inner, stores, disk, recorders>>

----------------------------------------------------------------------------
(* The recorder thread of run r *)

RecStep(r, from, to) == rpc[r] = from /\ rpc' = [rpc EXCEPT ![r] = to]

\* on_target_attached, the lock section of apply_target_attached_in_process.
RecAttach(r) ==
  /\ \/ /\ active.id = r
        /\ active' = [active EXCEPT !.attached = TRUE]
        /\ RecStep(r, "attach", "setTarget")
     \/ /\ active.id # r
        /\ RecStep(r, "attach", "loop")
        /\ UNCHANGED active
  /\ UNCHANGED <<selected, recordingStop, history, nextRunId, stores, disk,
                 stopFlag, why, rLimit, rSnap, clients>>

\* set_target, and every later sink write to the binary registry.
RecBinaries(r) ==
  /\ RecStep(r, "setTarget", "loop") \/ RecStep(r, "loop", "loop")
  /\ bins' = bins \cup {r}
  /\ UNCHANGED <<inner, nextRunId, agg, disk, stopFlag, why, rLimit, rSnap, clients>>

\* on_sample: note_sample counts the sample if r is still the active run...
RecNote(r) ==
  /\ RecStep(r, "loop", "record")
  /\ agg.samples[r] < MaxSamples
  /\ active' = IF active.id = r THEN [active EXCEPT !.samples = @ + 1] ELSE active
  /\ UNCHANGED <<selected, recordingStop, history, nextRunId, stores, disk,
                 stopFlag, why, rLimit, rSnap, clients>>

\* ...and record_pet_sample then writes the aggregator, whoever owns it.
RecRecord(r) ==
  /\ RecStep(r, "record", "loop")
  /\ agg' = [agg EXCEPT !.samples[r] = @ + 1]
  /\ UNCHANGED <<inner, nextRunId, bins, disk, stopFlag, why, rLimit, rSnap, clients>>

\* The capture loop ends; the final sweep may still deliver samples.
RecBreak(r, w) ==
  /\ rpc[r] = "loop"
  /\ why[r] = "None"
  /\ LoopExit(r, w)
  /\ why' = [why EXCEPT ![r] = w]
  /\ UNCHANGED <<inner, nextRunId, stores, disk, stopFlag, rpc, rLimit, rSnap, clients>>

RecReason(r) ==
  /\ why[r] \in LoopExits
  /\ RecStep(r, "loop", "final")
  /\ why' = [why EXCEPT ![r] = StopReasonOf(r)]
  /\ UNCHANGED <<inner, nextRunId, stores, disk, stopFlag, rLimit, rSnap, clients>>

\* perf or daemon errors, a failed runtime, a panic: finalize as RecorderError.
RecFail(r) ==
  /\ RecStep(r, "attach", "final") \/ RecStep(r, "loop", "final")
  /\ why' = [why EXCEPT ![r] = "RecorderError"]
  /\ UNCHANGED <<inner, nextRunId, stores, disk, stopFlag, rLimit, rSnap, clients>>

----------------------------------------------------------------------------
(* finalize_run, by the recorder thread of run r *)

FinalizeRead(r) ==
  /\ \/ /\ active.id = r
        /\ RecStep(r, "final", "snapAgg")
        /\ rSnap' = [rSnap EXCEPT ![r].summary =
                       [active EXCEPT !.state = "Stopped", !.reason = why[r]]]
     \/ active.id # r /\ RecStep(r, "final", "done") /\ UNCHANGED rSnap
  /\ UNCHANGED <<inner, nextRunId, stores, disk, stopFlag, why, rLimit, clients>>

\* snapshot_from_query_state: each store under its own lock.
SnapshotAgg(r) ==
  /\ RecStep(r, "snapAgg", "snapBins")
  /\ rSnap' = [rSnap EXCEPT ![r].agg = agg]
  /\ UNCHANGED <<inner, nextRunId, stores, disk, stopFlag, why, rLimit, clients>>

SnapshotBins(r) ==
  /\ RecStep(r, "snapBins", "commit")
  /\ rSnap' = [rSnap EXCEPT ![r].bins = bins]
  /\ UNCHANGED <<inner, nextRunId, stores, disk, stopFlag, why, rLimit, clients>>

FinalizeCommit(r) ==
  /\ RecStep(r, "commit", "done")
  /\ IF active.id = r
     THEN /\ history' = Upsert(history, rSnap[r])
          /\ selected' = rSnap[r].summary
          /\ recordingStop' = 0
          /\ active' = FinalizedSlot(r)
     ELSE UNCHANGED inner
  /\ UNCHANGED <<nextRunId, stores, disk, stopFlag, why, rLimit, rSnap, clients>>

----------------------------------------------------------------------------

ClientStep(c) ==
  \/ StartSweep(c) \/ SpawnAttach(c)
  \/ \E limit \in BOOLEAN : BeginRun(c, limit)
  \/ StopRequest(c) \/ StopPoll(c)
  \/ \E cond \in WaitPcs : WaitCall(c, cond)
  \/ \E elapsed \in BOOLEAN : WaitPoll(c, elapsed)
  \/ MarkCheck(c) \/ MarkRecord(c)
  \/ SaveSummary(c) \/ SaveAgg(c)
  \/ \E p \in Paths : SaveBins(c, p) \/ OpenMissing(c, p) \/ OpenSweep(c, p)
  \/ \E r \in RunIds : SelectSweep(c, r)
  \/ SelectLookup(c) \/ RestoreAgg(c) \/ RestoreBins(c) \/ RestoreCommit(c)
  \/ OpenAdvance(c)

RecorderStep(r) ==
  \/ RecAttach(r) \/ RecBinaries(r) \/ RecNote(r) \/ RecRecord(r)
  \/ \E w \in LoopExits : RecBreak(r, w)
  \/ RecReason(r) \/ RecFail(r)
  \/ FinalizeRead(r) \/ SnapshotAgg(r) \/ SnapshotBins(r) \/ FinalizeCommit(r)

Next == (\E c \in Clients : ClientStep(c)) \/ (\E r \in RunIds : RecorderStep(r))

Spec == Init /\ [][Next]_vars

\* A recorder thread that has been started keeps running: it observes the
\* stop flag at each turn of its loop and then runs to the end of
\* finalize_run. Whether its target exits, its deadline passes, it fails or
\* it delivers samples is up to the environment.
RecorderProgress(r) ==
  \/ RecAttach(r) \/ (rpc[r] = "setTarget" /\ RecBinaries(r)) \/ RecRecord(r)
  \/ RecBreak(r, "stop") \/ RecReason(r)
  \/ FinalizeRead(r) \/ SnapshotAgg(r) \/ SnapshotBins(r) \/ FinalizeCommit(r)

\* The runtime keeps polling a call that is in progress.
ClientProgress(c) ==
  SpawnAttach(c) \/ StopPoll(c) \/ MarkRecord(c) \/ (\E e \in BOOLEAN : WaitPoll(c, e))

Fairness ==
  /\ \A r \in RunIds : WF_vars(RecorderProgress(r))
  /\ \A c \in Clients : WF_vars(ClientProgress(c))

FairSpec == Spec /\ Fairness

----------------------------------------------------------------------------
(* Properties of the lifecycle: clients that start and stop recordings,    *)
(* wait, mark and save, and never restore an archive.                      *)

\* The run in `active` is always Recording: finalize_run clears the slot in
\* the lock section that publishes the stopped run, so the Stopped branches
\* of sweep_stopped_active_into_history and wait_active are unreachable.
ActiveIsRecording == active.id # 0 => active.state = "Recording"

\* A recorder thread that has not finished belongs to the active run: there
\* is never a second one, and never one the registry has forgotten
\* (begin_run's re-check, finalize_run keeping the run active to the end).
OneRecorder == \A r \in RunIds : rpc[r] \in LivePcs => active.id = r

\* Every id begin_run handed out is either the active run or in the history,
\* and never both (list_runs: "All runs the server has ever hosted").
HostedRunAccounted ==
  \A r \in RunIds : r < nextRunId => ((active.id = r) # InHistory(r))

\* The snapshot finalize_run publishes for r holds exactly what r recorded:
\* its own samples, as many as its summary counts, nothing of another run,
\* and a stop reason.
SnapshotIsOwnRun ==
  \A r \in RunIds : InHistory(r) =>
    /\ history[r].summary.id = r
    /\ history[r].summary.state = "Stopped"
    /\ history[r].summary.reason \in StopReasons
    /\ history[r].summary.samples = history[r].agg.samples[r]
    /\ \A o \in Origins \ {r} : history[r].agg.samples[o] = 0
    /\ history[r].bins \subseteq {r}

\* A history entry is written once: no later step of any client or recorder
\* changes or removes it.
HistoryStable ==
  [][\A r \in RunIds : InHistory(r) => history'[r] = history[r]]_vars

\* stop_active returns the final summary of the run it was asked to stop,
\* even when another client has started the next run meanwhile ("Poll by ID
\* so another client starting a subsequent run cannot change which summary
\* this request returns").
StopReturnsOwnRun ==
  \A c \in Clients : reply[c].tag = "Stopped" =>
    /\ reply[c].sum.id = cRun[c]
    /\ reply[c].sum.reason \in StopReasons
    /\ reply[c].sum = history[cRun[c]].summary

\* A stop request whose run has its stop flag raised is answered.
StopFlagHonoured ==
  \A c \in Clients, r \in RunIds :
    (pc[c] = "stopPoll" /\ cRun[c] = r /\ stopFlag[r]) ~> (pc[c] = "idle")

\* An archive written by save_current while its run records counts at most
\* one sample more than it holds: on_sample counts before it records, and
\* the summary is read before the aggregator.
SavedCountNotAhead ==
  \A p \in Paths : LET a == disk[p] IN
    a.summary.id # 0 => a.summary.samples <= a.agg.samples[a.summary.id] + 1

\* RunRegistry implements RunLifecycle under this mapping.
phaseOf == [r \in RunIds |-> IF active.id = r THEN "recording"
                             ELSE IF InHistory(r) THEN "stopped" ELSE "fresh"]

Lifecycle == INSTANCE RunLifecycle
               WITH phase <- phaseOf, result <- history, NoResult <- NoSnapshot

\* One run records at a time, in id order, and a stopped run keeps its result.
ImplementsLifecycle == Lifecycle!Spec

----------------------------------------------------------------------------
(* Properties of restoring, for one client that makes one call at a time   *)
(* while recorder threads run.                                             *)

\* With no recording active and no call in progress, the query state is the
\* data of the selected run's history entry (run-lifecycle.md: "After a run
\* stops, its snapshot stays selected").
QueryStateIsSelected ==
  (active.id = 0 /\ selected.id # 0 /\ \A c \in Clients : pc[c] = "idle") =>
    /\ history[selected.id].summary = selected
    /\ agg.samples = history[selected.id].agg.samples
    /\ bins = history[selected.id].bins

\* begin_run hands out an id that no history entry and no earlier run has:
\* advance_next_run_id moved past every archive that was opened.
FreshRunId ==
  [][\A r \in RunIds : (active.id # r /\ active'.id = r) =>
       ~InHistory(r) /\ rpc[r] = "none"]_vars

\* RunControl::save_current: "Save the current or most recent queryable run":
\* an archive holds the data of the one run its summary names, or of a run of
\* another server process.
ArchiveOfOneRun ==
  \A p \in Paths : LET a == disk[p] IN
    /\ \A o \in Origins : a.agg.samples[o] > 0 => o \in {0, a.summary.id}
    /\ a.bins \subseteq {0, a.summary.id}

----------------------------------------------------------------------------
(* What the documentation says, and what concurrent calls make of it. *)

\* run-lifecycle.md: "`select-run` refuses to replace state while a recording
\* is active." So only its own recorder ends an active run.
RestoreRefusesWhileRecording ==
  [][(active.id # 0 /\ active'.id # active.id) => rpc[active.id] = "commit"]_vars

\* RunControl::stop_active: "Ask the recorder to stop the active run cleanly.
\* Returns the final `RunSummary` once the run has transitioned to `Stopped`."
StopHonoured ==
  \A c \in Clients : (pc[c] = "stopPoll") ~> (pc[c] = "idle")

\* run-lifecycle.md on `stax list`: "Every run the daemon has hosted". The
\* history entry of a run this server recorded is the one it published.
HistoryKeepsHostedRun ==
  \A r \in RunIds : (rpc[r] = "done" /\ rSnap[r].summary.id = r) => history[r] = rSnap[r]

=============================================================================
