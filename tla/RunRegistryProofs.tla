------------------------- MODULE RunRegistryProofs -------------------------
(* Theorems about RunRegistry, for every value of its constants. *)
EXTENDS RunRegistry, TLAPS

\* Run ids are the nonzero origins, and the counter stays within one of them.
LEMMA ConstTypes ==
  /\ RunIds \subseteq Origins /\ RunIds \subseteq Nat /\ Origins \subseteq Nat
  /\ 0 \in Origins /\ 0 \notin RunIds
  /\ \A o \in Origins : o # 0 => o \in RunIds
  /\ \A n \in 1..(MaxRuns + 1) : n <= MaxRuns => n \in RunIds /\ n + 1 \in 1..(MaxRuns + 1)
  BY BoundsAssumption DEF RunIds, Origins

\* The None values of RunSummary, Aggregator and Snapshot are well typed.
LEMMA NoValues ==
  /\ NoRun \in RunSummary /\ EmptyAgg \in Aggregator /\ NoSnapshot \in Snapshot
  /\ NoRun.id = 0 /\ NoSnapshot.summary.id = 0
  <1>1. NoRun \in RunSummary /\ NoRun.id = 0
    BY ConstTypes DEF NoRun, RunSummary
  <1>2. EmptyAgg \in Aggregator
    BY DEF EmptyAgg, Aggregator
  <1>3. NoSnapshot \in Snapshot
    BY <1>1, <1>2 DEF NoSnapshot, Snapshot
  <1> QED BY <1>1, <1>2, <1>3 DEF NoSnapshot

\* An archive another server process left (read_archive) is a snapshot.
LEMMA ForeignType == ASSUME NEW f \in RunIds PROVE ForeignArchive(f) \in Snapshot
  <1>1. ForeignArchive(f).summary \in RunSummary
    BY ConstTypes DEF ForeignArchive, RunSummary, StopReasons
  <1>2. ForeignArchive(f).agg \in Aggregator
    BY ConstTypes DEF ForeignArchive, Aggregator
  <1>3. ForeignArchive(f).bins \in SUBSET Origins
    BY ConstTypes DEF ForeignArchive
  <1> QED BY <1>1, <1>2, <1>3 DEF ForeignArchive, Snapshot

\* A freshly started server is well typed.
LEMMA TypeInit == Init => TypeOK
  <1> SUFFICES ASSUME Init PROVE TypeOK
    OBVIOUS
  <1>1. disk \in [Paths -> Snapshot]
    BY ForeignType, NoValues, ForeignAssumption DEF Init
  <1>2. nextRunId \in 1..(MaxRuns + 1)
    BY BoundsAssumption DEF Init
  <1>3. /\ pc \in [Clients -> ClientPcs]
        /\ cRun \in [Clients -> Origins]
        /\ cSnap \in [Clients -> Snapshot]
        /\ reply \in [Clients -> [tag : Replies, sum : RunSummary]]
        /\ \A c \in Clients : pc[c] \notin RunPcs
    BY NoValues, ConstTypes DEF Init, ClientPcs, Replies, RunPcs
  <1> QED
    BY <1>1, <1>2, <1>3, NoValues, ConstTypes DEF Init, TypeOK, RecorderPcs

----------------------------------------------------------------------------
(* The shared steps of a call keep the client variables in their types. *)

ClientTypes ==
  /\ pc \in [Clients -> ClientPcs]
  /\ cRun \in [Clients -> Origins]
  /\ cSnap \in [Clients -> Snapshot]
  /\ reply \in [Clients -> [tag : Replies, sum : RunSummary]]
  /\ \A c \in Clients : pc[c] \in RunPcs => cRun[c] \in RunIds

FinalHasReason == \A r \in RunIds : rpc[r] = "final" => why[r] \in StopReasons

\* A call that returns leaves the client variables typed.
LEMMA ReturnType ==
  ASSUME TypeOK, NEW c \in Clients, NEW tag \in Replies, NEW s \in RunSummary,
         Return(c, tag, s)
  PROVE  ClientTypes'
  BY NoValues DEF TypeOK, Return, ClientTypes, ClientPcs, RunPcs

\* So does a call refused by an early return,
LEMMA RefuseType ==
  ASSUME TypeOK, NEW c \in Clients, NEW op, NEW tag \in Replies, Refuse(c, op, tag)
  PROVE  ClientTypes'
  BY NoValues, ConstTypes DEF TypeOK, Refuse, ClientTypes, RunPcs

\* a call that goes on,
LEMMA CallType ==
  ASSUME TypeOK, NEW c \in Clients, NEW op, NEW r \in Origins, NEW p \in ClientPcs,
         p \in RunPcs => r \in RunIds,
         Call(c, op, r, p), cSnap' \in [Clients -> Snapshot]
  PROVE  ClientTypes'
  BY NoValues DEF TypeOK, Call, ClientTypes, Replies

\* and a call that moves to its next lock section.
LEMMA GotoType ==
  ASSUME TypeOK, NEW c \in Clients, NEW p \in ClientPcs \ RunPcs, Goto(c, p),
         cSnap' \in [Clients -> Snapshot]
  PROVE  ClientTypes'
  BY DEF TypeOK, Goto, ClientTypes

\* upsert_history_snapshot keeps the history a map from ids to snapshots.
LEMMA UpsertType ==
  ASSUME TypeOK, NEW s \in Snapshot
  PROVE  Upsert(history, s) \in [RunIds -> Snapshot]
  BY DEF TypeOK, Upsert

----------------------------------------------------------------------------
(* TypeOK is preserved by every step. *)

\* Every lock section of a RunControl call preserves the types.
LEMMA TypeClientStep ==
  ASSUME TypeOK, NEW c \in Clients, ClientStep(c)
  PROVE  TypeOK'
  <1> USE ConstTypes, NoValues
  <1> USE DEF inner, stores, recorders, clients
  <1>a. 0 \in Origins /\ active \in RunSummary /\ selected \in RunSummary
    BY DEF TypeOK
  <1>b. /\ {"begin", "saveAgg", "saveBins", "openAgg", "openBins", "openCommit",
             "openAdvance", "selectAgg", "selectBins", "selectCommit"}
             \subseteq ClientPcs \ RunPcs
        /\ WaitPcs \subseteq ClientPcs \ RunPcs
        /\ RunPcs \subseteq ClientPcs
        /\ {"stopPoll", "mark", "selectLookup"} \subseteq RunPcs
        /\ {"Ok", "NoActiveRun", "AlreadyActive", "NotFound", "Stopped",
            "ConditionMet", "TimedOut"} \subseteq Replies
    BY DEF ClientPcs, RunPcs, WaitPcs, RestorePcs, Replies
  <1>1. CASE StartSweep(c)
    <2>1. ClientTypes'
      BY <1>1, <1>b, RefuseType, CallType DEF StartSweep, TypeOK
    <2> QED BY <1>1, <2>1 DEF StartSweep, TypeOK, ClientTypes
  <1>2. CASE SpawnAttach(c)
    <2>1. ClientTypes'
      BY <1>2, <1>b, ReturnType DEF SpawnAttach
    <2>2. recordingStop' \in Origins
      BY <1>2 DEF SpawnAttach, TypeOK
    <2>3. rpc' \in [RunIds -> RecorderPcs]
      BY <1>2 DEF SpawnAttach, TypeOK, RecorderPcs, LivePcs
    <2>4. FinalHasReason'
      BY <1>2 DEF SpawnAttach, TypeOK, FinalHasReason
    <2> QED BY <1>2, <2>1, <2>2, <2>3, <2>4 DEF SpawnAttach, TypeOK, ClientTypes, FinalHasReason
  <1>3. CASE \E limit \in BOOLEAN : BeginRun(c, limit)
    <2> PICK limit \in BOOLEAN : BeginRun(c, limit) BY <1>3
    <2>1. CASE SlotTaken
      <3>1. ClientTypes'
        BY <2>1, <1>b, ReturnType DEF BeginRun
      <3> QED BY <2>1, <3>1 DEF BeginRun, TypeOK, ClientTypes
    <2>2. CASE ~SlotTaken
      <3>1. nextRunId \in RunIds /\ nextRunId' \in 1..(MaxRuns + 1)
        BY <2>2 DEF BeginRun, TypeOK, NextId
      <3>2. active' \in RunSummary
        BY <2>2, <3>1 DEF BeginRun, NoRun, RunSummary
      <3>3. ClientTypes'
        <4>1. /\ pc' = [pc EXCEPT ![c] = "spawn"]
              /\ cRun' = [cRun EXCEPT ![c] = nextRunId]
              /\ UNCHANGED <<cSnap, reply>>
          BY <2>2 DEF BeginRun
        <4>2. "spawn" \in ClientPcs /\ nextRunId \in Origins
          BY <3>1 DEF ClientPcs
        <4> QED BY <3>1, <4>1, <4>2 DEF TypeOK, ClientTypes
      <3>4. agg' \in Aggregator
        BY <2>2 DEF BeginRun, ResetAgg
      <3>5. rLimit' \in [RunIds -> BOOLEAN]
        BY <2>2 DEF BeginRun, TypeOK
      <3> QED BY <2>2, <3>1, <3>2, <3>3, <3>4, <3>5 DEF BeginRun, TypeOK, ClientTypes
    <2> QED BY <2>1, <2>2
  <1>4. CASE StopRequest(c)
    <2>1. active.id \in Origins
      BY DEF TypeOK, RunSummary
    <2>2. ClientTypes'
      BY <1>4, <1>b, <2>1, RefuseType, CallType DEF StopRequest, TypeOK
    <2>3. stopFlag' \in [RunIds -> BOOLEAN]
      BY <1>4 DEF StopRequest, TypeOK
    <2> QED BY <1>4, <2>2, <2>3 DEF StopRequest, TypeOK, ClientTypes
  <1>5. CASE StopPoll(c)
    <2>1. cRun[c] \in RunIds
      BY <1>5 DEF TypeOK, StopPoll, RunPcs
    <2>2. FinalSummary(cRun[c]) \in RunSummary
      BY <2>1 DEF TypeOK, FinalSummary, Snapshot
    <2>3. ClientTypes'
      BY <1>5, <2>2, <1>b, ReturnType DEF StopPoll
    <2> QED BY <1>5, <2>3 DEF StopPoll, TypeOK, ClientTypes
  <1>6. CASE \E cond \in WaitPcs : WaitCall(c, cond)
    <2> PICK cond \in WaitPcs : WaitCall(c, cond) BY <1>6
    <2>1. ClientTypes'
      BY <1>b, CallType DEF WaitCall, TypeOK
    <2> QED BY <2>1 DEF WaitCall, TypeOK, ClientTypes
  <1>7. CASE \E elapsed \in BOOLEAN : WaitPoll(c, elapsed)
    <2> PICK elapsed \in BOOLEAN : WaitPoll(c, elapsed) BY <1>7
    <2>1. CASE WaitOutcome(pc[c], elapsed) # "none"
      <3>1. WaitOutcome(pc[c], elapsed) \in Replies
        BY <1>b DEF WaitOutcome, Replies
      <3>2. ClientTypes'
        BY <2>1, <3>1, <1>a, ReturnType DEF WaitPoll
      <3> QED BY <3>2 DEF WaitPoll, TypeOK, ClientTypes
    <2>2. CASE WaitOutcome(pc[c], elapsed) = "none"
      BY <2>2 DEF WaitPoll, clients, TypeOK, ClientTypes
    <2> QED BY <2>1, <2>2
  <1>8. CASE MarkCheck(c)
    <2>1. active.id \in Origins
      BY DEF TypeOK, RunSummary
    <2>2. ClientTypes'
      BY <1>8, <1>b, <2>1, RefuseType, CallType DEF MarkCheck, TypeOK
    <2> QED BY <1>8, <2>2 DEF MarkCheck, TypeOK, ClientTypes
  <1>9. CASE MarkRecord(c)
    <2>1. cRun[c] \in RunIds
      BY <1>9 DEF TypeOK, MarkRecord, RunPcs
    <2>2. agg' \in Aggregator
      BY <1>9, <2>1 DEF TypeOK, MarkRecord, Aggregator
    <2>3. ClientTypes'
      BY <1>9, <1>b, ReturnType DEF MarkRecord
    <2> QED BY <1>9, <2>2, <2>3 DEF MarkRecord, TypeOK, ClientTypes
  <1>10. CASE SaveSummary(c)
    <2>1. QueryableRun \in RunSummary /\ QueryableRun.id \in Origins
      BY <1>a DEF QueryableRun, RunSummary
    <2>2. ASSUME QueryableRun.id # 0 PROVE cSnap' \in [Clients -> Snapshot]
      <3>1. cSnap' = [cSnap EXCEPT ![c] = [cSnap[c] EXCEPT !.summary = QueryableRun]]
        BY <1>10, <2>2 DEF SaveSummary
      <3>2. [cSnap[c] EXCEPT !.summary = QueryableRun] \in Snapshot
        BY <2>1 DEF TypeOK, Snapshot
      <3> QED BY <3>1, <3>2 DEF TypeOK
    <2>3. ClientTypes'
      BY <1>10, <1>b, <2>1, <2>2, RefuseType, CallType DEF SaveSummary
    <2> QED BY <1>10, <2>3 DEF SaveSummary, TypeOK, ClientTypes
  <1>11. CASE SaveAgg(c)
    <2>1. cSnap' \in [Clients -> Snapshot]
      BY <1>11 DEF SaveAgg, TypeOK, Snapshot
    <2>2. ClientTypes'
      BY <1>11, <1>b, <2>1, GotoType DEF SaveAgg
    <2> QED BY <1>11, <2>2 DEF SaveAgg, TypeOK, ClientTypes
  <1>12. CASE \E p \in Paths : SaveBins(c, p)
    <2> PICK p \in Paths : SaveBins(c, p) BY <1>12
    <2>1. ArchiveToWrite(c) \in Snapshot
      BY DEF ArchiveToWrite, TypeOK, Snapshot
    <2>2. disk' \in [Paths -> Snapshot]
      BY <2>1 DEF SaveBins, TypeOK
    <2>3. ClientTypes'
      BY <1>b, ReturnType DEF SaveBins
    <2> QED BY <2>2, <2>3 DEF SaveBins, TypeOK, ClientTypes
  <1>13. CASE \E p \in Paths : OpenMissing(c, p)
    <2>1. ClientTypes'
      BY <1>13, <1>b, RefuseType DEF OpenMissing
    <2> QED BY <1>13, <2>1 DEF OpenMissing, TypeOK, ClientTypes
  <1>14. CASE \E p \in Paths : OpenSweep(c, p)
    <2> PICK p \in Paths : OpenSweep(c, p) BY <1>14
    <2>1. /\ disk[p].summary.id \in Origins
          /\ [disk[p] EXCEPT !.summary.state = "Stopped"] \in Snapshot
      <3>1. disk[p] \in Snapshot /\ disk[p].summary \in RunSummary
        BY DEF TypeOK, Snapshot
      <3>2. [disk[p].summary EXCEPT !.state = "Stopped"] \in RunSummary
        BY <3>1 DEF RunSummary
      <3>3. [disk[p] EXCEPT !.summary = [disk[p].summary EXCEPT !.state = "Stopped"]]
              \in Snapshot
        BY <3>1, <3>2 DEF Snapshot
      <3> QED BY <3>1, <3>3 DEF RunSummary
    <2>2. ASSUME ~SweepRefuses PROVE cSnap' \in [Clients -> Snapshot]
      BY <2>1, <2>2 DEF OpenSweep, TypeOK
    <2>3. ClientTypes'
      BY <1>b, <2>1, <2>2, RefuseType, CallType DEF OpenSweep
    <2> QED BY <2>3 DEF OpenSweep, TypeOK, ClientTypes
  <1>15. CASE \E r \in RunIds : SelectSweep(c, r)
    <2> PICK r \in RunIds : SelectSweep(c, r) BY <1>15
    <2>1. ClientTypes'
      BY <1>b, RefuseType, CallType DEF SelectSweep, TypeOK
    <2> QED BY <2>1 DEF SelectSweep, TypeOK, ClientTypes
  <1>16. CASE SelectLookup(c)
    <2>1. cRun[c] \in RunIds
      BY <1>16 DEF TypeOK, SelectLookup, RunPcs
    <2>2. ASSUME InHistory(cRun[c]) PROVE cSnap' \in [Clients -> Snapshot]
      BY <1>16, <2>1, <2>2 DEF SelectLookup, TypeOK
    <2>3. ClientTypes'
      BY <1>16, <1>b, <2>2, GotoType, ReturnType DEF SelectLookup
    <2> QED BY <1>16, <2>3 DEF SelectLookup, TypeOK, ClientTypes
  <1>17. CASE RestoreAgg(c)
    <2>1. agg' \in Aggregator
      BY <1>17 DEF RestoreAgg, TypeOK, Snapshot
    <2>2. ClientTypes'
      BY <1>17, <1>b, GotoType DEF RestoreAgg, TypeOK
    <2> QED BY <1>17, <2>1, <2>2 DEF RestoreAgg, TypeOK, ClientTypes
  <1>18. CASE RestoreBins(c)
    <2>1. bins' \in SUBSET Origins
      BY <1>18 DEF RestoreBins, RestoredBins, TypeOK, Snapshot
    <2>2. ClientTypes'
      BY <1>18, <1>b, GotoType DEF RestoreBins, TypeOK
    <2> QED BY <1>18, <2>1, <2>2 DEF RestoreBins, TypeOK, ClientTypes
  <1>19. CASE RestoreCommit(c)
    <2>1. cSnap[c] \in Snapshot /\ cSnap[c].summary \in RunSummary
      BY DEF TypeOK, Snapshot
    <2>2. history' \in [RunIds -> Snapshot]
      BY <1>19, <2>1, UpsertType DEF RestoreCommit
    <2>3. ClientTypes'
      BY <1>19, <1>b, <2>1, GotoType, ReturnType DEF RestoreCommit, TypeOK
    <2> QED BY <1>19, <2>1, <2>2, <2>3 DEF RestoreCommit, TypeOK, ClientTypes
  <1>20. CASE OpenAdvance(c)
    <2>1. nextRunId' \in 1..(MaxRuns + 1)
      BY <1>20, BoundsAssumption DEF OpenAdvance, AdvancedTo, TypeOK, Origins
    <2>2. ClientTypes'
      BY <1>20, <1>b, ReturnType DEF OpenAdvance
    <2> QED BY <1>20, <2>1, <2>2 DEF OpenAdvance, TypeOK, ClientTypes
  <1> QED
    BY <1>1, <1>2, <1>3, <1>4, <1>5, <1>6, <1>7, <1>8, <1>9, <1>10, <1>11, <1>12,
       <1>13, <1>14, <1>15, <1>16, <1>17, <1>18, <1>19, <1>20 DEF ClientStep

\* Every step of a recorder thread preserves the types.
LEMMA TypeRecorderStep ==
  ASSUME TypeOK, NEW r \in RunIds, RecorderStep(r)
  PROVE  TypeOK'
  <1> USE ConstTypes, NoValues
  <1> USE DEF inner, stores, recorders, clients
  <1>a. \A from, to : to \in RecorderPcs /\ RecStep(r, from, to)
                        => rpc' \in [RunIds -> RecorderPcs]
    BY DEF TypeOK, RecStep
  <1>b. {"setTarget", "loop", "record", "final", "snapAgg", "snapBins", "commit", "done"}
          \subseteq RecorderPcs
    BY DEF RecorderPcs, LivePcs
  <1>c. rSnap[r] \in Snapshot /\ active \in RunSummary
    BY DEF TypeOK
  <1>d. \A from, to : to # "final" /\ RecStep(r, from, to) /\ why' = why => FinalHasReason'
    BY DEF TypeOK, RecStep, FinalHasReason
  <1>1. CASE RecAttach(r)
    <2>1. active' \in RunSummary
      BY <1>1 DEF RecAttach, TypeOK, RunSummary
    <2>2. rpc' \in [RunIds -> RecorderPcs]
      BY <1>1, <1>a, <1>b DEF RecAttach
    <2>9. FinalHasReason'
      BY <1>1, <1>d DEF RecAttach
    <2> QED BY <1>1, <2>1, <2>2, <2>9 DEF RecAttach, TypeOK, FinalHasReason
  <1>2. CASE RecBinaries(r)
    <2>1. rpc' \in [RunIds -> RecorderPcs]
      BY <1>2, <1>a, <1>b DEF RecBinaries
    <2>2. bins' \in SUBSET Origins
      BY <1>2 DEF RecBinaries, TypeOK
    <2>9. FinalHasReason'
      BY <1>2, <1>d DEF RecBinaries
    <2> QED BY <1>2, <2>1, <2>2, <2>9 DEF RecBinaries, TypeOK, FinalHasReason
  <1>3. CASE RecNote(r)
    <2>1. active' \in RunSummary
      <3>1. active.samples + 1 \in Nat
        BY <1>c DEF RunSummary
      <3>2. [active EXCEPT !.samples = active.samples + 1] \in RunSummary
        BY <1>c, <3>1 DEF RunSummary
      <3> QED BY <1>3, <1>c, <3>2 DEF RecNote
    <2>2. rpc' \in [RunIds -> RecorderPcs]
      BY <1>3, <1>a, <1>b DEF RecNote
    <2>9. FinalHasReason'
      BY <1>3, <1>d DEF RecNote
    <2> QED BY <1>3, <2>1, <2>2, <2>9 DEF RecNote, TypeOK, FinalHasReason
  <1>4. CASE RecRecord(r)
    <2>1. agg' = [agg EXCEPT !.samples = [agg.samples EXCEPT ![r] = @ + 1]]
      BY <1>4 DEF RecRecord
    <2>2. [agg.samples EXCEPT ![r] = @ + 1] \in [Origins -> Nat]
      BY DEF TypeOK, Aggregator
    <2>3. agg' \in Aggregator
      BY <2>1, <2>2 DEF TypeOK, Aggregator
    <2>4. rpc' \in [RunIds -> RecorderPcs]
      BY <1>4, <1>a, <1>b DEF RecRecord
    <2>9. FinalHasReason'
      BY <1>4, <1>d DEF RecRecord
    <2> QED BY <1>4, <2>3, <2>4, <2>9 DEF RecRecord, TypeOK, FinalHasReason
  <1>5. CASE \E w \in LoopExits : RecBreak(r, w)
    <2>1. why' \in [RunIds -> LoopExits \cup StopReasons \cup {"None"}]
      BY <1>5 DEF RecBreak, TypeOK
    <2>2. FinalHasReason'
      BY <1>5 DEF RecBreak, TypeOK, FinalHasReason
    <2> QED BY <1>5, <2>1, <2>2 DEF RecBreak, TypeOK, FinalHasReason
  <1>6. CASE RecReason(r)
    <2>1. StopReasonOf(r) \in StopReasons
      BY DEF StopReasonOf, StopReasons
    <2>2. why' \in [RunIds -> LoopExits \cup StopReasons \cup {"None"}]
      BY <1>6, <2>1 DEF RecReason, TypeOK
    <2>3. rpc' \in [RunIds -> RecorderPcs]
      BY <1>6, <1>a, <1>b DEF RecReason
    <2>4. FinalHasReason'
      BY <1>6, <2>1 DEF RecReason, RecStep, TypeOK, FinalHasReason
    <2> QED BY <1>6, <2>2, <2>3, <2>4 DEF RecReason, TypeOK, FinalHasReason
  <1>7. CASE RecFail(r)
    <2>1. why' \in [RunIds -> LoopExits \cup StopReasons \cup {"None"}]
      BY <1>7 DEF RecFail, TypeOK, StopReasons
    <2>2. rpc' \in [RunIds -> RecorderPcs]
      BY <1>7, <1>a, <1>b DEF RecFail
    <2>3. FinalHasReason'
      BY <1>7 DEF RecFail, RecStep, TypeOK, FinalHasReason, StopReasons
    <2> QED BY <1>7, <2>1, <2>2, <2>3 DEF RecFail, TypeOK, FinalHasReason
  <1>8. CASE FinalizeRead(r)
    <2>1. rpc' \in [RunIds -> RecorderPcs]
      BY <1>8, <1>a, <1>b DEF FinalizeRead
    <2>2. FinalHasReason'
      BY <1>8, <1>d DEF FinalizeRead
    <2>3. CASE active.id = r
      <3>1. why[r] \in StopReasons
        BY <1>8, <2>3 DEF FinalizeRead, RecStep, TypeOK
      <3>2. [active EXCEPT !.state = "Stopped", !.reason = why[r]] \in RunSummary
        BY <1>c, <3>1 DEF RunSummary
      <3>3. rSnap' = [rSnap EXCEPT ![r] = [rSnap[r] EXCEPT !.summary =
                        [active EXCEPT !.state = "Stopped", !.reason = why[r]]]]
        BY <1>8, <2>3 DEF FinalizeRead
      <3>4. rSnap' \in [RunIds -> Snapshot]
        <4>1. ASSUME NEW s \in RunSummary
              PROVE  [rSnap[r] EXCEPT !.summary = s] \in Snapshot
          BY <1>c DEF Snapshot
        <4> QED BY <3>2, <3>3, <4>1 DEF TypeOK
      <3> QED BY <1>8, <2>1, <2>2, <3>4 DEF FinalizeRead, TypeOK, FinalHasReason
    <2>4. CASE active.id # r
      BY <1>8, <2>1, <2>2, <2>4 DEF FinalizeRead, TypeOK, FinalHasReason
    <2> QED BY <2>3, <2>4
  <1>9. CASE SnapshotAgg(r)
    <2>1. rSnap' = [rSnap EXCEPT ![r] = [rSnap[r] EXCEPT !.agg = agg]]
      BY <1>9 DEF SnapshotAgg
    <2>2. [rSnap[r] EXCEPT !.agg = agg] \in Snapshot
      BY <1>c DEF TypeOK, Snapshot
    <2>3. rpc' \in [RunIds -> RecorderPcs]
      BY <1>9, <1>a, <1>b DEF SnapshotAgg
    <2>4. rSnap' \in [RunIds -> Snapshot]
      BY <2>1, <2>2 DEF TypeOK
    <2>5. FinalHasReason'
      BY <1>9, <1>d DEF SnapshotAgg
    <2> QED BY <1>9, <2>3, <2>4, <2>5 DEF SnapshotAgg, TypeOK, FinalHasReason
  <1>10. CASE SnapshotBins(r)
    <2>1. rSnap' = [rSnap EXCEPT ![r] = [rSnap[r] EXCEPT !.bins = bins]]
      BY <1>10 DEF SnapshotBins
    <2>2. [rSnap[r] EXCEPT !.bins = bins] \in Snapshot
      BY <1>c DEF TypeOK, Snapshot
    <2>3. rpc' \in [RunIds -> RecorderPcs]
      BY <1>10, <1>a, <1>b DEF SnapshotBins
    <2>4. rSnap' \in [RunIds -> Snapshot]
      BY <2>1, <2>2 DEF TypeOK
    <2>5. FinalHasReason'
      BY <1>10, <1>d DEF SnapshotBins
    <2> QED BY <1>10, <2>3, <2>4, <2>5 DEF SnapshotBins, TypeOK, FinalHasReason
  <1>11. CASE FinalizeCommit(r)
    <2>1. rpc' \in [RunIds -> RecorderPcs]
      BY <1>11, <1>a, <1>b DEF FinalizeCommit
    <2>2. rSnap[r].summary \in RunSummary
      BY <1>c DEF Snapshot
    <2>3. Upsert(history, rSnap[r]) \in [RunIds -> Snapshot]
      BY <1>c, UpsertType
    <2>4. FinalHasReason'
      BY <1>11, <1>d DEF FinalizeCommit
    <2> QED
      BY <1>11, <2>1, <2>2, <2>3, <2>4
      DEF FinalizeCommit, FinalizedSlot, TypeOK, FinalHasReason
  <1> QED
    BY <1>1, <1>2, <1>3, <1>4, <1>5, <1>6, <1>7, <1>8, <1>9, <1>10, <1>11
    DEF RecorderStep

\* Type correctness: in every reachable state each variable has its type, a
\* call that works on behalf of a run names a real run id, and a recorder
\* that reaches finalize_run has a stop reason for it.
THEOREM TypeCorrect == Spec => []TypeOK
  <1>1. TypeOK /\ [Next]_vars => TypeOK'
    <2> SUFFICES ASSUME TypeOK, [Next]_vars PROVE TypeOK'
      OBVIOUS
    <2>1. CASE \E c \in Clients : ClientStep(c)
      BY <2>1, TypeClientStep
    <2>2. CASE \E r \in RunIds : RecorderStep(r)
      BY <2>2, TypeRecorderStep
    <2>3. CASE UNCHANGED vars
      BY <2>3 DEF vars, inner, stores, recorders, clients, TypeOK
    <2> QED BY <2>1, <2>2, <2>3 DEF Next
  <1> QED BY <1>1, TypeInit, PTL DEF Spec

----------------------------------------------------------------------------
(* The inductive invariant of the lifecycle, for clients that never restore *)
(* an archive.  OneRecorder and SnapshotIsOwnRun are not inductive: they    *)
(* need what holds between begin_run and the start of the thread           *)
(* (SpawnInv), which ids are still free (FreshInv), whose data the query    *)
(* state holds (DataInv) and what finalize_run has copied so far (SnapInv). *)

NoRestore == \A c \in Clients : pc[c] \notin RestorePcs

SpawnInv ==
  \A c \in Clients : pc[c] = "spawn" =>
    /\ active.id = cRun[c]
    /\ rpc[cRun[c]] = "none"
    /\ \A d \in Clients : pc[d] = "spawn" => d = c

FreshInv ==
  /\ active.id < nextRunId
  /\ \A r \in RunIds : r >= nextRunId => ~InHistory(r) /\ rpc[r] = "none"

DataInv ==
  active.id # 0 =>
    /\ bins \subseteq {active.id}
    /\ \A o \in Origins \ {active.id} : agg.samples[o] = 0
    /\ active.samples = IF rpc[active.id] = "record" THEN agg.samples[active.id] + 1
                                                    ELSE agg.samples[active.id]

SnapInv ==
  \A r \in RunIds :
    /\ rpc[r] \in {"snapAgg", "snapBins", "commit"} =>
         /\ rSnap[r].summary.id = r
         /\ rSnap[r].summary.state = "Stopped"
         /\ rSnap[r].summary.reason \in StopReasons
         /\ rSnap[r].summary.samples = active.samples
    /\ rpc[r] \in {"snapBins", "commit"} => rSnap[r].agg.samples = agg.samples
    /\ rpc[r] = "commit" => rSnap[r].bins = bins

ReplyInv ==
  \A c \in Clients :
    /\ pc[c] # "idle" => reply[c].tag = "none"
    /\ reply[c].tag = "Stopped" =>
         /\ cRun[c] \in RunIds
         /\ InHistory(cRun[c])
         /\ reply[c].sum = history[cRun[c]].summary

CoreInv ==
  /\ TypeOK
  /\ NoRestore
  /\ ActiveIsRecording
  /\ OneRecorder
  /\ SpawnInv
  /\ FreshInv
  /\ HostedRunAccounted
  /\ DataInv
  /\ SnapInv
  /\ SnapshotIsOwnRun
  /\ ReplyInv

NoRestoreOps == Ops \cap {"open", "select"} = {}

\* A freshly started server satisfies the inductive invariant.
LEMMA CoreInit == Init => CoreInv
  <1> SUFFICES ASSUME Init PROVE CoreInv
    OBVIOUS
  <1>1. active.id = 0 /\ \A r \in RunIds : ~InHistory(r)
    BY NoValues DEF Init, InHistory
  <1> QED
    BY <1>1, TypeInit, ConstTypes
    DEF Init, CoreInv, NoRestore, RestorePcs, ActiveIsRecording, OneRecorder, LivePcs,
        SpawnInv, FreshInv, HostedRunAccounted, DataInv, SnapInv, SnapshotIsOwnRun,
        ReplyInv, RunIds

----------------------------------------------------------------------------
(* Steps that touch neither the registry nor the samples: they keep CoreInv *)
(* if they lead no client into a restore or a spawn and answer honestly.    *)

SpawnKeeps ==
  \A d \in Clients : pc'[d] = "spawn" => pc[d] = "spawn" /\ cRun'[d] = cRun[d]

QuietClients == NoRestore' /\ SpawnKeeps /\ ReplyInv'

\* A step that leaves slot, history, threads and samples alone keeps CoreInv.
LEMMA QuietStep ==
  ASSUME CoreInv, TypeOK', QuietClients,
         UNCHANGED <<active, history, nextRunId, rpc, rSnap, bins>>,
         agg'.samples = agg.samples
  PROVE  CoreInv'
  <1>1. SpawnInv'
    BY DEF CoreInv, SpawnInv, QuietClients, SpawnKeeps
  <1>2. FreshInv' /\ HostedRunAccounted' /\ OneRecorder' /\ ActiveIsRecording'
    BY DEF CoreInv, FreshInv, HostedRunAccounted, OneRecorder, ActiveIsRecording, InHistory
  <1>3. DataInv' /\ SnapInv' /\ SnapshotIsOwnRun'
    BY DEF CoreInv, DataInv, SnapInv, SnapshotIsOwnRun, InHistory
  <1> QED BY <1>1, <1>2, <1>3 DEF CoreInv, QuietClients

\* A return is quiet if a Stopped reply carries the history's summary,
LEMMA ReturnQuiet ==
  ASSUME CoreInv, NEW c \in Clients, NEW tag, NEW s, Return(c, tag, s),
         history' = history,
         tag = "Stopped" => /\ cRun[c] \in RunIds
                            /\ InHistory(cRun[c])
                            /\ s = history[cRun[c]].summary
  PROVE  QuietClients
  <1>1. \A d \in Clients : d # c => pc'[d] = pc[d] /\ reply'[d] = reply[d]
    BY DEF CoreInv, TypeOK, Return
  <1>2. pc'[c] = "idle" /\ reply'[c] = [tag |-> tag, sum |-> s] /\ cRun' = cRun
    BY DEF CoreInv, TypeOK, Return
  <1>3. NoRestore' /\ SpawnKeeps
    BY <1>1, <1>2 DEF CoreInv, NoRestore, RestorePcs, SpawnKeeps
  <1>4. ReplyInv'
    BY <1>1, <1>2 DEF CoreInv, ReplyInv, InHistory
  <1> QED BY <1>3, <1>4 DEF QuietClients

\* a refusal is quiet,
LEMMA RefuseQuiet ==
  ASSUME CoreInv, NEW c \in Clients, NEW op, NEW tag, Refuse(c, op, tag),
         history' = history, tag # "Stopped"
  PROVE  QuietClients
  <1>1. \A d \in Clients : d # c => cRun'[d] = cRun[d] /\ reply'[d] = reply[d]
    BY DEF CoreInv, TypeOK, Refuse
  <1>2. pc[c] = "idle" /\ reply'[c] = [tag |-> tag, sum |-> NoRun] /\ pc' = pc
    BY DEF CoreInv, TypeOK, Refuse
  <1>3. NoRestore' /\ SpawnKeeps
    BY <1>1, <1>2 DEF CoreInv, NoRestore, SpawnKeeps
  <1>4. ReplyInv'
    BY <1>1, <1>2 DEF CoreInv, ReplyInv, InHistory
  <1> QED BY <1>3, <1>4 DEF QuietClients

\* a call that starts is quiet,
LEMMA CallQuiet ==
  ASSUME CoreInv, NEW c \in Clients, NEW op, NEW r, NEW p, Call(c, op, r, p),
         history' = history, p \notin RestorePcs, p # "spawn"
  PROVE  QuietClients
  <1>1. \A d \in Clients : d # c => /\ pc'[d] = pc[d]
                                    /\ cRun'[d] = cRun[d]
                                    /\ reply'[d] = reply[d]
    BY DEF CoreInv, TypeOK, Call
  <1>2. pc'[c] = p /\ reply'[c] = [tag |-> "none", sum |-> NoRun]
    BY DEF CoreInv, TypeOK, Call
  <1>3. NoRestore' /\ SpawnKeeps
    BY <1>1, <1>2 DEF CoreInv, NoRestore, SpawnKeeps
  <1>4. ReplyInv'
    BY <1>1, <1>2 DEF CoreInv, ReplyInv, InHistory
  <1> QED BY <1>3, <1>4 DEF QuietClients

\* and so is a step of which clients notice nothing.
LEMMA IdleQuiet ==
  ASSUME CoreInv, UNCHANGED <<pc, cRun, reply>>, history' = history
  PROVE  QuietClients
  BY DEF CoreInv, QuietClients, NoRestore, SpawnKeeps, ReplyInv, InHistory

\* Every lock section of stop_active, wait_active, mark and save_current, and
\* the first of start_attach, keeps CoreInv.
LEMMA QuietClientStep ==
  ASSUME CoreInv, NoRestoreOps, TypeOK', NEW c \in Clients,
         \/ StartSweep(c) \/ StopRequest(c) \/ StopPoll(c)
         \/ \E cond \in WaitPcs : WaitCall(c, cond)
         \/ \E elapsed \in BOOLEAN : WaitPoll(c, elapsed)
         \/ MarkCheck(c) \/ MarkRecord(c) \/ SaveSummary(c) \/ SaveAgg(c)
         \/ \E p \in Paths : SaveBins(c, p)
  PROVE  CoreInv'
  <1> USE DEF inner, stores, recorders, clients
  <1>a. TypeOK
    BY DEF CoreInv
  <1>b. /\ {"begin", "stopPoll", "mark", "saveAgg", "saveBins"} \cap RestorePcs = {}
        /\ WaitPcs \cap RestorePcs = {} /\ "spawn" \notin WaitPcs
    BY DEF RestorePcs, WaitPcs
  <1>1. CASE StartSweep(c)
    <2>1. QuietClients
      BY <1>1, <1>b, RefuseQuiet, CallQuiet DEF StartSweep
    <2> QED BY <1>1, <2>1, QuietStep DEF StartSweep
  <1>2. CASE StopRequest(c)
    <2>1. QuietClients
      BY <1>2, <1>b, RefuseQuiet, CallQuiet DEF StopRequest
    <2> QED BY <1>2, <2>1, QuietStep DEF StopRequest
  <1>3. CASE StopPoll(c)
    <2>1. cRun[c] \in RunIds
      BY <1>3, <1>a DEF TypeOK, StopPoll, RunPcs
    <2>2. QuietClients
      BY <1>3, <2>1, ReturnQuiet DEF StopPoll, FinalSummary
    <2> QED BY <1>3, <2>2, QuietStep DEF StopPoll
  <1>4. CASE \E cond \in WaitPcs : WaitCall(c, cond)
    <2>1. QuietClients
      BY <1>4, <1>b, CallQuiet DEF WaitCall
    <2> QED BY <1>4, <2>1, QuietStep DEF WaitCall
  <1>5. CASE \E elapsed \in BOOLEAN : WaitPoll(c, elapsed)
    <2> PICK elapsed \in BOOLEAN : WaitPoll(c, elapsed) BY <1>5
    <2>1. WaitOutcome(pc[c], elapsed) # "Stopped"
      BY DEF WaitOutcome, CoreInv, ActiveIsRecording
    <2>2. CASE WaitOutcome(pc[c], elapsed) # "none"
      <3>1. QuietClients
        BY <2>1, <2>2, ReturnQuiet DEF WaitPoll
      <3> QED BY <3>1, QuietStep DEF WaitPoll
    <2>3. CASE WaitOutcome(pc[c], elapsed) = "none"
      <3>1. UNCHANGED <<pc, cRun, reply, history>>
        BY <2>3 DEF WaitPoll, clients, inner
      <3>2. QuietClients
        BY <3>1 DEF CoreInv, QuietClients, NoRestore, SpawnKeeps, ReplyInv, InHistory
      <3> QED BY <3>2, QuietStep DEF WaitPoll
    <2> QED BY <2>2, <2>3
  <1>6. CASE MarkCheck(c)
    <2>1. QuietClients
      BY <1>6, <1>b, RefuseQuiet, CallQuiet DEF MarkCheck
    <2> QED BY <1>6, <2>1, QuietStep DEF MarkCheck
  <1>7. CASE MarkRecord(c)
    <2>1. QuietClients
      BY <1>7, ReturnQuiet DEF MarkRecord
    <2>2. agg'.samples = agg.samples
      BY <1>7, <1>a DEF MarkRecord, TypeOK, Aggregator
    <2> QED BY <1>7, <2>1, <2>2, QuietStep DEF MarkRecord
  <1>8. CASE SaveSummary(c)
    <2>1. QuietClients
      BY <1>8, <1>b, RefuseQuiet, CallQuiet DEF SaveSummary
    <2> QED BY <1>8, <2>1, QuietStep DEF SaveSummary
  <1>9. CASE SaveAgg(c)
    <2>1. /\ pc[c] = "saveAgg" /\ pc'[c] = "saveBins"
          /\ \A d \in Clients : d # c => pc'[d] = pc[d]
          /\ UNCHANGED <<cRun, reply, history>>
      BY <1>9, <1>a DEF SaveAgg, Goto, TypeOK
    <2>2. QuietClients
      BY <2>1, <1>b DEF CoreInv, QuietClients, NoRestore, SpawnKeeps, ReplyInv, InHistory
    <2> QED BY <1>9, <2>2, QuietStep DEF SaveAgg
  <1>10. CASE \E p \in Paths : SaveBins(c, p)
    <2>1. QuietClients
      BY <1>10, ReturnQuiet DEF SaveBins
    <2> QED BY <1>10, <2>1, QuietStep DEF SaveBins
  <1> QED BY <1>1, <1>2, <1>3, <1>4, <1>5, <1>6, <1>7, <1>8, <1>9, <1>10

----------------------------------------------------------------------------
(* The steps that change the registry. *)

\* begin_run's second lock section fills a free slot with a fresh id.
LEMMA CoreBeginRun ==
  ASSUME CoreInv, TypeOK', NEW c \in Clients, NEW limit, BeginRun(c, limit)
  PROVE  CoreInv'
  <1> USE DEF inner, stores, recorders, clients
  <1>a. TypeOK
    BY DEF CoreInv
  <1>1. CASE SlotTaken
    <2>1. QuietClients
      BY <1>1, ReturnQuiet DEF BeginRun
    <2> QED BY <1>1, <2>1, QuietStep DEF BeginRun
  <1>2. CASE ~SlotTaken
    <2>1. /\ active.id = 0 /\ pc[c] = "begin"
          /\ active'.id = nextRunId /\ active'.state = "Recording" /\ active'.samples = 0
          /\ nextRunId' = nextRunId + 1 /\ agg' = EmptyAgg /\ bins' = {}
          /\ UNCHANGED <<history, rpc, rSnap, reply>>
      BY <1>2 DEF BeginRun, SlotTaken, NextId, ResetAgg, NoRun
    <2>2. nextRunId \in RunIds /\ nextRunId # 0
      BY <1>2, <1>a, ConstTypes DEF BeginRun, TypeOK
    <2>3. /\ pc'[c] = "spawn" /\ cRun'[c] = nextRunId
          /\ \A d \in Clients : d # c => pc'[d] = pc[d] /\ cRun'[d] = cRun[d]
      BY <1>2, <1>a DEF BeginRun, TypeOK
    <2>4. rpc[nextRunId] = "none" /\ ~InHistory(nextRunId)
      BY <2>2, ConstTypes DEF CoreInv, FreshInv
    <2>5. \A r \in RunIds : rpc[r] \notin LivePcs
      BY <2>1, ConstTypes DEF CoreInv, OneRecorder
    <2>6. \A d \in Clients : pc[d] # "spawn"
      <3> SUFFICES ASSUME NEW d \in Clients, pc[d] = "spawn" PROVE FALSE
        OBVIOUS
      <3>1. cRun[d] \in RunIds
        BY <1>a DEF TypeOK, RunPcs
      <3> QED BY <2>1, <3>1, ConstTypes DEF CoreInv, SpawnInv
    <2>7. NoRestore' /\ ReplyInv'
      BY <2>1, <2>3 DEF CoreInv, NoRestore, RestorePcs, ReplyInv, InHistory
    <2>8. ActiveIsRecording' /\ OneRecorder'
      BY <2>1, <2>5 DEF ActiveIsRecording, OneRecorder
    <2>9. SpawnInv'
      BY <2>1, <2>3, <2>4, <2>6 DEF SpawnInv
    <2>10. FreshInv'
      BY <2>1, <2>2, ConstTypes DEF CoreInv, FreshInv, InHistory
    <2>11. HostedRunAccounted'
      <3> SUFFICES ASSUME NEW r \in RunIds, r < nextRunId'
                   PROVE  (active'.id = r) # InHistory(r)'
        BY DEF HostedRunAccounted
      <3>1. CASE r = nextRunId
        BY <2>1, <2>4, <3>1 DEF InHistory
      <3>2. CASE r # nextRunId
        <4>1. r < nextRunId /\ active.id # r
          BY <2>1, <2>2, <3>2, ConstTypes
        <4> QED BY <2>1, <3>2, <4>1 DEF CoreInv, HostedRunAccounted, InHistory
      <3> QED BY <3>1, <3>2
    <2>12. DataInv'
      BY <2>1, <2>2, <2>4, ConstTypes DEF DataInv, EmptyAgg
    <2>13. SnapInv'
      BY <2>1, <2>5 DEF SnapInv, LivePcs
    <2>14. SnapshotIsOwnRun'
      BY <2>1 DEF CoreInv, SnapshotIsOwnRun, InHistory
    <2> QED
      BY <2>7, <2>8, <2>9, <2>10, <2>11, <2>12, <2>13, <2>14 DEF CoreInv
  <1> QED BY <1>1, <1>2

\* spawn_attach starts the one thread of the run in the slot.
LEMMA CoreSpawnAttach ==
  ASSUME CoreInv, TypeOK', NEW c \in Clients, SpawnAttach(c)
  PROVE  CoreInv'
  <1> USE DEF inner, stores, recorders, clients
  <1> DEFINE q == cRun[c]
  <1>a. TypeOK
    BY DEF CoreInv
  <1>1. q \in RunIds /\ active.id = q /\ rpc[q] = "none" /\ pc[c] = "spawn"
    BY <1>a DEF CoreInv, SpawnInv, SpawnAttach, TypeOK, RunPcs
  <1>2. /\ rpc' = [rpc EXCEPT ![q] = "attach"]
        /\ UNCHANGED <<active, history, nextRunId, rSnap, agg, bins>>
    BY DEF SpawnAttach
  <1>3. rpc'[q] = "attach" /\ \A r \in RunIds : r # q => rpc'[r] = rpc[r]
    BY <1>a, <1>1, <1>2 DEF TypeOK
  <1>4. QuietClients
    BY ReturnQuiet DEF SpawnAttach
  <1>5. SpawnInv'
    <2>1. \A d \in Clients : pc'[d] # "spawn"
      BY <1>a DEF CoreInv, SpawnInv, SpawnAttach, Return, TypeOK
    <2> QED BY <2>1 DEF SpawnInv
  <1>6. ActiveIsRecording' /\ OneRecorder' /\ HostedRunAccounted' /\ SnapshotIsOwnRun'
    BY <1>1, <1>2, <1>3
    DEF CoreInv, ActiveIsRecording, OneRecorder, HostedRunAccounted, SnapshotIsOwnRun, InHistory
  <1>7. FreshInv'
    <2>1. q < nextRunId
      BY <1>1 DEF CoreInv, FreshInv
    <2>2. \A r \in RunIds : r >= nextRunId => r # q
      BY <1>a, <1>1, <2>1, ConstTypes DEF TypeOK
    <2> QED BY <1>2, <1>3, <2>2 DEF CoreInv, FreshInv, InHistory
  <1>8. DataInv' /\ SnapInv'
    BY <1>1, <1>2, <1>3 DEF CoreInv, DataInv, SnapInv
  <1> QED BY <1>4, <1>5, <1>6, <1>7, <1>8 DEF CoreInv, QuietClients

----------------------------------------------------------------------------
(* The recorder of run r.  Its steps leave the clients alone. *)

\* A live recorder thread owns the slot and excludes every other one.
LEMMA RecorderOwnsSlot ==
  ASSUME CoreInv, NEW r \in RunIds, rpc[r] \in LivePcs
  PROVE  /\ active.id = r /\ r # 0 /\ r < nextRunId
         /\ \A q \in RunIds : q # r => rpc[q] \notin LivePcs
         /\ \A c \in Clients : pc[c] # "spawn"
         /\ ~InHistory(r)
  <1>1. active.id = r /\ r # 0 /\ r < nextRunId
    BY ConstTypes DEF CoreInv, OneRecorder, FreshInv
  <1>2. \A q \in RunIds : q # r => rpc[q] \notin LivePcs
    BY <1>1 DEF CoreInv, OneRecorder
  <1>3. \A c \in Clients : pc[c] # "spawn"
    BY <1>1 DEF CoreInv, SpawnInv, LivePcs
  <1>4. ~InHistory(r)
    BY <1>1 DEF CoreInv, HostedRunAccounted
  <1> QED BY <1>1, <1>2, <1>3, <1>4

\* What a recorder step keeps as long as it stays live and publishes nothing.
LEMMA RecorderFrame ==
  ASSUME CoreInv, TypeOK', NEW r \in RunIds, NEW from \in LivePcs, NEW to \in LivePcs,
         RecStep(r, from, to), active'.id = active.id, active'.state = active.state,
         UNCHANGED <<history, nextRunId, pc, cRun, reply>>
  PROVE  /\ NoRestore' /\ ActiveIsRecording' /\ OneRecorder' /\ SpawnInv' /\ FreshInv'
         /\ HostedRunAccounted' /\ SnapshotIsOwnRun' /\ ReplyInv'
         /\ active.id = r /\ r # 0 /\ rpc[r] = from /\ rpc'[r] = to
         /\ \A q \in RunIds : q # r => rpc'[q] = rpc[q] /\ rpc[q] \notin LivePcs
  <1>a. TypeOK
    BY DEF CoreInv
  <1>1. rpc[r] = from /\ rpc'[r] = to /\ \A q \in RunIds : q # r => rpc'[q] = rpc[q]
    BY <1>a DEF RecStep, TypeOK
  <1>2. /\ active.id = r /\ r # 0 /\ r < nextRunId
        /\ \A q \in RunIds : q # r => rpc[q] \notin LivePcs
        /\ \A c \in Clients : pc[c] # "spawn"
    BY <1>1, RecorderOwnsSlot
  <1>3. NoRestore' /\ ActiveIsRecording' /\ SnapshotIsOwnRun' /\ ReplyInv' /\ HostedRunAccounted'
    BY DEF CoreInv, NoRestore, ActiveIsRecording, SnapshotIsOwnRun, ReplyInv,
           HostedRunAccounted, InHistory
  <1>4. OneRecorder' /\ SpawnInv'
    BY <1>1, <1>2 DEF OneRecorder, SpawnInv
  <1>5. FreshInv'
    <2>1. \A q \in RunIds : q >= nextRunId => q # r
      BY <1>a, <1>2, ConstTypes DEF TypeOK
    <2> QED BY <1>1, <2>1 DEF CoreInv, FreshInv, InHistory
  <1> QED BY <1>1, <1>2, <1>3, <1>4, <1>5

\* A recorder step that keeps the frame keeps CoreInv if it keeps the data.
LEMMA RecorderKeeps ==
  ASSUME CoreInv, TypeOK', NEW r \in RunIds, NEW from \in LivePcs, NEW to \in LivePcs,
         RecStep(r, from, to), active'.id = active.id, active'.state = active.state,
         UNCHANGED <<history, nextRunId, pc, cRun, reply>>,
         DataInv', SnapInv'
  PROVE  CoreInv'
  BY RecorderFrame DEF CoreInv

\* finalize_run's last lock section publishes the run's own data.
LEMMA CoreFinalizeCommit ==
  ASSUME CoreInv, TypeOK', NEW r \in RunIds, FinalizeCommit(r)
  PROVE  CoreInv'
  <1> USE DEF inner, stores, recorders, clients
  <1>a. TypeOK
    BY DEF CoreInv
  <1>1. /\ rpc[r] = "commit" /\ rpc'[r] = "done"
        /\ \A q \in RunIds : q # r => rpc'[q] = rpc[q]
    BY <1>a DEF FinalizeCommit, RecStep, TypeOK
  <1>2. /\ active.id = r /\ r # 0 /\ r < nextRunId
        /\ \A q \in RunIds : q # r => rpc[q] \notin LivePcs
        /\ \A c \in Clients : pc[c] # "spawn"
        /\ ~InHistory(r)
    BY <1>1, RecorderOwnsSlot DEF LivePcs
  <1>3. /\ rSnap[r].summary.id = r
        /\ rSnap[r].summary.state = "Stopped"
        /\ rSnap[r].summary.reason \in StopReasons
        /\ rSnap[r].summary.samples = active.samples
        /\ rSnap[r].agg.samples = agg.samples
        /\ rSnap[r].bins = bins
    BY <1>1 DEF CoreInv, SnapInv
  <1>4. /\ active' = NoRun
        /\ history' = [history EXCEPT ![r] = rSnap[r]]
        /\ UNCHANGED <<nextRunId, agg, bins, rSnap, pc, cRun, reply>>
    BY <1>2, <1>3 DEF FinalizeCommit, FinalizedSlot, Upsert
  <1>5. history'[r] = rSnap[r] /\ \A q \in RunIds : q # r => history'[q] = history[q]
    BY <1>a, <1>4 DEF TypeOK
  <1>6. active'.id = 0
    BY <1>4, NoValues
  <1>7. NoRestore' /\ ActiveIsRecording' /\ SpawnInv' /\ DataInv'
    BY <1>2, <1>4, <1>6 DEF CoreInv, NoRestore, ActiveIsRecording, SpawnInv, DataInv
  <1>8. OneRecorder' /\ SnapInv'
    <2>1. \A q \in RunIds : rpc'[q] \notin LivePcs
      BY <1>1, <1>2 DEF LivePcs
    <2> QED BY <2>1 DEF OneRecorder, SnapInv, LivePcs
  <1>9. FreshInv'
    <2>1. \A q \in RunIds : q >= nextRunId => q # r
      BY <1>a, <1>2, ConstTypes DEF TypeOK
    <2>2. active'.id < nextRunId'
      BY <1>a, <1>4, <1>6 DEF TypeOK
    <2> QED BY <1>1, <1>4, <1>5, <2>1, <2>2 DEF CoreInv, FreshInv, InHistory
  <1>10. HostedRunAccounted'
    <2> SUFFICES ASSUME NEW q \in RunIds, q < nextRunId'
                 PROVE  (active'.id = q) # InHistory(q)'
      BY DEF HostedRunAccounted
    <2>1. active'.id # q
      BY <1>6, ConstTypes
    <2>2. CASE q = r
      BY <2>1, <2>2, <1>2, <1>3, <1>5 DEF InHistory
    <2>3. CASE q # r
      BY <2>1, <2>3, <1>2, <1>4, <1>5 DEF CoreInv, HostedRunAccounted, InHistory
    <2> QED BY <2>2, <2>3
  <1>11. SnapshotIsOwnRun'
    <2> SUFFICES ASSUME NEW q \in RunIds, InHistory(q)'
                 PROVE  /\ history'[q].summary.id = q
                        /\ history'[q].summary.state = "Stopped"
                        /\ history'[q].summary.reason \in StopReasons
                        /\ history'[q].summary.samples = history'[q].agg.samples[q]
                        /\ \A o \in Origins \ {q} : history'[q].agg.samples[o] = 0
                        /\ history'[q].bins \subseteq {q}
      BY DEF SnapshotIsOwnRun
    <2>1. CASE q = r
      <3>1. /\ active.samples = agg.samples[r]
            /\ \A o \in Origins \ {r} : agg.samples[o] = 0
            /\ bins \subseteq {r}
        BY <1>1, <1>2 DEF CoreInv, DataInv
      <3> QED BY <2>1, <1>3, <1>5, <3>1
    <2>2. CASE q # r
      BY <2>2, <1>5 DEF CoreInv, SnapshotIsOwnRun, InHistory
    <2> QED BY <2>1, <2>2
  <1>12. ReplyInv'
    BY <1>2, <1>4, <1>5 DEF CoreInv, ReplyInv, InHistory
  <1> QED BY <1>7, <1>8, <1>9, <1>10, <1>11, <1>12 DEF CoreInv

\* Every step of a recorder thread keeps CoreInv.
LEMMA CoreRecorderStep ==
  ASSUME CoreInv, TypeOK', NEW r \in RunIds, RecorderStep(r)
  PROVE  CoreInv'
  <1> USE DEF inner, stores, recorders, clients
  <1>a. TypeOK
    BY DEF CoreInv
  <1>b. {"attach", "setTarget", "loop", "record", "final", "snapAgg", "snapBins", "commit"}
          \subseteq LivePcs
    BY DEF LivePcs
  <1>c. ASSUME rpc[r] \in LivePcs
        PROVE  /\ active.id = r /\ r # 0
               /\ \A q \in RunIds : q # r => rpc[q] \notin LivePcs
    BY <1>c, RecorderOwnsSlot
  <1>d. \A from, to : RecStep(r, from, to) =>
          /\ rpc[r] = from /\ rpc'[r] = to
          /\ \A q \in RunIds : q # r => rpc'[q] = rpc[q]
    BY <1>a DEF RecStep, TypeOK
  <1>e. /\ bins \in SUBSET Origins /\ agg \in Aggregator /\ active \in RunSummary
        /\ agg.samples \in [Origins -> Nat] /\ r \in Origins
    BY <1>a, ConstTypes DEF TypeOK, Aggregator
  \* Only the recorder at "snapAgg" or later has a snapshot in the making.
  <1>f. ASSUME NEW to \in LivePcs \ {"snapAgg", "snapBins", "commit"}, rpc'[r] = to,
               rpc[r] \in LivePcs, \A q \in RunIds : q # r => rpc'[q] = rpc[q]
        PROVE  SnapInv'
    BY <1>f, <1>c DEF SnapInv, LivePcs
  <1>1. CASE RecAttach(r)
    <2>1. RecStep(r, "attach", "setTarget") /\ active.id = r
      BY <1>1, <1>b, <1>c, <1>d DEF RecAttach
    <2>2. /\ active' = [active EXCEPT !.attached = TRUE]
          /\ UNCHANGED <<agg, bins, rSnap, history, nextRunId, pc, cRun, reply>>
      BY <1>1, <2>1 DEF RecAttach
    <2>3. active'.id = active.id /\ active'.state = active.state /\ active'.samples = active.samples
      BY <2>2, <1>e DEF RunSummary
    <2>4. DataInv'
      BY <2>1, <2>2, <2>3, <1>d DEF CoreInv, DataInv
    <2>5. SnapInv'
      BY <2>1, <1>b, <1>d, <1>f
    <2> QED BY <2>1, <2>2, <2>3, <2>4, <2>5, <1>b, RecorderKeeps
  <1>2. CASE RecBinaries(r)
    <2>1. PICK from \in {"setTarget", "loop"} : RecStep(r, from, "loop")
      BY <1>2 DEF RecBinaries
    <2>2. /\ bins' = bins \cup {r}
          /\ UNCHANGED <<active, agg, rSnap, history, nextRunId, pc, cRun, reply>>
      BY <1>2 DEF RecBinaries
    <2>3. rpc[r] = from /\ rpc'[r] = "loop" /\ active.id = r /\ r # 0
      BY <2>1, <1>b, <1>c, <1>d
    <2>4. DataInv'
      BY <2>2, <2>3 DEF CoreInv, DataInv
    <2>5. SnapInv'
      BY <2>1, <2>3, <1>b, <1>d, <1>f
    <2> QED BY <2>1, <2>2, <2>4, <2>5, <1>b, RecorderKeeps
  <1>3. CASE RecNote(r)
    <2>1. RecStep(r, "loop", "record")
      BY <1>3 DEF RecNote
    <2>2. rpc[r] = "loop" /\ rpc'[r] = "record" /\ active.id = r /\ r # 0
      BY <2>1, <1>b, <1>c, <1>d
    <2>3. /\ active' = [active EXCEPT !.samples = active.samples + 1]
          /\ UNCHANGED <<agg, bins, rSnap, history, nextRunId, pc, cRun, reply>>
      BY <1>3, <2>2 DEF RecNote
    <2>4. /\ active'.id = active.id /\ active'.state = active.state
          /\ active'.samples = active.samples + 1
      BY <2>3, <1>e DEF RunSummary
    <2>5. DataInv'
      BY <2>2, <2>3, <2>4 DEF CoreInv, DataInv
    <2>6. SnapInv'
      BY <2>1, <2>2, <1>b, <1>d, <1>f
    <2> QED BY <2>1, <2>3, <2>4, <2>5, <2>6, <1>b, RecorderKeeps
  <1>4. CASE RecRecord(r)
    <2>1. RecStep(r, "record", "loop")
      BY <1>4 DEF RecRecord
    <2>2. rpc[r] = "record" /\ rpc'[r] = "loop" /\ active.id = r /\ r # 0
      BY <2>1, <1>b, <1>c, <1>d
    <2>3. /\ agg' = [agg EXCEPT !.samples = [agg.samples EXCEPT ![r] = @ + 1]]
          /\ UNCHANGED <<active, bins, rSnap, history, nextRunId, pc, cRun, reply>>
      BY <1>4 DEF RecRecord
    <2>4. agg'.samples = [agg.samples EXCEPT ![r] = @ + 1]
      BY <2>3, <1>e DEF Aggregator
    <2>5. /\ agg'.samples[r] = agg.samples[r] + 1
          /\ \A o \in Origins \ {r} : agg'.samples[o] = agg.samples[o]
      BY <2>4, <1>e
    <2>6. DataInv'
      BY <2>2, <2>3, <2>5 DEF CoreInv, DataInv
    <2>7. SnapInv'
      BY <2>1, <2>2, <1>b, <1>d, <1>f
    <2> QED BY <2>1, <2>3, <2>6, <2>7, <1>b, RecorderKeeps
  <1>5. CASE \E w \in LoopExits : RecBreak(r, w)
    <2>1. UNCHANGED <<active, history, nextRunId, rpc, rSnap, bins, agg, pc, cRun, reply>>
      BY <1>5 DEF RecBreak
    <2>2. QuietClients
      BY <2>1, IdleQuiet
    <2> QED BY <2>1, <2>2, QuietStep
  <1>6. CASE RecReason(r) \/ RecFail(r)
    <2>1. PICK from \in {"attach", "loop"} : RecStep(r, from, "final")
      BY <1>6 DEF RecReason, RecFail
    <2>2. UNCHANGED <<active, bins, agg, rSnap, history, nextRunId, pc, cRun, reply>>
      BY <1>6 DEF RecReason, RecFail
    <2>3. rpc[r] = from /\ rpc'[r] = "final" /\ active.id = r /\ r # 0
      BY <2>1, <1>b, <1>c, <1>d
    <2>4. DataInv'
      BY <2>2, <2>3 DEF CoreInv, DataInv
    <2>5. SnapInv'
      BY <2>1, <2>3, <1>b, <1>d, <1>f
    <2> QED BY <2>1, <2>2, <2>4, <2>5, <1>b, RecorderKeeps
  <1>7. CASE FinalizeRead(r)
    <2>1. RecStep(r, "final", "snapAgg") /\ active.id = r
      BY <1>7, <1>b, <1>c, <1>d DEF FinalizeRead
    <2>2. /\ rSnap' = [rSnap EXCEPT ![r] = [rSnap[r] EXCEPT !.summary =
                         [active EXCEPT !.state = "Stopped", !.reason = why[r]]]]
          /\ UNCHANGED <<active, bins, agg, history, nextRunId, pc, cRun, reply>>
      BY <1>7, <2>1, <1>d DEF FinalizeRead
    <2>3. rpc[r] = "final" /\ rpc'[r] = "snapAgg" /\ r # 0 /\ why[r] \in StopReasons
      BY <2>1, <1>a, <1>b, <1>c, <1>d DEF TypeOK
    <2>4. rSnap'[r].summary = [active EXCEPT !.state = "Stopped", !.reason = why[r]]
      <3>1. rSnap'[r] = [rSnap[r] EXCEPT !.summary =
                         [active EXCEPT !.state = "Stopped", !.reason = why[r]]]
        BY <2>2, <1>a DEF TypeOK
      <3>2. rSnap[r] \in Snapshot
        BY <1>a DEF TypeOK
      <3> QED BY <3>1, <3>2 DEF Snapshot
    <2>5. /\ rSnap'[r].summary.id = r /\ rSnap'[r].summary.state = "Stopped"
          /\ rSnap'[r].summary.reason \in StopReasons
          /\ rSnap'[r].summary.samples = active.samples
      BY <2>1, <2>3, <2>4, <1>e DEF RunSummary
    <2>6. DataInv'
      BY <2>1, <2>2, <2>3 DEF CoreInv, DataInv
    <2>7. \A q \in RunIds : q # r => rpc'[q] \notin LivePcs
      BY <2>1, <2>3, <1>b, <1>c, <1>d
    <2>8. SnapInv'
      BY <2>2, <2>3, <2>5, <2>7 DEF SnapInv, LivePcs
    <2> QED BY <2>1, <2>2, <2>6, <2>8, <1>b, RecorderKeeps
  <1>8. CASE SnapshotAgg(r)
    <2>1. RecStep(r, "snapAgg", "snapBins")
      BY <1>8 DEF SnapshotAgg
    <2>2. /\ rSnap' = [rSnap EXCEPT ![r] = [rSnap[r] EXCEPT !.agg = agg]]
          /\ UNCHANGED <<active, bins, agg, history, nextRunId, pc, cRun, reply>>
      BY <1>8 DEF SnapshotAgg
    <2>3. rpc[r] = "snapAgg" /\ rpc'[r] = "snapBins" /\ active.id = r /\ r # 0
      BY <2>1, <1>b, <1>c, <1>d
    <2>4. rSnap'[r].summary = rSnap[r].summary /\ rSnap'[r].agg = agg
      <3>1. rSnap'[r] = [rSnap[r] EXCEPT !.agg = agg] /\ rSnap[r] \in Snapshot
        BY <2>2, <1>a DEF TypeOK
      <3> QED BY <3>1 DEF Snapshot
    <2>5. DataInv'
      BY <2>2, <2>3 DEF CoreInv, DataInv
    <2>6. \A q \in RunIds : q # r => rpc'[q] \notin LivePcs
      BY <2>1, <2>3, <1>b, <1>c, <1>d
    <2>7. SnapInv'
      BY <2>2, <2>3, <2>4, <2>6 DEF CoreInv, SnapInv, LivePcs
    <2> QED BY <2>1, <2>2, <2>5, <2>7, <1>b, RecorderKeeps
  <1>9. CASE SnapshotBins(r)
    <2>1. RecStep(r, "snapBins", "commit")
      BY <1>9 DEF SnapshotBins
    <2>2. /\ rSnap' = [rSnap EXCEPT ![r] = [rSnap[r] EXCEPT !.bins = bins]]
          /\ UNCHANGED <<active, bins, agg, history, nextRunId, pc, cRun, reply>>
      BY <1>9 DEF SnapshotBins
    <2>3. rpc[r] = "snapBins" /\ rpc'[r] = "commit" /\ active.id = r /\ r # 0
      BY <2>1, <1>b, <1>c, <1>d
    <2>4. /\ rSnap'[r].summary = rSnap[r].summary /\ rSnap'[r].agg = rSnap[r].agg
          /\ rSnap'[r].bins = bins
      <3>1. rSnap'[r] = [rSnap[r] EXCEPT !.bins = bins] /\ rSnap[r] \in Snapshot
        BY <2>2, <1>a DEF TypeOK
      <3> QED BY <3>1 DEF Snapshot
    <2>5. DataInv'
      BY <2>2, <2>3 DEF CoreInv, DataInv
    <2>6. \A q \in RunIds : q # r => rpc'[q] \notin LivePcs
      BY <2>1, <2>3, <1>b, <1>c, <1>d
    <2>7. SnapInv'
      BY <2>2, <2>3, <2>4, <2>6 DEF CoreInv, SnapInv, LivePcs
    <2> QED BY <2>1, <2>2, <2>5, <2>7, <1>b, RecorderKeeps
  <1>10. CASE FinalizeCommit(r)
    BY <1>10, CoreFinalizeCommit
  <1> QED
    BY <1>1, <1>2, <1>3, <1>4, <1>5, <1>6, <1>7, <1>8, <1>9, <1>10 DEF RecorderStep

----------------------------------------------------------------------------
(* The lifecycle theorems. *)

\* Without open_saved and select_run in Ops no restoring step is enabled.
LEMMA CoreClientStep ==
  ASSUME CoreInv, NoRestoreOps, TypeOK', NEW c \in Clients, ClientStep(c)
  PROVE  CoreInv'
  <1>1. "open" \notin Ops /\ "select" \notin Ops /\ pc[c] \notin RestorePcs
    BY DEF NoRestoreOps, CoreInv, NoRestore
  <1>2. ~ \E p \in Paths : OpenMissing(c, p) \/ OpenSweep(c, p)
    BY <1>1 DEF OpenMissing, OpenSweep, Refuse, Call
  <1>3. ~ \E r \in RunIds : SelectSweep(c, r)
    BY <1>1 DEF SelectSweep, Refuse, Call
  <1>4. ~ (SelectLookup(c) \/ RestoreAgg(c) \/ RestoreBins(c) \/ RestoreCommit(c) \/ OpenAdvance(c))
    BY <1>1 DEF SelectLookup, RestoreAgg, RestoreBins, RestoreCommit, OpenAdvance, RestorePcs
  <1>5. CASE SpawnAttach(c)
    BY <1>5, CoreSpawnAttach
  <1>6. CASE \E limit \in BOOLEAN : BeginRun(c, limit)
    BY <1>6, CoreBeginRun
  <1>7. CASE ~ SpawnAttach(c) /\ ~ \E limit \in BOOLEAN : BeginRun(c, limit)
    <2>1. \/ StartSweep(c) \/ StopRequest(c) \/ StopPoll(c)
          \/ \E cond \in WaitPcs : WaitCall(c, cond)
          \/ \E elapsed \in BOOLEAN : WaitPoll(c, elapsed)
          \/ MarkCheck(c) \/ MarkRecord(c) \/ SaveSummary(c) \/ SaveAgg(c)
          \/ \E p \in Paths : SaveBins(c, p)
      BY <1>2, <1>3, <1>4, <1>7 DEF ClientStep
    <2> QED BY <2>1, QuietClientStep
  <1> QED BY <1>5, <1>6, <1>7

\* CoreInv is inductive.
LEMMA CoreNext ==
  ASSUME CoreInv, NoRestoreOps, [Next]_vars
  PROVE  CoreInv'
  <1>1. TypeOK
    BY DEF CoreInv
  <1>2. CASE \E c \in Clients : ClientStep(c)
    <2> PICK c \in Clients : ClientStep(c) BY <1>2
    <2>1. TypeOK'
      BY <1>1, TypeClientStep
    <2> QED BY <2>1, CoreClientStep
  <1>3. CASE \E r \in RunIds : RecorderStep(r)
    <2> PICK r \in RunIds : RecorderStep(r) BY <1>3
    <2>1. TypeOK'
      BY <1>1, TypeRecorderStep
    <2> QED BY <2>1, CoreRecorderStep
  <1>4. CASE UNCHANGED vars
    <2>1. /\ UNCHANGED <<active, history, nextRunId, rpc, rSnap, bins, agg, pc, cRun, reply>>
          /\ TypeOK'
      BY <1>1, <1>4 DEF vars, inner, stores, recorders, clients, TypeOK
    <2>2. QuietClients
      BY <2>1, IdleQuiet
    <2> QED BY <2>1, <2>2, QuietStep
  <1> QED BY <1>2, <1>3, <1>4 DEF Next

\* The inductive invariant holds for any number of clients, runs and samples,
\* as long as no client restores an archive.
THEOREM CoreInvariant == ASSUME NoRestoreOps PROVE Spec => []CoreInv
  <1>1. CoreInv /\ [Next]_vars => CoreInv'
    BY CoreNext
  <1> QED BY <1>1, CoreInit, PTL DEF Spec

\* The registry and its threads agree: a live recorder thread is the active
\* run's, and the run in the slot is Recording (begin_run, finalize_run).
THEOREM OneRecorderThm == ASSUME NoRestoreOps PROVE Spec => [](OneRecorder /\ ActiveIsRecording)
  <1>1. CoreInv => OneRecorder /\ ActiveIsRecording
    BY DEF CoreInv
  <1> QED BY <1>1, CoreInvariant, PTL

\* No run is lost and none is listed twice: every id handed out is the active
\* run or is in the history (begin_run, finalize_run, list_runs).
THEOREM HostedRunAccountedThm == ASSUME NoRestoreOps PROVE Spec => []HostedRunAccounted
  <1>1. CoreInv => HostedRunAccounted
    BY DEF CoreInv
  <1> QED BY <1>1, CoreInvariant, PTL

\* What finalize_run publishes is the run's own data, although the snapshot is
\* taken store by store while clients mark, save, stop and try to start.
THEOREM SnapshotIsOwnRunThm == ASSUME NoRestoreOps PROVE Spec => []SnapshotIsOwnRun
  <1>1. CoreInv => SnapshotIsOwnRun
    BY DEF CoreInv
  <1> QED BY <1>1, CoreInvariant, PTL

\* stop_active answers about the run it was asked to stop, whichever run is
\* active by then.
THEOREM StopReturnsOwnRunThm == ASSUME NoRestoreOps PROVE Spec => []StopReturnsOwnRun
  <1>1. CoreInv => StopReturnsOwnRun
    BY DEF CoreInv, SnapshotIsOwnRun, ReplyInv, StopReturnsOwnRun
  <1> QED BY <1>1, CoreInvariant, PTL

----------------------------------------------------------------------------
(* The registry implements RunLifecycle. *)

\* A step either leaves slot and history alone, fills the slot with the next
\* free id, or moves the active run from the slot to the history.
LEMMA LifecycleCases ==
  ASSUME CoreInv, NoRestoreOps, [Next]_vars
  PROVE  \/ active'.id = active.id /\ history' = history
         \/ /\ active.id = 0 /\ nextRunId \in RunIds
            /\ active'.id = nextRunId /\ history' = history
         \/ \E r \in RunIds :
              /\ active.id = r /\ active'.id = 0
              /\ rSnap[r].summary.id = r
              /\ history' = [history EXCEPT ![r] = rSnap[r]]
  <1> USE DEF inner, stores, recorders, clients
  <1>a. TypeOK
    BY DEF CoreInv
  <1>1. CASE \E c \in Clients : ClientStep(c)
    <2> PICK c \in Clients : ClientStep(c) BY <1>1
    <2>1. "open" \notin Ops /\ "select" \notin Ops /\ pc[c] \notin RestorePcs
      BY DEF NoRestoreOps, CoreInv, NoRestore
    <2>2. ~ RestoreCommit(c)
      BY <2>1 DEF RestoreCommit, RestorePcs
    <2>3. CASE \E limit \in BOOLEAN : BeginRun(c, limit)
      <3> PICK limit \in BOOLEAN : BeginRun(c, limit) BY <2>3
      <3>1. CASE SlotTaken
        BY <3>1 DEF BeginRun
      <3>2. CASE ~SlotTaken
        BY <3>2, <1>a, ConstTypes DEF BeginRun, SlotTaken, TypeOK, NoRun
      <3> QED BY <3>1, <3>2
    <2>4. CASE ~ \E limit \in BOOLEAN : BeginRun(c, limit)
      <3>1. UNCHANGED <<active, history>>
        BY <2>2, <2>4
        DEF ClientStep, StartSweep, SpawnAttach, StopRequest, StopPoll, WaitCall, WaitPoll,
            MarkCheck, MarkRecord, SaveSummary, SaveAgg, SaveBins, OpenMissing, OpenSweep,
            SelectSweep, SelectLookup, RestoreAgg, RestoreBins, OpenAdvance
      <3> QED BY <3>1
    <2> QED BY <2>3, <2>4
  <1>2. CASE \E r \in RunIds : RecorderStep(r)
    <2> PICK r \in RunIds : RecorderStep(r) BY <1>2
    <2>1. CASE FinalizeCommit(r)
      <3>1. rpc[r] = "commit"
        BY <2>1 DEF FinalizeCommit, RecStep
      <3>2. active.id = r
        BY <3>1 DEF CoreInv, OneRecorder, LivePcs
      <3>3. rSnap[r].summary.id = r
        BY <3>1 DEF CoreInv, SnapInv
      <3>4. active' = NoRun /\ history' = [history EXCEPT ![r] = rSnap[r]]
        BY <2>1, <3>2, <3>3 DEF FinalizeCommit, FinalizedSlot, Upsert
      <3> QED BY <3>2, <3>3, <3>4, NoValues
    <2>2. CASE RecAttach(r) \/ RecNote(r)
      <3>1. active'.id = active.id
        BY <2>2, <1>a DEF RecAttach, RecNote, TypeOK, RunSummary
      <3>2. history' = history
        BY <2>2 DEF RecAttach, RecNote
      <3> QED BY <3>1, <3>2
    <2>3. CASE ~ FinalizeCommit(r) /\ ~ RecAttach(r) /\ ~ RecNote(r)
      <3>1. UNCHANGED <<active, history>>
        BY <2>3 DEF RecorderStep, RecBinaries, RecRecord, RecBreak, RecReason, RecFail,
                    FinalizeRead, SnapshotAgg, SnapshotBins
      <3> QED BY <3>1
    <2> QED BY <2>1, <2>2, <2>3
  <1>3. CASE UNCHANGED vars
    BY <1>3 DEF vars
  <1> QED BY <1>1, <1>2, <1>3 DEF Next

\* A published snapshot is never replaced or removed: upsert_history_snapshot
\* is only reached for a run that is not in the history yet.
THEOREM HistoryStableThm == ASSUME NoRestoreOps PROVE Spec => HistoryStable
  <1>1. ASSUME CoreInv, [Next]_vars
        PROVE  [\A r \in RunIds : InHistory(r) => history'[r] = history[r]]_vars
    <2> SUFFICES ASSUME NEW q \in RunIds, InHistory(q) PROVE history'[q] = history[q]
      OBVIOUS
    <2>1. CASE \E r \in RunIds : /\ active.id = r
                                 /\ history' = [history EXCEPT ![r] = rSnap[r]]
      <3> PICK r \in RunIds : active.id = r /\ history' = [history EXCEPT ![r] = rSnap[r]]
        BY <2>1
      <3>1. r < nextRunId
        BY <1>1 DEF CoreInv, FreshInv
      <3>2. q # r
        BY <1>1, <3>1 DEF CoreInv, HostedRunAccounted
      <3> QED BY <1>1, <3>2 DEF CoreInv, TypeOK
    <2> QED BY <1>1, <2>1, LifecycleCases
  <1> QED BY <1>1, CoreInvariant, PTL DEF Spec, HistoryStable

\* Every behaviour of the registry without restores is one of RunLifecycle:
\* one run records at a time, in id order, and a stopped run has one result,
\* which it keeps.
THEOREM ImplementsLifecycleThm == ASSUME NoRestoreOps PROVE Spec => ImplementsLifecycle
  <1>1. Init => Lifecycle!Init
    <2> SUFFICES ASSUME Init PROVE Lifecycle!Init
      OBVIOUS
    <2>1. active.id = 0 /\ \A r \in RunIds : ~InHistory(r)
      BY NoValues DEF Init, InHistory
    <2> QED BY <2>1, ConstTypes DEF Init, Lifecycle!Init, phaseOf
  <1>2. ASSUME CoreInv, [Next]_vars
        PROVE  [Lifecycle!Next]_(Lifecycle!lifecycleVars)
    <2>a. TypeOK
      BY <1>2 DEF CoreInv
    <2>1. CASE active'.id = active.id /\ history' = history
      BY <2>1 DEF Lifecycle!lifecycleVars, phaseOf, InHistory
    <2>2. CASE /\ active.id = 0 /\ nextRunId \in RunIds
               /\ active'.id = nextRunId /\ history' = history
      <3>1. \A q \in RunIds : active.id # q
        BY <2>2, ConstTypes
      <3>2. \A q \in RunIds : InHistory(q) => q < nextRunId
        BY <1>2, <2>2, ConstTypes DEF CoreInv, FreshInv
      <3>3. ~InHistory(nextRunId)
        BY <2>2, <3>2, ConstTypes
      <3>4. phaseOf' = [phaseOf EXCEPT ![nextRunId] = "recording"]
        BY <2>2, <3>1 DEF phaseOf, InHistory
      <3>5. phaseOf[nextRunId] = "fresh"
        BY <2>2, <3>1, <3>3 DEF phaseOf
      <3>6. \A q \in RunIds : phaseOf[q] # "recording" /\ (phaseOf[q] # "fresh" => q < nextRunId)
        BY <3>1, <3>2 DEF phaseOf
      <3>7. Lifecycle!Begin(nextRunId)
        BY <2>2, <3>4, <3>5, <3>6 DEF Lifecycle!Begin
      <3> QED BY <2>2, <3>7 DEF Lifecycle!Next
    <2>3. CASE \E r \in RunIds :
                 /\ active.id = r /\ active'.id = 0
                 /\ rSnap[r].summary.id = r
                 /\ history' = [history EXCEPT ![r] = rSnap[r]]
      <3> PICK r \in RunIds : /\ active.id = r /\ active'.id = 0
                              /\ rSnap[r].summary.id = r
                              /\ history' = [history EXCEPT ![r] = rSnap[r]]
        BY <2>3
      <3>1. history'[r] = rSnap[r] /\ \A q \in RunIds : q # r => history'[q] = history[q]
        BY <2>a DEF TypeOK
      <3>2. \A q \in RunIds : active'.id # q
        BY ConstTypes
      <3>3. phaseOf' = [phaseOf EXCEPT ![r] = "stopped"]
        BY <3>1, <3>2, ConstTypes DEF phaseOf, InHistory
      <3>4. phaseOf[r] = "recording"
        BY DEF phaseOf
      <3>5. history'[r] # NoSnapshot
        BY <3>1, NoValues, ConstTypes
      <3>6. history' = [history EXCEPT ![r] = history'[r]]
        BY <3>1
      <3>7. Lifecycle!Finish(r)
        BY <3>3, <3>4, <3>5, <3>6 DEF Lifecycle!Finish
      <3> QED BY <3>7 DEF Lifecycle!Next
    <2> QED BY <1>2, <2>1, <2>2, <2>3, LifecycleCases
  <1> QED
    BY <1>1, <1>2, CoreInvariant, PTL DEF Spec, ImplementsLifecycle, Lifecycle!Spec

----------------------------------------------------------------------------
(* What an archive counts.  Beside CoreInv, a save in progress must know    *)
(* that its run was begun and that no later run replaces the query state    *)
(* before the aggregator is read: either the server begins one run only, or *)
(* the one client that saves is the one that would start the next.          *)

OneClient == \A c, d \in Clients : c = d

SavePcs == {"saveAgg", "saveBins"}

\* The selected run's data is what the query state holds.
SelectedCounted ==
  (active.id = 0 /\ selected.id # 0) =>
    selected.id < nextRunId /\ selected.samples <= agg.samples[selected.id] + 1

SaveInv ==
  \A c \in Clients : pc[c] \in SavePcs =>
    /\ cRun[c] \in RunIds /\ cRun[c] < nextRunId
    /\ cSnap[c].summary.id = cRun[c]
    /\ pc[c] = "saveAgg" => cSnap[c].summary.samples <= agg.samples[cRun[c]] + 1
    /\ pc[c] = "saveBins" => cSnap[c].summary.samples <= cSnap[c].agg.samples[cRun[c]] + 1

SavedInv == CoreInv /\ SelectedCounted /\ SaveInv /\ SavedCountNotAhead

\* A fresh server with no archives of other servers has saved nothing.
LEMMA SavedInit == ASSUME ForeignIds = {}, Init PROVE SavedInv
  <1>1. CoreInv /\ SelectedCounted
    BY CoreInit, NoValues DEF Init, SelectedCounted
  <1>2. SaveInv
    BY DEF Init, SaveInv, SavePcs
  <1>3. \A p \in Paths : disk[p] = NoSnapshot
    BY DEF Init
  <1>4. SavedCountNotAhead
    BY <1>3, NoValues DEF SavedCountNotAhead
  <1> QED BY <1>1, <1>2, <1>4 DEF SavedInv

\* No call enters a save or changes what a save has copied.
SaveKeeps ==
  \A d \in Clients : pc'[d] \in SavePcs =>
    pc'[d] = pc[d] /\ cRun'[d] = cRun[d] /\ cSnap'[d] = cSnap[d]

\* A step that hands out no id, writes no archive and takes no sample away
\* keeps what a save in progress and the archives count.
LEMMA SavedFrame ==
  ASSUME SavedInv, TypeOK', SaveKeeps, UNCHANGED <<nextRunId, disk>>,
         \A o \in Origins : agg.samples[o] <= agg'.samples[o]
  PROVE  SaveInv' /\ SavedCountNotAhead'
  <1>1. SavedCountNotAhead'
    BY DEF SavedInv, SavedCountNotAhead
  <1>2. SaveInv'
    <2> SUFFICES ASSUME NEW c \in Clients, pc'[c] \in SavePcs
                 PROVE  /\ cRun'[c] \in RunIds /\ cRun'[c] < nextRunId'
                        /\ cSnap'[c].summary.id = cRun'[c]
                        /\ pc'[c] = "saveAgg" =>
                             cSnap'[c].summary.samples <= agg'.samples[cRun'[c]] + 1
                        /\ pc'[c] = "saveBins" =>
                             cSnap'[c].summary.samples <= cSnap'[c].agg.samples[cRun'[c]] + 1
      BY DEF SaveInv
    <2>1. pc'[c] = pc[c] /\ cRun'[c] = cRun[c] /\ cSnap'[c] = cSnap[c]
      BY DEF SaveKeeps
    <2>2. cRun[c] \in RunIds /\ cRun[c] \in Origins
      BY <2>1, ConstTypes DEF SavedInv, SaveInv
    <2>3. /\ agg.samples[cRun[c]] \in Nat /\ agg'.samples[cRun[c]] \in Nat
          /\ cSnap[c].summary.samples \in Nat
      BY <2>2 DEF SavedInv, CoreInv, TypeOK, Aggregator, Snapshot, RunSummary
    <2>4. /\ cRun[c] < nextRunId /\ cSnap[c].summary.id = cRun[c]
          /\ pc[c] = "saveAgg" => cSnap[c].summary.samples <= agg.samples[cRun[c]] + 1
          /\ pc[c] = "saveBins" =>
               cSnap[c].summary.samples <= cSnap[c].agg.samples[cRun[c]] + 1
      BY <2>1 DEF SavedInv, SaveInv
    <2>5. agg.samples[cRun[c]] <= agg'.samples[cRun[c]]
      BY <2>2
    <2>6. pc[c] = "saveAgg" => cSnap[c].summary.samples <= agg'.samples[cRun[c]] + 1
      BY <2>3, <2>4, <2>5
    <2> QED BY <2>1, <2>2, <2>4, <2>6
  <1> QED BY <1>1, <1>2

\* The slot and the selection stay: so does what the selection counts.
LEMMA SelectedFrame ==
  ASSUME SavedInv, TypeOK', nextRunId' = nextRunId, selected' = selected,
         active'.id = active.id,
         \A o \in Origins : agg.samples[o] <= agg'.samples[o]
  PROVE  SelectedCounted'
  <1> SUFFICES ASSUME active.id = 0, selected.id # 0
               PROVE  selected.id < nextRunId /\ selected.samples <= agg'.samples[selected.id] + 1
    BY DEF SelectedCounted
  <1>1. selected.id \in Origins /\ selected.samples \in Nat
    BY DEF SavedInv, CoreInv, TypeOK, RunSummary
  <1>2. agg.samples[selected.id] \in Nat /\ agg'.samples[selected.id] \in Nat
    BY <1>1 DEF SavedInv, CoreInv, TypeOK, Aggregator
  <1>3. selected.id < nextRunId /\ selected.samples <= agg.samples[selected.id] + 1
    BY DEF SavedInv, SelectedCounted
  <1>4. agg.samples[selected.id] <= agg'.samples[selected.id]
    BY <1>1
  <1> QED BY <1>1, <1>2, <1>3, <1>4

\* A call that returns, is refused, or starts another operation enters no save.
LEMMA SaveKeepsCall ==
  ASSUME TypeOK, NEW c \in Clients, NEW op, NEW tag, NEW s, NEW r, NEW p, p \notin SavePcs,
         \/ Return(c, tag, s)
         \/ Refuse(c, op, tag)
         \/ Call(c, op, r, p) /\ UNCHANGED cSnap
  PROVE  SaveKeeps
  BY DEF TypeOK, SaveKeeps, SavePcs, Return, Refuse, Call

\* The sections of a call that neither save, restore nor begin a run.
LEMMA SavedClientStep ==
  ASSUME SavedInv, TypeOK', NEW c \in Clients,
         \/ StartSweep(c) \/ SpawnAttach(c) \/ StopRequest(c) \/ StopPoll(c)
         \/ \E cond \in WaitPcs : WaitCall(c, cond)
         \/ \E elapsed \in BOOLEAN : WaitPoll(c, elapsed)
         \/ MarkCheck(c) \/ MarkRecord(c)
         \/ \E limit \in BOOLEAN : SlotTaken /\ BeginRun(c, limit)
  PROVE  SelectedCounted' /\ SaveInv' /\ SavedCountNotAhead'
  <1> USE DEF inner, stores, recorders, clients
  <1>a. TypeOK
    BY DEF SavedInv, CoreInv
  <1>b. \A o \in Origins : agg.samples[o] \in Nat
    BY <1>a DEF TypeOK, Aggregator
  <1>c. {"begin", "stopPoll", "mark"} \cap SavePcs = {} /\ WaitPcs \cap SavePcs = {}
    BY DEF SavePcs, WaitPcs
  <1>1. UNCHANGED <<nextRunId, disk, active, selected>>
    BY DEF StartSweep, SpawnAttach, StopRequest, StopPoll, WaitCall, WaitPoll, MarkCheck,
           MarkRecord, BeginRun
  <1>2. agg'.samples = agg.samples
    <2>1. CASE MarkRecord(c)
      BY <2>1, <1>a DEF MarkRecord, TypeOK, Aggregator
    <2>2. CASE ~MarkRecord(c)
      BY <2>2 DEF StartSweep, SpawnAttach, StopRequest, StopPoll, WaitCall, WaitPoll,
                  MarkCheck, BeginRun
    <2> QED BY <2>1, <2>2
  <1>3. SaveKeeps
    <2>1. CASE StartSweep(c)
      BY <2>1, <1>a, <1>c, SaveKeepsCall DEF StartSweep
    <2>2. CASE SpawnAttach(c) \/ StopPoll(c) \/ MarkRecord(c)
      BY <2>2, <1>a, <1>c, SaveKeepsCall DEF SpawnAttach, StopPoll, MarkRecord
    <2>3. CASE StopRequest(c)
      BY <2>3, <1>a, <1>c, SaveKeepsCall DEF StopRequest
    <2>4. CASE \E cond \in WaitPcs : WaitCall(c, cond)
      BY <2>4, <1>a, <1>c, SaveKeepsCall DEF WaitCall
    <2>5. CASE \E elapsed \in BOOLEAN : WaitPoll(c, elapsed)
      <3> PICK elapsed \in BOOLEAN : WaitPoll(c, elapsed) BY <2>5
      <3>1. CASE WaitOutcome(pc[c], elapsed) = "none"
        BY <3>1 DEF WaitPoll, SaveKeeps
      <3>2. CASE WaitOutcome(pc[c], elapsed) # "none"
        BY <3>2, <1>a, <1>c, SaveKeepsCall DEF WaitPoll
      <3> QED BY <3>1, <3>2
    <2>6. CASE MarkCheck(c)
      BY <2>6, <1>a, <1>c, SaveKeepsCall DEF MarkCheck
    <2>7. CASE \E limit \in BOOLEAN : SlotTaken /\ BeginRun(c, limit)
      BY <2>7, <1>a, <1>c, SaveKeepsCall DEF BeginRun
    <2> QED BY <2>1, <2>2, <2>3, <2>4, <2>5, <2>6, <2>7
  <1>4. \A o \in Origins : agg.samples[o] <= agg'.samples[o]
    BY <1>2, <1>b
  <1> QED BY <1>1, <1>3, <1>4, SavedFrame, SelectedFrame

\* begin_run empties the query state: no save may still have to read it.
LEMMA SavedBeginRun ==
  ASSUME SavedInv, TypeOK', MaxRuns = 1 \/ OneClient,
         NEW c \in Clients, NEW limit, BeginRun(c, limit), ~SlotTaken
  PROVE  SelectedCounted' /\ SaveInv' /\ SavedCountNotAhead'
  <1>a. TypeOK
    BY DEF SavedInv, CoreInv
  <1>1. nextRunId \in RunIds /\ nextRunId # 0 /\ active'.id = nextRunId
    BY <1>a, ConstTypes DEF BeginRun, TypeOK, NoRun
  <1>2. SelectedCounted'
    BY <1>1 DEF SelectedCounted
  <1>3. \A d \in Clients : pc[d] \notin SavePcs
    <2>1. CASE OneClient
      BY <2>1 DEF OneClient, BeginRun, SavePcs
    <2>2. CASE MaxRuns = 1
      BY <1>1, <2>2 DEF SavedInv, SaveInv, RunIds
    <2> QED BY <2>1, <2>2
  <1>4. SaveInv'
    BY <1>a, <1>3 DEF SaveInv, SavePcs, BeginRun, TypeOK
  <1>5. SavedCountNotAhead'
    BY DEF SavedInv, SavedCountNotAhead, BeginRun
  <1> QED BY <1>2, <1>4, <1>5

\* save_current reads the summary of a run whose samples the query state has,
LEMMA SavedSummary ==
  ASSUME SavedInv, TypeOK', NEW c \in Clients, SaveSummary(c)
  PROVE  SelectedCounted' /\ SaveInv' /\ SavedCountNotAhead'
  <1> USE DEF inner, stores, recorders, clients
  <1>a. TypeOK
    BY DEF SavedInv, CoreInv
  <1>b. \A o \in Origins : agg.samples[o] \in Nat
    BY <1>a DEF TypeOK, Aggregator
  <1>1. /\ UNCHANGED <<nextRunId, disk, active, selected, agg>>
        /\ \A o \in Origins : agg.samples[o] <= agg'.samples[o]
    BY <1>b DEF SaveSummary
  <1>2. SelectedCounted'
    BY <1>1, SelectedFrame
  <1>3. CASE QueryableRun.id = 0
    <2>1. SaveKeeps
      BY <1>3, <1>a, SaveKeepsCall DEF SaveSummary, SavePcs
    <2> QED BY <1>1, <1>2, <2>1, SavedFrame
  <1>4. CASE QueryableRun.id # 0
    <2> DEFINE q == QueryableRun
    <2>1. q.id \in RunIds /\ q.samples \in Nat /\ q \in RunSummary
      BY <1>a, <1>4, ConstTypes DEF QueryableRun, TypeOK, RunSummary
    <2>2. q.id < nextRunId /\ q.samples <= agg.samples[q.id] + 1
      <3>1. CASE active.id # 0
        <4>1. q = active /\ active.id < nextRunId
          BY <3>1 DEF QueryableRun, SavedInv, CoreInv, FreshInv
        <4>2. active.samples = agg.samples[q.id] \/ active.samples = agg.samples[q.id] + 1
          BY <3>1, <4>1 DEF SavedInv, CoreInv, DataInv
        <4> QED BY <4>1, <4>2, <2>1, <1>b, ConstTypes
      <3>2. CASE active.id = 0
        BY <3>2, <1>4 DEF QueryableRun, SavedInv, SelectedCounted
      <3> QED BY <3>1, <3>2
    <2>3. /\ pc' = [pc EXCEPT ![c] = "saveAgg"] /\ cRun' = [cRun EXCEPT ![c] = q.id]
          /\ cSnap' = [cSnap EXCEPT ![c] = [cSnap[c] EXCEPT !.summary = q]]
      BY <1>4 DEF SaveSummary, Call
    <2>4. /\ pc'[c] = "saveAgg" /\ cRun'[c] = q.id
          /\ cSnap'[c] = [cSnap[c] EXCEPT !.summary = q] /\ cSnap[c] \in Snapshot
          /\ \A d \in Clients : d # c =>
               pc'[d] = pc[d] /\ cRun'[d] = cRun[d] /\ cSnap'[d] = cSnap[d]
      BY <2>3, <1>a DEF TypeOK
    <2>5. cSnap'[c].summary = q
      BY <2>4 DEF Snapshot
    <2>6. SaveInv'
      BY <2>1, <2>2, <2>4, <2>5, <1>1 DEF SavedInv, SaveInv
    <2>7. SavedCountNotAhead'
      BY <1>1 DEF SavedInv, SavedCountNotAhead
    <2> QED BY <1>2, <2>6, <2>7
  <1> QED BY <1>3, <1>4

\* then the aggregator,
LEMMA SavedAgg ==
  ASSUME SavedInv, TypeOK', NEW c \in Clients, SaveAgg(c)
  PROVE  SelectedCounted' /\ SaveInv' /\ SavedCountNotAhead'
  <1> USE DEF inner, stores, recorders, clients
  <1>a. TypeOK
    BY DEF SavedInv, CoreInv
  <1>b. \A o \in Origins : agg.samples[o] \in Nat
    BY <1>a DEF TypeOK, Aggregator
  <1>1. /\ UNCHANGED <<nextRunId, disk, active, selected, agg>>
        /\ \A o \in Origins : agg.samples[o] <= agg'.samples[o]
    BY <1>b DEF SaveAgg
  <1>2. SelectedCounted' /\ SavedCountNotAhead'
    BY <1>1, SelectedFrame DEF SavedInv, SavedCountNotAhead
  <1>3. /\ pc[c] = "saveAgg" /\ pc'[c] = "saveBins" /\ cRun' = cRun
        /\ cSnap'[c] = [cSnap[c] EXCEPT !.agg = agg] /\ cSnap[c] \in Snapshot
        /\ \A d \in Clients : d # c => pc'[d] = pc[d] /\ cSnap'[d] = cSnap[d]
    BY <1>a DEF SaveAgg, Goto, TypeOK
  <1>4. cSnap'[c].summary = cSnap[c].summary /\ cSnap'[c].agg = agg
    BY <1>3 DEF Snapshot
  <1>5. /\ cRun[c] \in RunIds /\ cRun[c] < nextRunId /\ cSnap[c].summary.id = cRun[c]
        /\ cSnap[c].summary.samples <= agg.samples[cRun[c]] + 1
    BY <1>3 DEF SavedInv, SaveInv, SavePcs
  <1>6. SaveInv'
    <2> SUFFICES ASSUME NEW d \in Clients, pc'[d] \in SavePcs
                 PROVE  /\ cRun'[d] \in RunIds /\ cRun'[d] < nextRunId'
                        /\ cSnap'[d].summary.id = cRun'[d]
                        /\ pc'[d] = "saveAgg" =>
                             cSnap'[d].summary.samples <= agg'.samples[cRun'[d]] + 1
                        /\ pc'[d] = "saveBins" =>
                             cSnap'[d].summary.samples <= cSnap'[d].agg.samples[cRun'[d]] + 1
      BY DEF SaveInv
    <2>1. CASE d = c
      BY <2>1, <1>1, <1>3, <1>4, <1>5
    <2>2. CASE d # c
      <3>1. pc'[d] = pc[d] /\ cRun'[d] = cRun[d] /\ cSnap'[d] = cSnap[d]
        BY <2>2, <1>3
      <3> QED BY <3>1, <1>1 DEF SavedInv, SaveInv
    <2> QED BY <2>1, <2>2
  <1> QED BY <1>2, <1>6

\* and writes an archive that is at most one sample behind its summary.
LEMMA SavedBins ==
  ASSUME SavedInv, TypeOK', NEW c \in Clients, NEW p \in Paths, SaveBins(c, p)
  PROVE  SelectedCounted' /\ SaveInv' /\ SavedCountNotAhead'
  <1> USE DEF inner, stores, recorders, clients
  <1>a. TypeOK
    BY DEF SavedInv, CoreInv
  <1>b. \A o \in Origins : agg.samples[o] \in Nat
    BY <1>a DEF TypeOK, Aggregator
  <1>1. /\ UNCHANGED <<nextRunId, active, selected, agg>> /\ Return(c, "Ok", NoRun)
        /\ \A o \in Origins : agg.samples[o] <= agg'.samples[o]
    BY <1>b DEF SaveBins
  <1>2. SelectedCounted'
    BY <1>1, SelectedFrame
  <1>3. SaveInv'
    <2>1. SaveKeeps
      BY <1>1, <1>a, SaveKeepsCall DEF SavePcs
    <2> QED BY <1>1, <2>1 DEF SavedInv, SaveInv, SaveKeeps
  <1>4. /\ disk'[p] = [cSnap[c] EXCEPT !.bins = bins] /\ cSnap[c] \in Snapshot
        /\ \A x \in Paths : x # p => disk'[x] = disk[x]
    BY <1>a DEF SaveBins, ArchiveToWrite, TypeOK
  <1>5. disk'[p].summary = cSnap[c].summary /\ disk'[p].agg = cSnap[c].agg
    BY <1>4 DEF Snapshot
  <1>6. /\ cSnap[c].summary.id = cRun[c]
        /\ cSnap[c].summary.samples <= cSnap[c].agg.samples[cRun[c]] + 1
    BY DEF SavedInv, SaveInv, SaveBins, SavePcs
  <1>7. SavedCountNotAhead'
    BY <1>4, <1>5, <1>6 DEF SavedInv, SavedCountNotAhead
  <1> QED BY <1>2, <1>3, <1>7

\* A recorder thread only adds samples, and what it publishes it has counted.
LEMMA SavedRecorderStep ==
  ASSUME SavedInv, TypeOK', NEW r \in RunIds, RecorderStep(r)
  PROVE  SelectedCounted' /\ SaveInv' /\ SavedCountNotAhead'
  <1> USE DEF inner, stores, recorders, clients
  <1>a. TypeOK /\ CoreInv
    BY DEF SavedInv, CoreInv
  <1>b. \A o \in Origins : agg.samples[o] \in Nat
    BY <1>a DEF TypeOK, Aggregator
  <1>1. UNCHANGED <<nextRunId, disk, pc, cRun, cSnap>>
    BY DEF RecorderStep, RecAttach, RecBinaries, RecNote, RecRecord, RecBreak, RecReason,
           RecFail, FinalizeRead, SnapshotAgg, SnapshotBins, FinalizeCommit
  <1>2. SaveKeeps
    BY <1>1 DEF SaveKeeps
  <1>3. \A o \in Origins : agg.samples[o] <= agg'.samples[o]
    <2>1. CASE RecRecord(r)
      <3>1. agg' = [agg EXCEPT !.samples = [agg.samples EXCEPT ![r] = agg.samples[r] + 1]]
        BY <2>1 DEF RecRecord
      <3>2. agg'.samples = [agg.samples EXCEPT ![r] = agg.samples[r] + 1]
        BY <3>1, <1>a DEF TypeOK, Aggregator
      <3> QED BY <3>2, <1>a, <1>b DEF TypeOK, Aggregator
    <2>2. CASE ~RecRecord(r)
      <3>1. agg' = agg
        BY <2>2 DEF RecorderStep, RecAttach, RecBinaries, RecNote, RecBreak, RecReason,
                    RecFail, FinalizeRead, SnapshotAgg, SnapshotBins, FinalizeCommit
      <3> QED BY <3>1, <1>b
    <2> QED BY <2>1, <2>2
  <1>4. SaveInv' /\ SavedCountNotAhead'
    BY <1>1, <1>2, <1>3, SavedFrame
  <1>5. SelectedCounted'
    <2>1. CASE FinalizeCommit(r)
      <3>1. rpc[r] = "commit" /\ active.id = r /\ r # 0
        BY <2>1, <1>a, ConstTypes DEF FinalizeCommit, RecStep, CoreInv, OneRecorder, LivePcs
      <3>2. selected' = rSnap[r].summary /\ agg' = agg
        BY <2>1, <3>1 DEF FinalizeCommit
      <3>3. rSnap[r].summary.id = r /\ rSnap[r].summary.samples = agg.samples[r]
        BY <3>1, <1>a DEF CoreInv, SnapInv, DataInv
      <3>4. r < nextRunId /\ agg.samples[r] \in Nat
        BY <3>1, <1>a, <1>b, ConstTypes DEF CoreInv, FreshInv
      <3> QED BY <3>2, <3>3, <3>4, <1>1 DEF SelectedCounted
    <2>2. CASE ~FinalizeCommit(r)
      <3>1. selected' = selected
        BY <2>2 DEF RecorderStep, RecAttach, RecBinaries, RecNote, RecRecord, RecBreak,
                    RecReason, RecFail, FinalizeRead, SnapshotAgg, SnapshotBins
      <3>2. active'.id = active.id
        <4>1. CASE RecAttach(r) \/ RecNote(r)
          BY <4>1, <1>a DEF RecAttach, RecNote, TypeOK, RunSummary
        <4>2. CASE ~(RecAttach(r) \/ RecNote(r))
          BY <2>2, <4>2 DEF RecorderStep, RecBinaries, RecRecord, RecBreak, RecReason,
                            RecFail, FinalizeRead, SnapshotAgg, SnapshotBins
        <4> QED BY <4>1, <4>2
      <3> QED BY <1>1, <1>3, <3>1, <3>2, SelectedFrame
    <2> QED BY <2>1, <2>2
  <1> QED BY <1>4, <1>5

\* SavedInv is inductive.
LEMMA SavedNext ==
  ASSUME SavedInv, NoRestoreOps, MaxRuns = 1 \/ OneClient, [Next]_vars
  PROVE  SavedInv'
  <1>1. CoreInv' /\ TypeOK'
    BY CoreNext DEF SavedInv, CoreInv
  <1>2. CASE \E c \in Clients : ClientStep(c)
    <2> PICK c \in Clients : ClientStep(c) BY <1>2
    <2>1. "open" \notin Ops /\ "select" \notin Ops /\ pc[c] \notin RestorePcs
      BY DEF NoRestoreOps, SavedInv, CoreInv, NoRestore
    <2>2. ~ \E p \in Paths : OpenMissing(c, p) \/ OpenSweep(c, p)
      BY <2>1 DEF OpenMissing, OpenSweep, Refuse, Call
    <2>3. ~ \E r \in RunIds : SelectSweep(c, r)
      BY <2>1 DEF SelectSweep, Refuse, Call
    <2>4. ~ (SelectLookup(c) \/ RestoreAgg(c) \/ RestoreBins(c) \/ RestoreCommit(c) \/ OpenAdvance(c))
      BY <2>1 DEF SelectLookup, RestoreAgg, RestoreBins, RestoreCommit, OpenAdvance, RestorePcs
    <2>5. CASE \E limit \in BOOLEAN : ~SlotTaken /\ BeginRun(c, limit)
      BY <1>1, <2>5, SavedBeginRun DEF SavedInv
    <2>6. CASE SaveSummary(c) \/ SaveAgg(c) \/ \E p \in Paths : SaveBins(c, p)
      BY <1>1, <2>6, SavedSummary, SavedAgg, SavedBins DEF SavedInv
    <2>7. CASE /\ ~ \E limit \in BOOLEAN : ~SlotTaken /\ BeginRun(c, limit)
               /\ ~ (SaveSummary(c) \/ SaveAgg(c) \/ \E p \in Paths : SaveBins(c, p))
      <3>1. \/ StartSweep(c) \/ SpawnAttach(c) \/ StopRequest(c) \/ StopPoll(c)
            \/ \E cond \in WaitPcs : WaitCall(c, cond)
            \/ \E elapsed \in BOOLEAN : WaitPoll(c, elapsed)
            \/ MarkCheck(c) \/ MarkRecord(c)
            \/ \E limit \in BOOLEAN : SlotTaken /\ BeginRun(c, limit)
        BY <2>2, <2>3, <2>4, <2>7 DEF ClientStep
      <3> QED BY <1>1, <3>1, SavedClientStep DEF SavedInv
    <2> QED BY <2>5, <2>6, <2>7
  <1>3. CASE \E r \in RunIds : RecorderStep(r)
    BY <1>1, <1>3, SavedRecorderStep DEF SavedInv
  <1>4. CASE UNCHANGED vars
    BY <1>1, <1>4
    DEF vars, inner, stores, recorders, clients, SavedInv, SelectedCounted, SaveInv,
        SavedCountNotAhead
  <1> QED BY <1>2, <1>3, <1>4 DEF Next

\* An archive that save_current writes while its run records counts at most one
\* sample more than it holds, for any number of clients on a server that records
\* one run, and for any number of runs with a client that waits for its answers.
THEOREM SavedCountThm ==
  ASSUME NoRestoreOps, ForeignIds = {}, MaxRuns = 1 \/ OneClient
  PROVE  Spec => []SavedCountNotAhead
  <1>1. Init => SavedInv
    BY SavedInit
  <1>2. SavedInv /\ [Next]_vars => SavedInv'
    BY SavedNext
  <1>3. SavedInv => SavedCountNotAhead
    BY DEF SavedInv
  <1> QED BY <1>1, <1>2, <1>3, PTL DEF Spec

----------------------------------------------------------------------------
(* One client that makes one call at a time, restores included.  The data   *)
(* of a snapshot is of one run if it has samples and binaries of that run   *)
(* and of runs of other servers only.                                       *)

HoldsOne(samples, b, id) ==
  (\A o \in Origins : samples[o] > 0 => o \in {0, id}) /\ b \subseteq {0, id}

OneRun(a) == HoldsOne(a.agg.samples, a.bins, a.summary.id)

\* The snapshot is in the call's hands; it came out of the history; the first
\* store has been replaced by it; the second too.
OpenPcs == {"openAgg", "openBins", "openCommit"}
LookedUpPcs == {"selectAgg", "selectBins", "selectCommit"}
HalfPcs == {"openBins", "selectBins", "openCommit", "selectCommit"}
CommitPcs == {"openCommit", "selectCommit"}

SlotS ==
  /\ ActiveIsRecording
  /\ OneRecorder
  /\ active.id < nextRunId
  /\ \A r \in RunIds : r >= nextRunId => rpc[r] = "none"

HistS ==
  \A r \in RunIds : InHistory(r) =>
    /\ history[r].summary.id = r
    /\ OneRun(history[r])
    /\ r < nextRunId \/ \E c \in Clients : pc[c] = "openAdvance" /\ cRun[c] = r

CallS(c) ==
  /\ pc[c] = "spawn" => active.id = cRun[c] /\ rpc[cRun[c]] = "none"
  /\ pc[c] \in RestorePcs \cup {"begin"} => active.id = 0
  /\ pc[c] \in OpenPcs \cup LookedUpPcs =>
       cRun[c] \in RunIds /\ cSnap[c].summary.id = cRun[c] /\ OneRun(cSnap[c])
  /\ pc[c] \in LookedUpPcs => cRun[c] < nextRunId
  /\ pc[c] \in HalfPcs => agg.samples = cSnap[c].agg.samples
  /\ pc[c] \in CommitPcs => bins = cSnap[c].bins
  /\ pc[c] \in SavePcs => /\ cRun[c] \in RunIds
                          /\ cSnap[c].summary.id = cRun[c]
                          /\ QueryableRun.id = cRun[c]
  /\ pc[c] = "saveBins" => HoldsOne(cSnap[c].agg.samples, {}, cRun[c])

QueryS ==
  /\ active.id # 0 => HoldsOne(agg.samples, bins, active.id)
  /\ (active.id = 0 /\ selected.id # 0 /\ \A c \in Clients : pc[c] \notin HalfPcs) =>
       /\ history[selected.id].summary = selected
       /\ agg.samples = history[selected.id].agg.samples
       /\ bins = history[selected.id].bins

SnapS ==
  \A r \in RunIds :
    /\ rpc[r] \in {"snapAgg", "snapBins", "commit"} => rSnap[r].summary.id = r
    /\ rpc[r] \in {"snapBins", "commit"} => rSnap[r].agg.samples = agg.samples
    /\ rpc[r] = "commit" => rSnap[r].bins = bins

SerialInv ==
  /\ TypeOK
  /\ SlotS
  /\ HistS
  /\ \A c \in Clients : CallS(c)
  /\ QueryS
  /\ SnapS
  /\ ArchiveOfOneRun

\* The None snapshot and an archive of another server hold one run's data.
LEMMA OneRunValues ==
  /\ OneRun(NoSnapshot)
  /\ \A f \in RunIds : OneRun(ForeignArchive(f))
  <1>1. OneRun(NoSnapshot)
    BY DEF OneRun, HoldsOne, NoSnapshot, EmptyAgg
  <1>2. ASSUME NEW f \in RunIds PROVE OneRun(ForeignArchive(f))
    BY <1>2, ConstTypes DEF OneRun, HoldsOne, ForeignArchive
  <1> QED BY <1>1, <1>2

\* A freshly started server satisfies SerialInv, whatever archives it finds.
LEMMA SerialInit == Init => SerialInv
  <1> SUFFICES ASSUME Init PROVE SerialInv
    OBVIOUS
  <1>1. active.id = 0 /\ selected.id = 0 /\ \A r \in RunIds : ~InHistory(r)
    BY NoValues DEF Init, InHistory
  <1>2. \A p \in Paths : OneRun(disk[p])
    BY OneRunValues, ForeignAssumption DEF Init
  <1>3. ArchiveOfOneRun
    BY <1>2 DEF ArchiveOfOneRun, OneRun, HoldsOne
  <1>4. SlotS /\ HistS /\ QueryS /\ SnapS
    BY <1>1, ConstTypes
    DEF Init, SlotS, HistS, QueryS, SnapS, ActiveIsRecording, OneRecorder, LivePcs
  <1>5. \A c \in Clients : CallS(c)
    BY DEF Init, CallS, RestorePcs, OpenPcs, LookedUpPcs, HalfPcs, CommitPcs, SavePcs
  <1> QED BY <1>1, <1>3, <1>4, <1>5, TypeInit DEF SerialInv

----------------------------------------------------------------------------
(* Steps of the one client. *)

\* What CallS asks for is asked of a few places of a call only.
LEMMA CallSFree ==
  ASSUME NEW c \in Clients, pc'[c] \notin RestorePcs \cup SavePcs \cup {"spawn", "begin"}
  PROVE  CallS(c)'
  BY DEF CallS, RestorePcs, OpenPcs, LookedUpPcs, HalfPcs, CommitPcs, SavePcs

\* A step that leaves the registry, the threads and the data alone.
LEMMA SerialQuiet ==
  ASSUME SerialInv, OneClient, TypeOK', ArchiveOfOneRun', NEW c \in Clients, CallS(c)',
         pc[c] # "openAdvance", pc[c] \in HalfPcs => pc'[c] \in HalfPcs,
         UNCHANGED <<active, selected, history, nextRunId, rpc, rSnap, bins>>,
         agg'.samples = agg.samples
  PROVE  SerialInv'
  <1>1. \A d \in Clients : d = c
    BY DEF OneClient
  <1>2. SlotS' /\ SnapS'
    BY DEF SerialInv, SlotS, SnapS, ActiveIsRecording, OneRecorder
  <1>3. HistS'
    BY <1>1 DEF SerialInv, HistS, InHistory
  <1>4. \A d \in Clients : CallS(d)'
    BY <1>1
  <1>5. QueryS'
    BY <1>1 DEF SerialInv, QueryS
  <1> QED BY <1>2, <1>3, <1>4, <1>5 DEF SerialInv

\* Every section of a call that leaves the stores and the registry alone and
\* does not lead into a save or a restore.
LEMMA SerialFreeStep ==
  ASSUME SerialInv, OneClient, TypeOK', NEW c \in Clients,
         \/ StopRequest(c) \/ StopPoll(c)
         \/ \E cond \in WaitPcs : WaitCall(c, cond)
         \/ \E elapsed \in BOOLEAN : WaitPoll(c, elapsed)
         \/ MarkCheck(c) \/ MarkRecord(c)
         \/ \E limit \in BOOLEAN : SlotTaken /\ BeginRun(c, limit)
         \/ \E p \in Paths : OpenMissing(c, p)
  PROVE  SerialInv'
  <1> USE DEF inner, stores, recorders, clients
  <1>a. TypeOK
    BY DEF SerialInv
  <1>b. /\ WaitPcs \cap (RestorePcs \cup SavePcs \cup HalfPcs \cup {"spawn", "begin", "openAdvance"}) = {}
        /\ {"idle", "stopPoll", "mark"} \cap (RestorePcs \cup SavePcs \cup HalfPcs \cup {"spawn", "begin"}) = {}
        /\ "begin" \notin HalfPcs
    BY DEF WaitPcs, RestorePcs, SavePcs, HalfPcs
  <1>1. UNCHANGED <<active, selected, history, nextRunId, rpc, rSnap, bins, disk>>
    BY DEF StopRequest, StopPoll, WaitCall, WaitPoll, MarkCheck, MarkRecord, BeginRun, OpenMissing
  <1>2. agg'.samples = agg.samples
    <2>1. CASE MarkRecord(c)
      BY <2>1, <1>a DEF MarkRecord, TypeOK, Aggregator
    <2>2. CASE ~MarkRecord(c)
      BY <2>2 DEF StopRequest, StopPoll, WaitCall, WaitPoll, MarkCheck, BeginRun, OpenMissing
    <2> QED BY <2>1, <2>2
  <1>3. ArchiveOfOneRun'
    BY <1>1 DEF SerialInv, ArchiveOfOneRun
  <1>4. /\ pc[c] \notin HalfPcs /\ pc[c] # "openAdvance"
        /\ pc'[c] \in {"idle", "stopPoll", "mark"} \cup WaitPcs
    <2>1. CASE \E elapsed \in BOOLEAN : WaitPoll(c, elapsed)
      BY <2>1, <1>a, <1>b DEF WaitPoll, Return, TypeOK
    <2>2. CASE ~ \E elapsed \in BOOLEAN : WaitPoll(c, elapsed)
      BY <2>2, <1>a, <1>b
      DEF StopRequest, StopPoll, WaitCall, MarkCheck, MarkRecord, BeginRun, OpenMissing,
          Return, Refuse, Call, TypeOK
    <2> QED BY <2>1, <2>2
  <1>5. CallS(c)'
    BY <1>4, <1>b, CallSFree
  <1> QED BY <1>1, <1>2, <1>3, <1>4, <1>5, SerialQuiet

\* The sweep lets a start, an open or a select go on only when no run is in
\* the slot (sweep_stopped_active_into_history).
LEMMA SerialSweep ==
  ASSUME SerialInv, OneClient, TypeOK', NEW c \in Clients,
         \/ StartSweep(c)
         \/ \E p \in Paths : OpenSweep(c, p)
         \/ \E r \in RunIds : SelectSweep(c, r)
  PROVE  SerialInv'
  <1> USE DEF inner, stores, recorders, clients
  <1>a. TypeOK
    BY DEF SerialInv
  <1>1. UNCHANGED <<active, selected, history, nextRunId, rpc, rSnap, agg, bins, disk>>
    BY DEF StartSweep, OpenSweep, SelectSweep
  <1>2. ArchiveOfOneRun' /\ agg'.samples = agg.samples
    BY <1>1 DEF SerialInv, ArchiveOfOneRun
  <1>3. pc[c] = "idle"
    BY DEF StartSweep, OpenSweep, SelectSweep, Refuse, Call
  <1>4. pc[c] \notin HalfPcs /\ pc[c] # "openAdvance"
    BY <1>3 DEF HalfPcs
  <1>5. CallS(c)'
    <2>1. CASE SweepRefuses
      <3>1. pc'[c] = "idle"
        BY <1>3, <2>1 DEF StartSweep, OpenSweep, SelectSweep, Refuse
      <3> QED BY <3>1, CallSFree DEF RestorePcs, SavePcs
    <2>2. CASE ~SweepRefuses
      <3>1. active.id = 0
        BY <2>2 DEF SweepRefuses, SerialInv, SlotS, ActiveIsRecording
      <3>2. CASE StartSweep(c)
        <4>1. pc'[c] = "begin"
          BY <2>2, <3>2, <1>a DEF StartSweep, Call, TypeOK
        <4> QED BY <3>1, <4>1, <1>1
                DEF CallS, RestorePcs, OpenPcs, LookedUpPcs, HalfPcs, CommitPcs, SavePcs
      <3>3. CASE \E r \in RunIds : SelectSweep(c, r)
        <4>1. pc'[c] = "selectLookup"
          BY <2>2, <3>3, <1>a DEF SelectSweep, Call, TypeOK
        <4> QED BY <3>1, <4>1, <1>1
                DEF CallS, RestorePcs, OpenPcs, LookedUpPcs, HalfPcs, CommitPcs, SavePcs
      <3>4. CASE \E p \in Paths : OpenSweep(c, p)
        <4> PICK p \in Paths : OpenSweep(c, p) BY <3>4
        <4>1. /\ pc'[c] = "openAgg" /\ cRun'[c] = disk[p].summary.id
              /\ cSnap'[c] = [disk[p] EXCEPT !.summary = [disk[p].summary EXCEPT !.state = "Stopped"]]
          BY <2>2, <1>a DEF OpenSweep, Call, TypeOK
        <4>2. disk[p] \in Snapshot /\ disk[p].summary \in RunSummary
          BY <1>a DEF TypeOK, Snapshot
        <4>3. disk[p].summary.id \in RunIds
          BY <4>2, ConstTypes DEF OpenSweep, RunSummary
        <4>4. /\ cSnap'[c].agg = disk[p].agg /\ cSnap'[c].bins = disk[p].bins
              /\ cSnap'[c].summary = [disk[p].summary EXCEPT !.state = "Stopped"]
          BY <4>1, <4>2 DEF Snapshot
        <4>5. cSnap'[c].summary.id = disk[p].summary.id
          BY <4>2, <4>4 DEF RunSummary
        <4>6. OneRun(cSnap[c])'
          BY <4>4, <4>5 DEF OneRun, HoldsOne, SerialInv, ArchiveOfOneRun
        <4> QED BY <3>1, <4>1, <4>3, <4>5, <4>6, <1>1
                DEF CallS, RestorePcs, OpenPcs, LookedUpPcs, HalfPcs, CommitPcs, SavePcs
      <3> QED BY <3>2, <3>3, <3>4
    <2> QED BY <2>1, <2>2
  <1> QED BY <1>1, <1>2, <1>4, <1>5, SerialQuiet

\* select_run finds an entry of the run it was asked for, or answers NotFound.
LEMMA SerialLookup ==
  ASSUME SerialInv, OneClient, TypeOK', NEW c \in Clients, SelectLookup(c)
  PROVE  SerialInv'
  <1> USE DEF inner, stores, recorders, clients
  <1>a. TypeOK
    BY DEF SerialInv
  <1>1. UNCHANGED <<active, selected, history, nextRunId, rpc, rSnap, agg, bins, disk>>
    BY DEF SelectLookup
  <1>2. ArchiveOfOneRun' /\ agg'.samples = agg.samples
    BY <1>1 DEF SerialInv, ArchiveOfOneRun
  <1>3. /\ pc[c] = "selectLookup" /\ pc[c] \notin HalfPcs /\ cRun[c] \in RunIds
        /\ active.id = 0
    BY <1>a DEF SelectLookup, HalfPcs, TypeOK, RunPcs, SerialInv, CallS, RestorePcs
  <1>4. CallS(c)'
    <2>1. CASE ~InHistory(cRun[c])
      <3>1. pc'[c] = "idle"
        BY <2>1, <1>a DEF SelectLookup, Return, TypeOK
      <3> QED BY <3>1, CallSFree DEF RestorePcs, SavePcs
    <2>2. CASE InHistory(cRun[c])
      <3>1. pc'[c] = "selectAgg" /\ cRun' = cRun /\ cSnap'[c] = history[cRun[c]]
        BY <2>2, <1>a DEF SelectLookup, Goto, TypeOK
      <3>2. \A d \in Clients : pc[d] # "openAdvance"
        BY <1>3 DEF OneClient
      <3>3. /\ history[cRun[c]].summary.id = cRun[c] /\ OneRun(history[cRun[c]])
            /\ cRun[c] < nextRunId
        BY <2>2, <1>3, <3>2 DEF SerialInv, HistS
      <3>4. OneRun(cSnap[c])'
        BY <3>1, <3>3 DEF OneRun
      <3> QED BY <1>1, <1>3, <3>1, <3>3, <3>4
              DEF CallS, RestorePcs, OpenPcs, LookedUpPcs, HalfPcs, CommitPcs, SavePcs
    <2> QED BY <2>1, <2>2
  <1> QED BY <1>1, <1>2, <1>3, <1>4, SerialQuiet

\* What the query state holds is of the run that save_current would name.
LEMMA QueryIsOneRun ==
  ASSUME SerialInv, QueryableRun.id # 0, \A c \in Clients : pc[c] \notin HalfPcs
  PROVE  HoldsOne(agg.samples, bins, QueryableRun.id)
  <1>1. CASE active.id # 0
    BY <1>1 DEF QueryableRun, SerialInv, QueryS
  <1>2. CASE active.id = 0
    <2>1. QueryableRun = selected /\ selected.id \in RunIds
      BY <1>2, ConstTypes DEF QueryableRun, SerialInv, TypeOK, RunSummary
    <2>2. /\ history[selected.id].summary = selected
          /\ agg.samples = history[selected.id].agg.samples
          /\ bins = history[selected.id].bins
      BY <1>2, <2>1 DEF SerialInv, QueryS
    <2>3. InHistory(selected.id)
      BY <2>1, <2>2 DEF InHistory
    <2>4. OneRun(history[selected.id])
      BY <2>1, <2>3 DEF SerialInv, HistS
    <2> QED BY <2>1, <2>2, <2>4 DEF OneRun
  <1> QED BY <1>1, <1>2

\* save_current copies a summary and the stores in turn; no run replaces the
\* query state between them.
LEMMA SerialSave ==
  ASSUME SerialInv, OneClient, TypeOK', NEW c \in Clients,
         SaveSummary(c) \/ SaveAgg(c) \/ \E p \in Paths : SaveBins(c, p)
  PROVE  SerialInv'
  <1> USE DEF inner, stores, recorders, clients
  <1>a. TypeOK
    BY DEF SerialInv
  <1>1. UNCHANGED <<active, selected, history, nextRunId, rpc, rSnap, agg, bins>>
    BY DEF SaveSummary, SaveAgg, SaveBins
  <1>2. QueryableRun' = QueryableRun
    BY <1>1 DEF QueryableRun
  <1>3. pc[c] \in {"idle", "saveAgg", "saveBins"}
    BY DEF SaveSummary, SaveAgg, SaveBins, Refuse, Call
  <1>4. pc[c] \notin HalfPcs /\ pc[c] # "openAdvance" /\ \A d \in Clients : pc[d] \notin HalfPcs
    BY <1>3 DEF HalfPcs, OneClient
  <1>5. CASE SaveSummary(c) /\ QueryableRun.id = 0
    <2>1. pc'[c] = "idle"
      BY <1>5, <1>a DEF SaveSummary, Refuse
    <2>2. CallS(c)'
      BY <2>1, CallSFree DEF RestorePcs, SavePcs
    <2>3. ArchiveOfOneRun'
      BY <1>5 DEF SaveSummary, SerialInv, ArchiveOfOneRun
    <2> QED BY <1>1, <1>4, <2>2, <2>3, SerialQuiet
  <1>6. CASE SaveSummary(c) /\ QueryableRun.id # 0
    <2>1. /\ pc'[c] = "saveAgg" /\ cRun'[c] = QueryableRun.id
          /\ cSnap'[c] = [cSnap[c] EXCEPT !.summary = QueryableRun] /\ cSnap[c] \in Snapshot
      BY <1>6, <1>a DEF SaveSummary, Call, TypeOK
    <2>2. cSnap'[c].summary = QueryableRun
      BY <2>1 DEF Snapshot
    <2>3. QueryableRun.id \in RunIds
      BY <1>6, <1>a, ConstTypes DEF QueryableRun, TypeOK, RunSummary
    <2>4. CallS(c)'
      BY <2>1, <2>2, <2>3, <1>2
      DEF CallS, RestorePcs, OpenPcs, LookedUpPcs, HalfPcs, CommitPcs, SavePcs
    <2>5. ArchiveOfOneRun'
      BY <1>6 DEF SaveSummary, SerialInv, ArchiveOfOneRun
    <2> QED BY <1>1, <1>4, <2>4, <2>5, SerialQuiet
  <1>7. CASE SaveAgg(c)
    <2>1. /\ pc[c] = "saveAgg" /\ pc'[c] = "saveBins" /\ cRun' = cRun
          /\ cSnap'[c] = [cSnap[c] EXCEPT !.agg = agg] /\ cSnap[c] \in Snapshot
      BY <1>7, <1>a DEF SaveAgg, Goto, TypeOK
    <2>2. cSnap'[c].summary = cSnap[c].summary /\ cSnap'[c].agg = agg
      BY <2>1 DEF Snapshot
    <2>3. cRun[c] \in RunIds /\ cSnap[c].summary.id = cRun[c] /\ QueryableRun.id = cRun[c]
      BY <2>1 DEF SerialInv, CallS, SavePcs
    <2>4. HoldsOne(agg.samples, bins, cRun[c])
      BY <2>3, <1>4, QueryIsOneRun, ConstTypes
    <2>5. HoldsOne(agg.samples, {}, cRun[c])
      BY <2>4 DEF HoldsOne
    <2>6. HoldsOne(cSnap[c].agg.samples, {}, cRun[c])'
      BY <2>1, <2>2, <2>5 DEF HoldsOne
    <2>7. CallS(c)'
      BY <2>1, <2>2, <2>3, <2>6, <1>2
      DEF CallS, RestorePcs, OpenPcs, LookedUpPcs, HalfPcs, CommitPcs, SavePcs
    <2>8. ArchiveOfOneRun'
      BY <1>7 DEF SaveAgg, SerialInv, ArchiveOfOneRun
    <2> QED BY <1>1, <1>4, <2>7, <2>8, SerialQuiet
  <1>8. CASE \E p \in Paths : SaveBins(c, p)
    <2> PICK p \in Paths : SaveBins(c, p) BY <1>8
    <2>1. /\ pc[c] = "saveBins" /\ pc'[c] = "idle"
          /\ disk'[p] = [cSnap[c] EXCEPT !.bins = bins] /\ cSnap[c] \in Snapshot
          /\ \A x \in Paths : x # p => disk'[x] = disk[x]
      BY <1>a DEF SaveBins, ArchiveToWrite, Return, TypeOK
    <2>2. disk'[p].summary = cSnap[c].summary /\ disk'[p].agg = cSnap[c].agg /\ disk'[p].bins = bins
      BY <2>1 DEF Snapshot
    <2>3. /\ cRun[c] \in RunIds /\ cSnap[c].summary.id = cRun[c] /\ QueryableRun.id = cRun[c]
          /\ HoldsOne(cSnap[c].agg.samples, {}, cRun[c])
      BY <2>1 DEF SerialInv, CallS, SavePcs
    <2>4. HoldsOne(agg.samples, bins, cRun[c])
      BY <2>3, <1>4, QueryIsOneRun, ConstTypes
    <2>5. ArchiveOfOneRun'
      BY <2>1, <2>2, <2>3, <2>4 DEF HoldsOne, SerialInv, ArchiveOfOneRun
    <2>6. CallS(c)'
      BY <2>1, CallSFree DEF RestorePcs, SavePcs
    <2> QED BY <1>1, <1>4, <2>5, <2>6, SerialQuiet
  <1> QED BY <1>5, <1>6, <1>7, <1>8

\* begin_run fills the free slot with an id that no entry of the history and
\* no thread has, although archives with arbitrary ids were opened before.
LEMMA SerialFresh ==
  ASSUME SerialInv, OneClient, NEW c \in Clients, NEW limit, BeginRun(c, limit), ~SlotTaken
  PROVE  /\ nextRunId \in RunIds /\ nextRunId # 0
         /\ ~InHistory(nextRunId) /\ rpc[nextRunId] = "none"
         /\ \A r \in RunIds : rpc[r] \notin LivePcs
  <1>a. TypeOK
    BY DEF SerialInv
  <1>1. nextRunId \in RunIds /\ nextRunId # 0 /\ pc[c] = "begin" /\ active.id = 0
    BY <1>a, ConstTypes DEF BeginRun, SlotTaken, TypeOK
  <1>2. \A d \in Clients : pc[d] # "openAdvance"
    BY <1>1 DEF OneClient
  <1>3. ~InHistory(nextRunId)
    BY <1>1, <1>2, ConstTypes DEF SerialInv, HistS
  <1>4. rpc[nextRunId] = "none"
    BY <1>1, ConstTypes DEF SerialInv, SlotS
  <1>5. \A r \in RunIds : rpc[r] \notin LivePcs
    BY <1>1, ConstTypes DEF SerialInv, SlotS, OneRecorder
  <1> QED BY <1>1, <1>3, <1>4, <1>5

\* begin_run's second lock section.
LEMMA SerialBeginRun ==
  ASSUME SerialInv, OneClient, TypeOK', NEW c \in Clients, NEW limit, BeginRun(c, limit),
         ~SlotTaken
  PROVE  SerialInv'
  <1>a. TypeOK
    BY DEF SerialInv
  <1>1. /\ nextRunId \in RunIds /\ nextRunId # 0
        /\ ~InHistory(nextRunId) /\ rpc[nextRunId] = "none"
        /\ \A r \in RunIds : rpc[r] \notin LivePcs
    BY SerialFresh
  <1>2. /\ active'.id = nextRunId /\ active'.state = "Recording"
        /\ nextRunId' = nextRunId + 1 /\ agg' = EmptyAgg /\ bins' = {}
        /\ UNCHANGED <<history, rpc, rSnap, disk>>
    BY DEF BeginRun, NextId, ResetAgg, NoRun
  <1>3. pc[c] = "begin" /\ pc'[c] = "spawn" /\ cRun'[c] = nextRunId /\ \A d \in Clients : d = c
    BY <1>a DEF BeginRun, TypeOK, OneClient
  <1>4. SlotS'
    BY <1>1, <1>2, ConstTypes DEF SerialInv, SlotS, ActiveIsRecording, OneRecorder
  <1>5. HistS'
    BY <1>1, <1>2, <1>3, ConstTypes DEF SerialInv, HistS, InHistory
  <1>6. CallS(c)'
    BY <1>1, <1>2, <1>3
    DEF CallS, RestorePcs, OpenPcs, LookedUpPcs, HalfPcs, CommitPcs, SavePcs
  <1>7. \A d \in Clients : CallS(d)'
    BY <1>3, <1>6
  <1>8. QueryS'
    BY <1>1, <1>2 DEF QueryS, HoldsOne, EmptyAgg
  <1>9. SnapS'
    BY <1>1, <1>2 DEF SnapS, LivePcs
  <1>10. ArchiveOfOneRun'
    BY <1>2 DEF SerialInv, ArchiveOfOneRun
  <1> QED BY <1>4, <1>5, <1>7, <1>8, <1>9, <1>10 DEF SerialInv

\* spawn_attach starts the thread of the run in the slot.
LEMMA SerialSpawn ==
  ASSUME SerialInv, OneClient, TypeOK', NEW c \in Clients, SpawnAttach(c)
  PROVE  SerialInv'
  <1> USE DEF stores
  <1> DEFINE q == cRun[c]
  <1>a. TypeOK
    BY DEF SerialInv
  <1>1. q \in RunIds /\ active.id = q /\ rpc[q] = "none" /\ pc[c] = "spawn" /\ pc'[c] = "idle"
    BY <1>a DEF SerialInv, CallS, SpawnAttach, Return, TypeOK, RunPcs
  <1>2. UNCHANGED <<active, selected, history, nextRunId, rSnap, agg, bins, disk>>
    BY DEF SpawnAttach
  <1>3. rpc'[q] = "attach" /\ \A r \in RunIds : r # q => rpc'[r] = rpc[r]
    BY <1>a, <1>1 DEF TypeOK, SpawnAttach
  <1>4. \A d \in Clients : d = c
    BY DEF OneClient
  <1>5. SlotS'
    <2>1. q < nextRunId /\ \A r \in RunIds : r >= nextRunId => r # q
      BY <1>a, <1>1, ConstTypes DEF SerialInv, SlotS, TypeOK
    <2> QED BY <1>1, <1>2, <1>3, <2>1 DEF SerialInv, SlotS, ActiveIsRecording, OneRecorder
  <1>6. HistS'
    BY <1>1, <1>2, <1>4 DEF SerialInv, HistS, InHistory
  <1>7. \A d \in Clients : CallS(d)'
    BY <1>1, <1>4, CallSFree DEF RestorePcs, SavePcs
  <1>8. QueryS'
    BY <1>1, <1>2, ConstTypes DEF SerialInv, QueryS
  <1>9. SnapS'
    BY <1>1, <1>2, <1>3 DEF SerialInv, SnapS
  <1>10. ArchiveOfOneRun'
    BY <1>2 DEF SerialInv, ArchiveOfOneRun
  <1> QED BY <1>5, <1>6, <1>7, <1>8, <1>9, <1>10 DEF SerialInv

\* restore_archive_to_query_state replaces the aggregator, then the rest; no
\* thread runs, so nobody snapshots the mixture.
LEMMA SerialRestore ==
  ASSUME SerialInv, OneClient, TypeOK', NEW c \in Clients, RestoreAgg(c) \/ RestoreBins(c)
  PROVE  SerialInv'
  <1> USE DEF inner, stores, recorders
  <1>a. TypeOK
    BY DEF SerialInv
  <1>b. \A d \in Clients : d = c
    BY DEF OneClient
  <1>1. UNCHANGED <<active, selected, history, nextRunId, rpc, rSnap, disk, cRun, cSnap>>
    BY DEF RestoreAgg, RestoreBins, Goto
  <1>2. pc[c] \in {"openAgg", "selectAgg", "openBins", "selectBins"}
    BY DEF RestoreAgg, RestoreBins
  <1>3. /\ active.id = 0
        /\ cRun[c] \in RunIds /\ cSnap[c].summary.id = cRun[c] /\ OneRun(cSnap[c])
        /\ pc[c] \in LookedUpPcs => cRun[c] < nextRunId
        /\ pc[c] \in HalfPcs => agg.samples = cSnap[c].agg.samples
    BY <1>2 DEF SerialInv, CallS, RestorePcs, OpenPcs, LookedUpPcs
  <1>4. \A r \in RunIds : rpc[r] \notin LivePcs
    BY <1>3, ConstTypes DEF SerialInv, SlotS, OneRecorder
  <1>5. SlotS' /\ ArchiveOfOneRun'
    BY <1>1 DEF SerialInv, SlotS, ActiveIsRecording, OneRecorder, ArchiveOfOneRun
  <1>6. SnapS'
    BY <1>1, <1>4 DEF SnapS, LivePcs
  <1>7. HistS'
    BY <1>1, <1>2, <1>b DEF SerialInv, HistS, InHistory
  <1>8. OneRun(cSnap[c])'
    BY <1>1, <1>3 DEF OneRun
  <1>9. CASE RestoreAgg(c)
    <2>1. /\ agg' = cSnap[c].agg /\ bins' = bins
          /\ pc[c] = "openAgg" => pc'[c] = "openBins"
          /\ pc[c] = "selectAgg" => pc'[c] = "selectBins"
      BY <1>9, <1>a DEF RestoreAgg, Goto, TypeOK
    <2>2. pc[c] \in {"openAgg", "selectAgg"}
      BY <1>9 DEF RestoreAgg
    <2>3. CallS(c)'
      BY <1>1, <1>3, <1>8, <2>1, <2>2
      DEF CallS, RestorePcs, OpenPcs, LookedUpPcs, HalfPcs, CommitPcs, SavePcs
    <2>4. QueryS'
      BY <1>1, <1>3, <2>1, <2>2 DEF QueryS, HalfPcs
    <2> QED BY <1>b, <1>5, <1>6, <1>7, <2>3, <2>4 DEF SerialInv
  <1>10. CASE RestoreBins(c)
    <2>1. /\ agg' = agg /\ bins' = cSnap[c].bins
          /\ pc[c] = "openBins" => pc'[c] = "openCommit"
          /\ pc[c] = "selectBins" => pc'[c] = "selectCommit"
      BY <1>10, <1>a DEF RestoreBins, RestoredBins, Goto, TypeOK
    <2>2. pc[c] \in {"openBins", "selectBins"}
      BY <1>10 DEF RestoreBins
    <2>3. CallS(c)'
      BY <1>1, <1>3, <1>8, <2>1, <2>2
      DEF CallS, RestorePcs, OpenPcs, LookedUpPcs, HalfPcs, CommitPcs, SavePcs
    <2>4. QueryS'
      BY <1>1, <1>3, <2>1, <2>2 DEF QueryS, HalfPcs
    <2> QED BY <1>b, <1>5, <1>6, <1>7, <2>3, <2>4 DEF SerialInv
  <1> QED BY <1>9, <1>10

\* The last section of a restore selects the run whose data it restored.
LEMMA SerialCommit ==
  ASSUME SerialInv, OneClient, TypeOK', NEW c \in Clients, RestoreCommit(c)
  PROVE  SerialInv'
  <1> USE DEF inner, stores, recorders
  <1> DEFINE q == cRun[c]
  <1>a. TypeOK
    BY DEF SerialInv
  <1>b. \A d \in Clients : d = c
    BY DEF OneClient
  <1>1. /\ active' = NoRun /\ selected' = cSnap[c].summary /\ cRun' = cRun
        /\ history' = [history EXCEPT ![cSnap[c].summary.id] = cSnap[c]]
        /\ UNCHANGED <<nextRunId, agg, bins, disk, rpc, rSnap>>
    BY DEF RestoreCommit, Upsert, Goto, Return
  <1>2. pc[c] \in {"openCommit", "selectCommit"}
    BY DEF RestoreCommit
  <1>3. /\ active.id = 0 /\ q \in RunIds /\ cSnap[c].summary.id = q /\ OneRun(cSnap[c])
        /\ pc[c] = "selectCommit" => q < nextRunId
        /\ agg.samples = cSnap[c].agg.samples /\ bins = cSnap[c].bins
    BY <1>2 DEF SerialInv, CallS, RestorePcs, OpenPcs, LookedUpPcs, HalfPcs, CommitPcs
  <1>4. history'[q] = cSnap[c] /\ \A r \in RunIds : r # q => history'[r] = history[r]
    BY <1>a, <1>1, <1>3 DEF TypeOK
  <1>5. /\ pc[c] = "openCommit" => pc'[c] = "openAdvance"
        /\ pc[c] = "selectCommit" => pc'[c] = "idle"
    BY <1>a DEF RestoreCommit, Goto, Return, TypeOK
  <1>6. active'.id = 0
    BY <1>1, NoValues
  <1>7. \A r \in RunIds : rpc[r] \notin LivePcs
    BY <1>3, ConstTypes DEF SerialInv, SlotS, OneRecorder
  <1>8. SlotS'
    BY <1>1, <1>3, <1>6, <1>7 DEF SerialInv, SlotS, ActiveIsRecording, OneRecorder
  <1>9. HistS'
    <2> SUFFICES ASSUME NEW r \in RunIds, InHistory(r)'
                 PROVE  /\ history'[r].summary.id = r
                        /\ OneRun(history[r])'
                        /\ \/ r < nextRunId'
                           \/ \E d \in Clients : pc'[d] = "openAdvance" /\ cRun'[d] = r
      BY DEF HistS
    <2>1. CASE r = q
      <3>1. OneRun(history[r])'
        BY <2>1, <1>3, <1>4 DEF OneRun
      <3> QED BY <2>1, <3>1, <1>1, <1>2, <1>3, <1>4, <1>5
    <2>2. CASE r # q
      <3>1. history'[r] = history[r] /\ InHistory(r)
        BY <2>2, <1>4 DEF InHistory
      <3>2. /\ history[r].summary.id = r /\ OneRun(history[r])
            /\ r < nextRunId
        BY <3>1, <1>2, <1>b DEF SerialInv, HistS
      <3>3. OneRun(history[r])'
        BY <3>1, <3>2 DEF OneRun
      <3> QED BY <3>1, <3>2, <3>3, <1>1
    <2> QED BY <2>1, <2>2
  <1>10. CallS(c)'
    BY <1>2, <1>5, <1>6 DEF CallS, RestorePcs, OpenPcs, LookedUpPcs, HalfPcs, CommitPcs, SavePcs
  <1>11. \A d \in Clients : CallS(d)'
    BY <1>10, <1>b
  <1>12. QueryS'
    BY <1>1, <1>3, <1>4, <1>6 DEF QueryS
  <1>13. SnapS'
    BY <1>1, <1>7 DEF SnapS, LivePcs
  <1>14. ArchiveOfOneRun'
    BY <1>1 DEF SerialInv, ArchiveOfOneRun
  <1> QED BY <1>8, <1>9, <1>11, <1>12, <1>13, <1>14 DEF SerialInv

\* advance_next_run_id moves the counter past the archive that was opened.
LEMMA SerialAdvance ==
  ASSUME SerialInv, OneClient, TypeOK', NEW c \in Clients, OpenAdvance(c)
  PROVE  SerialInv'
  <1> USE DEF inner, stores, recorders
  <1>a. TypeOK
    BY DEF SerialInv
  <1>b. \A d \in Clients : d = c
    BY DEF OneClient
  <1>1. UNCHANGED <<active, selected, history, agg, bins, disk, rpc, rSnap>>
    BY DEF OpenAdvance
  <1>2. pc[c] = "openAdvance" /\ pc'[c] = "idle" /\ active.id = 0
    BY <1>a DEF OpenAdvance, Return, TypeOK, SerialInv, CallS, RestorePcs
  <1>3. nextRunId \in Nat /\ nextRunId' \in Nat /\ cRun[c] \in Nat
    <2>1. nextRunId \in 1..(MaxRuns + 1) /\ nextRunId' \in 1..(MaxRuns + 1)
      BY <1>a DEF TypeOK
    <2>2. cRun[c] \in Origins
      BY <1>a DEF TypeOK
    <2>3. nextRunId \in Nat /\ nextRunId' \in Nat
      BY <2>1, BoundsAssumption
    <2>4. cRun[c] \in Nat
      BY <2>2, ConstTypes
    <2> QED BY <2>3, <2>4
  <1>4. nextRunId <= nextRunId' /\ cRun[c] < nextRunId'
    BY <1>3 DEF OpenAdvance, AdvancedTo
  <1>5. SlotS'
    <2>1. active'.id < nextRunId'
      BY <1>1, <1>2, <1>3, <1>4
    <2>2. \A r \in RunIds : r >= nextRunId' => r >= nextRunId
      BY <1>3, <1>4, ConstTypes
    <2> QED BY <1>1, <2>1, <2>2 DEF SerialInv, SlotS, ActiveIsRecording, OneRecorder
  <1>6. HistS'
    <2>1. \A r \in RunIds : r < nextRunId \/ r = cRun[c] => r < nextRunId'
      BY <1>3, <1>4, ConstTypes
    <2> QED BY <1>1, <1>b, <2>1 DEF SerialInv, HistS, InHistory
  <1>7. \A d \in Clients : CallS(d)'
    BY <1>2, <1>b, CallSFree DEF RestorePcs, SavePcs
  <1>8. QueryS' /\ SnapS' /\ ArchiveOfOneRun'
    BY <1>1, <1>2, <1>b DEF SerialInv, QueryS, SnapS, ArchiveOfOneRun, HalfPcs
  <1> QED BY <1>5, <1>6, <1>7, <1>8 DEF SerialInv

----------------------------------------------------------------------------
(* Steps of the recorder threads, for any number of clients. *)

\* A live thread owns the slot; the client is neither restoring nor starting.
LEMMA SerialOwns ==
  ASSUME SerialInv, NEW r \in RunIds, rpc[r] \in LivePcs
  PROVE  /\ active.id = r /\ r # 0 /\ r < nextRunId
         /\ \A q \in RunIds : q # r => rpc[q] \notin LivePcs
         /\ \A c \in Clients : pc[c] \notin RestorePcs \cup {"spawn", "begin"}
         /\ HoldsOne(agg.samples, bins, r)
  <1>1. active.id = r /\ r # 0 /\ r < nextRunId
    BY ConstTypes DEF SerialInv, SlotS, OneRecorder
  <1>2. \A q \in RunIds : q # r => rpc[q] \notin LivePcs
    BY <1>1 DEF SerialInv, SlotS, OneRecorder
  <1>3. \A c \in Clients : pc[c] \notin RestorePcs \cup {"spawn", "begin"}
    BY <1>1 DEF SerialInv, CallS, LivePcs
  <1>4. HoldsOne(agg.samples, bins, r)
    BY <1>1 DEF SerialInv, QueryS
  <1> QED BY <1>1, <1>2, <1>3, <1>4

\* A call that is neither restoring nor starting needs the queryable run only.
LEMMA CallSKeeps ==
  ASSUME SerialInv, NEW c \in Clients, pc[c] \notin RestorePcs \cup {"spawn", "begin"},
         QueryableRun'.id = QueryableRun.id, UNCHANGED <<pc, cRun, cSnap>>
  PROVE  CallS(c)'
  <1>1. pc[c] \notin OpenPcs \cup LookedUpPcs \cup HalfPcs \cup CommitPcs
    BY DEF RestorePcs, OpenPcs, LookedUpPcs, HalfPcs, CommitPcs
  <1>2. /\ pc[c] \in SavePcs => /\ cRun[c] \in RunIds
                                /\ cSnap[c].summary.id = cRun[c]
                                /\ QueryableRun.id = cRun[c]
        /\ pc[c] = "saveBins" => HoldsOne(cSnap[c].agg.samples, {}, cRun[c])
    BY DEF SerialInv, CallS
  <1>3. (pc[c] = "saveBins" => HoldsOne(cSnap[c].agg.samples, {}, cRun[c]))'
    BY <1>2 DEF HoldsOne
  <1> QED BY <1>1, <1>2, <1>3 DEF CallS

\* A step of the live thread that publishes nothing.
LEMMA SerialLive ==
  ASSUME SerialInv, TypeOK', NEW r \in RunIds, rpc[r] \in LivePcs, rpc'[r] \in LivePcs,
         \A q \in RunIds : q # r => rpc'[q] = rpc[q],
         active'.id = active.id, active'.state = active.state,
         UNCHANGED <<selected, history, nextRunId, disk, pc, cRun, cSnap>>,
         HoldsOne(agg.samples, bins, r)', SnapS'
  PROVE  SerialInv'
  <1>1. /\ active.id = r /\ r # 0 /\ r < nextRunId
        /\ \A q \in RunIds : q # r => rpc[q] \notin LivePcs
        /\ \A c \in Clients : pc[c] \notin RestorePcs \cup {"spawn", "begin"}
    BY SerialOwns
  <1>2. SlotS'
    <2>1. \A q \in RunIds : q >= nextRunId => q # r
      <3>1. nextRunId \in Nat
        BY BoundsAssumption DEF SerialInv, TypeOK
      <3> QED BY <1>1, <3>1, ConstTypes
    <2> QED BY <1>1, <2>1 DEF SerialInv, SlotS, ActiveIsRecording, OneRecorder
  <1>3. HistS' /\ ArchiveOfOneRun'
    BY DEF SerialInv, HistS, InHistory, ArchiveOfOneRun
  <1>4. QueryableRun = active /\ QueryableRun' = active'
    BY <1>1 DEF QueryableRun
  <1>5. \A c \in Clients : CallS(c)'
    BY <1>1, <1>4, CallSKeeps
  <1>6. QueryS'
    BY <1>1 DEF QueryS
  <1> QED BY <1>2, <1>3, <1>5, <1>6 DEF SerialInv

\* finalize_run's last section selects the run it puts in the history.
LEMMA SerialFinalize ==
  ASSUME SerialInv, TypeOK', NEW r \in RunIds, FinalizeCommit(r)
  PROVE  SerialInv'
  <1> USE DEF inner, stores, clients
  <1>a. TypeOK
    BY DEF SerialInv
  <1>1. /\ rpc[r] = "commit" /\ rpc'[r] = "done"
        /\ \A q \in RunIds : q # r => rpc'[q] = rpc[q]
    BY <1>a DEF FinalizeCommit, RecStep, TypeOK
  <1>2. /\ active.id = r /\ r # 0 /\ r < nextRunId
        /\ \A q \in RunIds : q # r => rpc[q] \notin LivePcs
        /\ \A c \in Clients : pc[c] \notin RestorePcs \cup {"spawn", "begin"}
        /\ HoldsOne(agg.samples, bins, r)
    BY <1>1, SerialOwns DEF LivePcs
  <1>3. /\ rSnap[r].summary.id = r /\ rSnap[r].agg.samples = agg.samples
        /\ rSnap[r].bins = bins
    BY <1>1 DEF SerialInv, SnapS
  <1>4. /\ active' = NoRun /\ selected' = rSnap[r].summary
        /\ history' = [history EXCEPT ![r] = rSnap[r]]
        /\ UNCHANGED <<nextRunId, agg, bins, rSnap, disk, pc, cRun, cSnap>>
    BY <1>2, <1>3 DEF FinalizeCommit, FinalizedSlot, Upsert
  <1>5. history'[r] = rSnap[r] /\ \A q \in RunIds : q # r => history'[q] = history[q]
    BY <1>a, <1>4 DEF TypeOK
  <1>6. active'.id = 0 /\ \A q \in RunIds : rpc'[q] \notin LivePcs
    BY <1>1, <1>2, <1>4, NoValues DEF LivePcs
  <1>7. nextRunId \in Nat /\ r \in Nat
    BY <1>a, BoundsAssumption, ConstTypes DEF TypeOK
  <1>8. SlotS'
    <2>1. \A q \in RunIds : q >= nextRunId => q # r
      BY <1>2, <1>7
    <2>2. active'.id < nextRunId'
      BY <1>2, <1>4, <1>6, <1>7
    <2> QED BY <1>1, <1>4, <1>6, <2>1, <2>2
            DEF SerialInv, SlotS, ActiveIsRecording, OneRecorder
  <1>9. HistS'
    <2> SUFFICES ASSUME NEW q \in RunIds, InHistory(q)'
                 PROVE  /\ history'[q].summary.id = q
                        /\ OneRun(history[q])'
                        /\ \/ q < nextRunId'
                           \/ \E d \in Clients : pc'[d] = "openAdvance" /\ cRun'[d] = q
      BY DEF HistS
    <2>1. CASE q = r
      <3>1. OneRun(history[q])'
        BY <2>1, <1>2, <1>3, <1>5 DEF OneRun
      <3> QED BY <2>1, <3>1, <1>2, <1>3, <1>4, <1>5
    <2>2. CASE q # r
      <3>1. history'[q] = history[q] /\ InHistory(q)
        BY <2>2, <1>5 DEF InHistory
      <3>2. OneRun(history[q])'
        BY <3>1 DEF OneRun, SerialInv, HistS
      <3> QED BY <3>1, <3>2, <1>4 DEF SerialInv, HistS
    <2> QED BY <2>1, <2>2
  <1>10. \A c \in Clients : CallS(c)'
    <2>1. QueryableRun.id = r /\ QueryableRun'.id = r
      BY <1>2, <1>3, <1>4, <1>6 DEF QueryableRun
    <2> QED BY <2>1, <1>2, <1>4, CallSKeeps
  <1>11. QueryS'
    BY <1>3, <1>4, <1>5, <1>6 DEF QueryS
  <1>12. SnapS'
    BY <1>6 DEF SnapS, LivePcs
  <1>13. ArchiveOfOneRun'
    BY <1>4 DEF SerialInv, ArchiveOfOneRun
  <1> QED BY <1>8, <1>9, <1>10, <1>11, <1>12, <1>13 DEF SerialInv

\* Every step of a recorder thread keeps SerialInv.
LEMMA SerialRecorderStep ==
  ASSUME SerialInv, TypeOK', NEW r \in RunIds, RecorderStep(r)
  PROVE  SerialInv'
  <1> USE DEF inner, stores, clients
  <1>a. TypeOK
    BY DEF SerialInv
  <1>b. CASE FinalizeCommit(r)
    BY <1>b, SerialFinalize
  <1>c. CASE ~FinalizeCommit(r)
    <2>1. \/ \E from, to \in LivePcs : RecStep(r, from, to)
          \/ RecBreak(r, "stop") \/ RecBreak(r, "exited") \/ RecBreak(r, "deadline")
          \/ RecStep(r, "final", "done") /\ active.id # r
      BY <1>c DEF RecorderStep, RecAttach, RecBinaries, RecNote, RecRecord, RecReason, RecFail,
                  FinalizeRead, SnapshotAgg, SnapshotBins, LoopExits, LivePcs
    <2>2. rpc[r] \in LivePcs
      BY <2>1 DEF RecStep, RecBreak, LivePcs
    <2>3. /\ active.id = r /\ r # 0
          /\ \A q \in RunIds : q # r => rpc[q] \notin LivePcs
          /\ HoldsOne(agg.samples, bins, r)
      BY <2>2, SerialOwns
    <2>4. rpc'[r] \in LivePcs /\ \A q \in RunIds : q # r => rpc'[q] = rpc[q]
      BY <2>1, <2>2, <2>3, <1>a DEF RecStep, RecBreak, TypeOK
    <2>5. UNCHANGED <<selected, history, nextRunId, disk, pc, cRun, cSnap>>
      BY <1>c DEF RecorderStep, RecAttach, RecBinaries, RecNote, RecRecord, RecBreak, RecReason,
                  RecFail, FinalizeRead, SnapshotAgg, SnapshotBins
    <2>6. active'.id = active.id /\ active'.state = active.state
      <3>1. CASE RecAttach(r) \/ RecNote(r)
        BY <3>1, <1>a DEF RecAttach, RecNote, TypeOK, RunSummary
      <3>2. CASE ~(RecAttach(r) \/ RecNote(r))
        <4>1. active' = active
          BY <1>c, <3>2 DEF RecorderStep, RecBinaries, RecRecord, RecBreak, RecReason, RecFail,
                            FinalizeRead, SnapshotAgg, SnapshotBins
        <4> QED BY <4>1
      <3> QED BY <3>1, <3>2
    <2>7. HoldsOne(agg.samples, bins, r)'
      <3>1. CASE RecBinaries(r)
        <4>1. bins' = bins \cup {r} /\ agg' = agg
          BY <3>1 DEF RecBinaries
        <4> QED BY <4>1, <2>3 DEF HoldsOne
      <3>2. CASE RecRecord(r)
        <4>1. /\ agg' = [agg EXCEPT !.samples = [agg.samples EXCEPT ![r] = agg.samples[r] + 1]]
              /\ bins' = bins
          BY <3>2 DEF RecRecord
        <4>2. agg'.samples = [agg.samples EXCEPT ![r] = agg.samples[r] + 1]
          BY <4>1, <1>a DEF TypeOK, Aggregator
        <4>3. \A o \in Origins : o # r => agg'.samples[o] = agg.samples[o]
          BY <4>2, <1>a DEF TypeOK, Aggregator
        <4> QED BY <4>1, <4>3, <2>3 DEF HoldsOne
      <3>3. CASE ~RecBinaries(r) /\ ~RecRecord(r)
        <4>1. UNCHANGED <<agg, bins>>
          BY <1>c, <3>3 DEF RecorderStep, RecAttach, RecNote, RecBreak, RecReason, RecFail,
                            FinalizeRead, SnapshotAgg, SnapshotBins
        <4> QED BY <4>1, <2>3 DEF HoldsOne
      <3> QED BY <3>1, <3>2, <3>3
    <2>8. SnapS'
      <3>a. \A q \in RunIds : q # r => rpc'[q] \notin LivePcs
        BY <2>3, <2>4
      <3>1. CASE FinalizeRead(r)
        <4>1. /\ RecStep(r, "final", "snapAgg") /\ rSnap[r] \in Snapshot /\ active \in RunSummary
              /\ rSnap'[r] = [rSnap[r] EXCEPT !.summary =
                                [active EXCEPT !.state = "Stopped", !.reason = why[r]]]
          BY <3>1, <2>3, <1>a DEF FinalizeRead, TypeOK
        <4>2. rSnap'[r].summary = [active EXCEPT !.state = "Stopped", !.reason = why[r]]
          BY <4>1 DEF Snapshot
        <4>3. rSnap'[r].summary.id = r /\ rpc'[r] = "snapAgg"
          BY <4>1, <4>2, <2>3, <1>a DEF RunSummary, RecStep, TypeOK
        <4> QED BY <3>a, <4>3 DEF SnapS, LivePcs
      <3>2. CASE SnapshotAgg(r)
        <4>1. /\ rpc[r] = "snapAgg" /\ rpc'[r] = "snapBins" /\ agg' = agg
              /\ rSnap'[r] = [rSnap[r] EXCEPT !.agg = agg] /\ rSnap[r] \in Snapshot
          BY <3>2, <1>a DEF SnapshotAgg, RecStep, TypeOK
        <4>2. rSnap'[r].summary = rSnap[r].summary /\ rSnap'[r].agg = agg
          BY <4>1 DEF Snapshot
        <4>3. rSnap[r].summary.id = r
          BY <4>1 DEF SerialInv, SnapS
        <4> QED BY <3>a, <4>1, <4>2, <4>3 DEF SnapS, LivePcs
      <3>3. CASE SnapshotBins(r)
        <4>1. /\ rpc[r] = "snapBins" /\ rpc'[r] = "commit" /\ agg' = agg /\ bins' = bins
              /\ rSnap'[r] = [rSnap[r] EXCEPT !.bins = bins] /\ rSnap[r] \in Snapshot
          BY <3>3, <1>a DEF SnapshotBins, RecStep, TypeOK
        <4>2. /\ rSnap'[r].summary = rSnap[r].summary /\ rSnap'[r].agg = rSnap[r].agg
              /\ rSnap'[r].bins = bins
          BY <4>1 DEF Snapshot
        <4>3. rSnap[r].summary.id = r /\ rSnap[r].agg.samples = agg.samples
          BY <4>1 DEF SerialInv, SnapS
        <4> QED BY <3>a, <4>1, <4>2, <4>3 DEF SnapS, LivePcs
      <3>4. CASE ~FinalizeRead(r) /\ ~SnapshotAgg(r) /\ ~SnapshotBins(r)
        <4>1. rpc'[r] \notin {"snapAgg", "snapBins", "commit"}
          BY <1>c, <3>4, <1>a
          DEF RecorderStep, RecAttach, RecBinaries, RecNote, RecRecord, RecBreak, RecReason,
              RecFail, RecStep, TypeOK
        <4> QED BY <3>a, <4>1 DEF SnapS, LivePcs
      <3> QED BY <3>1, <3>2, <3>3, <3>4
    <2> QED BY <2>2, <2>4, <2>5, <2>6, <2>7, <2>8, SerialLive
  <1> QED BY <1>b, <1>c

----------------------------------------------------------------------------
(* The theorems about one client at a time. *)

\* SerialInv is inductive.
LEMMA SerialNext ==
  ASSUME SerialInv, OneClient, [Next]_vars
  PROVE  SerialInv'
  <1>1. TypeOK
    BY DEF SerialInv
  <1>2. CASE \E c \in Clients : ClientStep(c)
    <2> PICK c \in Clients : ClientStep(c) BY <1>2
    <2>1. TypeOK'
      BY <1>1, TypeClientStep
    <2>2. CASE \/ StartSweep(c) \/ \E p \in Paths : OpenSweep(c, p)
               \/ \E r \in RunIds : SelectSweep(c, r)
      BY <2>1, <2>2, SerialSweep
    <2>3. CASE SaveSummary(c) \/ SaveAgg(c) \/ \E p \in Paths : SaveBins(c, p)
      BY <2>1, <2>3, SerialSave
    <2>4. CASE SpawnAttach(c)
      BY <2>1, <2>4, SerialSpawn
    <2>5. CASE \E limit \in BOOLEAN : ~SlotTaken /\ BeginRun(c, limit)
      BY <2>1, <2>5, SerialBeginRun
    <2>6. CASE SelectLookup(c) \/ RestoreAgg(c) \/ RestoreBins(c) \/ RestoreCommit(c)
               \/ OpenAdvance(c)
      BY <2>1, <2>6, SerialLookup, SerialRestore, SerialCommit, SerialAdvance
    <2>7. CASE \/ StopRequest(c) \/ StopPoll(c)
               \/ \E cond \in WaitPcs : WaitCall(c, cond)
               \/ \E elapsed \in BOOLEAN : WaitPoll(c, elapsed)
               \/ MarkCheck(c) \/ MarkRecord(c)
               \/ \E limit \in BOOLEAN : SlotTaken /\ BeginRun(c, limit)
               \/ \E p \in Paths : OpenMissing(c, p)
      BY <2>1, <2>7, SerialFreeStep
    <2> QED BY <2>2, <2>3, <2>4, <2>5, <2>6, <2>7 DEF ClientStep
  <1>3. CASE \E r \in RunIds : RecorderStep(r)
    BY <1>1, <1>3, TypeRecorderStep, SerialRecorderStep
  <1>4. CASE UNCHANGED vars
    <2> USE <1>4 DEF vars, inner, stores, recorders, clients
    <2>1. TypeOK' /\ SlotS' /\ HistS' /\ QueryS' /\ SnapS' /\ ArchiveOfOneRun'
      BY <1>1 DEF SerialInv, TypeOK, SlotS, ActiveIsRecording, OneRecorder, HistS, InHistory,
                  OneRun, HoldsOne, QueryS, SnapS, ArchiveOfOneRun
    <2>2. \A c \in Clients : CallS(c)'
      BY DEF SerialInv, CallS, QueryableRun, OneRun, HoldsOne
    <2> QED BY <2>1, <2>2 DEF SerialInv
  <1> QED BY <1>2, <1>3, <1>4 DEF Next

\* A client that makes one call at a time keeps the registry and its query
\* state together, whatever it starts, saves, opens and selects.
THEOREM SerialInvariant == ASSUME OneClient PROVE Spec => []SerialInv
  <1>1. SerialInv /\ [Next]_vars => SerialInv'
    BY SerialNext
  <1> QED BY <1>1, SerialInit, PTL DEF Spec

\* Between calls, with nothing recording, what queries read is the data of the
\* selected run's entry in the history: restore_archive_to_query_state and
\* finalize_run replace the stores one by one and select in the end.
THEOREM QueryStateIsSelectedThm == ASSUME OneClient PROVE Spec => []QueryStateIsSelected
  <1>1. SerialInv => QueryStateIsSelected
    BY DEF SerialInv, QueryS, QueryStateIsSelected, HalfPcs
  <1> QED BY <1>1, SerialInvariant, PTL

\* Every archive on disk holds the data of one run: save_current copies the
\* stores one by one, also while the run it saves records or stops.
THEOREM ArchiveOfOneRunThm == ASSUME OneClient PROVE Spec => []ArchiveOfOneRun
  <1>1. SerialInv => ArchiveOfOneRun
    BY DEF SerialInv
  <1> QED BY <1>1, SerialInvariant, PTL

\* begin_run never hands out an id that a run or an opened archive already has.
THEOREM FreshRunIdThm == ASSUME OneClient PROVE Spec => FreshRunId
  <1>1. ASSUME SerialInv, [Next]_vars
        PROVE  [\A r \in RunIds : (active.id # r /\ active'.id = r) =>
                  ~InHistory(r) /\ rpc[r] = "none"]_vars
    <2> SUFFICES ASSUME NEW r \in RunIds, active.id # r, active'.id = r
                 PROVE  ~InHistory(r) /\ rpc[r] = "none"
      OBVIOUS
    <2> USE DEF inner, stores, recorders, clients
    <2>a. TypeOK
      BY <1>1 DEF SerialInv
    <2>1. CASE \E c \in Clients : ClientStep(c)
      <3> PICK c \in Clients : ClientStep(c) BY <2>1
      <3>1. CASE \E limit \in BOOLEAN : ~SlotTaken /\ BeginRun(c, limit)
        <4> PICK limit \in BOOLEAN : ~SlotTaken /\ BeginRun(c, limit) BY <3>1
        <4>1. r = nextRunId
          BY DEF BeginRun, NoRun
        <4> QED BY <4>1, <1>1, SerialFresh
      <3>2. CASE ~ \E limit \in BOOLEAN : ~SlotTaken /\ BeginRun(c, limit)
        <4>1. active' = active \/ active' = NoRun
          BY <3>2
          DEF ClientStep, StartSweep, SpawnAttach, BeginRun, StopRequest, StopPoll, WaitCall,
              WaitPoll, MarkCheck, MarkRecord, SaveSummary, SaveAgg, SaveBins, OpenMissing,
              OpenSweep, SelectSweep, SelectLookup, RestoreAgg, RestoreBins, RestoreCommit,
              OpenAdvance
        <4> QED BY <4>1, NoValues, ConstTypes
      <3> QED BY <3>1, <3>2
    <2>2. CASE \E q \in RunIds : RecorderStep(q)
      <3> PICK q \in RunIds : RecorderStep(q) BY <2>2
      <3>1. CASE RecAttach(q) \/ RecNote(q)
        BY <3>1, <2>a DEF RecAttach, RecNote, TypeOK, RunSummary
      <3>2. CASE ~(RecAttach(q) \/ RecNote(q))
        <4>1. active' = active \/ active' = NoRun
          BY <3>2 DEF RecorderStep, RecBinaries, RecRecord, RecBreak, RecReason, RecFail,
                      FinalizeRead, SnapshotAgg, SnapshotBins, FinalizeCommit, FinalizedSlot
        <4> QED BY <4>1, NoValues, ConstTypes
      <3> QED BY <3>1, <3>2
    <2>3. CASE UNCHANGED vars
      BY <2>3 DEF vars
    <2> QED BY <1>1, <2>1, <2>2, <2>3 DEF Next
  <1> QED BY <1>1, SerialInvariant, PTL DEF Spec, FreshRunId

=============================================================================
