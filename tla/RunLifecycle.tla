---------------------------- MODULE RunLifecycle ----------------------------
(***************************************************************************)
(* What stax-server promises about runs (docs: guide/run-lifecycle.md,     *)
(* "One active run at a time"; stax-live-proto, RunControl): a run is      *)
(* fresh, then recording, then stopped; one run records at a time; ids are *)
(* handed out in increasing order; a stopped run has a result, which never *)
(* changes.  RunRegistry implements this for clients that start and stop   *)
(* recordings.                                                             *)
(***************************************************************************)
EXTENDS Naturals

CONSTANTS RunIds,    \* the ids the server hands out
          NoResult   \* the result of a run that has not stopped

VARIABLES phase,     \* phase[r] of each run
          result     \* result[r] of each stopped run

lifecycleVars == <<phase, result>>

Init ==
  /\ phase = [r \in RunIds |-> "fresh"]
  /\ result = [r \in RunIds |-> NoResult]

Begin(r) ==
  /\ phase[r] = "fresh"
  /\ \A q \in RunIds : phase[q] # "recording" /\ (phase[q] # "fresh" => q < r)
  /\ phase' = [phase EXCEPT ![r] = "recording"]
  /\ UNCHANGED result

Finish(r) ==
  /\ phase[r] = "recording"
  /\ phase' = [phase EXCEPT ![r] = "stopped"]
  /\ result' = [result EXCEPT ![r] = result'[r]]
  /\ result'[r] # NoResult

Next == \E r \in RunIds : Begin(r) \/ Finish(r)

Spec == Init /\ [][Next]_lifecycleVars

=============================================================================
