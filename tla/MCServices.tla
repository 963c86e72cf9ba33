----------------------------- MODULE MCServices -----------------------------
(* One TLC instance for the services that must keep going: the reporting path *)
(* of an instrumented app, the kperf daemon, and the server's subscriptions.   *)
(* They share no state; the initial state picks the part that takes steps.     *)
EXTENDS TargetReporter, KperfDaemon, Streams

VARIABLE part

Batch(lane, name, dur) ==
  [t |-> "spans", lane |-> lane, name |-> name, dur |-> dur, origin |-> FALSE]

\* Two lanes, one of them with a span that ends when it starts.
MCBuiltSpans == {Batch("a", "x", 1)}
MCRawSpans == {Batch("b", "y", 0)}

\* The app is recorded first, some other process after it.
MCTargets == <<1, 2>>
\* Two span batches and a failed call, or two batches or events and none.
MCBudgets == {[reports |-> 2, failures |-> 1, kinds |-> {}],
              [reports |-> 2, failures |-> 0, kinds |-> {"k"}]}

\* One caller drains enough batches to overflow its queue, the other one.
MCMaxBatches == [c \in Callers |-> IF c = 1 THEN 3 ELSE 1]

ServicesInit ==
  /\ part \in {"target", "daemon", "streams"}
  /\ Init /\ KdInit /\ StInit
  /\ part = "target" \/ (reports = 2 /\ failures = 1)

ServicesNext ==
  \/ part = "target" /\ Next /\ UNCHANGED <<part, kdVars, stVars>>
  \/ part = "daemon" /\ KdNext /\ UNCHANGED <<part, vars, stVars>>
  \/ part = "streams" /\ StNext /\ UNCHANGED <<part, vars, kdVars>>

TargetFairness ==
  /\ WF_vars(part = "target" /\ GateAnswered /\ UNCHANGED server)
  /\ WF_vars(part = "target" /\ (RisingEdge \/ SendStats \/ Answered) /\ UNCHANGED server)
  /\ SF_vars(part = "target" /\ PollGate /\ UNCHANGED server)
  /\ \A s \in Slots : WF_vars(part = "target" /\ Handle(s) /\ UNCHANGED app)
  /\ \A s \in Slots : WF_vars(part = "target" /\ Orphaned(s) /\ UNCHANGED server)
  /\ WF_vars(part = "target" /\ BeginReset /\ UNCHANGED app)

ServicesSpec ==
  /\ ServicesInit /\ [][ServicesNext]_<<part, vars, kdVars, stVars>>
  /\ TargetFairness
  /\ \A c \in Callers : WF_kdVars(part = "daemon" /\ KdStep(c))
  /\ WF_stVars(part = "streams" /\ StProgress)
=============================================================================
