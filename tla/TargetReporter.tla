--------------------------- MODULE TargetReporter ---------------------------
(***************************************************************************)
(* The in-app half of target reporting (stax-target/src/lib.rs): the       *)
(* calling threads, the bounded queue and the background worker that polls *)
(* the capture gate and sends the batches.                                 *)
(*                                                                         *)
(*   worker   whether worker_sender() has been called, and whether the     *)
(*            worker thread is still there to receive                      *)
(*   gate     REPORTING_ACTIVE                                             *)
(*   client   the worker's connection; CONNECTED_TO_SERVER follows it      *)
(*   dropped  the drop counters (queue full and worker gone)               *)
(*   defs     the event kinds, counter sets and contracts the app defined  *)
(*   token    the CapturedOrigin the app carries from queueing to running  *)
(*   wpc      what the worker awaits; wcall, the call it made              *)
(***************************************************************************)
EXTENDS TargetIngest

CONSTANTS Own,           \* the pid of the instrumented app
          HasOrigins,    \* the platform gives current_span_origin a thread id
          QueueDepth,    \* QUEUE_DEPTH
          BuiltSpans,    \* the spans the app builds from a captured origin
          RawSpans,      \* the spans it makes of its own timestamps
          Budgets        \* bounds: how many batches the app reports, how many
                         \* calls fail, and which event kinds it defines

\* A batch of one TargetSpan: lane, name, how long it lasted (0 when it ends by
\* its start) and whether it carries an origin.
SpanMsg ==
  LET all == BuiltSpans \cup RawSpans
  IN [t : {"spans"}, lane : {b.lane : b \in all}, name : {b.name : b \in all},
      dur : Nat, origin : BOOLEAN]

ASSUME SpansAssumption == BuiltSpans \cup RawSpans \subseteq SpanMsg

VARIABLES worker, gate, client, queue, dropped, defs, token, wpc, wcall,
          reports, failures, kinds

app == <<worker, gate, client, queue, dropped, defs, token, wpc, wcall,
         reports, failures, kinds>>

ReporterInit ==
  /\ worker = "absent"
  /\ gate = FALSE
  /\ client = FALSE
  /\ queue = <<>>
  /\ dropped = [full |-> 0, closed |-> 0]
  /\ defs = {}
  /\ token = "inactive"
  /\ wpc = "idle"
  /\ wcall = 0
  /\ \E b \in Budgets : reports = b.reports /\ failures = b.failures /\ kinds = b.kinds

----------------------------------------------------------------------------
(* The app's threads *)

\* worker_sender(): the first use starts the worker thread; without a tokio
\* runtime the thread ends at once and the channel is closed.
Armed(w) == IF w = "absent" THEN {"running", "dead"} ELSE {w}

\* try_send into the channel: a batch that does not fit is the one dropped.
Enqueued(q, m) == IF Len(q) < QueueDepth THEN Append(q, m) ELSE q

\* try_report_batch_with_kind and try_report_signals.
TrySend(m) ==
  /\ reports > 0
  /\ reports' = reports - 1
  /\ worker' \in Armed(worker)
  /\ IF worker' = "dead"
     THEN /\ dropped' = [dropped EXCEPT !.closed = @ + 1]
          /\ UNCHANGED queue
     ELSE /\ queue' = Enqueued(queue, m)
          /\ dropped' = IF Len(queue) < QueueDepth THEN dropped
                        ELSE [dropped EXCEPT !.full = @ + 1]

\* reporting_active() arms the worker; Lane::capture_origin turns the answer
\* into a token, without an origin where the platform has none (and, to bound
\* the model, without a token no report is left for).
CaptureOrigin ==
  /\ worker' \in Armed(worker)
  /\ token' = IF ~gate \/ reports = 0 THEN "inactive" ELSE IF HasOrigins THEN "origin" ELSE "active"
  /\ UNCHANGED <<gate, client, queue, dropped, defs, wpc, wcall, reports, failures, kinds>>

\* SpanBuilder::build with a captured token: nothing is built from an inactive
\* one or for a duration that is not positive.
Builds(b) == token \in {"active", "origin"} /\ b.dur > 0

\* DispatchBuilder::build: without timestamps there is no span either.
DispatchBuilds(b) == token \in {"active", "origin"} /\ b.dur > 0

\* A span built from the token, reported without a second look at the gate.
ReportCaptured(b) ==
  /\ Builds(b) \/ DispatchBuilds(b)
  /\ TrySend([b EXCEPT !.origin = (token = "origin")])
  /\ token' = "inactive"
  /\ UNCHANGED <<gate, client, defs, wpc, wcall, failures, kinds>>

\* OpenSpan::new: the gate is looked at when the span begins.
BeginSpan ==
  /\ reports > 0
  /\ worker' \in Armed(worker)
  /\ gate /\ token' = "open"
  /\ UNCHANGED <<gate, client, queue, dropped, defs, wpc, wcall, reports, failures, kinds>>

\* OpenSpan::finish_and_report: a clock that did not advance drops the span.
FinishSpan(b) ==
  /\ token = "open" /\ token' = "inactive"
  /\ IF b.dur > 0 THEN TrySend([b EXCEPT !.origin = FALSE])
     ELSE UNCHANGED <<worker, queue, dropped, reports>>
  /\ UNCHANGED <<gate, client, defs, wpc, wcall, failures, kinds>>

\* report(): spans with the app's own timestamps, gated or not by the caller.
Report(b) ==
  /\ TrySend([b EXCEPT !.origin = FALSE])
  /\ UNCHANGED <<gate, client, defs, token, wpc, wcall, failures, kinds>>

\* EventKind::new, CounterSet::new, Contract::new: only registers.
Define(k) ==
  /\ kinds' = kinds \ {k}
  /\ defs' = defs \cup {k}
  /\ UNCHANGED <<worker, gate, client, queue, dropped, token, wpc, wcall,
                 reports, failures>>

\* EventKind::emit and CounterSet::sample: only while the gate is open.
Emit(k) ==
  /\ gate
  /\ TrySend([t |-> "signals", defs |-> {}, event |-> k])
  /\ UNCHANGED <<gate, client, defs, token, wpc, wcall, failures, kinds>>

AppStep ==
  \/ CaptureOrigin
  \/ BeginSpan
  \/ \E b \in BuiltSpans : ReportCaptured(b) \/ FinishSpan(b)
  \/ \E b \in RawSpans : Report(b)
  \/ \E k \in kinds : Define(k)
  \/ \E k \in defs : Emit(k)

----------------------------------------------------------------------------
(* The worker: every call is sent into a free slot, awaited, and given up    *)
(* after CALL_TIMEOUT; the server may still be serving a call given up.      *)

\* The worker sends m in slot s and awaits it at pc.
Send(s, m, pc) ==
  /\ call[s].pc = "free"
  /\ \A f \in Slots : call[f].pc = "free" => s <= f
  /\ call' = [call EXCEPT ![s] = [NoCall EXCEPT !.pc = "sent", !.msg = m, !.pid = Own]]
  /\ wpc' = pc
  /\ wcall' = s

Rest == wpc' = "idle" /\ wcall' = 0

\* poll_capture_gate, with a connect() that finds the server or not.
PollGate ==
  /\ worker = "running" /\ wpc = "idle"
  /\ \/ /\ \E s \in Slots : Send(s, [t |-> "gate"], "gate")
        /\ client' = TRUE
        /\ UNCHANGED <<gate, failures>>
     \/ /\ ~client /\ failures > 0
        /\ failures' = failures - 1
        /\ gate' = FALSE
        /\ UNCHANGED <<client, call, wpc, wcall>>
  /\ UNCHANGED <<worker, queue, dropped, defs, token, reports, kinds>>

MutantStuckGate(answer) == gate \/ answer

\* What the swap leaves in REPORTING_ACTIVE.
GateAfter(answer) == answer

\* The answer: swap the gate; on a rising edge the counters and the
\* definitions follow.
GateAnswered ==
  LET active == GateAfter(call[wcall].link = "yes")
  IN /\ wpc = "gate" /\ call[wcall].pc = "done"
     /\ gate' = active
     /\ call' = [call EXCEPT ![wcall] = NoCall]
     /\ wcall' = 0
     /\ wpc' = IF active THEN (IF gate THEN "stats" ELSE "edge") ELSE "idle"
     /\ UNCHANGED <<worker, client, queue, dropped, defs, token, reports, failures, kinds>>

\* reset_reporter_stats and definition_snapshot, then one signal batch.
RisingEdge ==
  /\ wpc = "edge"
  /\ dropped' = [full |-> 0, closed |-> 0]
  /\ IF defs = {}
     THEN /\ wpc' = "stats"
          /\ UNCHANGED <<call, wcall, client>>
     ELSE /\ \E s \in Slots :
               Send(s, [t |-> "signals", defs |-> defs, event |-> "none"], "defs")
          /\ client' = TRUE
  /\ UNCHANGED <<worker, gate, queue, defs, token, reports, failures, kinds>>

\* reporter_stats goes out last, if there still is a connection.
SendStats ==
  /\ wpc = "stats"
  /\ IF client
     THEN \E s \in Slots :
            Send(s, [t |-> "stats", dropped |-> dropped.full + dropped.closed], "await")
     ELSE Rest /\ UNCHANGED call
  /\ UNCHANGED <<worker, gate, client, queue, dropped, defs, token, reports, failures, kinds>>

\* ingest_batch and ingest_signal_batch: without a server the batch is lost.
SendBatch ==
  /\ worker = "running" /\ wpc = "idle" /\ queue # <<>>
  /\ queue' = Tail(queue)
  /\ \/ /\ \E s \in Slots : Send(s, Head(queue), "await")
        /\ client' = TRUE
        /\ UNCHANGED failures
     \/ /\ ~client /\ failures > 0
        /\ failures' = failures - 1
        /\ UNCHANGED <<client, call, wpc, wcall>>
  /\ UNCHANGED <<worker, gate, dropped, defs, token, reports, kinds>>

\* A call other than the gate's was answered.
Answered ==
  /\ wpc \in {"defs", "await"} /\ call[wcall].pc = "done"
  /\ call' = [call EXCEPT ![wcall] = NoCall]
  /\ wcall' = 0
  /\ wpc' = IF wpc = "defs" THEN "stats" ELSE "idle"
  /\ UNCHANGED <<worker, gate, client, queue, dropped, defs, token, reports, failures, kinds>>

\* A call failed or timed out: the connection is dropped.  The request is lost
\* with it, or the server goes on serving it.
GiveUp ==
  /\ wpc \in {"gate", "defs", "await"} /\ failures > 0
  /\ failures' = failures - 1
  /\ client' = FALSE
  /\ gate' = IF wpc = "gate" THEN FALSE ELSE gate
  /\ wpc' = IF wpc = "defs" THEN "stats" ELSE "idle"
  /\ wcall' = 0
  /\ \/ UNCHANGED call
     \/ call[wcall].pc \in {"sent", "done"} /\ call' = [call EXCEPT ![wcall] = NoCall]
  /\ UNCHANGED <<worker, queue, dropped, defs, token, reports, kinds>>

\* A call nobody awaits ends, and its reply goes nowhere.
Orphaned(s) ==
  /\ call[s].pc = "done" /\ s # wcall
  /\ call' = [call EXCEPT ![s] = NoCall]
  /\ UNCHANGED app

WorkerStep ==
  PollGate \/ GateAnswered \/ RisingEdge \/ SendStats \/ SendBatch \/ Answered

Init == IngestInit /\ ReporterInit

vars == <<server, call, app>>

Next ==
  \/ AppStep /\ UNCHANGED <<server, call>>
  \/ WorkerStep /\ UNCHANGED server
  \/ GiveUp /\ UNCHANGED server
  \/ \E s \in Slots : Orphaned(s) /\ UNCHANGED server
  \/ \E s \in Slots : Handle(s) /\ UNCHANGED app
  \/ RunChange /\ UNCHANGED app

Spec == Init /\ [][Next]_vars

\* The worker loop keeps polling, the server's handlers and an open begin_run
\* come to their end. Nothing obliges the app, the user or a call to fail.
FairSpec ==
  /\ Spec
  /\ WF_vars(GateAnswered /\ UNCHANGED server)
  /\ WF_vars((RisingEdge \/ SendStats \/ Answered) /\ UNCHANGED server)
  /\ SF_vars(PollGate /\ UNCHANGED server)
  /\ \A s \in Slots : WF_vars(Handle(s) /\ UNCHANGED app)
  /\ \A s \in Slots : WF_vars(Orphaned(s) /\ UNCHANGED server)
  /\ WF_vars(BeginReset /\ UNCHANGED app)

----------------------------------------------------------------------------
(* Properties *)

\* The capture gate follows the server: while a run of this process stays
\* active the gate opens for good, and once there is none it closes for good,
\* whatever calls failed before (poll_capture_gate's error paths and reconnect).
GateFollowsRun ==
  /\ <>[](worker = "running" /\ run.pid = Own) => <>[]gate
  /\ <>[](run.pid # Own) => <>[]~gate
=============================================================================
