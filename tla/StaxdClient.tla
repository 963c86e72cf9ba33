---------------------------- MODULE StaxdClient ----------------------------
(***************************************************************************)
(* drive_session of staxd-client/src/lib.rs: the receive loop, the probe   *)
(* scanner and parser worker threads behind their drop-oldest queues, and  *)
(* the shutdown with its deadlines.  The daemon is the environment: it     *)
(* sends batches, and ends the call on a stop, on a closed channel or for  *)
(* a reason of its own.                                                    *)
(*                                                                         *)
(*   rpc     the record call: "open", then "ok" or "err"                   *)
(*   stream  batches in the channel, numbered in the daemon's order        *)
(*   dr      the driving task: pc, the batch it is handing over            *)
(*   q       the "scan" and "parse" queues, what each dropped, closed      *)
(*   wk      the parser worker: pc, batch in hand, what it processed       *)
(*   sc      the scanner thread                                            *)
(*   abort   abort_worker_backlog                                          *)
(***************************************************************************)
EXTENDS Naturals, Sequences, FiniteSets, SequencesExt

CONSTANTS Batches,       \* bound: batches the daemon sends
          WorkerCap,     \* WORKER_QUEUE_CAPACITY
          ScannerCap     \* PROBE_SCANNER_QUEUE_CAPACITY

VARIABLES rpc, stream, dr, q, wk, sc, abort
clVars == <<rpc, stream, dr, q, wk, sc, abort>>

Queues == {"scan", "parse"}
Cap == [scan |-> ScannerCap, parse |-> WorkerCap]

ClInit ==
  /\ rpc = "open"
  /\ stream = [sent |-> 0, chan |-> <<>>, rx |-> TRUE]
  /\ dr = [pc |-> "loop", hand |-> 0]
  /\ q = [k \in Queues |-> [items |-> <<>>, dropped |-> {}, closed |-> FALSE]]
  /\ wk = [pc |-> "top", hand |-> 0, done |-> <<>>, skipped |-> {}, finished |-> FALSE]
  /\ sc = [pc |-> "recv", hand |-> 0, done |-> <<>>]
  /\ abort = FALSE

----------------------------------------------------------------------------
(* The daemon *)

DaemonSends ==
  /\ rpc = "open" /\ stream.rx /\ stream.sent < Batches
  /\ stream' = [stream EXCEPT !.sent = @ + 1, !.chan = Append(@, stream.sent + 1)]
  /\ UNCHANGED <<rpc, dr, q, wk, sc, abort>>

DaemonEnds ==
  /\ rpc = "open"
  /\ rpc' \in {"ok", "err"}
  /\ UNCHANGED <<stream, dr, q, wk, sc, abort>>

----------------------------------------------------------------------------
(* The receive loop *)

\* should_stop, or the duration is over: stop_recording is called and the
\* loop left, with what is still in the channel.
StopRequested ==
  /\ dr.pc = "loop"
  /\ dr' = [dr EXCEPT !.pc = "leave"]
  /\ UNCHANGED <<rpc, stream, q, wk, sc, abort>>

RecvBatch ==
  /\ dr.pc = "loop" /\ stream.chan # <<>>
  /\ stream' = [stream EXCEPT !.chan = Tail(@)]
  /\ dr' = [pc |-> "scan", hand |-> Head(stream.chan)]
  /\ UNCHANGED <<rpc, q, wk, sc, abort>>

RecvClosed ==
  /\ dr.pc = "loop" /\ stream.chan = <<>> /\ rpc # "open"
  /\ dr' = [dr EXCEPT !.pc = "leave"]
  /\ UNCHANGED <<rpc, stream, q, wk, sc, abort>>

\* enqueue_batch and enqueue_chunk_drop_oldest: the same loop on two queues,
\* try_send first, then eviction of the oldest and another try.
AfterQueue == [scan |-> "parse", parse |-> "loop"]
FullPc == [scan |-> "scan_full", parse |-> "parse_full"]

TryEnqueue(k) ==
  /\ dr.pc = k
  /\ IF Len(q[k].items) < Cap[k]
       THEN /\ q' = [q EXCEPT ![k].items = Append(@, dr.hand)]
            /\ dr' = [dr EXCEPT !.pc = AfterQueue[k]]
       ELSE /\ dr' = [dr EXCEPT !.pc = FullPc[k]]
            /\ UNCHANGED q
  /\ UNCHANGED <<rpc, stream, wk, sc, abort>>

EvictOldest(k) ==
  /\ dr.pc = FullPc[k]
  /\ dr' = [dr EXCEPT !.pc = k]
  /\ IF q[k].items = <<>> THEN UNCHANGED q
     ELSE q' = [q EXCEPT ![k].items = Tail(@),
                         ![k].dropped = @ \cup {Head(q[k].items)}]
  /\ UNCHANGED <<rpc, stream, wk, sc, abort>>

----------------------------------------------------------------------------
(* Shutdown *)

\* rx and both queues are dropped; the record call is awaited without limit.
LeaveLoop ==
  /\ dr.pc = "leave"
  /\ stream' = [stream EXCEPT !.rx = FALSE, !.chan = <<>>]
  /\ q' = [k \in Queues |-> [q[k] EXCEPT !.closed = TRUE]]
  /\ dr' = [dr EXCEPT !.pc = "await"]
  /\ UNCHANGED <<rpc, wk, sc, abort>>

RpcReturned ==
  /\ dr.pc = "await" /\ rpc # "open" /\ sc.pc = "ended"      \* scanner joined
  /\ dr' = [dr EXCEPT !.pc = "join"]
  /\ UNCHANGED <<rpc, stream, q, wk, sc, abort>>

\* What drive_session returns once the worker is known to have ended, or not.
Verdict(joined) ==
  IF rpc = "err" THEN "failed" ELSE IF joined THEN "ok" ELSE "timed_out"

Joined ==
  /\ dr.pc \in {"join", "grace"} /\ wk.pc = "ended"
  /\ dr' = [dr EXCEPT !.pc = Verdict(TRUE)]
  /\ UNCHANGED <<rpc, stream, q, wk, sc, abort>>

\* WORKER_SHUTDOWN_BUDGET: the backlog is given up.
BudgetOver ==
  /\ dr.pc = "join" /\ wk.pc # "ended"
  /\ abort' = TRUE
  /\ dr' = [dr EXCEPT !.pc = "grace"]
  /\ UNCHANGED <<rpc, stream, q, wk, sc>>

MutantDetachedIsOk ==
  /\ dr.pc = "grace" /\ wk.pc # "ended"
  /\ dr' = [dr EXCEPT !.pc = Verdict(TRUE)]
  /\ UNCHANGED <<rpc, stream, q, wk, sc, abort>>

\* WORKER_ABORT_GRACE: the worker is detached.
GraceOver ==
  /\ dr.pc = "grace" /\ wk.pc # "ended"
  /\ dr' = [dr EXCEPT !.pc = Verdict(FALSE)]
  /\ UNCHANGED <<rpc, stream, q, wk, sc, abort>>

----------------------------------------------------------------------------
(* worker_thread *)

MutantLosesBacklog ==
  /\ q' = [q EXCEPT !["parse"].items = <<>>]
  /\ wk' = [wk EXCEPT !.pc = "ended", !.hand = 0,
                      !.skipped = @ \cup ({wk.hand} \ {0})]

\* drain_parser_backlog_for_abort: the queue is counted as dropped; a batch
\* already in the worker's hand is not.
DropBacklog ==
  /\ q' = [q EXCEPT !["parse"].items = <<>>,
                    !["parse"].dropped = @ \cup ToSet(q["parse"].items)]
  /\ wk' = [wk EXCEPT !.pc = "ended", !.hand = 0,
                      !.skipped = @ \cup ({wk.hand} \ {0})]

\* abort is read at the top of the loop, after a receive, and before finish.
AbortCheck ==
  /\ wk.pc \in {"top", "received", "disconnected"}
  /\ IF abort THEN DropBacklog
     ELSE /\ wk' = [wk EXCEPT !.pc = CASE wk.pc = "top" -> "recv"
                                       [] wk.pc = "received" -> "process"
                                       [] OTHER -> "finish"]
          /\ UNCHANGED q
  /\ UNCHANGED <<rpc, stream, dr, sc, abort>>

WorkerRecv ==
  /\ wk.pc = "recv"
  /\ LET items == q["parse"].items IN
     \/ /\ items # <<>>
        /\ wk' = [wk EXCEPT !.pc = "received", !.hand = Head(items)]
        /\ q' = [q EXCEPT !["parse"].items = Tail(@)]
     \/ /\ items = <<>>
        /\ wk' = [wk EXCEPT !.pc = IF q["parse"].closed THEN "disconnected" ELSE "tick"]
        /\ UNCHANGED q
  /\ UNCHANGED <<rpc, stream, dr, sc, abort>>

ProcessRecords ==
  /\ wk.pc = "process"
  /\ wk' = [wk EXCEPT !.pc = "tick", !.hand = 0, !.done = Append(@, wk.hand)]
  /\ UNCHANGED <<rpc, stream, dr, q, sc, abort>>

WorkerTick ==
  /\ wk.pc = "tick"
  /\ wk' = [wk EXCEPT !.pc = "top"]
  /\ UNCHANGED <<rpc, stream, dr, q, sc, abort>>

WorkerFinish ==
  /\ wk.pc = "finish"
  /\ wk' = [wk EXCEPT !.pc = "ended", !.finished = TRUE]
  /\ UNCHANGED <<rpc, stream, dr, q, sc, abort>>

----------------------------------------------------------------------------
(* probe_scanner_thread *)

ScannerRecv ==
  /\ sc.pc = "recv"
  /\ LET items == q["scan"].items IN
     \/ /\ items # <<>>
        /\ sc' = [sc EXCEPT !.done = Append(@, Head(items))]
        /\ q' = [q EXCEPT !["scan"].items = Tail(@)]
     \/ /\ items = <<>> /\ q["scan"].closed
        /\ sc' = [sc EXCEPT !.pc = "ended"]
        /\ UNCHANGED q
  /\ UNCHANGED <<rpc, stream, dr, wk, abort>>

Returned == dr.pc \in {"ok", "failed", "timed_out"}

\* The call has returned; a detached worker may still be running.
AtRest == Returned /\ wk.pc = "ended" /\ UNCHANGED clVars

ClNext ==
  \/ DaemonSends \/ DaemonEnds
  \/ StopRequested \/ RecvBatch \/ RecvClosed
  \/ \E k \in Queues : TryEnqueue(k) \/ EvictOldest(k)
  \/ LeaveLoop \/ RpcReturned \/ Joined \/ BudgetOver \/ GraceOver
  \/ AbortCheck \/ WorkerRecv \/ ProcessRecords \/ WorkerTick \/ WorkerFinish
  \/ ScannerRecv \/ AtRest

ClSpec == ClInit /\ [][ClNext]_clVars

----------------------------------------------------------------------------
(* Properties *)

Received == IF dr.hand = 0 THEN {} ELSE 1 .. dr.hand
Increasing(s) == \A i, j \in DOMAIN s : i < j => s[i] < s[j]

\* Every batch received is, for each consumer, processed, queued, in hand or
\* counted as dropped; the one exception is the batch the worker holds when
\* it sees the abort.  Both consumers see the daemon's order, and the final
\* pass of the pipeline runs only when no batch was given up to an abort.
ParserAccounted ==
  LET undelivered(k) == IF dr.pc \in {"scan", "scan_full", k, FullPc[k]}
                          THEN {dr.hand} ELSE {}
      accounted(k, t) == ToSet(t.done) \cup ({t.hand} \ {0})
                           \cup ToSet(q[k].items) \cup q[k].dropped
  IN  /\ Received = accounted("scan", sc) \cup undelivered("scan")
      /\ Received = accounted("parse", wk) \cup undelivered("parse") \cup wk.skipped
      /\ Increasing(wk.done \o q["parse"].items)
      /\ Increasing(sc.done \o q["scan"].items)
      /\ Cardinality(wk.skipped) <= 1
      /\ wk.skipped # {} => abort
      /\ wk.finished => /\ wk.skipped = {}
                        /\ Received = ToSet(wk.done) \cup q["parse"].dropped

\* A session that returned Ok is over: neither thread will call the sink or
\* the probe hook of the finished run again.
QuietAfterOk == dr.pc = "ok" => wk.pc = "ended" /\ sc.pc = "ended"
=============================================================================
