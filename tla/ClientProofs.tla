--------------------------- MODULE ClientProofs ----------------------------
(***************************************************************************)
(* The two clients of a recording. `stax record` leaves nothing behind,    *)
(* for any number of clients of one server, who stop each other's runs and *)
(* may be killed at any moment; and drive_session accounts for every batch *)
(* of the daemon, for any number of batches, queue capacities and          *)
(* interleavings of the receive loop, the two threads and the shutdown     *)
(* deadlines.                                                              *)
(***************************************************************************)
EXTENDS RecordClient, StaxdClient, SequenceTheorems, FiniteSetTheorems, TLAPS

-----------------------------------------------------------------------------
(* stax record *)

CliPcs == {"fork", "attach", "resume", "wait", "stop", "stopping", "list",
           "terminate", "done", "killed"}
ChildStates == Alive \cup {"none", "zombie", "reaped", "recycled"}
CliRec == [pc : CliPcs, run : Nat, stop : Nat, told : Nat, watch : BOOLEAN]
RunRec == [id : Nat \ {0}, of : RcClients, attached : BOOLEAN, stop : BOOLEAN]
Gone == {"none", "reaped", "recycled"}

RcTypeOK ==
  /\ rcRun \in RunRec \cup {NoRun}
  /\ rcIds \in Nat
  /\ rcHistory \subseteq 1 .. rcIds
  /\ rcChild \in [RcClients -> ChildStates]
  /\ rcCli \in [RcClients -> CliRec]
  /\ rcEarly \subseteq RcClients

\* The server forgets no run: an id given out is the active one, which is the
\* last given out, or in the history.
RunsKept ==
  /\ rcRun # NoRun => rcRun.id = rcIds
  /\ \A r \in 1 .. rcIds : r \in rcHistory \/ (rcRun # NoRun /\ rcRun.id = r)

\* Until the go byte the child is blocked on its pipe, and a client that never
\* got a run sends none unless it dies.
ChildHeld(c) ==
  /\ CliAt(c, "fork") => rcChild[c] = "none"
  /\ rcCli[c].pc \in {"attach", "resume"} => rcChild[c] = "blocked"
  /\ CliAt(c, "done") => rcChild[c] \in Gone
  /\ rcCli[c].run = 0 /\ ~CliAt(c, "killed") =>
       c \notin rcEarly /\ rcChild[c] \in Gone \cup {"blocked"}

\* A run a stop call polls for is the client's own or a later one, and the
\* client's own is over by then.
OwnRunOver(c, r) == rcCli[c].run <= r /\ (rcCli[c].run = r \/ rcCli[c].run \in rcHistory)

RunKnown(c) ==
  /\ rcCli[c].run <= rcIds
  /\ rcCli[c].pc \in {"wait", "stop", "stopping", "list"} => rcCli[c].watch
  /\ rcCli[c].pc \in {"fork", "attach", "resume"} => ~rcCli[c].watch
  /\ CliAt(c, "resume") => rcCli[c].run > 0
  /\ rcCli[c].watch => rcCli[c].run > 0
  /\ CliAt(c, "stopping") => OwnRunOver(c, rcCli[c].stop)
  /\ CliAt(c, "list") => rcCli[c].run \in rcHistory
  /\ rcCli[c].pc \in {"terminate", "done"} /\ rcCli[c].watch =>
       rcCli[c].run \in rcHistory /\ rcCli[c].told >= rcCli[c].run

RcInd == RcTypeOK /\ RunsKept /\ \A c \in RcClients : ChildHeld(c) /\ RunKnown(c)

-----------------------------------------------------------------------------

\* The first states: no run, no child.
LEMMA RcStart == RcInit => RcInd
  BY DEF RcInit, RcInd, RcTypeOK, RunsKept, ChildHeld, RunKnown, OwnRunOver, CliAt, NoRun,
         CliRec, RunRec, CliPcs, ChildStates, Gone, Alive

\* Every step of the server, the kernel and the clients keeps the invariant.
LEMMA RcStep == RcInd /\ [RcNext]_rcVars => RcInd'
<1> SUFFICES ASSUME RcInd, [RcNext]_rcVars PROVE RcInd'
  OBVIOUS
<1> USE DEF RcInd, RcTypeOK, RunsKept, CliRec, RunRec, CliPcs, ChildStates, Gone, Alive, CliAt, NoRun
<1>1. CASE PerfAttach
  <2>1. RcTypeOK' /\ RunsKept'
    BY <1>1 DEF PerfAttach
  <2>2. ASSUME NEW d \in RcClients PROVE ChildHeld(d)' /\ RunKnown(d)'
    BY <1>1, <2>2 DEF PerfAttach, ChildHeld, RunKnown, OwnRunOver
  <2> QED
    BY <2>1, <2>2
<1>2. CASE RunEnds
  <2>1. RcTypeOK' /\ RunsKept'
    <3>1. rcRun.id = rcIds /\ rcRun.id \in Nat \ {0}
      BY <1>2 DEF RunEnds
    <3>2. RcTypeOK'
      BY <1>2, <3>1 DEF RunEnds
    <3>3. RunsKept'
      BY <1>2, <3>1 DEF RunEnds
    <3> QED
      BY <3>2, <3>3
  <2>2. ASSUME NEW d \in RcClients PROVE ChildHeld(d)' /\ RunKnown(d)'
    BY <1>2, <2>2 DEF RunEnds, ChildHeld, RunKnown, OwnRunOver
  <2> QED
    BY <2>1, <2>2
<1>3. ASSUME NEW c \in RcClients, Fork(c) PROVE RcInd'
  <2>1. RcTypeOK' /\ RunsKept'
    BY <1>3 DEF Fork
  <2>2. ASSUME NEW d \in RcClients PROVE ChildHeld(d)' /\ RunKnown(d)'
    BY <1>3, <2>1, <2>2 DEF Fork, ChildHeld, RunKnown, OwnRunOver
  <2> QED
    BY <2>1, <2>2
<1>4. ASSUME NEW c \in RcClients, StartAttach(c) PROVE RcInd'
  <2>1. RcTypeOK' /\ RunsKept'
    <3>1. rcRun' # NoRun /\ rcRun'.id = rcIds + 1 /\ rcIds' = rcIds + 1
      BY <1>4 DEF StartAttach
    <3>2. RcTypeOK'
      <4>1. rcRun' \in RunRec
        <5>1. rcRun' = [id |-> rcIds + 1, of |-> c, attached |-> FALSE, stop |-> FALSE]
          BY <1>4 DEF StartAttach
        <5>2. rcIds + 1 \in Nat \ {0}
          OBVIOUS
        <5> QED
          BY <5>1, <5>2
      <4>2. rcCli' \in [RcClients -> CliRec]
        <5> DEFINE new == [rcCli[c] EXCEPT !.pc = "resume", !.run = rcIds + 1]
        <5>1. rcCli' = [rcCli EXCEPT ![c] = new]
          BY <1>4 DEF StartAttach
        <5>2. new \in CliRec
          <6>1. rcCli[c] \in CliRec /\ rcIds + 1 \in Nat
            OBVIOUS
          <6> QED
            BY ONLY <6>1 DEF CliRec, CliPcs
        <5> QED
          BY <5>1, <5>2
      <4>3. rcHistory' \subseteq 1 .. rcIds'
        BY <1>4 DEF StartAttach
      <4> QED
        BY <1>4, <4>1, <4>2, <4>3 DEF StartAttach
    <3>3. ASSUME NEW r \in 1 .. rcIds' PROVE r \in rcHistory' \/ rcRun'.id = r
      BY <1>4, <3>1, <3>3 DEF StartAttach
    <3> QED
      BY <3>1, <3>2, <3>3
  <2>2. ASSUME NEW d \in RcClients PROVE ChildHeld(d)' /\ RunKnown(d)'
    BY <1>4, <2>1, <2>2 DEF StartAttach, ChildHeld, RunKnown, OwnRunOver
  <2> QED
    BY <2>1, <2>2
<1>5. ASSUME NEW c \in RcClients, AttachRefused(c) PROVE RcInd'
  <2>1. RcTypeOK' /\ RunsKept'
    BY <1>5 DEF AttachRefused
  <2>2. ASSUME NEW d \in RcClients PROVE ChildHeld(d)' /\ RunKnown(d)'
    BY <1>5, <2>1, <2>2 DEF AttachRefused, ChildHeld, RunKnown, OwnRunOver
  <2> QED
    BY <2>1, <2>2
<1>6. ASSUME NEW c \in RcClients, Resume(c) PROVE RcInd'
  <2>1. RcTypeOK' /\ RunsKept'
    BY <1>6 DEF Resume
  <2>2. ASSUME NEW d \in RcClients PROVE ChildHeld(d)' /\ RunKnown(d)'
    BY <1>6, <2>1, <2>2 DEF Resume, ChildHeld, RunKnown, OwnRunOver
  <2> QED
    BY <2>1, <2>2
<1>7. ASSUME NEW c \in RcClients, Exec(c) PROVE RcInd'
  <2>1. RcTypeOK' /\ RunsKept'
    BY <1>7 DEF Exec
  <2>2. ASSUME NEW d \in RcClients PROVE ChildHeld(d)' /\ RunKnown(d)'
    BY <1>7, <2>1, <2>2 DEF Exec, ChildHeld, RunKnown, OwnRunOver, AttachedTo
  <2> QED
    BY <2>1, <2>2
<1>8. ASSUME NEW c \in RcClients, ChildExit(c) PROVE RcInd'
  <2>1. RcTypeOK' /\ RunsKept'
    BY <1>8 DEF ChildExit
  <2>2. ASSUME NEW d \in RcClients PROVE ChildHeld(d)' /\ RunKnown(d)'
    BY <1>8, <2>1, <2>2 DEF ChildExit, ChildHeld, RunKnown, OwnRunOver
  <2> QED
    BY <2>1, <2>2
<1>9. ASSUME NEW c \in RcClients, Recycle(c) PROVE RcInd'
  <2>1. RcTypeOK' /\ RunsKept'
    BY <1>9 DEF Recycle
  <2>2. ASSUME NEW d \in RcClients PROVE ChildHeld(d)' /\ RunKnown(d)'
    BY <1>9, <2>1, <2>2 DEF Recycle, ChildHeld, RunKnown, OwnRunOver
  <2> QED
    BY <2>1, <2>2
<1>10. ASSUME NEW c \in RcClients, WatcherReaps(c) PROVE RcInd'
  <2>1. RcTypeOK' /\ RunsKept'
    BY <1>10 DEF WatcherReaps
  <2>2. ASSUME NEW d \in RcClients PROVE ChildHeld(d)' /\ RunKnown(d)'
    BY <1>10, <2>1, <2>2 DEF WatcherReaps, ChildHeld, RunKnown, OwnRunOver
  <2> QED
    BY <2>1, <2>2
<1>11. ASSUME NEW c \in RcClients, WaitReturns(c) PROVE RcInd'
  <2>1. RcTypeOK' /\ RunsKept'
    BY <1>11 DEF WaitReturns
  <2>2. ASSUME NEW d \in RcClients PROVE ChildHeld(d)' /\ RunKnown(d)'
    BY <1>11, <2>1, <2>2 DEF WaitReturns, ChildHeld, RunKnown, OwnRunOver
  <2> QED
    BY <2>1, <2>2
<1>12. ASSUME NEW c \in RcClients, ChildGoneOrCtrlC(c) PROVE RcInd'
  <2>1. RcTypeOK' /\ RunsKept'
    BY <1>12 DEF ChildGoneOrCtrlC
  <2>2. ASSUME NEW d \in RcClients PROVE ChildHeld(d)' /\ RunKnown(d)'
    BY <1>12, <2>1, <2>2 DEF ChildGoneOrCtrlC, ChildHeld, RunKnown, OwnRunOver
  <2> QED
    BY <2>1, <2>2
<1>13. ASSUME NEW c \in RcClients, StopActive(c) PROVE RcInd'
  <2>1. RcTypeOK' /\ RunsKept'
    <3>1. CASE rcRun = NoRun
      BY <1>13, <3>1 DEF StopActive
    <3>2. CASE rcRun # NoRun
      <4>1. /\ rcRun' = [rcRun EXCEPT !.stop = TRUE]
            /\ rcRun \in RunRec
        BY <1>13, <3>2 DEF StopActive
      <4>2. /\ rcRun' \in RunRec
            /\ rcRun' # NoRun /\ rcRun'.id = rcRun.id
        BY <4>1
      <4>3. rcCli' \in [RcClients -> CliRec]
        BY <1>13, <3>2, <4>1 DEF StopActive
      <4> QED
        BY <1>13, <3>2, <4>2, <4>3 DEF StopActive
    <3> QED
      BY <3>1, <3>2
  <2>2. ASSUME NEW d \in RcClients PROVE ChildHeld(d)' /\ RunKnown(d)'
    BY <1>13, <2>1, <2>2 DEF StopActive, ChildHeld, RunKnown, OwnRunOver
  <2> QED
    BY <2>1, <2>2
<1>14. ASSUME NEW c \in RcClients, StopAnswered(c) PROVE RcInd'
  <2>1. RcTypeOK' /\ RunsKept'
    BY <1>14 DEF StopAnswered
  <2>2. ASSUME NEW d \in RcClients PROVE ChildHeld(d)' /\ RunKnown(d)'
    BY <1>14, <2>1, <2>2 DEF StopAnswered, ChildHeld, RunKnown, OwnRunOver
  <2> QED
    BY <2>1, <2>2
<1>15. ASSUME NEW c \in RcClients, ListRuns(c) PROVE RcInd'
  <2>1. RcTypeOK' /\ RunsKept'
    <3>1. rcCli' \in [RcClients -> CliRec]
      <4> DEFINE told == IF rcCli[c].run \in rcHistory THEN rcCli[c].run ELSE 0
      <4>1. told \in Nat
        OBVIOUS
      <4>2. rcCli' = [rcCli EXCEPT ![c].pc = "terminate", ![c].told = told]
        BY <1>15 DEF ListRuns
      <4> HIDE DEF told
      <4> QED
        BY <4>1, <4>2
    <3> QED
      BY <1>15, <3>1 DEF ListRuns
  <2>2. ASSUME NEW d \in RcClients PROVE ChildHeld(d)' /\ RunKnown(d)'
    BY <1>15, <2>1, <2>2 DEF ListRuns, ChildHeld, RunKnown, OwnRunOver
  <2> QED
    BY <2>1, <2>2
<1>16. ASSUME NEW c \in RcClients, Terminate(c) PROVE RcInd'
  <2>1. RcTypeOK' /\ RunsKept'
    BY <1>16 DEF Terminate
  <2>2. ASSUME NEW d \in RcClients PROVE ChildHeld(d)' /\ RunKnown(d)'
    BY <1>16, <2>1, <2>2 DEF Terminate, ChildHeld, RunKnown, OwnRunOver
  <2> QED
    BY <2>1, <2>2
<1>17. ASSUME NEW c \in RcClients, ClientDies(c) PROVE RcInd'
  <2>1. RcTypeOK' /\ RunsKept'
    BY <1>17 DEF ClientDies
  <2>2. ASSUME NEW d \in RcClients PROVE ChildHeld(d)' /\ RunKnown(d)'
    BY <1>17, <2>1, <2>2 DEF ClientDies, ChildHeld, RunKnown, OwnRunOver
  <2> QED
    BY <2>1, <2>2
<1>18. CASE UNCHANGED rcVars
  BY <1>18 DEF rcVars, ChildHeld, RunKnown, OwnRunOver
<1> QED
  BY <1>1, <1>2, <1>3, <1>4, <1>5, <1>6, <1>7, <1>8, <1>9, <1>10, <1>11, <1>12, <1>13, <1>14, <1>15, <1>16, <1>17, <1>18 DEF RcNext

\* `stax record` on Linux, for any number of concurrent clients: when it has
\* returned its child is gone, a run it got to wait for is over and reported,
\* and a target whose run was refused never ran (run_record_launch_linux,
\* stop_waited_run).
THEOREM LaunchSettledThm == RcSpec => []LaunchSettled
<1>1. RcInd => LaunchSettled
  BY DEF RcInd, RcTypeOK, ChildHeld, RunKnown, LaunchSettled, CliAt, Gone
<1> QED
  BY RcStart, RcStep, <1>1, PTL DEF RcSpec

-----------------------------------------------------------------------------
(* drive_session *)

Handing  == {"scan", "scan_full", "parse", "parse_full"}
Looping  == {"loop", "leave"} \cup Handing
Verdicts == {"ok", "failed", "timed_out"}
DrPcs    == Looping \cup {"await", "join", "grace"} \cup Verdicts
WkPcs    == {"top", "recv", "received", "disconnected", "process", "finish", "tick", "ended"}

StreamRec == [sent : Nat, chan : Seq(Nat), rx : BOOLEAN]
DrRec     == [pc : DrPcs, hand : Nat]
QueueRec  == [items : Seq(Nat), dropped : SUBSET Nat, closed : BOOLEAN]
WkRec     == [pc : WkPcs, hand : Nat, done : Seq(Nat), skipped : SUBSET Nat, finished : BOOLEAN]
ScRec     == [pc : {"recv", "ended"}, hand : {0}, done : Seq(Nat)]

ClTypeOK ==
  /\ rpc \in {"open", "ok", "err"}
  /\ stream \in StreamRec
  /\ dr \in DrRec
  /\ q \in [Queues -> QueueRec]
  /\ wk \in WkRec
  /\ sc \in ScRec
  /\ abort \in BOOLEAN

\* The channel holds the batches that follow the one received last.
ChannelInOrder ==
  /\ \A i \in DOMAIN stream.chan : stream.chan[i] = dr.hand + i
  /\ stream.rx => stream.sent = dr.hand + Len(stream.chan)
  /\ dr.pc \in Handing => dr.hand > 0

\* How many batches the receive loop has put into queue k.
Delivered(k) ==
  IF dr.pc \in {"scan", "scan_full", k, FullPc[k]} THEN dr.hand - 1 ELSE dr.hand

\* A consumer's batches: done, in hand, queued, dropped.
Kept(done, hand, queue) == ToSet(done) \cup ({hand} \ {0}) \cup ToSet(queue.items) \cup queue.dropped

AllDelivered ==
  /\ Kept(sc.done, sc.hand, q["scan"]) = 1 .. Delivered("scan")
  /\ Kept(wk.done, wk.hand, q["parse"]) \cup wk.skipped = 1 .. Delivered("parse")

Before(s, t) == \A i \in DOMAIN s, j \in DOMAIN t : s[i] < t[j]

\* What a consumer did comes before what it holds, and that before its queue.
InOrder(done, hand, items) ==
  /\ Increasing(done) /\ Increasing(items) /\ Before(done, items)
  /\ hand # 0 => /\ \A i \in DOMAIN done : done[i] < hand
                 /\ \A j \in DOMAIN items : hand < items[j]

BothInOrder ==
  /\ InOrder(sc.done, sc.hand, q["scan"].items)
  /\ InOrder(wk.done, wk.hand, q["parse"].items)

\* The queues are closed when the receive loop is left, and an empty closed
\* queue stays empty; only the abort gives up a batch, and it ends the worker.
ShutdownOrder ==
  /\ \A k \in Queues : q[k].closed <=> dr.pc \notin Looping
  /\ wk.hand # 0 <=> wk.pc \in {"received", "process"}
  /\ wk.finished => wk.pc = "ended"
  /\ wk.pc \in {"disconnected", "finish"} \/ wk.finished => q["parse"].items = <<>> /\ q["parse"].closed
  /\ wk.skipped # {} => wk.pc = "ended" /\ ~wk.finished /\ abort
  /\ \A g, h \in wk.skipped : g = h
  /\ dr.pc \in {"join", "grace"} \cup Verdicts => sc.pc = "ended"
  /\ dr.pc = "ok" => wk.pc = "ended"

ClInd == ClTypeOK /\ ChannelInOrder /\ AllDelivered /\ BothInOrder /\ ShutdownOrder

-----------------------------------------------------------------------------
(* Sequences of batches *)

\* What a send and a receive do to the set of queued batches.
LEMMA EmptyBatches == ToSet(<<>>) = {}
  BY DEF ToSet

LEMMA SentBatches ==
  ASSUME NEW s \in Seq(Nat), NEW e \in Nat
  PROVE  ToSet(Append(s, e)) = ToSet(s) \cup {e}
<1>1. /\ Append(s, e) \in Seq(Nat) /\ Len(Append(s, e)) = Len(s) + 1
      /\ \A i \in 1 .. Len(s) : Append(s, e)[i] = s[i]
      /\ Append(s, e)[Len(s) + 1] = e
  BY AppendProperties
<1>2. DOMAIN s = 1 .. Len(s) /\ DOMAIN Append(s, e) = 1 .. Len(s) + 1 /\ Len(s) \in Nat
  BY <1>1, LenProperties
<1>3. ASSUME NEW x \in ToSet(Append(s, e)) PROVE x \in ToSet(s) \cup {e}
  <2>1. PICK i \in 1 .. Len(s) + 1 : x = Append(s, e)[i]
    BY <1>2, <1>3 DEF ToSet
  <2> QED
    BY <1>1, <1>2, <2>1 DEF ToSet
<1>4. ASSUME NEW x \in ToSet(s) \cup {e} PROVE x \in ToSet(Append(s, e))
  BY <1>1, <1>2, <1>4 DEF ToSet
<1> QED
  BY <1>3, <1>4

LEMMA TakenBatches ==
  ASSUME NEW s \in Seq(Nat), s # <<>>
  PROVE  /\ Head(s) \in Nat /\ Tail(s) \in Seq(Nat)
         /\ ToSet(s) = {Head(s)} \cup ToSet(Tail(s))
<1>1. /\ Head(s) \in Nat /\ Tail(s) \in Seq(Nat) /\ Len(Tail(s)) = Len(s) - 1
      /\ \A i \in 1 .. Len(Tail(s)) : Tail(s)[i] = s[i + 1]
  BY HeadTailProperties
<1>2. /\ DOMAIN s = 1 .. Len(s) /\ DOMAIN Tail(s) = 1 .. Len(s) - 1
      /\ Len(s) \in Nat \ {0} /\ Head(s) = s[1]
  BY <1>1, LenProperties, EmptySeq
<1>3. ASSUME NEW x \in ToSet(s) PROVE x \in {Head(s)} \cup ToSet(Tail(s))
  <2>1. PICK i \in 1 .. Len(s) : x = s[i]
    BY <1>2, <1>3 DEF ToSet
  <2>2. CASE i = 1
    BY <1>2, <2>1, <2>2
  <2>3. CASE i > 1
    <3>1. i - 1 \in 1 .. Len(s) - 1 /\ Tail(s)[i - 1] = s[i]
      BY <1>1, <1>2, <2>1, <2>3
    <3> QED
      BY <1>2, <2>1, <3>1 DEF ToSet
  <2> QED
    BY <2>1, <2>2, <2>3
<1>4. ASSUME NEW x \in {Head(s)} \cup ToSet(Tail(s)) PROVE x \in ToSet(s)
  <2>1. CASE x = Head(s)
    BY <1>2, <2>1 DEF ToSet
  <2>2. CASE x \in ToSet(Tail(s))
    <3>1. PICK i \in 1 .. Len(s) - 1 : x = Tail(s)[i]
      BY <1>2, <2>2 DEF ToSet
    <3>2. i + 1 \in 1 .. Len(s) /\ x = s[i + 1]
      BY <1>1, <1>2, <3>1
    <3> QED
      BY <1>2, <3>2 DEF ToSet
  <2> QED
    BY <1>4, <2>1, <2>2
<1> QED
  BY <1>1, <1>3, <1>4

\* The same for their order: a batch later than all others may be appended.
LEMMA SentInOrder ==
  ASSUME NEW s \in Seq(Nat), NEW e \in Nat, Increasing(s), \A i \in DOMAIN s : s[i] < e
  PROVE  /\ Append(s, e) \in Seq(Nat)
         /\ Increasing(Append(s, e))
         /\ \A i \in DOMAIN Append(s, e) : Append(s, e)[i] = e \/ \E j \in DOMAIN s : Append(s, e)[i] = s[j]
<1>1. /\ Append(s, e) \in Seq(Nat) /\ Len(Append(s, e)) = Len(s) + 1
      /\ \A i \in 1 .. Len(s) : Append(s, e)[i] = s[i]
      /\ Append(s, e)[Len(s) + 1] = e
  BY AppendProperties
<1>2. DOMAIN s = 1 .. Len(s) /\ DOMAIN Append(s, e) = 1 .. Len(s) + 1 /\ Len(s) \in Nat
  BY <1>1, LenProperties
<1> QED
  BY <1>1, <1>2 DEF Increasing

LEMMA TakenInOrder ==
  ASSUME NEW s \in Seq(Nat), s # <<>>, Increasing(s)
  PROVE  /\ Increasing(Tail(s))
         /\ \A i \in DOMAIN Tail(s) : Head(s) < Tail(s)[i] /\ \E j \in DOMAIN s : Tail(s)[i] = s[j]
         /\ \E j \in DOMAIN s : Head(s) = s[j]
<1>1. /\ Tail(s) \in Seq(Nat) /\ Len(Tail(s)) = Len(s) - 1
      /\ \A i \in 1 .. Len(Tail(s)) : Tail(s)[i] = s[i + 1]
  BY HeadTailProperties
<1>2. /\ DOMAIN s = 1 .. Len(s) /\ DOMAIN Tail(s) = 1 .. Len(s) - 1
      /\ Len(s) \in Nat \ {0} /\ Head(s) = s[1]
  BY <1>1, LenProperties, EmptySeq
<1>3. ASSUME NEW i \in DOMAIN Tail(s)
      PROVE  i + 1 \in DOMAIN s /\ 1 \in DOMAIN s /\ Tail(s)[i] = s[i + 1] /\ 1 < i + 1
  BY <1>1, <1>2
<1>4. Increasing(Tail(s))
  BY <1>2, <1>3 DEF Increasing
<1>5. 1 \in DOMAIN s /\ Head(s) = s[1]
  BY <1>2
<1> QED
  BY <1>3, <1>4, <1>5 DEF Increasing

\* A part that is in order and comes before another makes one order with it.
LEMMA JoinedInOrder ==
  ASSUME NEW s \in Seq(Nat), NEW t \in Seq(Nat), Increasing(s), Increasing(t), Before(s, t)
  PROVE  Increasing(s \o t)
<1>1. /\ s \o t \in Seq(Nat) /\ Len(s \o t) = Len(s) + Len(t)
      /\ \A i \in 1 .. Len(s) + Len(t) : (s \o t)[i] = IF i <= Len(s) THEN s[i] ELSE t[i - Len(s)]
  BY ConcatProperties
<1>2. /\ DOMAIN s = 1 .. Len(s) /\ DOMAIN t = 1 .. Len(t) /\ DOMAIN (s \o t) = 1 .. Len(s) + Len(t)
      /\ Len(s) \in Nat /\ Len(t) \in Nat
  BY <1>1, LenProperties
<1>3. ASSUME NEW i \in DOMAIN (s \o t), NEW j \in DOMAIN (s \o t), i < j
      PROVE  (s \o t)[i] < (s \o t)[j]
  <2>1. CASE j <= Len(s)
    BY <1>1, <1>2, <1>3, <2>1 DEF Increasing
  <2>2. CASE i <= Len(s) /\ Len(s) < j
    <3>1. i \in DOMAIN s /\ j - Len(s) \in DOMAIN t
      BY <1>2, <1>3, <2>2
    <3> QED
      BY <1>1, <1>2, <2>2, <3>1 DEF Before
  <2>3. CASE Len(s) < i
    <3>1. i - Len(s) \in DOMAIN t /\ j - Len(s) \in DOMAIN t /\ i - Len(s) < j - Len(s)
      BY <1>2, <1>3, <2>3
    <3> QED
      BY <1>1, <1>2, <1>3, <2>3, <3>1 DEF Increasing
  <2> QED
    BY <1>2, <1>3, <2>1, <2>2, <2>3
<1> QED
  BY <1>3 DEF Increasing

\* A queue changes in its items and its count of drops only, one at a time.
LEMMA QueueChanged ==
  ASSUME ClTypeOK, NEW k \in Queues, NEW items \in Seq(Nat), NEW dropped \in SUBSET Nat,
         q' = [q EXCEPT ![k] = [@ EXCEPT !.items = items, !.dropped = dropped]]
  PROVE  /\ q' \in [Queues -> QueueRec]
         /\ q'[k].items = items /\ q'[k].dropped = dropped /\ q'[k].closed = q[k].closed
         /\ \A j \in Queues \ {k} : q'[j] = q[j]
<1> DEFINE new == [q[k] EXCEPT !.items = items, !.dropped = dropped]
<1>1. q \in [Queues -> QueueRec] /\ q[k] \in QueueRec
  BY DEF ClTypeOK
<1>2. new \in QueueRec /\ new.items = items /\ new.dropped = dropped /\ new.closed = q[k].closed
  BY ONLY <1>1, items \in Seq(Nat), dropped \in SUBSET Nat DEF QueueRec
<1>3. q' = [q EXCEPT ![k] = new]
  OBVIOUS
<1> HIDE DEF new
<1> QED
  BY <1>1, <1>2, <1>3

\* The order of a consumer over its five moves: a later batch is queued, the
\* oldest is evicted, taken, or done, and everything is given up.
LEMMA OrderQueued ==
  ASSUME NEW done \in Seq(Nat), NEW hand \in Nat, NEW items \in Seq(Nat), NEW e \in Nat,
         InOrder(done, hand, items),
         \A x \in ToSet(done) \cup ({hand} \ {0}) \cup ToSet(items) : x < e
  PROVE  InOrder(done, hand, Append(items, e))
<1>1. /\ \A i \in DOMAIN items : items[i] < e
      /\ \A i \in DOMAIN done : done[i] < e
      /\ hand # 0 => hand < e
  BY DEF ToSet
<1>2. /\ Increasing(Append(items, e))
      /\ \A i \in DOMAIN Append(items, e) :
           Append(items, e)[i] = e \/ \E j \in DOMAIN items : Append(items, e)[i] = items[j]
  BY <1>1, SentInOrder DEF InOrder
<1> QED
  BY <1>1, <1>2 DEF InOrder, Before

LEMMA OrderEvicted ==
  ASSUME NEW done \in Seq(Nat), NEW hand \in Nat, NEW items \in Seq(Nat), items # <<>>,
         InOrder(done, hand, items)
  PROVE  InOrder(done, hand, Tail(items))
<1>1. /\ Increasing(Tail(items))
      /\ \A i \in DOMAIN Tail(items) : \E j \in DOMAIN items : Tail(items)[i] = items[j]
  BY TakenInOrder DEF InOrder
<1> QED
  BY <1>1 DEF InOrder, Before

LEMMA OrderTaken ==
  ASSUME NEW done \in Seq(Nat), NEW items \in Seq(Nat), items # <<>>, InOrder(done, 0, items)
  PROVE  InOrder(done, Head(items), Tail(items))
<1>1. /\ \A i \in DOMAIN Tail(items) : Head(items) < Tail(items)[i]
      /\ \E j \in DOMAIN items : Head(items) = items[j]
  BY TakenInOrder DEF InOrder
<1>2. InOrder(done, 0, Tail(items))
  BY OrderEvicted
<1> QED
  BY <1>1, <1>2 DEF InOrder, Before

LEMMA OrderDone ==
  ASSUME NEW done \in Seq(Nat), NEW hand \in Nat \ {0}, NEW items \in Seq(Nat),
         InOrder(done, hand, items)
  PROVE  InOrder(Append(done, hand), 0, items)
<1>1. /\ Increasing(Append(done, hand))
      /\ \A i \in DOMAIN Append(done, hand) :
           Append(done, hand)[i] = hand \/ \E j \in DOMAIN done : Append(done, hand)[i] = done[j]
  BY SentInOrder DEF InOrder
<1> QED
  BY <1>1 DEF InOrder, Before

LEMMA OrderGivenUp ==
  ASSUME NEW done, NEW hand, NEW items, InOrder(done, hand, items)
  PROVE  InOrder(done, 0, <<>>)
<1>1. DOMAIN <<>> = {}
  OBVIOUS
<1> QED
  BY <1>1 DEF InOrder, Before, Increasing

-----------------------------------------------------------------------------
(* The invariant *)

\* Nothing is received, queued or done.
LEMMA ClStart == ClInit => ClInd
<1> SUFFICES ASSUME ClInit PROVE ClInd
  OBVIOUS
<1>1. <<>> \in Seq(Nat) /\ DOMAIN <<>> = {} /\ Len(<<>>) = 0
  BY EmptySeq
<1>2. ClTypeOK
  BY <1>1 DEF ClInit, ClTypeOK, StreamRec, DrRec, QueueRec, WkRec, ScRec, DrPcs, WkPcs, Looping, Queues
<1>3. ChannelInOrder
  BY <1>1 DEF ClInit, ChannelInOrder, Handing
<1>4. AllDelivered
  BY EmptyBatches DEF ClInit, AllDelivered, Kept, Delivered, Queues, FullPc
<1>5. BothInOrder
  BY <1>1 DEF ClInit, BothInOrder, InOrder, Increasing, Before, Queues
<1>6. ShutdownOrder
  BY DEF ClInit, ShutdownOrder, Looping, Verdicts, Queues
<1> QED
  BY <1>2, <1>3, <1>4, <1>5, <1>6 DEF ClInd

\* The daemon numbers its batches in order.
LEMMA DaemonSendsKeeps ==
  ASSUME ClInd, DaemonSends
  PROVE  ClInd'
<1> USE DEF ClInd, DaemonSends
<1>1. ClTypeOK'
  <2>1. stream' \in StreamRec
    <3>1. stream \in StreamRec /\ stream.sent + 1 \in Nat
      BY DEF ClTypeOK, StreamRec
    <3>2. Append(stream.chan, stream.sent + 1) \in Seq(Nat)
      BY <3>1, AppendProperties DEF StreamRec
    <3> QED
      BY <3>1, <3>2 DEF StreamRec
  <2> QED
    BY <2>1 DEF ClTypeOK
<1>2. ChannelInOrder'
  BY DEF ChannelInOrder, ClTypeOK, DrRec, Handing
<1>3. AllDelivered'
  BY DEF AllDelivered, Kept, Delivered, FullPc, ClTypeOK, DrRec, QueueRec, WkRec, ScRec, Queues
<1>4. BothInOrder'
  BY DEF BothInOrder, ClTypeOK, QueueRec, WkRec, ScRec, Queues
<1>5. ShutdownOrder'
  BY DEF ShutdownOrder, ClTypeOK, DrRec, WkRec, ScRec, QueueRec, DrPcs, WkPcs, Looping, Handing, Verdicts, Queues
<1> QED
  BY <1>1, <1>2, <1>3, <1>4, <1>5

\* The record call ends.
LEMMA DaemonEndsKeeps ==
  ASSUME ClInd, DaemonEnds
  PROVE  ClInd'
<1> USE DEF ClInd, DaemonEnds
<1>1. ClTypeOK'
  BY DEF ClTypeOK, StreamRec, DrRec, QueueRec, WkRec, ScRec, DrPcs, WkPcs, Looping, Handing, Verdicts, Queues
<1>2. ChannelInOrder'
  BY DEF ChannelInOrder, ClTypeOK, DrRec, Handing
<1>3. AllDelivered'
  BY DEF AllDelivered, Kept, Delivered, FullPc, ClTypeOK, DrRec, QueueRec, WkRec, ScRec, Queues
<1>4. BothInOrder'
  BY DEF BothInOrder, ClTypeOK, QueueRec, WkRec, ScRec, Queues
<1>5. ShutdownOrder'
  BY DEF ShutdownOrder, ClTypeOK, DrRec, WkRec, ScRec, QueueRec, DrPcs, WkPcs, Looping, Handing, Verdicts, Queues
<1> QED
  BY <1>1, <1>2, <1>3, <1>4, <1>5

\* The loop is left with batches still in the channel.
LEMMA StopRequestedKeeps ==
  ASSUME ClInd, StopRequested
  PROVE  ClInd'
<1> USE DEF ClInd, StopRequested
<1>1. ClTypeOK'
  BY DEF ClTypeOK, StreamRec, DrRec, QueueRec, WkRec, ScRec, DrPcs, WkPcs, Looping, Handing, Verdicts, Queues
<1>2. ChannelInOrder'
  BY DEF ChannelInOrder, ClTypeOK, DrRec, Handing
<1>3. AllDelivered'
  BY DEF AllDelivered, Kept, Delivered, FullPc, ClTypeOK, DrRec, QueueRec, WkRec, ScRec, Queues
<1>4. BothInOrder'
  BY DEF BothInOrder, ClTypeOK, QueueRec, WkRec, ScRec, Queues
<1>5. ShutdownOrder'
  BY DEF ShutdownOrder, ClTypeOK, DrRec, WkRec, ScRec, QueueRec, DrPcs, WkPcs, Looping, Handing, Verdicts, Queues
<1> QED
  BY <1>1, <1>2, <1>3, <1>4, <1>5

\* The next batch is the one after the last.
LEMMA RecvBatchKeeps ==
  ASSUME ClInd, RecvBatch
  PROVE  ClInd'
<1> USE DEF ClInd, RecvBatch
<1>1. ClTypeOK'
  <2>1. stream \in StreamRec /\ Head(stream.chan) \in Nat /\ Tail(stream.chan) \in Seq(Nat)
    BY HeadTailProperties DEF ClTypeOK, StreamRec
  <2>2. stream' \in StreamRec
    BY <2>1 DEF StreamRec
  <2>3. dr' \in DrRec
    BY <2>1 DEF DrRec, DrPcs, Looping, Handing
  <2> QED
    BY <2>2, <2>3 DEF ClTypeOK
<1>2. ChannelInOrder'
  <2>1. /\ stream.chan \in Seq(Nat) /\ dr.hand \in Nat
        /\ stream'.chan = Tail(stream.chan) /\ stream'.sent = stream.sent /\ stream'.rx = stream.rx
        /\ dr'.hand = Head(stream.chan) /\ dr'.pc = "scan"
    BY DEF ClTypeOK, StreamRec, DrRec
  <2>2. /\ Len(Tail(stream.chan)) = Len(stream.chan) - 1 /\ Len(stream.chan) \in Nat \ {0}
        /\ \A i \in 1 .. Len(Tail(stream.chan)) : Tail(stream.chan)[i] = stream.chan[i + 1]
        /\ DOMAIN stream.chan = 1 .. Len(stream.chan)
        /\ DOMAIN Tail(stream.chan) = 1 .. Len(Tail(stream.chan))
        /\ Head(stream.chan) = stream.chan[1]
    BY <2>1, HeadTailProperties, LenProperties, EmptySeq
  <2>3. dr'.hand = dr.hand + 1
    BY <2>1, <2>2 DEF ChannelInOrder
  <2>4. \A i \in DOMAIN stream'.chan : stream'.chan[i] = dr'.hand + i
    <3> SUFFICES ASSUME NEW i \in DOMAIN stream'.chan PROVE stream'.chan[i] = dr'.hand + i
      OBVIOUS
    <3>1. i \in 1 .. Len(stream.chan) - 1 /\ stream'.chan[i] = stream.chan[i + 1]
      BY ONLY <2>1, <2>2, i \in DOMAIN stream'.chan
    <3>2. i + 1 \in DOMAIN stream.chan
      BY ONLY <2>2, <3>1
    <3>3. stream.chan[i + 1] = dr.hand + (i + 1)
      BY <3>2 DEF ChannelInOrder
    <3>4. i \in Nat /\ dr.hand \in Nat
      BY ONLY <2>1, <2>2, <3>1
    <3>5. dr.hand + (i + 1) = dr'.hand + i
      BY ONLY <2>3, <3>4
    <3> QED
      BY ONLY <3>1, <3>3, <3>5
  <2>5. stream.rx => stream.sent = dr'.hand + Len(stream'.chan)
    <3>1. stream.rx => stream.sent = dr.hand + Len(stream.chan)
      BY DEF ChannelInOrder
    <3>2. dr.hand \in Nat /\ Len(stream.chan) \in Nat /\ Len(stream'.chan) = Len(stream.chan) - 1
      BY ONLY <2>1, <2>2
    <3>3. dr'.hand + Len(stream'.chan) = dr.hand + Len(stream.chan)
      BY ONLY <2>3, <3>2
    <3> QED
      BY <3>1, <3>3
  <2> QED
    BY <2>1, <2>3, <2>4, <2>5 DEF ChannelInOrder
<1>3. AllDelivered'
  <2>1. Head(stream.chan) = stream.chan[1] /\ 1 \in DOMAIN stream.chan
    BY LenProperties, EmptySeq DEF ClTypeOK, StreamRec
  <2>2. dr'.hand = dr.hand + 1 /\ dr'.pc = "scan" /\ dr.hand \in Nat
    BY <2>1 DEF ChannelInOrder, ClTypeOK, DrRec
  <2>3. Delivered("scan")' = Delivered("scan") /\ Delivered("parse")' = Delivered("parse")
    BY <2>2 DEF Delivered, FullPc
  <2> QED
    BY <2>3 DEF AllDelivered
<1>4. BothInOrder'
  BY DEF BothInOrder, ClTypeOK, QueueRec, WkRec, ScRec, Queues
<1>5. ShutdownOrder'
  BY DEF ShutdownOrder, ClTypeOK, DrRec, WkRec, ScRec, QueueRec, DrPcs, WkPcs, Looping, Handing, Verdicts, Queues
<1> QED
  BY <1>1, <1>2, <1>3, <1>4, <1>5

\* The channel is closed and empty.
LEMMA RecvClosedKeeps ==
  ASSUME ClInd, RecvClosed
  PROVE  ClInd'
<1> USE DEF ClInd, RecvClosed
<1>1. ClTypeOK'
  BY DEF ClTypeOK, StreamRec, DrRec, QueueRec, WkRec, ScRec, DrPcs, WkPcs, Looping, Handing, Verdicts, Queues
<1>2. ChannelInOrder'
  BY DEF ChannelInOrder, ClTypeOK, DrRec, Handing
<1>3. AllDelivered'
  BY DEF AllDelivered, Kept, Delivered, FullPc, ClTypeOK, DrRec, QueueRec, WkRec, ScRec, Queues
<1>4. BothInOrder'
  BY DEF BothInOrder, ClTypeOK, QueueRec, WkRec, ScRec, Queues
<1>5. ShutdownOrder'
  BY DEF ShutdownOrder, ClTypeOK, DrRec, WkRec, ScRec, QueueRec, DrPcs, WkPcs, Looping, Handing, Verdicts, Queues
<1> QED
  BY <1>1, <1>2, <1>3, <1>4, <1>5

\* A delivered batch is the newest of its queue.
LEMMA TryEnqueueKeeps ==
  ASSUME ClInd, NEW k \in Queues, TryEnqueue(k)
  PROVE  ClInd'
<1> USE DEF ClInd
<1>1. /\ dr.pc \in Handing /\ dr.pc = k /\ dr.hand \in Nat /\ dr.hand > 0 /\ dr \in DrRec
      /\ k \in {"scan", "parse"}
  BY DEF TryEnqueue, ClTypeOK, DrRec, ChannelInOrder, Handing, Queues
<1>2. CASE UNCHANGED q /\ dr' = [dr EXCEPT !.pc = FullPc[k]]
  <2>1. dr' \in DrRec /\ dr'.pc = FullPc[k] /\ dr'.pc \in Handing /\ dr'.hand = dr.hand
    BY <1>1, <1>2 DEF DrRec, DrPcs, Looping, Handing, FullPc
  <2>2. Delivered("scan")' = Delivered("scan") /\ Delivered("parse")' = Delivered("parse")
    BY <1>1, <2>1 DEF Delivered, FullPc
  <2>3. ClTypeOK' /\ ChannelInOrder'
    BY <1>1, <1>2, <2>1 DEF TryEnqueue, ClTypeOK, ChannelInOrder
  <2>4. AllDelivered' /\ BothInOrder'
    BY <1>2, <2>2 DEF TryEnqueue, AllDelivered, BothInOrder
  <2>5. ShutdownOrder'
    BY <1>1, <1>2, <2>1 DEF TryEnqueue, ShutdownOrder, Looping, Handing, Verdicts
  <2> QED
    BY <2>3, <2>4, <2>5
<1>3. CASE q' = [q EXCEPT ![k].items = Append(@, dr.hand)] /\ dr' = [dr EXCEPT !.pc = AfterQueue[k]]
  <2>1. /\ dr' \in DrRec /\ dr'.pc = AfterQueue[k] /\ dr'.hand = dr.hand
        /\ dr'.pc \in Looping /\ dr'.pc \in Handing \cup {"loop"}
    BY <1>1, <1>3 DEF DrRec, DrPcs, Looping, Handing, AfterQueue
  <2>2. /\ q[k].items \in Seq(Nat) /\ q[k].dropped \in SUBSET Nat /\ q[k] \in QueueRec
        /\ Append(q[k].items, dr.hand) \in Seq(Nat)
    BY <1>1, AppendProperties DEF ClTypeOK, QueueRec
  <2>3. q' = [q EXCEPT ![k] = [@ EXCEPT !.items = Append(q[k].items, dr.hand), !.dropped = q[k].dropped]]
    BY <1>3, <2>2 DEF QueueRec
  <2>4. /\ q' \in [Queues -> QueueRec] /\ q'[k].items = Append(q[k].items, dr.hand)
        /\ q'[k].dropped = q[k].dropped /\ q'[k].closed = q[k].closed
        /\ \A j \in Queues \ {k} : q'[j] = q[j]
    BY <2>2, <2>3, QueueChanged
  <2>5. ToSet(q'[k].items) = ToSet(q[k].items) \cup {dr.hand}
    BY <1>1, <2>2, <2>4, SentBatches
  <2>6. ClTypeOK' /\ ChannelInOrder'
    BY <1>1, <2>1, <2>4 DEF TryEnqueue, ClTypeOK, ChannelInOrder
  <2>7. ASSUME k = "scan" PROVE AllDelivered' /\ BothInOrder'
    <3>1. /\ Delivered("scan") = dr.hand - 1 /\ Delivered("scan")' = dr.hand
          /\ Delivered("parse")' = Delivered("parse")
      BY <1>1, <2>1, <2>7 DEF Delivered, FullPc, AfterQueue
    <3>2. AllDelivered'
      <4>1. Kept(sc.done, sc.hand, q'["scan"]) = Kept(sc.done, sc.hand, q["scan"]) \cup {dr.hand}
        BY <2>4, <2>5, <2>7 DEF Kept
      <4>2. 1 .. dr.hand = (1 .. dr.hand - 1) \cup {dr.hand}
        BY <1>1
      <4>3. Kept(sc.done, sc.hand, q'["scan"]) = 1 .. Delivered("scan")'
        BY <3>1, <4>1, <4>2 DEF AllDelivered
      <4>4. q'["parse"] = q["parse"] /\ UNCHANGED <<sc, wk>>
        BY <2>4, <2>7 DEF TryEnqueue, Queues
      <4> QED
        BY <3>1, <4>3, <4>4 DEF AllDelivered
    <3>3. \A x \in ToSet(sc.done) \cup ({sc.hand} \ {0}) \cup ToSet(q["scan"].items) : x < dr.hand
      BY <1>1, <3>1 DEF AllDelivered, Kept
    <3>4. InOrder(sc.done, sc.hand, q'["scan"].items)
      <4>1. /\ sc.done \in Seq(Nat) /\ sc.hand \in Nat /\ q["scan"].items \in Seq(Nat)
            /\ InOrder(sc.done, sc.hand, q["scan"].items)
        BY <2>2, <2>7 DEF BothInOrder, ClTypeOK, ScRec
      <4>2. InOrder(sc.done, sc.hand, Append(q["scan"].items, dr.hand))
        BY ONLY <1>1, <3>3, <4>1, OrderQueued
      <4> QED
        BY <2>4, <2>7, <4>2
    <3>5. BothInOrder'
      BY <2>4, <2>7, <3>4 DEF TryEnqueue, BothInOrder, Queues
    <3> QED
      BY <3>2, <3>5
  <2>8. ASSUME k = "parse" PROVE AllDelivered' /\ BothInOrder'
    <3>1. /\ Delivered("parse") = dr.hand - 1 /\ Delivered("parse")' = dr.hand
          /\ Delivered("scan")' = Delivered("scan")
      BY <1>1, <2>1, <2>8 DEF Delivered, FullPc, AfterQueue
    <3>2. AllDelivered'
      <4>1. Kept(wk.done, wk.hand, q'["parse"]) = Kept(wk.done, wk.hand, q["parse"]) \cup {dr.hand}
        BY <2>4, <2>5, <2>8 DEF Kept
      <4>2. 1 .. dr.hand = (1 .. dr.hand - 1) \cup {dr.hand}
        BY <1>1
      <4>3. Kept(wk.done, wk.hand, q'["parse"]) \cup wk.skipped = 1 .. Delivered("parse")'
        BY <3>1, <4>1, <4>2 DEF AllDelivered
      <4>4. q'["scan"] = q["scan"] /\ UNCHANGED <<sc, wk>>
        BY <2>4, <2>8 DEF TryEnqueue, Queues
      <4> QED
        BY <3>1, <4>3, <4>4 DEF AllDelivered
    <3>3. \A x \in ToSet(wk.done) \cup ({wk.hand} \ {0}) \cup ToSet(q["parse"].items) : x < dr.hand
      BY <1>1, <3>1 DEF AllDelivered, Kept
    <3>4. InOrder(wk.done, wk.hand, q'["parse"].items)
      <4>1. /\ wk.done \in Seq(Nat) /\ wk.hand \in Nat /\ q["parse"].items \in Seq(Nat)
            /\ InOrder(wk.done, wk.hand, q["parse"].items)
        BY <2>2, <2>8 DEF BothInOrder, ClTypeOK, WkRec
      <4>2. InOrder(wk.done, wk.hand, Append(q["parse"].items, dr.hand))
        BY ONLY <1>1, <3>3, <4>1, OrderQueued
      <4> QED
        BY <2>4, <2>8, <4>2
    <3>5. BothInOrder'
      BY <2>4, <2>8, <3>4 DEF TryEnqueue, BothInOrder, Queues
    <3> QED
      BY <3>2, <3>5
  <2>9. ShutdownOrder'
    <3>1. ~q["parse"].closed /\ q'["parse"].closed = q["parse"].closed
      BY <1>1, <2>4 DEF ShutdownOrder, Looping, Queues
    <3>2. \A j \in Queues : q'[j].closed = q[j].closed
      BY <2>4
    <3> QED
      BY <1>1, <2>1, <3>1, <3>2 DEF TryEnqueue, ShutdownOrder, Looping, Handing, Verdicts, Queues
  <2> QED
    BY <1>1, <2>6, <2>7, <2>8, <2>9
<1> QED
  BY <1>2, <1>3 DEF TryEnqueue

\* An evicted batch is counted as dropped.
LEMMA EvictOldestKeeps ==
  ASSUME ClInd, NEW k \in Queues, EvictOldest(k)
  PROVE  ClInd'
<1> USE DEF ClInd
<1>1. /\ dr.pc = FullPc[k] /\ dr.pc \in Handing /\ dr.hand \in Nat /\ dr.hand > 0 /\ dr \in DrRec
      /\ k \in {"scan", "parse"}
  BY DEF EvictOldest, ClTypeOK, DrRec, ChannelInOrder, Handing, Queues, FullPc
<1>2. dr' \in DrRec /\ dr'.pc = k /\ dr'.pc \in Handing /\ dr'.hand = dr.hand
  BY <1>1 DEF EvictOldest, DrRec, DrPcs, Looping, Handing
<1>3. Delivered("scan")' = Delivered("scan") /\ Delivered("parse")' = Delivered("parse")
  BY <1>1, <1>2 DEF Delivered, FullPc
<1>4. CASE UNCHANGED q
  <2>1. ClTypeOK' /\ ChannelInOrder'
    BY <1>1, <1>2, <1>4 DEF EvictOldest, ClTypeOK, ChannelInOrder
  <2>2. AllDelivered' /\ BothInOrder'
    BY <1>3, <1>4 DEF EvictOldest, AllDelivered, BothInOrder
  <2>3. ShutdownOrder'
    BY <1>1, <1>2, <1>4 DEF EvictOldest, ShutdownOrder, Looping, Handing, Verdicts
  <2> QED
    BY <2>1, <2>2, <2>3
<1>5. CASE /\ q[k].items # <<>>
           /\ q' = [q EXCEPT ![k].items = Tail(@), ![k].dropped = @ \cup {Head(q[k].items)}]
  <2>1. q[k].items \in Seq(Nat) /\ q[k].dropped \in SUBSET Nat /\ q[k] \in QueueRec /\ ClTypeOK
    BY DEF ClTypeOK, QueueRec
  <2>2. /\ Head(q[k].items) \in Nat /\ Tail(q[k].items) \in Seq(Nat)
        /\ ToSet(q[k].items) = {Head(q[k].items)} \cup ToSet(Tail(q[k].items))
    BY <1>5, <2>1, TakenBatches
  <2>3. q' = [q EXCEPT ![k] = [@ EXCEPT !.items = Tail(q[k].items),
                                        !.dropped = q[k].dropped \cup {Head(q[k].items)}]]
    BY <1>5, <2>1 DEF ClTypeOK, QueueRec
  <2>4. /\ q' \in [Queues -> QueueRec] /\ q'[k].items = Tail(q[k].items)
        /\ q'[k].dropped = q[k].dropped \cup {Head(q[k].items)} /\ q'[k].closed = q[k].closed
        /\ \A j \in Queues \ {k} : q'[j] = q[j]
    <3>1. q[k].dropped \cup {Head(q[k].items)} \in SUBSET Nat
      BY <2>1, <2>2
    <3> QED
      BY ONLY k \in Queues, <2>1, <2>2, <2>3, <3>1, QueueChanged
  <2>5. ClTypeOK' /\ ChannelInOrder'
    BY <1>1, <1>2, <2>4 DEF EvictOldest, ClTypeOK, ChannelInOrder
  <2>6. AllDelivered'
    <3>1. ASSUME NEW done, NEW hand PROVE Kept(done, hand, q'[k]) = Kept(done, hand, q[k])
      BY <2>2, <2>4 DEF Kept
    <3> QED
      BY <1>1, <1>3, <2>4, <3>1 DEF EvictOldest, AllDelivered, Queues
  <2>7. BothInOrder'
    <3>1. ASSUME NEW done \in Seq(Nat), NEW hand \in Nat, InOrder(done, hand, q[k].items)
          PROVE  InOrder(done, hand, q'[k].items)
      BY <1>5, <2>1, <2>4, <3>1, OrderEvicted
    <3> QED
      BY <1>1, <2>4, <3>1 DEF EvictOldest, BothInOrder, Queues, ClTypeOK, ScRec, WkRec
  <2>8. ShutdownOrder'
    <3>1. \A j \in Queues : q'[j].closed = q[j].closed
      BY <2>4
    <3>2. ~q["parse"].closed /\ "parse" \in Queues
      BY <1>1 DEF ShutdownOrder, Looping, Queues
    <3> QED
      BY <1>1, <1>2, <3>1, <3>2 DEF EvictOldest, ShutdownOrder, Looping, Handing, Verdicts
  <2> QED
    BY <2>5, <2>6, <2>7, <2>8
<1> QED
  BY <1>4, <1>5 DEF EvictOldest

\* Both queues are closed, nothing is half handed over.
LEMMA LeaveLoopKeeps ==
  ASSUME ClInd, LeaveLoop
  PROVE  ClInd'
<1> USE DEF ClInd, LeaveLoop
<1>1. ClTypeOK'
  <2>1. stream' \in StreamRec
    BY EmptySeq DEF ClTypeOK, StreamRec
  <2>2. dr' \in DrRec
    BY DEF ClTypeOK, DrRec, DrPcs
  <2>3. ASSUME NEW k \in Queues PROVE [q[k] EXCEPT !.closed = TRUE] \in QueueRec
    BY <2>3 DEF ClTypeOK, QueueRec
  <2> QED
    BY <2>1, <2>2, <2>3 DEF ClTypeOK
<1>2. ChannelInOrder'
  BY DEF ChannelInOrder, ClTypeOK, DrRec, Handing
<1>3. AllDelivered'
  BY DEF AllDelivered, Kept, Delivered, FullPc, ClTypeOK, DrRec, QueueRec, WkRec, ScRec, Queues
<1>4. BothInOrder'
  BY DEF BothInOrder, ClTypeOK, QueueRec, WkRec, ScRec, Queues
<1>5. ShutdownOrder'
  BY DEF ShutdownOrder, ClTypeOK, DrRec, WkRec, ScRec, QueueRec, DrPcs, WkPcs, Looping, Handing, Verdicts, Queues
<1> QED
  BY <1>1, <1>2, <1>3, <1>4, <1>5

\* The scanner has ended.
LEMMA RpcReturnedKeeps ==
  ASSUME ClInd, RpcReturned
  PROVE  ClInd'
<1> USE DEF ClInd, RpcReturned
<1>1. ClTypeOK'
  BY DEF ClTypeOK, StreamRec, DrRec, QueueRec, WkRec, ScRec, DrPcs, WkPcs, Looping, Handing, Verdicts, Queues
<1>2. ChannelInOrder'
  BY DEF ChannelInOrder, ClTypeOK, DrRec, Handing
<1>3. AllDelivered'
  BY DEF AllDelivered, Kept, Delivered, FullPc, ClTypeOK, DrRec, QueueRec, WkRec, ScRec, Queues
<1>4. BothInOrder'
  BY DEF BothInOrder, ClTypeOK, QueueRec, WkRec, ScRec, Queues
<1>5. ShutdownOrder'
  BY DEF ShutdownOrder, ClTypeOK, DrRec, WkRec, ScRec, QueueRec, DrPcs, WkPcs, Looping, Handing, Verdicts, Queues
<1> QED
  BY <1>1, <1>2, <1>3, <1>4, <1>5

\* The worker has ended.
LEMMA JoinedKeeps ==
  ASSUME ClInd, Joined
  PROVE  ClInd'
<1> USE DEF ClInd, Joined, Verdict
<1>1. ClTypeOK'
  BY DEF ClTypeOK, StreamRec, DrRec, QueueRec, WkRec, ScRec, DrPcs, WkPcs, Looping, Handing, Verdicts, Queues
<1>2. ChannelInOrder'
  BY DEF ChannelInOrder, ClTypeOK, DrRec, Handing
<1>3. AllDelivered'
  BY DEF AllDelivered, Kept, Delivered, FullPc, ClTypeOK, DrRec, QueueRec, WkRec, ScRec, Queues
<1>4. BothInOrder'
  BY DEF BothInOrder, ClTypeOK, QueueRec, WkRec, ScRec, Queues
<1>5. ShutdownOrder'
  BY DEF ShutdownOrder, ClTypeOK, DrRec, WkRec, ScRec, QueueRec, DrPcs, WkPcs, Looping, Handing, Verdicts, Queues
<1> QED
  BY <1>1, <1>2, <1>3, <1>4, <1>5

\* The worker is late.
LEMMA BudgetOverKeeps ==
  ASSUME ClInd, BudgetOver
  PROVE  ClInd'
<1> USE DEF ClInd, BudgetOver
<1>1. ClTypeOK'
  BY DEF ClTypeOK, StreamRec, DrRec, QueueRec, WkRec, ScRec, DrPcs, WkPcs, Looping, Handing, Verdicts, Queues
<1>2. ChannelInOrder'
  BY DEF ChannelInOrder, ClTypeOK, DrRec, Handing
<1>3. AllDelivered'
  BY DEF AllDelivered, Kept, Delivered, FullPc, ClTypeOK, DrRec, QueueRec, WkRec, ScRec, Queues
<1>4. BothInOrder'
  BY DEF BothInOrder, ClTypeOK, QueueRec, WkRec, ScRec, Queues
<1>5. ShutdownOrder'
  BY DEF ShutdownOrder, ClTypeOK, DrRec, WkRec, ScRec, QueueRec, DrPcs, WkPcs, Looping, Handing, Verdicts, Queues
<1> QED
  BY <1>1, <1>2, <1>3, <1>4, <1>5

\* The worker is detached: never with the verdict ok.
LEMMA GraceOverKeeps ==
  ASSUME ClInd, GraceOver
  PROVE  ClInd'
<1> USE DEF ClInd, GraceOver, Verdict
<1>1. ClTypeOK'
  BY DEF ClTypeOK, StreamRec, DrRec, QueueRec, WkRec, ScRec, DrPcs, WkPcs, Looping, Handing, Verdicts, Queues
<1>2. ChannelInOrder'
  BY DEF ChannelInOrder, ClTypeOK, DrRec, Handing
<1>3. AllDelivered'
  BY DEF AllDelivered, Kept, Delivered, FullPc, ClTypeOK, DrRec, QueueRec, WkRec, ScRec, Queues
<1>4. BothInOrder'
  BY DEF BothInOrder, ClTypeOK, QueueRec, WkRec, ScRec, Queues
<1>5. ShutdownOrder'
  BY DEF ShutdownOrder, ClTypeOK, DrRec, WkRec, ScRec, QueueRec, DrPcs, WkPcs, Looping, Handing, Verdicts, Queues
<1> QED
  BY <1>1, <1>2, <1>3, <1>4, <1>5

\* The backlog is dropped and counted, but for the batch in hand.
LEMMA AbortCheckKeeps ==
  ASSUME ClInd, AbortCheck
  PROVE  ClInd'
<1> USE DEF ClInd
<1>1. wk \in WkRec /\ wk.pc \in {"top", "received", "disconnected"} /\ wk.skipped = {} /\ ~wk.finished
  BY DEF AbortCheck, ClTypeOK, ShutdownOrder
<1>2. CASE ~abort
  <2>1. /\ wk' \in WkRec /\ wk'.hand = wk.hand /\ wk'.done = wk.done /\ wk'.skipped = wk.skipped
        /\ wk'.finished = wk.finished /\ UNCHANGED q
        /\ \/ wk.pc = "top" /\ wk'.pc = "recv"
           \/ wk.pc = "received" /\ wk'.pc = "process"
           \/ wk.pc = "disconnected" /\ wk'.pc = "finish"
    BY <1>1, <1>2 DEF AbortCheck, WkRec, WkPcs
  <2>2. ClTypeOK' /\ ChannelInOrder' /\ AllDelivered' /\ BothInOrder'
    BY <2>1 DEF AbortCheck, ClTypeOK, ChannelInOrder, AllDelivered, Delivered, BothInOrder
  <2>3. ShutdownOrder'
    BY <1>1, <2>1 DEF AbortCheck, ShutdownOrder
  <2> QED
    BY <2>2, <2>3
<1>3. CASE abort
  <2> DEFINE backlog == q["parse"].items
  <2>1. backlog \in Seq(Nat) /\ q["parse"].dropped \in SUBSET Nat /\ q["parse"] \in QueueRec
    BY DEF ClTypeOK, QueueRec, Queues
  <2>2. ToSet(backlog) \in SUBSET Nat /\ <<>> \in Seq(Nat)
    BY <2>1, LenProperties, ElementOfSeq, EmptySeq DEF ToSet
  <2>3. q' = [q EXCEPT !["parse"] = [@ EXCEPT !.items = <<>>,
                                              !.dropped = q["parse"].dropped \cup ToSet(backlog)]]
    BY <1>3, <2>1 DEF AbortCheck, DropBacklog, ClTypeOK, QueueRec, Queues
  <2>4. /\ q' \in [Queues -> QueueRec] /\ q'["parse"].items = <<>>
        /\ q'["parse"].dropped = q["parse"].dropped \cup ToSet(backlog)
        /\ q'["parse"].closed = q["parse"].closed /\ q'["scan"] = q["scan"]
    <3>1. /\ ClTypeOK /\ "parse" \in Queues /\ "scan" \in Queues \ {"parse"}
          /\ q["parse"].dropped \cup ToSet(backlog) \in SUBSET Nat
      BY <2>1, <2>2 DEF Queues
    <3> HIDE DEF backlog
    <3> QED
      BY ONLY <2>2, <2>3, <3>1, QueueChanged
  <2>5. /\ wk' \in WkRec /\ wk'.pc = "ended" /\ wk'.hand = 0 /\ wk'.done = wk.done
        /\ wk'.skipped = {wk.hand} \ {0} /\ wk'.finished = wk.finished
    <3>1. wk' = [wk EXCEPT !.pc = "ended", !.hand = 0, !.skipped = {wk.hand} \ {0}]
      BY <1>1, <1>3 DEF AbortCheck, DropBacklog, WkRec
    <3>2. {wk.hand} \ {0} \in SUBSET Nat
      BY <1>1 DEF WkRec
    <3> QED
      BY <1>1, <3>1, <3>2 DEF WkRec, WkPcs
  <2>6. ClTypeOK' /\ ChannelInOrder'
    BY <2>4, <2>5 DEF AbortCheck, ClTypeOK, ChannelInOrder
  <2>7. AllDelivered'
    <3>1. Kept(wk'.done, wk'.hand, q'["parse"]) \cup wk'.skipped
            = Kept(wk.done, wk.hand, q["parse"]) \cup wk.skipped
      BY <1>1, <2>4, <2>5, EmptyBatches DEF Kept
    <3> QED
      BY <2>4, <3>1 DEF AbortCheck, AllDelivered, Delivered
  <2>8. BothInOrder'
    BY <2>4, <2>5, OrderGivenUp DEF AbortCheck, BothInOrder
  <2>9. ShutdownOrder'
    BY <1>1, <1>3, <2>4, <2>5 DEF AbortCheck, ShutdownOrder, Queues
  <2> QED
    BY <2>6, <2>7, <2>8, <2>9
<1> QED
  BY <1>2, <1>3

\* The worker takes the oldest batch, or finds its queue empty, perhaps closed.
LEMMA WorkerRecvKeeps ==
  ASSUME ClInd, WorkerRecv
  PROVE  ClInd'
<1> USE DEF ClInd
<1> DEFINE items == q["parse"].items
<1>1. /\ wk \in WkRec /\ wk.pc = "recv" /\ wk.skipped = {} /\ ~wk.finished /\ wk.hand = 0
      /\ items \in Seq(Nat) /\ q["parse"].dropped \in SUBSET Nat /\ q["parse"] \in QueueRec
  BY DEF WorkerRecv, ClTypeOK, ShutdownOrder, QueueRec, Queues
<1>2. CASE items = <<>>
  <2>1. /\ wk' \in WkRec /\ wk'.hand = wk.hand /\ wk'.done = wk.done /\ wk'.skipped = wk.skipped
        /\ wk'.finished = wk.finished /\ UNCHANGED q
        /\ wk'.pc = "tick" \/ (wk'.pc = "disconnected" /\ q["parse"].closed)
    BY <1>1, <1>2 DEF WorkerRecv, WkRec, WkPcs
  <2>2. ClTypeOK' /\ ChannelInOrder' /\ AllDelivered' /\ BothInOrder'
    BY <2>1 DEF WorkerRecv, ClTypeOK, ChannelInOrder, AllDelivered, Delivered, BothInOrder
  <2>3. ShutdownOrder'
    BY <1>1, <1>2, <2>1 DEF WorkerRecv, ShutdownOrder
  <2> QED
    BY <2>2, <2>3
<1>3. CASE items # <<>>
  <2>1. /\ Head(items) \in Nat /\ Tail(items) \in Seq(Nat)
        /\ ToSet(items) = {Head(items)} \cup ToSet(Tail(items))
    BY <1>1, <1>3, TakenBatches
  <2>2. q' = [q EXCEPT !["parse"] = [@ EXCEPT !.items = Tail(items), !.dropped = q["parse"].dropped]]
    BY <1>1, <1>3 DEF WorkerRecv, QueueRec
  <2>3. /\ q' \in [Queues -> QueueRec] /\ q'["parse"].items = Tail(items)
        /\ q'["parse"].dropped = q["parse"].dropped
        /\ q'["parse"].closed = q["parse"].closed /\ q'["scan"] = q["scan"]
    <3>1. /\ ClTypeOK /\ "parse" \in Queues /\ "scan" \in Queues \ {"parse"}
          /\ Tail(items) \in Seq(Nat) /\ q["parse"].dropped \in SUBSET Nat
      BY <1>1, <2>1 DEF Queues
    <3> HIDE DEF items
    <3> QED
      BY ONLY <2>2, <3>1, QueueChanged
  <2>4. /\ wk' \in WkRec /\ wk'.pc = "received" /\ wk'.hand = Head(items) /\ wk'.done = wk.done
        /\ wk'.skipped = wk.skipped /\ wk'.finished = wk.finished
    BY <1>1, <1>3, <2>1 DEF WorkerRecv, WkRec, WkPcs
  <2>5. Head(items) # 0
    <3>1. Head(items) \in 1 .. Delivered("parse")
      BY <2>1 DEF AllDelivered, Kept
    <3> QED
      BY <3>1 DEF Delivered, ClTypeOK, DrRec
  <2>6. ClTypeOK' /\ ChannelInOrder'
    BY <2>3, <2>4 DEF WorkerRecv, ClTypeOK, ChannelInOrder
  <2>7. AllDelivered'
    <3>1. Kept(wk'.done, wk'.hand, q'["parse"]) = Kept(wk.done, wk.hand, q["parse"])
      BY <1>1, <2>1, <2>3, <2>4, <2>5 DEF Kept
    <3> QED
      BY <2>3, <2>4, <3>1 DEF WorkerRecv, AllDelivered, Delivered
  <2>8. BothInOrder'
    <3>1. InOrder(wk'.done, wk'.hand, q'["parse"].items)
      BY <1>1, <1>3, <2>3, <2>4, OrderTaken DEF BothInOrder, WkRec
    <3> QED
      BY <2>3, <3>1 DEF WorkerRecv, BothInOrder
  <2>9. ShutdownOrder'
    BY <1>1, <2>3, <2>4, <2>5 DEF WorkerRecv, ShutdownOrder, Queues
  <2> QED
    BY <2>6, <2>7, <2>8, <2>9
<1> QED
  BY <1>2, <1>3

\* The batch in hand is done.
LEMMA ProcessRecordsKeeps ==
  ASSUME ClInd, ProcessRecords
  PROVE  ClInd'
<1> USE DEF ClInd
<1>1. /\ wk \in WkRec /\ wk.pc = "process" /\ wk.hand \in Nat \ {0} /\ wk.done \in Seq(Nat)
      /\ wk.skipped = {} /\ ~wk.finished
  BY DEF ProcessRecords, ClTypeOK, ShutdownOrder, WkRec
<1>2. Append(wk.done, wk.hand) \in Seq(Nat) /\ ToSet(Append(wk.done, wk.hand)) = ToSet(wk.done) \cup {wk.hand}
  BY <1>1, AppendProperties, SentBatches
<1>3. /\ wk' \in WkRec /\ wk'.pc = "tick" /\ wk'.hand = 0 /\ wk'.done = Append(wk.done, wk.hand)
      /\ wk'.skipped = wk.skipped /\ wk'.finished = wk.finished
  BY <1>1, <1>2 DEF ProcessRecords, WkRec, WkPcs
<1>4. ClTypeOK' /\ ChannelInOrder'
  BY <1>3 DEF ProcessRecords, ClTypeOK, ChannelInOrder
<1>5. AllDelivered'
  <2>1. Kept(wk'.done, wk'.hand, q["parse"]) = Kept(wk.done, wk.hand, q["parse"])
    BY <1>1, <1>2, <1>3 DEF Kept
  <2> QED
    BY <1>3, <2>1 DEF ProcessRecords, AllDelivered, Delivered
<1>6. BothInOrder'
  <2>1. InOrder(wk'.done, wk'.hand, q["parse"].items)
    <3>1. q["parse"].items \in Seq(Nat) /\ InOrder(wk.done, wk.hand, q["parse"].items)
      BY DEF BothInOrder, ClTypeOK, QueueRec, Queues
    <3>2. InOrder(Append(wk.done, wk.hand), 0, q["parse"].items)
      BY ONLY <1>1, <3>1, OrderDone
    <3> QED
      BY <1>3, <3>2
  <2> QED
    BY <2>1 DEF ProcessRecords, BothInOrder
<1>7. ShutdownOrder'
  BY <1>1, <1>3 DEF ProcessRecords, ShutdownOrder
<1> QED
  BY <1>4, <1>5, <1>6, <1>7

\* Between two turns.
LEMMA WorkerTickKeeps ==
  ASSUME ClInd, WorkerTick
  PROVE  ClInd'
<1> USE DEF ClInd, WorkerTick
<1>1. ClTypeOK'
  BY DEF ClTypeOK, StreamRec, DrRec, QueueRec, WkRec, ScRec, DrPcs, WkPcs, Looping, Handing, Verdicts, Queues
<1>2. ChannelInOrder'
  BY DEF ChannelInOrder, ClTypeOK, DrRec, Handing
<1>3. AllDelivered'
  BY DEF AllDelivered, Kept, Delivered, FullPc, ClTypeOK, DrRec, QueueRec, WkRec, ScRec, Queues
<1>4. BothInOrder'
  BY DEF BothInOrder, ClTypeOK, QueueRec, WkRec, ScRec, Queues
<1>5. ShutdownOrder'
  BY DEF ShutdownOrder, ClTypeOK, DrRec, WkRec, ScRec, QueueRec, DrPcs, WkPcs, Looping, Handing, Verdicts, Queues
<1> QED
  BY <1>1, <1>2, <1>3, <1>4, <1>5

\* The final pass.
LEMMA WorkerFinishKeeps ==
  ASSUME ClInd, WorkerFinish
  PROVE  ClInd'
<1> USE DEF ClInd, WorkerFinish
<1>1. ClTypeOK'
  BY DEF ClTypeOK, StreamRec, DrRec, QueueRec, WkRec, ScRec, DrPcs, WkPcs, Looping, Handing, Verdicts, Queues
<1>2. ChannelInOrder'
  BY DEF ChannelInOrder, ClTypeOK, DrRec, Handing
<1>3. AllDelivered'
  BY DEF AllDelivered, Kept, Delivered, FullPc, ClTypeOK, DrRec, QueueRec, WkRec, ScRec, Queues
<1>4. BothInOrder'
  BY DEF BothInOrder, ClTypeOK, QueueRec, WkRec, ScRec, Queues
<1>5. ShutdownOrder'
  BY DEF ShutdownOrder, ClTypeOK, DrRec, WkRec, ScRec, QueueRec, DrPcs, WkPcs, Looping, Handing, Verdicts, Queues
<1> QED
  BY <1>1, <1>2, <1>3, <1>4, <1>5

\* The scanner takes and scans the oldest batch, or ends.
LEMMA ScannerRecvKeeps ==
  ASSUME ClInd, ScannerRecv
  PROVE  ClInd'
<1> USE DEF ClInd
<1> DEFINE items == q["scan"].items
<1>1. /\ sc \in ScRec /\ sc.pc = "recv" /\ sc.hand = 0 /\ sc.done \in Seq(Nat)
      /\ items \in Seq(Nat) /\ q["scan"].dropped \in SUBSET Nat /\ q["scan"] \in QueueRec
  BY DEF ScannerRecv, ClTypeOK, ScRec, QueueRec, Queues
<1>2. CASE items = <<>>
  <2>1. sc' \in ScRec /\ sc'.pc = "ended" /\ sc'.hand = sc.hand /\ sc'.done = sc.done /\ UNCHANGED q
    BY <1>1, <1>2 DEF ScannerRecv, ScRec
  <2>2. ClTypeOK' /\ ChannelInOrder' /\ AllDelivered' /\ BothInOrder'
    BY <2>1 DEF ScannerRecv, ClTypeOK, ChannelInOrder, AllDelivered, Delivered, BothInOrder
  <2>3. ShutdownOrder'
    BY <2>1 DEF ScannerRecv, ShutdownOrder
  <2> QED
    BY <2>2, <2>3
<1>3. CASE items # <<>>
  <2>1. /\ Head(items) \in Nat /\ Tail(items) \in Seq(Nat)
        /\ ToSet(items) = {Head(items)} \cup ToSet(Tail(items))
    BY <1>1, <1>3, TakenBatches
  <2>2. q' = [q EXCEPT !["scan"] = [@ EXCEPT !.items = Tail(items), !.dropped = q["scan"].dropped]]
    BY <1>1, <1>3 DEF ScannerRecv, QueueRec
  <2>3. /\ q' \in [Queues -> QueueRec] /\ q'["scan"].items = Tail(items)
        /\ q'["scan"].dropped = q["scan"].dropped
        /\ q'["scan"].closed = q["scan"].closed /\ q'["parse"] = q["parse"]
    <3>1. ClTypeOK /\ "scan" \in Queues /\ "parse" \in Queues \ {"scan"}
      BY DEF Queues
    <3> QED
      BY ONLY <1>1, <2>1, <2>2, <3>1, QueueChanged
  <2>4. Head(items) \in Nat \ {0}
    <3>1. Head(items) \in 1 .. Delivered("scan")
      BY <2>1 DEF AllDelivered, Kept
    <3> QED
      BY <2>1, <3>1 DEF Delivered, ClTypeOK, DrRec
  <2>5. /\ Append(sc.done, Head(items)) \in Seq(Nat)
        /\ ToSet(Append(sc.done, Head(items))) = ToSet(sc.done) \cup {Head(items)}
    BY <1>1, <2>1, AppendProperties, SentBatches
  <2>6. sc' \in ScRec /\ sc'.pc = "recv" /\ sc'.hand = 0 /\ sc'.done = Append(sc.done, Head(items))
    BY <1>1, <1>3, <2>5 DEF ScannerRecv, ScRec
  <2>7. ClTypeOK' /\ ChannelInOrder'
    BY <2>3, <2>6 DEF ScannerRecv, ClTypeOK, ChannelInOrder
  <2>8. AllDelivered'
    <3>1. Kept(sc'.done, sc'.hand, q'["scan"]) = Kept(sc.done, sc.hand, q["scan"])
      BY <1>1, <2>1, <2>3, <2>5, <2>6 DEF Kept
    <3> QED
      BY <2>3, <3>1 DEF ScannerRecv, AllDelivered, Delivered
  <2>9. BothInOrder'
    <3>1. InOrder(sc.done, Head(items), Tail(items))
      BY <1>1, <1>3, OrderTaken DEF BothInOrder
    <3>2. InOrder(sc'.done, 0, q'["scan"].items)
      BY <1>1, <2>1, <2>3, <2>4, <2>6, <3>1, OrderDone
    <3> QED
      BY <2>3, <2>6, <3>2 DEF ScannerRecv, BothInOrder
  <2>10. ShutdownOrder'
    BY <1>1, <2>3, <2>6 DEF ScannerRecv, ShutdownOrder, Queues
  <2> QED
    BY <2>7, <2>8, <2>9, <2>10
<1> QED
  BY <1>2, <1>3

\* Every step keeps the invariant.
LEMMA ClStep == ClInd /\ [ClNext]_clVars => ClInd'
<1> SUFFICES ASSUME ClInd, [ClNext]_clVars PROVE ClInd'
  OBVIOUS
<1>1. CASE UNCHANGED clVars
  BY <1>1 DEF clVars, ClInd, ClTypeOK, ChannelInOrder, AllDelivered, Delivered,
              BothInOrder, ShutdownOrder
<1>2. CASE AtRest
  BY <1>1, <1>2 DEF AtRest
<1> QED
  BY <1>1, <1>2, DaemonSendsKeeps, DaemonEndsKeeps, StopRequestedKeeps, RecvBatchKeeps, RecvClosedKeeps, TryEnqueueKeeps, EvictOldestKeeps, LeaveLoopKeeps, RpcReturnedKeeps, JoinedKeeps, BudgetOverKeeps, GraceOverKeeps, AbortCheckKeeps, WorkerRecvKeeps, ProcessRecordsKeeps, WorkerTickKeeps, WorkerFinishKeeps, ScannerRecvKeeps DEF ClNext

\* A session that returned Ok is over, for any queue capacities and however
\* the deadlines fall: no thread of it touches the sink again (drive_session,
\* join_worker).
THEOREM QuietAfterOkThm == ClSpec => []QuietAfterOk
<1>1. ClInd => QuietAfterOk
  BY DEF ClInd, ShutdownOrder, QuietAfterOk, Verdicts
<1> QED
  BY ClStart, ClStep, <1>1, PTL DEF ClSpec

\* Every batch received is processed, queued, in hand or counted as dropped,
\* but for one batch in the worker's hand at an abort; both consumers see the
\* daemon's order, and the final pass runs only when nothing was given up
\* (enqueue_chunk_drop_oldest, drain_parser_backlog_for_abort).
THEOREM ParserAccountedThm == ClSpec => []ParserAccounted
<1>1. ClInd => ParserAccounted
  <2> SUFFICES ASSUME ClInd PROVE ParserAccounted
    OBVIOUS
  <2> USE DEF ClInd
  <2> DEFINE undelivered(k) == IF dr.pc \in {"scan", "scan_full", k, FullPc[k]} THEN {dr.hand} ELSE {}
  <2>1. Received = 1 .. dr.hand
    BY DEF Received, ClTypeOK, DrRec
  <2>2. ASSUME NEW k \in Queues PROVE 1 .. dr.hand = (1 .. Delivered(k)) \cup undelivered(k)
    BY <2>2 DEF Delivered, ChannelInOrder, Handing, FullPc, Queues, ClTypeOK, DrRec
  <2>3. Received = Kept(sc.done, sc.hand, q["scan"]) \cup undelivered("scan")
    BY <2>1, <2>2 DEF AllDelivered, Queues
  <2>4. Received = Kept(wk.done, wk.hand, q["parse"]) \cup undelivered("parse") \cup wk.skipped
    BY <2>1, <2>2 DEF AllDelivered, Queues
  <2>5. Increasing(wk.done \o q["parse"].items) /\ Increasing(sc.done \o q["scan"].items)
    BY JoinedInOrder DEF BothInOrder, InOrder, ClTypeOK, WkRec, ScRec, QueueRec, Queues
  <2>6. Cardinality(wk.skipped) <= 1
    <3>1. CASE wk.skipped = {}
      BY <3>1, FS_EmptySet
    <3>2. CASE wk.skipped # {}
      <4>1. PICK h : wk.skipped = {h}
        BY <3>2 DEF ShutdownOrder
      <4>2. Cardinality({h}) = 1
        BY FS_Singleton
      <4> QED
        BY <4>1, <4>2
    <3> QED
      BY <3>1, <3>2
  <2>7. wk.skipped # {} => abort
    BY DEF ShutdownOrder
  <2>8. ASSUME wk.finished
        PROVE  wk.skipped = {} /\ Received = ToSet(wk.done) \cup q["parse"].dropped
    <3>1. wk.skipped = {} /\ wk.hand = 0 /\ q["parse"].items = <<>> /\ dr.pc \notin Looping
      BY <2>8 DEF ShutdownOrder, Queues
    <3>2. undelivered("parse") = {}
      BY <3>1 DEF Looping, Handing, FullPc
    <3> QED
      BY <2>4, <3>1, <3>2, EmptyBatches DEF Kept
  <2> HIDE DEF ClInd
  <2> QED
    BY <2>3, <2>4, <2>5, <2>6, <2>7, <2>8 DEF ParserAccounted, Kept
<1> QED
  BY ClStart, ClStep, <1>1, PTL DEF ClSpec
=============================================================================
