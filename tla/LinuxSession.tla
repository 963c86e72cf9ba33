---------------------------- MODULE LinuxSession ----------------------------
(***************************************************************************)
(* The Linux capture session (stax-linux-capture/src/session.rs): the      *)
(* kernel writes perf records into rings, one sampling, one switch and one *)
(* waking ring per CPU; run_with_rings drains the rings one after the      *)
(* other and turns the records into on-CPU and off-CPU intervals.          *)
(*                                                                         *)
(* The kernel is external: it schedules the target's threads and stamps    *)
(* every record with a clock all CPUs share.  The records of one thread    *)
(* are in order within a ring and in no order across rings, since a thread *)
(* that migrates leaves records on several CPUs.                           *)
(*                                                                         *)
(* A stack is the time at which it was captured, 0 if empty, and a wakeup  *)
(* is the time of its record, 0 for none: time stands for identity.        *)
(* Records of other processes change nothing (observe_thread, target_tids) *)
(* and are not written here.  The samples and wakeups passed on to the     *)
(* sink as they are, the images and names of mmap, comm and fork records,  *)
(* PMU counters and the summary's counters are left out.                   *)
(***************************************************************************)
EXTENDS Integers, Sequences

CONSTANTS Tids,       \* threads of the target, all known from /proc
          CpuCount,   \* number of CPUs
          MaxGap,     \* max_on_cpu_gap_ns
          Staleness,  \* WAKING_STALENESS_NS
          RingCap,    \* records a ring holds before the kernel drops new ones
          MaxTime     \* bound: events the kernel produces

Cpus == 1..CpuCount
Times == 0..MaxTime

ASSUME CpuAssumption == CpuCount \in Nat \ {0}
ASSUME TimeAssumption == MaxGap \in Nat /\ Staleness \in Nat /\ MaxTime \in Nat
ASSUME RingAssumption == RingCap \in Nat

VARIABLES now, affinity, cpuOf, run,           \* the kernel
          ring, enabled,                       \* the perf events
          phase, next, scratch,                \* the drain loop
          lastSample, lastStack, switchStack, offStart, recentWaking, lastTs,
          onIv, offIv,                         \* what the sink was given
          outAt, blocks, lost                  \* history: what really happened

kernel == <<now, affinity, cpuOf, run>>
witness == <<outAt, blocks>>
perf == <<ring, enabled>>
loop == <<phase, next, scratch>>
maps == <<lastSample, lastStack, switchStack, offStart, recentWaking, lastTs>>
sink == <<onIv, offIv>>
vars == <<kernel, witness, lost, perf, loop, maps, sink>>

----------------------------------------------------------------------------
(* Rings, in the order in which run_with_rings chains them. *)

Rings == 1..(3 * CpuCount)
SamplingRing(c) == c
SwitchRing(c) == CpuCount + c
WakingRing(c) == 2 * CpuCount + c

Record == [type : {"sample", "switchSample", "out", "preempt", "in", "waking"},
           tid : Tids, time : Times, user : BOOLEAN]

OnInterval == [tid : Tids, start : Times, end : Times]

OffInterval == [tid : Tids, start : Times, end : Times, stack : Times, wake : Times]

\* A stay off the CPU, and whether the switch-out was sampled in user code.
BlockOf == [tid : Tids, start : Times, end : Times, user : BOOLEAN]

MaxOf(a, b) == IF a >= b THEN a ELSE b
MinOf(a, b) == IF a <= b THEN a ELSE b

NotOut == [at |-> 0, user |-> FALSE]

TypeOK ==
  /\ now \in Times
  /\ affinity \in [Tids -> SUBSET Cpus]
  /\ cpuOf \in [Tids -> 0..CpuCount]
  /\ run \in [Tids -> {"ready", "running", "blocked"}]
  /\ outAt \in [Tids -> [at : Times, user : BOOLEAN]]
  /\ blocks \subseteq BlockOf
  /\ lost \subseteq Tids
  /\ ring \in [Rings -> Seq(Record)]
  /\ enabled \subseteq Rings
  /\ phase \in {"enable", "top", "loop", "disable", "sweep", "flush", "done"}
  /\ next \in Rings
  /\ scratch \in Seq(Record)
  /\ lastSample \in [Tids -> Times]
  /\ lastStack \in [Tids -> Times]
  /\ switchStack \in [Tids -> Times]
  /\ offStart \in [Tids -> [at : Times, stack : Times]]
  /\ recentWaking \in [Tids -> Times]
  /\ lastTs \in Times
  /\ onIv \subseteq OnInterval
  /\ offIv \subseteq OffInterval

Init ==
  /\ now = 0
  /\ affinity \in [Tids -> {Cpus, {1}}]
  /\ cpuOf \in [Tids -> 0..CpuCount]
  /\ run \in [Tids -> {"ready", "running", "blocked"}]
  /\ \A t \in Tids : /\ run[t] = "running" <=> cpuOf[t] # 0
                     /\ cpuOf[t] \in affinity[t] \cup {0}
                     /\ \A u \in Tids : cpuOf[t] # 0 /\ cpuOf[u] = cpuOf[t] => u = t
  /\ outAt = [t \in Tids |-> NotOut]
  /\ blocks = {}
  /\ lost = {}
  /\ ring = [i \in Rings |-> <<>>]
  /\ enabled = {}
  /\ phase = "enable"
  /\ next = 1
  /\ scratch = <<>>
  /\ lastSample = [t \in Tids |-> 0]
  /\ lastStack = [t \in Tids |-> 0]
  /\ switchStack = [t \in Tids |-> 0]
  /\ offStart = [t \in Tids |-> [at |-> 0, stack |-> 0]]
  /\ recentWaking = [t \in Tids |-> 0]
  /\ lastTs = 0
  /\ onIv = {}
  /\ offIv = {}

----------------------------------------------------------------------------
(* The kernel. *)

Tick ==
  /\ now < MaxTime
  /\ now' = now + 1
  /\ UNCHANGED <<affinity, enabled, loop, maps, sink>>

Rec(type, t, user) == [type |-> type, tid |-> t, time |-> now + 1, user |-> user]

\* Ring i gets records of thread t. A disabled event writes nothing, and a
\* full ring loses what it has no room for.
Write(i, t, recs) ==
  IF i \in enabled
  THEN LET all == ring[i] \o recs IN
       /\ ring' = [ring EXCEPT ![i] = SubSeq(all, 1, MinOf(Len(all), RingCap))]
       /\ lost' = IF Len(all) > RingCap THEN lost \cup {t} ELSE lost
  ELSE UNCHANGED <<ring, lost>>

\* Thread t, on a CPU, is hit by the sampling timer, in user code or not.
Sample(t, user) ==
  /\ Tick
  /\ run[t] = "running"
  /\ Write(SamplingRing(cpuOf[t]), t, <<Rec("sample", t, user)>>)
  /\ UNCHANGED <<cpuOf, run, witness>>

\* A switch-out writes a context-switch sample and then the switch record.
SwitchOut(t, type, state, user) ==
  /\ Tick
  /\ run[t] = "running"
  /\ run' = [run EXCEPT ![t] = state]
  /\ cpuOf' = [cpuOf EXCEPT ![t] = 0]
  /\ Write(SwitchRing(cpuOf[t]), t, <<Rec("switchSample", t, user), Rec(type, t, user)>>)

Block(t, user) ==
  /\ SwitchOut(t, "out", "blocked", user)
  /\ outAt' = IF SwitchRing(cpuOf[t]) \in enabled
              THEN [outAt EXCEPT ![t] = [at |-> now + 1, user |-> user]] ELSE outAt
  /\ UNCHANGED blocks

Preempt(t) ==
  /\ SwitchOut(t, "preempt", "ready", TRUE)
  /\ UNCHANGED witness

SwitchIn(t, c) ==
  /\ Tick
  /\ run[t] = "ready"
  /\ c \in affinity[t]
  /\ \A u \in Tids : cpuOf[u] # c
  /\ run' = [run EXCEPT ![t] = "running"]
  /\ cpuOf' = [cpuOf EXCEPT ![t] = c]
  /\ Write(SwitchRing(c), t, <<Rec("in", t, FALSE)>>)
  /\ IF SwitchRing(c) \in enabled /\ outAt[t].at # 0
     THEN /\ blocks' = blocks \cup {[tid |-> t, start |-> outAt[t].at, end |-> now + 1,
                                     user |-> outAt[t].user]}
          /\ outAt' = [outAt EXCEPT ![t] = NotOut]
     ELSE UNCHANGED witness

\* Someone on CPU c wakes thread t.
Wake(t, c) ==
  /\ Tick
  /\ run[t] = "blocked"
  /\ run' = [run EXCEPT ![t] = "ready"]
  /\ Write(WakingRing(c), t, <<Rec("waking", t, FALSE)>>)
  /\ UNCHANGED <<cpuOf, witness>>

----------------------------------------------------------------------------
(* The drain loop of run_with_rings. *)

\* One turn of a loop over all rings, which ends at the start of phase p.
EachRing(p) ==
  \/ next < 3 * CpuCount /\ next' = next + 1 /\ UNCHANGED phase
  \/ next = 3 * CpuCount /\ next' = 1 /\ phase' = p

Enable ==
  /\ phase = "enable"
  /\ enabled' = enabled \cup {next}
  /\ EachRing("top")
  /\ UNCHANGED <<kernel, witness, lost, ring, scratch, maps, sink>>

\* The top of the loop: go round the rings, or break on stop, target exit or
\* deadline (LoopExit of RunRegistry).
Top ==
  /\ phase = "top"
  /\ scratch = <<>>
  /\ phase' \in {"loop", "disable"}
  /\ UNCHANGED <<kernel, witness, lost, perf, next, scratch, maps, sink>>

\* drain: everything up to the head is copied and given back to the kernel.
Drain ==
  /\ scratch = <<>>
  /\ \/ phase = "loop" /\ EachRing("top")
     \/ phase = "sweep" /\ EachRing("flush")
  /\ scratch' = ring[next]
  /\ ring' = [ring EXCEPT ![next] = <<>>]
  /\ UNCHANGED <<kernel, witness, lost, enabled, maps, sink>>

\* The events are disabled one by one.
Disable ==
  /\ phase = "disable"
  /\ scratch = <<>>
  /\ enabled' = enabled \ {next}
  /\ EachRing("sweep")
  /\ UNCHANGED <<kernel, witness, lost, ring, scratch, maps, sink>>

----------------------------------------------------------------------------
(* Handlers, one per record type, each after its mutants. *)

MutantOlderToo(t, time) == TRUE

\* Samples that arrive out of order do not move last_sample_ts back.
Newer(t, time) == time > lastSample[t]

MutantLongest(gap) == MaxOf(gap, MaxGap)

\* A long gap is not booked as on-CPU: the thread was parked.
Capped(gap) == MinOf(gap, MaxGap)

\* The on-CPU interval that a sample closes: the previous sample's slice.
ClosedSlice(t, time) ==
  IF lastSample[t] # 0 /\ Newer(t, time) /\ MaxGap > 0
  THEN {[tid |-> t, start |-> lastSample[t],
         end |-> lastSample[t] + Capped(time - lastSample[t])]}
  ELSE {}

OnSample(r) ==
  /\ r.type = "sample"
  /\ onIv' = onIv \cup ClosedSlice(r.tid, r.time)
  /\ lastSample' = IF Newer(r.tid, r.time)
                   THEN [lastSample EXCEPT ![r.tid] = r.time] ELSE lastSample
  /\ lastTs' = MaxOf(lastTs, r.time)
  /\ lastStack' = IF r.user THEN [lastStack EXCEPT ![r.tid] = r.time] ELSE lastStack
  /\ UNCHANGED <<switchStack, offStart, recentWaking, offIv>>

OnSwitchSample(r) ==
  /\ r.type = "switchSample"
  /\ switchStack' = IF r.user THEN [switchStack EXCEPT ![r.tid] = r.time] ELSE switchStack
  /\ UNCHANGED <<lastSample, lastStack, offStart, recentWaking, lastTs, sink>>

MutantTimerStack(t) == lastStack[t]

\* The stack credited to a block: the switch sample's, else the last timer
\* sample's. The kernel wait site put in front of it is left out.
ParkedStack(t) == IF switchStack[t] # 0 THEN switchStack[t] ELSE lastStack[t]

OnSwitchOut(r) ==
  /\ r.type = "out"
  /\ offStart' = [offStart EXCEPT ![r.tid] = [at |-> r.time, stack |-> ParkedStack(r.tid)]]
  /\ switchStack' = [switchStack EXCEPT ![r.tid] = 0]
  /\ lastTs' = MaxOf(lastTs, r.time)
  /\ UNCHANGED <<lastSample, lastStack, recentWaking, sink>>

MutantOpensToo(r) == [offStart EXCEPT ![r.tid] = [at |-> r.time, stack |-> 0]]

\* A preempted thread stays runnable: no off-CPU interval is opened.
StaysOpen(r) == offStart

OnPreempt(r) ==
  /\ r.type = "preempt"
  /\ offStart' = StaysOpen(r)
  /\ switchStack' = [switchStack EXCEPT ![r.tid] = 0]
  /\ lastTs' = MaxOf(lastTs, r.time)
  /\ UNCHANGED <<lastSample, lastStack, recentWaking, sink>>

\* The wakeup a switch-in consumes, unless it is stale.
Waking(t, time) ==
  IF recentWaking[t] # 0 /\ time - recentWaking[t] <= Staleness THEN recentWaking[t] ELSE 0

TakenWaking(t) == [recentWaking EXCEPT ![t] = 0]

OnSwitchIn(r) ==
  /\ r.type = "in"
  /\ lastTs' = MaxOf(lastTs, r.time)
  /\ LET open == offStart[r.tid] IN
       IF open.at # 0 /\ r.time > open.at
       THEN /\ offIv' = offIv \cup {[tid |-> r.tid, start |-> open.at, end |-> r.time,
                                   stack |-> open.stack, wake |-> Waking(r.tid, r.time)]}
            /\ recentWaking' = TakenWaking(r.tid)
       ELSE UNCHANGED <<offIv, recentWaking>>
  /\ offStart' = [offStart EXCEPT ![r.tid] = [at |-> 0, stack |-> 0]]
  /\ UNCHANGED <<lastSample, lastStack, switchStack, onIv>>

OnWaking(r) ==
  /\ r.type = "waking"
  /\ recentWaking' = [recentWaking EXCEPT ![r.tid] = r.time]
  /\ lastTs' = MaxOf(lastTs, r.time)
  /\ UNCHANGED <<lastSample, lastStack, switchStack, offStart, sink>>

Handle ==
  /\ scratch # <<>>
  /\ scratch' = Tail(scratch)
  /\ LET r == Head(scratch) IN
       \/ OnSample(r) \/ OnSwitchSample(r) \/ OnSwitchOut(r) \/ OnPreempt(r)
       \/ OnSwitchIn(r) \/ OnWaking(r)
  /\ UNCHANGED <<kernel, witness, lost, perf, phase, next>>

\* The threads flush_off_cpu closes, and the intervals it gives them.
StillParked == {t \in Tids : offStart[t].at # 0 /\ lastTs > offStart[t].at}

FlushedInterval(t) == [tid |-> t, start |-> offStart[t].at, end |-> lastTs,
                       stack |-> offStart[t].stack, wake |-> 0]

MutantNoFlush == {}

Flushed == {FlushedInterval(t) : t \in StillParked}

FlushOffCpu ==
  /\ phase = "flush"
  /\ scratch = <<>>
  /\ phase' = "done"
  /\ offIv' = offIv \cup Flushed
  /\ offStart' = [t \in Tids |-> [at |-> 0, stack |-> 0]]
  /\ UNCHANGED <<kernel, witness, lost, perf, next, scratch, lastSample, lastStack,
                 switchStack, recentWaking, lastTs, onIv>>

----------------------------------------------------------------------------

Kernel ==
  \/ \E t \in Tids : Preempt(t)
  \/ \E t \in Tids, user \in BOOLEAN : Sample(t, user) \/ Block(t, user)
  \/ \E t \in Tids, c \in Cpus : SwitchIn(t, c) \/ Wake(t, c)

Session == Enable \/ Top \/ Drain \/ Handle \/ Disable \/ FlushOffCpu

\* Handlers and the kernel share no state, so letting the handlers empty the
\* scratch buffer before the kernel goes on loses no outcome.
Next == (phase # "done" /\ scratch = <<>> /\ Kernel) \/ Session

Spec == Init /\ [][Next]_vars

----------------------------------------------------------------------------
(* Properties *)

\* The threads that cannot migrate and so leave their switch records in one
\* ring, and of which no record was lost.
Pinned == {t \in Tids \ lost : \E c \in Cpus : affinity[t] = {c}}

Disjoint(a, b) == a.end <= b.start \/ b.end <= a.start

\* No time of a thread is booked on-CPU twice, however its samples are spread
\* over the rings (on_sample: "Out-of-order arrivals across per-CPU rings are
\* tolerated by only advancing on a strictly newer timestamp").
OnCpuDisjoint ==
  \A a, b \in onIv : a.tid = b.tid /\ a # b => Disjoint(a, b)

\* When the session is over, the off-CPU intervals of a thread that does not
\* migrate are exactly the blocks its switch ring witnessed, and the one it
\* is still parked in, up to the newest timestamp (on_switch: "the matching
\* switch-in closes it with the real scheduler duration"; flush_off_cpu).
OffCpuExact ==
  phase = "done" =>
    \A t \in Pinned :
      {<<iv.start, iv.end>> : iv \in {o \in offIv : o.tid = t}}
        = {<<b.start, b.end>> : b \in {b \in blocks : b.tid = t}}
            \cup (IF outAt[t].at # 0 /\ lastTs > outAt[t].at
                  THEN {<<outAt[t].at, lastTs>>} ELSE {})

\* What is credited to an off-CPU interval is its own: each wakeup goes to one
\* interval at most (recent_waking is consumed by the switch-in that uses it),
\* and a block that was sampled at its switch-out has the stack of that very
\* sample, whatever was lost and wherever the thread ran (on_switch: "The
\* stack it blocked in (the switch sample just before)").
CreditedOwn ==
  /\ \A a, b \in offIv : a.tid = b.tid /\ a.wake # 0 /\ a.wake = b.wake => a = b
  /\ \A iv \in offIv, b \in blocks :
       b.tid = iv.tid /\ b.start = iv.start /\ b.user => iv.stack = iv.start

\* on_switch: "A *voluntary* switch-out (not a preemption) opens an off-CPU
\* span with the thread's parked stack; the matching switch-in closes it with
\* the real scheduler duration", for every thread none of whose records was
\* lost.
OffCpuReal ==
  phase # "done" =>
    \A iv \in {o \in offIv : o.tid \notin lost} : \E b \in blocks :
      b.tid = iv.tid /\ b.start = iv.start /\ b.end = iv.end

\* on_sample_from_waking: "Stash for the matching switch-in to consume": the
\* wakeup credited to an off-CPU interval is one that happened during it.
WakerIsOfInterval ==
  \A iv \in offIv : iv.wake # 0 => iv.start < iv.wake /\ iv.wake <= iv.end

=============================================================================
