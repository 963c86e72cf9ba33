------------------------- MODULE LinuxSessionProofs -------------------------
(***************************************************************************)
(* Theorems about LinuxSession, for any number of threads and CPUs, any    *)
(* sizes of the rings and any gap and staleness: type correctness; that no *)
(* time of a thread is booked on-CPU twice; that an off-CPU interval has   *)
(* its own stack and wakeup; and that the off-CPU intervals of a thread    *)
(* bound to one CPU are its blocks.                                        *)
(*                                                                         *)
(* The last two rest on what is known of the records between the kernel    *)
(* and the handlers (QueueInv), and then only on the set of them (Pending):*)
(* the kernel adds records newer than all, a drain moves them, a handler   *)
(* takes one away.                                                         *)
(***************************************************************************)
EXTENDS LinuxSession, SequenceTheorems, TLAPS

\* Every slice booked so far ends by the thread's newest sample: the next
\* slice starts there, and so after all of them.
SlicesEnd ==
  \A iv \in onIv : iv.start < iv.end /\ iv.end <= lastSample[iv.tid]

SliceInv == TypeOK /\ SlicesEnd /\ OnCpuDisjoint

\* The smaller of two times, as Capped and Write use it.
LEMMA MinOfNat == \A a, b \in Nat : MinOf(a, b) \in Nat /\ MinOf(a, b) <= a /\ MinOf(a, b) <= b
BY DEF MinOf

\* last_ts only ever takes the value of a timestamp.
LEMMA MaxOfTimes == \A a, b \in Times : MaxOf(a, b) \in Times
BY DEF MaxOf

\* The initial state: nothing was recorded.
LEMMA InitSlice == Init => SliceInv
<1> SUFFICES ASSUME Init PROVE SliceInv
    OBVIOUS
<1> USE CpuAssumption, TimeAssumption
<1>1. 0 \in Times /\ 1 \in Rings
    BY DEF Times, Rings
<1>2. ring \in [Rings -> Seq(Record)] /\ scratch \in Seq(Record)
    BY DEF Init
<1>3. affinity \in [Tids -> SUBSET Cpus]
  <2>1. {1} \subseteq Cpus
      BY DEF Cpus
  <2> QED
      BY <2>1 DEF Init
<1>4. TypeOK
    BY <1>1, <1>2, <1>3 DEF Init, TypeOK, NotOut
<1>5. SlicesEnd /\ OnCpuDisjoint
    BY DEF Init, SlicesEnd, OnCpuDisjoint
<1> QED
    BY <1>4, <1>5 DEF SliceInv

\* A write leaves every ring a sequence of records.
LEMMA WriteType ==
  ASSUME TypeOK, NEW i, NEW t \in Tids, NEW recs \in Seq(Record), Write(i, t, recs)
  PROVE  ring' \in [Rings -> Seq(Record)] /\ lost' \subseteq Tids
<1>1. CASE i \in enabled
  <2>1. i \in Rings
      BY <1>1 DEF TypeOK
  <2> DEFINE all == ring[i] \o recs
  <2> DEFINE n == MinOf(Len(all), RingCap)
  <2>2. ring[i] \in Seq(Record)
      BY <2>1 DEF TypeOK
  <2>3. all \in Seq(Record) /\ Len(all) \in Nat
      BY <2>2
  <2>4. n \in Nat /\ n <= Len(all)
      BY <2>3, MinOfNat, RingAssumption
  <2>5. SubSeq(all, 1, n) \in Seq(Record)
    <3> HIDE DEF all, n
    <3>1. \A j \in 1..n : all[j] \in Record
        BY <2>3, <2>4
    <3> QED
        BY <2>3, <2>4, <3>1
  <2>6. ring' = [ring EXCEPT ![i] = SubSeq(all, 1, n)]
      BY <1>1 DEF Write
  <2>7. ring' \in [Rings -> Seq(Record)]
    <3> HIDE DEF all, n
    <3> QED
        BY <2>1, <2>5, <2>6 DEF TypeOK
  <2>8. lost' \subseteq Tids
      BY <1>1 DEF Write, TypeOK
  <2> QED
      BY <2>7, <2>8
<1>2. CASE i \notin enabled
    BY <1>2 DEF Write, TypeOK
<1> QED
    BY <1>1, <1>2

\* The kernel's records are well formed.
LEMMA RecType ==
  ASSUME TypeOK, now < MaxTime, NEW t \in Tids, NEW user \in BOOLEAN,
         NEW type \in {"sample", "switchSample", "out", "preempt", "in", "waking"}
  PROVE  Rec(type, t, user) \in Record
<1>1. now + 1 \in Times
    BY TimeAssumption DEF TypeOK, Times
<1> QED
    BY <1>1 DEF Rec, Record


\* The part of the type invariant that the kernel's actions can disturb.
KernelTypes ==
  /\ now \in Times
  /\ cpuOf \in [Tids -> 0..CpuCount]
  /\ run \in [Tids -> {"ready", "running", "blocked"}]
  /\ outAt \in [Tids -> [at : Times, user : BOOLEAN]]
  /\ blocks \subseteq BlockOf
  /\ lost \subseteq Tids
  /\ ring \in [Rings -> Seq(Record)]

\* Every action of the kernel keeps its own part of the type invariant.
LEMMA KernelType ==
  ASSUME TypeOK, Kernel
  PROVE  Tick /\ KernelTypes'
<1> USE TimeAssumption, CpuAssumption
<1>1. ASSUME Tick
      PROVE  now < MaxTime /\ now' \in Times /\ now + 1 \in Times
    BY <1>1 DEF Tick, TypeOK, Times
<1>2. ASSUME NEW t \in Tids, NEW user \in BOOLEAN, Sample(t, user)
      PROVE  Tick /\ KernelTypes'
  <2>1. Tick
      BY <1>2 DEF Sample
  <2>2. <<Rec("sample", t, user)>> \in Seq(Record)
      BY <1>1, <2>1, RecType
  <2>3. ring' \in [Rings -> Seq(Record)] /\ lost' \subseteq Tids
      BY <1>2, <2>2, WriteType DEF Sample
  <2> QED
      BY <1>1, <1>2, <2>1, <2>3 DEF Sample, witness, TypeOK, KernelTypes
<1>3. ASSUME NEW t \in Tids, NEW user \in BOOLEAN, NEW type \in {"out", "preempt"},
             NEW state \in {"blocked", "ready"}, SwitchOut(t, type, state, user)
      PROVE  /\ Tick /\ now' \in Times /\ now + 1 \in Times
             /\ cpuOf' \in [Tids -> 0..CpuCount]
             /\ run' \in [Tids -> {"ready", "running", "blocked"}]
             /\ lost' \subseteq Tids
             /\ ring' \in [Rings -> Seq(Record)]
  <2>1. Tick
      BY <1>3 DEF SwitchOut
  <2>2. <<Rec("switchSample", t, user), Rec(type, t, user)>> \in Seq(Record)
      BY <1>1, <2>1, RecType
  <2>3. ring' \in [Rings -> Seq(Record)] /\ lost' \subseteq Tids
      BY <1>3, <2>2, WriteType DEF SwitchOut
  <2>4. cpuOf' \in [Tids -> 0..CpuCount]
      BY <1>3 DEF SwitchOut, TypeOK
  <2>5. run' \in [Tids -> {"ready", "running", "blocked"}]
      BY <1>3 DEF SwitchOut, TypeOK
  <2> QED
      BY <1>1, <2>1, <2>3, <2>4, <2>5
<1>4. ASSUME NEW t \in Tids, NEW user \in BOOLEAN, Block(t, user)
      PROVE  Tick /\ KernelTypes'
  <2>1. SwitchOut(t, "out", "blocked", user)
      BY <1>4 DEF Block
  <2>2. outAt' \in [Tids -> [at : Times, user : BOOLEAN]]
      BY <1>3, <1>4, <2>1 DEF Block, TypeOK
  <2> QED
      BY <1>3, <1>4, <2>1, <2>2 DEF Block, TypeOK, KernelTypes
<1>5. ASSUME NEW t \in Tids, Preempt(t)
      PROVE  Tick /\ KernelTypes'
  <2>1. SwitchOut(t, "preempt", "ready", TRUE)
      BY <1>5 DEF Preempt
  <2> QED
      BY <1>3, <1>5, <2>1 DEF Preempt, witness, TypeOK, KernelTypes
<1>6. ASSUME NEW t \in Tids, NEW c \in Cpus, SwitchIn(t, c)
      PROVE  Tick /\ KernelTypes'
  <2>1. Tick
      BY <1>6 DEF SwitchIn
  <2>2. <<Rec("in", t, FALSE)>> \in Seq(Record)
    <3>1. \A user \in BOOLEAN : Rec("in", t, user) \in Record
        BY <1>1, <2>1, RecType
    <3>2. FALSE \in BOOLEAN
        OBVIOUS
    <3>3. \A x \in Record : <<x>> \in Seq(Record)
        OBVIOUS
    <3> QED
        BY <3>1, <3>2, <3>3, Zenon
  <2>3. ring' \in [Rings -> Seq(Record)] /\ lost' \subseteq Tids
      BY <1>6, <2>2, WriteType DEF SwitchIn
  <2>4. cpuOf' \in [Tids -> 0..CpuCount]
      BY <1>6 DEF SwitchIn, TypeOK, Cpus
  <2>5. run' \in [Tids -> {"ready", "running", "blocked"}]
      BY <1>6 DEF SwitchIn, TypeOK
  <2>6. outAt' \in [Tids -> [at : Times, user : BOOLEAN]]
    <3>1. NotOut \in [at : Times, user : BOOLEAN]
        BY DEF NotOut, Times
    <3> QED
        BY <1>6, <3>1 DEF SwitchIn, TypeOK, witness
  <2>7. blocks' \subseteq BlockOf
    <3>1. outAt[t] \in [at : Times, user : BOOLEAN]
        BY DEF TypeOK
    <3>2. [tid |-> t, start |-> outAt[t].at, end |-> now + 1, user |-> outAt[t].user] \in BlockOf
        BY <1>1, <2>1, <3>1 DEF BlockOf
    <3> QED
        BY <1>6, <3>2 DEF SwitchIn, TypeOK, witness
  <2> QED
      BY <1>1, <2>1, <2>3, <2>4, <2>5, <2>6, <2>7 DEF KernelTypes
<1>7. ASSUME NEW t \in Tids, NEW c \in Cpus, Wake(t, c)
      PROVE  Tick /\ KernelTypes'
  <2>1. Tick
      BY <1>7 DEF Wake
  <2>2. <<Rec("waking", t, FALSE)>> \in Seq(Record)
    <3>1. \A user \in BOOLEAN : Rec("waking", t, user) \in Record
        BY <1>1, <2>1, RecType
    <3>2. FALSE \in BOOLEAN
        OBVIOUS
    <3>3. \A x \in Record : <<x>> \in Seq(Record)
        OBVIOUS
    <3> QED
        BY <3>1, <3>2, <3>3, Zenon
  <2>3. ring' \in [Rings -> Seq(Record)] /\ lost' \subseteq Tids
      BY <1>7, <2>2, WriteType DEF Wake
  <2>4. run' \in [Tids -> {"ready", "running", "blocked"}]
      BY <1>7 DEF Wake, TypeOK
  <2> QED
      BY <1>1, <1>7, <2>1, <2>3, <2>4 DEF Wake, witness, TypeOK, KernelTypes
<1> QED
    BY <1>2, <1>4, <1>5, <1>6, <1>7 DEF Kernel

\* What the kernel does leaves the session's maps and the sink alone.
LEMMA KernelSlice ==
  ASSUME SliceInv, Kernel
  PROVE  SliceInv'
<1>1. TypeOK
    BY DEF SliceInv
<1>2. Tick /\ KernelTypes'
    BY <1>1, KernelType
<1>3. UNCHANGED <<affinity, enabled, phase, next, scratch, lastSample, lastStack,
                  switchStack, offStart, recentWaking, lastTs, onIv, offIv>>
    BY <1>2 DEF Tick, loop, maps, sink
<1>4. TypeOK'
    BY <1>1, <1>2, <1>3 DEF TypeOK, KernelTypes
<1> QED
    BY <1>3, <1>4 DEF SliceInv, SlicesEnd, OnCpuDisjoint, Disjoint

\* The loop over the rings moves records to the scratch buffer and changes
\* nothing a property of slices is about.
LEMMA LoopSlice ==
  ASSUME SliceInv, Enable \/ Top \/ Drain \/ Disable
  PROVE  SliceInv'
<1> USE CpuAssumption
<1>1. TypeOK
    BY DEF SliceInv
<1>2. UNCHANGED <<now, affinity, cpuOf, run, outAt, blocks, lost, lastSample, lastStack,
                  switchStack, offStart, recentWaking, lastTs, onIv, offIv>>
    BY DEF Enable, Top, Drain, Disable, kernel, witness, maps, sink
<1>3. ASSUME NEW p \in {"top", "sweep", "flush"}, EachRing(p)
      PROVE  next' \in Rings
                /\ phase' \in {"enable", "top", "loop", "disable", "sweep", "flush", "done"}
    BY <1>1, <1>3 DEF EachRing, TypeOK, Rings
<1>4. CASE Enable
  <2>1. enabled' \subseteq Rings
      BY <1>1, <1>4 DEF Enable, TypeOK
  <2> QED
      BY <1>1, <1>2, <1>3, <1>4, <2>1
      DEF Enable, TypeOK, SliceInv, SlicesEnd, OnCpuDisjoint, Disjoint
<1>5. CASE Top
    BY <1>1, <1>2, <1>5 DEF Top, perf, TypeOK, SliceInv, SlicesEnd, OnCpuDisjoint, Disjoint
<1>6. CASE Drain
  <2>1. ring[next] \in Seq(Record)
      BY <1>1 DEF TypeOK
  <2>2. ring' \in [Rings -> Seq(Record)] /\ scratch' \in Seq(Record)
    <3>1. <<>> \in Seq(Record)
        OBVIOUS
    <3> QED
        BY <1>1, <1>6, <2>1, <3>1 DEF Drain, TypeOK
  <2>3. next' \in Rings /\ phase' \in {"enable", "top", "loop", "disable", "sweep", "flush", "done"}
      BY <1>3, <1>6 DEF Drain
  <2>4. enabled' = enabled
      BY <1>6 DEF Drain
  <2> QED
      BY <1>1, <1>2, <2>2, <2>3, <2>4
      DEF TypeOK, SliceInv, SlicesEnd, OnCpuDisjoint, Disjoint
<1>7. CASE Disable
  <2>1. enabled' \subseteq Rings
      BY <1>1, <1>7 DEF Disable, TypeOK
  <2> QED
      BY <1>1, <1>2, <1>3, <1>7, <2>1
      DEF Disable, TypeOK, SliceInv, SlicesEnd, OnCpuDisjoint, Disjoint
<1> QED
    BY <1>4, <1>5, <1>6, <1>7

\* A sample closes a slice that starts where all earlier ones have ended.
LEMMA SampleSlice ==
  ASSUME SliceInv, NEW r \in Record, OnSample(r)
  PROVE  /\ onIv' \subseteq OnInterval
         /\ lastSample' \in [Tids -> Times]
         /\ SlicesEnd'
         /\ OnCpuDisjoint'
<1> USE TimeAssumption
<1>1. TypeOK /\ SlicesEnd /\ OnCpuDisjoint
    BY DEF SliceInv
<1>2. r.tid \in Tids /\ r.time \in Times
    BY DEF Record
<1>3. onIv' = onIv \cup ClosedSlice(r.tid, r.time)
    BY DEF OnSample
<1>4. lastSample \in [Tids -> Times]
    BY <1>1 DEF TypeOK
<1>5. CASE ~Newer(r.tid, r.time)
  <2>1. onIv' = onIv /\ lastSample' = lastSample
      BY <1>3, <1>5 DEF ClosedSlice, OnSample
  <2> QED
      BY <1>1, <2>1 DEF TypeOK, SlicesEnd, OnCpuDisjoint, Disjoint
<1>6. CASE Newer(r.tid, r.time)
  <2>1. lastSample' = [lastSample EXCEPT ![r.tid] = r.time]
      BY <1>6 DEF OnSample
  <2>2. lastSample[r.tid] < r.time
      BY <1>2, <1>4, <1>6 DEF Newer, Times
  <2>3. \A t \in Tids : lastSample[t] <= lastSample'[t]
      BY <1>2, <1>4, <2>1, <2>2 DEF Times
  <2>4. ASSUME NEW iv \in onIv
        PROVE  /\ iv \in OnInterval
               /\ iv.start < iv.end /\ iv.end <= lastSample[iv.tid]
               /\ iv.end <= lastSample'[iv.tid]
    <3>1. iv \in OnInterval
        BY <1>1 DEF TypeOK
    <3>2. iv.start < iv.end /\ iv.end <= lastSample[iv.tid]
        BY <1>1 DEF SlicesEnd
    <3> QED
        BY <1>2, <1>4, <2>1, <2>3, <3>1, <3>2 DEF OnInterval, Times
  <2>5. ASSUME NEW iv \in ClosedSlice(r.tid, r.time)
        PROVE  /\ iv \in OnInterval
               /\ iv.tid = r.tid /\ iv.start = lastSample[r.tid]
               /\ iv.start < iv.end /\ iv.end <= lastSample'[r.tid]
    <3> DEFINE gap == r.time - lastSample[r.tid]
    <3>1. gap \in Nat /\ gap > 0
        BY <1>2, <1>4, <2>2 DEF Times
    <3>2. MaxGap > 0 /\ iv = [tid |-> r.tid, start |-> lastSample[r.tid],
                              end |-> lastSample[r.tid] + Capped(gap)]
        BY <2>5 DEF ClosedSlice
    <3>3. Capped(gap) \in Nat /\ Capped(gap) > 0 /\ Capped(gap) <= gap
        BY <3>1, <3>2 DEF Capped, MinOf
    <3>4. lastSample[r.tid] + Capped(gap) \in Times /\ lastSample[r.tid] + Capped(gap) <= r.time
        BY <1>2, <1>4, <3>1, <3>3 DEF Times
    <3>5. lastSample[r.tid] < lastSample[r.tid] + Capped(gap)
        BY <1>2, <1>4, <3>3 DEF Times
    <3> HIDE DEF gap
    <3> QED
        BY <1>2, <1>4, <2>1, <3>2, <3>4, <3>5 DEF OnInterval
  <2>6. onIv' \subseteq OnInterval
      BY <1>3, <2>4, <2>5
  <2>7. lastSample' \in [Tids -> Times]
      BY <1>2, <1>4, <2>1
  <2>8. SlicesEnd'
      BY <1>3, <2>4, <2>5 DEF SlicesEnd
  <2>9. OnCpuDisjoint'
    <3>1. \A a \in onIv, b \in ClosedSlice(r.tid, r.time) : a.tid = b.tid => a.end <= b.start
        BY <2>4, <2>5
    <3>2. \A a, b \in ClosedSlice(r.tid, r.time) : a = b
        BY DEF ClosedSlice
    <3>3. \A a, b \in onIv : a.tid = b.tid /\ a # b => Disjoint(a, b)
        BY <1>1 DEF OnCpuDisjoint
    <3> QED
        BY <1>3, <3>1, <3>2, <3>3 DEF OnCpuDisjoint, Disjoint
  <2> QED
      BY <2>6, <2>7, <2>8, <2>9
<1> QED
    BY <1>5, <1>6

\* Handling one record keeps the invariant: only a timer sample touches the
\* slices, the other handlers only the rest of the session's state.
LEMMA HandleSlice ==
  ASSUME SliceInv, Handle
  PROVE  SliceInv'
<1> USE TimeAssumption
<1> DEFINE r == Head(scratch)
<1>1. TypeOK
    BY DEF SliceInv
<1>2. r \in Record /\ scratch' \in Seq(Record)
    BY <1>1 DEF Handle, TypeOK
<1>3. UNCHANGED <<now, affinity, cpuOf, run, outAt, blocks, lost, ring, enabled, phase, next>>
    BY DEF Handle, kernel, witness, perf
<1>4. OnSample(r) \/ OnSwitchSample(r) \/ OnSwitchOut(r) \/ OnPreempt(r)
        \/ OnSwitchIn(r) \/ OnWaking(r)
    BY DEF Handle
<1> HIDE DEF r
<1>5. r.tid \in Tids /\ r.time \in Times /\ 0 \in Times
    BY <1>2 DEF Record, Times
<1>6. MaxOf(lastTs, r.time) \in Times
    BY <1>1, <1>5, MaxOfTimes DEF TypeOK
<1>7. offStart[r.tid] \in [at : Times, stack : Times]
    BY <1>1, <1>5 DEF TypeOK
<1>8. CASE OnSample(r)
  <2>1. onIv' \subseteq OnInterval /\ lastSample' \in [Tids -> Times] /\ SlicesEnd' /\ OnCpuDisjoint'
      BY <1>2, <1>8, SampleSlice
  <2>2. lastStack' \in [Tids -> Times]
      BY <1>1, <1>5, <1>8 DEF OnSample, TypeOK
  <2>3. TypeOK'
      BY <1>1, <1>2, <1>3, <1>6, <1>8, <2>1, <2>2 DEF OnSample, TypeOK
  <2> QED
      BY <2>1, <2>3 DEF SliceInv
<1>9. ASSUME UNCHANGED <<lastSample, lastStack, onIv>>, switchStack' \in [Tids -> Times],
             offStart' \in [Tids -> [at : Times, stack : Times]],
             recentWaking' \in [Tids -> Times], lastTs' \in Times, offIv' \subseteq OffInterval
      PROVE  SliceInv'
  <2>1. TypeOK'
      BY <1>1, <1>2, <1>3, <1>9 DEF TypeOK
  <2> QED
      BY <1>9, <2>1 DEF SliceInv, SlicesEnd, OnCpuDisjoint, Disjoint
<1>10. CASE OnSwitchSample(r)
    BY <1>1, <1>5, <1>9, <1>10 DEF OnSwitchSample, TypeOK, sink
<1>11. CASE OnSwitchOut(r)
  <2>1. ParkedStack(r.tid) \in Times
      BY <1>1, <1>5 DEF ParkedStack, TypeOK
  <2>2. offStart' \in [Tids -> [at : Times, stack : Times]] /\ switchStack' \in [Tids -> Times]
      BY <1>1, <1>5, <1>11, <2>1 DEF OnSwitchOut, TypeOK
  <2> QED
      BY <1>1, <1>6, <1>9, <1>11, <2>2 DEF OnSwitchOut, TypeOK, sink
<1>12. CASE OnPreempt(r)
    BY <1>1, <1>5, <1>6, <1>9, <1>12 DEF OnPreempt, StaysOpen, TypeOK, sink
<1>13. CASE OnSwitchIn(r)
  <2>1. offStart' \in [Tids -> [at : Times, stack : Times]]
      BY <1>1, <1>5, <1>13 DEF OnSwitchIn, TypeOK
  <2>2. recentWaking' \in [Tids -> Times]
      BY <1>1, <1>5, <1>13 DEF OnSwitchIn, TakenWaking, TypeOK
  <2>3. Waking(r.tid, r.time) \in Times
      BY <1>1, <1>5 DEF Waking, TypeOK
  <2>4. [tid |-> r.tid, start |-> offStart[r.tid].at, end |-> r.time,
         stack |-> offStart[r.tid].stack, wake |-> Waking(r.tid, r.time)] \in OffInterval
      BY <1>5, <1>7, <2>3 DEF OffInterval
  <2>5. offIv' \subseteq OffInterval
      BY <1>1, <1>13, <2>4 DEF OnSwitchIn, TypeOK
  <2> QED
      BY <1>1, <1>6, <1>9, <1>13, <2>1, <2>2, <2>5 DEF OnSwitchIn, TypeOK
<1>14. CASE OnWaking(r)
    BY <1>1, <1>5, <1>6, <1>9, <1>14 DEF OnWaking, TypeOK, sink
<1> QED
    BY <1>4, <1>8, <1>10, <1>11, <1>12, <1>13, <1>14

\* The final flush adds off-CPU intervals only.
LEMMA FlushSlice ==
  ASSUME SliceInv, FlushOffCpu
  PROVE  SliceInv'
<1> USE TimeAssumption
<1>1. TypeOK
    BY DEF SliceInv
<1>2. 0 \in Times
    BY DEF Times
<1>3. \A t \in Tids : FlushedInterval(t) \in OffInterval
    BY <1>1, <1>2 DEF TypeOK, FlushedInterval, OffInterval
<1>4. offIv' \subseteq OffInterval
    BY <1>1, <1>3 DEF TypeOK, FlushOffCpu, Flushed, StillParked
<1>5. offStart' \in [Tids -> [at : Times, stack : Times]]
    BY <1>2 DEF FlushOffCpu
<1>6. TypeOK'
    BY <1>1, <1>4, <1>5 DEF FlushOffCpu, TypeOK, kernel, witness, perf
<1> QED
    BY <1>6 DEF SliceInv, FlushOffCpu, SlicesEnd, OnCpuDisjoint, Disjoint

\* The invariant of the on-CPU slices, for the whole session (run_with_rings
\* and every record handler).
THEOREM SliceInvariant == Spec => []SliceInv
<1>1. Init => SliceInv
    BY InitSlice
<1>2. SliceInv /\ [Next]_vars => SliceInv'
  <2> SUFFICES ASSUME SliceInv, [Next]_vars PROVE SliceInv'
      OBVIOUS
  <2>1. CASE Kernel
      BY <2>1, KernelSlice
  <2>2. CASE Enable \/ Top \/ Drain \/ Disable
      BY <2>2, LoopSlice
  <2>3. CASE Handle
      BY <2>3, HandleSlice
  <2>4. CASE FlushOffCpu
      BY <2>4, FlushSlice
  <2>5. CASE UNCHANGED vars
      BY <2>5 DEF vars, kernel, witness, perf, loop, maps, sink,
                  SliceInv, TypeOK, SlicesEnd, OnCpuDisjoint, Disjoint
  <2> QED
      BY <2>1, <2>2, <2>3, <2>4, <2>5 DEF Next, Session
<1> QED
    BY <1>1, <1>2, PTL DEF Spec

\* Type correctness of the capture session: rings, maps and intervals.
THEOREM SessionTypeCorrect == Spec => []TypeOK
<1>1. SliceInv => TypeOK
    BY DEF SliceInv
<1> QED
    BY <1>1, SliceInvariant, PTL

\* No time of a thread is booked on-CPU twice, whatever the order in which
\* its samples come out of the per-CPU rings and whatever the rings lose
\* (on_sample's interval synthesis).
THEOREM OnCpuDisjointThm == Spec => []OnCpuDisjoint
<1>1. SliceInv => OnCpuDisjoint
    BY DEF SliceInv
<1> QED
    BY <1>1, SliceInvariant, PTL

----------------------------------------------------------------------------
(* The records on their way: what the rings and the scratch buffer hold.    *)

Held(q) == {q[i] : i \in 1 .. Len(q)}

Pending == Held(scratch) \cup UNION {Held(ring[j]) : j \in Rings}

\* Record a may precede record b: only a switch-out shares its time with the
\* sample written in front of it.
Before(a, b) ==
  \/ a.time < b.time
  \/ a.time = b.time /\ a.type = "switchSample" /\ b.type \in {"out", "preempt"}

InOrder(q) == \A i, j \in 1 .. Len(q) : i < j => Before(q[i], q[j])

\* The switch sample that belongs to switch-out r.
SampleOf(r) == [type |-> "switchSample", tid |-> r.tid, time |-> r.time, user |-> TRUE]

\* A switch-out in user code comes right after its sample.
SampledOut(q, i) == i > 1 /\ q[i - 1] = SampleOf(q[i])
UserOut(r) == r.type = "out" /\ r.user

RingsInv ==
  /\ \A j \in Rings : /\ Len(ring[j]) <= RingCap
                      /\ InOrder(ring[j])
                      /\ \A i \in 1 .. Len(ring[j]) :
                           UserOut(ring[j][i]) => SampledOut(ring[j], i)
  /\ InOrder(scratch)
  /\ \A i \in 1 .. Len(scratch) :
       UserOut(scratch[i]) => \/ SampledOut(scratch, i)
                              \/ i = 1 /\ switchStack[scratch[i].tid] = scratch[i].time
  /\ \A r \in Pending : r.time \in 1 .. now

\* A tick writes one ring, and a ring that is drained is emptied.
ApartInv ==
  \A j \in Rings : \A x \in Held(ring[j]) :
    /\ \A k \in Rings : \A y \in Held(ring[k]) : x.time = y.time => j = k
    /\ \A y \in Held(scratch) : x.time # y.time

\* A thread's switch-outs and switch-ins, the records that move its spans.
Moves(r, t) == r.tid = t /\ r.type \in {"out", "in"}

\* A thread bound to one CPU has them in one place.
HomeInv ==
  \A t \in Tids :
    /\ cpuOf[t] \in affinity[t] \cup {0}
    /\ run[t] = "running" => cpuOf[t] # 0
    /\ \A c \in Cpus : affinity[t] = {c} =>
         /\ \A j \in Rings : \A r \in Held(ring[j]) : Moves(r, t) => j = SwitchRing(c)
         /\ \A r \in Held(scratch) : Moves(r, t) => ring[SwitchRing(c)] = <<>>

\* The final sweep leaves nothing behind.
SweepInv ==
  /\ phase = "top" => next = 1
  /\ phase = "disable" => \A j \in Rings : j < next => j \notin enabled
  /\ phase = "sweep" => enabled = {} /\ \A j \in Rings : j < next => ring[j] = <<>>
  /\ phase \in {"flush", "done"} => enabled = {} /\ \A j \in Rings : ring[j] = <<>>
  /\ phase = "done" => scratch = <<>>

QueueInv == RingsInv /\ ApartInv /\ HomeInv /\ SweepInv

\* The times of records, as numbers.
LEMMA RecordTime == \A r \in Record : r.time \in Nat /\ r.tid \in Tids /\ r.user \in BOOLEAN
BY TimeAssumption DEF Record, Times

\* Taking the head of a queue leaves the others, one place further up.
LEMMA TailHeld ==
  ASSUME NEW q \in Seq(Record), q # <<>>
  PROVE  /\ Tail(q) \in Seq(Record) /\ Head(q) \in Record
         /\ Len(Tail(q)) = Len(q) - 1 /\ Len(q) >= 1 /\ Head(q) = q[1]
         /\ \A i \in 1 .. Len(Tail(q)) : Tail(q)[i] = q[i + 1]
         /\ Held(q) = {Head(q)} \cup Held(Tail(q))
<1>1. /\ Tail(q) \in Seq(Record) /\ Head(q) \in Record
      /\ Len(Tail(q)) = Len(q) - 1 /\ Len(q) >= 1 /\ Len(q) \in Nat /\ Head(q) = q[1]
      /\ \A i \in 1 .. Len(Tail(q)) : Tail(q)[i] = q[i + 1]
    OBVIOUS
<1>2. \A i \in 1 .. Len(q) : i = 1 \/ i - 1 \in 1 .. Len(Tail(q))
    BY <1>1
<1>3. \A i \in 1 .. Len(q) : q[i] = Head(q) \/ q[i] = Tail(q)[i - 1]
    BY <1>1, <1>2
<1>4. Held(q) \subseteq {Head(q)} \cup Held(Tail(q))
    BY <1>2, <1>3 DEF Held
<1>5. Held(Tail(q)) \subseteq Held(q)
    BY <1>1 DEF Held
<1>6. Head(q) \in Held(q)
    BY <1>1 DEF Held
<1> QED
    BY <1>1, <1>4, <1>5, <1>6

\* In a queue in order, the head comes before all others.
LEMMA HeadFirst ==
  ASSUME NEW q \in Seq(Record), q # <<>>, InOrder(q)
  PROVE  /\ InOrder(Tail(q))
         /\ \A x \in Held(Tail(q)) : Before(Head(q), x)
<1>1. /\ Tail(q) \in Seq(Record)
      /\ Len(Tail(q)) = Len(q) - 1 /\ Len(q) >= 1 /\ Len(q) \in Nat /\ Head(q) = q[1]
      /\ \A i \in 1 .. Len(Tail(q)) : Tail(q)[i] = q[i + 1]
    BY TailHeld
<1>2. ASSUME NEW i \in 1 .. Len(Tail(q)), NEW j \in 1 .. Len(Tail(q)), i < j
      PROVE  Before(Tail(q)[i], Tail(q)[j])
  <2>1. i + 1 \in 1 .. Len(q) /\ j + 1 \in 1 .. Len(q) /\ i + 1 < j + 1
      BY <1>1, <1>2
  <2> QED
      BY <1>1, <2>1 DEF InOrder
<1>3. ASSUME NEW i \in 1 .. Len(Tail(q))
      PROVE  Before(Head(q), Tail(q)[i])
  <2>1. 1 \in 1 .. Len(q) /\ i + 1 \in 1 .. Len(q) /\ 1 < i + 1
      BY <1>1
  <2> QED
      BY <1>1, <2>1 DEF InOrder
<1> QED
    BY <1>2, <1>3 DEF InOrder, Held

\* What a write does to the rings: the written one gets records at its end,
\* all of them if none of the thread's is lost.
LEMMA WriteRing ==
  ASSUME TypeOK, \A j \in Rings : Len(ring[j]) <= RingCap,
         NEW i \in Rings, NEW t \in Tids, NEW recs \in Seq(Record), Write(i, t, recs)
  PROVE  /\ \A j \in Rings : j # i => ring'[j] = ring[j]
         /\ i \notin enabled => ring' = ring /\ lost' = lost
         /\ lost \subseteq lost'
         /\ Len(ring'[i]) \in Len(ring[i]) .. (Len(ring[i]) + Len(recs))
         /\ Len(ring'[i]) <= RingCap
         /\ \A k \in 1 .. Len(ring[i]) : ring'[i][k] = ring[i][k]
         /\ \A k \in (Len(ring[i]) + 1) .. Len(ring'[i]) : ring'[i][k] = recs[k - Len(ring[i])]
         /\ i \in enabled /\ t \notin lost' => Len(ring'[i]) = Len(ring[i]) + Len(recs)
<1> DEFINE q == ring[i]
<1>1. q \in Seq(Record) /\ Len(q) \in Nat /\ Len(recs) \in Nat /\ ring \in [Rings -> Seq(Record)]
    BY DEF TypeOK
<1>2. Len(q) <= RingCap
    OBVIOUS
<1>3. CASE i \notin enabled
  <2>1. ring' = ring /\ lost' = lost
      BY <1>3 DEF Write
  <2> QED
      BY <1>1, <1>2, <1>3, <2>1
<1>4. CASE i \in enabled
  <2> DEFINE all == q \o recs
  <2> DEFINE n == MinOf(Len(all), RingCap)
  <2>1. all \in Seq(Record) /\ Len(all) = Len(q) + Len(recs)
      BY <1>1
  <2>2. \A k \in 1 .. Len(q) : all[k] = q[k]
      BY <1>1
  <2>3. \A k \in (Len(q) + 1) .. (Len(q) + Len(recs)) : all[k] = recs[k - Len(q)]
      BY <1>1
  <2>4. ring' = [ring EXCEPT ![i] = SubSeq(all, 1, n)]
      BY <1>4 DEF Write
  <2>5. lost' = IF Len(all) > RingCap THEN lost \cup {t} ELSE lost
      BY <1>4 DEF Write
  <2> HIDE DEF q, all, n
  <2>6. n \in Nat /\ n <= Len(all) /\ n <= RingCap /\ Len(q) <= n
      BY <1>1, <1>2, <2>1, RingAssumption DEF n, MinOf
  <2>7. ring'[i] = SubSeq(all, 1, n) /\ \A j \in Rings : j # i => ring'[j] = ring[j]
      BY <1>1, <2>4
  <2>8. Len(SubSeq(all, 1, n)) = n /\ \A k \in 1 .. n : SubSeq(all, 1, n)[k] = all[k]
      BY <2>1, <2>6
  <2>9. t \notin lost' => n = Len(q) + Len(recs)
      BY <2>1, <2>5, <1>1, RingAssumption DEF n, MinOf
  <2>10. \A k \in 1 .. Len(q) : ring'[i][k] = q[k]
      BY <2>2, <2>6, <2>7, <2>8, <1>1
  <2>11. \A k \in (Len(q) + 1) .. n : ring'[i][k] = recs[k - Len(q)]
    <3> SUFFICES ASSUME NEW k \in (Len(q) + 1) .. n PROVE ring'[i][k] = recs[k - Len(q)]
        OBVIOUS
    <3>1. k \in 1 .. n /\ k \in (Len(q) + 1) .. (Len(q) + Len(recs))
        BY <1>1, <2>1, <2>6
    <3> QED
        BY <2>3, <2>7, <2>8, <3>1
  <2>12. Len(ring'[i]) = n
      BY <2>7, <2>8
  <2> QED
      BY <1>1, <1>4, <2>1, <2>5, <2>6, <2>7, <2>9, <2>10, <2>11, <2>12 DEF q
<1> QED
    BY <1>3, <1>4

\* What the kernel writes about thread t in one tick: a record, or a switch-out
\* after its sample.
Stamped(t, recs) ==
  /\ recs \in Seq(Record)
  /\ Len(recs) \in 1 .. 2
  /\ \A k \in 1 .. Len(recs) : recs[k].tid = t /\ recs[k].time = now + 1
  /\ Len(recs) = 2 => Before(recs[1], recs[2])
  /\ \A k \in 1 .. Len(recs) : UserOut(recs[k]) => k = 2 /\ recs[1] = SampleOf(recs[2])

\* The kernel puts recs in ring i, the switch ring of a CPU thread t may run on
\* if they move its spans.
Put(i, t, recs) ==
  /\ i \in Rings /\ t \in Tids
  /\ Stamped(t, recs)
  /\ \A k \in 1 .. Len(recs) : Moves(recs[k], t) => \E c \in affinity[t] : i = SwitchRing(c)
  /\ Tick
  /\ Write(i, t, recs)

\* The ring a put goes to, record by record.
LEMMA PutRing ==
  ASSUME TypeOK, RingsInv, NEW i, NEW t, NEW recs, Put(i, t, recs)
  PROVE  /\ InOrder(ring'[i])
         /\ \A k \in 1 .. Len(ring'[i]) : UserOut(ring'[i][k]) => SampledOut(ring'[i], k)
         /\ \A k \in 1 .. Len(ring'[i]) :
              \/ k \in 1 .. Len(ring[i]) /\ ring'[i][k] = ring[i][k]
              \/ \E m \in 1 .. Len(recs) : ring'[i][k] = recs[m]
<1> DEFINE q == ring[i]
<1> DEFINE p == ring'[i]
<1>1. i \in Rings /\ t \in Tids /\ recs \in Seq(Record) /\ Stamped(t, recs) /\ Write(i, t, recs)
    BY DEF Put, Stamped
<1>2. q \in Seq(Record) /\ Len(q) \in Nat /\ Len(recs) \in Nat /\ now \in Nat
    BY <1>1, TimeAssumption DEF TypeOK, Times
<1>3. /\ Len(p) \in Len(q) .. (Len(q) + Len(recs))
      /\ \A k \in 1 .. Len(q) : p[k] = q[k]
      /\ \A k \in (Len(q) + 1) .. Len(p) : p[k] = recs[k - Len(q)]
    BY <1>1, WriteRing DEF RingsInv
<1>4. InOrder(q) /\ \A k \in 1 .. Len(q) : UserOut(q[k]) => SampledOut(q, k)
    BY <1>1 DEF RingsInv
<1>5. \A k \in 1 .. Len(q) : q[k].time \in Nat /\ q[k].time <= now
  <2>1. \A k \in 1 .. Len(q) : q[k] \in Pending
      BY <1>1 DEF Pending, Held
  <2> QED
      BY <1>2, <2>1 DEF RingsInv
<1>6. /\ Len(recs) \in 1 .. 2
      /\ \A k \in 1 .. Len(recs) : recs[k].time = now + 1
      /\ Len(recs) = 2 => Before(recs[1], recs[2])
      /\ \A k \in 1 .. Len(recs) : UserOut(recs[k]) => k = 2 /\ recs[1] = SampleOf(recs[2])
    BY <1>1 DEF Stamped
<1> HIDE DEF q, p
<1>7. ASSUME NEW k \in 1 .. Len(p)
      PROVE  \/ k \in 1 .. Len(q) /\ p[k] = q[k]
             \/ k - Len(q) \in 1 .. Len(recs) /\ p[k] = recs[k - Len(q)] /\ k > Len(q)
  <2>1. k \in 1 .. Len(q) \/ k \in (Len(q) + 1) .. Len(p)
      BY <1>2, <1>3
  <2>2. k \in (Len(q) + 1) .. Len(p) => k - Len(q) \in 1 .. Len(recs)
      BY <1>2, <1>3
  <2> QED
      BY <1>2, <1>3, <2>1, <2>2
<1>8. ASSUME NEW a \in 1 .. Len(p), NEW b \in 1 .. Len(p), a < b
      PROVE  Before(p[a], p[b])
  <2>1. CASE b \in 1 .. Len(q)
    <3>1. a \in 1 .. Len(q)
        BY <1>2, <1>8, <2>1
    <3> QED
        BY <1>3, <1>4, <1>8, <2>1, <3>1 DEF InOrder
  <2>2. CASE b \notin 1 .. Len(q) /\ a \in 1 .. Len(q)
    <3>1. p[a].time <= now /\ p[b].time = now + 1 /\ p[a].time \in Nat
        BY <1>3, <1>5, <1>6, <1>7, <2>2
    <3> QED
        BY <1>2, <3>1 DEF Before
  <2>3. CASE b \notin 1 .. Len(q) /\ a \notin 1 .. Len(q)
    <3>1. a - Len(q) \in 1 .. Len(recs) /\ p[a] = recs[a - Len(q)]
        BY <1>7, <2>3
    <3>2. b - Len(q) \in 1 .. Len(recs) /\ p[b] = recs[b - Len(q)]
        BY <1>7, <2>3
    <3>3. Len(recs) = 2 /\ a - Len(q) = 1 /\ b - Len(q) = 2
        BY <1>2, <1>6, <1>8, <3>1, <3>2
    <3> QED
        BY <1>6, <3>1, <3>2, <3>3
  <2> QED
      BY <2>1, <2>2, <2>3
<1>9. ASSUME NEW k \in 1 .. Len(p), UserOut(p[k])
      PROVE  SampledOut(p, k)
  <2>1. CASE k \in 1 .. Len(q)
    <3>1. p[k] = q[k] /\ k > 1 /\ q[k - 1] = SampleOf(q[k])
        BY <1>3, <1>4, <1>9, <2>1 DEF SampledOut
    <3>2. k - 1 \in 1 .. Len(q)
        BY <1>2, <2>1, <3>1
    <3> QED
        BY <1>3, <3>1, <3>2 DEF SampledOut
  <2>2. CASE k \notin 1 .. Len(q)
    <3>1. k - Len(q) \in 1 .. Len(recs) /\ p[k] = recs[k - Len(q)]
        BY <1>7, <2>2
    <3>2. k - Len(q) = 2 /\ recs[1] = SampleOf(recs[2])
        BY <1>6, <1>9, <3>1
    <3>3. k - 1 \in 1 .. Len(p) /\ k - 1 \notin 1 .. Len(q) /\ (k - 1) - Len(q) = 1
        BY <1>2, <3>2
    <3>4. p[k - 1] = recs[1]
      <4>1. p[k - 1] = recs[(k - 1) - Len(q)]
          BY <1>7, <3>3
      <4> QED
          BY <3>3, <4>1
    <3> QED
        BY <1>2, <3>1, <3>2, <3>3, <3>4 DEF SampledOut
  <2> QED
      BY <2>1, <2>2
<1>10. InOrder(p)
    BY <1>8 DEF InOrder
<1> QED
    BY <1>7, <1>9, <1>10 DEF q, p

\* What is on its way after a put.
LEMMA PutPending ==
  ASSUME TypeOK, RingsInv, scratch = <<>>, NEW i, NEW t, NEW recs, Put(i, t, recs)
  PROVE  /\ Pending \subseteq Pending'
         /\ Pending' \subseteq Pending \cup Held(recs)
         /\ \A r \in Held(recs) : r \in Record /\ r.tid = t /\ r.time = now + 1
         /\ i \notin enabled => Pending' = Pending /\ lost' = lost
         /\ i \in enabled /\ t \notin lost' => Held(recs) \subseteq Pending'
         /\ lost \subseteq lost'
         /\ \A j \in Rings : Held(ring'[j]) \subseteq Held(ring[j]) \cup Held(recs)
         /\ \A j \in Rings \ {i} : ring'[j] = ring[j]
<1>1. i \in Rings /\ t \in Tids /\ recs \in Seq(Record) /\ Stamped(t, recs) /\ Write(i, t, recs) /\ Tick
    BY DEF Put, Stamped
<1>2. ring[i] \in Seq(Record) /\ Len(ring[i]) \in Nat /\ Len(recs) \in Nat
    BY <1>1 DEF TypeOK
<1>3. /\ \A j \in Rings : j # i => ring'[j] = ring[j]
      /\ i \notin enabled => ring' = ring /\ lost' = lost
      /\ lost \subseteq lost'
      /\ Len(ring'[i]) \in Len(ring[i]) .. (Len(ring[i]) + Len(recs))
      /\ \A k \in 1 .. Len(ring[i]) : ring'[i][k] = ring[i][k]
      /\ \A k \in (Len(ring[i]) + 1) .. Len(ring'[i]) : ring'[i][k] = recs[k - Len(ring[i])]
      /\ i \in enabled /\ t \notin lost' => Len(ring'[i]) = Len(ring[i]) + Len(recs)
    BY <1>1, WriteRing DEF RingsInv
<1>4. scratch' = scratch
    BY <1>1 DEF Tick, loop
<1>5. Held(ring'[i]) \subseteq Held(ring[i]) \cup Held(recs)
  <2>1. \A k \in 1 .. Len(ring'[i]) :
              \/ k \in 1 .. Len(ring[i]) /\ ring'[i][k] = ring[i][k]
              \/ \E m \in 1 .. Len(recs) : ring'[i][k] = recs[m]
      BY PutRing
  <2> QED
      BY <2>1 DEF Held
<1>6. Held(ring[i]) \subseteq Held(ring'[i])
  <2>1. \A k \in 1 .. Len(ring[i]) : k \in 1 .. Len(ring'[i])
      BY <1>2, <1>3
  <2> QED
      BY <1>3, <2>1 DEF Held
<1>7. i \in enabled /\ t \notin lost' => Held(recs) \subseteq Held(ring'[i])
  <2> SUFFICES ASSUME i \in enabled, t \notin lost', NEW m \in 1 .. Len(recs)
               PROVE  recs[m] \in Held(ring'[i])
      BY DEF Held
  <2>1. Len(ring'[i]) = Len(ring[i]) + Len(recs)
      BY <1>3
  <2> DEFINE k == Len(ring[i]) + m
  <2>2. k \in 1 .. Len(ring'[i]) /\ k \in (Len(ring[i]) + 1) .. Len(ring'[i]) /\ k - Len(ring[i]) = m
      BY <1>2, <2>1
  <2>3. ring'[i][k] = recs[k - Len(ring[i])]
      BY <1>3, <2>2
  <2> QED
      BY <2>2, <2>3 DEF Held
<1>8. \A r \in Held(recs) : r \in Record /\ r.tid = t /\ r.time = now + 1
  <2>1. \A k \in 1 .. Len(recs) : recs[k] \in Record
      BY <1>1
  <2> QED
      BY <1>1, <2>1 DEF Stamped, Held
<1>9. \A j \in Rings : Held(ring[j]) \subseteq Held(ring'[j])
    BY <1>3, <1>6
<1>10. \A j \in Rings : Held(ring'[j]) \subseteq Held(ring[j]) \cup Held(recs)
    BY <1>3, <1>5
<1>11. Pending \subseteq Pending' /\ Pending' \subseteq Pending \cup Held(recs)
    BY <1>4, <1>9, <1>10 DEF Pending
<1>12. i \notin enabled => Pending' = Pending
    BY <1>3, <1>4 DEF Pending
<1>13. i \in enabled /\ t \notin lost' => Held(recs) \subseteq Pending'
    BY <1>1, <1>7 DEF Pending
<1> QED
    BY <1>3, <1>8, <1>10, <1>11, <1>12, <1>13

\* A put keeps the rings in order, apart, and each thread's moves at home.
LEMMA PutQueue ==
  ASSUME TypeOK, QueueInv, scratch = <<>>, NEW i, NEW t, NEW recs, Put(i, t, recs),
         \A u \in Tids : /\ cpuOf'[u] \in affinity[u] \cup {0}
                         /\ run'[u] = "running" => cpuOf'[u] # 0
  PROVE  QueueInv'
<1> USE TimeAssumption
<1>1. /\ i \in Rings /\ t \in Tids /\ Stamped(t, recs) /\ Write(i, t, recs) /\ Tick
      /\ recs \in Seq(Record)
    BY DEF Put, Stamped
<1>2. UNCHANGED <<affinity, enabled, phase, next, scratch, switchStack>> /\ now' = now + 1
    BY <1>1 DEF Tick, loop, maps
<1>3. now \in Nat /\ \A r \in Pending : r.time \in 1 .. now
    BY DEF TypeOK, Times, QueueInv, RingsInv
<1>4. /\ Pending' \subseteq Pending \cup Held(recs)
      /\ \A r \in Held(recs) : r.tid = t /\ r.time = now + 1
      /\ i \notin enabled => ring' = ring
      /\ \A j \in Rings : Held(ring'[j]) \subseteq Held(ring[j]) \cup Held(recs)
      /\ \A j \in Rings \ {i} : ring'[j] = ring[j]
    BY <1>1, PutPending DEF QueueInv, Write
<1>5. Held(scratch) = {}
    BY DEF Held
<1>6. RingsInv'
  <2>1. Len(ring'[i]) <= RingCap
      BY <1>1, WriteRing DEF QueueInv, RingsInv
  <2>2. InOrder(ring'[i]) /\ \A k \in 1 .. Len(ring'[i]) : UserOut(ring'[i][k]) => SampledOut(ring'[i], k)
      BY PutRing DEF QueueInv
  <2>3. \A r \in Pending' : r.time \in 1 .. now'
      BY <1>2, <1>3, <1>4
  <2>4. ASSUME NEW j \in Rings
        PROVE  /\ Len(ring'[j]) <= RingCap /\ InOrder(ring'[j])
               /\ \A k \in 1 .. Len(ring'[j]) : UserOut(ring'[j][k]) => SampledOut(ring'[j], k)
    <3>1. CASE j = i
        BY <2>1, <2>2, <3>1
    <3>2. CASE j # i
        BY <1>4, <3>2 DEF QueueInv, RingsInv
    <3> QED
        BY <3>1, <3>2
  <2>5. scratch' = <<>> /\ Len(scratch') = 0
      BY <1>2
  <2> QED
      BY <2>3, <2>4, <2>5 DEF RingsInv, InOrder
<1>7. ApartInv'
  <2> SUFFICES ASSUME NEW j \in Rings, NEW x \in Held(ring'[j]),
                      NEW k \in Rings, NEW y \in Held(ring'[k]), x.time = y.time
               PROVE  j = k
      BY <1>2, <1>5 DEF ApartInv
  <2>1. CASE x \in Held(ring[j]) /\ y \in Held(ring[k])
      BY <2>1 DEF QueueInv, ApartInv
  <2>2. \A z \in Rings : z # i => Held(ring'[z]) = Held(ring[z])
      BY <1>4
  <2>3. \A z \in Rings : \A w \in Held(ring[z]) : w.time <= now
      BY <1>3 DEF Pending
  <2>4. CASE x \notin Held(ring[j]) /\ y \in Held(ring[k])
    <3>1. x.time = now + 1 /\ y.time <= now
        BY <1>4, <2>3, <2>4
    <3>2. \A n \in Nat : ~(n + 1 <= n)
        OBVIOUS
    <3> QED
        BY <1>3, <3>1, <3>2
  <2>5. CASE x \in Held(ring[j]) /\ y \notin Held(ring[k])
    <3>1. y.time = now + 1 /\ x.time <= now
        BY <1>4, <2>3, <2>5
    <3>2. \A n \in Nat : ~(n + 1 <= n)
        OBVIOUS
    <3> QED
        BY <1>3, <3>1, <3>2
  <2>6. CASE x \notin Held(ring[j]) /\ y \notin Held(ring[k])
      BY <2>2, <2>6
  <2> QED
      BY <2>1, <2>4, <2>5, <2>6
<1>8. HomeInv'
  <2> SUFFICES ASSUME NEW u \in Tids
               PROVE  /\ cpuOf'[u] \in affinity[u] \cup {0}
                      /\ run'[u] = "running" => cpuOf'[u] # 0
                      /\ \A c \in Cpus : affinity[u] = {c} =>
                           \A j \in Rings : \A r \in Held(ring'[j]) : Moves(r, u) => j = SwitchRing(c)
      BY <1>2, <1>5 DEF HomeInv
  <2>1. ASSUME NEW c \in Cpus, affinity[u] = {c}, NEW j \in Rings, NEW r \in Held(ring'[j]), Moves(r, u)
        PROVE  j = SwitchRing(c)
    <3>1. CASE r \in Held(ring[j])
        BY <2>1, <3>1 DEF QueueInv, HomeInv
    <3>2. CASE r \notin Held(ring[j])
      <4>1. r \in Held(recs) /\ j = i
          BY <1>4, <2>1, <3>2
      <4>2. u = t
          BY <1>4, <2>1, <4>1 DEF Moves
      <4>3. PICK k \in 1 .. Len(recs) : r = recs[k]
          BY <4>1 DEF Held
      <4>4. \E d \in affinity[t] : i = SwitchRing(d)
          BY <2>1, <4>2, <4>3 DEF Put
      <4> QED
          BY <2>1, <4>1, <4>2, <4>4
    <3> QED
        BY <3>1, <3>2
  <2> QED
      BY <2>1
<1>9. SweepInv'
  <2>1. enabled = {} => ring' = ring
      BY <1>4
  <2> QED
      BY <1>2, <2>1 DEF QueueInv, SweepInv
<1> QED
    BY <1>6, <1>7, <1>8, <1>9 DEF QueueInv

\* The rings of a CPU.
LEMMA RingOfCpu ==
  \A c \in Cpus : SamplingRing(c) \in Rings /\ SwitchRing(c) \in Rings /\ WakingRing(c) \in Rings
BY CpuAssumption DEF Cpus, Rings, SamplingRing, SwitchRing, WakingRing

\* One record of the kernel, and two of them, as queues.
LEMMA OneRecord ==
  ASSUME TypeOK, Tick, NEW t \in Tids, NEW user \in BOOLEAN,
         NEW type \in {"sample", "in", "waking"}
  PROVE  /\ Stamped(t, <<Rec(type, t, user)>>)
         /\ Held(<<Rec(type, t, user)>>) = {Rec(type, t, user)}
<1> DEFINE q == <<Rec(type, t, user)>>
<1>1. Rec(type, t, user) \in Record
    BY RecType DEF Tick
<1>2. q \in Seq(Record) /\ Len(q) = 1 /\ q[1] = Rec(type, t, user)
    BY <1>1
<1>3. \A k \in 1 .. Len(q) : q[k] = Rec(type, t, user)
    BY <1>2
<1>4. /\ Rec(type, t, user).tid = t /\ Rec(type, t, user).time = now + 1
      /\ Rec(type, t, user).type = type
    BY DEF Rec
<1>5. ~UserOut(Rec(type, t, user))
    BY <1>4 DEF UserOut
<1> HIDE DEF q
<1>6. Stamped(t, q)
    BY <1>2, <1>3, <1>4, <1>5 DEF Stamped
<1>7. Held(q) = {Rec(type, t, user)}
    BY <1>2, <1>3 DEF Held
<1> QED
    BY <1>6, <1>7 DEF q

\* A switch-out's two records: the sample in front of the switch.
LEMMA TwoRecords ==
  ASSUME TypeOK, Tick, NEW t \in Tids, NEW user \in BOOLEAN, NEW type \in {"out", "preempt"}
  PROVE  /\ Stamped(t, <<Rec("switchSample", t, user), Rec(type, t, user)>>)
         /\ Held(<<Rec("switchSample", t, user), Rec(type, t, user)>>)
              = {Rec("switchSample", t, user), Rec(type, t, user)}
<1> DEFINE a == Rec("switchSample", t, user)
<1> DEFINE b == Rec(type, t, user)
<1> DEFINE q == <<a, b>>
<1>1. a \in Record /\ b \in Record
    BY RecType DEF Tick
<1>2. q \in Seq(Record) /\ Len(q) = 2 /\ q[1] = a /\ q[2] = b
    BY <1>1
<1>3. \A k \in 1 .. Len(q) : (k = 1 /\ q[k] = a) \/ (k = 2 /\ q[k] = b)
    BY <1>2
<1>4. /\ a.tid = t /\ a.time = now + 1 /\ a.type = "switchSample"
      /\ b.tid = t /\ b.time = now + 1 /\ b.type = type /\ b.user = user
    BY DEF Rec
<1>5. ~UserOut(a) /\ Before(a, b)
    BY <1>4 DEF UserOut, Before
<1>6. UserOut(b) => a = SampleOf(b)
    BY DEF UserOut, SampleOf, Rec
<1> HIDE DEF a, b, q
<1>7. Stamped(t, q)
    BY <1>2, <1>3, <1>4, <1>5, <1>6 DEF Stamped
<1>8. Held(q) = {a, b}
    BY <1>2, <1>3 DEF Held
<1> QED
    BY <1>7, <1>8 DEF a, b, q

\* The CPU of a running thread is one it may run on.
LEMMA RunningCpu ==
  ASSUME TypeOK, HomeInv, NEW t \in Tids, run[t] = "running"
  PROVE  cpuOf[t] \in Cpus /\ cpuOf[t] \in affinity[t]
BY DEF HomeInv, TypeOK

\* Each action of the kernel is a put. A sample goes to the sampling ring of
\* the thread's CPU.
LEMMA SamplePut ==
  ASSUME TypeOK, HomeInv, NEW t \in Tids, NEW user \in BOOLEAN, Sample(t, user)
  PROVE  Put(SamplingRing(cpuOf[t]), t, <<Rec("sample", t, user)>>)
<1>1. Tick /\ run[t] = "running" /\ Write(SamplingRing(cpuOf[t]), t, <<Rec("sample", t, user)>>)
    BY DEF Sample
<1>2. SamplingRing(cpuOf[t]) \in Rings
    BY <1>1, RunningCpu, RingOfCpu
<1>3. /\ Stamped(t, <<Rec("sample", t, user)>>)
      /\ Held(<<Rec("sample", t, user)>>) = {Rec("sample", t, user)}
    BY <1>1, OneRecord
<1>4. \A k \in 1 .. Len(<<Rec("sample", t, user)>>) : ~Moves(<<Rec("sample", t, user)>>[k], t)
  <2>1. ~Moves(Rec("sample", t, user), t)
      BY DEF Moves, Rec
  <2> QED
      BY <1>3, <2>1 DEF Held
<1> QED
    BY <1>1, <1>2, <1>3, <1>4 DEF Put

\* A switch-out puts them in the switch ring of the CPU it leaves.
LEMMA SwitchOutPut ==
  ASSUME TypeOK, HomeInv, NEW t \in Tids, NEW user \in BOOLEAN,
         NEW type \in {"out", "preempt"}, NEW state, SwitchOut(t, type, state, user)
  PROVE  /\ Put(SwitchRing(cpuOf[t]), t, <<Rec("switchSample", t, user), Rec(type, t, user)>>)
         /\ cpuOf[t] \in affinity[t]
<1> DEFINE recs == <<Rec("switchSample", t, user), Rec(type, t, user)>>
<1>1. Tick /\ run[t] = "running" /\ Write(SwitchRing(cpuOf[t]), t, recs)
    BY DEF SwitchOut
<1>2. SwitchRing(cpuOf[t]) \in Rings /\ cpuOf[t] \in affinity[t]
    BY <1>1, RunningCpu, RingOfCpu
<1>3. Stamped(t, recs)
    BY <1>1, TwoRecords
<1> HIDE DEF recs
<1> QED
    BY <1>1, <1>2, <1>3 DEF Put, recs

\* A switch-in puts its record in the switch ring of the CPU it gets.
LEMMA SwitchInPut ==
  ASSUME TypeOK, NEW t \in Tids, NEW c \in Cpus, SwitchIn(t, c)
  PROVE  Put(SwitchRing(c), t, <<Rec("in", t, FALSE)>>)
<1> DEFINE recs == <<Rec("in", t, FALSE)>>
<1>1. Tick /\ c \in affinity[t] /\ Write(SwitchRing(c), t, recs)
    BY DEF SwitchIn
<1>2. SwitchRing(c) \in Rings
    BY RingOfCpu
<1>3. Stamped(t, recs)
  <2>1. \A user \in BOOLEAN : Stamped(t, <<Rec("in", t, user)>>)
      BY <1>1, OneRecord
  <2>2. FALSE \in BOOLEAN
      OBVIOUS
  <2> QED
      BY <2>1, <2>2, Zenon
<1> HIDE DEF recs
<1> QED
    BY <1>1, <1>2, <1>3 DEF Put, recs

\* A wakeup puts its record in the waking ring of the waker's CPU.
LEMMA WakePut ==
  ASSUME TypeOK, NEW t \in Tids, NEW c \in Cpus, Wake(t, c)
  PROVE  Put(WakingRing(c), t, <<Rec("waking", t, FALSE)>>)
<1> DEFINE recs == <<Rec("waking", t, FALSE)>>
<1>1. Tick /\ Write(WakingRing(c), t, recs)
    BY DEF Wake
<1>2. WakingRing(c) \in Rings
    BY RingOfCpu
<1>3. Stamped(t, recs) /\ Held(recs) = {Rec("waking", t, FALSE)}
  <2>1. \A user \in BOOLEAN : /\ Stamped(t, <<Rec("waking", t, user)>>)
                              /\ Held(<<Rec("waking", t, user)>>) = {Rec("waking", t, user)}
      BY <1>1, OneRecord
  <2>2. FALSE \in BOOLEAN
      OBVIOUS
  <2> QED
      BY <2>1, <2>2, Zenon
<1>4. ~Moves(Rec("waking", t, FALSE), t)
    BY DEF Moves, Rec
<1> HIDE DEF recs
<1>5. \A k \in 1 .. Len(recs) : ~Moves(recs[k], t)
    BY <1>3, <1>4 DEF Held
<1> QED
    BY <1>1, <1>2, <1>3, <1>5 DEF Put, recs

\* Every action of the kernel keeps the rings in order.
LEMMA KernelQueue ==
  ASSUME TypeOK, QueueInv, scratch = <<>>, Kernel
  PROVE  QueueInv'
<1>1. HomeInv
    BY DEF QueueInv
<1>2. \A u \in Tids : /\ cpuOf[u] \in affinity[u] \cup {0}
                      /\ run[u] = "running" => cpuOf[u] # 0
    BY <1>1 DEF HomeInv
<1>3. cpuOf \in [Tids -> 0 .. CpuCount] /\ run \in [Tids -> {"ready", "running", "blocked"}]
    BY DEF TypeOK
<1>4. ASSUME NEW t \in Tids, NEW user \in BOOLEAN, Sample(t, user)
      PROVE  QueueInv'
  <2>1. UNCHANGED <<cpuOf, run>>
      BY <1>4 DEF Sample
  <2> QED
      BY <1>1, <1>2, <1>4, <2>1, SamplePut, PutQueue
<1>5. ASSUME NEW t \in Tids, NEW user \in BOOLEAN, NEW type \in {"out", "preempt"},
             NEW state \in {"blocked", "ready"}, SwitchOut(t, type, state, user)
      PROVE  QueueInv'
  <2>1. cpuOf' = [cpuOf EXCEPT ![t] = 0] /\ run' = [run EXCEPT ![t] = state]
      BY <1>5 DEF SwitchOut
  <2>2. \A u \in Tids : /\ cpuOf'[u] \in affinity[u] \cup {0}
                        /\ run'[u] = "running" => cpuOf'[u] # 0
      BY <1>2, <1>3, <2>1
  <2>3. Put(SwitchRing(cpuOf[t]), t, <<Rec("switchSample", t, user), Rec(type, t, user)>>)
      BY <1>1, <1>5, SwitchOutPut
  <2> QED
      BY <2>2, <2>3, PutQueue
<1>6. ASSUME NEW t \in Tids, NEW c \in Cpus, SwitchIn(t, c)
      PROVE  QueueInv'
  <2>1. cpuOf' = [cpuOf EXCEPT ![t] = c] /\ run' = [run EXCEPT ![t] = "running"] /\ c \in affinity[t]
      BY <1>6 DEF SwitchIn
  <2>2. c # 0
      BY CpuAssumption DEF Cpus
  <2>3. \A u \in Tids : /\ cpuOf'[u] \in affinity[u] \cup {0}
                        /\ run'[u] = "running" => cpuOf'[u] # 0
      BY <1>2, <1>3, <2>1, <2>2
  <2>4. Put(SwitchRing(c), t, <<Rec("in", t, FALSE)>>)
      BY <1>6, SwitchInPut
  <2> QED
      BY <2>3, <2>4, PutQueue
<1>7. ASSUME NEW t \in Tids, NEW c \in Cpus, Wake(t, c)
      PROVE  QueueInv'
  <2>1. cpuOf' = cpuOf /\ run' = [run EXCEPT ![t] = "ready"]
      BY <1>7 DEF Wake
  <2>2. \A u \in Tids : /\ cpuOf'[u] \in affinity[u] \cup {0}
                        /\ run'[u] = "running" => cpuOf'[u] # 0
      BY <1>2, <1>3, <2>1
  <2>3. Put(WakingRing(c), t, <<Rec("waking", t, FALSE)>>)
      BY <1>7, WakePut
  <2> QED
      BY <2>2, <2>3, PutQueue
<1>8. ASSUME NEW t \in Tids, NEW user \in BOOLEAN, Block(t, user) PROVE QueueInv'
    BY <1>5, <1>8 DEF Block
<1>9. ASSUME NEW t \in Tids, Preempt(t) PROVE QueueInv'
    BY <1>5, <1>9 DEF Preempt
<1> QED
    BY <1>4, <1>6, <1>7, <1>8, <1>9 DEF Kernel

\* Draining a ring moves its records as they are.
LEMMA DrainPending ==
  ASSUME TypeOK, Drain
  PROVE  /\ Pending' = Pending
         /\ scratch = <<>> /\ scratch' = ring[next] /\ next \in Rings
         /\ ring'[next] = <<>> /\ \A j \in Rings \ {next} : ring'[j] = ring[j]
<1>1. /\ scratch = <<>> /\ scratch' = ring[next] /\ next \in Rings
      /\ ring'[next] = <<>> /\ \A j \in Rings \ {next} : ring'[j] = ring[j]
    BY DEF Drain, TypeOK
<1>2. Held(scratch) = {} /\ Held(ring'[next]) = {}
    BY <1>1 DEF Held
<1>3. Pending' \subseteq Pending
    BY <1>1, <1>2 DEF Pending
<1>4. Pending \subseteq Pending'
    BY <1>1, <1>2 DEF Pending
<1> QED
    BY <1>1, <1>3, <1>4

\* A drain keeps the records in order and at home, and the sweep's promise.
LEMMA DrainQueue ==
  ASSUME TypeOK, QueueInv, Drain
  PROVE  QueueInv'
<1> USE CpuAssumption
<1>1. /\ Pending' = Pending
      /\ scratch = <<>> /\ scratch' = ring[next] /\ next \in Rings
      /\ ring'[next] = <<>> /\ \A j \in Rings \ {next} : ring'[j] = ring[j]
    BY DrainPending
<1>2. UNCHANGED <<now, affinity, cpuOf, run, enabled, switchStack>>
    BY DEF Drain, kernel, maps
<1>3. RingsInv'
  <2>1. Len(ring'[next]) <= RingCap /\ InOrder(ring'[next]) /\ Len(ring'[next]) = 0
      BY <1>1, RingAssumption DEF InOrder
  <2>2. \A j \in Rings : /\ Len(ring'[j]) <= RingCap
                         /\ InOrder(ring'[j])
                         /\ \A k \in 1 .. Len(ring'[j]) : UserOut(ring'[j][k]) => SampledOut(ring'[j], k)
      BY <1>1, <2>1 DEF QueueInv, RingsInv
  <2>3. InOrder(scratch') /\ \A k \in 1 .. Len(scratch') : UserOut(scratch'[k]) => SampledOut(scratch', k)
      BY <1>1 DEF QueueInv, RingsInv
  <2>4. \A r \in Pending' : r.time \in 1 .. now'
      BY <1>1, <1>2 DEF QueueInv, RingsInv
  <2> QED
      BY <2>2, <2>3, <2>4 DEF RingsInv
<1>4. \A j \in Rings : Held(ring'[j]) \subseteq Held(ring[j]) /\ (j = next => Held(ring'[j]) = {})
    BY <1>1 DEF Held
<1>5. ApartInv'
    BY <1>1, <1>4 DEF QueueInv, ApartInv
<1>6. HomeInv'
    BY <1>1, <1>2, <1>4 DEF QueueInv, HomeInv
<1>7. SweepInv'
  <2>1. CASE phase = "loop" /\ EachRing("top")
      BY <2>1 DEF SweepInv, QueueInv, EachRing
  <2>2. CASE phase = "sweep" /\ EachRing("flush")
    <3>1. enabled' = {} /\ \A j \in Rings : j < next => ring'[j] = <<>>
        BY <1>1, <1>2, <2>2 DEF SweepInv, QueueInv
    <3>2. CASE next < 3 * CpuCount /\ next' = next + 1 /\ UNCHANGED phase
      <4>1. \A j \in Rings : j < next' => j < next \/ j = next
          BY <1>1, <3>2 DEF Rings
      <4> QED
          BY <1>1, <2>2, <3>1, <3>2, <4>1 DEF SweepInv
    <3>3. CASE next = 3 * CpuCount /\ next' = 1 /\ phase' = "flush"
      <4>1. \A j \in Rings : j < next \/ j = next
          BY <3>3 DEF Rings
      <4> QED
          BY <1>1, <3>1, <3>3, <4>1 DEF SweepInv
    <3> QED
        BY <2>2, <3>2, <3>3 DEF EachRing
  <2> QED
      BY <2>1, <2>2 DEF Drain
<1> QED
    BY <1>3, <1>5, <1>6, <1>7 DEF QueueInv

\* The turns of the loop that leave all records where they are.
LEMMA TurnQueue ==
  ASSUME TypeOK, QueueInv, Enable \/ Top \/ Disable \/ FlushOffCpu
  PROVE  QueueInv'
<1> USE CpuAssumption
<1>1. UNCHANGED <<now, affinity, cpuOf, run, ring, scratch, switchStack>>
    BY DEF Enable, Top, Disable, FlushOffCpu, kernel, perf, maps
<1>2. RingsInv'
    BY <1>1 DEF QueueInv, RingsInv, Pending
<1>3. ApartInv' /\ HomeInv'
    BY <1>1 DEF QueueInv, ApartInv, HomeInv
<1>4. SweepInv'
  <2>1. CASE Enable
      BY <2>1 DEF Enable, EachRing, SweepInv, QueueInv
  <2>2. CASE Top
    <3>1. next' = 1 /\ phase' \in {"loop", "disable"}
        BY <2>2 DEF Top, SweepInv, QueueInv
    <3>2. \A j \in Rings : ~(j < 1)
        BY DEF Rings
    <3> QED
        BY <3>1, <3>2 DEF SweepInv
  <2>3. CASE Disable
    <3>1. /\ \A j \in Rings : j < next => j \notin enabled'
          /\ next \notin enabled' /\ enabled' \subseteq Rings /\ phase = "disable" /\ EachRing("sweep")
        BY <2>3 DEF Disable, SweepInv, QueueInv, TypeOK
    <3>2. next \in Rings
        BY DEF TypeOK
    <3>3. CASE next < 3 * CpuCount /\ next' = next + 1 /\ UNCHANGED phase
      <4>1. \A j \in Rings : j < next' => j < next \/ j = next
          BY <3>2, <3>3 DEF Rings
      <4> QED
          BY <3>1, <3>3, <4>1 DEF SweepInv
    <3>4. CASE next = 3 * CpuCount /\ next' = 1 /\ phase' = "sweep"
      <4>1. \A j \in Rings : (j < next \/ j = next) /\ ~(j < 1)
          BY <3>4 DEF Rings
      <4>2. enabled' = {}
          BY <3>1, <4>1
      <4> QED
          BY <3>4, <4>1, <4>2 DEF SweepInv
    <3> QED
        BY <3>1, <3>3, <3>4 DEF EachRing
  <2>4. CASE FlushOffCpu
      BY <1>1, <2>4 DEF FlushOffCpu, SweepInv, QueueInv, perf
  <2> QED
      BY <2>1, <2>2, <2>3, <2>4
<1> QED
    BY <1>2, <1>3, <1>4 DEF QueueInv

\* Handling a record takes it, and no other, off its way.
LEMMA HandlePending ==
  ASSUME TypeOK, QueueInv, Handle
  PROVE  /\ Head(scratch) \in Record /\ Head(scratch) \in Pending
         /\ Head(scratch).time \in 1 .. now
         /\ Held(scratch) = {Head(scratch)} \cup Held(scratch')
         /\ \A x \in Held(scratch') : Before(Head(scratch), x)
         /\ \A j \in Rings : \A x \in Held(ring[j]) : x.time # Head(scratch).time
         /\ Pending' = Pending \ {Head(scratch)}
         /\ ring' = ring
<1> DEFINE r == Head(scratch)
<1>1. scratch \in Seq(Record) /\ scratch # <<>> /\ scratch' = Tail(scratch) /\ ring' = ring
    BY DEF TypeOK, Handle, perf
<1>2. InOrder(scratch)
    BY DEF QueueInv, RingsInv
<1>3. /\ r \in Record /\ Held(scratch) = {r} \cup Held(scratch')
      /\ \A x \in Held(scratch') : Before(r, x)
    BY <1>1, <1>2, TailHeld, HeadFirst
<1> HIDE DEF r
<1>4. r.time \in Nat
    BY <1>3, RecordTime
<1>5. r \notin Held(scratch')
  <2>1. ~Before(r, r)
      BY <1>4 DEF Before
  <2> QED
      BY <1>3, <2>1
<1>6. \A j \in Rings : \A x \in Held(ring[j]) : x.time # r.time
    BY <1>3 DEF QueueInv, ApartInv
<1>7. Pending' = Pending \ {r}
    BY <1>1, <1>3, <1>5, <1>6 DEF Pending
<1>8. r \in Pending
    BY <1>3 DEF Pending
<1>9. r.time \in 1 .. now
    BY <1>8 DEF QueueInv, RingsInv
<1> QED
    BY <1>1, <1>3, <1>6, <1>7, <1>8, <1>9 DEF r

\* Handling a record keeps what the queues hold in order; a sampled switch-out
\* that comes to the front finds its own stack stashed.
LEMMA HandleQueue ==
  ASSUME TypeOK, QueueInv, Handle
  PROVE  QueueInv'
<1> DEFINE r == Head(scratch)
<1> DEFINE q == scratch
<1> DEFINE p == Tail(scratch)
<1>1. q \in Seq(Record) /\ q # <<>> /\ scratch' = p
    BY DEF TypeOK, Handle
<1>2. /\ r \in Record /\ r.time \in 1 .. now
      /\ Held(scratch') \subseteq Held(scratch)
      /\ Pending' \subseteq Pending
      /\ ring' = ring
    BY HandlePending
<1>3. UNCHANGED <<now, affinity, cpuOf, run, enabled, phase, next>>
    BY DEF Handle, kernel, perf
<1>4. /\ Len(p) = Len(q) - 1 /\ Len(q) >= 1 /\ Len(q) \in Nat /\ r = q[1]
      /\ \A i \in 1 .. Len(p) : p[i] = q[i + 1]
    BY <1>1, TailHeld
<1>5. InOrder(p)
    BY <1>1, HeadFirst DEF QueueInv, RingsInv
<1>6. \A i \in 1 .. Len(q) : UserOut(q[i]) => SampledOut(q, i) \/ i = 1
    BY DEF QueueInv, RingsInv
<1>7. OnSample(r) \/ OnSwitchSample(r) \/ OnSwitchOut(r) \/ OnPreempt(r)
        \/ OnSwitchIn(r) \/ OnWaking(r)
    BY DEF Handle
<1>8. switchStack \in [Tids -> Times]
    BY DEF TypeOK
<1> HIDE DEF r, q, p
<1>9. ASSUME NEW i \in 1 .. Len(p), UserOut(p[i])
      PROVE  SampledOut(p, i) \/ (i = 1 /\ switchStack'[p[i].tid] = p[i].time)
  <2>1. i + 1 \in 1 .. Len(q) /\ i + 1 # 1 /\ p[i] = q[i + 1] /\ (i + 1) - 1 = i
      BY <1>4
  <2>2. q[i] = SampleOf(p[i])
    <3>1. SampledOut(q, i + 1)
        BY <1>6, <1>9, <2>1
    <3> QED
        BY <2>1, <3>1 DEF SampledOut
  <2>3. CASE i = 1
    <3>1. r = SampleOf(p[i])
        BY <1>4, <2>2, <2>3
    <3>2. /\ r.type = "switchSample" /\ r.tid = p[i].tid /\ r.time = p[i].time
          /\ r.user
        BY <3>1 DEF SampleOf
    <3>3. OnSwitchSample(r)
        BY <1>7, <3>2 DEF OnSample, OnSwitchOut, OnPreempt, OnSwitchIn, OnWaking
    <3>4. r.tid \in Tids
        BY <1>2, RecordTime DEF r
    <3>5. switchStack' = [switchStack EXCEPT ![r.tid] = r.time]
        BY <3>2, <3>3 DEF OnSwitchSample
    <3> QED
        BY <1>8, <2>3, <3>2, <3>4, <3>5
  <2>4. CASE i # 1
    <3>1. i - 1 \in 1 .. Len(p) /\ (i - 1) + 1 = i /\ i > 1
        BY <1>4, <2>4
    <3>2. p[i - 1] = q[(i - 1) + 1]
        BY <1>4, <3>1
    <3> QED
        BY <2>2, <3>1, <3>2 DEF SampledOut
  <2> QED
      BY <2>3, <2>4
<1>10. RingsInv'
  <2>1. \A j \in Rings : /\ Len(ring'[j]) <= RingCap /\ InOrder(ring'[j])
                         /\ \A k \in 1 .. Len(ring'[j]) : UserOut(ring'[j][k]) => SampledOut(ring'[j], k)
      BY <1>2 DEF QueueInv, RingsInv
  <2>2. \A x \in Pending' : x.time \in 1 .. now'
      BY <1>2, <1>3 DEF QueueInv, RingsInv
  <2> QED
      BY <1>1, <1>5, <1>9, <2>1, <2>2 DEF RingsInv
<1>11. ApartInv' /\ HomeInv'
    BY <1>2, <1>3 DEF QueueInv, ApartInv, HomeInv
<1>12. SweepInv'
  <2>1. scratch # <<>>
      BY <1>1 DEF q
  <2> QED
      BY <1>2, <1>3, <2>1 DEF QueueInv, SweepInv
<1> QED
    BY <1>10, <1>11, <1>12 DEF QueueInv

\* The rings and the scratch buffer, at the start.
LEMMA InitQueue == Init => QueueInv /\ Pending = {}
<1> SUFFICES ASSUME Init PROVE QueueInv /\ Pending = {}
    OBVIOUS
<1>1. scratch = <<>> /\ Len(scratch) = 0 /\ \A j \in Rings : ring[j] = <<>> /\ Len(ring[j]) = 0
    BY DEF Init
<1>2. Held(scratch) = {} /\ \A j \in Rings : Held(ring[j]) = {}
    BY <1>1 DEF Held
<1>3. Pending = {}
    BY <1>2 DEF Pending
<1>4. RingsInv
    BY <1>1, <1>3, RingAssumption DEF RingsInv, InOrder
<1>5. ApartInv /\ HomeInv
    BY <1>1, <1>2 DEF ApartInv, HomeInv, Init
<1>6. SweepInv
    BY DEF SweepInv, Init
<1> QED
    BY <1>3, <1>4, <1>5, <1>6 DEF QueueInv

\* The records between the kernel and the handlers, for the whole session:
\* in order within a ring, a sampled switch-out behind its sample, a bound
\* thread's switches in one place, and none left once the sweep is over
\* (PerfRing's drain, run_with_rings).
THEOREM QueueInvariant == Spec => []QueueInv
<1>1. Init => QueueInv
    BY InitQueue
<1>2. TypeOK /\ QueueInv /\ [Next]_vars => QueueInv'
  <2> SUFFICES ASSUME TypeOK, QueueInv, [Next]_vars PROVE QueueInv'
      OBVIOUS
  <2>1. CASE scratch = <<>> /\ Kernel
      BY <2>1, KernelQueue
  <2>2. CASE Drain
      BY <2>2, DrainQueue
  <2>3. CASE Enable \/ Top \/ Disable \/ FlushOffCpu
      BY <2>3, TurnQueue
  <2>4. CASE Handle
      BY <2>4, HandleQueue
  <2>5. CASE UNCHANGED vars
      BY <2>5 DEF vars, kernel, witness, perf, loop, maps, sink, QueueInv, RingsInv,
                  ApartInv, HomeInv, SweepInv, Pending
  <2> QED
      BY <2>1, <2>2, <2>3, <2>4, <2>5 DEF Next, Session
<1> QED
    BY <1>1, <1>2, SessionTypeCorrect, PTL DEF Spec
----------------------------------------------------------------------------
(* What the off-CPU intervals are credited with *)

\* A wakeup is on its way, stashed or used.
WakesInv ==
  \A t \in Tids :
    /\ recentWaking[t] <= now
    /\ \A r \in Pending : r.type = "waking" /\ r.tid = t => r.time # recentWaking[t]
    /\ \A iv \in offIv : iv.tid = t /\ iv.wake # 0 =>
         /\ iv.wake <= now
         /\ iv.wake # recentWaking[t]
         /\ \A r \in Pending : r.type = "waking" /\ r.tid = t => r.time # iv.wake

WakesOnce ==
  \A a, b \in offIv : a.tid = b.tid /\ a.wake # 0 /\ a.wake = b.wake => a = b

\* At time s thread t blocked in user code, seen by its switch ring.
Witnessed(t, s) ==
  \/ \E b \in blocks : b.tid = t /\ b.start = s /\ b.user
  \/ outAt[t].at = s /\ s # 0 /\ outAt[t].user

StacksInv ==
  \A t \in Tids :
    /\ offStart[t].at <= now
    /\ \A iv \in offIv : iv.tid = t => iv.start <= now
    /\ \A s \in Times : Witnessed(t, s) =>
         /\ s \in 1 .. now
         /\ \A r \in Pending : r.type = "out" /\ r.tid = t /\ r.time = s => r.user
         /\ offStart[t].at = s => offStart[t].stack = s
         /\ \A iv \in offIv : iv.tid = t /\ iv.start = s => iv.stack = s

CreditInv == WakesInv /\ WakesOnce /\ StacksInv


\* A put keeps the credits: what it adds is newer than all of them.
LEMMA PutCredit ==
  ASSUME TypeOK, QueueInv, CreditInv, scratch = <<>>, NEW i, NEW t, NEW recs, Put(i, t, recs),
         \A u \in Tids, s \in Times :
           Witnessed(u, s)' => \/ Witnessed(u, s)
                               \/ s = now + 1 /\ \A r \in Held(recs) : r.type = "out" => r.user
  PROVE  CreditInv'
<1>1. /\ UNCHANGED <<recentWaking, offStart, offIv>>
      /\ now' = now + 1 /\ now \in Nat
    BY TimeAssumption DEF Put, Tick, maps, sink, TypeOK, Times
<1>2. /\ Pending' \subseteq Pending \cup Held(recs)
      /\ \A r \in Held(recs) : r.tid = t /\ r.time = now + 1
      /\ \A r \in Pending : r.time \in 1 .. now
    BY PutPending DEF QueueInv, RingsInv
<1>3. /\ recentWaking \in [Tids -> Times] /\ offStart \in [Tids -> [at : Times, stack : Times]]
      /\ offIv \subseteq OffInterval
    BY DEF TypeOK
<1>4. /\ \A u \in Tids : recentWaking[u] \in Nat /\ offStart[u].at \in Nat
      /\ \A iv \in offIv : iv.wake \in Nat /\ iv.start \in Nat /\ iv.tid \in Tids
    BY <1>3 DEF Times, OffInterval
<1>5. WakesInv'
  <2> SUFFICES ASSUME NEW u \in Tids
               PROVE  /\ recentWaking[u] <= now + 1
                      /\ \A r \in Pending' : r.type = "waking" /\ r.tid = u => r.time # recentWaking[u]
                      /\ \A iv \in offIv : iv.tid = u /\ iv.wake # 0 =>
                           /\ iv.wake <= now + 1
                           /\ iv.wake # recentWaking[u]
                           /\ \A r \in Pending' : r.type = "waking" /\ r.tid = u => r.time # iv.wake
      BY <1>1 DEF WakesInv
  <2>1. /\ recentWaking[u] <= now
        /\ \A r \in Pending : r.type = "waking" /\ r.tid = u => r.time # recentWaking[u]
        /\ \A iv \in offIv : iv.tid = u /\ iv.wake # 0 =>
             /\ iv.wake <= now /\ iv.wake # recentWaking[u]
             /\ \A r \in Pending : r.type = "waking" /\ r.tid = u => r.time # iv.wake
      BY DEF CreditInv, WakesInv
  <2>2. \A n \in Nat : n <= now => n <= now + 1 /\ n # now + 1
      BY <1>1
  <2> QED
      BY <1>2, <1>4, <2>1, <2>2
<1>6. WakesOnce'
    BY <1>1 DEF CreditInv, WakesOnce
<1>7. StacksInv'
  <2>1. ASSUME NEW u \in Tids
        PROVE  /\ offStart[u].at <= now /\ offStart[u].at <= now + 1 /\ offStart[u].at # now + 1
               /\ \A iv \in offIv : iv.tid = u => iv.start <= now /\ iv.start <= now + 1 /\ iv.start # now + 1
    <3>1. offStart[u].at <= now /\ \A iv \in offIv : iv.tid = u => iv.start <= now
        BY DEF CreditInv, StacksInv
    <3>2. \A n \in Nat : n <= now => n <= now + 1 /\ n # now + 1
        BY <1>1
    <3> QED
        BY <1>4, <3>1, <3>2
  <2>2. ASSUME NEW u \in Tids, NEW s \in Times, Witnessed(u, s)'
        PROVE  /\ s \in 1 .. now + 1
               /\ \A r \in Pending' : r.type = "out" /\ r.tid = u /\ r.time = s => r.user
               /\ offStart[u].at = s => offStart[u].stack = s
               /\ \A iv \in offIv : iv.tid = u /\ iv.start = s => iv.stack = s
    <3>1. CASE Witnessed(u, s)
      <4>1. /\ s \in 1 .. now
            /\ \A r \in Pending : r.type = "out" /\ r.tid = u /\ r.time = s => r.user
            /\ offStart[u].at = s => offStart[u].stack = s
            /\ \A iv \in offIv : iv.tid = u /\ iv.start = s => iv.stack = s
          BY <3>1 DEF CreditInv, StacksInv
      <4>2. s # now + 1 /\ s \in 1 .. now + 1
          BY <1>1, <4>1
      <4> QED
          BY <1>2, <4>1, <4>2
    <3>2. CASE s = now + 1 /\ \A r \in Held(recs) : r.type = "out" => r.user
      <4>1. \A r \in Pending : r.time # s
          BY <1>1, <1>2, <3>2
      <4>2. s \in 1 .. now + 1
          BY <1>1, <3>2
      <4> QED
          BY <1>2, <2>1, <3>2, <4>1, <4>2
    <3> QED
        BY <2>2, <3>1, <3>2
  <2> QED
      BY <1>1, <2>1, <2>2 DEF StacksInv
<1> QED
    BY <1>5, <1>6, <1>7 DEF CreditInv

\* Every action of the kernel keeps the credits.
LEMMA KernelCredit ==
  ASSUME TypeOK, QueueInv, CreditInv, scratch = <<>>, Kernel
  PROVE  CreditInv'
<1>1. HomeInv /\ outAt \in [Tids -> [at : Times, user : BOOLEAN]]
    BY DEF QueueInv, TypeOK
<1>2. ASSUME UNCHANGED <<blocks, outAt>>
      PROVE  \A u \in Tids, s \in Times : Witnessed(u, s)' => Witnessed(u, s)
    BY <1>2 DEF Witnessed
<1>3. ASSUME NEW t \in Tids, NEW user \in BOOLEAN, Sample(t, user)
      PROVE  CreditInv'
  <2>1. UNCHANGED <<blocks, outAt>>
      BY <1>3 DEF Sample, witness
  <2>2. Put(SamplingRing(cpuOf[t]), t, <<Rec("sample", t, user)>>)
      BY <1>1, <1>3, SamplePut
  <2> QED
      BY <1>2, <2>1, <2>2, PutCredit
<1>4. ASSUME NEW t \in Tids, Preempt(t)
      PROVE  CreditInv'
  <2>1. UNCHANGED <<blocks, outAt>> /\ SwitchOut(t, "preempt", "ready", TRUE)
      BY <1>4 DEF Preempt, witness
  <2>2. Put(SwitchRing(cpuOf[t]), t, <<Rec("switchSample", t, TRUE), Rec("preempt", t, TRUE)>>)
      BY <1>1, <2>1, SwitchOutPut
  <2> QED
      BY <1>2, <2>1, <2>2, PutCredit
<1>5. ASSUME NEW t \in Tids, NEW user \in BOOLEAN, Block(t, user)
      PROVE  CreditInv'
  <2> DEFINE recs == <<Rec("switchSample", t, user), Rec("out", t, user)>>
  <2>1. SwitchOut(t, "out", "blocked", user) /\ blocks' = blocks
      BY <1>5 DEF Block
  <2>2. Put(SwitchRing(cpuOf[t]), t, recs)
      BY <1>1, <2>1, SwitchOutPut
  <2>3. Held(recs) = {Rec("switchSample", t, user), Rec("out", t, user)}
      BY <2>2, TwoRecords DEF Put
  <2>4. outAt' = outAt \/ outAt' = [outAt EXCEPT ![t] = [at |-> now + 1, user |-> user]]
      BY <1>5 DEF Block
  <2>5. \A r \in Held(recs) : r.type = "out" => r.user = user
      BY <2>3 DEF Rec
  <2> HIDE DEF recs
  <2>6. ASSUME NEW u \in Tids, NEW s \in Times, Witnessed(u, s)', ~Witnessed(u, s)
        PROVE  s = now + 1 /\ user
      BY <1>1, <2>1, <2>4, <2>6 DEF Witnessed
  <2>7. user => \A r \in Held(recs) : r.type = "out" => r.user
      BY <2>5
  <2> QED
      BY <2>2, <2>6, <2>7, PutCredit
<1>6. ASSUME NEW t \in Tids, NEW c \in Cpus, SwitchIn(t, c)
      PROVE  CreditInv'
  <2>1. Put(SwitchRing(c), t, <<Rec("in", t, FALSE)>>)
      BY <1>6, SwitchInPut
  <2>2. \A u \in Tids, s \in Times : Witnessed(u, s)' => Witnessed(u, s)
    <3>1. CASE UNCHANGED <<blocks, outAt>>
        BY <1>2, <3>1
    <3>2. CASE /\ outAt[t].at # 0
               /\ blocks' = blocks \cup {[tid |-> t, start |-> outAt[t].at, end |-> now + 1,
                                          user |-> outAt[t].user]}
               /\ outAt' = [outAt EXCEPT ![t] = NotOut]
      <4> SUFFICES ASSUME NEW u \in Tids, NEW s \in Times, Witnessed(u, s)'
                   PROVE  Witnessed(u, s)
          OBVIOUS
      <4>1. CASE \E b \in blocks' : b.tid = u /\ b.start = s /\ b.user
          BY <3>2, <4>1 DEF Witnessed
      <4>2. CASE outAt'[u].at = s /\ s # 0 /\ outAt'[u].user
          BY <1>1, <3>2, <4>2 DEF Witnessed, NotOut
      <4> QED
          BY <4>1, <4>2 DEF Witnessed
    <3> QED
        BY <1>6, <3>1, <3>2 DEF SwitchIn, witness
  <2> QED
      BY <2>1, <2>2, PutCredit
<1>7. ASSUME NEW t \in Tids, NEW c \in Cpus, Wake(t, c)
      PROVE  CreditInv'
  <2>1. UNCHANGED <<blocks, outAt>>
      BY <1>7 DEF Wake, witness
  <2>2. Put(WakingRing(c), t, <<Rec("waking", t, FALSE)>>)
      BY <1>7, WakePut
  <2> QED
      BY <1>2, <2>1, <2>2, PutCredit
<1> QED
    BY <1>3, <1>4, <1>5, <1>6, <1>7 DEF Kernel

\* The handlers: a switch-in uses the stashed wakeup up, and a switch-out
\* takes the stack of the sample handled just before it.
LEMMA HandleCredit ==
  ASSUME TypeOK, QueueInv, CreditInv, Handle
  PROVE  CreditInv'
<1> USE TimeAssumption
<1> DEFINE r == Head(scratch)
<1>1. /\ r \in Record /\ r \in Pending /\ r.time \in 1 .. now
      /\ \A x \in Held(scratch') : Before(r, x)
      /\ \A j \in Rings : \A x \in Held(ring[j]) : x.time # r.time
      /\ Pending' = Pending \ {r} /\ ring' = ring
    BY HandlePending
<1>2. UNCHANGED <<now, blocks, outAt>> /\ now \in Nat
    BY DEF Handle, kernel, witness, TypeOK, Times
<1>3. OnSample(r) \/ OnSwitchSample(r) \/ OnSwitchOut(r) \/ OnPreempt(r)
        \/ OnSwitchIn(r) \/ OnWaking(r)
    BY DEF Handle
<1>4. UserOut(r) => switchStack[r.tid] = r.time
  <2>1. scratch \in Seq(Record) /\ scratch # <<>>
      BY DEF Handle, TypeOK
  <2>2. 1 \in 1 .. Len(scratch) /\ r = scratch[1]
      BY <2>1
  <2>3. UserOut(scratch[1]) => SampledOut(scratch, 1) \/ switchStack[scratch[1].tid] = scratch[1].time
      BY <2>2 DEF QueueInv, RingsInv
  <2>4. ~SampledOut(scratch, 1)
      BY DEF SampledOut
  <2> HIDE DEF r
  <2> QED
      BY <2>2, <2>3, <2>4
<1> HIDE DEF r
<1>5. r.tid \in Tids /\ r.time \in Nat /\ r.time # 0 /\ r.time <= now
    BY <1>1, <1>2, RecordTime
<1>6. r.type # "switchSample" => \A x \in Pending' : x.time # r.time
  <2> SUFFICES ASSUME r.type # "switchSample", NEW x \in Pending' PROVE x.time # r.time
      OBVIOUS
  <2>1. CASE x \in Held(scratch')
    <3>1. r.time < x.time
        BY <1>1, <2>1 DEF Before
    <3>2. x \in Record
      <4>1. scratch' \in Seq(Record)
          BY TailHeld DEF Handle, TypeOK
      <4> QED
          BY <2>1, <4>1 DEF Held
    <3> QED
        BY <1>5, <3>1, <3>2, RecordTime
  <2>2. CASE x \notin Held(scratch')
      BY <1>1, <2>2 DEF Pending
  <2> QED
      BY <2>1, <2>2
<1>7. /\ recentWaking \in [Tids -> Times] /\ offStart \in [Tids -> [at : Times, stack : Times]]
      /\ offIv \subseteq OffInterval /\ switchStack \in [Tids -> Times]
    BY DEF TypeOK
<1>8. \A u \in Tids, s \in Times : Witnessed(u, s)' <=> Witnessed(u, s)
    BY <1>2 DEF Witnessed
<1>9. WakesInv /\ WakesOnce /\ StacksInv
    BY DEF CreditInv
<1>10. ASSUME UNCHANGED <<recentWaking, offIv>>
       PROVE  WakesInv' /\ WakesOnce'
  <2>1. WakesInv'
      BY <1>1, <1>2, <1>9, <1>10 DEF WakesInv
  <2>2. WakesOnce'
      BY <1>9, <1>10 DEF WakesOnce
  <2> QED
      BY <2>1, <2>2
<1>11. ASSUME UNCHANGED <<offStart, offIv>>
       PROVE  StacksInv'
    BY <1>1, <1>2, <1>8, <1>9, <1>11 DEF StacksInv
<1>12. CASE OnSample(r) \/ OnSwitchSample(r) \/ OnPreempt(r)
  <2>1. UNCHANGED <<recentWaking, offIv, offStart>>
      BY <1>12 DEF OnSample, OnSwitchSample, OnPreempt, StaysOpen, sink
  <2> QED
      BY <1>10, <1>11, <2>1 DEF CreditInv
<1>13. CASE OnSwitchOut(r)
  <2>1. UNCHANGED <<recentWaking, offIv>> /\ r.type = "out"
        /\ offStart' = [offStart EXCEPT ![r.tid] = [at |-> r.time, stack |-> ParkedStack(r.tid)]]
      BY <1>13 DEF OnSwitchOut, sink
  <2>2. ASSUME NEW u \in Tids
        PROVE  /\ offStart'[u].at <= now
               /\ \A s \in Times : Witnessed(u, s) /\ offStart'[u].at = s => offStart'[u].stack = s
    <3>1. CASE u # r.tid
      <4>1. offStart'[u] = offStart[u]
          BY <1>7, <2>1, <3>1
      <4> QED
          BY <1>9, <4>1 DEF StacksInv
    <3>2. CASE u = r.tid
      <4>1. offStart'[u].at = r.time /\ offStart'[u].stack = ParkedStack(u)
          BY <1>7, <2>1, <3>2
      <4>2. ASSUME Witnessed(u, r.time), r.time \in Times
            PROVE  ParkedStack(u) = r.time
        <5>1. r.user
            BY <1>1, <1>9, <2>1, <3>2, <4>2 DEF StacksInv
        <5>2. switchStack[u] = r.time
            BY <1>4, <2>1, <3>2, <5>1 DEF UserOut
        <5> QED
            BY <1>5, <5>2 DEF ParkedStack
      <4> QED
          BY <1>5, <4>1, <4>2
    <3> QED
        BY <3>1, <3>2
  <2>3. StacksInv'
      BY <1>1, <1>2, <1>8, <1>9, <2>1, <2>2 DEF StacksInv
  <2> QED
      BY <1>10, <2>1, <2>3 DEF CreditInv
<1>14. CASE OnSwitchIn(r)
  <2> DEFINE open == offStart[r.tid]
  <2> DEFINE iv == [tid |-> r.tid, start |-> open.at, end |-> r.time,
                    stack |-> open.stack, wake |-> Waking(r.tid, r.time)]
  <2>1. /\ offStart' = [offStart EXCEPT ![r.tid] = [at |-> 0, stack |-> 0]]
        /\ \/ UNCHANGED <<offIv, recentWaking>>
           \/ offIv' = offIv \cup {iv} /\ recentWaking' = [recentWaking EXCEPT ![r.tid] = 0]
      BY <1>14 DEF OnSwitchIn, TakenWaking
  <2>2. /\ iv.tid = r.tid /\ iv.start = open.at /\ iv.stack = open.stack
        /\ iv.wake = 0 \/ iv.wake = recentWaking[r.tid]
      BY DEF Waking
  <2>3. offIv' \subseteq offIv \cup {iv} /\ offIv \subseteq offIv'
      BY <2>1
  <2> HIDE DEF iv
  <2>4. WakesInv' /\ WakesOnce'
    <3>1. CASE UNCHANGED <<offIv, recentWaking>>
        BY <1>10, <3>1
    <3>2. CASE offIv' = offIv \cup {iv} /\ recentWaking' = [recentWaking EXCEPT ![r.tid] = 0]
      <4>1. ASSUME NEW u \in Tids
            PROVE  /\ recentWaking'[u] \in {0, recentWaking[u]}
                   /\ u = r.tid => recentWaking'[u] = 0
                   /\ u # r.tid => recentWaking'[u] = recentWaking[u]
          BY <1>7, <3>2
      <4>2. ASSUME NEW u \in Tids
            PROVE  /\ recentWaking'[u] <= now
                   /\ \A x \in Pending' : x.type = "waking" /\ x.tid = u => x.time # recentWaking'[u]
        <5>1. recentWaking[u] <= now /\ 0 <= now
            BY <1>2, <1>9 DEF WakesInv
        <5>2. \A x \in Pending' : x.type = "waking" /\ x.tid = u => x.time # recentWaking[u]
            BY <1>1, <1>9 DEF WakesInv
        <5>3. \A x \in Pending' : x.time # 0
            BY <1>1, <1>2 DEF QueueInv, RingsInv
        <5> QED
            BY <4>1, <5>1, <5>2, <5>3
      <4>3. ASSUME NEW u \in Tids, NEW a \in offIv', a.tid = u, a.wake # 0
            PROVE  /\ a.wake <= now
                   /\ a.wake # recentWaking'[u]
                   /\ \A x \in Pending' : x.type = "waking" /\ x.tid = u => x.time # a.wake
        <5>1. CASE a \in offIv
            BY <1>1, <1>9, <4>1, <4>3, <5>1 DEF WakesInv
        <5>2. CASE a = iv
          <6>1. u = r.tid /\ a.wake = recentWaking[u]
              BY <2>2, <4>3, <5>2
          <6> QED
              BY <1>1, <1>9, <4>1, <4>3, <6>1 DEF WakesInv
        <5> QED
            BY <3>2, <5>1, <5>2
      <4>4. WakesInv'
          BY <1>2, <4>2, <4>3 DEF WakesInv
      <4>5. WakesOnce'
        <5>1. \A a \in offIv : a.tid = iv.tid /\ a.wake # 0 => a.wake # iv.wake
            BY <1>5, <1>9, <2>2 DEF WakesInv
        <5> QED
            BY <1>9, <3>2, <5>1 DEF WakesOnce
      <4> QED
          BY <4>4, <4>5
    <3> QED
        BY <2>1, <3>1, <3>2
  <2>5. StacksInv'
    <3>1. ASSUME NEW u \in Tids
          PROVE  /\ offStart'[u].at <= now
                 /\ \A s \in Times : Witnessed(u, s) /\ offStart'[u].at = s => offStart'[u].stack = s
      <4>1. CASE u # r.tid
        <5>1. offStart'[u] = offStart[u]
            BY <1>7, <2>1, <4>1
        <5> QED
            BY <1>9, <5>1 DEF StacksInv
      <4>2. CASE u = r.tid
        <5>1. offStart'[u].at = 0
            BY <1>7, <2>1, <4>2
        <5>2. \A s \in Times : Witnessed(u, s) => s \in 1 .. now
            BY <1>9 DEF StacksInv
        <5> QED
            BY <1>2, <5>1, <5>2
      <4> QED
          BY <4>1, <4>2
    <3>2. ASSUME NEW u \in Tids, NEW a \in offIv', a.tid = u
          PROVE  /\ a.start <= now
                 /\ \A s \in Times : Witnessed(u, s) /\ a.start = s => a.stack = s
      <4>1. CASE a \in offIv
          BY <1>9, <3>2, <4>1 DEF StacksInv
      <4>2. CASE a = iv
          BY <1>5, <1>9, <2>2, <3>2, <4>2 DEF StacksInv
      <4> QED
          BY <2>3, <4>1, <4>2
    <3> QED
        BY <1>1, <1>2, <1>8, <1>9, <3>1, <3>2 DEF StacksInv
  <2> QED
      BY <2>4, <2>5 DEF CreditInv
<1>15. CASE OnWaking(r)
  <2>1. /\ UNCHANGED <<offStart, offIv>> /\ r.type = "waking"
        /\ recentWaking' = [recentWaking EXCEPT ![r.tid] = r.time]
      BY <1>15 DEF OnWaking, sink
  <2>2. ASSUME NEW u \in Tids
        PROVE  /\ recentWaking'[u] <= now
               /\ \A x \in Pending' : x.type = "waking" /\ x.tid = u => x.time # recentWaking'[u]
               /\ \A iv \in offIv : iv.tid = u /\ iv.wake # 0 => iv.wake # recentWaking'[u]
    <3>1. CASE u # r.tid
      <4>1. recentWaking'[u] = recentWaking[u]
          BY <1>7, <2>1, <3>1
      <4> QED
          BY <1>1, <1>9, <4>1 DEF WakesInv
    <3>2. CASE u = r.tid
      <4>1. recentWaking'[u] = r.time
          BY <1>7, <2>1, <3>2
      <4> QED
          BY <1>1, <1>5, <1>6, <1>9, <2>1, <3>2, <4>1 DEF WakesInv
    <3> QED
        BY <3>1, <3>2
  <2>3. WakesInv'
      BY <1>1, <1>2, <1>9, <2>1, <2>2 DEF WakesInv
  <2>4. WakesOnce'
      BY <1>9, <2>1 DEF WakesOnce
  <2> QED
      BY <1>11, <2>1, <2>3, <2>4 DEF CreditInv
<1> QED
    BY <1>3, <1>12, <1>13, <1>14, <1>15

\* The final flush credits no wakeup, and the stack the span was opened with.
LEMMA FlushCredit ==
  ASSUME TypeOK, QueueInv, CreditInv, FlushOffCpu
  PROVE  CreditInv'
<1> USE TimeAssumption
<1>1. UNCHANGED <<now, blocks, outAt, ring, scratch, recentWaking>> /\ now \in Nat
    BY DEF FlushOffCpu, kernel, witness, perf, TypeOK, Times
<1>2. Pending' = Pending
    BY <1>1 DEF Pending
<1>3. \A u \in Tids, s \in Times : Witnessed(u, s)' <=> Witnessed(u, s)
    BY <1>1 DEF Witnessed
<1>4. WakesInv /\ WakesOnce /\ StacksInv
    BY DEF CreditInv
<1>5. ASSUME NEW a \in offIv', a \notin offIv
      PROVE  a.tid \in Tids /\ a.wake = 0 /\ a.start = offStart[a.tid].at /\ a.stack = offStart[a.tid].stack
    BY <1>5 DEF FlushOffCpu, Flushed, FlushedInterval, StillParked
<1>6. WakesInv'
    BY <1>1, <1>2, <1>4, <1>5 DEF WakesInv
<1>7. WakesOnce'
    BY <1>4, <1>5 DEF WakesOnce
<1>8. \A u \in Tids : offStart'[u].at = 0
    BY DEF FlushOffCpu
<1>9. StacksInv'
  <2>1. \A u \in Tids, s \in Times : Witnessed(u, s) => s \in 1 .. now
      BY <1>4 DEF StacksInv
  <2>2. \A u \in Tids : offStart'[u].at <= now /\ \A s \in Times : Witnessed(u, s) => offStart'[u].at # s
      BY <1>1, <1>8, <2>1
  <2>3. ASSUME NEW u \in Tids, NEW a \in offIv', a.tid = u
        PROVE  /\ a.start <= now
               /\ \A s \in Times : Witnessed(u, s) /\ a.start = s => a.stack = s
      BY <1>4, <1>5, <2>3 DEF StacksInv
  <2> QED
      BY <1>1, <1>2, <1>3, <1>4, <2>2, <2>3 DEF StacksInv
<1> QED
    BY <1>6, <1>7, <1>9 DEF CreditInv

\* The invariant of what off-CPU intervals are credited with.
THEOREM CreditInvariant == Spec => []CreditInv
<1>1. Init => CreditInv
  <2> SUFFICES ASSUME Init PROVE CreditInv
      OBVIOUS
  <2>1. /\ Pending = {} /\ now = 0 /\ offIv = {} /\ blocks = {}
        /\ \A t \in Tids : recentWaking[t] = 0 /\ offStart[t].at = 0 /\ outAt[t].at = 0
      BY InitQueue DEF Init, NotOut
  <2> QED
      BY <2>1 DEF CreditInv, WakesInv, WakesOnce, StacksInv, Witnessed
<1>2. TypeOK /\ QueueInv /\ CreditInv /\ [Next]_vars => CreditInv'
  <2> SUFFICES ASSUME TypeOK, QueueInv, CreditInv, [Next]_vars PROVE CreditInv'
      OBVIOUS
  <2>1. CASE scratch = <<>> /\ Kernel
      BY <2>1, KernelCredit
  <2>2. CASE Handle
      BY <2>2, HandleCredit
  <2>3. CASE FlushOffCpu
      BY <2>3, FlushCredit
  <2>4. ASSUME UNCHANGED <<now, blocks, outAt, offStart, offIv, recentWaking>>, Pending' = Pending
        PROVE  CreditInv'
      BY <2>4 DEF CreditInv, WakesInv, WakesOnce, StacksInv, Witnessed
  <2>5. CASE Drain
      BY <2>4, <2>5, DrainPending DEF Drain, kernel, witness, maps, sink
  <2>6. CASE Enable \/ Top \/ Disable \/ UNCHANGED vars
      BY <2>4, <2>6 DEF Enable, Top, Disable, vars, kernel, witness, perf, loop, maps, sink, Pending
  <2> QED
      BY <2>1, <2>2, <2>3, <2>5, <2>6 DEF Next, Session
<1> QED
    BY <1>1, <1>2, SessionTypeCorrect, QueueInvariant, PTL DEF Spec

\* What is credited to an off-CPU interval is its own: no wakeup is credited
\* twice, and a block sampled at its switch-out has that sample's stack,
\* whatever the rings lose and in whatever order they are drained (on_switch,
\* on_sample_from_switch, on_sample_from_waking).
THEOREM CreditedOwnThm == Spec => []CreditedOwn
<1>1. TypeOK /\ CreditInv => CreditedOwn
  <2> SUFFICES ASSUME TypeOK, CreditInv PROVE CreditedOwn
      OBVIOUS
  <2>1. WakesOnce /\ StacksInv
      BY DEF CreditInv
  <2>2. ASSUME NEW iv \in offIv, NEW b \in blocks, b.tid = iv.tid, b.start = iv.start, b.user
        PROVE  iv.stack = iv.start
    <3>1. iv.tid \in Tids /\ iv.start \in Times
        BY DEF TypeOK, OffInterval
    <3>2. Witnessed(iv.tid, iv.start)
        BY <2>2 DEF Witnessed
    <3> QED
        BY <2>1, <3>1, <3>2 DEF StacksInv
  <2> QED
      BY <2>1, <2>2 DEF CreditedOwn, WakesOnce
<1> QED
    BY <1>1, SessionTypeCorrect, CreditInvariant, PTL
----------------------------------------------------------------------------
(* The blocks still to be booked *)

Pend(t) == {r \in Pending : Moves(r, t)}

\* Handling the records of P in order of time, with the span that began at
\* time at open (none if 0), the span open just before time e began at s.
OpenIn(P, at, e, s) ==
  \/ \E r \in P : /\ r.type = "out" /\ r.time = s /\ s < e
                  /\ \A k \in P : ~(s < k.time /\ k.time < e)
  \/ s = at /\ s # 0 /\ \A k \in P : ~(k.time < e)

OpenAt(t, e, s) == OpenIn(Pend(t), offStart[t].at, e, s)

Booked(t, s, e) == \E iv \in offIv : iv.tid = t /\ iv.start = s /\ iv.end = e
Real(t, s, e) == \E b \in blocks : b.tid = t /\ b.start = s /\ b.end = e
ToBook(t, s, e) == (\E r \in Pend(t) : r.type = "in" /\ r.time = e) /\ OpenAt(t, e, s)

\* What was booked, and what the pending records will add, are the real blocks.
Replay(t) ==
  /\ \A r \in Pend(t) : offStart[t].at < r.time
  /\ \A s, e \in Times : Real(t, s, e) <=> Booked(t, s, e) \/ ToBook(t, s, e)
  /\ \A s \in Times \ {0} : outAt[t].at = s <=> OpenAt(t, now + 1, s)

ReplayInv == phase # "done" => \A t \in Pinned : Replay(t)

\* Records of P have times.
Timed(P) == \A r \in P : r.time \in Nat \ {0}

\* A record no older than e does not matter to what is open before e.
LEMMA OpenAdded ==
  ASSUME NEW P, NEW x, Timed(P), x.time \in Nat, NEW e \in Nat, e <= x.time, NEW at, NEW s \in Nat
  PROVE  OpenIn(P \cup {x}, at, e, s) <=> OpenIn(P, at, e, s)
<1>1. ~(x.time < e)
    OBVIOUS
<1> QED
    BY <1>1 DEF OpenIn

\* The newest record decides alone what is open after it.
LEMMA OpenLast ==
  ASSUME NEW P, NEW x, Timed(P), x.time \in Nat, \A r \in P : r.time < x.time,
         NEW at, NEW s \in Nat
  PROVE  OpenIn(P \cup {x}, at, x.time + 1, s) <=> x.type = "out" /\ s = x.time
<1> DEFINE m == x.time
<1>1. m < m + 1 /\ \A n \in Nat : n < m => n < m + 1
    OBVIOUS
<1>2. ASSUME OpenIn(P \cup {x}, at, m + 1, s)
      PROVE  x.type = "out" /\ s = m
  <2>1. PICK r \in P \cup {x} : /\ r.type = "out" /\ r.time = s
                                /\ \A k \in P \cup {x} : ~(s < k.time /\ k.time < m + 1)
      BY <1>1, <1>2 DEF OpenIn
  <2>2. ~(s < m)
      BY <1>1, <2>1
  <2> QED
      BY <2>1, <2>2
<1>3. ASSUME x.type = "out", s = m
      PROVE  OpenIn(P \cup {x}, at, m + 1, s)
  <2>1. \A k \in P \cup {x} : ~(s < k.time)
      BY <1>3 DEF Timed
  <2> QED
      BY <1>1, <1>3, <2>1 DEF OpenIn
<1> QED
    BY <1>2, <1>3

\* Nothing happens between the newest record and now.
LEMMA OpenLater ==
  ASSUME NEW P, Timed(P), NEW n \in Nat, \A r \in P : r.time <= n, NEW at, NEW s \in Nat
  PROVE  OpenIn(P, at, n + 2, s) <=> OpenIn(P, at, n + 1, s)
<1>1. \A r \in P : r.time < n + 1 /\ r.time < n + 2
    BY DEF Timed
<1> QED
    BY <1>1 DEF OpenIn

\* What is open before the oldest record.
LEMMA OpenFirst ==
  ASSUME NEW P, Timed(P), NEW x \in P, \A r \in P \ {x} : x.time < r.time, NEW at, NEW s \in Nat
  PROVE  OpenIn(P, at, x.time, s) <=> s = at /\ s # 0
<1>1. \A r \in P : ~(r.time < x.time)
    BY DEF Timed
<1> QED
    BY <1>1 DEF OpenIn

\* Handling the oldest record opens or closes the span as replaying it would.
LEMMA OpenHandled ==
  ASSUME NEW P, Timed(P), NEW x \in P, \A r \in P \ {x} : x.time < r.time,
         NEW at, NEW s \in Nat, NEW e \in Nat, x.time < e, x.type \in {"out", "in"}
  PROVE  OpenIn(P, at, e, s)
           <=> OpenIn(P \ {x}, IF x.type = "out" THEN x.time ELSE 0, e, s)
<1> DEFINE Q == P \ {x}
<1> DEFINE new == IF x.type = "out" THEN x.time ELSE 0
<1>1. x.time \in Nat /\ x.time # 0 /\ \A r \in P : r.time \in Nat
    BY DEF Timed
<1>2. ASSUME OpenIn(P, at, e, s)
      PROVE  OpenIn(Q, new, e, s)
  <2>1. PICK r \in P : /\ r.type = "out" /\ r.time = s /\ s < e
                       /\ \A k \in P : ~(s < k.time /\ k.time < e)
      BY <1>2 DEF OpenIn
  <2>2. CASE r = x
    <3>1. \A k \in Q : ~(k.time < e)
        BY <2>1, <2>2
    <3> QED
        BY <1>1, <2>1, <2>2, <3>1 DEF OpenIn
  <2>3. CASE r # x
      BY <2>1, <2>3 DEF OpenIn
  <2> QED
      BY <2>2, <2>3
<1>3. ASSUME OpenIn(Q, new, e, s)
      PROVE  OpenIn(P, at, e, s)
  <2>1. CASE \E r \in Q : /\ r.type = "out" /\ r.time = s /\ s < e
                          /\ \A k \in Q : ~(s < k.time /\ k.time < e)
    <3>1. PICK r \in Q : /\ r.type = "out" /\ r.time = s /\ s < e
                         /\ \A k \in Q : ~(s < k.time /\ k.time < e)
        BY <2>1
    <3>2. ~(s < x.time)
        BY <1>1, <3>1
    <3>3. \A k \in P : ~(s < k.time /\ k.time < e)
        BY <3>1, <3>2
    <3> QED
        BY <3>1, <3>3 DEF OpenIn
  <2>2. CASE s = new /\ s # 0 /\ \A k \in Q : ~(k.time < e)
    <3>1. x.type = "out" /\ s = x.time
        BY <2>2
    <3>2. \A k \in P : ~(s < k.time /\ k.time < e)
        BY <1>1, <2>2, <3>1
    <3> QED
        BY <3>1, <3>2 DEF OpenIn
  <2> QED
      BY <1>3, <2>1, <2>2 DEF OpenIn
<1> QED
    BY <1>2, <1>3

\* The pending records, and the times of a thread's moves.
LEMMA PendingTimes ==
  ASSUME TypeOK, QueueInv
  PROVE  /\ now \in Nat
         /\ \A t \in Tids : Timed(Pend(t)) /\ \A r \in Pend(t) : r.time <= now
<1>1. now \in Nat /\ \A r \in Pending : r.time \in 1 .. now
    BY TimeAssumption DEF TypeOK, Times, QueueInv, RingsInv
<1> QED
    BY <1>1 DEF Pend, Timed

\* A tick that adds nothing to a thread's moves or blocks.
LEMMA TickReplay ==
  ASSUME TypeOK, QueueInv, NEW t \in Tids, Replay(t),
         Pend(t)' = Pend(t), offStart' = offStart, offIv' = offIv,
         now' \in {now, now + 1}, outAt'[t].at = outAt[t].at,
         \A s, e \in Times : Real(t, s, e)' <=> Real(t, s, e)
  PROVE  Replay(t)'
<1>1. now \in Nat /\ Timed(Pend(t)) /\ \A r \in Pend(t) : r.time <= now
    BY PendingTimes
<1>2. \A s, e \in Times : /\ OpenAt(t, e, s)' <=> OpenAt(t, e, s)
                          /\ Booked(t, s, e)' <=> Booked(t, s, e)
    BY DEF OpenAt, Booked
<1>3. \A s, e \in Times : ToBook(t, s, e)' <=> ToBook(t, s, e)
    BY <1>2 DEF ToBook
<1>4. \A s \in Times \ {0} : OpenIn(Pend(t), offStart[t].at, now' + 1, s)
                               <=> OpenIn(Pend(t), offStart[t].at, now + 1, s)
  <2>1. CASE now' = now
      BY <2>1
  <2>2. CASE now' = now + 1
    <3>1. now' + 1 = now + 2
        BY <1>1, <2>2
    <3>2. \A s \in Times : s \in Nat
        BY DEF Times
    <3> QED
        BY <1>1, <3>1, <3>2, OpenLater
  <2> QED
      BY <2>1, <2>2
<1>5. \A s \in Times \ {0} : OpenAt(t, now + 1, s)' <=> OpenAt(t, now + 1, s)
    BY <1>4 DEF OpenAt
<1> QED
    BY <1>2, <1>3, <1>5 DEF Replay

\* A put adds to a thread's moves only what it writes of them.
LEMMA PutMoves ==
  ASSUME TypeOK, QueueInv, scratch = <<>>, NEW i, NEW t, NEW recs, Put(i, t, recs), NEW u \in Tids,
         \A r \in Held(recs) : ~Moves(r, u)
  PROVE  Pend(u)' = Pend(u)
<1>1. Pending \subseteq Pending' /\ Pending' \subseteq Pending \cup Held(recs)
    BY PutPending DEF QueueInv
<1> QED
    BY <1>1 DEF Pend

\* A put of one move of thread t, none of whose records was lost.
LEMMA PutOneMove ==
  ASSUME TypeOK, QueueInv, scratch = <<>>, NEW i, NEW t, NEW recs, Put(i, t, recs),
         NEW x \in Held(recs), \A r \in Held(recs) : Moves(r, t) <=> r = x,
         i \in enabled, t \notin lost'
  PROVE  /\ Pend(t)' = Pend(t) \cup {x}
         /\ x.time = now + 1 /\ now' = now + 1
         /\ Timed(Pend(t)) /\ \A r \in Pend(t) : r.time < x.time
<1>1. /\ Pending \subseteq Pending' /\ Pending' \subseteq Pending \cup Held(recs)
      /\ Held(recs) \subseteq Pending'
      /\ x.time = now + 1
    BY PutPending DEF QueueInv
<1>2. Pend(t)' = Pend(t) \cup {x}
    BY <1>1 DEF Pend
<1>3. now' = now + 1 /\ t \in Tids
    BY DEF Put, Tick
<1>4. now \in Nat /\ Timed(Pend(t)) /\ \A r \in Pend(t) : r.time <= now
    BY <1>3, PendingTimes
<1>5. \A r \in Pend(t) : r.time < x.time
    BY <1>1, <1>4 DEF Timed
<1> QED
    BY <1>1, <1>2, <1>3, <1>4, <1>5

\* A switch-out opens the thread's span once all before it is handled.
LEMMA BlockReplay ==
  ASSUME TypeOK, QueueInv, CreditInv, scratch = <<>>, NEW t \in Tids,
         NEW user \in BOOLEAN, Block(t, user), Replay(t), t \notin lost'
  PROVE  Replay(t)'
<1> DEFINE recs == <<Rec("switchSample", t, user), Rec("out", t, user)>>
<1> DEFINE i == SwitchRing(cpuOf[t])
<1> DEFINE x == Rec("out", t, user)
<1>1. SwitchOut(t, "out", "blocked", user) /\ blocks' = blocks
      /\ outAt' = IF i \in enabled THEN [outAt EXCEPT ![t] = [at |-> now + 1, user |-> user]] ELSE outAt
    BY DEF Block
<1>2. Put(i, t, recs)
    BY <1>1, SwitchOutPut DEF QueueInv
<1>3. Tick
    BY <1>2 DEF Put
<1>4. UNCHANGED <<offStart, offIv>> /\ now' = now + 1
    BY <1>3 DEF Tick, maps, sink
<1>5. Held(recs) = {Rec("switchSample", t, user), x}
    BY <1>3, TwoRecords
<1>6. /\ Moves(x, t) /\ ~Moves(Rec("switchSample", t, user), t)
      /\ x.type = "out" /\ x.time = now + 1
    BY DEF Moves, Rec
<1>7. /\ outAt \in [Tids -> [at : Times, user : BOOLEAN]]
      /\ offStart \in [Tids -> [at : Times, stack : Times]]
      /\ now \in Nat /\ now + 1 \in Times
  <2>1. now \in Times /\ now < MaxTime
      BY <1>3 DEF Tick, TypeOK
  <2> QED
      BY <2>1, TimeAssumption DEF TypeOK, Times
<1> HIDE DEF recs, i, x
<1>8. \A s, e \in Times : /\ Real(t, s, e)' <=> Real(t, s, e)
                          /\ Booked(t, s, e)' <=> Booked(t, s, e)
    BY <1>1, <1>4 DEF Real, Booked
<1>9. CASE i \notin enabled
  <2>1. Pend(t)' = Pend(t)
    <3>1. Pending' = Pending
        BY <1>2, <1>9, PutPending DEF QueueInv
    <3> QED
        BY <3>1 DEF Pend
  <2> QED
      BY <1>1, <1>4, <1>8, <1>9, <2>1, TickReplay
<1>10. CASE i \in enabled
  <2>1. /\ Pend(t)' = Pend(t) \cup {x}
        /\ Timed(Pend(t)) /\ \A r \in Pend(t) : r.time < x.time
      BY <1>2, <1>5, <1>6, <1>10, PutOneMove
  <2>2. offStart[t].at < x.time
    <3>1. offStart[t].at <= now /\ offStart[t].at \in Nat
        BY <1>7 DEF CreditInv, StacksInv, Times
    <3> QED
        BY <1>6, <1>7, <3>1
  <2>3. \A r \in Pend(t)' : offStart'[t].at < r.time
      BY <1>4, <2>1, <2>2 DEF Replay
  <2>4. \A s, e \in Times : ToBook(t, s, e)' <=> ToBook(t, s, e)
    <3> SUFFICES ASSUME NEW s \in Times, NEW e \in Times PROVE ToBook(t, s, e)' <=> ToBook(t, s, e)
        OBVIOUS
    <3>1. (\E r \in Pend(t)' : r.type = "in" /\ r.time = e) <=> (\E r \in Pend(t) : r.type = "in" /\ r.time = e)
        BY <1>6, <2>1
    <3>2. ASSUME NEW r \in Pend(t), r.time = e
          PROVE  OpenAt(t, e, s)' <=> OpenAt(t, e, s)
      <4>1. e \in Nat /\ s \in Nat /\ e <= x.time /\ x.time \in Nat
          BY <1>6, <1>7, <2>1, <3>2 DEF Times
      <4>2. OpenIn(Pend(t) \cup {x}, offStart[t].at, e, s) <=> OpenIn(Pend(t), offStart[t].at, e, s)
          BY <2>1, <4>1, OpenAdded
      <4> QED
          BY <1>4, <2>1, <4>2 DEF OpenAt
    <3> QED
        BY <3>1, <3>2 DEF ToBook
  <2>5. \A s \in Times \ {0} : outAt'[t].at = s <=> OpenAt(t, now + 1, s)'
    <3> SUFFICES ASSUME NEW s \in Times \ {0} PROVE outAt'[t].at = s <=> OpenAt(t, now + 1, s)'
        OBVIOUS
    <3>1. OpenIn(Pend(t) \cup {x}, offStart[t].at, x.time + 1, s) <=> x.type = "out" /\ s = x.time
      <4>1. s \in Nat /\ x.time \in Nat
          BY <1>6, <1>7 DEF Times
      <4> QED
          BY <2>1, <4>1, OpenLast
    <3>2. OpenAt(t, now + 1, s)' <=> s = now + 1
        BY <1>4, <1>6, <2>1, <3>1 DEF OpenAt
    <3>3. outAt'[t].at = now + 1
        BY <1>1, <1>7, <1>10
    <3> QED
        BY <3>2, <3>3
  <2> QED
      BY <1>8, <2>3, <2>4, <2>5 DEF Replay
<1> QED
    BY <1>9, <1>10

\* A switch-in closes the thread's span once all before it is handled.
LEMMA SwitchInReplay ==
  ASSUME TypeOK, QueueInv, CreditInv, scratch = <<>>, NEW t \in Tids,
         NEW c \in Cpus, SwitchIn(t, c), Replay(t), t \notin lost'
  PROVE  Replay(t)'
<1> DEFINE recs == <<Rec("in", t, FALSE)>>
<1> DEFINE i == SwitchRing(c)
<1> DEFINE x == Rec("in", t, FALSE)
<1> DEFINE b == [tid |-> t, start |-> outAt[t].at, end |-> now + 1, user |-> outAt[t].user]
<1>1. IF i \in enabled /\ outAt[t].at # 0
      THEN blocks' = blocks \cup {b} /\ outAt' = [outAt EXCEPT ![t] = NotOut]
      ELSE UNCHANGED <<blocks, outAt>>
    BY DEF SwitchIn, witness
<1>2. Put(i, t, recs)
    BY SwitchInPut
<1>3. Tick
    BY <1>2 DEF Put
<1>4. UNCHANGED <<offStart, offIv>> /\ now' = now + 1
    BY <1>3 DEF Tick, maps, sink
<1>5. Held(recs) = {x}
  <2>1. \A user \in BOOLEAN : Held(<<Rec("in", t, user)>>) = {Rec("in", t, user)}
      BY <1>3, OneRecord
  <2>2. FALSE \in BOOLEAN
      OBVIOUS
  <2> QED
      BY <2>1, <2>2, Zenon
<1>6. Moves(x, t) /\ x.type = "in" /\ x.time = now + 1
    BY DEF Moves, Rec
<1>7. /\ outAt \in [Tids -> [at : Times, user : BOOLEAN]]
      /\ offStart \in [Tids -> [at : Times, stack : Times]]
      /\ now \in Nat /\ now + 1 \in Times
  <2>1. now \in Times /\ now < MaxTime
      BY <1>3 DEF Tick, TypeOK
  <2> QED
      BY <2>1, TimeAssumption DEF TypeOK, Times
<1>8. b.tid = t /\ b.start = outAt[t].at /\ b.end = now + 1
    OBVIOUS
<1> HIDE DEF recs, i, x, b
<1>9. \A s, e \in Times : Booked(t, s, e)' <=> Booked(t, s, e)
    BY <1>4 DEF Booked
<1>10. CASE i \notin enabled
  <2>1. Pend(t)' = Pend(t)
    <3>1. Pending' = Pending
        BY <1>2, <1>10, PutPending DEF QueueInv
    <3> QED
        BY <3>1 DEF Pend
  <2>2. UNCHANGED <<blocks, outAt>>
      BY <1>1, <1>10
  <2>3. \A s, e \in Times : Real(t, s, e)' <=> Real(t, s, e)
      BY <2>2 DEF Real
  <2> QED
      BY <1>4, <2>1, <2>2, <2>3, TickReplay
<1>11. CASE i \in enabled
  <2>1. /\ Pend(t)' = Pend(t) \cup {x}
        /\ Timed(Pend(t)) /\ \A r \in Pend(t) : r.time < x.time
      BY <1>2, <1>5, <1>6, <1>11, PutOneMove
  <2>2. offStart[t].at < x.time
    <3>1. offStart[t].at <= now /\ offStart[t].at \in Nat
        BY <1>7 DEF CreditInv, StacksInv, Times
    <3> QED
        BY <1>6, <1>7, <3>1
  <2>3. \A r \in Pend(t)' : offStart'[t].at < r.time
      BY <1>4, <2>1, <2>2 DEF Replay
  <2>4. \A s, e \in Times : e <= x.time => (OpenAt(t, e, s)' <=> OpenAt(t, e, s))
    <3> SUFFICES ASSUME NEW s \in Times, NEW e \in Times, e <= x.time
                 PROVE  OpenAt(t, e, s)' <=> OpenAt(t, e, s)
        OBVIOUS
    <3>1. e \in Nat /\ s \in Nat /\ x.time \in Nat
        BY <1>6, <1>7 DEF Times
    <3>2. OpenIn(Pend(t) \cup {x}, offStart[t].at, e, s) <=> OpenIn(Pend(t), offStart[t].at, e, s)
        BY <2>1, <3>1, OpenAdded
    <3> QED
        BY <1>4, <2>1, <3>2 DEF OpenAt
  <2>5. \A s \in Times : OpenAt(t, now + 1, s) <=> s # 0 /\ outAt[t].at = s
    <3> SUFFICES ASSUME NEW s \in Times PROVE OpenAt(t, now + 1, s) <=> s # 0 /\ outAt[t].at = s
        OBVIOUS
    <3>1. CASE s # 0
        BY <3>1 DEF Replay
    <3>2. CASE s = 0
        BY <2>1, <3>2 DEF OpenAt, OpenIn, Timed
    <3> QED
        BY <3>1, <3>2
  <2>6. ASSUME NEW s \in Times, NEW e \in Times
        PROVE  ToBook(t, s, e)' <=> ToBook(t, s, e) \/ (e = now + 1 /\ s # 0 /\ outAt[t].at = s)
    <3>1. CASE e = now + 1
      <4>1. OpenAt(t, e, s)' <=> s # 0 /\ outAt[t].at = s
        <5>1. e <= x.time
            BY <1>6, <1>7, <3>1
        <5>2. OpenAt(t, e, s)' <=> OpenAt(t, e, s)
            BY <2>4, <5>1
        <5>3. OpenAt(t, e, s) <=> OpenAt(t, now + 1, s)
            BY <3>1
        <5> QED
            BY <2>5, <5>2, <5>3
      <4>2. \A r \in Pend(t) : r.time # e
          BY <1>6, <1>7, <2>1, <3>1 DEF Timed
      <4>3. \E r \in Pend(t)' : r.type = "in" /\ r.time = e
          BY <1>6, <2>1, <3>1
      <4> QED
          BY <3>1, <4>1, <4>2, <4>3 DEF ToBook
    <3>2. CASE e # now + 1
      <4>1. (\E r \in Pend(t)' : r.type = "in" /\ r.time = e) <=> (\E r \in Pend(t) : r.type = "in" /\ r.time = e)
          BY <1>6, <2>1, <3>2
      <4>2. ASSUME NEW r \in Pend(t), r.time = e PROVE e <= x.time
          BY <1>6, <1>7, <2>1, <4>2 DEF Timed
      <4> QED
          BY <2>4, <3>2, <4>1, <4>2 DEF ToBook
    <3> QED
        BY <3>1, <3>2
  <2>7. ASSUME NEW s \in Times, NEW e \in Times
        PROVE  Real(t, s, e)' <=> Real(t, s, e) \/ (e = now + 1 /\ s # 0 /\ outAt[t].at = s)
    <3>1. CASE outAt[t].at # 0
      <4>1. blocks' = blocks \cup {b}
          BY <1>1, <1>11, <3>1
      <4> QED
          BY <1>8, <3>1, <4>1 DEF Real
    <3>2. CASE outAt[t].at = 0
      <4>1. blocks' = blocks
          BY <1>1, <3>2
      <4> QED
          BY <3>2, <4>1 DEF Real
    <3> QED
        BY <3>1, <3>2
  <2>8. \A s, e \in Times : Real(t, s, e)' <=> Booked(t, s, e)' \/ ToBook(t, s, e)'
      BY <1>9, <2>6, <2>7 DEF Replay
  <2>9. \A s \in Times \ {0} : outAt'[t].at = s <=> OpenAt(t, now + 1, s)'
    <3> SUFFICES ASSUME NEW s \in Times \ {0} PROVE outAt'[t].at = s <=> OpenAt(t, now + 1, s)'
        OBVIOUS
    <3>1. ~OpenIn(Pend(t) \cup {x}, offStart[t].at, x.time + 1, s)
      <4>1. s \in Nat /\ x.time \in Nat
          BY <1>6, <1>7 DEF Times
      <4> QED
          BY <1>6, <2>1, <4>1, OpenLast
    <3>2. ~OpenAt(t, now + 1, s)'
        BY <1>4, <1>6, <2>1, <3>1 DEF OpenAt
    <3>3. outAt'[t].at = 0
        BY <1>1, <1>7, <1>11 DEF NotOut
    <3> QED
        BY <3>2, <3>3
  <2> QED
      BY <2>3, <2>8, <2>9 DEF Replay
<1> QED
    BY <1>10, <1>11

\* Every action of the kernel, for a thread whose switches are all in.
LEMMA KernelReplay ==
  ASSUME TypeOK, QueueInv, CreditInv, scratch = <<>>, Kernel,
         NEW u \in Tids, Replay(u), u \notin lost'
  PROVE  Replay(u)'
<1>1. HomeInv
    BY DEF QueueInv
<1>2. ASSUME NEW i, NEW t, NEW recs, Put(i, t, recs), \A r \in Held(recs) : ~Moves(r, u),
             outAt'[u].at = outAt[u].at, \A s, e \in Times : Real(u, s, e)' <=> Real(u, s, e)
      PROVE  Replay(u)'
  <2>1. Pend(u)' = Pend(u)
      BY <1>2, PutMoves
  <2>2. UNCHANGED <<offStart, offIv>> /\ now' = now + 1
      BY <1>2 DEF Put, Tick, maps, sink
  <2> QED
      BY <1>2, <2>1, <2>2, TickReplay
<1>3. ASSUME NEW i, NEW t, NEW recs, Put(i, t, recs), t # u
      PROVE  \A r \in Held(recs) : ~Moves(r, u)
    BY <1>3, PutPending DEF Moves, QueueInv
<1>4. ASSUME UNCHANGED <<blocks, outAt>>
      PROVE  outAt'[u].at = outAt[u].at /\ \A s, e \in Times : Real(u, s, e)' <=> Real(u, s, e)
    BY <1>4 DEF Real
<1>5. ASSUME NEW t \in Tids, NEW user \in BOOLEAN, Sample(t, user)
      PROVE  Replay(u)'
  <2>1. UNCHANGED <<blocks, outAt>> /\ Tick
      BY <1>5 DEF Sample, witness
  <2>2. Put(SamplingRing(cpuOf[t]), t, <<Rec("sample", t, user)>>)
      BY <1>1, <1>5, SamplePut
  <2>3. Held(<<Rec("sample", t, user)>>) = {Rec("sample", t, user)} /\ ~Moves(Rec("sample", t, user), u)
      BY <2>1, OneRecord DEF Moves, Rec
  <2> QED
      BY <1>2, <1>4, <2>1, <2>2, <2>3
<1>6. ASSUME NEW t \in Tids, Preempt(t)
      PROVE  Replay(u)'
  <2> DEFINE recs == <<Rec("switchSample", t, TRUE), Rec("preempt", t, TRUE)>>
  <2>1. UNCHANGED <<blocks, outAt>> /\ SwitchOut(t, "preempt", "ready", TRUE)
      BY <1>6 DEF Preempt, witness
  <2>2. Put(SwitchRing(cpuOf[t]), t, recs) /\ Tick
      BY <1>1, <2>1, SwitchOutPut DEF SwitchOut
  <2>3. Held(recs) = {Rec("switchSample", t, TRUE), Rec("preempt", t, TRUE)}
      BY <2>2, TwoRecords
  <2>4. ~Moves(Rec("switchSample", t, TRUE), u) /\ ~Moves(Rec("preempt", t, TRUE), u)
      BY DEF Moves, Rec
  <2> HIDE DEF recs
  <2> QED
      BY <1>2, <1>4, <2>1, <2>2, <2>3, <2>4
<1>7. ASSUME NEW t \in Tids, NEW user \in BOOLEAN, Block(t, user)
      PROVE  Replay(u)'
  <2>1. CASE t = u
      BY <1>7, <2>1, BlockReplay
  <2>2. CASE t # u
    <3>1. Put(SwitchRing(cpuOf[t]), t, <<Rec("switchSample", t, user), Rec("out", t, user)>>)
        BY <1>1, <1>7, SwitchOutPut DEF Block
    <3>2. blocks' = blocks /\ outAt'[u] = outAt[u]
        BY <1>7, <2>2 DEF Block, TypeOK
    <3>3. \A s, e \in Times : Real(u, s, e)' <=> Real(u, s, e)
        BY <3>2 DEF Real
    <3> QED
        BY <1>2, <1>3, <2>2, <3>1, <3>2, <3>3
  <2> QED
      BY <2>1, <2>2
<1>8. ASSUME NEW t \in Tids, NEW c \in Cpus, SwitchIn(t, c)
      PROVE  Replay(u)'
  <2>1. CASE t = u
      BY <1>8, <2>1, SwitchInReplay
  <2>2. CASE t # u
    <3>1. Put(SwitchRing(c), t, <<Rec("in", t, FALSE)>>)
        BY <1>8, SwitchInPut
    <3>2. outAt'[u] = outAt[u]
        BY <1>8, <2>2 DEF SwitchIn, witness, TypeOK
    <3>3. \A s, e \in Times : Real(u, s, e)' <=> Real(u, s, e)
        BY <1>8, <2>2 DEF SwitchIn, witness, Real
    <3> QED
        BY <1>2, <1>3, <2>2, <3>1, <3>2, <3>3
  <2> QED
      BY <2>1, <2>2
<1>9. ASSUME NEW t \in Tids, NEW c \in Cpus, Wake(t, c)
      PROVE  Replay(u)'
  <2>1. UNCHANGED <<blocks, outAt>> /\ Tick
      BY <1>9 DEF Wake, witness
  <2>2. Put(WakingRing(c), t, <<Rec("waking", t, FALSE)>>)
      BY <1>9, WakePut
  <2>3. Held(<<Rec("waking", t, FALSE)>>) = {Rec("waking", t, FALSE)}
    <3>1. \A user \in BOOLEAN : Held(<<Rec("waking", t, user)>>) = {Rec("waking", t, user)}
        BY <2>1, OneRecord
    <3>2. FALSE \in BOOLEAN
        OBVIOUS
    <3> QED
        BY <3>1, <3>2, Zenon
  <2>4. ~Moves(Rec("waking", t, FALSE), u)
      BY DEF Moves, Rec
  <2> QED
      BY <1>2, <1>4, <2>1, <2>2, <2>3, <2>4
<1> QED
    BY <1>5, <1>6, <1>7, <1>8, <1>9 DEF Kernel

\* Handling a record, for a thread bound to CPU c.
LEMMA HandleReplay ==
  ASSUME TypeOK, QueueInv, Handle, NEW u \in Tids, NEW c \in Cpus, affinity[u] = {c}, Replay(u)
  PROVE  Replay(u)'
<1> DEFINE r == Head(scratch)
<1>1. /\ r \in Record /\ r \in Pending /\ r.time \in 1 .. now
      /\ Held(scratch) = {r} \cup Held(scratch')
      /\ \A x \in Held(scratch') : Before(r, x)
      /\ Pending' = Pending \ {r} /\ ring' = ring
    BY HandlePending
<1>2. UNCHANGED <<now, blocks, outAt>>
    BY DEF Handle, kernel, witness
<1>3. OnSample(r) \/ OnSwitchSample(r) \/ OnSwitchOut(r) \/ OnPreempt(r)
        \/ OnSwitchIn(r) \/ OnWaking(r)
    BY DEF Handle
<1>4. now \in Nat /\ Timed(Pend(u)) /\ \A x \in Pend(u) : x.time <= now
    BY PendingTimes
<1>5. \A s, e \in Times : Real(u, s, e)' <=> Real(u, s, e)
    BY <1>2 DEF Real
<1>6. offStart \in [Tids -> [at : Times, stack : Times]]
    BY DEF TypeOK
<1> HIDE DEF r
<1>7. r.tid \in Tids /\ r.time \in Nat
    BY <1>1, RecordTime
<1>8. CASE ~Moves(r, u)
  <2>1. Pend(u)' = Pend(u)
      BY <1>1, <1>8 DEF Pend
  <2>2. offStart'[u] = offStart[u]
      BY <1>3, <1>6, <1>7, <1>8 DEF Moves, OnSample, OnSwitchSample, OnSwitchOut, OnPreempt, StaysOpen,
                              OnSwitchIn, OnWaking
  <2>3. \A s, e \in Times : Booked(u, s, e)' <=> Booked(u, s, e)
    <3>1. CASE offIv' = offIv
        BY <3>1 DEF Booked
    <3>2. CASE OnSwitchIn(r)
      <4>1. u # r.tid
          BY <1>8, <3>2 DEF OnSwitchIn, Moves
      <4>2. \A iv \in offIv' : iv.tid = u => iv \in offIv
          BY <3>2, <4>1 DEF OnSwitchIn
      <4>3. offIv \subseteq offIv'
          BY <3>2 DEF OnSwitchIn
      <4> QED
          BY <4>2, <4>3 DEF Booked
    <3> QED
        BY <1>3, <3>1, <3>2 DEF OnSample, OnSwitchSample, OnSwitchOut, OnPreempt, OnWaking, sink
  <2>4. \A s, e \in Times : OpenAt(u, e, s)' <=> OpenAt(u, e, s)
      BY <2>1, <2>2 DEF OpenAt
  <2>5. \A s, e \in Times : ToBook(u, s, e)' <=> ToBook(u, s, e)
      BY <2>1, <2>4 DEF ToBook
  <2>6. \A s \in Times : OpenAt(u, now + 1, s)' <=> OpenAt(u, now + 1, s)
      BY <1>2, <2>1, <2>2 DEF OpenAt
  <2> QED
      BY <1>2, <1>5, <2>1, <2>2, <2>3, <2>5, <2>6 DEF Replay
<1>9. CASE Moves(r, u)
  <2>1. r \in Pend(u) /\ r.type \in {"out", "in"} /\ r.tid = u
      BY <1>1, <1>9 DEF Pend, Moves
  <2>2. Pend(u)' = Pend(u) \ {r}
      BY <1>1 DEF Pend
  <2>3. \A k \in Pend(u) \ {r} : r.time < k.time
    <3> SUFFICES ASSUME NEW k \in Pend(u) \ {r} PROVE r.time < k.time
        OBVIOUS
    <3>1. ring[SwitchRing(c)] = <<>>
        BY <1>1, <1>9 DEF QueueInv, HomeInv
    <3>2. \A j \in Rings : k \notin Held(ring[j])
      <4>1. Held(ring[SwitchRing(c)]) = {}
          BY <3>1 DEF Held
      <4> QED
          BY <4>1 DEF QueueInv, HomeInv, Pend
    <3>3. k \in Held(scratch')
        BY <1>1, <3>2 DEF Pend, Pending
    <3> QED
        BY <1>1, <2>1, <3>3 DEF Before
  <2> DEFINE at == offStart[u].at
  <2> DEFINE new == IF r.type = "out" THEN r.time ELSE 0
  <2>4. offStart'[u].at = new
    <3>1. CASE r.type = "out"
        BY <1>3, <1>6, <1>7, <2>1, <3>1 DEF OnSample, OnSwitchSample, OnSwitchOut, OnPreempt, OnSwitchIn, OnWaking
    <3>2. CASE r.type = "in"
        BY <1>3, <1>6, <1>7, <2>1, <3>2 DEF OnSample, OnSwitchSample, OnSwitchOut, OnPreempt, OnSwitchIn, OnWaking
    <3> QED
        BY <2>1, <3>1, <3>2
  <2>5. at \in Nat /\ at < r.time
      BY <1>6, <2>1 DEF Replay, Times
  <2> HIDE DEF at
  <2>6. \A s, e \in Nat : r.time < e => (OpenIn(Pend(u), at, e, s) <=> OpenIn(Pend(u) \ {r}, new, e, s))
      BY <1>4, <2>1, <2>3, OpenHandled
  <2> HIDE DEF new
  <2>7. \A k \in Pend(u)' : offStart'[u].at < k.time
    <3>1. new \in {r.time, 0}
        BY DEF new
    <3>2. \A k \in Pend(u) \ {r} : k.time \in Nat /\ 0 < k.time
        BY <1>4 DEF Timed
    <3> QED
        BY <2>2, <2>3, <2>4, <3>1, <3>2
  <2>8. \A s, e \in Nat : r.time < e => (OpenAt(u, e, s)' <=> OpenAt(u, e, s))
      BY <2>2, <2>4, <2>6 DEF OpenAt, at
  <2>9. \A s \in Times \ {0} : outAt'[u].at = s <=> OpenAt(u, now + 1, s)'
    <3> SUFFICES ASSUME NEW s \in Times \ {0} PROVE outAt'[u].at = s <=> OpenAt(u, now + 1, s)'
        OBVIOUS
    <3>1. s \in Nat /\ now + 1 \in Nat /\ r.time < now + 1
        BY <1>1, <1>4 DEF Times
    <3>2. OpenIn(Pend(u), at, now + 1, s) <=> OpenIn(Pend(u) \ {r}, new, now + 1, s)
        BY <2>6, <3>1
    <3>3. OpenAt(u, now + 1, s)' <=> OpenAt(u, now + 1, s)
        BY <1>2, <2>2, <2>4, <3>2 DEF OpenAt, at
    <3> QED
        BY <1>2, <3>3 DEF Replay
  <2>10. ASSUME NEW s \in Times, NEW e \in Times
         PROVE  Booked(u, s, e)' \/ ToBook(u, s, e)' <=> Booked(u, s, e) \/ ToBook(u, s, e)
    <3>1. s \in Nat /\ e \in Nat
        BY DEF Times
    <3>2. ASSUME NEW k \in Pend(u)', k.time = e
          PROVE  OpenAt(u, e, s)' <=> OpenAt(u, e, s)
      <4>1. r.time < e
          BY <2>2, <2>3, <3>2
      <4> QED
          BY <2>8, <3>1, <4>1
    <3>3. CASE r.type = "out"
      <4>1. offIv' = offIv
          BY <1>3, <3>3 DEF OnSample, OnSwitchSample, OnSwitchOut, OnPreempt, OnSwitchIn, OnWaking, sink
      <4>2. (\E k \in Pend(u)' : k.type = "in" /\ k.time = e) <=> (\E k \in Pend(u) : k.type = "in" /\ k.time = e)
          BY <2>2, <3>3
      <4>3. ToBook(u, s, e)' <=> ToBook(u, s, e)
          BY <3>2, <4>2 DEF ToBook
      <4>4. Booked(u, s, e)' <=> Booked(u, s, e)
          BY <4>1 DEF Booked
      <4> QED
          BY <4>3, <4>4
    <3>4. CASE r.type = "in"
      <4>1. OnSwitchIn(r)
          BY <1>3, <3>4 DEF OnSample, OnSwitchSample, OnSwitchOut, OnPreempt, OnWaking
      <4>2. Booked(u, s, e)' <=> Booked(u, s, e) \/ (s = at /\ at # 0 /\ e = r.time)
        <5>1. CASE at # 0
          <6> DEFINE iv == [tid |-> u, start |-> at, end |-> r.time,
                            stack |-> offStart[u].stack, wake |-> Waking(u, r.time)]
          <6>1. offIv' = offIv \cup {iv}
              BY <2>1, <2>5, <4>1, <5>1 DEF OnSwitchIn, at
          <6>2. iv.tid = u /\ iv.start = at /\ iv.end = r.time
              OBVIOUS
          <6> HIDE DEF iv
          <6> QED
              BY <5>1, <6>1, <6>2 DEF Booked
        <5>2. CASE at = 0
          <6>1. offIv' = offIv
              BY <2>1, <4>1, <5>2 DEF OnSwitchIn, at
          <6> QED
              BY <5>2, <6>1 DEF Booked
        <5> QED
            BY <5>1, <5>2
      <4>3. ToBook(u, s, e) <=> ToBook(u, s, e)' \/ (s = at /\ at # 0 /\ e = r.time)
        <5>1. CASE e = r.time
          <6>1. OpenAt(u, e, s) <=> s = at /\ s # 0
            <7>1. OpenIn(Pend(u), at, r.time, s) <=> s = at /\ s # 0
                BY <1>4, <2>1, <2>3, <3>1, OpenFirst
            <7> QED
                BY <5>1, <7>1 DEF OpenAt, at
          <6>2. \A k \in Pend(u)' : k.time # e
              BY <1>4, <1>7, <2>2, <2>3, <5>1 DEF Timed
          <6>3. ~ToBook(u, s, e)'
              BY <6>2 DEF ToBook
          <6> QED
              BY <2>1, <3>4, <5>1, <6>1, <6>3 DEF ToBook
        <5>2. CASE e # r.time
          <6>1. (\E k \in Pend(u)' : k.type = "in" /\ k.time = e) <=> (\E k \in Pend(u) : k.type = "in" /\ k.time = e)
              BY <2>2, <5>2
          <6> QED
              BY <3>2, <5>2, <6>1 DEF ToBook
        <5> QED
            BY <5>1, <5>2
      <4> QED
          BY <4>2, <4>3
    <3> QED
        BY <2>1, <3>3, <3>4
  <2> QED
      BY <1>5, <2>7, <2>9, <2>10 DEF Replay
<1> QED
    BY <1>8, <1>9

\* The blocks of a bound thread, from the first record to the flush.
THEOREM ReplayInvariant == Spec => []ReplayInv
<1>1. Init => ReplayInv
  <2> SUFFICES ASSUME Init, NEW t \in Tids PROVE Replay(t)
      BY DEF ReplayInv, Pinned
  <2>1. /\ Pending = {} /\ offIv = {} /\ blocks = {}
        /\ offStart[t].at = 0 /\ outAt[t].at = 0
      BY InitQueue DEF Init, NotOut
  <2>2. Pend(t) = {}
      BY <2>1 DEF Pend
  <2> QED
      BY <2>1, <2>2 DEF Replay, Real, Booked, ToBook, OpenAt, OpenIn
<1>2. TypeOK /\ QueueInv /\ CreditInv /\ ReplayInv /\ [Next]_vars => ReplayInv'
  <2> SUFFICES ASSUME TypeOK, QueueInv, CreditInv, ReplayInv, [Next]_vars,
                      phase' # "done", NEW u \in Pinned'
               PROVE  Replay(u)'
      BY DEF ReplayInv
  <2>1. ASSUME lost \subseteq lost', affinity' = affinity, phase # "done"
        PROVE  u \in Tids /\ u \notin lost' /\ Replay(u) /\ \E c \in Cpus : affinity[u] = {c}
      BY <2>1 DEF ReplayInv, Pinned
  <2>2. CASE phase # "done" /\ scratch = <<>> /\ Kernel
    <3>1. Tick
        BY <2>2, KernelType
    <3>2. lost \subseteq lost'
        BY <2>2 DEF Kernel, Preempt, Sample, Block, SwitchIn, Wake, SwitchOut, Write
    <3> QED
        BY <2>1, <2>2, <3>1, <3>2, KernelReplay DEF Tick
  <2>3. CASE Handle
    <3>1. lost \subseteq lost' /\ affinity' = affinity /\ phase # "done"
        BY <2>3 DEF Handle, kernel
    <3> QED
        BY <2>1, <2>3, <3>1, HandleReplay
  <2>4. ASSUME UNCHANGED <<now, affinity, lost, blocks, outAt, offStart, offIv>>, Pending' = Pending,
               phase # "done"
        PROVE  Replay(u)'
    <3>1. Pend(u)' = Pend(u)
        BY <2>4 DEF Pend
    <3>2. \A s, e \in Times : Real(u, s, e)' <=> Real(u, s, e)
        BY <2>4 DEF Real
    <3> QED
        BY <2>1, <2>4, <3>1, <3>2, TickReplay
  <2>5. CASE Drain
      BY <2>4, <2>5, DrainPending DEF Drain, kernel, witness, maps, sink
  <2>6. CASE Enable \/ Top \/ Disable
      BY <2>4, <2>6 DEF Enable, Top, Disable, kernel, witness, perf, maps, sink, Pending
  <2>7. CASE UNCHANGED vars
      BY <2>4, <2>7 DEF vars, kernel, witness, perf, loop, maps, sink, Pending
  <2>8. ~FlushOffCpu
      BY DEF FlushOffCpu
  <2> QED
      BY <2>2, <2>3, <2>5, <2>6, <2>7, <2>8 DEF Next, Session
<1> QED
    BY <1>1, <1>2, SessionTypeCorrect, QueueInvariant, CreditInvariant, PTL DEF Spec

\* The intervals of a thread whose records have all been handled.
LEMMA FlushExact ==
  ASSUME TypeOK, QueueInv, ReplayInv, FlushOffCpu, NEW t \in Pinned
  PROVE  {<<iv.start, iv.end>> : iv \in {o \in offIv' : o.tid = t}}
           = {<<b.start, b.end>> : b \in {b \in blocks : b.tid = t}}
               \cup (IF outAt[t].at # 0 /\ lastTs > outAt[t].at
                     THEN {<<outAt[t].at, lastTs>>} ELSE {})
<1>1. t \in Tids /\ Replay(t)
    BY DEF FlushOffCpu, ReplayInv, Pinned
<1>2. Pend(t) = {}
  <2>1. scratch = <<>> /\ \A j \in Rings : ring[j] = <<>>
      BY DEF FlushOffCpu, QueueInv, SweepInv
  <2> QED
      BY <2>1 DEF Pend, Pending, Held
<1>3. \A s, e \in Times : Real(t, s, e) <=> Booked(t, s, e)
    BY <1>1, <1>2 DEF Replay, ToBook
<1>4. outAt[t].at = offStart[t].at
  <2>1. outAt[t].at \in Times /\ offStart[t].at \in Times
      BY <1>1 DEF TypeOK
  <2>2. \A s \in Times \ {0} : outAt[t].at = s <=> s = offStart[t].at
      BY <1>1, <1>2 DEF Replay, OpenAt, OpenIn
  <2> QED
      BY <2>1, <2>2
<1>5. offIv \subseteq OffInterval /\ blocks \subseteq BlockOf
    BY DEF TypeOK
<1>6. {<<iv.start, iv.end>> : iv \in {o \in offIv : o.tid = t}}
        = {<<b.start, b.end>> : b \in {b \in blocks : b.tid = t}}
  <2>1. ASSUME NEW iv \in offIv, iv.tid = t
        PROVE  \E b \in blocks : b.tid = t /\ b.start = iv.start /\ b.end = iv.end
    <3>1. iv.start \in Times /\ iv.end \in Times
        BY <1>5 DEF OffInterval
    <3>2. Booked(t, iv.start, iv.end)
        BY <2>1 DEF Booked
    <3> QED
        BY <1>3, <3>1, <3>2 DEF Real
  <2>2. ASSUME NEW b \in blocks, b.tid = t
        PROVE  \E iv \in offIv : iv.tid = t /\ b.start = iv.start /\ b.end = iv.end
    <3>1. b.start \in Times /\ b.end \in Times
        BY <1>5 DEF BlockOf
    <3>2. Real(t, b.start, b.end)
        BY <2>2 DEF Real
    <3> QED
        BY <1>3, <3>1, <3>2 DEF Booked
  <2> QED
      BY <2>1, <2>2
<1>7. offIv' = offIv \cup Flushed
    BY DEF FlushOffCpu
<1>8. {o \in Flushed : o.tid = t} = IF t \in StillParked THEN {FlushedInterval(t)} ELSE {}
    BY DEF Flushed, FlushedInterval
<1>9. {<<iv.start, iv.end>> : iv \in {o \in Flushed : o.tid = t}}
        = IF outAt[t].at # 0 /\ lastTs > outAt[t].at THEN {<<outAt[t].at, lastTs>>} ELSE {}
  <2>1. FlushedInterval(t).start = outAt[t].at /\ FlushedInterval(t).end = lastTs
      BY <1>4 DEF FlushedInterval
  <2>2. t \in StillParked <=> outAt[t].at # 0 /\ lastTs > outAt[t].at
      BY <1>1, <1>4 DEF StillParked
  <2> QED
      BY <1>8, <2>1, <2>2
<1> QED
    BY <1>6, <1>7, <1>9

\* When the session is over, the off-CPU intervals of a thread bound to one
\* CPU are the blocks its switch ring saw, and the one it is still in: none is
\* missed, split or made up, however the drains and the handlers interleave
\* with the kernel (on_switch, flush_off_cpu, the final sweep).
THEOREM OffCpuExactThm == Spec => []OffCpuExact
<1>1. Init => OffCpuExact
    BY DEF Init, OffCpuExact
<1>2. TypeOK /\ QueueInv /\ ReplayInv /\ OffCpuExact /\ [Next]_vars => OffCpuExact'
  <2> SUFFICES ASSUME TypeOK, QueueInv, ReplayInv, OffCpuExact, [Next]_vars, phase' = "done"
               PROVE  OffCpuExact'
      BY DEF OffCpuExact
  <2>1. CASE FlushOffCpu
    <3>1. UNCHANGED <<affinity, lost, blocks, outAt, lastTs>>
        BY <2>1 DEF FlushOffCpu, kernel, witness
    <3>2. Pinned' = Pinned
        BY <3>1 DEF Pinned
    <3> QED
        BY <2>1, <3>1, <3>2, FlushExact DEF OffCpuExact
  <2>2. CASE UNCHANGED vars
      BY <2>2 DEF vars, kernel, witness, loop, maps, sink, OffCpuExact, Pinned
  <2>3. CASE ~FlushOffCpu /\ Next
    <3>1. phase # "done"
        BY <2>3 DEF Next, Session, Enable, Top, Drain, Handle, Disable, QueueInv, SweepInv
    <3>2. ~Kernel
        BY <3>1, KernelType DEF Tick, loop
    <3> QED
        BY <2>3, <3>1, <3>2 DEF Next, Session, Enable, Top, Drain, Handle, Disable, EachRing
  <2> QED
      BY <2>1, <2>2, <2>3
<1> QED
    BY <1>1, <1>2, SessionTypeCorrect, QueueInvariant, ReplayInvariant, PTL DEF Spec
=============================================================================
