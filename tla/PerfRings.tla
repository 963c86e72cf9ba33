----------------------------- MODULE PerfRings -----------------------------
(***************************************************************************)
(* Perf events on Linux: how a recording gets its per-CPU rings, over the  *)
(* fd broker (staxd/src/linux.rs, stax-linux-capture/src/daemon.rs) or in  *)
(* the same process (session.rs run), and how one ring is drained while    *)
(* the kernel writes to it (sys.rs PerfRing::drain).                       *)
(*                                                                         *)
(* A descriptor is the triple kind, cpu, slot; closing it is the drop of   *)
(* its owner.  The ring counts words of eight bytes: the kernel aligns     *)
(* records to them, so a header never straddles the end of the ring.       *)
(***************************************************************************)
EXTENDS Naturals, Sequences, FiniteSets, SequencesExt

CONSTANTS PfCpus,      \* number of online CPUs
          PfCounters,  \* the counters of a PMU group, in PmuKind::index order
          RgSize,      \* words of the data area
          RgSizes,     \* words a record may have
          RgMaxWrites  \* bound on records the kernel tries to write

ASSUME PfAssumption ==
  /\ PfCpus \in Nat \ {0} /\ RgSize \in Nat \ {0} /\ RgSizes \subseteq Nat \ {0}
  /\ PfCounters # <<>> /\ PfCounters \in Seq(ToSet(PfCounters))

VARIABLES pf,      \* the set-up: where it is and the descriptors it holds
          pfOpen,  \* events open in the kernel
          rg,      \* the ring: data, head, tail as the kernel sees them
          rgRead,  \* the reader: pc, the head it loaded, its own tail, the copy, lost_records
          rgLog    \* records written, tried and lost so far, the losses reported

pfVars == <<pf, pfOpen>>
rgVars == <<rg, rgRead, rgLog>>
prVars == <<pfVars, rgVars>>

-----------------------------------------------------------------------------
(* Set-up *)

PfFd(kind, cpu, slot) == <<kind, cpu, slot>>
NoRings(via, pc) ==
  [via |-> via, pc |-> pc, sampling |-> <<>>, switch |-> <<>>, waking |-> <<>>, offsets |-> FALSE,
   pmu |-> <<>>, pmuOff |-> FALSE, group |-> <<>>, mapped |-> 0, kinds |-> {}]

\* The broker is used when its socket is there.
PfInit == /\ \E via \in {"broker", "local"} : pf = NoRings(via, "leader")
          /\ pfOpen = {}

PfAt(pc) == pf.pc = pc
PfHeld == ToSet(pf.sampling) \cup ToSet(pf.switch) \cup ToSet(pf.waking)
            \cup ToSet(pf.pmu) \cup ToSet(pf.group)

\* An error return drops everything the set-up owns.
PfFail == pf' = NoRings(pf.via, "failed") /\ pfOpen' = {}

\* perf_event_open of one event.
PfOpens(fd) == pfOpen' = pfOpen \cup {fd}

\* The sampling event of the next CPU: required.  In the same process open_cpu
\* maps it at once, and a failed mapping fails it the same way.
OpenLeader ==
  /\ PfAt("leader")
  /\ LET cpu == Len(pf.sampling) + 1
         fd  == PfFd("sampling", cpu, 0)
     IN  \/ /\ PfOpens(fd)
            /\ pf' = [pf EXCEPT !.sampling = Append(@, fd), !.group = <<>>,
                 !.pc = IF ~pf.pmuOff THEN "sibling" ELSE IF cpu = PfCpus THEN "pmu" ELSE "leader"]
         \/ PfFail

\* Without the clearing the client would have to handle a partial layout.
MutantPmuAfter == pf.pmu

\* The broker ships the counters of all CPUs or none.
PmuAfter == IF pf.via = "broker" /\ pf.pmuOff THEN <<>> ELSE pf.pmu

\* open_cpu_pmu_siblings: the group of this CPU, all of it or nothing. After a
\* failure the broker gives up on counters; in process only this CPU lacks them.
OpenSibling ==
  /\ PfAt("sibling")
  /\ LET cpu  == Len(pf.sampling)
         slot == Len(pf.group) + 1
         fd   == PfFd("pmu", cpu, slot)
         next == IF cpu = PfCpus THEN "pmu" ELSE "leader"
     IN  \/ /\ PfOpens(fd)
            /\ pf' = IF slot < Len(PfCounters) THEN [pf EXCEPT !.group = Append(@, fd)]
                     ELSE [pf EXCEPT !.pmu = @ \o Append(pf.group, fd), !.group = <<>>, !.pc = next]
         \/ /\ pfOpen' = pfOpen \ ToSet(pf.group)
            /\ pf' = [pf EXCEPT !.group = <<>>, !.pmuOff = (pf.via = "broker"), !.pc = next]

PmuSettled ==
  /\ PfAt("pmu")
  /\ pf' = [pf EXCEPT !.pmu = PmuAfter, !.pc = "switch"]
  /\ pfOpen' = pfOpen \ (ToSet(pf.pmu) \ ToSet(PmuAfter))

\* Context-switch and sched_waking events: one per CPU, or none after a failure.
OpenSwitch ==
  /\ PfAt("switch")
  /\ LET cpu == Len(pf.switch) + 1
         fd  == PfFd("switch", cpu, 0)
     IN  \/ /\ PfOpens(fd)
            /\ pf' = [pf EXCEPT !.switch = Append(@, fd), !.pc = IF cpu = PfCpus THEN "trace" ELSE @]
         \/ /\ pfOpen' = pfOpen \ ToSet(pf.switch)
            /\ pf' = [pf EXCEPT !.switch = <<>>, !.pc = "trace"]

AfterWaking == IF pf.via = "broker" THEN "reply" ELSE "kinds"

\* read_sched_waking_tracepoint: tracefs is there and its format has the field.
ReadTracepoint ==
  /\ PfAt("trace")
  /\ \E readable \in BOOLEAN :
       pf' = [pf EXCEPT !.offsets = readable, !.pc = IF readable THEN "waking" ELSE AfterWaking]
  /\ UNCHANGED pfOpen

OpenWaking ==
  /\ PfAt("waking")
  /\ LET cpu == Len(pf.waking) + 1
         fd  == PfFd("waking", cpu, 0)
     IN  \/ /\ PfOpens(fd)
            /\ pf' = [pf EXCEPT !.waking = Append(@, fd), !.pc = IF cpu = PfCpus THEN AfterWaking ELSE @]
         \/ /\ pfOpen' = pfOpen \ ToSet(pf.waking)
            /\ pf' = [pf EXCEPT !.waking = <<>>, !.offsets = FALSE, !.pc = AfterWaking]

\* The reply carries the descriptors; a broken connection drops them.
Reply == /\ PfAt("reply")
         /\ \/ pf' = [pf EXCEPT !.pc = "map"] /\ UNCHANGED pfOpen
            \/ PfFail

\* record_via_daemon: the sampling, switch and waking rings mapped in that order.
\* A failed mapping closes its descriptor and fails the recording.
MapRing ==
  /\ PfAt("map")
  /\ LET rings == pf.sampling \o pf.switch \o pf.waking
     IN  \/ /\ pf' = [pf EXCEPT !.mapped = @ + 1,
                                !.pc = IF pf.mapped + 1 = Len(rings) THEN "kinds" ELSE @]
            /\ UNCHANGED pfOpen
         \/ PfFail

\* The descriptors of the counters, in slot order, CPU after CPU. The client
\* refuses a layout that does not have PfCpus whole groups.
KindsOf(fds) == {<<fds[i], PfCounters[((i - 1) % Len(PfCounters)) + 1]>> : i \in DOMAIN fds}

TakeKinds ==
  /\ PfAt("kinds")
  /\ pf' = IF pf.via = "broker" /\ pf.pmu # <<>> /\ Len(pf.pmu) # Len(PfCounters) * PfCpus
           THEN [pf EXCEPT !.pc = "mismatch"]
           ELSE [pf EXCEPT !.kinds = KindsOf(pf.pmu), !.pc = "enable"]
  /\ UNCHANGED pfOpen

\* run_with_rings enables every ring, or fails.
EnableRings == /\ PfAt("enable")
               /\ \/ pf' = [pf EXCEPT !.pc = "run"] /\ UNCHANGED pfOpen
                  \/ PfFail

\* The recording ends: the rings and the counters are dropped.
CloseRings == /\ PfAt("run")
              /\ pf' = NoRings(pf.via, "closed") /\ pfOpen' = {}

PfNext == OpenLeader \/ OpenSibling \/ PmuSettled \/ OpenSwitch \/ ReadTracepoint \/ OpenWaking
            \/ Reply \/ MapRing \/ TakeKinds \/ EnableRings \/ CloseRings

-----------------------------------------------------------------------------
(* One ring *)

\* The words of record n: the first holds the size.
RgWords(n, size, lost) == [k \in 1 .. size |-> [rec |-> n, k |-> k, size |-> size, lost |-> lost]]

RgInit == /\ rg = [data |-> [i \in 0 .. RgSize - 1 |-> [size |-> 0]], head |-> 0, tail |-> 0]
          /\ rgRead = [pc |-> "poll", head |-> 0, at |-> 0, tail |-> 0, out |-> <<>>, seen |-> 0, counted |-> 0]
          /\ rgLog = [written |-> <<>>, tried |-> 0, lost |-> 0]

\* The kernel appends a record if it fits before the tail, behind a LOST record
\* when some did not fit before; nothing unread is overwritten.
KernelWrite(size) ==
  /\ rgLog.tried < RgMaxWrites
  /\ LET n     == Len(rgLog.written) + 1
         words == IF rgLog.lost = 0 THEN RgWords(n, size, 0)
                  ELSE RgWords(n, 1, rgLog.lost) \o RgWords(n + 1, size, 0)
         fits  == rg.head + Len(words) - rg.tail <= RgSize
     IN  /\ rg' = IF ~fits THEN rg
                  ELSE [rg EXCEPT !.head = @ + Len(words),
                         !.data = [i \in DOMAIN @ |->
                            LET k == CHOOSE k \in 0 .. RgSize - 1 : (rg.head + k) % RgSize = i
                            IN  IF k < Len(words) THEN words[k + 1] ELSE @[i]]]
         /\ rgLog' = IF ~fits THEN [rgLog EXCEPT !.tried = @ + 1, !.lost = @ + 1]
                     ELSE [rgLog EXCEPT !.tried = @ + 1, !.lost = 0, !.written = @ \o words]
  /\ UNCHANGED rgRead

\* drain loads data_head; an empty ring returns.
DrainBegin ==
  /\ rgRead.pc = "poll" /\ rg.head # rgRead.tail
  /\ rgRead' = [rgRead EXCEPT !.pc = "copy", !.head = rg.head, !.at = rgRead.tail]
  /\ UNCHANGED <<rg, rgLog>>

\* One record, in two pieces when it crosses the end of the ring.
RgRecord(at) ==
  LET size == rg.data[at % RgSize].size
  IN  [k \in 1 .. size |-> rg.data[(at + k - 1) % RgSize]]

DrainCopy ==
  /\ rgRead.pc = "copy" /\ rgRead.at < rgRead.head
  /\ LET rec == RgRecord(rgRead.at)
     IN  rgRead' = IF rec = <<>> THEN [rgRead EXCEPT !.at = rgRead.head]
                   ELSE [rgRead EXCEPT !.at = @ + Len(rec), !.out = @ \o rec]
  /\ UNCHANGED <<rg, rgLog>>

\* The space is given back before the last record is copied.
MutantPublishTail ==
  /\ rgRead.pc = "copy"
  /\ rg.tail # rgRead.head
  /\ rg' = [rg EXCEPT !.tail = rgRead.head]
  /\ rgRead' = IF rgRead.at < rgRead.head THEN rgRead
               ELSE [rgRead EXCEPT !.pc = "dispatch", !.tail = rgRead.head]
  /\ UNCHANGED rgLog

\* data_tail is published after the copies.
PublishTail ==
  /\ rgRead.pc = "copy" /\ rgRead.at >= rgRead.head
  /\ rg' = [rg EXCEPT !.tail = rgRead.head]
  /\ rgRead' = [rgRead EXCEPT !.pc = "dispatch", !.tail = rgRead.head]
  /\ UNCHANGED rgLog

\* What the LOST records among words from + 1 to `to` report: a unit per loss.
RgLosses(words, from, to) ==
  UNION {{i} \X (1 .. words[i].lost) : i \in {j \in from + 1 .. to : words[j].k = 1}}
RgReported(words, from, to) == Cardinality(RgLosses(words, from, to))

\* drain_dispatch hands over the records copied since the last time; handle adds
\* up the LOST ones.
DrainDispatch ==
  /\ rgRead.pc = "dispatch"
  /\ rgRead' = [rgRead EXCEPT !.pc = "poll", !.seen = Len(rgRead.out),
                   !.counted = @ + RgReported(rgRead.out, rgRead.seen, Len(rgRead.out))]
  /\ UNCHANGED <<rg, rgLog>>

RgNext == \/ \E size \in RgSizes : KernelWrite(size)
          \/ DrainBegin \/ DrainCopy \/ PublishTail \/ DrainDispatch

PrInit == PfInit /\ RgInit
PrNext == (PfNext /\ UNCHANGED rgVars) \/ (RgNext /\ UNCHANGED pfVars)

PrSpec == PrInit /\ [][PrNext]_prVars

-----------------------------------------------------------------------------
(* Properties *)

OnePerCpu(kind, fds) == fds = [cpu \in 1 .. PfCpus |-> PfFd(kind, cpu, 0)]

\* Whatever failed on the way, over the broker and in process, a recording that
\* runs has a sampling ring for every CPU in CPU order, switch and waking rings
\* for every CPU or for none, field offsets exactly with the latter, for every
\* CPU a whole counter group with each event under its own kind or no event of
\* the group, and over the broker a group for all CPUs or none; the client never
\* has to refuse a reply for its layout; and no event is open in the kernel that
\* nobody holds, none at all after a failure (open_perf_session: "All-or-nothing:
\* ... so the client doesn't have to handle a partial layout").
RingsWhole ==
  /\ ~PfAt("mismatch")
  /\ pfOpen = PfHeld
  /\ PfAt("run") =>
       /\ OnePerCpu("sampling", pf.sampling)
       /\ pf.switch # <<>> => OnePerCpu("switch", pf.switch)
       /\ pf.waking # <<>> => OnePerCpu("waking", pf.waking)
       /\ pf.offsets <=> pf.waking # <<>>
       /\ \A x \in pf.kinds : x[2] = PfCounters[x[1][3]] /\ x[1] \in pfOpen
       /\ LET group(cpu) == {x[2] : x \in {y \in pf.kinds : y[1][2] = cpu}}
          IN  /\ \A cpu \in 1 .. PfCpus : group(cpu) \in {{}, ToSet(PfCounters)}
              /\ pf.via = "broker" => \A c, d \in 1 .. PfCpus : group(c) = group(d)

\* The reader gets what the kernel wrote: every word once, in order, none torn by
\* a write that reuses the space, across the wrap of the ring.
RingWords ==
  /\ rgRead.out = SubSeq(rgLog.written, 1, Len(rgRead.out))
  /\ rgRead.pc = "poll" => Len(rgRead.out) = rgRead.tail

\* The records the kernel wrote, LOST ones apart, by their first word.
RgRecords(words) == {i \in DOMAIN words : words[i].k = 1 /\ words[i].lost = 0}

\* The words are read as written, and records that did not fit are counted, once
\* each, in lost_records or in the LOST record that is still to come (drain: "Copy
\* every complete record currently in the ring").
RingFaithful ==
  /\ RingWords
  /\ rgRead.pc = "poll" =>
       rgLog.tried = Cardinality(RgRecords(rgLog.written)) + rgLog.lost + rgRead.counted
                     + RgReported(rgLog.written, rgRead.tail, Len(rgLog.written))
=============================================================================
