------------------------- MODULE PerfRingsProofs --------------------------
(***************************************************************************)
(* The set-up of the perf events and the drain of a ring, for any number   *)
(* of CPUs, any counter group, any ring size and any record sizes.         *)
(***************************************************************************)
EXTENDS PerfRings, SequenceTheorems, FiniteSetTheorems, TLAPS

FdSet == {"sampling", "switch", "waking", "pmu"} \X Nat \X Nat
GroupLen == Len(PfCounters)

Opening == {"leader", "sibling", "pmu"}
Extras  == {"switch", "trace", "waking"}
Opened  == {"reply", "map", "kinds", "enable", "run"}
Over    == {"failed", "closed"}
PfPcs   == Opening \cup Extras \cup Opened \cup Over

PfRec ==
  [via : {"broker", "local"}, pc : PfPcs,
   sampling : Seq(FdSet), switch : Seq(FdSet), waking : Seq(FdSet), offsets : BOOLEAN,
   pmu : Seq(FdSet), pmuOff : BOOLEAN, group : Seq(FdSet), mapped : Nat,
   kinds : SUBSET (FdSet \X ToSet(PfCounters))]

\* The descriptors a set-up p owns.
Owned(p) == ToSet(p.sampling) \cup ToSet(p.switch) \cup ToSet(p.waking)
              \cup ToSet(p.pmu) \cup ToSet(p.group)

\* One descriptor per CPU, in CPU order.
Ordered(kind, fds) == \A i \in DOMAIN fds : fds[i] = PfFd(kind, i, 0)

\* The slots of one CPU, in order.
GroupOf(cpu, fds) == \A i \in DOMAIN fds : fds[i] = PfFd("pmu", cpu, i)

\* How many CPUs the set-up is done with, counters included.
Served(p) == IF p.pc = "sibling" THEN Len(p.sampling) - 1 ELSE Len(p.sampling)

\* Whole counter groups, one after the other, of CPUs up to `last`.
Grouped(fds, last) ==
  /\ \E n \in Nat : Len(fds) = GroupLen * n
  /\ \A i \in DOMAIN fds : \E cpu \in 1 .. last : fds[i] = PfFd("pmu", cpu, ((i - 1) % GroupLen) + 1)
  /\ \A cpu \in 1 .. last : \/ \A slot \in 1 .. GroupLen : PfFd("pmu", cpu, slot) \in ToSet(fds)
                            \/ \A slot \in 1 .. GroupLen : PfFd("pmu", cpu, slot) \notin ToSet(fds)

\* The groups of all of them.
AllGroups(fds, last) ==
  /\ Len(fds) = GroupLen * last
  /\ \A cpu \in 1 .. last, slot \in 1 .. GroupLen : PfFd("pmu", cpu, slot) \in ToSet(fds)

InCpuOrder(p) ==
  /\ Ordered("sampling", p.sampling) /\ Ordered("switch", p.switch) /\ Ordered("waking", p.waking)
  /\ GroupOf(Len(p.sampling), p.group)
  /\ p.pc # "sibling" => p.group = <<>>
  /\ p.pc = "sibling" => Len(p.sampling) \in 1 .. PfCpus /\ Len(p.group) < GroupLen

Counters(p) ==
  /\ Grouped(p.pmu, Served(p))
  /\ p.via = "local" => ~p.pmuOff
  /\ p.via = "broker" /\ ~p.pmuOff => AllGroups(p.pmu, Served(p))
  /\ p.via = "broker" /\ p.pmuOff /\ p.pc \notin Opening => p.pmu = <<>>
  /\ p.pc \in {"enable", "run"} => p.kinds = KindsOf(p.pmu)

Phases(p) ==
  /\ p.pc = "leader" => Len(p.sampling) < PfCpus
  /\ p.pc \in {"pmu"} \cup Extras \cup Opened => Len(p.sampling) = PfCpus
  /\ p.pc \in Opening => p.switch = <<>>
  /\ p.pc = "switch" => Len(p.switch) < PfCpus
  /\ p.pc \in {"trace", "waking"} \cup Opened => p.switch = <<>> \/ Len(p.switch) = PfCpus
  /\ p.pc \in Opening \cup {"switch", "trace"} => p.waking = <<>> /\ ~p.offsets
  /\ p.pc = "waking" => Len(p.waking) < PfCpus /\ p.offsets
  /\ p.pc \in Opened => IF p.offsets THEN Len(p.waking) = PfCpus ELSE p.waking = <<>>

SetUp(p, open) == p \in PfRec /\ open = Owned(p) /\ InCpuOrder(p) /\ Counters(p) /\ Phases(p)

PfInd == SetUp(pf, pfOpen)

\* The ring: the words, and where a record begins.
WordSet == [rec : Nat, k : Nat, size : Nat, lost : Nat]
Slots   == 0 .. RgSize - 1
ReaderFields == {"pc", "head", "at", "tail", "out", "seen", "counted"}

Starts(at, words) == at <= Len(words) /\ (at < Len(words) => words[at + 1].k = 1)

\* A record is there whole, and another follows it or nothing.
Records(words) ==
  \A at \in 0 .. Len(words) - 1 : words[at + 1].k = 1 =>
    /\ words[at + 1].size >= 1
    /\ \A j \in 1 .. words[at + 1].size : at + j <= Len(words) /\ words[at + j].k = j
    /\ Starts(at + words[at + 1].size, words)

RgTyped ==
  /\ rg \in [data : [Slots -> WordSet \cup {[size |-> 0]}], head : Nat, tail : Nat]
  /\ rgLog \in [written : Seq(WordSet), tried : Nat, lost : Nat]
  /\ DOMAIN rgRead = ReaderFields /\ rgRead.pc \in {"poll", "copy", "dispatch"}
  /\ rgRead.head \in Nat /\ rgRead.at \in Nat /\ rgRead.tail \in Nat /\ rgRead.out \in Seq(WordSet)

\* The reader is between the tail the kernel knows and the head it loaded, at the
\* beginning of a record, and has copied what is before.
RgSpan ==
  /\ rg.head = Len(rgLog.written) /\ rg.tail = rgRead.tail
  /\ rg.tail <= rg.head /\ rg.head - rg.tail <= RgSize
  /\ Starts(rgRead.tail, rgLog.written)
  /\ rgRead.pc = "copy" =>
       /\ rgRead.tail <= rgRead.at /\ rgRead.at <= rgRead.head /\ rgRead.head <= rg.head
       /\ Starts(rgRead.at, rgLog.written) /\ Starts(rgRead.head, rgLog.written)
  /\ Len(rgRead.out) = IF rgRead.pc = "copy" THEN rgRead.at ELSE rgRead.tail
  /\ \A i \in 1 .. Len(rgRead.out) : rgRead.out[i] = rgLog.written[i]

\* What is not yet given back is in the ring as it was written.
RgKept == \A p \in rg.tail .. rg.head - 1 : rg.data[p % RgSize] = rgLog.written[p + 1]

RgInd == RgTyped /\ RgSpan /\ RgKept /\ Records(rgLog.written)

-----------------------------------------------------------------------------
(* Sequences and remainders *)

LEMMA SizesOk ==
  /\ PfCpus \in Nat \ {0} /\ RgSize \in Nat \ {0} /\ RgSizes \subseteq Nat \ {0}
  /\ GroupLen \in Nat \ {0} /\ DOMAIN PfCounters = 1 .. GroupLen
  /\ \A i \in 1 .. GroupLen : PfCounters[i] \in ToSet(PfCounters)
<1>1. PfCounters \in Seq(ToSet(PfCounters)) /\ PfCounters # <<>>
  BY PfAssumption
<1>2. GroupLen \in Nat \ {0} /\ DOMAIN PfCounters = 1 .. GroupLen
  BY <1>1, LenProperties, EmptySeq DEF GroupLen
<1> QED
  BY <1>2, PfAssumption DEF ToSet

\* Position r after n whole groups of K.
LEMMA AfterWhole ==
  ASSUME NEW K \in Nat \ {0}, NEW n \in Nat, NEW r \in 0 .. K - 1
  PROVE  (K * n + r) % K = r
  OBVIOUS

LEMMA Divided ==
  ASSUME NEW K \in Nat \ {0}, NEW a \in Nat
  PROVE  a % K \in 0 .. K - 1 /\ a = K * (a \div K) + (a % K) /\ a \div K \in Nat
  OBVIOUS

\* What is in a sequence that grows.
LEMMA NothingIn == ToSet(<<>>) = {}
  BY DEF ToSet

LEMMA InAppended ==
  ASSUME NEW S, NEW s \in Seq(S), NEW e \in S
  PROVE  /\ Append(s, e) \in Seq(S) /\ Len(Append(s, e)) = Len(s) + 1
         /\ ToSet(Append(s, e)) = ToSet(s) \cup {e}
         /\ DOMAIN Append(s, e) = 1 .. Len(s) + 1
         /\ \A i \in DOMAIN s : Append(s, e)[i] = s[i]
         /\ Append(s, e)[Len(s) + 1] = e
<1>1. /\ Append(s, e) \in Seq(S) /\ Len(Append(s, e)) = Len(s) + 1
      /\ \A i \in 1 .. Len(s) : Append(s, e)[i] = s[i]
      /\ Append(s, e)[Len(s) + 1] = e
  BY AppendProperties
<1>2. DOMAIN s = 1 .. Len(s) /\ DOMAIN Append(s, e) = 1 .. Len(s) + 1 /\ Len(s) \in Nat
  BY <1>1, LenProperties
<1>3. ASSUME NEW x \in ToSet(Append(s, e)) PROVE x \in ToSet(s) \cup {e}
  <2>1. PICK i \in 1 .. Len(s) + 1 : x = Append(s, e)[i]
    BY <1>2, <1>3 DEF ToSet
  <2> QED
    BY <1>1, <1>2, <2>1 DEF ToSet
<1>4. ASSUME NEW x \in ToSet(s) \cup {e} PROVE x \in ToSet(Append(s, e))
  BY <1>1, <1>2, <1>4 DEF ToSet
<1> QED
  BY <1>1, <1>2, <1>3, <1>4

LEMMA InJoined ==
  ASSUME NEW S, NEW s \in Seq(S), NEW t \in Seq(S)
  PROVE  /\ s \o t \in Seq(S) /\ Len(s \o t) = Len(s) + Len(t)
         /\ DOMAIN (s \o t) = 1 .. Len(s) + Len(t)
         /\ \A i \in 1 .. Len(s) : (s \o t)[i] = s[i]
         /\ \A i \in 1 .. Len(t) : (s \o t)[Len(s) + i] = t[i]
         /\ \A k \in 1 .. Len(s) + Len(t) :
              k \in 1 .. Len(s) \/ \E i \in 1 .. Len(t) : k = Len(s) + i
         /\ ToSet(s \o t) = ToSet(s) \cup ToSet(t)
<1>1. /\ s \o t \in Seq(S) /\ Len(s \o t) = Len(s) + Len(t)
      /\ \A i \in 1 .. Len(s) + Len(t) : (s \o t)[i] = IF i <= Len(s) THEN s[i] ELSE t[i - Len(s)]
  BY ConcatProperties
<1>2. /\ DOMAIN s = 1 .. Len(s) /\ DOMAIN t = 1 .. Len(t) /\ DOMAIN (s \o t) = 1 .. Len(s) + Len(t)
      /\ Len(s) \in Nat /\ Len(t) \in Nat
  BY <1>1, LenProperties
<1>3. ASSUME NEW i \in 1 .. Len(s) PROVE i \in 1 .. Len(s) + Len(t) /\ (s \o t)[i] = s[i]
  BY <1>1, <1>2
<1>4. ASSUME NEW i \in 1 .. Len(t)
      PROVE  Len(s) + i \in 1 .. Len(s) + Len(t) /\ (s \o t)[Len(s) + i] = t[i]
  <2>1. Len(s) + i \in 1 .. Len(s) + Len(t) /\ ~(Len(s) + i <= Len(s)) /\ (Len(s) + i) - Len(s) = i
    BY <1>2
  <2> QED
    BY <1>1, <2>1
<1>5. ASSUME NEW k \in 1 .. Len(s) + Len(t)
      PROVE  k \in 1 .. Len(s) \/ \E i \in 1 .. Len(t) : k = Len(s) + i
  <2>1. CASE k <= Len(s)
    BY <1>2, <2>1
  <2>2. CASE Len(s) < k
    <3>1. k - Len(s) \in 1 .. Len(t) /\ k = Len(s) + (k - Len(s))
      BY <1>2, <2>2
    <3> QED
      BY <3>1
  <2> QED
    BY <1>2, <2>1, <2>2
<1>6. ASSUME NEW x \in ToSet(s \o t) PROVE x \in ToSet(s) \cup ToSet(t)
  <2>1. PICK k \in 1 .. Len(s) + Len(t) : x = (s \o t)[k]
    BY <1>2, <1>6 DEF ToSet
  <2> QED
    BY <1>2, <1>3, <1>4, <1>5, <2>1 DEF ToSet
<1>7. ASSUME NEW x \in ToSet(s) \cup ToSet(t) PROVE x \in ToSet(s \o t)
  <2>1. CASE x \in ToSet(s)
    BY <1>2, <1>3, <2>1 DEF ToSet
  <2>2. CASE x \in ToSet(t)
    BY <1>2, <1>4, <2>2 DEF ToSet
  <2> QED
    BY <1>7, <2>1, <2>2
<1> QED
  BY <1>1, <1>2, <1>3, <1>4, <1>5, <1>6, <1>7

\* A descriptor is equal to another in all three parts.
LEMMA FdParts ==
  ASSUME NEW kind, NEW cpu, NEW slot
  PROVE  /\ PfFd(kind, cpu, slot)[1] = kind /\ PfFd(kind, cpu, slot)[2] = cpu
         /\ PfFd(kind, cpu, slot)[3] = slot
         /\ kind \in {"sampling", "switch", "waking", "pmu"} /\ cpu \in Nat /\ slot \in Nat
              => PfFd(kind, cpu, slot) \in FdSet
  BY DEF PfFd, FdSet

-----------------------------------------------------------------------------
(* Groups of counters *)

\* A CPU without its group,
LEMMA GroupSkipped ==
  ASSUME NEW fds \in Seq(FdSet), NEW last \in Nat, Grouped(fds, last)
  PROVE  Grouped(fds, last + 1)
<1>1. ASSUME NEW i \in DOMAIN fds
      PROVE  \E cpu \in 1 .. last + 1 : fds[i] = PfFd("pmu", cpu, ((i - 1) % GroupLen) + 1)
  <2>1. PICK cpu \in 1 .. last : fds[i] = PfFd("pmu", cpu, ((i - 1) % GroupLen) + 1)
    BY DEF Grouped
  <2>2. cpu \in 1 .. last + 1
    OBVIOUS
  <2> QED
    BY <2>1, <2>2
<1>2. ASSUME NEW slot \in 1 .. GroupLen PROVE PfFd("pmu", last + 1, slot) \notin ToSet(fds)
  <2> SUFFICES ASSUME NEW i \in DOMAIN fds, fds[i] = PfFd("pmu", last + 1, slot) PROVE FALSE
    BY DEF ToSet
  <2>1. PICK cpu \in 1 .. last : fds[i] = PfFd("pmu", cpu, ((i - 1) % GroupLen) + 1)
    BY DEF Grouped
  <2>2. cpu = last + 1
    BY <2>1, FdParts
  <2> QED
    BY <2>2
<1>3. ASSUME NEW cpu \in 1 .. last + 1 PROVE cpu \in 1 .. last \/ cpu = last + 1
  OBVIOUS
<1> QED
  BY <1>1, <1>2, <1>3 DEF Grouped

\* and a CPU with it.
LEMMA GroupAdded ==
  ASSUME NEW fds \in Seq(FdSet), NEW last \in Nat, NEW g \in Seq(FdSet), Grouped(fds, last),
         Len(g) = GroupLen, GroupOf(last + 1, g)
  PROVE  /\ fds \o g \in Seq(FdSet) /\ Grouped(fds \o g, last + 1)
         /\ AllGroups(fds, last) => AllGroups(fds \o g, last + 1)
<1>0. /\ fds \o g \in Seq(FdSet) /\ Len(fds \o g) = Len(fds) + Len(g)
      /\ DOMAIN (fds \o g) = 1 .. Len(fds) + Len(g)
      /\ \A i \in 1 .. Len(fds) : (fds \o g)[i] = fds[i]
      /\ \A i \in 1 .. Len(g) : (fds \o g)[Len(fds) + i] = g[i]
      /\ \A k \in 1 .. Len(fds) + Len(g) :
           k \in 1 .. Len(fds) \/ \E i \in 1 .. Len(g) : k = Len(fds) + i
      /\ ToSet(fds \o g) = ToSet(fds) \cup ToSet(g)
  BY ONLY InJoined, fds \in Seq(FdSet), g \in Seq(FdSet)
<1> DEFINE all == fds \o g
<1>1. /\ all \in Seq(FdSet) /\ Len(all) = Len(fds) + Len(g) /\ DOMAIN all = 1 .. Len(fds) + Len(g)
      /\ \A i \in 1 .. Len(fds) : all[i] = fds[i]
      /\ \A i \in 1 .. Len(g) : all[Len(fds) + i] = g[i]
      /\ \A k \in 1 .. Len(fds) + Len(g) : k \in 1 .. Len(fds) \/ \E i \in 1 .. Len(g) : k = Len(fds) + i
      /\ ToSet(all) = ToSet(fds) \cup ToSet(g)
  BY <1>0
<1> HIDE DEF all
<1>2. GroupLen \in Nat \ {0} /\ DOMAIN fds = 1 .. Len(fds) /\ DOMAIN g = 1 .. GroupLen /\ Len(fds) \in Nat
  BY SizesOk, LenProperties
<1>3. PICK n \in Nat : Len(fds) = GroupLen * n
  BY DEF Grouped
<1>4. n + 1 \in Nat /\ Len(all) = GroupLen * (n + 1)
  BY <1>1, <1>2, <1>3
<1>5. ASSUME NEW k \in DOMAIN all
      PROVE  \E cpu \in 1 .. last + 1 : all[k] = PfFd("pmu", cpu, ((k - 1) % GroupLen) + 1)
  <2>1. CASE k \in 1 .. Len(fds)
    <3>1. PICK cpu \in 1 .. last : fds[k] = PfFd("pmu", cpu, ((k - 1) % GroupLen) + 1)
      BY <1>2, <2>1 DEF Grouped
    <3>2. cpu \in 1 .. last + 1
      OBVIOUS
    <3> QED
      BY <1>1, <2>1, <3>1, <3>2
  <2>2. ASSUME NEW i \in 1 .. GroupLen, k = Len(fds) + i
        PROVE  all[k] = PfFd("pmu", last + 1, ((k - 1) % GroupLen) + 1)
    <3>1. i - 1 \in 0 .. GroupLen - 1 /\ k - 1 = GroupLen * n + (i - 1)
      BY <1>2, <1>3, <2>2
    <3>2. (GroupLen * n + (i - 1)) % GroupLen = i - 1
      BY ONLY <1>2, <3>1, n \in Nat, AfterWhole, Zenon
    <3>3. ((k - 1) % GroupLen) + 1 = i
      BY <1>2, <3>1, <3>2
    <3>4. all[k] = PfFd("pmu", last + 1, i)
      BY <1>1, <1>2, <2>2 DEF GroupOf
    <3> QED
      BY <3>3, <3>4
  <2>3. last + 1 \in 1 .. last + 1
    OBVIOUS
  <2> QED
    BY <1>1, <1>2, <2>1, <2>2, <2>3
<1>6. ASSUME NEW slot \in 1 .. GroupLen PROVE PfFd("pmu", last + 1, slot) \in ToSet(all)
  BY <1>1, <1>2, <1>6 DEF GroupOf, ToSet
<1>7. ASSUME NEW cpu \in 1 .. last, NEW slot \in 1 .. GroupLen
      PROVE  PfFd("pmu", cpu, slot) \in ToSet(all) <=> PfFd("pmu", cpu, slot) \in ToSet(fds)
  <2>1. ASSUME PfFd("pmu", cpu, slot) \in ToSet(g) PROVE FALSE
    <3>1. PICK i \in DOMAIN g : PfFd("pmu", cpu, slot) = PfFd("pmu", last + 1, i)
      BY <2>1 DEF ToSet, GroupOf
    <3>2. cpu = last + 1
      BY <3>1, FdParts
    <3> QED
      BY <3>2
  <2> QED
    BY <1>1, <2>1
<1>8. ASSUME NEW cpu \in 1 .. last + 1 PROVE cpu \in 1 .. last \/ cpu = last + 1
  OBVIOUS
<1>9. Grouped(all, last + 1)
  <2>1. ASSUME NEW cpu \in 1 .. last + 1
        PROVE  \/ \A slot \in 1 .. GroupLen : PfFd("pmu", cpu, slot) \in ToSet(all)
               \/ \A slot \in 1 .. GroupLen : PfFd("pmu", cpu, slot) \notin ToSet(all)
    <3>1. CASE cpu = last + 1
      BY <1>6, <3>1
    <3>2. CASE cpu \in 1 .. last
      BY <1>7, <3>2 DEF Grouped
    <3> QED
      BY <1>8, <3>1, <3>2
  <2> QED
    BY <1>4, <1>5, <2>1 DEF Grouped
<1>10. ASSUME AllGroups(fds, last) PROVE AllGroups(all, last + 1)
  <2>1. Len(all) = GroupLen * (last + 1)
    BY <1>1, <1>2, <1>10 DEF AllGroups
  <2>2. ASSUME NEW cpu \in 1 .. last + 1, NEW slot \in 1 .. GroupLen
        PROVE  PfFd("pmu", cpu, slot) \in ToSet(all)
    BY <1>6, <1>7, <1>8, <1>10, <2>2 DEF AllGroups
  <2> QED
    BY <2>1, <2>2 DEF AllGroups
<1> QED
  BY <1>1, <1>9, <1>10 DEF all

-----------------------------------------------------------------------------
(* The steps of the set-up *)

LEMMA FieldTypes ==
  ASSUME NEW p \in PfRec
  PROVE  /\ p.via \in {"broker", "local"} /\ p.pc \in PfPcs /\ p.offsets \in BOOLEAN /\ p.pmuOff \in BOOLEAN
         /\ p.mapped \in Nat /\ p.kinds \in SUBSET (FdSet \X ToSet(PfCounters))
         /\ p.sampling \in Seq(FdSet) /\ Len(p.sampling) \in Nat /\ DOMAIN p.sampling = 1 .. Len(p.sampling)
         /\ p.switch \in Seq(FdSet) /\ Len(p.switch) \in Nat /\ DOMAIN p.switch = 1 .. Len(p.switch)
         /\ p.waking \in Seq(FdSet) /\ Len(p.waking) \in Nat /\ DOMAIN p.waking = 1 .. Len(p.waking)
         /\ p.pmu \in Seq(FdSet) /\ Len(p.pmu) \in Nat /\ DOMAIN p.pmu = 1 .. Len(p.pmu)
         /\ p.group \in Seq(FdSet) /\ Len(p.group) \in Nat /\ DOMAIN p.group = 1 .. Len(p.group)
<1>1. /\ p.via \in {"broker", "local"} /\ p.pc \in PfPcs /\ p.offsets \in BOOLEAN /\ p.pmuOff \in BOOLEAN
      /\ p.mapped \in Nat /\ p.kinds \in SUBSET (FdSet \X ToSet(PfCounters))
      /\ p.sampling \in Seq(FdSet) /\ p.switch \in Seq(FdSet) /\ p.waking \in Seq(FdSet)
      /\ p.pmu \in Seq(FdSet) /\ p.group \in Seq(FdSet)
  BY DEF PfRec
<1> QED
  BY <1>1, LenProperties

\* Nothing is held at the start, after a failure and after the recording.
LEMMA NothingHeld ==
  ASSUME NEW via \in {"broker", "local"}, NEW pc \in Over \cup {"leader"}
  PROVE  SetUp(NoRings(via, pc), {})
<1> DEFINE p == NoRings(via, pc)
<1>1. /\ p.via = via /\ p.pc = pc /\ p.sampling = <<>> /\ p.switch = <<>> /\ p.waking = <<>>
      /\ p.offsets = FALSE /\ p.pmu = <<>> /\ p.pmuOff = FALSE /\ p.group = <<>> /\ p.mapped = 0
      /\ p.kinds = {}
  BY DEF NoRings
<1>2. p \in PfRec
  BY DEF NoRings, PfRec, PfPcs, Over, Opening
<1> HIDE DEF p
<1>3. {} = Owned(p)
  BY <1>1, NothingIn DEF Owned
<1>4. /\ DOMAIN <<>> = {} /\ Len(<<>>) = 0 /\ pc \in {"failed", "closed", "leader"}
      /\ PfCpus \in Nat \ {0} /\ GroupLen \in Nat
  BY SizesOk DEF Over
<1>5. InCpuOrder(p)
  BY <1>1, <1>4 DEF InCpuOrder, Ordered, GroupOf
<1>6. Grouped(<<>>, 0) /\ AllGroups(<<>>, 0)
  <2>1. 0 \in Nat /\ GroupLen * 0 = 0 /\ 1 .. 0 = {}
    BY <1>4
  <2> QED
    BY <1>4, <2>1 DEF Grouped, AllGroups
<1>7. Served(p) = 0
  BY <1>1, <1>4 DEF Served
<1>8. Counters(p)
  BY <1>1, <1>4, <1>6, <1>7 DEF Counters, Opening
<1>9. Phases(p)
  BY <1>1, <1>4 DEF Phases, Opening, Extras, Opened
<1> QED
  BY <1>2, <1>3, <1>5, <1>8, <1>9 DEF SetUp, p

LEMMA FailStep ==
  ASSUME PfInd, PfFail
  PROVE  SetUp(pf', pfOpen')
<1>1. pf.via \in {"broker", "local"}
  BY DEF PfInd, SetUp, PfRec
<1> QED
  BY <1>1, NothingHeld DEF PfFail, Over

\* The sampling event of a CPU.
LEMMA LeaderStep ==
  ASSUME PfInd, OpenLeader
  PROVE  SetUp(pf', pfOpen')
<1> DEFINE cpu == Len(pf.sampling) + 1
           fd  == PfFd("sampling", cpu, 0)
           pc  == IF ~pf.pmuOff THEN "sibling" ELSE IF cpu = PfCpus THEN "pmu" ELSE "leader"
<1>1. CASE PfFail
  BY <1>1, FailStep
<1>2. CASE PfOpens(fd) /\ pf' = [pf EXCEPT !.sampling = Append(@, fd), !.group = <<>>, !.pc = pc]
  <2>1. pf \in PfRec /\ pf.pc = "leader" /\ InCpuOrder(pf) /\ Counters(pf) /\ Phases(pf) /\ pfOpen = Owned(pf)
    BY DEF PfInd, SetUp, OpenLeader, PfAt
  <2>2. /\ pf'.via = pf.via /\ pf'.pc = pc /\ pf'.sampling = Append(pf.sampling, fd)
        /\ pf'.switch = pf.switch /\ pf'.waking = pf.waking /\ pf'.offsets = pf.offsets
        /\ pf'.pmu = pf.pmu /\ pf'.pmuOff = pf.pmuOff /\ pf'.group = <<>>
        /\ pf'.mapped = pf.mapped /\ pf'.kinds = pf.kinds
    BY <1>2, <2>1 DEF PfRec
  <2>3. /\ pf.sampling \in Seq(FdSet) /\ Len(pf.sampling) \in Nat /\ DOMAIN pf.sampling = 1 .. Len(pf.sampling)
        /\ pf.pmu \in Seq(FdSet) /\ pf.via \in {"broker", "local"} /\ pf.pmuOff \in BOOLEAN
    BY <2>1, FieldTypes
  <2>4. cpu \in Nat /\ cpu \in 1 .. PfCpus /\ PfCpus \in Nat /\ GroupLen \in Nat \ {0}
    BY <2>1, <2>3, SizesOk DEF Phases
  <2>5. fd \in FdSet
    BY <2>4, FdParts
  <2>6. pc \in {"sibling", "pmu", "leader"}
    OBVIOUS
  <2>7. /\ Append(pf.sampling, fd) \in Seq(FdSet) /\ Len(Append(pf.sampling, fd)) = cpu
        /\ ToSet(Append(pf.sampling, fd)) = ToSet(pf.sampling) \cup {fd}
        /\ DOMAIN Append(pf.sampling, fd) = 1 .. cpu
        /\ \A i \in DOMAIN pf.sampling : Append(pf.sampling, fd)[i] = pf.sampling[i]
        /\ Append(pf.sampling, fd)[cpu] = fd
    BY <2>3, <2>5, InAppended
  <2> HIDE DEF fd
  <2>8. pf' \in PfRec
    <3>1. <<>> \in Seq(FdSet) /\ pc \in PfPcs
      BY <2>6 DEF PfPcs, Opening
    <3> HIDE DEF pc
    <3> QED
      BY <1>2, <2>1, <2>7, <3>1 DEF PfRec
  <2>9. pfOpen' = Owned(pf')
    BY <1>2, <2>1, <2>2, <2>7, NothingIn DEF Owned, PfOpens, InCpuOrder
  <2>10. InCpuOrder(pf')
    <3>1. Ordered("sampling", pf'.sampling)
      <4>1. \A i \in 1 .. cpu : i \in DOMAIN pf.sampling \/ i = cpu
        BY <2>3
      <4> QED
        BY <2>1, <2>2, <2>7, <4>1 DEF Ordered, InCpuOrder, fd
    <3>2. Len(<<>>) = 0 /\ DOMAIN <<>> = {}
      OBVIOUS
    <3> QED
      BY <2>1, <2>2, <2>4, <2>7, <3>1, <3>2 DEF InCpuOrder, Ordered, GroupOf
  <2>11. Counters(pf')
    <3>1. Grouped(pf.pmu, Len(pf.sampling)) /\ Served(pf) = Len(pf.sampling)
      BY <2>1 DEF Counters, Served
    <3>2. CASE ~pf.pmuOff
      <4>1. pf'.pc = "sibling" /\ Served(pf') = Len(pf.sampling)
        BY <2>2, <2>3, <2>7, <3>2 DEF Served
      <4> QED
        BY <2>1, <2>2, <3>1, <3>2, <4>1 DEF Counters, Opening
    <3>3. CASE pf.pmuOff
      <4>1. pf'.pc \in {"pmu", "leader"} /\ Served(pf') = cpu
        BY <2>2, <2>3, <2>7, <3>3 DEF Served
      <4>2. Grouped(pf.pmu, cpu)
        BY <2>3, <3>1, GroupSkipped
      <4> QED
        BY <2>1, <2>2, <3>3, <4>1, <4>2 DEF Counters, Opening
    <3> QED
      BY <2>3, <3>2, <3>3
  <2>12. Phases(pf')
    BY <2>1, <2>2, <2>4, <2>6, <2>7 DEF Phases, Opening, Extras, Opened
  <2> QED
    BY <2>8, <2>9, <2>10, <2>11, <2>12 DEF SetUp
<1> QED
  BY <1>1, <1>2 DEF OpenLeader

\* The descriptors of the parts are apart by their kind and CPU.
LEMMA OrderedApart ==
  ASSUME NEW kind, NEW fds, Ordered(kind, fds), NEW x \in ToSet(fds)
  PROVE  x[1] = kind
<1>1. PICK i \in DOMAIN fds : x = PfFd(kind, i, 0)
  BY DEF ToSet, Ordered
<1> QED
  BY <1>1, FdParts

LEMMA GroupApart ==
  ASSUME NEW cpu, NEW fds, GroupOf(cpu, fds), NEW x \in ToSet(fds)
  PROVE  x[1] = "pmu" /\ x[2] = cpu
<1>1. PICK i \in DOMAIN fds : x = PfFd("pmu", cpu, i)
  BY DEF ToSet, GroupOf
<1> QED
  BY <1>1, FdParts

LEMMA PmuApart ==
  ASSUME NEW last \in Nat, NEW fds, Grouped(fds, last), NEW x \in ToSet(fds)
  PROVE  x[1] = "pmu" /\ x[2] \in 1 .. last
<1>1. PICK i \in DOMAIN fds : x = fds[i]
  BY DEF ToSet
<1>2. PICK cpu \in 1 .. last : fds[i] = PfFd("pmu", cpu, ((i - 1) % GroupLen) + 1)
  BY DEF Grouped
<1> QED
  BY <1>1, <1>2, FdParts

LEMMA NoGroups ==
  ASSUME NEW last \in Nat
  PROVE  Grouped(<<>>, last)
<1>1. DOMAIN <<>> = {} /\ Len(<<>>) = 0 /\ GroupLen \in Nat /\ 0 \in Nat /\ GroupLen * 0 = 0
  BY SizesOk
<1> QED
  BY <1>1, NothingIn DEF Grouped

\* The counters of a CPU, one after the other.
LEMMA SiblingStep ==
  ASSUME PfInd, OpenSibling
  PROVE  SetUp(pf', pfOpen')
<1> DEFINE cpu  == Len(pf.sampling)
           slot == Len(pf.group) + 1
           fd   == PfFd("pmu", cpu, slot)
           next == IF cpu = PfCpus THEN "pmu" ELSE "leader"
           g    == Append(pf.group, fd)
<1>1. /\ pf \in PfRec /\ pf.pc = "sibling" /\ InCpuOrder(pf) /\ Counters(pf) /\ Phases(pf)
      /\ pfOpen = Owned(pf)
  BY DEF PfInd, SetUp, OpenSibling, PfAt
<1>2. /\ pf.sampling \in Seq(FdSet) /\ cpu \in Nat /\ pf.group \in Seq(FdSet) /\ Len(pf.group) \in Nat
      /\ DOMAIN pf.group = 1 .. Len(pf.group)
      /\ pf.pmu \in Seq(FdSet) /\ pf.via \in {"broker", "local"} /\ pf.pmuOff \in BOOLEAN
  BY <1>1, FieldTypes
<1>3. /\ cpu \in 1 .. PfCpus /\ PfCpus \in Nat /\ GroupLen \in Nat \ {0} /\ slot \in 1 .. GroupLen
      /\ Len(PfCounters) = GroupLen
  BY <1>1, <1>2, SizesOk DEF InCpuOrder, GroupLen
<1>4. fd \in FdSet /\ next \in {"pmu", "leader"} /\ <<>> \in Seq(FdSet) /\ Len(<<>>) = 0 /\ DOMAIN <<>> = {}
  BY <1>2, <1>3, FdParts
<1>5. /\ g \in Seq(FdSet) /\ Len(g) = slot /\ ToSet(g) = ToSet(pf.group) \cup {fd}
      /\ DOMAIN g = 1 .. slot
      /\ \A i \in DOMAIN pf.group : g[i] = pf.group[i]
      /\ g[slot] = fd
  BY <1>2, <1>4, InAppended
<1>6. Served(pf) = cpu - 1 /\ cpu - 1 \in Nat /\ (cpu - 1) + 1 = cpu
  BY <1>1, <1>2, <1>3 DEF Served
<1>7. GroupOf(cpu, g)
  <2>1. \A i \in 1 .. slot : i \in DOMAIN pf.group \/ i = slot
    BY <1>2
  <2> QED
    BY <1>1, <1>5, <2>1 DEF InCpuOrder, GroupOf
<1>8. Grouped(pf.pmu, cpu - 1) /\ pf.switch = <<>> /\ pf.waking = <<>> /\ ~pf.offsets
  BY <1>1, <1>6 DEF Counters, Phases, Opening
<1> HIDE DEF fd, next, g
<1>9. CASE PfOpens(fd) /\ slot < GroupLen /\ pf' = [pf EXCEPT !.group = g]
  <2>1. /\ pf'.via = pf.via /\ pf'.pc = "sibling" /\ pf'.sampling = pf.sampling
        /\ pf'.switch = pf.switch /\ pf'.waking = pf.waking /\ pf'.offsets = pf.offsets
        /\ pf'.pmu = pf.pmu /\ pf'.pmuOff = pf.pmuOff /\ pf'.group = g
        /\ pf'.mapped = pf.mapped /\ pf'.kinds = pf.kinds
    BY <1>1, <1>9 DEF PfRec
  <2>2. pf' \in PfRec
    BY <1>1, <1>5, <1>9 DEF PfRec
  <2>3. pfOpen' = Owned(pf')
    BY <1>1, <1>5, <1>9, <2>1 DEF Owned, PfOpens
  <2>4. InCpuOrder(pf')
    BY <1>1, <1>3, <1>5, <1>7, <1>9, <2>1 DEF InCpuOrder
  <2>5. Served(pf') = Served(pf)
    BY <1>1, <2>1 DEF Served
  <2>6. Counters(pf')
    BY <1>1, <2>1, <2>5 DEF Counters, Opening
  <2>7. Phases(pf')
    BY <1>1, <2>1 DEF Phases, Opening, Extras, Opened
  <2> QED
    BY <2>2, <2>3, <2>4, <2>6, <2>7 DEF SetUp
<1>10. CASE PfOpens(fd) /\ ~(slot < GroupLen) /\ pf' = [pf EXCEPT !.pmu = @ \o g, !.group = <<>>, !.pc = next]
  <2>1. /\ pf'.via = pf.via /\ pf'.pc = next /\ pf'.sampling = pf.sampling
        /\ pf'.switch = pf.switch /\ pf'.waking = pf.waking /\ pf'.offsets = pf.offsets
        /\ pf'.pmu = pf.pmu \o g /\ pf'.pmuOff = pf.pmuOff /\ pf'.group = <<>>
        /\ pf'.mapped = pf.mapped /\ pf'.kinds = pf.kinds
    BY <1>1, <1>10 DEF PfRec
  <2>2. Len(g) = GroupLen
    BY <1>3, <1>5, <1>10
  <2>3. /\ pf.pmu \o g \in Seq(FdSet) /\ Grouped(pf.pmu \o g, cpu)
        /\ AllGroups(pf.pmu, cpu - 1) => AllGroups(pf.pmu \o g, cpu)
    <3>1. GroupOf((cpu - 1) + 1, g)
      BY <1>6, <1>7
    <3>2. /\ pf.pmu \o g \in Seq(FdSet) /\ Grouped(pf.pmu \o g, (cpu - 1) + 1)
          /\ AllGroups(pf.pmu, cpu - 1) => AllGroups(pf.pmu \o g, (cpu - 1) + 1)
      BY <1>2, <1>5, <1>6, <1>8, <2>2, <3>1, GroupAdded
    <3> QED
      BY <1>6, <3>2
  <2>4. ToSet(pf.pmu \o g) = ToSet(pf.pmu) \cup ToSet(g)
    BY ONLY <1>2, <1>5, InJoined
  <2>5. pf' \in PfRec
    <3>1. next \in PfPcs
      BY <1>4 DEF PfPcs, Opening
    <3> QED
      BY <1>1, <1>4, <1>10, <2>3, <3>1 DEF PfRec
  <2>6. pfOpen' = Owned(pf')
    BY <1>1, <1>5, <1>10, <2>1, <2>4, NothingIn DEF Owned, PfOpens
  <2>7. InCpuOrder(pf')
    BY <1>1, <1>4, <2>1 DEF InCpuOrder, GroupOf
  <2>8. Served(pf') = cpu
    BY <1>4, <2>1 DEF Served
  <2>9. Counters(pf')
    BY <1>1, <1>4, <1>6, <2>1, <2>3, <2>8 DEF Counters, Opening
  <2>10. Phases(pf')
    BY <1>1, <1>3, <1>4, <1>8, <2>1 DEF Phases, Opening, Extras, Opened, next
  <2> QED
    BY <2>5, <2>6, <2>7, <2>9, <2>10 DEF SetUp
<1>11. CASE /\ pfOpen' = pfOpen \ ToSet(pf.group)
            /\ pf' = [pf EXCEPT !.group = <<>>, !.pmuOff = (pf.via = "broker"), !.pc = next]
  <2>1. /\ pf'.via = pf.via /\ pf'.pc = next /\ pf'.sampling = pf.sampling
        /\ pf'.switch = pf.switch /\ pf'.waking = pf.waking /\ pf'.offsets = pf.offsets
        /\ pf'.pmu = pf.pmu /\ pf'.pmuOff = (pf.via = "broker") /\ pf'.group = <<>>
        /\ pf'.mapped = pf.mapped /\ pf'.kinds = pf.kinds
    BY <1>1, <1>11 DEF PfRec
  <2>2. pf' \in PfRec
    <3>1. next \in PfPcs
      BY <1>4 DEF PfPcs, Opening
    <3> QED
      BY <1>1, <1>4, <1>11, <3>1 DEF PfRec
  <2>3. pfOpen' = Owned(pf')
    <3>1. ASSUME NEW x \in ToSet(pf.group) PROVE x \notin ToSet(pf.sampling) /\ x \notin ToSet(pf.pmu)
      <4>1. x[1] = "pmu" /\ x[2] = cpu /\ Ordered("sampling", pf.sampling)
        BY <1>1, GroupApart DEF InCpuOrder
      <4>2. x \notin ToSet(pf.sampling)
        BY <4>1, OrderedApart
      <4>3. x \notin ToSet(pf.pmu)
        <5>1. ASSUME x \in ToSet(pf.pmu) PROVE FALSE
          <6>1. x[2] \in 1 .. cpu - 1
            BY <1>6, <1>8, <5>1, PmuApart
          <6> QED
            BY <1>2, <4>1, <6>1
        <5> QED
          BY <5>1
      <4> QED
        BY <4>2, <4>3
    <3> QED
      BY <1>1, <1>8, <1>11, <2>1, <3>1, NothingIn DEF Owned
  <2>4. InCpuOrder(pf')
    BY <1>1, <1>4, <2>1 DEF InCpuOrder, GroupOf
  <2>5. Served(pf') = cpu
    BY <1>4, <2>1 DEF Served
  <2>6. Grouped(pf.pmu, cpu)
    <3>1. Grouped(pf.pmu, (cpu - 1) + 1)
      BY <1>2, <1>6, <1>8, GroupSkipped
    <3> QED
      BY <1>6, <3>1
  <2>7. Counters(pf')
    BY <1>2, <1>4, <2>1, <2>5, <2>6 DEF Counters, Opening
  <2>8. Phases(pf')
    BY <1>1, <1>3, <1>4, <1>8, <2>1 DEF Phases, Opening, Extras, Opened, next
  <2> QED
    BY <2>2, <2>3, <2>4, <2>7, <2>8 DEF SetUp
<1> QED
  BY <1>3, <1>9, <1>10, <1>11 DEF OpenSibling, fd, next, g

\* The counters of all CPUs or, over the broker after a failure, none.
LEMMA PmuStep ==
  ASSUME PfInd, PmuSettled
  PROVE  SetUp(pf', pfOpen')
<1>1. /\ pf \in PfRec /\ pf.pc = "pmu" /\ InCpuOrder(pf) /\ Counters(pf) /\ Phases(pf) /\ pfOpen = Owned(pf)
      /\ pf' = [pf EXCEPT !.pmu = PmuAfter, !.pc = "switch"]
      /\ pfOpen' = pfOpen \ (ToSet(pf.pmu) \ ToSet(PmuAfter))
  BY DEF PfInd, SetUp, PmuSettled, PfAt
<1>2. /\ pf'.via = pf.via /\ pf'.pc = "switch" /\ pf'.sampling = pf.sampling
      /\ pf'.switch = pf.switch /\ pf'.waking = pf.waking /\ pf'.offsets = pf.offsets
      /\ pf'.pmu = PmuAfter /\ pf'.pmuOff = pf.pmuOff /\ pf'.group = pf.group
      /\ pf'.mapped = pf.mapped /\ pf'.kinds = pf.kinds
  BY <1>1 DEF PfRec
<1>3. /\ pf.pmu \in Seq(FdSet) /\ Len(pf.sampling) \in Nat /\ pf.pmuOff \in BOOLEAN
      /\ PmuAfter \in Seq(FdSet) /\ Len(<<>>) = 0 /\ PfCpus \in Nat \ {0}
  BY <1>1, FieldTypes, SizesOk DEF PmuAfter
<1>4. /\ pf.switch = <<>> /\ pf.waking = <<>> /\ ~pf.offsets /\ pf.group = <<>> /\ Len(pf.sampling) = PfCpus
      /\ Served(pf) = PfCpus /\ Grouped(pf.pmu, PfCpus)
  BY <1>1 DEF Phases, InCpuOrder, Opening, Served, Counters
<1>5. pf' \in PfRec
  BY <1>1, <1>3 DEF PfRec, PfPcs, Extras
<1>6. pfOpen' = Owned(pf')
  <2>1. ASSUME NEW x \in ToSet(pf.pmu) PROVE x \notin ToSet(pf.sampling)
    <3>1. x[1] = "pmu" /\ Ordered("sampling", pf.sampling)
      BY <1>1, <1>3, <1>4, PmuApart DEF InCpuOrder
    <3> QED
      BY <3>1, OrderedApart
  <2>2. CASE PmuAfter = <<>>
    BY <1>1, <1>2, <1>4, <2>1, <2>2, NothingIn DEF Owned
  <2>3. CASE PmuAfter = pf.pmu
    BY <1>1, <1>2, <2>3 DEF Owned
  <2> QED
    BY <2>2, <2>3 DEF PmuAfter
<1>7. InCpuOrder(pf')
  BY <1>1, <1>2, <1>4 DEF InCpuOrder
<1>8. Served(pf') = PfCpus
  BY <1>2, <1>4 DEF Served
<1>9. Counters(pf')
  <2>1. Grouped(PmuAfter, PfCpus)
    BY <1>3, <1>4, NoGroups DEF PmuAfter
  <2> QED
    BY <1>1, <1>2, <1>3, <1>4, <1>8, <2>1 DEF Counters, Opening, PmuAfter
<1>10. Phases(pf')
  BY <1>2, <1>3, <1>4 DEF Phases, Opening, Extras, Opened
<1> QED
  BY <1>5, <1>6, <1>7, <1>9, <1>10 DEF SetUp

\* The context-switch event of a CPU.
LEMMA SwitchStep ==
  ASSUME PfInd, OpenSwitch
  PROVE  SetUp(pf', pfOpen')
<1> DEFINE cpu == Len(pf.switch) + 1
           fd  == PfFd("switch", cpu, 0)
           pc  == IF cpu = PfCpus THEN "trace" ELSE pf.pc
           all == Append(pf.switch, fd)
<1>1. /\ pf \in PfRec /\ pf.pc = "switch" /\ InCpuOrder(pf) /\ Counters(pf) /\ Phases(pf)
      /\ pfOpen = Owned(pf)
  BY DEF PfInd, SetUp, OpenSwitch, PfAt
<1>2. /\ pf.switch \in Seq(FdSet) /\ Len(pf.switch) \in Nat /\ DOMAIN pf.switch = 1 .. Len(pf.switch)
      /\ Len(pf.sampling) \in Nat
  BY <1>1, FieldTypes
<1>3. cpu \in 1 .. PfCpus /\ PfCpus \in Nat \ {0}
  BY <1>1, <1>2, SizesOk DEF Phases
<1>4. fd \in FdSet /\ pc \in {"switch", "trace"} /\ <<>> \in Seq(FdSet) /\ Len(<<>>) = 0 /\ DOMAIN <<>> = {}
  BY <1>1, <1>3, FdParts
<1>5. /\ all \in Seq(FdSet) /\ Len(all) = cpu /\ ToSet(all) = ToSet(pf.switch) \cup {fd}
      /\ DOMAIN all = 1 .. cpu /\ \A i \in DOMAIN pf.switch : all[i] = pf.switch[i]
      /\ all[cpu] = fd
  BY <1>2, <1>4, InAppended
<1>6. Ordered("switch", all)
  <2>1. \A i \in 1 .. cpu : i \in DOMAIN pf.switch \/ i = cpu
    BY <1>2
  <2> QED
    BY <1>1, <1>5, <2>1 DEF Ordered, InCpuOrder
<1>7. /\ pf.waking = <<>> /\ ~pf.offsets /\ pf.group = <<>> /\ Len(pf.sampling) = PfCpus
      /\ Served(pf) = PfCpus
  BY <1>1 DEF Phases, InCpuOrder, Extras, Served
<1> HIDE DEF fd, pc, all
<1>8. ASSUME NEW fds \in Seq(FdSet), NEW to \in {"switch", "trace"}, Ordered("switch", fds),
             pf' = [pf EXCEPT !.switch = fds, !.pc = to],
             to = "switch" => Len(fds) < PfCpus, to = "trace" => fds = <<>> \/ Len(fds) = PfCpus,
             pfOpen' = (pfOpen \ ToSet(pf.switch)) \cup ToSet(fds)
      PROVE  SetUp(pf', pfOpen')
  <2>1. /\ pf'.via = pf.via /\ pf'.pc = to /\ pf'.sampling = pf.sampling
        /\ pf'.switch = fds /\ pf'.waking = pf.waking /\ pf'.offsets = pf.offsets
        /\ pf'.pmu = pf.pmu /\ pf'.pmuOff = pf.pmuOff /\ pf'.group = pf.group
        /\ pf'.mapped = pf.mapped /\ pf'.kinds = pf.kinds
    BY <1>1, <1>8 DEF PfRec
  <2>2. pf' \in PfRec
    <3>1. to \in PfPcs
      BY DEF PfPcs, Extras
    <3> QED
      BY <1>1, <1>8, <3>1 DEF PfRec
  <2>3. pfOpen' = Owned(pf')
    <3>1. ASSUME NEW x \in ToSet(pf.switch) PROVE x \notin ToSet(pf.sampling) /\ x \notin ToSet(pf.pmu)
      <4>1. /\ x[1] = "switch" /\ Ordered("sampling", pf.sampling) /\ Grouped(pf.pmu, PfCpus)
            /\ PfCpus \in Nat
        BY <1>1, <1>3, <1>7, OrderedApart DEF InCpuOrder, Counters
      <4>2. x \notin ToSet(pf.sampling)
        BY <4>1, OrderedApart
      <4>3. x \notin ToSet(pf.pmu)
        BY <4>1, PmuApart
      <4> QED
        BY <4>2, <4>3
    <3> QED
      BY <1>1, <1>7, <1>8, <2>1, <3>1, NothingIn DEF Owned
  <2>4. InCpuOrder(pf')
    BY <1>1, <1>7, <1>8, <2>1 DEF InCpuOrder
  <2>5. Served(pf') = Served(pf)
    BY <1>1, <2>1 DEF Served
  <2>6. Counters(pf')
    BY <1>1, <2>1, <2>5 DEF Counters, Opening
  <2>7. Phases(pf')
    BY <1>7, <1>8, <2>1 DEF Phases, Opening, Extras, Opened
  <2> QED
    BY <2>2, <2>3, <2>4, <2>6, <2>7 DEF SetUp
<1>9. CASE PfOpens(fd) /\ pf' = [pf EXCEPT !.switch = all, !.pc = pc]
  <2>1. pfOpen' = (pfOpen \ ToSet(pf.switch)) \cup ToSet(all)
    BY <1>1, <1>5, <1>9 DEF PfOpens, Owned
  <2>2. (pc = "switch" => Len(all) < PfCpus) /\ (pc = "trace" => all = <<>> \/ Len(all) = PfCpus)
    BY <1>1, <1>3, <1>5 DEF pc
  <2> QED
    BY <1>4, <1>5, <1>6, <1>8, <1>9, <2>1, <2>2
<1>10. CASE pfOpen' = pfOpen \ ToSet(pf.switch) /\ pf' = [pf EXCEPT !.switch = <<>>, !.pc = "trace"]
  <2>1. pfOpen' = (pfOpen \ ToSet(pf.switch)) \cup ToSet(<<>>) /\ Ordered("switch", <<>>)
    BY <1>4, <1>10, NothingIn DEF Ordered
  <2>2. "trace" \in {"switch", "trace"} /\ "trace" # "switch"
    OBVIOUS
  <2> QED
    BY <1>4, <1>8, <1>10, <2>1, <2>2
<1> QED
  BY <1>9, <1>10 DEF OpenSwitch, fd, pc, all

LEMMA TracepointStep ==
  ASSUME PfInd, ReadTracepoint
  PROVE  SetUp(pf', pfOpen')
<1>1. PICK readable \in BOOLEAN :
        pf' = [pf EXCEPT !.offsets = readable, !.pc = IF readable THEN "waking" ELSE AfterWaking]
  BY DEF ReadTracepoint
<1> DEFINE pc == IF readable THEN "waking" ELSE AfterWaking
<1>2. /\ pf \in PfRec /\ pf.pc = "trace" /\ InCpuOrder(pf) /\ Counters(pf) /\ Phases(pf)
      /\ pfOpen = Owned(pf) /\ pfOpen' = pfOpen
  BY DEF PfInd, SetUp, ReadTracepoint, PfAt
<1>3. pc \in {"waking", "reply", "kinds"} /\ (pc = "waking" <=> readable)
  BY DEF AfterWaking
<1> HIDE DEF pc
<1>4. pf' = [pf EXCEPT !.offsets = readable, !.pc = pc]
  BY <1>1 DEF pc
<1>5. /\ pf'.via = pf.via /\ pf'.pc = pc /\ pf'.sampling = pf.sampling
      /\ pf'.switch = pf.switch /\ pf'.waking = pf.waking /\ pf'.offsets = readable
      /\ pf'.pmu = pf.pmu /\ pf'.pmuOff = pf.pmuOff /\ pf'.group = pf.group
      /\ pf'.mapped = pf.mapped /\ pf'.kinds = pf.kinds
  BY <1>2, <1>4 DEF PfRec
<1>6. pf' \in PfRec
  <2>1. pc \in PfPcs
    BY <1>3 DEF PfPcs, Extras, Opened
  <2> QED
    BY <1>2, <1>4, <2>1 DEF PfRec
<1>7. pfOpen' = Owned(pf')
  BY <1>2, <1>5 DEF Owned
<1>8. InCpuOrder(pf')
  BY <1>2, <1>3, <1>5 DEF InCpuOrder
<1>9. Served(pf') = Served(pf)
  BY <1>2, <1>3, <1>5 DEF Served
<1>10. Counters(pf')
  BY <1>2, <1>3, <1>5, <1>9 DEF Counters, Opening
<1>11. Phases(pf')
  <2>1. Len(<<>>) = 0 /\ 0 < PfCpus /\ pf.waking = <<>>
    BY <1>2, SizesOk DEF Phases
  <2> QED
    BY <1>2, <1>3, <1>5, <2>1 DEF Phases, Opening, Extras, Opened
<1> QED
  BY <1>6, <1>7, <1>8, <1>10, <1>11 DEF SetUp

\* The sched_waking event of a CPU.
LEMMA WakingStep ==
  ASSUME PfInd, OpenWaking
  PROVE  SetUp(pf', pfOpen')
<1> DEFINE cpu == Len(pf.waking) + 1
           fd  == PfFd("waking", cpu, 0)
           pc  == IF cpu = PfCpus THEN AfterWaking ELSE pf.pc
           all == Append(pf.waking, fd)
<1>1. /\ pf \in PfRec /\ pf.pc = "waking" /\ InCpuOrder(pf) /\ Counters(pf) /\ Phases(pf)
      /\ pfOpen = Owned(pf)
  BY DEF PfInd, SetUp, OpenWaking, PfAt
<1>2. /\ pf.waking \in Seq(FdSet) /\ Len(pf.waking) \in Nat /\ DOMAIN pf.waking = 1 .. Len(pf.waking)
      /\ Len(pf.sampling) \in Nat
  BY <1>1, FieldTypes
<1>3. cpu \in 1 .. PfCpus /\ PfCpus \in Nat \ {0}
  BY <1>1, <1>2, SizesOk DEF Phases
<1>4. /\ fd \in FdSet /\ AfterWaking \in {"reply", "kinds"} /\ pc \in {"waking", "reply", "kinds"}
      /\ <<>> \in Seq(FdSet) /\ Len(<<>>) = 0 /\ DOMAIN <<>> = {}
  BY <1>1, <1>3, FdParts DEF AfterWaking
<1>5. /\ all \in Seq(FdSet) /\ Len(all) = cpu /\ ToSet(all) = ToSet(pf.waking) \cup {fd}
      /\ DOMAIN all = 1 .. cpu /\ \A i \in DOMAIN pf.waking : all[i] = pf.waking[i]
      /\ all[cpu] = fd
  BY <1>2, <1>4, InAppended
<1>6. Ordered("waking", all)
  <2>1. \A i \in 1 .. cpu : i \in DOMAIN pf.waking \/ i = cpu
    BY <1>2
  <2> QED
    BY <1>1, <1>5, <2>1 DEF Ordered, InCpuOrder
<1>7. /\ pf.offsets /\ pf.group = <<>> /\ Len(pf.sampling) = PfCpus /\ Served(pf) = PfCpus
      /\ pf.switch = <<>> \/ Len(pf.switch) = PfCpus
  BY <1>1 DEF Phases, InCpuOrder, Extras, Served
<1> HIDE DEF fd, pc, all
<1>8. ASSUME NEW fds \in Seq(FdSet), NEW to \in {"waking", "reply", "kinds"}, NEW found \in BOOLEAN,
             Ordered("waking", fds),
             pf' = [pf EXCEPT !.waking = fds, !.offsets = found, !.pc = to],
             to = "waking" => Len(fds) < PfCpus /\ found,
             to # "waking" => IF found THEN Len(fds) = PfCpus ELSE fds = <<>>,
             pfOpen' = (pfOpen \ ToSet(pf.waking)) \cup ToSet(fds)
      PROVE  SetUp(pf', pfOpen')
  <2>1. /\ pf'.via = pf.via /\ pf'.pc = to /\ pf'.sampling = pf.sampling
        /\ pf'.switch = pf.switch /\ pf'.waking = fds /\ pf'.offsets = found
        /\ pf'.pmu = pf.pmu /\ pf'.pmuOff = pf.pmuOff /\ pf'.group = pf.group
        /\ pf'.mapped = pf.mapped /\ pf'.kinds = pf.kinds
    BY <1>1, <1>8 DEF PfRec
  <2>2. pf' \in PfRec
    <3>1. to \in PfPcs
      BY DEF PfPcs, Extras, Opened
    <3> QED
      BY <1>1, <1>8, <3>1 DEF PfRec
  <2>3. pfOpen' = Owned(pf')
    <3>1. ASSUME NEW x \in ToSet(pf.waking)
          PROVE  x \notin ToSet(pf.sampling) /\ x \notin ToSet(pf.switch) /\ x \notin ToSet(pf.pmu)
      <4>1. /\ x[1] = "waking" /\ Ordered("sampling", pf.sampling) /\ Ordered("switch", pf.switch)
            /\ Grouped(pf.pmu, PfCpus) /\ PfCpus \in Nat
        BY <1>1, <1>3, <1>7, OrderedApart DEF InCpuOrder, Counters
      <4>2. x \notin ToSet(pf.sampling)
        BY <4>1, OrderedApart
      <4>3. x \notin ToSet(pf.switch)
        BY <4>1, OrderedApart
      <4>4. x \notin ToSet(pf.pmu)
        BY <4>1, PmuApart
      <4> QED
        BY <4>2, <4>3, <4>4
    <3> QED
      BY <1>1, <1>7, <1>8, <2>1, <3>1, NothingIn DEF Owned
  <2>4. InCpuOrder(pf')
    BY <1>1, <1>7, <1>8, <2>1 DEF InCpuOrder
  <2>5. Served(pf') = Served(pf)
    BY <1>1, <2>1 DEF Served
  <2>6. Counters(pf')
    BY <1>1, <2>1, <2>5 DEF Counters, Opening
  <2>7. Phases(pf')
    BY <1>7, <1>8, <2>1 DEF Phases, Opening, Extras, Opened
  <2> QED
    BY <2>2, <2>3, <2>4, <2>6, <2>7 DEF SetUp
<1>9. CASE PfOpens(fd) /\ pf' = [pf EXCEPT !.waking = all, !.pc = pc]
  <2>1. pfOpen' = (pfOpen \ ToSet(pf.waking)) \cup ToSet(all)
    BY <1>1, <1>5, <1>9 DEF PfOpens, Owned
  <2>2. /\ pc = "waking" => Len(all) < PfCpus /\ TRUE
        /\ pc # "waking" => IF TRUE THEN Len(all) = PfCpus ELSE all = <<>>
    BY <1>1, <1>3, <1>4, <1>5 DEF pc
  <2>3. pf' = [pf EXCEPT !.waking = all, !.offsets = TRUE, !.pc = pc] /\ TRUE \in BOOLEAN
    BY <1>1, <1>7, <1>9 DEF PfRec
  <2> QED
    BY <1>4, <1>5, <1>6, <1>8, <2>1, <2>2, <2>3
<1>10. CASE /\ pfOpen' = pfOpen \ ToSet(pf.waking)
            /\ pf' = [pf EXCEPT !.waking = <<>>, !.offsets = FALSE, !.pc = AfterWaking]
  <2>1. pfOpen' = (pfOpen \ ToSet(pf.waking)) \cup ToSet(<<>>) /\ Ordered("waking", <<>>)
    BY <1>4, <1>10, NothingIn DEF Ordered
  <2>2. AfterWaking \in {"waking", "reply", "kinds"} /\ AfterWaking # "waking" /\ FALSE \in BOOLEAN
    BY <1>4
  <2> QED
    BY <1>4, <1>8, <1>10, <2>1, <2>2
<1> QED
  BY <1>9, <1>10 DEF OpenWaking, fd, pc, all

\* The steps after the last event is open change the position only.
LEMMA MovedOn ==
  ASSUME PfInd, NEW to \in Opened, NEW n \in Nat, NEW kinds \in SUBSET (FdSet \X ToSet(PfCounters)),
         pf.pc \in Opened, pf' = [pf EXCEPT !.pc = to, !.mapped = n, !.kinds = kinds], pfOpen' = pfOpen,
         to \in {"enable", "run"} => kinds = KindsOf(pf.pmu)
  PROVE  SetUp(pf', pfOpen')
<1>1. pf \in PfRec /\ InCpuOrder(pf) /\ Counters(pf) /\ Phases(pf) /\ pfOpen = Owned(pf)
  BY DEF PfInd, SetUp
<1>2. /\ pf'.via = pf.via /\ pf'.pc = to /\ pf'.sampling = pf.sampling
      /\ pf'.switch = pf.switch /\ pf'.waking = pf.waking /\ pf'.offsets = pf.offsets
      /\ pf'.pmu = pf.pmu /\ pf'.pmuOff = pf.pmuOff /\ pf'.group = pf.group
      /\ pf'.mapped = n /\ pf'.kinds = kinds
  BY <1>1 DEF PfRec
<1>3. pf' \in PfRec
  <2>1. to \in PfPcs
    BY DEF PfPcs
  <2> QED
    BY <1>1, <2>1 DEF PfRec
<1>4. pfOpen' = Owned(pf')
  BY <1>1, <1>2 DEF Owned
<1>5. InCpuOrder(pf')
  BY <1>1, <1>2 DEF InCpuOrder, Opened
<1>6. Served(pf') = Served(pf)
  BY <1>1, <1>2 DEF Served, Opened
<1>7. Counters(pf')
  BY <1>1, <1>2, <1>6 DEF Counters, Opening, Opened
<1>8. Phases(pf')
  BY <1>1, <1>2 DEF Phases, Opening, Extras, Opened
<1> QED
  BY <1>3, <1>4, <1>5, <1>7, <1>8 DEF SetUp

LEMMA ReplyStep ==
  ASSUME PfInd, Reply
  PROVE  SetUp(pf', pfOpen')
<1>1. CASE PfFail
  BY <1>1, FailStep
<1>2. CASE pf' = [pf EXCEPT !.pc = "map"] /\ UNCHANGED pfOpen
  <2>1. pf \in PfRec /\ pf.pc = "reply"
    BY DEF PfInd, SetUp, Reply, PfAt
  <2>2. pf.mapped \in Nat /\ pf.kinds \in SUBSET (FdSet \X ToSet(PfCounters))
    BY <2>1, FieldTypes
  <2>3. pf' = [pf EXCEPT !.pc = "map", !.mapped = pf.mapped, !.kinds = pf.kinds]
    BY <1>2, <2>1 DEF PfRec
  <2>4. "map" \in Opened /\ "map" \notin {"enable", "run"} /\ pf.pc \in Opened
    BY <2>1 DEF Opened
  <2> QED
    BY <1>2, <2>2, <2>3, <2>4, MovedOn
<1> QED
  BY <1>1, <1>2 DEF Reply

LEMMA MapStep ==
  ASSUME PfInd, MapRing
  PROVE  SetUp(pf', pfOpen')
<1> DEFINE last == pf.mapped + 1 = Len(pf.sampling \o pf.switch \o pf.waking)
           to   == IF last THEN "kinds" ELSE pf.pc
<1>1. CASE PfFail
  BY <1>1, FailStep
<1>2. CASE pf' = [pf EXCEPT !.mapped = @ + 1, !.pc = to] /\ UNCHANGED pfOpen
  <2>1. pf \in PfRec /\ pf.pc = "map"
    BY DEF PfInd, SetUp, MapRing, PfAt
  <2>2. pf.mapped + 1 \in Nat /\ pf.kinds \in SUBSET (FdSet \X ToSet(PfCounters))
    BY <2>1, FieldTypes
  <2>3. to \in Opened /\ to \notin {"enable", "run"} /\ pf.pc \in Opened
    BY <2>1 DEF Opened
  <2> HIDE DEF to
  <2>4. pf' = [pf EXCEPT !.pc = to, !.mapped = pf.mapped + 1, !.kinds = pf.kinds]
    BY <1>2, <2>1 DEF PfRec
  <2> QED
    BY <1>2, <2>2, <2>3, <2>4, MovedOn
<1> QED
  BY <1>1, <1>2 DEF MapRing

\* The client never meets a layout it has to refuse.
LEMMA KindsStep ==
  ASSUME PfInd, TakeKinds
  PROVE  SetUp(pf', pfOpen')
<1>1. pf \in PfRec /\ pf.pc = "kinds" /\ Counters(pf) /\ Phases(pf)
  BY DEF PfInd, SetUp, TakeKinds, PfAt
<1>2. /\ pf.mapped \in Nat /\ pf.pmu \in Seq(FdSet) /\ DOMAIN pf.pmu = 1 .. Len(pf.pmu) /\ Len(pf.pmu) \in Nat
      /\ pf.pmuOff \in BOOLEAN /\ \A i \in DOMAIN pf.pmu : pf.pmu[i] \in FdSet
  <2>1. /\ pf.mapped \in Nat /\ pf.pmu \in Seq(FdSet) /\ DOMAIN pf.pmu = 1 .. Len(pf.pmu)
        /\ Len(pf.pmu) \in Nat /\ pf.pmuOff \in BOOLEAN
    BY <1>1, FieldTypes
  <2> QED
    BY <2>1, ElementOfSeq
<1>3. ~(pf.via = "broker" /\ pf.pmu # <<>> /\ Len(pf.pmu) # Len(PfCounters) * PfCpus)
  BY <1>1, <1>2 DEF Counters, AllGroups, Served, Phases, Opening, Opened, GroupLen
<1>4. KindsOf(pf.pmu) \in SUBSET (FdSet \X ToSet(PfCounters))
  <2>1. ASSUME NEW i \in DOMAIN pf.pmu
        PROVE  <<pf.pmu[i], PfCounters[((i - 1) % Len(PfCounters)) + 1]>> \in FdSet \X ToSet(PfCounters)
    <3>1. GroupLen \in Nat \ {0} /\ i - 1 \in Nat
      BY <1>2, SizesOk
    <3>2. (i - 1) % GroupLen \in 0 .. GroupLen - 1
      BY <3>1, Divided
    <3>3. ((i - 1) % GroupLen) + 1 \in 1 .. GroupLen
      BY <3>1, <3>2
    <3>4. PfCounters[((i - 1) % GroupLen) + 1] \in ToSet(PfCounters)
      BY <3>3, SizesOk
    <3> QED
      BY <1>2, <3>4 DEF GroupLen
  <2> QED
    BY <2>1 DEF KindsOf
<1>5. pf' = [pf EXCEPT !.kinds = KindsOf(pf.pmu), !.pc = "enable"] /\ pfOpen' = pfOpen
  BY <1>3 DEF TakeKinds
<1>6. pf' = [pf EXCEPT !.pc = "enable", !.mapped = pf.mapped, !.kinds = KindsOf(pf.pmu)]
  BY <1>1, <1>5 DEF PfRec
<1>7. "enable" \in Opened /\ pf.pc \in Opened
  BY <1>1 DEF Opened
<1> QED
  BY <1>2, <1>4, <1>5, <1>6, <1>7, MovedOn

LEMMA EnableStep ==
  ASSUME PfInd, EnableRings
  PROVE  SetUp(pf', pfOpen')
<1>1. CASE PfFail
  BY <1>1, FailStep
<1>2. CASE pf' = [pf EXCEPT !.pc = "run"] /\ UNCHANGED pfOpen
  <2>1. pf \in PfRec /\ pf.pc = "enable" /\ pf.kinds = KindsOf(pf.pmu)
    BY DEF PfInd, SetUp, EnableRings, PfAt, Counters
  <2>2. pf.mapped \in Nat /\ KindsOf(pf.pmu) \in SUBSET (FdSet \X ToSet(PfCounters))
    BY <2>1, FieldTypes
  <2>3. pf' = [pf EXCEPT !.pc = "run", !.mapped = pf.mapped, !.kinds = KindsOf(pf.pmu)]
    BY <1>2, <2>1 DEF PfRec
  <2>4. "run" \in Opened /\ pf.pc \in Opened
    BY <2>1 DEF Opened
  <2> QED
    BY <1>2, <2>2, <2>3, <2>4, MovedOn
<1> QED
  BY <1>1, <1>2 DEF EnableRings

LEMMA CloseStep ==
  ASSUME PfInd, CloseRings
  PROVE  SetUp(pf', pfOpen')
<1>1. pf.via \in {"broker", "local"}
  BY DEF PfInd, SetUp, PfRec
<1> QED
  BY <1>1, NothingHeld DEF CloseRings, Over

-----------------------------------------------------------------------------
(* The recording that runs *)

\* One descriptor per CPU in CPU order is the sequence the property names.
LEMMA WholeRow ==
  ASSUME NEW kind, NEW fds \in Seq(FdSet), Ordered(kind, fds), Len(fds) = PfCpus
  PROVE  OnePerCpu(kind, fds)
<1>1. fds \in [1 .. PfCpus -> FdSet] /\ DOMAIN fds = 1 .. PfCpus
  BY LenProperties
<1> QED
  BY <1>1 DEF OnePerCpu, Ordered

\* What the counters of a CPU are filed under: all kinds or none.
LEMMA KindsOfGroup ==
  ASSUME NEW fds \in Seq(FdSet), NEW last \in Nat, Grouped(fds, last), NEW cpu \in 1 .. last
  PROVE  LET kinds == {x[2] : x \in {y \in KindsOf(fds) : y[1][2] = cpu}}
         IN  \/ kinds = ToSet(PfCounters)
             \/ kinds = {} /\ \A slot \in 1 .. GroupLen : PfFd("pmu", cpu, slot) \notin ToSet(fds)
<1> DEFINE kinds == {x[2] : x \in {y \in KindsOf(fds) : y[1][2] = cpu}}
           at(i)  == ((i - 1) % GroupLen) + 1
<1>1. GroupLen \in Nat \ {0} /\ DOMAIN PfCounters = 1 .. GroupLen /\ DOMAIN fds = 1 .. Len(fds) /\ Len(fds) \in Nat
  BY SizesOk, LenProperties
<1>2. \A i \in DOMAIN fds : at(i) \in 1 .. GroupLen
  <2> SUFFICES ASSUME NEW i \in DOMAIN fds PROVE at(i) \in 1 .. GroupLen
    OBVIOUS
  <2>1. i - 1 \in Nat
    BY <1>1
  <2>2. (i - 1) % GroupLen \in 0 .. GroupLen - 1
    BY <1>1, <2>1, Divided
  <2> QED
    BY <1>1, <2>2
<1>3. \A i \in DOMAIN fds : fds[i][1] = "pmu" /\ fds[i][3] = at(i) /\ fds[i] = PfFd("pmu", fds[i][2], at(i))
  <2> SUFFICES ASSUME NEW i \in DOMAIN fds
               PROVE  fds[i][1] = "pmu" /\ fds[i][3] = at(i) /\ fds[i] = PfFd("pmu", fds[i][2], at(i))
    OBVIOUS
  <2>1. PICK c \in 1 .. last : fds[i] = PfFd("pmu", c, at(i))
    BY DEF Grouped
  <2> HIDE DEF at
  <2> QED
    BY <2>1, FdParts
<1>4. KindsOf(fds) = {<<fds[i], PfCounters[at(i)]>> : i \in DOMAIN fds}
  BY DEF KindsOf, GroupLen
<1> HIDE DEF at
<1>5. CASE \A slot \in 1 .. GroupLen : PfFd("pmu", cpu, slot) \in ToSet(fds)
  <2>1. ASSUME NEW k \in ToSet(PfCounters) PROVE k \in kinds
    <3>1. PICK slot \in 1 .. GroupLen : k = PfCounters[slot]
      BY <1>1 DEF ToSet
    <3>2. PICK i \in DOMAIN fds : fds[i] = PfFd("pmu", cpu, slot)
      BY <1>5 DEF ToSet
    <3>3. at(i) = slot /\ fds[i][2] = cpu
      BY <1>3, <3>2, FdParts
    <3>4. <<fds[i], k>> \in KindsOf(fds)
      BY <1>4, <3>1, <3>3
    <3>5. <<fds[i], k>>[1][2] = cpu /\ <<fds[i], k>>[2] = k
      BY <3>3
    <3> QED
      BY <3>4, <3>5
  <2>2. ASSUME NEW k \in kinds PROVE k \in ToSet(PfCounters)
    <3>1. PICK i \in DOMAIN fds : k = PfCounters[at(i)]
      BY <1>4, <2>2
    <3> QED
      BY <1>1, <1>2, <3>1 DEF ToSet
  <2> QED
    BY <2>1, <2>2
<1>6. CASE \A slot \in 1 .. GroupLen : PfFd("pmu", cpu, slot) \notin ToSet(fds)
  <2>1. ASSUME NEW k \in kinds PROVE FALSE
    <3>1. PICK i \in DOMAIN fds : fds[i][2] = cpu
      BY <1>4, <2>1
    <3>2. PfFd("pmu", cpu, at(i)) \in ToSet(fds)
      BY <1>3, <3>1 DEF ToSet
    <3> QED
      BY <1>2, <1>6, <3>2
  <2> QED
    BY <1>6, <2>1
<1> QED
  BY <1>5, <1>6 DEF Grouped

LEMMA RunningWhole ==
  ASSUME PfInd, PfAt("run")
  PROVE  /\ OnePerCpu("sampling", pf.sampling)
         /\ pf.switch # <<>> => OnePerCpu("switch", pf.switch)
         /\ pf.waking # <<>> => OnePerCpu("waking", pf.waking)
         /\ pf.offsets <=> pf.waking # <<>>
         /\ \A x \in pf.kinds : x[2] = PfCounters[x[1][3]] /\ x[1] \in pfOpen
         /\ LET group(cpu) == {x[2] : x \in {y \in pf.kinds : y[1][2] = cpu}}
            IN  /\ \A cpu \in 1 .. PfCpus : group(cpu) \in {{}, ToSet(PfCounters)}
                /\ pf.via = "broker" => \A c, d \in 1 .. PfCpus : group(c) = group(d)
<1> DEFINE group(cpu) == {x[2] : x \in {y \in pf.kinds : y[1][2] = cpu}}
<1>1. /\ pf \in PfRec /\ pf.pc = "run" /\ InCpuOrder(pf) /\ Counters(pf) /\ Phases(pf)
      /\ pfOpen = Owned(pf)
  BY DEF PfInd, SetUp, PfAt
<1>2. /\ pf.sampling \in Seq(FdSet) /\ pf.switch \in Seq(FdSet) /\ pf.waking \in Seq(FdSet)
      /\ pf.pmu \in Seq(FdSet) /\ pf.offsets \in BOOLEAN /\ pf.pmuOff \in BOOLEAN
      /\ DOMAIN pf.pmu = 1 .. Len(pf.pmu) /\ Len(pf.pmu) \in Nat
  BY <1>1, FieldTypes
<1>3. /\ Len(pf.sampling) = PfCpus /\ (pf.switch = <<>> \/ Len(pf.switch) = PfCpus)
      /\ IF pf.offsets THEN Len(pf.waking) = PfCpus ELSE pf.waking = <<>>
      /\ Ordered("sampling", pf.sampling) /\ Ordered("switch", pf.switch) /\ Ordered("waking", pf.waking)
      /\ PfCpus \in Nat \ {0} /\ Len(<<>>) = 0
  BY <1>1, SizesOk DEF Phases, Opened, InCpuOrder
<1>4. /\ Grouped(pf.pmu, PfCpus) /\ pf.kinds = KindsOf(pf.pmu)
      /\ pf.via = "broker" => AllGroups(pf.pmu, PfCpus) \/ pf.pmu = <<>>
  BY <1>1, <1>2, <1>3 DEF Counters, Served, Opening
<1>5. OnePerCpu("sampling", pf.sampling)
  BY <1>2, <1>3, WholeRow
<1>6. pf.switch # <<>> => OnePerCpu("switch", pf.switch)
  BY <1>2, <1>3, WholeRow
<1>7. pf.offsets => Len(pf.waking) = PfCpus /\ pf.waking # <<>>
  BY <1>3
<1>8. pf.waking # <<>> => OnePerCpu("waking", pf.waking)
  BY <1>2, <1>3, WholeRow
<1>9. ASSUME NEW x \in pf.kinds PROVE x[2] = PfCounters[x[1][3]] /\ x[1] \in pfOpen
  <2>1. PICK i \in DOMAIN pf.pmu : x = <<pf.pmu[i], PfCounters[((i - 1) % GroupLen) + 1]>>
    BY <1>4, <1>9 DEF KindsOf, GroupLen
  <2>2. PICK cpu \in 1 .. PfCpus : pf.pmu[i] = PfFd("pmu", cpu, ((i - 1) % GroupLen) + 1)
    BY <1>4 DEF Grouped
  <2>3. x[1] = pf.pmu[i] /\ x[2] = PfCounters[((i - 1) % GroupLen) + 1]
    BY <2>1
  <2>4. pf.pmu[i][3] = ((i - 1) % GroupLen) + 1
    BY <2>2, FdParts
  <2>5. pf.pmu[i] \in ToSet(pf.pmu)
    BY DEF ToSet
  <2> QED
    BY <1>1, <2>3, <2>4, <2>5 DEF Owned
<1>10. ASSUME NEW cpu \in 1 .. PfCpus
       PROVE  \/ group(cpu) = ToSet(PfCounters)
              \/ group(cpu) = {} /\ \A slot \in 1 .. GroupLen : PfFd("pmu", cpu, slot) \notin ToSet(pf.pmu)
  BY <1>2, <1>3, <1>4, KindsOfGroup
<1>11. ASSUME pf.via = "broker", NEW c \in 1 .. PfCpus, NEW d \in 1 .. PfCpus PROVE group(c) = group(d)
  <2>1. CASE AllGroups(pf.pmu, PfCpus)
    <3>1. \A cpu \in 1 .. PfCpus : PfFd("pmu", cpu, 1) \in ToSet(pf.pmu) /\ 1 \in 1 .. GroupLen
      BY <2>1, SizesOk DEF AllGroups
    <3>2. \A cpu \in 1 .. PfCpus : group(cpu) = ToSet(PfCounters)
      BY <1>10, <3>1
    <3> QED
      BY <3>2
  <2>2. CASE pf.pmu = <<>>
    <3>1. pf.kinds = {}
      BY <1>4, <2>2 DEF KindsOf
    <3> QED
      BY <3>1
  <2> QED
    BY <1>4, <1>11, <2>1, <2>2
<1>12. \A cpu \in 1 .. PfCpus : group(cpu) \in {{}, ToSet(PfCounters)}
  BY <1>10
<1>13. pf.offsets <=> pf.waking # <<>>
  BY <1>2, <1>3, <1>7
<1> HIDE DEF group
<1>14. /\ \A cpu \in 1 .. PfCpus : group(cpu) \in {{}, ToSet(PfCounters)}
       /\ pf.via = "broker" => \A c, d \in 1 .. PfCpus : group(c) = group(d)
  BY <1>11, <1>12
<1> QED
  BY <1>5, <1>6, <1>8, <1>9, <1>13, <1>14 DEF group

\* Whatever opens fail and in whatever order, the recording that runs has its
\* rings in CPU order and whole counter groups, over the broker for all CPUs or
\* none; no event stays open that the set-up does not hold (open_perf_session,
\* record_via_daemon, run_with_rings), for every number of CPUs and counters.
THEOREM RingsWholeThm == PrSpec => []RingsWhole
<1>1. PrInit => PfInd
  <2> SUFFICES ASSUME PrInit PROVE PfInd
    OBVIOUS
  <2>1. PICK via \in {"broker", "local"} : pf = NoRings(via, "leader")
    BY DEF PrInit, PfInit
  <2>2. pfOpen = {}
    BY DEF PrInit, PfInit
  <2>3. SetUp(NoRings(via, "leader"), {})
    BY NothingHeld
  <2> QED
    BY <2>1, <2>2, <2>3 DEF PfInd
<1>2. PfInd /\ [PrNext]_prVars => PfInd'
  <2> SUFFICES ASSUME PfInd, [PrNext]_prVars PROVE PfInd'
    OBVIOUS
  <2>1. CASE PfNext
    <3>1. SetUp(pf', pfOpen')
      BY <2>1, LeaderStep, SiblingStep, PmuStep, SwitchStep, TracepointStep, WakingStep, ReplyStep,
         MapStep, KindsStep, EnableStep, CloseStep DEF PfNext
    <3> QED
      BY <3>1 DEF PfInd
  <2>2. CASE UNCHANGED pfVars
    <3>1. pf' = pf /\ pfOpen' = pfOpen
      BY <2>2 DEF pfVars
    <3> QED
      BY <3>1 DEF PfInd
  <2>3. CASE UNCHANGED prVars
    <3>1. UNCHANGED pfVars
      BY <2>3 DEF prVars
    <3> QED
      BY <2>2, <3>1
  <2> QED
    BY <2>1, <2>2, <2>3 DEF PrNext
<1>3. PfInd => RingsWhole
  <2> SUFFICES ASSUME PfInd PROVE RingsWhole
    OBVIOUS
  <2>1. ~PfAt("mismatch")
    BY DEF PfInd, SetUp, PfAt, PfRec, PfPcs, Opening, Extras, Opened, Over
  <2>2. pfOpen = PfHeld
    BY DEF PfInd, SetUp, PfHeld, Owned
  <2> QED
    BY <2>1, <2>2, RunningWhole DEF RingsWhole
<1> QED
  BY <1>1, <1>2, <1>3, PTL DEF PrSpec

-----------------------------------------------------------------------------
(* Words and records of a ring *)

\* Two positions less than a ring apart have different slots.
LEMMA SlotsApart ==
  ASSUME NEW K \in Nat \ {0}, NEW a \in Nat, NEW b \in Nat, a < b, b < a + K
  PROVE  a % K # b % K
<1> DEFINE q == a \div K
           r == b \div K
<1>1. /\ a = K * q + (a % K) /\ b = K * r + (b % K) /\ q \in Nat /\ r \in Nat
      /\ a % K \in 0 .. K - 1 /\ b % K \in 0 .. K - 1
  BY Divided
<1> HIDE DEF q, r
<1> SUFFICES ASSUME a % K = b % K PROVE FALSE
  OBVIOUS
<1>2. b - a = K * r - K * q
  BY <1>1
<1>3. K * r - K * q = K * (r - q)
  BY <1>1
<1>4. K * (r - q) < K /\ K * (r - q) > 0
  BY <1>1, <1>2, <1>3
<1>5. r - q > 0
  BY <1>1, <1>4
<1>6. r - q >= 1 => K * (r - q) >= K
  BY <1>1
<1> QED
  BY <1>1, <1>4, <1>5, <1>6

\* Every slot is met once in a turn of the ring.
LEMMA SlotMet ==
  ASSUME NEW K \in Nat \ {0}, NEW head \in Nat, NEW i \in 0 .. K - 1
  PROVE  \E k \in 0 .. K - 1 : (head + k) % K = i
<1> DEFINE h == head % K
           q == head \div K
<1>1. h \in 0 .. K - 1 /\ head = K * q + h /\ q \in Nat
  BY Divided
<1> HIDE DEF h, q
<1>2. CASE h <= i
  <2>1. i - h \in 0 .. K - 1 /\ head + (i - h) = K * q + i
    BY <1>1, <1>2
  <2>2. (K * q + i) % K = i
    BY <1>1, AfterWhole
  <2>3. (head + (i - h)) % K = i
    BY <2>1, <2>2
  <2> QED
    BY <2>1, <2>3
<1>3. CASE h > i
  <2>1. (K + i) - h \in 0 .. K - 1 /\ q + 1 \in Nat /\ head + ((K + i) - h) = K * (q + 1) + i
    BY <1>1, <1>3
  <2>2. (K * (q + 1) + i) % K = i
    BY <2>1, AfterWhole
  <2>3. (head + ((K + i) - h)) % K = i
    BY <2>1, <2>2
  <2> QED
    BY <2>1, <2>3
<1> QED
  BY <1>1, <1>2, <1>3

LEMMA SlotOnce ==
  ASSUME NEW K \in Nat \ {0}, NEW head \in Nat, NEW j \in 0 .. K - 1, NEW m \in 0 .. K - 1,
         (head + j) % K = (head + m) % K
  PROVE  j = m
<1>1. head + j \in Nat /\ head + m \in Nat
  OBVIOUS
<1>2. ASSUME j < m PROVE FALSE
  <2>1. head + j < head + m /\ head + m < (head + j) + K
    BY <1>2
  <2> QED
    BY <1>1, <2>1, SlotsApart
<1>3. ASSUME m < j PROVE FALSE
  <2>1. head + m < head + j /\ head + j < (head + m) + K
    BY <1>3
  <2> QED
    BY <1>1, <2>1, SlotsApart
<1> QED
  BY <1>2, <1>3

LEMMA WordsOfRecord ==
  ASSUME NEW n \in Nat, NEW size \in Nat \ {0}, NEW lost \in Nat
  PROVE  /\ RgWords(n, size, lost) \in Seq(WordSet) /\ Len(RgWords(n, size, lost)) = size
         /\ RgWords(n, size, lost)[1].k = 1 /\ Records(RgWords(n, size, lost))
<1> DEFINE w == RgWords(n, size, lost)
<1>1. /\ DOMAIN w = 1 .. size
      /\ \A j \in 1 .. size : w[j] \in WordSet /\ w[j].k = j /\ w[j].size = size
  BY DEF RgWords, WordSet
<1>2. w \in Seq(WordSet) /\ Len(w) = size
  BY DEF RgWords, WordSet
<1> HIDE DEF w
<1>3. w[1].k = 1
  BY <1>1
<1>4. Records(w)
  <2> SUFFICES ASSUME NEW at \in 0 .. size - 1, w[at + 1].k = 1
               PROVE  /\ w[at + 1].size >= 1
                      /\ \A j \in 1 .. w[at + 1].size : at + j <= size /\ w[at + j].k = j
                      /\ Starts(at + w[at + 1].size, w)
    BY <1>2 DEF Records
  <2>1. at = 0 /\ w[at + 1].size = size
    BY <1>1
  <2>2. \A j \in 1 .. size : at + j <= size /\ at + j = j
    BY <2>1
  <2>3. Starts(at + size, w)
    BY <1>2, <2>1 DEF Starts
  <2> QED
    BY <1>1, <2>1, <2>2, <2>3
<1> QED
  BY <1>2, <1>3, <1>4 DEF w

\* Records behind records: what began before begins there still.
LEMMA RecordsJoined ==
  ASSUME NEW s \in Seq(WordSet), NEW t \in Seq(WordSet), Records(s), Records(t),
         Len(t) >= 1, t[1].k = 1
  PROVE  /\ Records(s \o t)
         /\ \A at \in Nat : Starts(at, s) => Starts(at, s \o t)
         /\ Starts(Len(s) + Len(t), s \o t)
<1>0. /\ s \o t \in Seq(WordSet) /\ Len(s \o t) = Len(s) + Len(t)
      /\ DOMAIN (s \o t) = 1 .. Len(s) + Len(t)
      /\ \A i \in 1 .. Len(s) : (s \o t)[i] = s[i]
      /\ \A i \in 1 .. Len(t) : (s \o t)[Len(s) + i] = t[i]
      /\ \A k \in 1 .. Len(s) + Len(t) :
           k \in 1 .. Len(s) \/ \E i \in 1 .. Len(t) : k = Len(s) + i
      /\ ToSet(s \o t) = ToSet(s) \cup ToSet(t)
  BY ONLY InJoined, s \in Seq(WordSet), t \in Seq(WordSet)
<1> DEFINE all == s \o t
<1>1. /\ Len(all) = Len(s) + Len(t)
      /\ \A i \in 1 .. Len(s) : all[i] = s[i]
      /\ \A i \in 1 .. Len(t) : all[Len(s) + i] = t[i]
  BY <1>0
<1> HIDE DEF all
<1>2. Len(s) \in Nat /\ Len(t) \in Nat
  BY LenProperties
<1>3. ASSUME NEW at \in Nat, Starts(at, s) PROVE Starts(at, all)
  <2>1. CASE at < Len(s)
    <3>1. at + 1 \in 1 .. Len(s) /\ at < Len(all) /\ s[at + 1].k = 1
      BY <1>1, <1>2, <1>3, <2>1 DEF Starts
    <3>2. all[at + 1] = s[at + 1]
      BY <1>1, <3>1
    <3> QED
      BY <1>1, <1>2, <3>1, <3>2 DEF Starts
  <2>2. CASE at = Len(s)
    <3>1. all[at + 1] = t[1]
      BY <1>1, <1>2, <2>2
    <3> QED
      BY <1>1, <1>2, <2>2, <3>1 DEF Starts
  <2> QED
    BY <1>2, <1>3, <2>1, <2>2 DEF Starts
<1>4. ASSUME NEW at \in Nat, Starts(at, t) PROVE Starts(Len(s) + at, all)
  <2>1. CASE at < Len(t)
    <3>1. all[Len(s) + (at + 1)] = t[at + 1] /\ Len(s) + (at + 1) = (Len(s) + at) + 1
      BY <1>1, <1>2, <2>1
    <3>2. all[(Len(s) + at) + 1].k = 1
      BY <1>4, <2>1, <3>1 DEF Starts
    <3> QED
      BY <1>1, <1>2, <2>1, <3>2 DEF Starts
  <2>2. CASE at = Len(t)
    BY <1>1, <1>2, <2>2 DEF Starts
  <2> QED
    BY <1>2, <1>4, <2>1, <2>2 DEF Starts
<1>5. ASSUME NEW at \in 0 .. Len(all) - 1, all[at + 1].k = 1
      PROVE  /\ all[at + 1].size >= 1
             /\ \A j \in 1 .. all[at + 1].size : at + j <= Len(all) /\ all[at + j].k = j
             /\ Starts(at + all[at + 1].size, all)
  <2>1. CASE at < Len(s)
    <3>1. at \in 0 .. Len(s) - 1 /\ at + 1 \in 1 .. Len(s) /\ all[at + 1] = s[at + 1]
      BY <1>1, <1>2, <2>1
    <3>2. /\ s[at + 1].size >= 1
          /\ \A j \in 1 .. s[at + 1].size : at + j <= Len(s) /\ s[at + j].k = j
          /\ Starts(at + s[at + 1].size, s)
      BY <1>5, <3>1 DEF Records
    <3>3. s[at + 1].size \in Nat
      <4>1. s[at + 1] \in WordSet
        BY <3>1, ElementOfSeq
      <4> QED
        BY <4>1 DEF WordSet
    <3>4. \A j \in 1 .. s[at + 1].size : at + j \in 1 .. Len(s) /\ at + j <= Len(all)
      BY <1>1, <1>2, <3>2, <3>3
    <3>5. at + s[at + 1].size \in Nat
      BY <3>3
    <3> QED
      BY <1>1, <1>3, <3>1, <3>2, <3>4, <3>5
  <2>2. CASE at >= Len(s)
    <3> DEFINE off == at - Len(s)
    <3>1. /\ off \in 0 .. Len(t) - 1 /\ off + 1 \in 1 .. Len(t) /\ at = Len(s) + off
          /\ at + 1 = Len(s) + (off + 1)
      BY <1>1, <1>2, <2>2
    <3> HIDE DEF off
    <3>2. all[at + 1] = t[off + 1]
      BY <1>1, <3>1
    <3>3. /\ t[off + 1].size >= 1
          /\ \A j \in 1 .. t[off + 1].size : off + j <= Len(t) /\ t[off + j].k = j
          /\ Starts(off + t[off + 1].size, t)
      BY <1>5, <3>1, <3>2 DEF Records
    <3>4. t[off + 1].size \in Nat
      <4>1. t[off + 1] \in WordSet
        BY <3>1, ElementOfSeq
      <4> QED
        BY <4>1 DEF WordSet
    <3>5. ASSUME NEW j \in 1 .. t[off + 1].size PROVE at + j <= Len(all) /\ all[at + j].k = j
      <4>0. off + j <= Len(t) /\ t[off + j].k = j
        BY <3>3
      <4>1. off + j \in 1 .. Len(t) /\ at + j = Len(s) + (off + j)
        BY <1>2, <3>1, <3>4, <4>0
      <4>2. all[at + j] = t[off + j] /\ t[off + j].k = j
        BY <1>1, <3>3, <4>1
      <4>3. at + j <= Len(all)
        BY <1>1, <1>2, <4>1
      <4> QED
        BY <4>2, <4>3
    <3>6. off + t[off + 1].size \in Nat /\ at + t[off + 1].size = Len(s) + (off + t[off + 1].size)
      BY <1>2, <3>1, <3>4
    <3> QED
      BY <1>4, <3>2, <3>3, <3>5, <3>6
  <2> QED
    BY <1>2, <2>1, <2>2
<1>6. Records(all)
  BY <1>5 DEF Records
<1>7. Starts(Len(s) + Len(t), all)
  BY <1>1, <1>2 DEF Starts
<1> QED
  BY <1>3, <1>6, <1>7 DEF all

-----------------------------------------------------------------------------
(* The steps of the kernel and of the reader *)

LEMMA RingFacts ==
  ASSUME RgInd
  PROVE  /\ rg.head \in Nat /\ rg.tail \in Nat /\ DOMAIN rg.data = Slots /\ RgSize \in Nat \ {0}
         /\ rgLog.written \in Seq(WordSet) /\ Len(rgLog.written) \in Nat
         /\ rgLog.tried \in Nat /\ rgLog.lost \in Nat
         /\ rgRead.out \in Seq(WordSet) /\ Len(rgRead.out) \in Nat
         /\ rgRead.head \in Nat /\ rgRead.at \in Nat /\ rgRead.tail \in Nat
         /\ rg.data \in [Slots -> WordSet \cup {[size |-> 0]}]
<1>1. /\ rg.head \in Nat /\ rg.tail \in Nat /\ rgLog.written \in Seq(WordSet)
      /\ rgLog.tried \in Nat /\ rgLog.lost \in Nat
      /\ rg.data \in [Slots -> WordSet \cup {[size |-> 0]}]
  BY DEF RgInd, RgTyped
<1>2. /\ rgRead.out \in Seq(WordSet) /\ rgRead.head \in Nat /\ rgRead.at \in Nat /\ rgRead.tail \in Nat
  BY DEF RgInd, RgTyped
<1>3. Len(rgLog.written) \in Nat /\ Len(rgRead.out) \in Nat
  BY <1>1, <1>2, LenProperties
<1> QED
  BY <1>1, <1>2, <1>3, SizesOk

\* A record that fits goes behind the others and leaves what is unread alone.
LEMMA WriteStep ==
  ASSUME RgInd, NEW size \in RgSizes, KernelWrite(size)
  PROVE  RgInd'
<1> DEFINE written == rgLog.written
           n     == Len(written) + 1
           words == IF rgLog.lost = 0 THEN RgWords(n, size, 0)
                    ELSE RgWords(n, 1, rgLog.lost) \o RgWords(n + 1, size, 0)
           fits  == rg.head + Len(words) - rg.tail <= RgSize
           data  == [i \in DOMAIN rg.data |->
                       LET k == CHOOSE k \in 0 .. RgSize - 1 : (rg.head + k) % RgSize = i
                       IN  IF k < Len(words) THEN words[k + 1] ELSE rg.data[i]]
           all   == written \o words
<1>1. /\ rg.head \in Nat /\ rg.tail \in Nat /\ DOMAIN rg.data = Slots /\ RgSize \in Nat \ {0}
      /\ written \in Seq(WordSet) /\ Len(written) \in Nat /\ rgLog.tried \in Nat /\ rgLog.lost \in Nat
      /\ Len(rgRead.out) \in Nat /\ rgRead.head \in Nat /\ rgRead.at \in Nat /\ rgRead.tail \in Nat
      /\ rg.data \in [Slots -> WordSet \cup {[size |-> 0]}]
  BY RingFacts
<1>2. rgRead' = rgRead /\ RgTyped /\ RgSpan /\ RgKept /\ Records(written)
  BY DEF RgInd, KernelWrite
<1>3. words \in Seq(WordSet) /\ Len(words) \in Nat \ {0} /\ words[1].k = 1 /\ Records(words)
  <2>1. n \in Nat /\ n + 1 \in Nat /\ size \in Nat \ {0} /\ 1 \in Nat \ {0} /\ 0 \in Nat
    BY <1>1, SizesOk
  <2> HIDE DEF n
  <2>2. CASE rgLog.lost = 0
    BY <2>1, <2>2, WordsOfRecord
  <2>3. CASE rgLog.lost # 0
    <3> DEFINE a == RgWords(n, 1, rgLog.lost)
               b == RgWords(n + 1, size, 0)
    <3>1. a \in Seq(WordSet) /\ Len(a) = 1 /\ a[1].k = 1 /\ Records(a)
      <4>1. rgLog.lost \in Nat
        BY <1>1
      <4>2. \A m \in Nat \ {0} :
              LET w == RgWords(n, m, rgLog.lost)
              IN  w \in Seq(WordSet) /\ Len(w) = m /\ w[1].k = 1 /\ Records(w)
        BY <2>1, <4>1, WordsOfRecord
      <4> QED
        BY <2>1, <4>2
    <3>2. b \in Seq(WordSet) /\ Len(b) = size /\ b[1].k = 1 /\ Records(b)
      BY <2>1, WordsOfRecord
    <3>3. words = a \o b
      BY <2>3
    <3> HIDE DEF a, b, words
    <3>4. Len(b) >= 1
      BY <2>1, <3>2
    <3>5. Records(a \o b)
      BY <3>1, <3>2, <3>4, RecordsJoined
    <3>6. /\ a \o b \in Seq(WordSet) /\ Len(a \o b) = Len(a) + Len(b)
          /\ \A i \in 1 .. Len(a) + Len(b) : (a \o b)[i] = IF i <= Len(a) THEN a[i] ELSE b[i - Len(a)]
      BY <3>1, <3>2, ConcatProperties
    <3>7. (a \o b)[1] = a[1] /\ Len(a \o b) = size + 1
      BY <2>1, <3>1, <3>2, <3>6
    <3> QED
      BY <2>1, <3>1, <3>3, <3>5, <3>6, <3>7
  <2> QED
    BY <2>2, <2>3
<1> HIDE DEF words
<1>4. CASE ~fits
  <2>1. rg' = rg /\ rgLog' = [rgLog EXCEPT !.tried = @ + 1, !.lost = @ + 1]
    BY <1>4 DEF KernelWrite, words
  <2>2. rgLog'.written = written /\ rgLog' \in [written : Seq(WordSet), tried : Nat, lost : Nat]
    <3>1. /\ rgLog \in [written : Seq(WordSet), tried : Nat, lost : Nat]
          /\ rgLog.tried + 1 \in Nat /\ rgLog.lost + 1 \in Nat
      BY <1>1, <1>2 DEF RgTyped
    <3> QED
      BY ONLY <2>1, <3>1
  <2>3. RgTyped'
    BY <1>2, <2>1, <2>2 DEF RgTyped
  <2>4. RgSpan' /\ RgKept' /\ Records(rgLog.written)'
    BY <1>2, <2>1, <2>2 DEF RgSpan, RgKept
  <2> QED
    BY <2>3, <2>4 DEF RgInd
<1>5. CASE fits
  <2>1. /\ rg' = [rg EXCEPT !.head = @ + Len(words), !.data = data]
        /\ rgLog' = [rgLog EXCEPT !.tried = @ + 1, !.lost = 0, !.written = @ \o words]
    BY <1>5 DEF KernelWrite, words
  <2>2. /\ rg.head = Len(written) /\ rg.tail = rgRead.tail /\ rg.tail <= rg.head
        /\ rg.head + Len(words) - rg.tail <= RgSize
    BY <1>2, <1>5 DEF RgSpan
  <2>3. /\ all \in Seq(WordSet) /\ Len(all) = Len(written) + Len(words)
        /\ \A i \in 1 .. Len(written) + Len(words) :
             all[i] = IF i <= Len(written) THEN written[i] ELSE words[i - Len(written)]
    BY <1>1, <1>3, ConcatProperties
  <2>4. Len(words) >= 1
    BY <1>3
  <2>5. Records(all) /\ \A at \in Nat : Starts(at, written) => Starts(at, all)
    BY <1>1, <1>2, <1>3, <2>4, RecordsJoined
  <2>6. ASSUME NEW i \in Slots
        PROVE  \E k \in 0 .. RgSize - 1 : /\ (rg.head + k) % RgSize = i
                                          /\ data[i] = IF k < Len(words) THEN words[k + 1] ELSE rg.data[i]
    <3> DEFINE k == CHOOSE k \in 0 .. RgSize - 1 : (rg.head + k) % RgSize = i
    <3>1. \E m \in 0 .. RgSize - 1 : (rg.head + m) % RgSize = i
      BY <1>1, SlotMet DEF Slots
    <3>2. k \in 0 .. RgSize - 1 /\ (rg.head + k) % RgSize = i
      BY <3>1
    <3>3. data[i] = IF k < Len(words) THEN words[k + 1] ELSE rg.data[i]
      BY <1>1
    <3> HIDE DEF k, data
    <3> QED
      BY <3>2, <3>3
  <2>7. data = [i \in Slots |-> data[i]]
    BY <1>1
  <2> HIDE DEF data, all, written, fits
  <2>8. data \in [Slots -> WordSet \cup {[size |-> 0]}]
    <3>1. ASSUME NEW i \in Slots PROVE data[i] \in WordSet \cup {[size |-> 0]}
      <4>1. PICK k \in 0 .. RgSize - 1 : data[i] = IF k < Len(words) THEN words[k + 1] ELSE rg.data[i]
        BY <2>6
      <4>2. CASE k < Len(words)
        <5>1. k + 1 \in 1 .. Len(words)
          BY <1>3, <4>2
        <5>2. words[k + 1] \in WordSet
          BY <1>3, <5>1, ElementOfSeq
        <5> QED
          BY <4>1, <4>2, <5>2
      <4>3. CASE ~(k < Len(words))
        BY <1>1, <4>1, <4>3
      <4> QED
        BY <4>2, <4>3
    <3> QED
      BY <2>7, <3>1
  <2>9. ASSUME NEW p \in rg.tail .. (rg.head + Len(words)) - 1 PROVE data[p % RgSize] = all[p + 1]
    <3>1. p \in Nat /\ Len(words) \in Nat
      BY <1>1, <1>3
    <3>2. p % RgSize \in Slots
      BY <1>1, <3>1, Divided DEF Slots
    <3>3. PICK k \in 0 .. RgSize - 1 :
            /\ (rg.head + k) % RgSize = p % RgSize
            /\ data[p % RgSize] = IF k < Len(words) THEN words[k + 1] ELSE rg.data[p % RgSize]
      BY <2>6, <3>2
    <3>4. IF p < rg.head THEN ~(k < Len(words)) ELSE k = p - rg.head
      <4> DEFINE h == rg.head
                 t == rg.tail
                 L == Len(words)
      <4>0. /\ RgSize \in Nat \ {0} /\ h \in Nat /\ t \in Nat /\ L \in Nat /\ p \in Nat
            /\ k \in 0 .. RgSize - 1 /\ t <= h /\ h + L - t <= RgSize
            /\ (h + k) % RgSize = p % RgSize /\ p \in t .. (h + L) - 1
        BY <1>1, <2>2, <3>1, <3>3
      <4> HIDE DEF h, t, L
      <4>1. /\ RgSize \in Nat \ {0} /\ h \in Nat /\ t \in Nat /\ L \in Nat /\ p \in Nat /\ k \in Nat
            /\ t <= p /\ p < h + L /\ t <= h /\ (h + L) - t <= RgSize /\ (h + k) % RgSize = p % RgSize
            /\ k \in 0 .. RgSize - 1
        BY ONLY <4>0
      <4>2. ASSUME p < h, k < L PROVE FALSE
        <5>1. h + k \in Nat /\ p < h + k /\ h + k < p + RgSize
          BY ONLY <4>1, <4>2
        <5> QED
          BY ONLY <4>1, <5>1, SlotsApart
      <4>3. ASSUME ~(p < h) PROVE k = p - h
        <5>1. p - h \in 0 .. RgSize - 1 /\ h + (p - h) = p
          BY ONLY <4>1, <4>3
        <5>2. (h + (p - h)) % RgSize = (h + k) % RgSize
          BY <4>1, <5>1
        <5> QED
          BY ONLY <4>1, <5>1, <5>2, SlotOnce
      <4> QED
        BY <4>2, <4>3 DEF h, L
    <3>5. CASE p < rg.head
      <4>1. p \in rg.tail .. rg.head - 1 /\ p + 1 \in 1 .. Len(written) + Len(words) /\ p + 1 <= Len(written)
        BY <1>1, <2>2, <3>1, <3>5
      <4>2. rg.data[p % RgSize] = written[p + 1]
        BY <1>2, <4>1 DEF RgKept, written
      <4>3. all[p + 1] = written[p + 1]
        BY <2>3, <4>1
      <4> QED
        BY <3>3, <3>4, <3>5, <4>2, <4>3
    <3>6. CASE ~(p < rg.head)
      <4>1. /\ p + 1 \in 1 .. Len(written) + Len(words) /\ ~(p + 1 <= Len(written))
            /\ (p + 1) - Len(written) = (p - rg.head) + 1 /\ p - rg.head < Len(words)
        BY <1>1, <2>2, <3>1, <3>6
      <4>2. all[p + 1] = words[(p - rg.head) + 1]
        BY <2>3, <4>1
      <4> QED
        BY <3>3, <3>4, <3>6, <4>1, <4>2
    <3> QED
      BY <3>5, <3>6
  <2>10. /\ rg'.head = rg.head + Len(words) /\ rg'.tail = rg.tail /\ rg'.data = data
         /\ rgLog'.written = all
         /\ rg' \in [data : [Slots -> WordSet \cup {[size |-> 0]}], head : Nat, tail : Nat]
         /\ rgLog' \in [written : Seq(WordSet), tried : Nat, lost : Nat]
    <3>1. rg \in [data : [Slots -> WordSet \cup {[size |-> 0]}], head : Nat, tail : Nat]
          /\ rgLog \in [written : Seq(WordSet), tried : Nat, lost : Nat]
      BY <1>2 DEF RgTyped
    <3>2. rg.head + Len(words) \in Nat /\ rgLog.tried + 1 \in Nat /\ 0 \in Nat
      BY <1>1, <1>3
    <3>3. rgLog' = [rgLog EXCEPT !.tried = @ + 1, !.lost = 0, !.written = all]
      BY <2>1, <3>1 DEF all, written
    <3>4. /\ rg'.head = rg.head + Len(words) /\ rg'.tail = rg.tail /\ rg'.data = data
          /\ rg' \in [data : [Slots -> WordSet \cup {[size |-> 0]}], head : Nat, tail : Nat]
      BY <2>1, <2>8, <3>1, <3>2
    <3>5. rgLog'.written = all /\ rgLog' \in [written : Seq(WordSet), tried : Nat, lost : Nat]
      BY <2>3, <3>1, <3>2, <3>3
    <3> QED
      BY <3>4, <3>5
  <2>11. RgTyped'
    BY <1>2, <2>10 DEF RgTyped
  <2>12. RgKept'
    BY <1>1, <1>3, <2>9, <2>10 DEF RgKept
  <2>13. RgSpan'
    <3>1. ASSUME NEW i \in 1 .. Len(rgRead.out) PROVE rgRead.out[i] = all[i]
      <4>0. rgRead.out[i] = written[i]
        BY <1>2 DEF RgSpan, written
      <4>5. Len(rgRead.out) <= rg.head
        <5>1. CASE rgRead.pc = "copy"
          BY <1>1, <1>2, <5>1 DEF RgSpan
        <5>2. CASE rgRead.pc # "copy"
          BY <1>1, <1>2, <5>2 DEF RgSpan
        <5> QED
          BY <5>1, <5>2
      <4>1. Len(rgRead.out) <= Len(written) /\ rgRead.out[i] = written[i]
        BY <1>1, <2>2, <4>0, <4>5
      <4>2. i \in 1 .. Len(written) + Len(words) /\ i <= Len(written)
        BY <1>1, <1>3, <4>1
      <4>3. all[i] = written[i]
        BY <2>3, <4>2
      <4> QED
        BY <4>1, <4>3
    <3>2. /\ rg'.head = Len(all) /\ rg'.tail = rgRead.tail /\ rg'.tail <= rg'.head
          /\ rg'.head - rg'.tail <= RgSize
      BY <1>1, <1>3, <2>2, <2>3, <2>10
    <3>3. Starts(rgRead.tail, all)
      BY <1>1, <1>2, <2>5 DEF RgSpan, written
    <3>4. rgRead.pc = "copy" =>
            /\ rgRead.tail <= rgRead.at /\ rgRead.at <= rgRead.head /\ rgRead.head <= rg'.head
            /\ Starts(rgRead.at, all) /\ Starts(rgRead.head, all)
      <4>1. rgRead.head <= rg.head => rgRead.head <= rg'.head
        BY <1>1, <1>3, <2>10
      <4> QED
        BY <1>1, <1>2, <2>5, <4>1 DEF RgSpan, written
    <3>5. Len(rgRead.out) = IF rgRead.pc = "copy" THEN rgRead.at ELSE rgRead.tail
      BY <1>2 DEF RgSpan
    <3> QED
      BY <1>2, <2>10, <3>1, <3>2, <3>3, <3>4, <3>5 DEF RgSpan
  <2> QED
    BY <2>5, <2>10, <2>11, <2>12, <2>13 DEF RgInd
<1> QED
  BY <1>4, <1>5

LEMMA BeginStep ==
  ASSUME RgInd, DrainBegin
  PROVE  RgInd'
<1>1. /\ rgRead' = [rgRead EXCEPT !.pc = "copy", !.head = rg.head, !.at = rgRead.tail]
      /\ rg' = rg /\ rgLog' = rgLog /\ rgRead.pc = "poll"
  BY DEF DrainBegin
<1>2. RgTyped /\ RgSpan /\ RgKept /\ Records(rgLog.written)
  BY DEF RgInd
<1>3. /\ DOMAIN rgRead' = ReaderFields /\ rgRead'.pc = "copy" /\ rgRead'.head = rg.head
      /\ rgRead'.at = rgRead.tail /\ rgRead'.tail = rgRead.tail /\ rgRead'.out = rgRead.out
  BY <1>1, <1>2 DEF RgTyped, ReaderFields
<1>4. RgTyped'
  BY <1>1, <1>2, <1>3, RingFacts DEF RgTyped
<1>5. RgSpan'
  <2>1. /\ rgRead.tail <= rgRead.tail /\ rgRead.tail <= rg.head /\ rg.head <= rg.head
        /\ Starts(rg.head, rgLog.written)
    BY <1>2, RingFacts DEF RgSpan, Starts
  <2> QED
    BY <1>1, <1>2, <1>3, <2>1 DEF RgSpan
<1> QED
  BY <1>1, <1>2, <1>4, <1>5 DEF RgInd, RgKept

\* The record at the reader's position is the one that was written there.
LEMMA CopyStep ==
  ASSUME RgInd, DrainCopy
  PROVE  RgInd'
<1> DEFINE written == rgLog.written
           at    == rgRead.at
           size  == written[at + 1].size
           rec   == RgRecord(at)
           out   == rgRead.out \o rec
<1>1. /\ rg.head \in Nat /\ rg.tail \in Nat /\ RgSize \in Nat \ {0}
      /\ written \in Seq(WordSet) /\ Len(written) \in Nat
      /\ rgRead.out \in Seq(WordSet) /\ Len(rgRead.out) \in Nat
      /\ rgRead.head \in Nat /\ at \in Nat /\ rgRead.tail \in Nat
  BY RingFacts
<1>2. /\ rgRead.pc = "copy" /\ at < rgRead.head /\ rg' = rg /\ rgLog' = rgLog
      /\ rgRead' = IF rec = <<>> THEN [rgRead EXCEPT !.at = rgRead.head]
                   ELSE [rgRead EXCEPT !.at = @ + Len(rec), !.out = @ \o rec]
  BY DEF DrainCopy
<1>3. RgTyped /\ RgSpan /\ RgKept /\ Records(written)
  BY DEF RgInd
<1>4. /\ rg.head = Len(written) /\ rg.tail = rgRead.tail /\ rgRead.tail <= at
      /\ rgRead.head <= rg.head /\ Starts(at, written) /\ Starts(rgRead.head, written)
      /\ Len(rgRead.out) = at /\ \A i \in 1 .. Len(rgRead.out) : rgRead.out[i] = written[i]
  BY <1>2, <1>3 DEF RgSpan
<1> HIDE DEF rec, written, at
<1>5. at < Len(written) /\ at \in 0 .. Len(written) - 1 /\ at + 1 \in 1 .. Len(written)
  BY <1>1, <1>2, <1>4
<1>6. size \in Nat
  <2>1. written[at + 1] \in WordSet
    BY <1>1, <1>5, ElementOfSeq
  <2> QED
    BY <2>1 DEF WordSet
<1>7. /\ size >= 1 /\ \A j \in 1 .. size : at + j <= Len(written) /\ written[at + j].k = j
      /\ Starts(at + size, written)
  <2>1. written[at + 1].k = 1
    BY <1>4, <1>5 DEF Starts
  <2> QED
    BY <1>3, <1>5, <2>1 DEF Records
<1> HIDE DEF size
<1>8. at + size <= rgRead.head
  <2> SUFFICES ASSUME rgRead.head < at + size PROVE FALSE
    BY <1>1, <1>6
  <2> DEFINE j == (rgRead.head - at) + 1
  <2>0. /\ at \in Nat /\ size \in Nat /\ rgRead.head \in Nat /\ at < rgRead.head
        /\ rgRead.head < at + size
    BY <1>1, <1>2, <1>6
  <2>1. j \in 1 .. size /\ j # 1 /\ at + j = rgRead.head + 1
    BY ONLY <2>0
  <2> HIDE DEF j
  <2>2. at + j <= Len(written) /\ written[at + j].k = j
    BY <1>7, <2>1
  <2>3. rgRead.head < Len(written) /\ written[rgRead.head + 1].k = j
    BY <1>1, <2>1, <2>2
  <2> QED
    BY <1>4, <2>1, <2>3 DEF Starts
<1>9. ASSUME NEW p \in at .. rgRead.head - 1 PROVE rg.data[p % RgSize] = written[p + 1]
  <2>1. p \in rg.tail .. rg.head - 1
    BY <1>1, <1>4
  <2> QED
    BY <1>3, <2>1 DEF RgKept, written
<1>10. rg.data[at % RgSize].size = size
  <2>1. at \in at .. rgRead.head - 1
    BY <1>1, <1>2
  <2> QED
    BY <1>9, <2>1 DEF size
<1>11. ASSUME NEW k \in 1 .. size
       PROVE  /\ rg.data[((at + k) - 1) % RgSize] = written[at + k]
              /\ written[at + k] \in WordSet /\ at + k \in 1 .. Len(written)
  <2>1. /\ (at + k) - 1 \in at .. rgRead.head - 1 /\ ((at + k) - 1) + 1 = at + k
        /\ at + k \in 1 .. Len(written)
    BY <1>1, <1>4, <1>6, <1>8
  <2>2. written[at + k] \in WordSet
    BY <1>1, <2>1, ElementOfSeq
  <2>3. rg.data[((at + k) - 1) % RgSize] = written[((at + k) - 1) + 1]
    BY <1>9, <2>1
  <2> QED
    BY <2>1, <2>2, <2>3
<1>12. rec = [k \in 1 .. size |-> written[at + k]]
  <2>1. rec = [k \in 1 .. size |-> rg.data[(at + k - 1) % RgSize]]
    BY <1>10 DEF rec, RgRecord
  <2>2. \A k \in 1 .. size : at + k - 1 = (at + k) - 1
    BY <1>1, <1>6
  <2> QED
    BY <1>11, <2>1, <2>2
<1>13. rec \in Seq(WordSet) /\ Len(rec) = size /\ \A k \in 1 .. size : rec[k] = written[at + k]
  <2>1. rec \in [1 .. size -> WordSet]
    BY <1>11, <1>12
  <2>2. rec \in Seq(WordSet) /\ Len(rec) = size
    BY <1>6, <2>1
  <2> QED
    BY <1>12, <2>2
<1> HIDE DEF rec
<1>14. /\ out \in Seq(WordSet) /\ Len(out) = at + size
       /\ \A i \in 1 .. at + size : out[i] = IF i <= at THEN rgRead.out[i] ELSE rec[i - at]
  <2>1. /\ out \in Seq(WordSet) /\ Len(out) = Len(rgRead.out) + Len(rec)
        /\ \A i \in 1 .. Len(rgRead.out) + Len(rec) :
             out[i] = IF i <= Len(rgRead.out) THEN rgRead.out[i] ELSE rec[i - Len(rgRead.out)]
    BY <1>1, <1>13, ConcatProperties
  <2> HIDE DEF out
  <2> QED
    BY <1>4, <1>13, <2>1
<1> HIDE DEF out
<1>15. ASSUME NEW i \in 1 .. at + size PROVE out[i] = written[i]
  <2>1. CASE i <= at
    BY <1>1, <1>4, <1>14, <2>1
  <2>2. CASE ~(i <= at)
    <3>1. i - at \in 1 .. size /\ at + (i - at) = i
      BY <1>1, <1>6, <2>2
    <3>2. rec[i - at] = written[at + (i - at)]
      BY <1>13, <3>1
    <3> QED
      BY <1>14, <2>2, <3>1, <3>2
  <2> QED
    BY <2>1, <2>2
<1>16. rec # <<>>
  BY <1>6, <1>7, <1>13
<1>17. rgRead' = [rgRead EXCEPT !.at = at + size, !.out = out]
  BY <1>2, <1>3, <1>13, <1>16 DEF RgTyped, ReaderFields, out, at
<1>18. /\ DOMAIN rgRead' = ReaderFields /\ rgRead'.pc = "copy" /\ rgRead'.head = rgRead.head
       /\ rgRead'.at = at + size /\ rgRead'.tail = rgRead.tail /\ rgRead'.out = out
  BY <1>2, <1>3, <1>17 DEF RgTyped, ReaderFields
<1>19. RgTyped'
  <2>1. at + size \in Nat
    BY <1>1, <1>6
  <2> QED
    BY <1>1, <1>2, <1>3, <1>14, <1>18, <2>1 DEF RgTyped
<1>20. RgSpan'
  <2>1. rgRead.tail <= at + size
    BY <1>1, <1>4, <1>6
  <2>2. \A i \in 1 .. Len(out) : out[i] = written[i]
    BY <1>14, <1>15
  <2> QED
    BY <1>2, <1>3, <1>4, <1>7, <1>8, <1>14, <1>18, <2>1, <2>2 DEF RgSpan, written
<1> QED
  BY <1>2, <1>3, <1>19, <1>20 DEF RgInd, RgKept, written

\* The tail moves only past what has been copied.
LEMMA PublishStep ==
  ASSUME RgInd, PublishTail
  PROVE  RgInd'
<1>1. /\ rgRead.pc = "copy" /\ rgRead.at >= rgRead.head /\ rgLog' = rgLog
      /\ rg' = [rg EXCEPT !.tail = rgRead.head]
      /\ rgRead' = [rgRead EXCEPT !.pc = "dispatch", !.tail = rgRead.head]
  BY DEF PublishTail
<1>2. RgTyped /\ RgSpan /\ RgKept /\ Records(rgLog.written)
  BY DEF RgInd
<1>3. /\ rg.head \in Nat /\ rg.tail \in Nat /\ rgRead.head \in Nat /\ rgRead.at \in Nat
      /\ rgRead.tail \in Nat /\ RgSize \in Nat
  BY RingFacts
<1>4. /\ DOMAIN rgRead' = ReaderFields /\ rgRead'.pc = "dispatch" /\ rgRead'.head = rgRead.head
      /\ rgRead'.at = rgRead.at /\ rgRead'.tail = rgRead.head /\ rgRead'.out = rgRead.out
  BY <1>1, <1>2 DEF RgTyped, ReaderFields
<1>5. /\ rg'.head = rg.head /\ rg'.tail = rgRead.head /\ rg'.data = rg.data
      /\ rg' \in [data : [Slots -> WordSet \cup {[size |-> 0]}], head : Nat, tail : Nat]
  BY <1>1, <1>2, <1>3 DEF RgTyped
<1>6. /\ rg.tail <= rgRead.head /\ rgRead.head <= rg.head /\ rg.head - rgRead.head <= RgSize
      /\ Starts(rgRead.head, rgLog.written) /\ rgRead.at = rgRead.head
  <2>1. /\ rg.tail <= rgRead.at /\ rgRead.at <= rgRead.head /\ rgRead.head <= rg.head
        /\ Starts(rgRead.head, rgLog.written) /\ rg.head - rg.tail <= RgSize
    BY <1>1, <1>2 DEF RgSpan
  <2> QED
    BY <1>1, <1>3, <2>1
<1>7. RgTyped'
  BY <1>1, <1>2, <1>3, <1>4, <1>5 DEF RgTyped
<1>8. RgSpan'
  BY <1>1, <1>2, <1>4, <1>5, <1>6 DEF RgSpan
<1>9. RgKept'
  <2>1. ASSUME NEW p \in rgRead.head .. rg.head - 1 PROVE p \in rg.tail .. rg.head - 1
    BY <1>3, <1>6
  <2> QED
    BY <1>1, <1>2, <1>5, <2>1 DEF RgKept
<1> QED
  BY <1>1, <1>2, <1>7, <1>8, <1>9 DEF RgInd

LEMMA DispatchStep ==
  ASSUME RgInd, DrainDispatch
  PROVE  RgInd'
<1>1. /\ rgRead' = [rgRead EXCEPT !.pc = "poll", !.seen = Len(rgRead.out),
                       !.counted = @ + RgReported(rgRead.out, rgRead.seen, Len(rgRead.out))]
      /\ rg' = rg /\ rgLog' = rgLog /\ rgRead.pc = "dispatch"
  BY DEF DrainDispatch
<1>2. RgTyped /\ RgSpan /\ RgKept /\ Records(rgLog.written)
  BY DEF RgInd
<1>3. /\ DOMAIN rgRead' = ReaderFields /\ rgRead'.pc = "poll" /\ rgRead'.head = rgRead.head
      /\ rgRead'.at = rgRead.at /\ rgRead'.tail = rgRead.tail /\ rgRead'.out = rgRead.out
  BY <1>1, <1>2 DEF RgTyped, ReaderFields
<1>4. RgTyped'
  BY <1>1, <1>2, <1>3 DEF RgTyped
<1>5. RgSpan'
  BY <1>1, <1>2, <1>3 DEF RgSpan
<1> QED
  BY <1>1, <1>2, <1>4, <1>5 DEF RgInd, RgKept

LEMMA RingStart ==
  PrInit => RgInd
<1> SUFFICES ASSUME PrInit PROVE RgInd
  OBVIOUS
<1>1. /\ rg = [data |-> [i \in Slots |-> [size |-> 0]], head |-> 0, tail |-> 0]
      /\ rgRead = [pc |-> "poll", head |-> 0, at |-> 0, tail |-> 0, out |-> <<>>, seen |-> 0, counted |-> 0]
      /\ rgLog = [written |-> <<>>, tried |-> 0, lost |-> 0]
  BY DEF PrInit, RgInit, Slots
<1>2. /\ rg.head = 0 /\ rg.tail = 0 /\ rgLog.written = <<>>
      /\ rgRead.pc = "poll" /\ rgRead.head = 0 /\ rgRead.at = 0 /\ rgRead.tail = 0 /\ rgRead.out = <<>>
      /\ DOMAIN rgRead = ReaderFields
      /\ rg \in [data : [Slots -> WordSet \cup {[size |-> 0]}], head : Nat, tail : Nat]
      /\ rgLog \in [written : Seq(WordSet), tried : Nat, lost : Nat]
  BY <1>1 DEF ReaderFields
<1>3. Len(<<>>) = 0 /\ <<>> \in Seq(WordSet) /\ RgSize \in Nat
  BY SizesOk
<1>4. RgTyped
  BY <1>2, <1>3 DEF RgTyped
<1>5. RgSpan
  BY <1>2, <1>3 DEF RgSpan, Starts
<1>6. RgKept /\ Records(rgLog.written)
  BY <1>2, <1>3 DEF RgKept, Records
<1> QED
  BY <1>4, <1>5, <1>6 DEF RgInd

LEMMA RingStep ==
  RgInd /\ [PrNext]_prVars => RgInd'
<1> SUFFICES ASSUME RgInd, [PrNext]_prVars PROVE RgInd'
  OBVIOUS
<1>1. CASE RgNext
  BY <1>1, WriteStep, BeginStep, CopyStep, PublishStep, DispatchStep DEF RgNext
<1>2. CASE UNCHANGED rgVars
  BY <1>2 DEF rgVars, RgInd, RgTyped, RgSpan, RgKept
<1>3. CASE UNCHANGED prVars
  <2>1. UNCHANGED rgVars
    BY <1>3 DEF prVars
  <2> QED
    BY <1>2, <2>1
<1> QED
  BY <1>1, <1>2, <1>3 DEF PrNext

LEMMA WordsAsWritten ==
  RgInd => RingWords
<1> SUFFICES ASSUME RgInd PROVE RingWords
  OBVIOUS
<1> DEFINE n == Len(rgRead.out)
<1>1. /\ rgRead.out \in Seq(WordSet) /\ n \in Nat /\ rgLog.written \in Seq(WordSet)
      /\ Len(rgLog.written) \in Nat /\ rg.head \in Nat /\ rgRead.at \in Nat /\ rgRead.tail \in Nat
      /\ rgRead.head \in Nat
  BY RingFacts
<1>2. /\ n = IF rgRead.pc = "copy" THEN rgRead.at ELSE rgRead.tail
      /\ \A i \in 1 .. n : rgRead.out[i] = rgLog.written[i]
  BY DEF RgInd, RgSpan
<1>3. \A i \in 1 .. n : rgLog.written[i] \in WordSet
  BY <1>1, <1>2, ElementOfSeq
<1>4. /\ SubSeq(rgLog.written, 1, n) \in Seq(WordSet)
      /\ Len(SubSeq(rgLog.written, 1, n)) = n
      /\ \A i \in 1 .. n : SubSeq(rgLog.written, 1, n)[i] = rgLog.written[i]
  <2>1. /\ SubSeq(rgLog.written, 1, n) \in Seq(WordSet)
        /\ Len(SubSeq(rgLog.written, 1, n)) = IF 1 <= n THEN n - 1 + 1 ELSE 0
        /\ \A i \in 1 .. n - 1 + 1 : SubSeq(rgLog.written, 1, n)[i] = rgLog.written[1 + i - 1]
    BY <1>1, <1>3, SubSeqProperties
  <2> QED
    BY <1>1, <2>1
<1>5. rgRead.out = SubSeq(rgLog.written, 1, n)
  BY <1>1, <1>2, <1>4, SeqEqual
<1> QED
  BY <1>2, <1>5 DEF RingWords

-----------------------------------------------------------------------------
(* Records that did not fit *)

\* What was tried is written, pending in the kernel's counter or reported by a LOST
\* record, and the session has added up those it was handed.
RgCounts ==
  /\ rgRead.seen \in Nat /\ rgRead.counted \in Nat /\ rgRead.seen <= Len(rgRead.out)
  /\ rgRead.pc = "poll" => rgRead.seen = Len(rgRead.out)
  /\ IsFiniteSet(RgLosses(rgLog.written, 0, Len(rgLog.written)))
  /\ rgRead.counted = RgReported(rgLog.written, 0, rgRead.seen)
  /\ rgLog.tried = Cardinality(RgRecords(rgLog.written)) + rgLog.lost
                     + RgReported(rgLog.written, 0, Len(rgLog.written))

RgAll == RgInd /\ RgCounts

LEMMA DisjointSum ==
  ASSUME NEW S, NEW T, IsFiniteSet(S), IsFiniteSet(T), S \cap T = {}
  PROVE  IsFiniteSet(S \cup T) /\ Cardinality(S \cup T) = Cardinality(S) + Cardinality(T)
<1>1. /\ IsFiniteSet(S \cup T)
      /\ Cardinality(S \cup T) = Cardinality(S) + Cardinality(T) - Cardinality(S \cap T)
  BY FS_Union
<1>2. Cardinality(S) \in Nat /\ Cardinality(T) \in Nat /\ Cardinality(S \cap T) = 0
  BY FS_CardinalityType, FS_EmptySet
<1> QED
  BY <1>1, <1>2

\* The losses up to c are those up to b and those from there on.
LEMMA LossesSplit ==
  ASSUME NEW w, NEW b \in Nat, NEW c \in Nat, b <= c, IsFiniteSet(RgLosses(w, 0, c))
  PROVE  /\ IsFiniteSet(RgLosses(w, 0, b)) /\ IsFiniteSet(RgLosses(w, b, c))
         /\ RgReported(w, 0, b) \in Nat /\ RgReported(w, b, c) \in Nat
         /\ RgReported(w, 0, c) = RgReported(w, 0, b) + RgReported(w, b, c)
<1> DEFINE S == RgLosses(w, 0, b)
           T == RgLosses(w, b, c)
<1>1. RgLosses(w, 0, c) = S \cup T
  <2>1. \A j : j \in 0 + 1 .. c <=> j \in 0 + 1 .. b \/ j \in b + 1 .. c
    OBVIOUS
  <2> QED
    BY <2>1, Zenon DEF RgLosses
<1>2. S \cap T = {}
  <2>1. ASSUME NEW x \in S, x \in T PROVE FALSE
    <3>1. PICK i \in 0 + 1 .. b : x \in {i} \X (1 .. w[i].lost)
      BY DEF RgLosses
    <3>2. PICK j \in b + 1 .. c : x \in {j} \X (1 .. w[j].lost)
      BY <2>1 DEF RgLosses
    <3>3. x[1] = i /\ x[1] = j
      BY <3>1, <3>2
    <3>4. i <= b /\ b + 1 <= j
      OBVIOUS
    <3> QED
      BY <3>3, <3>4
  <2> QED
    BY <2>1
<1> HIDE DEF S, T
<1>3. IsFiniteSet(S) /\ IsFiniteSet(T)
  BY <1>1, FS_Subset
<1>4. Cardinality(S) \in Nat /\ Cardinality(T) \in Nat /\ Cardinality(S \cup T) = Cardinality(S) + Cardinality(T)
  BY <1>2, <1>3, DisjointSum, FS_CardinalityType
<1> QED
  BY <1>1, <1>3, <1>4 DEF RgReported, S, T

\* The losses of a stretch depend on the words of that stretch.
LEMMA LossesSame ==
  ASSUME NEW w, NEW v, NEW b \in Nat, NEW c \in Nat, \A i \in b + 1 .. c : w[i] = v[i]
  PROVE  RgLosses(w, b, c) = RgLosses(v, b, c) /\ RgReported(w, b, c) = RgReported(v, b, c)
<1>1. {j \in b + 1 .. c : w[j].k = 1} = {j \in b + 1 .. c : v[j].k = 1}
  OBVIOUS
<1>2. RgLosses(w, b, c) = RgLosses(v, b, c)
  BY <1>1 DEF RgLosses
<1> QED
  BY <1>2 DEF RgReported

\* Words behind words: the record they bring and the losses they report.
LEMMA CountsGrown ==
  ASSUME NEW w \in Seq(WordSet), NEW t \in Seq(WordSet), NEW h \in 1 .. Len(t), NEW lost \in Nat,
         \A j \in 1 .. Len(t) : t[j].k = 1 /\ t[j].lost = 0 <=> j = h,
         t[1].k = 1, t[1].lost = lost, \A j \in 2 .. Len(t) : t[j].lost = 0
  PROVE  /\ Cardinality(RgRecords(w \o t)) = Cardinality(RgRecords(w)) + 1
         /\ Cardinality(RgRecords(w)) \in Nat
         /\ IsFiniteSet(RgLosses(w \o t, Len(w), Len(w) + Len(t)))
         /\ RgReported(w \o t, Len(w), Len(w) + Len(t)) = lost
<1> DEFINE all == w \o t
           L == Len(w)
           T == Len(t)
<1>1. /\ L \in Nat /\ T \in Nat /\ DOMAIN w = 1 .. L /\ h \in 1 .. T
      /\ DOMAIN all = 1 .. L + T
      /\ \A i \in 1 .. L : all[i] = w[i]
      /\ \A i \in 1 .. T : all[L + i] = t[i]
      /\ \A k \in 1 .. L + T : k \in 1 .. L \/ \E i \in 1 .. T : k = L + i
  BY InJoined, LenProperties
<1> HIDE DEF all, L, T
<1>2. RgRecords(all) = RgRecords(w) \cup {L + h}
  <2>1. ASSUME NEW k \in RgRecords(all) PROVE k \in RgRecords(w) \cup {L + h}
    <3>1. k \in 1 .. L + T /\ all[k].k = 1 /\ all[k].lost = 0
      BY <1>1 DEF RgRecords
    <3>2. CASE k \in 1 .. L
      BY <1>1, <3>1, <3>2 DEF RgRecords
    <3>3. ASSUME NEW i \in 1 .. T, k = L + i PROVE k = L + h
      BY <1>1, <3>1, <3>3 DEF T
    <3> QED
      BY <1>1, <3>1, <3>2, <3>3
  <2>2. ASSUME NEW k \in RgRecords(w) PROVE k \in RgRecords(all)
    <3>1. k \in 1 .. L /\ k \in 1 .. L + T
      BY <1>1 DEF RgRecords
    <3> QED
      BY <1>1, <3>1 DEF RgRecords
  <2>3. L + h \in RgRecords(all)
    <3>1. L + h \in 1 .. L + T /\ all[L + h] = t[h]
      BY <1>1
    <3> QED
      BY <1>1, <3>1 DEF RgRecords
  <2> QED
    BY <2>1, <2>2, <2>3
<1>3. IsFiniteSet(RgRecords(w)) /\ L + h \notin RgRecords(w)
  <2>1. RgRecords(w) \in SUBSET (1 .. L) /\ IsFiniteSet(1 .. L)
    BY <1>1, FS_Interval DEF RgRecords
  <2>2. L + h \notin 1 .. L
    BY <1>1
  <2> QED
    BY <2>1, <2>2, FS_Subset
<1>4. /\ Cardinality(RgRecords(all)) = Cardinality(RgRecords(w)) + 1
      /\ Cardinality(RgRecords(w)) \in Nat
  BY <1>2, <1>3, FS_AddElement, FS_CardinalityType
<1>5. RgLosses(all, L, L + T) = {L + 1} \X (1 .. lost)
  <2>1. all[L + 1] = t[1] /\ L + 1 \in L + 1 .. L + T
    BY <1>1
  <2>2. ASSUME NEW j \in L + 1 .. L + T, j # L + 1 PROVE all[j].lost = 0
    <3>1. PICK i \in 1 .. T : j = L + i
      BY <1>1
    <3>2. i \in 2 .. T
      BY <1>1, <2>2, <3>1
    <3> QED
      BY <1>1, <3>1, <3>2 DEF T
  <2>3. ASSUME NEW x \in RgLosses(all, L, L + T) PROVE x \in {L + 1} \X (1 .. lost)
    <3>1. PICK j \in L + 1 .. L + T : x \in {j} \X (1 .. all[j].lost)
      BY DEF RgLosses
    <3>2. j = L + 1
      <4>1. CASE j # L + 1
        <5>1. 1 .. all[j].lost = {}
          BY <2>2, <4>1
        <5> QED
          BY <3>1, <5>1
      <4> QED
        BY <4>1
    <3> QED
      BY <2>1, <3>1, <3>2
  <2>4. {L + 1} \X (1 .. lost) \subseteq RgLosses(all, L, L + T)
    BY <2>1 DEF RgLosses
  <2> QED
    BY <2>3, <2>4
<1>6. IsFiniteSet({L + 1} \X (1 .. lost)) /\ Cardinality({L + 1} \X (1 .. lost)) = lost
  <2>1. IsFiniteSet({L + 1}) /\ Cardinality({L + 1}) = 1
    BY FS_Singleton
  <2>2. IsFiniteSet(1 .. lost) /\ Cardinality(1 .. lost) = lost
    <3>0. 1 \in Int /\ lost \in Int
      OBVIOUS
    <3>1. /\ IsFiniteSet(1 .. lost)
          /\ Cardinality(1 .. lost) = IF 1 > lost THEN 0 ELSE lost - 1 + 1
      BY ONLY <3>0, FS_Interval, Zenon
    <3> QED
      BY <3>1
  <2>3. /\ IsFiniteSet({L + 1} \X (1 .. lost))
        /\ Cardinality({L + 1} \X (1 .. lost)) = Cardinality({L + 1}) * Cardinality(1 .. lost)
    BY <2>1, <2>2, FS_Product
  <2> QED
    BY <2>1, <2>2, <2>3
<1> QED
  BY <1>4, <1>5, <1>6 DEF RgReported, all, L, T

\* What the kernel writes for a record: behind a LOST record when some are lost.
NewWords(n, size, lost) ==
  IF lost = 0 THEN RgWords(n, size, 0) ELSE RgWords(n, 1, lost) \o RgWords(n + 1, size, 0)

\* They hold one record, and the first word reports the losses.
GoodWords(t, lost) ==
  /\ t \in Seq(WordSet)
  /\ \E h \in 1 .. Len(t) : \A j \in 1 .. Len(t) : t[j].k = 1 /\ t[j].lost = 0 <=> j = h
  /\ t[1].k = 1 /\ t[1].lost = lost
  /\ \A j \in 2 .. Len(t) : t[j].lost = 0

LEMMA WordFields ==
  ASSUME NEW n \in Nat, NEW size \in Nat \ {0}, NEW lost \in Nat
  PROVE  /\ RgWords(n, size, lost) \in Seq(WordSet) /\ Len(RgWords(n, size, lost)) = size
         /\ \A j \in 1 .. size : RgWords(n, size, lost)[j].k = j /\ RgWords(n, size, lost)[j].lost = lost
<1>1. RgWords(n, size, lost) \in Seq(WordSet) /\ Len(RgWords(n, size, lost)) = size
  BY WordsOfRecord
<1>2. \A j \in 1 .. size : RgWords(n, size, lost)[j].k = j /\ RgWords(n, size, lost)[j].lost = lost
  BY DEF RgWords
<1> QED
  BY <1>1, <1>2

LEMMA NewWordsOk ==
  ASSUME NEW n \in Nat, NEW size \in Nat \ {0}, NEW lost \in Nat
  PROVE  GoodWords(NewWords(n, size, lost), lost)
<1> DEFINE t == NewWords(n, size, lost)
<1>1. CASE lost = 0
  <2>0. t = RgWords(n, size, 0)
    BY <1>1 DEF NewWords
  <2>1. /\ t \in Seq(WordSet) /\ Len(t) = size
        /\ \A j \in 1 .. size : t[j].k = j /\ t[j].lost = 0
    BY <2>0, WordFields
  <2> HIDE DEF t
  <2>2. 1 \in 1 .. size /\ \A j \in 2 .. size : j \in 1 .. size
    OBVIOUS
  <2>3. \E h \in 1 .. Len(t) : \A j \in 1 .. Len(t) : t[j].k = 1 /\ t[j].lost = 0 <=> j = h
    BY <2>1, <2>2
  <2> QED
    BY <1>1, <2>1, <2>2, <2>3 DEF t, GoodWords
<1>2. CASE lost # 0
  <2> DEFINE a == RgWords(n, 1, lost)
             b == RgWords(n + 1, size, 0)
  <2>0. t = a \o b
    BY <1>2 DEF NewWords
  <2>1. n + 1 \in Nat /\ 1 \in Nat \ {0} /\ 0 \in Nat
    OBVIOUS
  <2>2. /\ a \in Seq(WordSet) /\ Len(a) = 1
        /\ \A j \in 1 .. 1 : a[j].k = j /\ a[j].lost = lost
    <3>1. \A m \in Nat \ {0} : /\ RgWords(n, m, lost) \in Seq(WordSet) /\ Len(RgWords(n, m, lost)) = m
                               /\ \A j \in 1 .. m : /\ RgWords(n, m, lost)[j].k = j
                                                    /\ RgWords(n, m, lost)[j].lost = lost
      BY WordFields
    <3> QED
      BY <2>1, <3>1
  <2>3. /\ b \in Seq(WordSet) /\ Len(b) = size
        /\ \A j \in 1 .. size : b[j].k = j /\ b[j].lost = 0
    BY <2>1, WordFields
  <2> HIDE DEF a, b, t
  <2>4. /\ a \o b \in Seq(WordSet) /\ Len(a \o b) = Len(a) + Len(b)
        /\ \A i \in 1 .. Len(a) : (a \o b)[i] = a[i]
        /\ \A i \in 1 .. Len(b) : (a \o b)[Len(a) + i] = b[i]
    <3>1. a \in Seq(WordSet) /\ b \in Seq(WordSet)
      BY <2>2, <2>3
    <3> QED
      BY ONLY <3>1, InJoined
  <2>5. /\ t \in Seq(WordSet) /\ Len(t) = 1 + size /\ t[1] = a[1]
        /\ \A i \in 1 .. size : t[1 + i] = b[i]
    BY <2>0, <2>2, <2>3, <2>4
  <2>6. ASSUME NEW j \in 2 .. 1 + size PROVE t[j].lost = 0 /\ t[j].k = j - 1
    <3>1. j - 1 \in 1 .. size /\ 1 + (j - 1) = j
      OBVIOUS
    <3> QED
      BY <2>3, <2>5, <3>1
  <2>7. ASSUME NEW j \in 1 .. 1 + size PROVE t[j].k = 1 /\ t[j].lost = 0 <=> j = 2
    <3>1. CASE j = 1
      BY <1>2, <2>2, <2>5, <3>1
    <3>2. CASE j \in 2 .. 1 + size
      BY <2>6, <3>2
    <3> QED
      BY <3>1, <3>2
  <2>8. 2 \in 1 .. 1 + size
    OBVIOUS
  <2>9. \E h \in 1 .. Len(t) : \A j \in 1 .. Len(t) : t[j].k = 1 /\ t[j].lost = 0 <=> j = h
    <3>1. \A j \in 1 .. Len(t) : t[j].k = 1 /\ t[j].lost = 0 <=> j = 2
      BY <2>5, <2>7, Zenon
    <3>2. 2 \in 1 .. Len(t)
      BY <2>5, <2>8
    <3> WITNESS 2 \in 1 .. Len(t)
    <3> QED
      BY <3>1
  <2>10. t[1].k = 1 /\ t[1].lost = lost
    BY <2>2, <2>5
  <2> QED
    BY <2>5, <2>6, <2>9, <2>10 DEF t, GoodWords
<1> QED
  BY <1>1, <1>2

LEMMA CountsStep ==
  ASSUME RgAll, RgNext, RgInd'
  PROVE  RgCounts'
<1> DEFINE w == rgLog.written
           N == Len(w)
<1>1. /\ w \in Seq(WordSet) /\ N \in Nat /\ rgLog.tried \in Nat /\ rgLog.lost \in Nat
      /\ rgRead.out \in Seq(WordSet) /\ Len(rgRead.out) \in Nat
      /\ DOMAIN rgRead = ReaderFields
      /\ \A i \in 1 .. Len(rgRead.out) : rgRead.out[i] = w[i]
      /\ Len(rgRead.out) <= N
      /\ rgLog \in [written : Seq(WordSet), tried : Nat, lost : Nat]
  <2>1. RgTyped /\ RgSpan /\ RgInd
    BY DEF RgAll, RgInd
  <2>2. /\ rgRead.pc \in {"poll", "copy", "dispatch"} /\ rgRead.at \in Nat /\ rgRead.tail \in Nat
        /\ rgRead.head \in Nat /\ rg.head \in Nat /\ rg.head = N /\ rgRead.tail <= rg.head
        /\ rgRead.pc = "copy" => rgRead.at <= rgRead.head /\ rgRead.head <= rg.head
        /\ Len(rgRead.out) = IF rgRead.pc = "copy" THEN rgRead.at ELSE rgRead.tail
    BY <2>1, RingFacts DEF RgTyped, RgSpan
  <2>3. Len(rgRead.out) <= N
    BY <2>2
  <2> QED
    BY <2>1, <2>3, RingFacts DEF RgTyped, RgSpan
<1>2. /\ rgRead.seen \in Nat /\ rgRead.counted \in Nat /\ rgRead.seen <= Len(rgRead.out)
      /\ rgRead.pc = "poll" => rgRead.seen = Len(rgRead.out)
      /\ IsFiniteSet(RgLosses(w, 0, N)) /\ rgRead.counted = RgReported(w, 0, rgRead.seen)
      /\ rgLog.tried = Cardinality(RgRecords(w)) + rgLog.lost + RgReported(w, 0, N)
  BY DEF RgAll, RgCounts
<1>3. ASSUME NEW size \in RgSizes, KernelWrite(size) PROVE RgCounts'
  <2> DEFINE words == NewWords(N + 1, size, rgLog.lost)
             fits  == rg.head + Len(words) - rg.tail <= RgSize
  <2>1. /\ rgRead' = rgRead
        /\ rgLog' = IF ~fits THEN [rgLog EXCEPT !.tried = @ + 1, !.lost = @ + 1]
                    ELSE [rgLog EXCEPT !.tried = @ + 1, !.lost = 0, !.written = @ \o words]
    BY <1>3 DEF KernelWrite, NewWords
  <2>2. /\ words \in Seq(WordSet)
        /\ \E h \in 1 .. Len(words) :
             \A j \in 1 .. Len(words) : words[j].k = 1 /\ words[j].lost = 0 <=> j = h
        /\ words[1].k = 1 /\ words[1].lost = rgLog.lost
        /\ \A j \in 2 .. Len(words) : words[j].lost = 0
    <3>1. N + 1 \in Nat /\ size \in Nat \ {0} /\ rgLog.lost \in Nat
      BY <1>1, SizesOk
    <3>2. GoodWords(words, rgLog.lost)
      BY ONLY <3>1, NewWordsOk, Zenon DEF words
    <3> HIDE DEF words
    <3> QED
      BY <3>2 DEF GoodWords
  <2> HIDE DEF words
  <2>3. PICK h \in 1 .. Len(words) :
          \A j \in 1 .. Len(words) : words[j].k = 1 /\ words[j].lost = 0 <=> j = h
    BY <2>2
  <2> DEFINE all == w \o words
             M   == N + Len(words)
  <2>4. /\ Cardinality(RgRecords(all)) = Cardinality(RgRecords(w)) + 1
        /\ Cardinality(RgRecords(w)) \in Nat
        /\ IsFiniteSet(RgLosses(all, N, M))
        /\ RgReported(all, N, M) = rgLog.lost
    BY <1>1, <2>2, <2>3, CountsGrown
  <2>5. RgReported(w, 0, N) \in Nat /\ RgReported(w, 0, rgRead.seen) \in Nat
    BY <1>1, <1>2, LossesSplit, FS_CardinalityType DEF RgReported
  <2>6. CASE ~fits
    <3>1. /\ rgLog'.written = w /\ rgLog'.tried = rgLog.tried + 1 /\ rgLog'.lost = rgLog.lost + 1
      BY <1>1, <2>1, <2>6
    <3>2. rgLog.tried + 1 = Cardinality(RgRecords(w)) + (rgLog.lost + 1) + RgReported(w, 0, N)
      BY <1>1, <1>2, <2>4, <2>5
    <3> QED
      BY <1>2, <2>1, <3>1, <3>2 DEF RgCounts
  <2>7. CASE fits
    <3>1. /\ rgLog'.written = all /\ rgLog'.tried = rgLog.tried + 1 /\ rgLog'.lost = 0
      BY <1>1, <2>1, <2>7
    <3>2. /\ all \in Seq(WordSet) /\ Len(all) = M /\ Len(words) \in Nat /\ M \in Nat /\ N <= M
          /\ \A i \in 1 .. N : all[i] = w[i]
      BY <1>1, <2>2, InJoined, LenProperties
    <3> HIDE DEF all
    <3>3. /\ RgLosses(all, 0, N) = RgLosses(w, 0, N) /\ RgReported(all, 0, N) = RgReported(w, 0, N)
          /\ RgReported(all, 0, rgRead.seen) = RgReported(w, 0, rgRead.seen)
      <4>0. \A i \in 0 + 1 .. N : all[i] = w[i]
        BY <1>1, <1>2, <3>2
      <4>1. \A i \in 0 + 1 .. rgRead.seen : all[i] = w[i]
        BY <1>1, <1>2, <3>2
      <4>2. 0 \in Nat
        OBVIOUS
      <4>3. N \in Nat /\ rgRead.seen \in Nat
        BY <1>1, <1>2
      <4> HIDE DEF N
      <4>4. RgLosses(all, 0, N) = RgLosses(w, 0, N) /\ RgReported(all, 0, N) = RgReported(w, 0, N)
        BY ONLY <4>0, <4>2, <4>3, LossesSame
      <4>5. RgReported(all, 0, rgRead.seen) = RgReported(w, 0, rgRead.seen)
        <5> DEFINE k == rgRead.seen
        <5>1. 0 \in Nat /\ k \in Nat /\ \A i \in 0 + 1 .. k : all[i] = w[i]
          BY <4>1, <4>2, <4>3
        <5> HIDE DEF k
        <5>2. RgReported(all, 0, k) = RgReported(w, 0, k)
          BY ONLY <5>1, LossesSame
        <5> QED
          BY <5>2 DEF k
      <4> QED
        BY <4>4, <4>5
    <3>4. /\ IsFiniteSet(RgLosses(all, 0, M))
          /\ RgReported(all, 0, M) = RgReported(w, 0, N) + rgLog.lost
      <4>1. RgLosses(all, 0, M) = RgLosses(all, 0, N) \cup RgLosses(all, N, M)
        <5>1. \A j : j \in 0 + 1 .. M <=> j \in 0 + 1 .. N \/ j \in N + 1 .. M
          BY <1>1, <3>2
        <5> QED
          BY <5>1, Zenon DEF RgLosses
      <4>2. IsFiniteSet(RgLosses(all, 0, M))
        <5>1. IsFiniteSet(RgLosses(all, 0, N)) /\ IsFiniteSet(RgLosses(all, N, M))
          BY <1>2, <2>4, <3>3 DEF all
        <5>2. IsFiniteSet(RgLosses(all, 0, N) \cup RgLosses(all, N, M))
          BY ONLY <5>1, FS_Union, Zenon
        <5> QED
          BY ONLY <4>1, <5>2
      <4>3. RgReported(all, 0, M) = RgReported(all, 0, N) + RgReported(all, N, M)
        BY <1>1, <3>2, <4>2, LossesSplit
      <4> QED
        BY <2>4, <3>3, <4>2, <4>3
    <3>5. rgLog.tried + 1 = Cardinality(RgRecords(all)) + 0 + RgReported(all, 0, M)
      BY <1>1, <1>2, <2>4, <2>5, <3>4 DEF all
    <3> QED
      BY <1>2, <2>1, <3>1, <3>2, <3>3, <3>4, <3>5 DEF RgCounts
  <2> QED
    BY <2>6, <2>7
<1>4. ASSUME DrainBegin \/ PublishTail PROVE RgCounts'
  <2>1. /\ rgLog' = rgLog /\ rgRead'.seen = rgRead.seen /\ rgRead'.counted = rgRead.counted
        /\ rgRead'.out = rgRead.out /\ rgRead'.pc # "poll"
    BY <1>1, <1>4 DEF DrainBegin, PublishTail, ReaderFields
  <2> QED
    BY <1>2, <2>1 DEF RgCounts
<1>5. ASSUME DrainCopy PROVE RgCounts'
  <2>1. /\ rgLog' = rgLog /\ rgRead'.seen = rgRead.seen /\ rgRead'.counted = rgRead.counted
        /\ rgRead'.pc # "poll"
    BY <1>1, <1>5 DEF DrainCopy, ReaderFields
  <2>3. Len(rgRead.out) <= Len(rgRead'.out)
    <3> DEFINE rec == RgRecord(rgRead.at)
    <3>1. CASE rec = <<>>
      BY <1>1, <1>5, <3>1 DEF DrainCopy, ReaderFields
    <3>2. CASE rec # <<>>
      <4>1. rgRead.pc = "copy" /\ rgRead'.pc = "copy" /\ rgRead'.at = rgRead.at + Len(rec)
        BY <1>1, <1>5, <3>2 DEF DrainCopy, ReaderFields
      <4>2. Len(rgRead.out) = rgRead.at /\ Len(rgRead'.out) = rgRead'.at /\ rgRead.at \in Nat
        BY <4>1, RingFacts DEF RgAll, RgInd, RgSpan
      <4>3. Len(rec) \in Nat
        <5>1. rgRead.at % RgSize \in Slots /\ rg.data \in [Slots -> WordSet \cup {[size |-> 0]}]
          BY <4>2, RingFacts, Divided DEF RgAll, Slots
        <5>2. rg.data[rgRead.at % RgSize].size \in Nat
          BY <5>1 DEF WordSet
        <5> QED
          BY <5>2 DEF RgRecord
      <4> QED
        BY <4>1, <4>2, <4>3
    <3> QED
      BY <3>1, <3>2
  <2> QED
    BY <1>1, <1>2, <2>1, <2>3 DEF RgCounts
<1>6. ASSUME DrainDispatch PROVE RgCounts'
  <2> DEFINE n == Len(rgRead.out)
             more == RgReported(rgRead.out, rgRead.seen, n)
  <2>1. /\ rgLog' = rgLog /\ rgRead'.seen = n /\ rgRead'.counted = rgRead.counted + more
        /\ rgRead'.out = rgRead.out
    BY <1>1, <1>6 DEF DrainDispatch, ReaderFields
  <2>2. more = RgReported(w, rgRead.seen, n)
    <3>1. \A i \in rgRead.seen + 1 .. n : rgRead.out[i] = w[i]
      BY <1>1, <1>2
    <3>2. n \in Nat /\ rgRead.seen \in Nat
      BY <1>1, <1>2
    <3> HIDE DEF n
    <3> QED
      BY ONLY <3>1, <3>2, LossesSame, Zenon
  <2>3. IsFiniteSet(RgLosses(w, 0, n))
    BY <1>1, <1>2, LossesSplit
  <2>4. /\ RgReported(w, 0, n) = RgReported(w, 0, rgRead.seen) + RgReported(w, rgRead.seen, n)
        /\ RgReported(w, 0, rgRead.seen) \in Nat /\ RgReported(w, rgRead.seen, n) \in Nat
    BY <1>1, <1>2, <2>3, LossesSplit
  <2>5. n <= n /\ rgRead.counted + more \in Nat /\ rgRead.counted + more = RgReported(w, 0, n)
    BY <1>1, <1>2, <2>2, <2>4
  <2> HIDE DEF more
  <2> QED
    BY <1>1, <1>2, <2>1, <2>5 DEF RgCounts
<1> QED
  BY <1>3, <1>4, <1>5, <1>6 DEF RgNext

\* For every ring size and every record size, the reader gets the words the
\* kernel wrote, each once and in order: no write reuses a slot before
\* PerfRing::drain has copied it, and a record that crosses the end of the ring
\* is put together from its two pieces.  And every record the kernel tried to
\* write is in the ring's words, still in the kernel's own count, in a LOST record
\* not yet drained, or in the lost_records that handle adds up.
THEOREM RingFaithfulThm == PrSpec => []RingFaithful
<1>1. PrInit => RgAll
  <2> SUFFICES ASSUME PrInit PROVE RgAll
    OBVIOUS
  <2>1. RgInd
    BY RingStart
  <2>2. /\ rgRead.seen = 0 /\ rgRead.counted = 0 /\ rgRead.out = <<>>
        /\ rgLog.written = <<>> /\ rgLog.tried = 0 /\ rgLog.lost = 0
    BY DEF PrInit, RgInit
  <2>3. RgLosses(<<>>, 0, 0) = {} /\ RgRecords(<<>>) = {} /\ Len(<<>>) = 0
    BY DEF RgLosses, RgRecords
  <2>4. IsFiniteSet({}) /\ Cardinality({}) = 0
    BY FS_EmptySet
  <2>5. RgCounts
    <3>1. /\ RgLosses(rgLog.written, 0, Len(rgLog.written)) = {}
          /\ RgLosses(rgLog.written, 0, rgRead.seen) = {} /\ RgRecords(rgLog.written) = {}
      BY <2>2, <2>3
    <3>2. /\ RgReported(rgLog.written, 0, Len(rgLog.written)) = 0
          /\ RgReported(rgLog.written, 0, rgRead.seen) = 0
          /\ Cardinality(RgRecords(rgLog.written)) = 0
      BY <2>4, <3>1 DEF RgReported
    <3>3. Len(rgRead.out) = 0
      BY <2>2, <2>3
    <3>4. IsFiniteSet(RgLosses(rgLog.written, 0, Len(rgLog.written)))
      BY <2>4, <3>1
    <3> QED
      BY <2>2, <3>2, <3>3, <3>4 DEF RgCounts
  <2> QED
    BY <2>1, <2>5 DEF RgAll
<1>2. RgAll /\ [PrNext]_prVars => RgAll'
  <2> SUFFICES ASSUME RgAll, [PrNext]_prVars PROVE RgAll'
    OBVIOUS
  <2>1. RgInd'
    BY RingStep DEF RgAll
  <2>2. CASE RgNext
    BY <2>1, <2>2, CountsStep DEF RgAll
  <2>3. CASE UNCHANGED rgVars
    BY <2>1, <2>3 DEF rgVars, RgAll, RgCounts
  <2>4. CASE UNCHANGED prVars
    <3>1. UNCHANGED rgVars
      BY <2>4 DEF prVars
    <3> QED
      BY <2>3, <3>1
  <2> QED
    BY <2>2, <2>3, <2>4 DEF PrNext
<1>3. RgAll => RingFaithful
  <2> SUFFICES ASSUME RgAll PROVE RingFaithful
    OBVIOUS
  <2> DEFINE w == rgLog.written
             N == Len(w)
  <2>1. RgInd /\ RingWords
    BY WordsAsWritten DEF RgAll
  <2> SUFFICES ASSUME rgRead.pc = "poll"
               PROVE  rgLog.tried = Cardinality(RgRecords(w)) + rgLog.lost + rgRead.counted
                                    + RgReported(w, rgRead.tail, N)
    BY <2>1 DEF RingFaithful
  <2>2. /\ N \in Nat /\ rgRead.tail \in Nat /\ rgLog.lost \in Nat /\ rgRead.tail <= N
        /\ rgRead.seen = rgRead.tail
    <3>1. /\ N \in Nat /\ rgRead.tail \in Nat /\ rgLog.lost \in Nat
      BY <2>1, RingFacts
    <3>2. rgRead.tail <= N /\ Len(rgRead.out) = rgRead.tail
      BY <2>1 DEF RgInd, RgSpan
    <3> QED
      BY <3>1, <3>2 DEF RgAll, RgCounts
  <2>3. /\ IsFiniteSet(RgLosses(w, 0, N)) /\ rgRead.counted = RgReported(w, 0, rgRead.tail)
        /\ rgLog.tried = Cardinality(RgRecords(w)) + rgLog.lost + RgReported(w, 0, N)
    BY <2>2 DEF RgAll, RgCounts
  <2>4. /\ RgReported(w, 0, N) = RgReported(w, 0, rgRead.tail) + RgReported(w, rgRead.tail, N)
        /\ RgReported(w, 0, rgRead.tail) \in Nat /\ RgReported(w, rgRead.tail, N) \in Nat
    BY <2>2, <2>3, LossesSplit
  <2>5. Cardinality(RgRecords(w)) \in Nat
    <3>1. RgRecords(w) \in SUBSET (1 .. N) /\ IsFiniteSet(1 .. N)
      <4>1. w \in Seq(WordSet) /\ DOMAIN w = 1 .. N
        BY <2>1, RingFacts, LenProperties
      <4>2. IsFiniteSet(1 .. N)
        <5>1. 1 \in Int /\ N \in Int
          BY <2>2
        <5> QED
          BY ONLY <5>1, FS_Interval, Zenon
      <4> QED
        BY <4>1, <4>2 DEF RgRecords
    <3> QED
      BY <3>1, FS_Subset, FS_CardinalityType
  <2> QED
    BY <2>2, <2>3, <2>4, <2>5
<1> QED
  BY <1>1, <1>2, <1>3, PTL DEF PrSpec

=============================================================================
