------------------------ MODULE KperfDaemonProofs -------------------------
(***************************************************************************)
(* The session slot, the kernel facilities and the batches of staxd, for   *)
(* any callers, queue and channel capacities and any number of batches.    *)
(***************************************************************************)
EXTENDS KperfDaemon, SequenceTheorems, TLAPS

KdPcs == {"idle", "gate", "setup", "ready", "loop", "read", "enqueue", "evict",
          "flush", "teardown", "release", "done"}
BatchRec == [id : Nat, recs : {0, 1}]
KdRec == [pc : KdPcs, step : Nat, queue : Seq(BatchRec), hand : Seq(BatchRec),
          next : Nat, dropped : SUBSET Nat, beats : SUBSET Nat,
          sender : {"off", "wait", "send", "done"}, sending : Seq(BatchRec),
          chan : Seq(BatchRec), got : Seq(BatchRec), lost : SUBSET Nat,
          rx : BOOLEAN, setupFailed : BOOLEAN]

KdTypeOK ==
  /\ slot \in Callers \cup {None}
  /\ hw \in [Facilities -> Callers \cup {None}]
  /\ cancel \in [Callers -> BOOLEAN]
  /\ stop \in Callers \cup {None}
  /\ kd \in [Callers -> KdRec]

\* What the kernel is set to, by where the session of c is.
Holds(c) ==
  LET s == kd[c] IN
  /\ InSession(c) <=> slot = c
  /\ s.setupFailed => s.pc \in {"release", "done"}
  /\ s.pc \in {"idle", "gate"} => s.step = 1 /\ \A f \in Facilities : hw[f] # c
  /\ s.pc = "setup" => /\ s.step \in 1 .. 7
                       /\ \A i \in 1 .. s.step - 1 : hw[SetupSteps[i]] = c
  /\ Draining(c) \/ s.pc = "teardown" => \A f \in Facilities : hw[f] = c
  /\ s.pc \in {"release", "done"} => s.setupFailed \/ \A f \in Facilities : hw[f] # c

KdOwned == \A c \in Callers : Holds(c)

\* Where the drain thread and the sender task are, and what each has in hand.
Phase(s) ==
  /\ s.pc \in {"idle", "gate", "setup", "ready", "done"} => s.sender = "off"
  /\ s.pc \in {"loop", "read", "enqueue", "evict", "flush"} => s.sender # "off"
  /\ s.pc \in {"teardown", "release"} => s.sender \in {"off", "done"}
  /\ s.pc \in {"enqueue", "evict"} => s.hand # <<>> /\ Tail(s.hand) = <<>>
  /\ s.pc \notin {"enqueue", "evict"} => s.hand = <<>>
  /\ s.sender = "send" => s.sending # <<>> /\ Tail(s.sending) = <<>>
  /\ s.sender # "send" => s.sending = <<>>

Below(A, B) == \A a \in A, b \in B : a < b
Rising(bs) == \A i, j \in DOMAIN bs : i < j => bs[i].id < bs[j].id

\* The batches on their way to the client rise from its end to the drain
\* thread's, and those given up are none of them.
OnTheWay(s) == Ids(s.got) \cup Ids(s.chan) \cup Ids(s.sending) \cup Ids(s.queue) \cup Ids(s.hand)

RisingLine(s) ==
  /\ Rising(s.got) /\ Rising(s.chan) /\ Rising(s.queue)
  /\ Below(Ids(s.got), Ids(s.chan))
  /\ Below(Ids(s.got) \cup Ids(s.chan), Ids(s.sending))
  /\ Below(Ids(s.got) \cup Ids(s.chan) \cup Ids(s.sending), Ids(s.queue))
  /\ Below(Ids(s.got) \cup Ids(s.chan) \cup Ids(s.sending) \cup Ids(s.queue), Ids(s.hand))

GivenUp(s) ==
  /\ s.dropped \cap s.beats = {} /\ s.dropped \cap s.lost = {} /\ s.beats \cap s.lost = {}
  /\ OnTheWay(s) \cap (s.dropped \cup s.beats \cup s.lost) = {}

Taken(s) ==
  OnTheWay(s) \cup s.dropped \cup s.beats \cup s.lost
    = IF s.sender = "off" THEN {} ELSE 1 .. s.next - 1

Excused(s, cancelled) ==
  /\ s.lost # {} => cancelled \/ s.pc \in {"flush", "teardown", "release", "done"}
  /\ s.sender # "off" => s.next > 0

Flow(s, cancelled) ==
  Phase(s) /\ RisingLine(s) /\ GivenUp(s) /\ Taken(s) /\ Excused(s, cancelled)

KdFlow == \A c \in Callers : Flow(kd[c], cancel[c])

KdInd == KdTypeOK /\ KdOwned /\ KdFlow

\* What a step leaves alone of one session.
SameBatches(s, t) ==
  /\ t.queue = s.queue /\ t.hand = s.hand /\ t.sending = s.sending /\ t.chan = s.chan
  /\ t.got = s.got /\ t.dropped = s.dropped /\ t.beats = s.beats /\ t.lost = s.lost
  /\ t.next = s.next /\ t.sender = s.sender

SameBut(c, pc) ==
  /\ kd'[c].pc = pc /\ kd'[c].step = kd[c].step /\ kd'[c].setupFailed = kd[c].setupFailed
  /\ SameBatches(kd[c], kd'[c])

-----------------------------------------------------------------------------
(* Sequences of batches *)

\* What a send and a receive do to the ids on a queue, and to their order.
LEMMA NoIds == Ids(<<>>) = {} /\ Rising(<<>>)
<1>1. DOMAIN <<>> = {}
  OBVIOUS
<1> QED
  BY <1>1 DEF Ids, ToSet, Rising

\* The ids of a queue are numbers, at its positions.
LEMMA IdsAt ==
  ASSUME NEW bs \in Seq(BatchRec)
  PROVE  /\ Len(bs) \in Nat /\ DOMAIN bs = 1 .. Len(bs)
         /\ \A i \in DOMAIN bs : bs[i] \in BatchRec /\ bs[i].id \in Nat
         /\ Ids(bs) = {bs[i].id : i \in DOMAIN bs} /\ Ids(bs) \in SUBSET Nat
<1>1. Len(bs) \in Nat /\ DOMAIN bs = 1 .. Len(bs) /\ bs \in [1 .. Len(bs) -> BatchRec]
  BY LenProperties
<1>2. ASSUME NEW i \in DOMAIN bs PROVE bs[i] \in BatchRec /\ bs[i].id \in Nat
  BY <1>1 DEF BatchRec
<1>3. Ids(bs) = {bs[i].id : i \in DOMAIN bs}
  BY DEF Ids, ToSet
<1> QED
  BY <1>1, <1>2, <1>3

LEMMA OneId ==
  ASSUME NEW b \in BatchRec
  PROVE  /\ <<b>> \in Seq(BatchRec) /\ <<b>> # <<>> /\ Head(<<b>>) = b /\ Tail(<<b>>) = <<>>
         /\ Ids(<<b>>) = {b.id} /\ Rising(<<b>>)
<1>1. /\ <<b>> \in Seq(BatchRec) /\ <<b>> # <<>> /\ Head(<<b>>) = b /\ Tail(<<b>>) = <<>>
      /\ DOMAIN <<b>> = {1} /\ <<b>>[1] = b
  OBVIOUS
<1> QED
  BY <1>1 DEF Ids, ToSet, Rising

LEMMA SentIds ==
  ASSUME NEW bs \in Seq(BatchRec), NEW b \in BatchRec
  PROVE  /\ Append(bs, b) \in Seq(BatchRec)
         /\ Ids(Append(bs, b)) = Ids(bs) \cup {b.id}
         /\ Rising(bs) /\ Below(Ids(bs), {b.id}) => Rising(Append(bs, b))
<1>1. /\ Append(bs, b) \in Seq(BatchRec) /\ Len(Append(bs, b)) = Len(bs) + 1
      /\ \A i \in 1 .. Len(bs) : Append(bs, b)[i] = bs[i]
      /\ Append(bs, b)[Len(bs) + 1] = b
  BY AppendProperties
<1>2. /\ Len(bs) \in Nat /\ DOMAIN bs = 1 .. Len(bs) /\ DOMAIN Append(bs, b) = 1 .. Len(bs) + 1
      /\ Ids(bs) = {bs[i].id : i \in 1 .. Len(bs)}
      /\ Ids(Append(bs, b)) = {Append(bs, b)[i].id : i \in 1 .. Len(bs) + 1}
  BY <1>1, IdsAt
<1>3. ASSUME NEW x \in Ids(Append(bs, b)) PROVE x \in Ids(bs) \cup {b.id}
  <2>1. PICK i \in 1 .. Len(bs) + 1 : x = Append(bs, b)[i].id
    BY <1>2, <1>3
  <2>2. CASE i = Len(bs) + 1
    BY <1>1, <2>1, <2>2
  <2>3. CASE i \in 1 .. Len(bs)
    BY <1>1, <1>2, <2>1, <2>3
  <2> QED
    BY <1>2, <2>1, <2>2, <2>3
<1>4. ASSUME NEW x \in Ids(bs) \cup {b.id} PROVE x \in Ids(Append(bs, b))
  <2>1. CASE x = b.id
    BY <1>1, <1>2, <2>1
  <2>2. CASE x \in Ids(bs)
    <3>1. PICK i \in 1 .. Len(bs) : x = bs[i].id
      BY <1>2, <2>2
    <3>2. i \in 1 .. Len(bs) + 1 /\ x = Append(bs, b)[i].id
      BY <1>1, <1>2, <3>1
    <3> QED
      BY <1>2, <3>2
  <2> QED
    BY <1>4, <2>1, <2>2
<1>5. ASSUME Rising(bs), Below(Ids(bs), {b.id}) PROVE Rising(Append(bs, b))
  <2> SUFFICES ASSUME NEW i \in 1 .. Len(bs) + 1, NEW j \in 1 .. Len(bs) + 1, i < j
               PROVE  Append(bs, b)[i].id < Append(bs, b)[j].id
    BY <1>2 DEF Rising
  <2>1. i \in 1 .. Len(bs) /\ Append(bs, b)[i] = bs[i] /\ bs[i].id \in Ids(bs)
    BY <1>1, <1>2
  <2>2. CASE j = Len(bs) + 1
    BY <1>1, <1>5, <2>1, <2>2 DEF Below
  <2>3. CASE j \in 1 .. Len(bs)
    BY <1>1, <1>2, <1>5, <2>1, <2>3 DEF Rising
  <2> QED
    BY <1>2, <2>2, <2>3
<1> QED
  BY <1>1, <1>3, <1>4, <1>5

LEMMA TakenIds ==
  ASSUME NEW bs \in Seq(BatchRec), bs # <<>>
  PROVE  /\ Head(bs) \in BatchRec /\ Head(bs).id \in Nat /\ Tail(bs) \in Seq(BatchRec)
         /\ Ids(bs) = {Head(bs).id} \cup Ids(Tail(bs))
         /\ Rising(bs) => Rising(Tail(bs)) /\ Below({Head(bs).id}, Ids(Tail(bs)))
<1>1. /\ Head(bs) \in BatchRec /\ Tail(bs) \in Seq(BatchRec) /\ Len(Tail(bs)) = Len(bs) - 1
      /\ \A i \in 1 .. Len(Tail(bs)) : Tail(bs)[i] = bs[i + 1]
  BY HeadTailProperties
<1>2. /\ Len(bs) \in Nat \ {0} /\ DOMAIN bs = 1 .. Len(bs) /\ DOMAIN Tail(bs) = 1 .. Len(bs) - 1
      /\ Ids(bs) = {bs[i].id : i \in 1 .. Len(bs)} /\ Head(bs) = bs[1]
      /\ Ids(Tail(bs)) = {Tail(bs)[i].id : i \in 1 .. Len(bs) - 1}
  <2>1. Len(bs) \in Nat \ {0} /\ Head(bs) = bs[1]
    BY EmptySeq
  <2>2. DOMAIN bs = 1 .. Len(bs) /\ Ids(bs) = {bs[i].id : i \in DOMAIN bs}
    BY IdsAt
  <2>3. DOMAIN Tail(bs) = 1 .. Len(bs) - 1 /\ Ids(Tail(bs)) = {Tail(bs)[i].id : i \in DOMAIN Tail(bs)}
    BY <1>1, IdsAt
  <2> QED
    BY <2>1, <2>2, <2>3
<1>3. ASSUME NEW i \in 1 .. Len(bs) - 1
      PROVE  i + 1 \in 1 .. Len(bs) /\ 1 < i + 1 /\ Tail(bs)[i] = bs[i + 1]
  BY <1>1, <1>2
<1>4. ASSUME NEW x \in Ids(bs) PROVE x \in {Head(bs).id} \cup Ids(Tail(bs))
  <2>1. PICK i \in 1 .. Len(bs) : x = bs[i].id
    BY <1>2, <1>4
  <2>2. CASE i = 1
    BY <1>2, <2>1, <2>2
  <2>3. CASE i > 1
    <3>1. i - 1 \in 1 .. Len(bs) - 1 /\ (i - 1) + 1 = i
      BY <1>2, <2>1, <2>3
    <3>2. x = Tail(bs)[i - 1].id
      BY <1>3, <2>1, <3>1
    <3> QED
      BY <1>2, <3>1, <3>2
  <2> QED
    BY <2>1, <2>2, <2>3
<1>5. ASSUME NEW x \in {Head(bs).id} \cup Ids(Tail(bs)) PROVE x \in Ids(bs)
  <2>1. CASE x = Head(bs).id
    <3>1. 1 \in 1 .. Len(bs) /\ x = bs[1].id
      BY <1>2, <2>1
    <3> QED
      BY <1>2, <3>1
  <2>2. CASE x \in Ids(Tail(bs))
    <3>1. PICK i \in 1 .. Len(bs) - 1 : x = Tail(bs)[i].id
      BY <1>2, <2>2
    <3> QED
      BY <1>2, <1>3, <3>1
  <2> QED
    BY <1>5, <2>1, <2>2
<1>6. ASSUME Rising(bs) PROVE Rising(Tail(bs))
  BY <1>2, <1>3, <1>6 DEF Rising
<1>7. ASSUME Rising(bs) PROVE Below({Head(bs).id}, Ids(Tail(bs)))
  <2> SUFFICES ASSUME NEW x \in Ids(Tail(bs)) PROVE Head(bs).id < x
    BY DEF Below
  <2>1. PICK i \in 1 .. Len(bs) - 1 : x = Tail(bs)[i].id
    BY <1>2
  <2>2. 1 \in 1 .. Len(bs)
    BY <1>2
  <2> QED
    BY <1>2, <1>3, <1>7, <2>1, <2>2 DEF Rising
<1>8. Head(bs).id \in Nat
  BY <1>1 DEF BatchRec
<1> QED
  BY <1>1, <1>4, <1>5, <1>6, <1>7, <1>8

\* A line of two queues.
LEMMA JoinedIds ==
  ASSUME NEW s \in Seq(BatchRec), NEW t \in Seq(BatchRec), Rising(s), Rising(t),
         Below(Ids(s), Ids(t))
  PROVE  s \o t \in Seq(BatchRec) /\ Rising(s \o t) /\ Ids(s \o t) = Ids(s) \cup Ids(t)
<1>1. /\ s \o t \in Seq(BatchRec) /\ Len(s \o t) = Len(s) + Len(t)
      /\ \A i \in 1 .. Len(s) + Len(t) : (s \o t)[i] = IF i <= Len(s) THEN s[i] ELSE t[i - Len(s)]
  BY ConcatProperties
<1>2. /\ DOMAIN s = 1 .. Len(s) /\ DOMAIN t = 1 .. Len(t) /\ DOMAIN (s \o t) = 1 .. Len(s) + Len(t)
      /\ Len(s) \in Nat /\ Len(t) \in Nat
      /\ Ids(s) = {s[i].id : i \in 1 .. Len(s)} /\ Ids(t) = {t[i].id : i \in 1 .. Len(t)}
      /\ Ids(s \o t) = {(s \o t)[i].id : i \in 1 .. Len(s) + Len(t)}
  BY <1>1, IdsAt
<1>3. ASSUME NEW i \in 1 .. Len(s) + Len(t), i <= Len(s)
      PROVE  i \in 1 .. Len(s) /\ (s \o t)[i] = s[i] /\ s[i].id \in Ids(s)
  BY <1>1, <1>2, <1>3
<1>4. ASSUME NEW i \in 1 .. Len(s) + Len(t), Len(s) < i
      PROVE  i - Len(s) \in 1 .. Len(t) /\ (s \o t)[i] = t[i - Len(s)] /\ t[i - Len(s)].id \in Ids(t)
  BY <1>1, <1>2, <1>4
<1>5. ASSUME NEW i \in 1 .. Len(s) + Len(t), NEW j \in 1 .. Len(s) + Len(t), i < j
      PROVE  (s \o t)[i].id < (s \o t)[j].id
  <2>1. CASE j <= Len(s)
    <3>1. i <= Len(s)
      BY <1>2, <1>5, <2>1
    <3> QED
      BY <1>2, <1>3, <1>5, <2>1, <3>1 DEF Rising
  <2>2. CASE i <= Len(s) /\ Len(s) < j
    BY <1>3, <1>4, <2>2 DEF Below
  <2>3. CASE Len(s) < i
    <3>1. Len(s) < j /\ i - Len(s) < j - Len(s)
      BY <1>2, <1>5, <2>3
    <3> QED
      BY <1>2, <1>4, <2>3, <3>1 DEF Rising
  <2> QED
    BY <1>2, <2>1, <2>2, <2>3
<1>6. ASSUME NEW x \in Ids(s \o t) PROVE x \in Ids(s) \cup Ids(t)
  <2>1. PICK i \in 1 .. Len(s) + Len(t) : x = (s \o t)[i].id
    BY <1>2, <1>6
  <2> QED
    BY <1>2, <1>3, <1>4, <2>1
<1>7. ASSUME NEW x \in Ids(s) PROVE x \in Ids(s \o t)
  <2>1. PICK i \in 1 .. Len(s) : x = s[i].id
    BY <1>2, <1>7
  <2>2. i \in 1 .. Len(s) + Len(t) /\ i <= Len(s)
    BY <1>2, <2>1
  <2> QED
    BY <1>2, <1>3, <2>1, <2>2
<1>8. ASSUME NEW x \in Ids(t) PROVE x \in Ids(s \o t)
  <2>1. PICK i \in 1 .. Len(t) : x = t[i].id
    BY <1>2, <1>8
  <2>2. i + Len(s) \in 1 .. Len(s) + Len(t) /\ Len(s) < i + Len(s) /\ (i + Len(s)) - Len(s) = i
    BY <1>2, <2>1
  <2> QED
    BY <1>2, <1>4, <2>1, <2>2
<1> QED
  BY <1>1, <1>2, <1>5, <1>6, <1>7, <1>8 DEF Rising

-----------------------------------------------------------------------------
(* One session moves at a time *)

LEMMA SessionTo ==
  ASSUME KdTypeOK, NEW c \in Callers, NEW s2 \in KdRec, kd' = [kd EXCEPT ![c] = s2]
  PROVE  /\ kd' \in [Callers -> KdRec] /\ kd'[c] = s2
         /\ \A d \in Callers \ {c} : kd'[d] = kd[d]
  BY DEF KdTypeOK

\* A step that leaves the slot and the kernel alone keeps what is held, if the
\* session stays where it is or goes on draining.
LEMMA OwnedKept ==
  ASSUME KdInd, NEW c \in Callers, UNCHANGED <<slot, hw>>,
         \A d \in Callers \ {c} : kd'[d] = kd[d],
         kd'[c].step = kd[c].step, kd'[c].setupFailed = kd[c].setupFailed,
         \/ kd'[c].pc = kd[c].pc
         \/ /\ Draining(c)
            /\ kd'[c].pc \in {"loop", "read", "enqueue", "evict", "flush", "teardown"}
  PROVE  KdOwned'
<1> SUFFICES ASSUME NEW d \in Callers PROVE Holds(d)'
  BY DEF KdOwned
<1>1. Holds(c) /\ Holds(d)
  BY DEF KdInd, KdOwned
<1>2. CASE d # c
  <2>1. kd'[d] = kd[d]
    BY <1>2
  <2> QED
    BY <1>1, <2>1 DEF Holds, InSession, Draining
<1>3. CASE d = c /\ kd'[c].pc = kd[c].pc
  BY <1>1, <1>3 DEF Holds, InSession, Draining
<1>4. CASE d = c /\ Draining(c) /\ kd'[c].pc \in {"loop", "read", "enqueue", "evict", "flush", "teardown"}
  BY <1>1, <1>4 DEF Holds, InSession, Draining
<1> QED
  BY <1>2, <1>3, <1>4

\* The flow of one session is its own: no other step disturbs it, and a
\* cancel flag is never taken back.
LEMMA FlowKept ==
  ASSUME KdInd, NEW c \in Callers, Flow(kd'[c], cancel'[c]),
         \A d \in Callers \ {c} : kd'[d] = kd[d],
         \A d \in Callers : cancel[d] => cancel'[d]
  PROVE  KdFlow'
<1> SUFFICES ASSUME NEW d \in Callers PROVE Flow(kd'[d], cancel'[d])
  BY DEF KdFlow
<1>1. CASE d = c
  BY <1>1
<1>2. CASE d # c
  <2>1. Flow(kd[d], cancel[d]) /\ kd'[d] = kd[d] /\ (cancel[d] => cancel'[d])
    BY <1>2 DEF KdInd, KdFlow
  <2> QED
    BY <2>1 DEF Flow, Excused
<1> QED
  BY <1>1, <1>2

\* A step that moves no batch.
LEMMA FlowSame ==
  ASSUME NEW s \in KdRec, NEW t \in KdRec, NEW cn, Flow(s, cn), Phase(t), Excused(t, cn),
         SameBatches(s, t)
  PROVE  Flow(t, cn)
  BY DEF Flow, RisingLine, GivenUp, Taken, OnTheWay, SameBatches

\* Goto: only the place changes.
LEMMA Went ==
  ASSUME KdInd, NEW c \in Callers, NEW pc \in KdPcs, Goto(c, pc)
  PROVE  /\ kd'[c] = [kd[c] EXCEPT !.pc = pc] /\ kd'[c] \in KdRec /\ SameBut(c, pc)
         /\ kd' \in [Callers -> KdRec] /\ \A d \in Callers \ {c} : kd'[d] = kd[d]
<1>1. kd[c] \in KdRec /\ KdTypeOK
  BY DEF KdInd, KdTypeOK
<1>2. [kd[c] EXCEPT !.pc = pc] \in KdRec
  BY <1>1 DEF KdRec
<1>3. kd' = [kd EXCEPT ![c] = [kd[c] EXCEPT !.pc = pc]]
  BY DEF Goto
<1>4. /\ kd'[c] = [kd[c] EXCEPT !.pc = pc]
      /\ kd' \in [Callers -> KdRec] /\ \A d \in Callers \ {c} : kd'[d] = kd[d]
  BY ONLY c \in Callers, <1>1, <1>2, <1>3, SessionTo
<1>5. SameBut(c, pc)
  BY <1>1, <1>4 DEF KdRec, SameBut, SameBatches
<1> QED
  BY <1>2, <1>4, <1>5

LEMMA WentFlow ==
  ASSUME KdInd, NEW c \in Callers, NEW pc \in KdPcs, Goto(c, pc), UNCHANGED cancel,
         Phase(kd'[c]), Excused(kd'[c], cancel[c])
  PROVE  KdFlow'
<1>1. kd[c] \in KdRec /\ kd'[c] \in KdRec /\ Flow(kd[c], cancel[c])
  BY Went DEF KdInd, KdTypeOK, KdFlow
<1>2. SameBatches(kd[c], kd'[c]) /\ \A d \in Callers \ {c} : kd'[d] = kd[d]
  BY Went DEF SameBut
<1>3. Flow(kd'[c], cancel[c])
  BY ONLY <1>1, <1>2, Phase(kd'[c]), Excused(kd'[c], cancel[c]), FlowSame
<1> QED
  BY <1>2, <1>3, FlowKept

\* The facilities are those of the set-up, one per step.
LEMMA FacilityOfStep ==
  /\ \A i \in 1 .. 7 : SetupSteps[i] \in Facilities
  /\ \A f \in Facilities : \E i \in 1 .. 7 : f = SetupSteps[i]
  /\ Len(SetupSteps) = 7
<1>1. DOMAIN SetupSteps = 1 .. 7 /\ Len(SetupSteps) = 7
  BY DEF SetupSteps
<1> QED
  BY <1>1 DEF Facilities, ToSet

-----------------------------------------------------------------------------
(* The invariant *)

LEMMA KdStart == KdInit => KdInd
<1> SUFFICES ASSUME KdInit PROVE KdInd
  OBVIOUS
<1>1. NoSession \in KdRec
  BY EmptySeq DEF NoSession, KdRec, KdPcs
<1>2. KdTypeOK
  BY <1>1 DEF KdInit, KdTypeOK
<1>3. ASSUME NEW c \in Callers PROVE Holds(c)
  BY <1>3, KdAssumption DEF KdInit, NoSession, Holds, InSession, Draining
<1>4. Flow(NoSession, FALSE)
  BY NoIds DEF Flow, NoSession, Phase, RisingLine, GivenUp, Taken, OnTheWay, Excused, Below
<1>5. KdFlow
  BY <1>4 DEF KdInit, KdFlow
<1> QED
  BY <1>2, <1>3, <1>5 DEF KdInd, KdOwned

\* The slot is claimed by one, or the caller refused.
LEMMA RecordKeeps ==
  ASSUME KdInd, NEW c \in Callers, Record(c)
  PROVE  KdInd'
<1>1. kd[c] \in KdRec /\ kd[c].pc = "idle" /\ Holds(c) /\ Flow(kd[c], cancel[c])
  BY DEF KdInd, KdTypeOK, KdOwned, KdFlow, Record, At
<1>2. PICK pc \in {"gate", "done"} : /\ Goto(c, pc)
                                     /\ pc = "gate" => slot = None /\ slot' = c
                                     /\ pc = "done" => slot # None /\ slot' = slot
  BY DEF Record, SlotFree
<1>3. pc \in KdPcs
  BY DEF KdPcs
<1>4. /\ SameBut(c, pc) /\ kd' \in [Callers -> KdRec]
      /\ \A d \in Callers \ {c} : kd'[d] = kd[d]
  BY <1>2, <1>3, Went
<1>5. KdTypeOK'
  BY <1>2, <1>4 DEF KdInd, KdTypeOK, Record
<1>6. ASSUME NEW d \in Callers PROVE Holds(d)'
  <2>1. CASE d = c
    BY <1>1, <1>2, <1>4, <2>1, KdAssumption DEF Record, Holds, InSession, Draining, SameBut
  <2>2. CASE d # c
    <3>1. kd'[d] = kd[d] /\ Holds(d) /\ slot # c
      BY <1>1, <1>4, <2>2 DEF KdInd, KdOwned, Holds, InSession
    <3> QED
      BY <1>2, <2>2, <3>1, KdAssumption DEF Record, Holds, InSession, Draining
  <2> QED
    BY <2>1, <2>2
<1>7. KdFlow'
  <2>1. kd[c].lost = {}
    BY <1>1 DEF Flow, Phase, Taken
  <2>2. Phase(kd'[c]) /\ Excused(kd'[c], cancel[c])
    BY <1>1, <1>4, <2>1 DEF Flow, Phase, Excused, SameBut, SameBatches
  <2> QED
    BY ONLY KdInd, c \in Callers, Record(c), <1>2, <1>3, <2>2, WentFlow DEF Record
<1> QED
  BY <1>5, <1>6, <1>7 DEF KdInd, KdOwned

\* The stale state of earlier sessions is wiped, or the session ends at once.
LEMMA GateKeeps ==
  ASSUME KdInd, NEW c \in Callers, Gate(c)
  PROVE  KdInd'
<1>1. kd[c] \in KdRec /\ kd[c].pc = "gate" /\ Holds(c) /\ Flow(kd[c], cancel[c])
  BY DEF KdInd, KdTypeOK, KdOwned, KdFlow, Gate, At
<1>2. PICK pc \in {"release", "setup"} : Goto(c, pc)
  BY DEF Gate
<1>3. pc \in KdPcs
  BY DEF KdPcs
<1>4. /\ SameBut(c, pc) /\ kd' \in [Callers -> KdRec]
      /\ \A d \in Callers \ {c} : kd'[d] = kd[d]
  BY <1>2, <1>3, Went
<1>5. hw' \in [Facilities -> Callers \cup {None}] /\ \A f \in Facilities : hw'[f] \in {hw[f], None}
  BY DEF Gate, KdInd, KdTypeOK
<1>6. KdTypeOK'
  BY <1>4, <1>5 DEF KdInd, KdTypeOK, Gate
<1>7. ASSUME NEW d \in Callers PROVE Holds(d)'
  <2>1. CASE d = c
    BY <1>1, <1>2, <1>4, <1>5, <2>1, KdAssumption DEF Gate, Holds, InSession, Draining, SameBut
  <2>2. CASE d # c
    <3>1. kd'[d] = kd[d] /\ Holds(d) /\ ~InSession(d) /\ UNCHANGED slot
      BY <1>1, <1>4, <2>2 DEF Gate, KdInd, KdOwned, Holds, InSession
    <3> QED
      BY <1>5, <3>1, KdAssumption DEF Holds, InSession, Draining
  <2> QED
    BY <2>1, <2>2
<1>8. KdFlow'
  <2>1. kd[c].lost = {}
    BY <1>1 DEF Flow, Phase, Taken
  <2>2. Phase(kd'[c]) /\ Excused(kd'[c], cancel[c])
    BY <1>1, <1>4, <2>1 DEF Flow, Phase, Excused, SameBut, SameBatches
  <2> QED
    BY ONLY KdInd, c \in Callers, Gate(c), <1>2, <1>3, <2>2, WentFlow DEF Gate
<1> QED
  BY <1>6, <1>7, <1>8 DEF KdInd, KdOwned

\* One more facility is the session's, or the set-up has failed.
LEMMA SetupKeeps ==
  ASSUME KdInd, NEW c \in Callers, Setup(c)
  PROVE  KdInd'
<1>1. kd[c] \in KdRec /\ kd[c].pc = "setup" /\ Holds(c) /\ Flow(kd[c], cancel[c]) /\ KdTypeOK
  BY DEF KdInd, KdTypeOK, KdOwned, KdFlow, Setup, At
<1>2. kd[c].step \in 1 .. 7
  BY <1>1 DEF Holds
<1>3. UNCHANGED <<slot, cancel, stop>>
  BY DEF Setup
<1> DEFINE t == kd'[c]
<1>4. /\ t \in KdRec /\ SameBatches(kd[c], t) /\ kd' \in [Callers -> KdRec]
      /\ \A d \in Callers \ {c} : kd'[d] = kd[d]
      /\ hw' \in [Facilities -> Callers \cup {None}]
      /\ \/ /\ t.step = kd[c].step + 1 /\ t.setupFailed = kd[c].setupFailed
            /\ t.pc = IF kd[c].step = 7 THEN "ready" ELSE "setup"
            /\ hw' = [hw EXCEPT ![SetupSteps[kd[c].step]] = c]
         \/ t.pc = "release" /\ t.setupFailed = TRUE /\ UNCHANGED hw
  <2>1. CASE /\ hw' = [hw EXCEPT ![SetupSteps[kd[c].step]] = c]
             /\ kd' = [kd EXCEPT ![c].step = @ + 1,
                                 ![c].pc = IF kd[c].step = Len(SetupSteps) THEN "ready" ELSE "setup"]
    <3> DEFINE pc == IF kd[c].step = 7 THEN "ready" ELSE "setup"
               new == [kd[c] EXCEPT !.step = @ + 1, !.pc = pc]
    <3>1. kd[c].step + 1 \in Nat /\ pc \in KdPcs
      BY <1>2 DEF KdPcs
    <3> HIDE DEF pc
    <3>2. new \in KdRec /\ SameBatches(kd[c], new) /\ new.step = kd[c].step + 1
          /\ new.setupFailed = kd[c].setupFailed /\ new.pc = pc
      BY ONLY <1>1, <3>1 DEF KdRec, SameBatches
    <3>3. kd' = [kd EXCEPT ![c] = new]
      BY <1>1, <2>1, FacilityOfStep DEF pc
    <3> HIDE DEF new
    <3>4. t = new /\ kd' \in [Callers -> KdRec] /\ \A d \in Callers \ {c} : kd'[d] = kd[d]
      BY ONLY c \in Callers, <1>1, <3>2, <3>3, SessionTo
    <3>5. hw' \in [Facilities -> Callers \cup {None}]
      BY <1>1, <2>1 DEF KdTypeOK
    <3> QED
      BY <2>1, <3>2, <3>4, <3>5 DEF pc
  <2>2. CASE /\ kd' = [kd EXCEPT ![c].pc = "release", ![c].setupFailed = TRUE]
             /\ UNCHANGED hw
    <3> DEFINE new == [kd[c] EXCEPT !.pc = "release", !.setupFailed = TRUE]
    <3>1. "release" \in KdPcs
      BY DEF KdPcs
    <3>2. new \in KdRec /\ SameBatches(kd[c], new) /\ new.setupFailed = TRUE /\ new.pc = "release"
      BY ONLY <1>1, <3>1 DEF KdRec, SameBatches
    <3>3. kd' = [kd EXCEPT ![c] = new]
      BY <1>1, <2>2
    <3> HIDE DEF new
    <3>4. t = new /\ kd' \in [Callers -> KdRec] /\ \A d \in Callers \ {c} : kd'[d] = kd[d]
      BY ONLY c \in Callers, <1>1, <3>2, <3>3, SessionTo
    <3> QED
      BY <1>1, <2>2, <3>2, <3>4 DEF KdTypeOK
  <2> QED
    BY <2>1, <2>2 DEF Setup
<1>5. KdTypeOK'
  BY <1>1, <1>3, <1>4 DEF KdTypeOK
<1>6. ASSUME NEW d \in Callers PROVE Holds(d)'
  <2>1. CASE d # c
    <3>1. kd'[d] = kd[d] /\ Holds(d) /\ ~InSession(d)
      BY <1>1, <1>4, <2>1 DEF KdInd, KdOwned, Holds, InSession
    <3>2. \A f \in Facilities : hw'[f] = hw[f] \/ hw'[f] = c
      BY <1>1, <1>4 DEF KdTypeOK
    <3> QED
      BY <1>3, <2>1, <3>1, <3>2 DEF Holds, InSession, Draining
  <2>2. CASE d = c /\ t.pc = "release" /\ t.setupFailed = TRUE
    BY <1>1, <1>3, <2>2 DEF Holds, InSession, Draining
  <2>3. CASE /\ d = c /\ t.step = kd[c].step + 1 /\ t.setupFailed = kd[c].setupFailed
             /\ t.pc = IF kd[c].step = 7 THEN "ready" ELSE "setup"
             /\ hw' = [hw EXCEPT ![SetupSteps[kd[c].step]] = c]
    <3>1. \A i \in 1 .. kd[c].step : hw'[SetupSteps[i]] = c
      <4> SUFFICES ASSUME NEW i \in 1 .. kd[c].step PROVE hw'[SetupSteps[i]] = c
        OBVIOUS
      <4>1. i \in 1 .. 7 /\ SetupSteps[i] \in Facilities
        BY <1>2, FacilityOfStep
      <4>2. i = kd[c].step \/ i \in 1 .. kd[c].step - 1
        BY <1>2
      <4>3. i \in 1 .. kd[c].step - 1 => hw[SetupSteps[i]] = c
        BY <1>1 DEF Holds
      <4> QED
        BY <1>1, <2>3, <4>1, <4>2, <4>3 DEF KdTypeOK
    <3>2. CASE kd[c].step = 7
      <4>1. \A f \in Facilities : hw'[f] = c
        BY <3>1, <3>2, FacilityOfStep
      <4> QED
        BY <1>1, <1>3, <2>3, <3>2, <4>1 DEF Holds, InSession, Draining
    <3>3. CASE kd[c].step # 7
      <4>1. t.step \in 1 .. 7 /\ t.step - 1 = kd[c].step
        BY <1>2, <2>3, <3>3
      <4> QED
        BY <1>1, <1>3, <2>3, <3>1, <3>3, <4>1 DEF Holds, InSession, Draining
    <3> QED
      BY <3>2, <3>3
  <2> QED
    BY <1>4, <2>1, <2>2, <2>3
<1>7. KdFlow'
  <2>1. t.pc \in {"ready", "setup", "release"} /\ kd[c].lost = {}
    BY <1>1, <1>4 DEF Flow, Phase, Taken
  <2>2. Phase(t) /\ Excused(t, cancel[c])
    BY <1>1, <1>4, <2>1 DEF Flow, Phase, Excused, SameBatches
  <2> HIDE DEF t
  <2>3. Flow(t, cancel[c])
    BY ONLY <1>1, <1>4, <2>2, FlowSame
  <2> QED
    BY <1>3, <1>4, <2>3, FlowKept DEF t
<1> QED
  BY <1>5, <1>6, <1>7 DEF KdInd, KdOwned

\* Every facility is switched off.
LEMMA TeardownKeeps ==
  ASSUME KdInd, NEW c \in Callers, Teardown(c)
  PROVE  KdInd'
<1>1. kd[c] \in KdRec /\ kd[c].pc = "teardown" /\ Holds(c) /\ Flow(kd[c], cancel[c])
  BY DEF KdInd, KdTypeOK, KdOwned, KdFlow, Teardown, At
<1>2. Goto(c, "release") /\ "release" \in KdPcs
  BY DEF Teardown, KdPcs
<1>3. /\ SameBut(c, "release") /\ kd' \in [Callers -> KdRec]
      /\ \A d \in Callers \ {c} : kd'[d] = kd[d]
  BY <1>2, Went
<1>4. hw' \in [Facilities -> Callers \cup {None}] /\ \A f \in Facilities : hw'[f] = None
  BY DEF Teardown, TornDown
<1>5. KdTypeOK'
  BY <1>3, <1>4 DEF KdInd, KdTypeOK, Teardown
<1>6. ASSUME NEW d \in Callers PROVE Holds(d)'
  <2>1. CASE d = c
    BY <1>1, <1>3, <1>4, <2>1, KdAssumption DEF Teardown, Holds, InSession, Draining, SameBut
  <2>2. CASE d # c
    <3>1. kd'[d] = kd[d] /\ Holds(d) /\ ~InSession(d) /\ UNCHANGED slot
      BY <1>1, <1>3, <2>2 DEF Teardown, KdInd, KdOwned, Holds, InSession
    <3> QED
      BY <1>4, <3>1, KdAssumption DEF Holds, InSession, Draining
  <2> QED
    BY <2>1, <2>2
<1>7. KdFlow'
  <2>1. Phase(kd'[c]) /\ Excused(kd'[c], cancel[c])
    BY <1>1, <1>3 DEF Flow, Phase, Excused, SameBut, SameBatches
  <2> QED
    BY ONLY KdInd, c \in Callers, Teardown(c), <1>2, <2>1, WentFlow DEF Teardown
<1> QED
  BY <1>5, <1>6, <1>7 DEF KdInd, KdOwned

\* The slot is free again; what the session left in the kernel is its own.
LEMMA ReleaseKeeps ==
  ASSUME KdInd, NEW c \in Callers, Release(c)
  PROVE  KdInd'
<1>1. kd[c] \in KdRec /\ kd[c].pc = "release" /\ Holds(c) /\ KdTypeOK
  BY DEF KdInd, KdTypeOK, KdOwned, Release, At
<1> DEFINE new == [NoSession EXCEPT !.pc = "done", !.setupFailed = kd[c].setupFailed]
<1>2. /\ new \in KdRec /\ new.pc = "done" /\ new.setupFailed = kd[c].setupFailed
      /\ new.sender = "off" /\ new.lost = {} /\ new.dropped = {} /\ new.beats = {}
      /\ new.queue = <<>> /\ new.hand = <<>> /\ new.sending = <<>> /\ new.chan = <<>> /\ new.got = <<>>
  BY <1>1, EmptySeq DEF NoSession, KdRec, KdPcs
<1>3. kd' = [kd EXCEPT ![c] = new] /\ slot' = None /\ UNCHANGED <<hw, cancel, stop>>
  BY DEF Release
<1> HIDE DEF new
<1>4. kd'[c] = new /\ kd' \in [Callers -> KdRec] /\ \A d \in Callers \ {c} : kd'[d] = kd[d]
  BY ONLY c \in Callers, <1>1, <1>2, <1>3, SessionTo
<1>5. KdTypeOK'
  BY <1>1, <1>3, <1>4 DEF KdTypeOK
<1>6. ASSUME NEW d \in Callers PROVE Holds(d)'
  <2>1. CASE d = c
    BY <1>1, <1>2, <1>3, <1>4, <2>1, KdAssumption DEF Holds, InSession, Draining
  <2>2. CASE d # c
    <3>1. kd'[d] = kd[d] /\ Holds(d) /\ ~InSession(d)
      BY <1>1, <1>4, <2>2 DEF KdInd, KdOwned, Holds, InSession
    <3> QED
      BY <1>3, <3>1, KdAssumption DEF Holds, InSession, Draining
  <2> QED
    BY <2>1, <2>2
<1>7. Flow(new, cancel[c])
  BY <1>2, NoIds DEF Flow, Phase, RisingLine, GivenUp, Taken, OnTheWay, Excused, Below
<1>8. KdFlow'
  BY <1>3, <1>4, <1>7, FlowKept
<1> QED
  BY <1>5, <1>6, <1>8 DEF KdInd, KdOwned

-----------------------------------------------------------------------------
(* Batches on their way *)

\* What a step of the drain thread, the sender or the client has to keep.
LEMMA SessionKeeps ==
  ASSUME KdInd, NEW c \in Callers, NEW new \in KdRec, kd' = [kd EXCEPT ![c] = new],
         UNCHANGED <<slot, hw>>, stop' \in Callers \cup {None},
         cancel' \in [Callers -> BOOLEAN], \A d \in Callers : cancel[d] => cancel'[d],
         new.step = kd[c].step, new.setupFailed = kd[c].setupFailed,
         \/ new.pc = kd[c].pc
         \/ /\ Draining(c)
            /\ new.pc \in {"loop", "read", "enqueue", "evict", "flush", "teardown"},
         Flow(new, cancel'[c])
  PROVE  KdInd'
<1>1. kd'[c] = new /\ kd' \in [Callers -> KdRec] /\ \A d \in Callers \ {c} : kd'[d] = kd[d]
  BY SessionTo DEF KdInd
<1>2. KdTypeOK'
  BY <1>1 DEF KdInd, KdTypeOK
<1>3. KdOwned'
  BY <1>1, OwnedKept
<1>4. KdFlow'
  BY <1>1, FlowKept
<1> QED
  BY <1>2, <1>3, <1>4 DEF KdInd

\* The sender starts, with the ready batch queued.
LEMMA ReadyKeeps ==
  ASSUME KdInd, NEW c \in Callers, Ready(c)
  PROVE  KdInd'
<1>1. kd[c] \in KdRec /\ kd[c].pc = "ready" /\ Flow(kd[c], cancel[c]) /\ KdTypeOK
  BY DEF KdInd, KdTypeOK, KdFlow, Ready, At
<1> DEFINE b == [id |-> 1, recs |-> 0]
           new == [kd[c] EXCEPT !.pc = "loop", !.sender = "wait", !.next = 2, !.queue = <<b>>]
<1>2. b \in BatchRec /\ b.id = 1
  BY DEF BatchRec
<1> HIDE DEF b
<1>3. <<b>> \in Seq(BatchRec) /\ Ids(<<b>>) = {1} /\ Rising(<<b>>) /\ "loop" \in KdPcs
  BY <1>2, OneId DEF KdPcs
<1>4. /\ new \in KdRec /\ new.step = kd[c].step /\ new.setupFailed = kd[c].setupFailed
      /\ new.pc = "loop" /\ new.sender = "wait" /\ new.next = 2 /\ new.queue = <<b>>
      /\ new.hand = kd[c].hand /\ new.sending = kd[c].sending /\ new.chan = kd[c].chan
      /\ new.got = kd[c].got /\ new.dropped = kd[c].dropped /\ new.beats = kd[c].beats
      /\ new.lost = kd[c].lost
  BY ONLY <1>1, <1>3 DEF KdRec
<1>5. kd' = [kd EXCEPT ![c] = new] /\ UNCHANGED <<slot, hw, cancel, stop>>
  BY <1>1 DEF Ready, b
<1> HIDE DEF new
<1>6. /\ kd[c].hand = <<>> /\ kd[c].sending = <<>>
      /\ Ids(kd[c].got) = {} /\ Ids(kd[c].chan) = {} /\ Ids(<<>>) = {}
      /\ kd[c].dropped = {} /\ kd[c].beats = {} /\ kd[c].lost = {}
      /\ Rising(kd[c].got) /\ Rising(kd[c].chan)
  BY <1>1, NoIds DEF Flow, Phase, Taken, OnTheWay, RisingLine
<1>7. Phase(new) /\ Excused(new, cancel[c])
  BY <1>4, <1>6 DEF Phase, Excused
<1>8. RisingLine(new) /\ GivenUp(new)
  BY <1>3, <1>4, <1>6 DEF RisingLine, GivenUp, OnTheWay, Below
<1>9. Taken(new)
  BY <1>3, <1>4, <1>6 DEF Taken, OnTheWay
<1>10. Flow(new, cancel'[c])
  BY <1>5, <1>7, <1>8, <1>9 DEF Flow
<1> QED
  BY <1>1, <1>4, <1>5, <1>10, SessionKeeps DEF KdTypeOK, Draining

\* The loop goes on, or ends on a cancel.
LEMMA CheckCancelKeeps ==
  ASSUME KdInd, NEW c \in Callers, CheckCancel(c)
  PROVE  KdInd'
<1>1. kd[c] \in KdRec /\ kd[c].pc = "loop" /\ Flow(kd[c], cancel[c]) /\ KdTypeOK
  BY DEF KdInd, KdTypeOK, KdFlow, CheckCancel, At
<1>2. PICK pc \in {"flush", "read"} : Goto(c, pc)
  BY DEF CheckCancel
<1>3. pc \in KdPcs
  BY DEF KdPcs
<1>4. /\ SameBut(c, pc) /\ kd' \in [Callers -> KdRec]
      /\ \A d \in Callers \ {c} : kd'[d] = kd[d]
  BY <1>2, <1>3, Went
<1>5. KdTypeOK' /\ KdOwned'
  BY <1>1, <1>4, OwnedKept DEF KdTypeOK, CheckCancel, SameBut, Draining
<1>6. Phase(kd'[c]) /\ Excused(kd'[c], cancel[c])
  BY <1>1, <1>4 DEF Flow, Phase, Excused, SameBut, SameBatches
<1>7. KdFlow'
  BY ONLY KdInd, c \in Callers, CheckCancel(c), <1>2, <1>3, <1>6, WentFlow DEF CheckCancel
<1> QED
  BY <1>5, <1>7 DEF KdInd

\* A batch is taken in hand, or nothing is read, or the read fails.
LEMMA ReadTraceKeeps ==
  ASSUME KdInd, NEW c \in Callers, ReadTrace(c)
  PROVE  KdInd'
<1>1. kd[c] \in KdRec /\ kd[c].pc = "read" /\ Flow(kd[c], cancel[c]) /\ KdTypeOK
  BY DEF KdInd, KdTypeOK, KdFlow, ReadTrace, At
<1>2. UNCHANGED <<slot, hw, cancel, stop>>
  BY DEF ReadTrace
<1>3. ASSUME NEW pc \in {"loop", "flush"}, Goto(c, pc) PROVE KdInd'
  <2>1. pc \in KdPcs
    BY DEF KdPcs
  <2>2. /\ SameBut(c, pc) /\ kd' \in [Callers -> KdRec]
        /\ \A d \in Callers \ {c} : kd'[d] = kd[d]
    BY <1>3, <2>1, Went
  <2>3. KdTypeOK' /\ KdOwned'
    BY <1>1, <1>2, <2>2, OwnedKept DEF KdTypeOK, SameBut, Draining
  <2>4. Phase(kd'[c]) /\ Excused(kd'[c], cancel[c])
    BY <1>1, <2>2 DEF Flow, Phase, Excused, SameBut, SameBatches
  <2>5. KdFlow'
    BY ONLY KdInd, c \in Callers, <1>2, <1>3, <2>1, <2>4, WentFlow
  <2> QED
    BY <2>3, <2>5 DEF KdInd
<1>4. ASSUME NEW recs \in {0, 1},
             kd' = [kd EXCEPT ![c].pc = "enqueue", ![c].next = @ + 1,
                              ![c].hand = <<[id |-> kd[c].next, recs |-> recs]>>]
      PROVE  KdInd'
  <2> DEFINE n == kd[c].next
             b == [id |-> n, recs |-> recs]
             new == [kd[c] EXCEPT !.pc = "enqueue", !.next = n + 1, !.hand = <<b>>]
  <2>1. n \in Nat /\ n + 1 \in Nat /\ n > 0 /\ kd[c].hand = <<>> /\ kd[c].sender # "off"
    BY <1>1 DEF KdRec, Flow, Phase, Excused
  <2>2. b \in BatchRec /\ b.id = n
    BY <1>4, <2>1 DEF BatchRec
  <2> HIDE DEF b, n
  <2>3. /\ <<b>> \in Seq(BatchRec) /\ <<b>> # <<>> /\ Tail(<<b>>) = <<>>
        /\ Ids(<<b>>) = {n} /\ "enqueue" \in KdPcs
    BY <2>2, OneId DEF KdPcs
  <2>4. /\ new \in KdRec /\ new.step = kd[c].step /\ new.setupFailed = kd[c].setupFailed
        /\ new.pc = "enqueue" /\ new.next = n + 1 /\ new.hand = <<b>>
        /\ new.queue = kd[c].queue /\ new.sending = kd[c].sending /\ new.chan = kd[c].chan
        /\ new.got = kd[c].got /\ new.dropped = kd[c].dropped /\ new.beats = kd[c].beats
        /\ new.lost = kd[c].lost /\ new.sender = kd[c].sender
    BY ONLY <1>1, <2>1, <2>3 DEF KdRec
  <2>5. kd' = [kd EXCEPT ![c] = new]
    BY <1>1, <1>4 DEF n, b
  <2> HIDE DEF new
  <2>6. /\ Phase(kd[c]) /\ RisingLine(kd[c]) /\ GivenUp(kd[c]) /\ Excused(kd[c], cancel[c])
        /\ OnTheWay(kd[c]) \cup kd[c].dropped \cup kd[c].beats \cup kd[c].lost = 1 .. n - 1
    BY <1>1, <2>1 DEF Flow, Taken, n
  <2>7. OnTheWay(new) = OnTheWay(kd[c]) \cup {n}
    BY <2>1, <2>3, <2>4, NoIds DEF OnTheWay
  <2>8. ASSUME NEW x \in OnTheWay(kd[c]) \cup kd[c].dropped \cup kd[c].beats \cup kd[c].lost
        PROVE  x \in Nat /\ x < n
    BY <2>1, <2>6, <2>8
  <2>9. Phase(new) /\ Excused(new, cancel[c])
    BY <1>1, <2>1, <2>3, <2>4, <2>6 DEF Phase, Excused
  <2>10. RisingLine(new)
    <3>1. Below(Ids(kd[c].got) \cup Ids(kd[c].chan) \cup Ids(kd[c].sending) \cup Ids(kd[c].queue), {n})
      BY <2>8 DEF Below, OnTheWay
    <3> QED
      BY <2>3, <2>4, <2>6, <3>1 DEF RisingLine
  <2>11. GivenUp(new)
    BY <2>1, <2>4, <2>6, <2>7, <2>8 DEF GivenUp
  <2>12. Taken(new)
    <3>1. 1 .. (n + 1) - 1 = (1 .. n - 1) \cup {n}
      BY <2>1
    <3> QED
      BY <2>1, <2>4, <2>6, <2>7, <3>1 DEF Taken
  <2>13. Flow(new, cancel'[c])
    BY <1>2, <2>9, <2>10, <2>11, <2>12 DEF Flow
  <2> QED
    BY <1>1, <1>2, <2>4, <2>5, <2>13, SessionKeeps DEF KdTypeOK, Draining
<1> QED
  BY <1>3, <1>4 DEF ReadTrace

\* What is in the drain thread's hand is one batch, above all others.
LEMMA InHand ==
  ASSUME NEW s \in KdRec, Phase(s), RisingLine(s), s.hand # <<>>
  PROVE  /\ Head(s.hand) \in BatchRec /\ Head(s.hand).id \in Nat
         /\ Ids(s.hand) = {Head(s.hand).id}
         /\ Below(Ids(s.got) \cup Ids(s.chan) \cup Ids(s.sending) \cup Ids(s.queue), {Head(s.hand).id})
<1>1. s.hand \in Seq(BatchRec) /\ Tail(s.hand) = <<>>
  BY DEF KdRec, Phase
<1> QED
  BY <1>1, TakenIds, NoIds DEF RisingLine

LEMMA InSendersHand ==
  ASSUME NEW s \in KdRec, Phase(s), RisingLine(s), s.sender = "send"
  PROVE  /\ Head(s.sending) \in BatchRec /\ Head(s.sending).id \in Nat
         /\ Ids(s.sending) = {Head(s.sending).id}
<1>1. s.sending \in Seq(BatchRec) /\ Tail(s.sending) = <<>> /\ s.sending # <<>>
  BY DEF KdRec, Phase
<1> QED
  BY <1>1, TakenIds, NoIds

\* The batch in hand is queued; a full queue costs a heartbeat, or evicts.
LEMMA TrySendBatchKeeps ==
  ASSUME KdInd, NEW c \in Callers, TrySendBatch(c)
  PROVE  KdInd'
<1>1. /\ kd[c] \in KdRec /\ KdTypeOK /\ Phase(kd[c]) /\ RisingLine(kd[c]) /\ GivenUp(kd[c])
      /\ Taken(kd[c]) /\ Excused(kd[c], cancel[c]) /\ kd[c].pc = "enqueue" /\ kd[c].hand # <<>>
  BY DEF KdInd, KdTypeOK, KdFlow, Flow, TrySendBatch, At, Phase
<1>2. UNCHANGED <<slot, hw, stop>>
  BY DEF TrySendBatch
<1>3. UNCHANGED cancel
  BY DEF TrySendBatch
<1> DEFINE b == Head(kd[c].hand)
<1>4. /\ b \in BatchRec /\ b.id \in Nat /\ Ids(kd[c].hand) = {b.id}
      /\ Below(Ids(kd[c].got) \cup Ids(kd[c].chan) \cup Ids(kd[c].sending) \cup Ids(kd[c].queue), {b.id})
  BY <1>1, InHand
<1>5. ASSUME kd' = [kd EXCEPT ![c].pc = "loop", ![c].hand = <<>>, ![c].queue = Append(@, b)]
      PROVE  KdInd'
  <2> DEFINE new == [kd[c] EXCEPT !.pc = "loop", !.hand = <<>>, !.queue = Append(kd[c].queue, b)]
  <2>1. /\ kd[c].queue \in Seq(BatchRec) /\ Append(kd[c].queue, b) \in Seq(BatchRec)
        /\ <<>> \in Seq(BatchRec) /\ "loop" \in KdPcs
    BY <1>1, <1>4, SentIds, EmptySeq DEF KdRec, KdPcs
  <2>2. /\ new \in KdRec /\ new.pc = "loop" /\ new.hand = <<>>
        /\ new.queue = Append(kd[c].queue, b) /\ new.step = kd[c].step
        /\ new.next = kd[c].next /\ new.dropped = kd[c].dropped
        /\ new.beats = kd[c].beats /\ new.sender = kd[c].sender
        /\ new.sending = kd[c].sending /\ new.chan = kd[c].chan
        /\ new.got = kd[c].got /\ new.lost = kd[c].lost
        /\ new.setupFailed = kd[c].setupFailed
    BY ONLY <1>1, <2>1 DEF KdRec
  <2>3. kd' = [kd EXCEPT ![c] = new]
    BY <1>1, <1>5
  <2> HIDE DEF new
  <2>4. Ids(new.queue) = Ids(kd[c].queue) \cup {b.id} /\ Ids(new.hand) = {} /\ Rising(new.queue)
    <3>1. Rising(kd[c].queue) /\ Below(Ids(kd[c].queue), {b.id})
      BY <1>1, <1>4 DEF RisingLine, Below
    <3> HIDE DEF b
    <3> QED
      BY <1>4, <2>1, <2>2, <3>1, SentIds, NoIds
  <2>5. OnTheWay(new) = OnTheWay(kd[c])
    BY <1>4, <2>2, <2>4 DEF OnTheWay
  <2>6. Phase(new) /\ Excused(new, cancel[c])
    BY <1>1, <2>1, <2>2, <2>4, <2>5 DEF Phase, Excused
  <2>7. RisingLine(new)
    BY <1>1, <2>2, <2>4, <2>5, <1>4 DEF RisingLine, Below
  <2>8. GivenUp(new)
    BY <1>1, <2>2, <2>4, <2>5 DEF GivenUp
  <2>9. Taken(new)
    BY <1>1, <2>2, <2>4, <2>5 DEF Taken
  <2>10. Flow(new, cancel'[c])
    BY <1>3, <2>6, <2>7, <2>8, <2>9 DEF Flow
  <2> QED
    BY <1>1, <1>2, <1>3, <2>2, <2>3, <2>10, SessionKeeps DEF KdTypeOK, Draining
<1>6. ASSUME kd' = [kd EXCEPT ![c].pc = "loop", ![c].hand = <<>>, ![c].beats = @ \cup {b.id}]
      PROVE  KdInd'
  <2> DEFINE new == [kd[c] EXCEPT !.pc = "loop", !.hand = <<>>, !.beats = kd[c].beats \cup {b.id}]
  <2>1. kd[c].beats \cup {b.id} \in SUBSET Nat /\ <<>> \in Seq(BatchRec) /\ "loop" \in KdPcs
    BY <1>1, <1>4, EmptySeq DEF KdRec, KdPcs
  <2>2. /\ new \in KdRec /\ new.pc = "loop" /\ new.hand = <<>>
        /\ new.beats = kd[c].beats \cup {b.id} /\ new.step = kd[c].step
        /\ new.queue = kd[c].queue /\ new.next = kd[c].next
        /\ new.dropped = kd[c].dropped /\ new.sender = kd[c].sender
        /\ new.sending = kd[c].sending /\ new.chan = kd[c].chan
        /\ new.got = kd[c].got /\ new.lost = kd[c].lost
        /\ new.setupFailed = kd[c].setupFailed
    BY ONLY <1>1, <2>1 DEF KdRec
  <2>3. kd' = [kd EXCEPT ![c] = new]
    BY <1>1, <1>6
  <2> HIDE DEF new
  <2>4. Ids(new.hand) = {}
    BY <2>2, NoIds
  <2>5. OnTheWay(new) \cup {b.id} = OnTheWay(kd[c]) /\ b.id \notin OnTheWay(new)
    BY <1>4, <2>2, <2>4 DEF OnTheWay, Below
  <2>6. Phase(new) /\ Excused(new, cancel[c])
    BY <1>1, <2>1, <2>2, <2>4, <2>5 DEF Phase, Excused
  <2>7. RisingLine(new)
    BY <1>1, <2>2, <2>4, <2>5, <1>4 DEF RisingLine, Below
  <2>8. GivenUp(new)
    BY <1>1, <2>2, <2>4, <2>5 DEF GivenUp
  <2>9. Taken(new)
    BY <1>1, <2>2, <2>4, <2>5 DEF Taken
  <2>10. Flow(new, cancel'[c])
    BY <1>3, <2>6, <2>7, <2>8, <2>9 DEF Flow
  <2> QED
    BY <1>1, <1>2, <1>3, <2>2, <2>3, <2>10, SessionKeeps DEF KdTypeOK, Draining
<1>7. ASSUME kd' = [kd EXCEPT ![c].pc = "evict"]
      PROVE  KdInd'
  <2> DEFINE new == [kd[c] EXCEPT !.pc = "evict"]
  <2>1. "evict" \in KdPcs
    BY DEF KdPcs
  <2>2. /\ new \in KdRec /\ new.pc = "evict" /\ new.step = kd[c].step
        /\ new.queue = kd[c].queue /\ new.hand = kd[c].hand /\ new.next = kd[c].next
        /\ new.dropped = kd[c].dropped /\ new.beats = kd[c].beats
        /\ new.sender = kd[c].sender /\ new.sending = kd[c].sending
        /\ new.chan = kd[c].chan /\ new.got = kd[c].got /\ new.lost = kd[c].lost
        /\ new.setupFailed = kd[c].setupFailed
    BY ONLY <1>1, <2>1 DEF KdRec
  <2>3. kd' = [kd EXCEPT ![c] = new]
    BY <1>1, <1>7
  <2> HIDE DEF new
  <2>4. OnTheWay(new) = OnTheWay(kd[c])
    BY <2>2 DEF OnTheWay
  <2>5. Phase(new) /\ Excused(new, cancel[c])
    BY <1>1, <2>1, <2>2, <2>4 DEF Phase, Excused
  <2>6. RisingLine(new)
    BY <1>1, <2>2, <2>4 DEF RisingLine, Below
  <2>7. GivenUp(new)
    BY <1>1, <2>2, <2>4 DEF GivenUp
  <2>8. Taken(new)
    BY <1>1, <2>2, <2>4 DEF Taken
  <2>9. Flow(new, cancel'[c])
    BY <1>3, <2>5, <2>6, <2>7, <2>8 DEF Flow
  <2> QED
    BY <1>1, <1>2, <1>3, <2>2, <2>3, <2>9, SessionKeeps DEF KdTypeOK, Draining
<1> QED
  BY <1>5, <1>6, <1>7 DEF TrySendBatch

\* The oldest batch of the queue is counted as dropped.
LEMMA EvictKeeps ==
  ASSUME KdInd, NEW c \in Callers, Evict(c)
  PROVE  KdInd'
<1>1. /\ kd[c] \in KdRec /\ KdTypeOK /\ Phase(kd[c]) /\ RisingLine(kd[c]) /\ GivenUp(kd[c])
      /\ Taken(kd[c]) /\ Excused(kd[c], cancel[c]) /\ kd[c].pc = "evict"
  BY DEF KdInd, KdTypeOK, KdFlow, Flow, Evict, At
<1>2. UNCHANGED <<slot, hw, stop>>
  BY DEF Evict
<1>3. UNCHANGED cancel
  BY DEF Evict
<1> DEFINE b == Head(kd[c].queue)
<1>4. ASSUME kd[c].queue = <<>> PROVE KdInd'
  <2> DEFINE new == [kd[c] EXCEPT !.pc = "enqueue"]
  <2>1. "enqueue" \in KdPcs
    BY DEF KdPcs
  <2>2. /\ new \in KdRec /\ new.pc = "enqueue" /\ new.step = kd[c].step
        /\ new.queue = kd[c].queue /\ new.hand = kd[c].hand /\ new.next = kd[c].next
        /\ new.dropped = kd[c].dropped /\ new.beats = kd[c].beats
        /\ new.sender = kd[c].sender /\ new.sending = kd[c].sending
        /\ new.chan = kd[c].chan /\ new.got = kd[c].got /\ new.lost = kd[c].lost
        /\ new.setupFailed = kd[c].setupFailed
    BY ONLY <1>1, <2>1 DEF KdRec
  <2>3. kd' = [kd EXCEPT ![c] = new]
    BY <1>1, <1>4 DEF Evict
  <2> HIDE DEF new
  <2>4. OnTheWay(new) = OnTheWay(kd[c])
    BY <2>2 DEF OnTheWay
  <2>5. Phase(new) /\ Excused(new, cancel[c])
    BY <1>1, <2>1, <2>2, <2>4 DEF Phase, Excused
  <2>6. RisingLine(new)
    BY <1>1, <2>2, <2>4 DEF RisingLine, Below
  <2>7. GivenUp(new)
    BY <1>1, <2>2, <2>4 DEF GivenUp
  <2>8. Taken(new)
    BY <1>1, <2>2, <2>4 DEF Taken
  <2>9. Flow(new, cancel'[c])
    BY <1>3, <2>5, <2>6, <2>7, <2>8 DEF Flow
  <2> QED
    BY <1>1, <1>2, <1>3, <2>2, <2>3, <2>9, SessionKeeps DEF KdTypeOK, Draining
<1>5. ASSUME kd[c].queue # <<>>
      PROVE  /\ b \in BatchRec /\ b.id \in Nat /\ Tail(kd[c].queue) \in Seq(BatchRec)
             /\ Ids(kd[c].queue) = {b.id} \cup Ids(Tail(kd[c].queue))
             /\ Rising(Tail(kd[c].queue)) /\ Below({b.id}, Ids(Tail(kd[c].queue)))
  BY <1>1, <1>5, TakenIds DEF KdRec, RisingLine
<1>6. ASSUME kd[c].queue # <<>>, b.recs = 0 PROVE KdInd'
  <2> DEFINE new == [kd[c] EXCEPT !.pc = "enqueue", !.queue = Tail(kd[c].queue), !.beats = kd[c].beats \cup {b.id}]
  <2>1. /\ kd[c].beats \cup {b.id} \in SUBSET Nat /\ Tail(kd[c].queue) \in Seq(BatchRec)
        /\ "enqueue" \in KdPcs
    BY <1>1, <1>5, <1>6 DEF KdRec, KdPcs
  <2>2. /\ new \in KdRec /\ new.pc = "enqueue" /\ new.queue = Tail(kd[c].queue)
        /\ new.beats = kd[c].beats \cup {b.id} /\ new.step = kd[c].step
        /\ new.hand = kd[c].hand /\ new.next = kd[c].next
        /\ new.dropped = kd[c].dropped /\ new.sender = kd[c].sender
        /\ new.sending = kd[c].sending /\ new.chan = kd[c].chan
        /\ new.got = kd[c].got /\ new.lost = kd[c].lost
        /\ new.setupFailed = kd[c].setupFailed
    BY ONLY <1>1, <2>1 DEF KdRec
  <2>3. kd' = [kd EXCEPT ![c] = new]
    BY <1>1, <1>6 DEF Evict, CountDrop, KdRec
  <2> HIDE DEF new
  <2>4. OnTheWay(new) \cup {b.id} = OnTheWay(kd[c]) /\ b.id \notin OnTheWay(new)
    <3>1. b.id \in Nat /\ ~(b.id < b.id) /\ Ids(kd[c].queue) = {b.id} \cup Ids(Tail(kd[c].queue))
      BY <1>5, <1>6
    <3>2. /\ b.id \notin Ids(kd[c].got) \cup Ids(kd[c].chan) \cup Ids(kd[c].sending)
          /\ b.id \notin Ids(kd[c].hand)
      BY <1>1, <3>1 DEF Below, RisingLine
    <3>3. b.id \notin Ids(Tail(kd[c].queue))
      BY <1>5, <1>6, <3>1 DEF Below
    <3> QED
      BY <2>2, <3>1, <3>2, <3>3 DEF OnTheWay
  <2>5. Phase(new) /\ Excused(new, cancel[c])
    BY <1>1, <2>1, <2>2, <2>4 DEF Phase, Excused
  <2>6. RisingLine(new)
    BY <1>1, <2>2, <2>4, <1>5, <1>6 DEF RisingLine, Below
  <2>7. GivenUp(new)
    BY <1>1, <2>2, <2>4 DEF GivenUp
  <2>8. Taken(new)
    BY <1>1, <2>2, <2>4 DEF Taken
  <2>9. Flow(new, cancel'[c])
    BY <1>3, <2>5, <2>6, <2>7, <2>8 DEF Flow
  <2> QED
    BY <1>1, <1>2, <1>3, <2>2, <2>3, <2>9, SessionKeeps DEF KdTypeOK, Draining
<1>7. ASSUME kd[c].queue # <<>>, b.recs # 0 PROVE KdInd'
  <2> DEFINE new == [kd[c] EXCEPT !.pc = "enqueue", !.queue = Tail(kd[c].queue), !.dropped = kd[c].dropped \cup {b.id}]
  <2>1. /\ kd[c].dropped \cup {b.id} \in SUBSET Nat /\ Tail(kd[c].queue) \in Seq(BatchRec)
        /\ "enqueue" \in KdPcs
    BY <1>1, <1>5, <1>7 DEF KdRec, KdPcs
  <2>2. /\ new \in KdRec /\ new.pc = "enqueue" /\ new.queue = Tail(kd[c].queue)
        /\ new.dropped = kd[c].dropped \cup {b.id} /\ new.step = kd[c].step
        /\ new.hand = kd[c].hand /\ new.next = kd[c].next /\ new.beats = kd[c].beats
        /\ new.sender = kd[c].sender /\ new.sending = kd[c].sending
        /\ new.chan = kd[c].chan /\ new.got = kd[c].got /\ new.lost = kd[c].lost
        /\ new.setupFailed = kd[c].setupFailed
    BY ONLY <1>1, <2>1 DEF KdRec
  <2>3. kd' = [kd EXCEPT ![c] = new]
    BY <1>1, <1>7 DEF Evict, CountDrop, KdRec
  <2> HIDE DEF new
  <2>4. OnTheWay(new) \cup {b.id} = OnTheWay(kd[c]) /\ b.id \notin OnTheWay(new)
    <3>1. b.id \in Nat /\ ~(b.id < b.id) /\ Ids(kd[c].queue) = {b.id} \cup Ids(Tail(kd[c].queue))
      BY <1>5, <1>7
    <3>2. /\ b.id \notin Ids(kd[c].got) \cup Ids(kd[c].chan) \cup Ids(kd[c].sending)
          /\ b.id \notin Ids(kd[c].hand)
      BY <1>1, <3>1 DEF Below, RisingLine
    <3>3. b.id \notin Ids(Tail(kd[c].queue))
      BY <1>5, <1>7, <3>1 DEF Below
    <3> QED
      BY <2>2, <3>1, <3>2, <3>3 DEF OnTheWay
  <2>5. Phase(new) /\ Excused(new, cancel[c])
    BY <1>1, <2>1, <2>2, <2>4 DEF Phase, Excused
  <2>6. RisingLine(new)
    BY <1>1, <2>2, <2>4, <1>5, <1>7 DEF RisingLine, Below
  <2>7. GivenUp(new)
    BY <1>1, <2>2, <2>4 DEF GivenUp
  <2>8. Taken(new)
    BY <1>1, <2>2, <2>4 DEF Taken
  <2>9. Flow(new, cancel'[c])
    BY <1>3, <2>5, <2>6, <2>7, <2>8 DEF Flow
  <2> QED
    BY <1>1, <1>2, <1>3, <2>2, <2>3, <2>9, SessionKeeps DEF KdTypeOK, Draining
<1> QED
  BY <1>4, <1>6, <1>7

\* The sender takes the oldest batch, or ends on the closed queue.
LEMMA SenderTakeKeeps ==
  ASSUME KdInd, NEW c \in Callers, SenderTake(c)
  PROVE  KdInd'
<1>1. /\ kd[c] \in KdRec /\ KdTypeOK /\ Phase(kd[c]) /\ RisingLine(kd[c]) /\ GivenUp(kd[c])
      /\ Taken(kd[c]) /\ Excused(kd[c], cancel[c]) /\ kd[c].sender = "wait" /\ kd[c].sending = <<>>
  BY DEF KdInd, KdTypeOK, KdFlow, Flow, SenderTake, Phase
<1>2. UNCHANGED <<slot, hw, stop>>
  BY DEF SenderTake
<1>3. UNCHANGED cancel
  BY DEF SenderTake
<1> DEFINE b == Head(kd[c].queue)
<1>4. ASSUME kd[c].queue # <<>>,
             kd' = [kd EXCEPT ![c].sender = "send", ![c].queue = Tail(@), ![c].sending = <<b>>]
      PROVE  KdInd'
  <2> DEFINE new == [kd[c] EXCEPT !.sender = "send", !.queue = Tail(kd[c].queue), !.sending = <<b>>]
  <2>1. /\ b \in BatchRec /\ b.id \in Nat /\ Tail(kd[c].queue) \in Seq(BatchRec)
        /\ <<b>> \in Seq(BatchRec) /\ <<b>> # <<>> /\ Tail(<<b>>) = <<>>
        /\ Ids(<<b>>) = {b.id} /\ Ids(kd[c].queue) = {b.id} \cup Ids(Tail(kd[c].queue))
        /\ Rising(Tail(kd[c].queue)) /\ Below({b.id}, Ids(Tail(kd[c].queue)))
    <3>1. kd[c].queue \in Seq(BatchRec) /\ Rising(kd[c].queue)
      BY <1>1 DEF KdRec, RisingLine
    <3>2. b \in BatchRec
      BY <1>4, <3>1, TakenIds
    <3>3. /\ <<b>> \in Seq(BatchRec) /\ <<b>> # <<>> /\ Tail(<<b>>) = <<>> /\ Ids(<<b>>) = {b.id}
      BY <3>2, OneId
    <3> QED
      BY <1>4, <3>1, <3>3, TakenIds
  <2>2. /\ new \in KdRec /\ new.sender = "send" /\ new.queue = Tail(kd[c].queue)
        /\ new.sending = <<b>> /\ new.pc = kd[c].pc /\ new.step = kd[c].step
        /\ new.hand = kd[c].hand /\ new.next = kd[c].next
        /\ new.dropped = kd[c].dropped /\ new.beats = kd[c].beats
        /\ new.chan = kd[c].chan /\ new.got = kd[c].got /\ new.lost = kd[c].lost
        /\ new.setupFailed = kd[c].setupFailed
    BY ONLY <1>1, <2>1 DEF KdRec
  <2>3. kd' = [kd EXCEPT ![c] = new]
    BY <1>1, <1>4
  <2> HIDE DEF new
  <2>4. Ids(new.sending) = {b.id} /\ Ids(kd[c].sending) = {}
    BY <1>1, <2>1, <2>2, NoIds
  <2>5. OnTheWay(new) = OnTheWay(kd[c])
    BY <2>1, <2>2, <2>4 DEF OnTheWay
  <2>6. Phase(new) /\ Excused(new, cancel[c])
    BY <1>1, <2>1, <2>2, <2>4, <2>5 DEF Phase, Excused
  <2>7. RisingLine(new)
    BY <1>1, <2>2, <2>4, <2>5, <2>1 DEF RisingLine, Below
  <2>8. GivenUp(new)
    BY <1>1, <2>2, <2>4, <2>5 DEF GivenUp
  <2>9. Taken(new)
    BY <1>1, <2>2, <2>4, <2>5 DEF Taken
  <2>10. Flow(new, cancel'[c])
    BY <1>3, <2>6, <2>7, <2>8, <2>9 DEF Flow
  <2> QED
    BY <1>1, <1>2, <1>3, <2>2, <2>3, <2>10, SessionKeeps DEF KdTypeOK, Draining
<1>5. ASSUME At(c, "flush"), kd' = [kd EXCEPT ![c].sender = "done"]
      PROVE  KdInd'
  <2> DEFINE new == [kd[c] EXCEPT !.sender = "done"]
  <2>1. kd[c].pc = "flush"
    BY <1>5 DEF At
  <2>2. /\ new \in KdRec /\ new.sender = "done" /\ new.pc = kd[c].pc
        /\ new.step = kd[c].step /\ new.queue = kd[c].queue /\ new.hand = kd[c].hand
        /\ new.next = kd[c].next /\ new.dropped = kd[c].dropped
        /\ new.beats = kd[c].beats /\ new.sending = kd[c].sending
        /\ new.chan = kd[c].chan /\ new.got = kd[c].got /\ new.lost = kd[c].lost
        /\ new.setupFailed = kd[c].setupFailed
    BY ONLY <1>1, <2>1 DEF KdRec
  <2>3. kd' = [kd EXCEPT ![c] = new]
    BY <1>1, <1>5
  <2> HIDE DEF new
  <2>4. OnTheWay(new) = OnTheWay(kd[c])
    BY <2>2 DEF OnTheWay
  <2>5. Phase(new) /\ Excused(new, cancel[c])
    BY <1>1, <2>1, <2>2, <2>4 DEF Phase, Excused
  <2>6. RisingLine(new)
    BY <1>1, <2>2, <2>4 DEF RisingLine, Below
  <2>7. GivenUp(new)
    BY <1>1, <2>2, <2>4 DEF GivenUp
  <2>8. Taken(new)
    BY <1>1, <2>2, <2>4 DEF Taken
  <2>9. Flow(new, cancel'[c])
    BY <1>3, <2>5, <2>6, <2>7, <2>8 DEF Flow
  <2> QED
    BY <1>1, <1>2, <1>3, <2>2, <2>3, <2>9, SessionKeeps DEF KdTypeOK, Draining
<1> QED
  BY <1>4, <1>5 DEF SenderTake

\* The batch goes into the channel, or the client is gone and it is lost.
LEMMA SenderSendKeeps ==
  ASSUME KdInd, NEW c \in Callers, SenderSend(c)
  PROVE  KdInd'
<1>1. /\ kd[c] \in KdRec /\ KdTypeOK /\ Phase(kd[c]) /\ RisingLine(kd[c]) /\ GivenUp(kd[c])
      /\ Taken(kd[c]) /\ Excused(kd[c], cancel[c]) /\ kd[c].sender = "send"
  BY DEF KdInd, KdTypeOK, KdFlow, Flow, SenderSend
<1>2. UNCHANGED <<slot, hw, stop>>
  BY DEF SenderSend
<1>3. cancel' \in [Callers -> BOOLEAN] /\ \A d \in Callers : cancel[d] => cancel'[d]
  BY <1>1 DEF SenderSend, KdTypeOK
<1> DEFINE b == Head(kd[c].sending)
<1>4. b \in BatchRec /\ b.id \in Nat /\ Ids(kd[c].sending) = {b.id}
  BY <1>1, InSendersHand
<1>5. ASSUME kd' = [kd EXCEPT ![c].sender = "wait", ![c].sending = <<>>, ![c].chan = Append(@, b)],
             UNCHANGED cancel
      PROVE  KdInd'
  <2> DEFINE new == [kd[c] EXCEPT !.sender = "wait", !.sending = <<>>, !.chan = Append(kd[c].chan, b)]
  <2>1. kd[c].chan \in Seq(BatchRec) /\ Append(kd[c].chan, b) \in Seq(BatchRec) /\ <<>> \in Seq(BatchRec)
    BY <1>1, <1>4, SentIds, EmptySeq DEF KdRec
  <2>2. /\ new \in KdRec /\ new.sender = "wait" /\ new.sending = <<>>
        /\ new.chan = Append(kd[c].chan, b) /\ new.pc = kd[c].pc
        /\ new.step = kd[c].step /\ new.queue = kd[c].queue /\ new.hand = kd[c].hand
        /\ new.next = kd[c].next /\ new.dropped = kd[c].dropped
        /\ new.beats = kd[c].beats /\ new.got = kd[c].got /\ new.lost = kd[c].lost
        /\ new.setupFailed = kd[c].setupFailed
    BY ONLY <1>1, <2>1 DEF KdRec
  <2>3. kd' = [kd EXCEPT ![c] = new]
    BY <1>1, <1>5
  <2> HIDE DEF new
  <2>4. Ids(new.chan) = Ids(kd[c].chan) \cup {b.id} /\ Ids(new.sending) = {} /\ Rising(new.chan)
    <3>1. Rising(kd[c].chan) /\ Below(Ids(kd[c].chan), {b.id})
      BY <1>1, <1>4 DEF RisingLine, Below
    <3> HIDE DEF b
    <3> QED
      BY <1>4, <2>1, <2>2, <3>1, SentIds, NoIds
  <2>5. OnTheWay(new) = OnTheWay(kd[c])
    BY <1>4, <2>2, <2>4 DEF OnTheWay
  <2>6. Phase(new) /\ Excused(new, cancel[c])
    BY <1>1, <2>1, <2>2, <2>4, <2>5 DEF Phase, Excused
  <2>7. RisingLine(new)
    BY <1>1, <2>2, <2>4, <2>5, <1>4 DEF RisingLine, Below
  <2>8. GivenUp(new)
    BY <1>1, <2>2, <2>4, <2>5 DEF GivenUp
  <2>9. Taken(new)
    BY <1>1, <2>2, <2>4, <2>5 DEF Taken
  <2>10. Flow(new, cancel'[c])
    BY <1>5, <2>6, <2>7, <2>8, <2>9 DEF Flow
  <2> QED
    BY <1>1, <1>2, <1>3, <2>2, <2>3, <2>10, SessionKeeps DEF KdTypeOK, Draining
<1>6. ASSUME kd' = [kd EXCEPT ![c].sender = "done", ![c].sending = <<>>,
                              ![c].lost = @ \cup Ids(kd[c].sending)],
             cancel' = [cancel EXCEPT ![c] = TRUE]
      PROVE  KdInd'
  <2> DEFINE new == [kd[c] EXCEPT !.sender = "done", !.sending = <<>>, !.lost = kd[c].lost \cup {b.id}]
  <2>1. kd[c].lost \cup {b.id} \in SUBSET Nat /\ <<>> \in Seq(BatchRec)
    BY <1>1, <1>4, EmptySeq DEF KdRec
  <2>2. /\ new \in KdRec /\ new.sender = "done" /\ new.sending = <<>>
        /\ new.lost = kd[c].lost \cup {b.id} /\ new.pc = kd[c].pc
        /\ new.step = kd[c].step /\ new.queue = kd[c].queue /\ new.hand = kd[c].hand
        /\ new.next = kd[c].next /\ new.dropped = kd[c].dropped
        /\ new.beats = kd[c].beats /\ new.chan = kd[c].chan /\ new.got = kd[c].got
        /\ new.setupFailed = kd[c].setupFailed
    BY ONLY <1>1, <2>1 DEF KdRec
  <2>3. kd' = [kd EXCEPT ![c] = new]
    BY <1>1, <1>4, <1>6
  <2> HIDE DEF new
  <2>4. Ids(new.sending) = {} /\ cancel'[c] = TRUE
    BY <1>1, <1>6, <2>2, NoIds DEF KdTypeOK
  <2>5. OnTheWay(new) \cup {b.id} = OnTheWay(kd[c]) /\ b.id \notin OnTheWay(new)
    <3>1. b.id \in Nat /\ ~(b.id < b.id)
      BY <1>4
    <3>2. /\ b.id \notin Ids(kd[c].got) \cup Ids(kd[c].chan)
          /\ b.id \notin Ids(kd[c].queue) /\ b.id \notin Ids(kd[c].hand)
      BY <1>1, <1>4, <3>1 DEF Below, RisingLine
    <3> QED
      BY <1>4, <2>2, <2>4, <3>2 DEF OnTheWay
  <2>6. Phase(new) /\ Excused(new, cancel'[c])
    BY <1>1, <2>1, <2>2, <2>4, <2>5 DEF Phase, Excused
  <2>7. RisingLine(new)
    BY <1>1, <2>2, <2>4, <2>5, <1>4 DEF RisingLine, Below
  <2>8. GivenUp(new)
    BY <1>1, <2>2, <2>4, <2>5 DEF GivenUp
  <2>9. Taken(new)
    BY <1>1, <2>2, <2>4, <2>5 DEF Taken
  <2>10. Flow(new, cancel'[c])
    BY <1>3, <2>6, <2>7, <2>8, <2>9 DEF Flow
  <2> QED
    BY <1>1, <1>2, <1>3, <2>2, <2>3, <2>10, SessionKeeps DEF KdTypeOK, Draining
<1> QED
  BY <1>5, <1>6 DEF SenderSend

\* The client takes the oldest batch of the channel.
LEMMA ClientRecvKeeps ==
  ASSUME KdInd, NEW c \in Callers, ClientRecv(c)
  PROVE  KdInd'
<1>1. /\ kd[c] \in KdRec /\ KdTypeOK /\ Phase(kd[c]) /\ RisingLine(kd[c]) /\ GivenUp(kd[c])
      /\ Taken(kd[c]) /\ Excused(kd[c], cancel[c]) /\ kd[c].chan # <<>>
  BY DEF KdInd, KdTypeOK, KdFlow, Flow, ClientRecv
<1>2. UNCHANGED <<slot, hw, stop>>
  BY DEF ClientRecv
<1>3. UNCHANGED cancel
  BY DEF ClientRecv
<1> DEFINE b == Head(kd[c].chan)
<1>4. KdInd'
  <2> DEFINE new == [kd[c] EXCEPT !.chan = Tail(kd[c].chan), !.got = Append(kd[c].got, b)]
  <2>1. /\ b \in BatchRec /\ b.id \in Nat /\ Tail(kd[c].chan) \in Seq(BatchRec)
        /\ Ids(kd[c].chan) = {b.id} \cup Ids(Tail(kd[c].chan)) /\ Rising(Tail(kd[c].chan))
        /\ Below({b.id}, Ids(Tail(kd[c].chan))) /\ kd[c].got \in Seq(BatchRec)
        /\ Append(kd[c].got, b) \in Seq(BatchRec)
    <3>1. kd[c].chan \in Seq(BatchRec) /\ Rising(kd[c].chan) /\ kd[c].got \in Seq(BatchRec)
      BY <1>1 DEF KdRec, RisingLine
    <3>2. b \in BatchRec
      BY <1>1, <3>1, TakenIds
    <3>3. Append(kd[c].got, b) \in Seq(BatchRec)
      BY <3>1, <3>2, SentIds
    <3> QED
      BY <1>1, <3>1, <3>3, TakenIds
  <2>2. /\ new \in KdRec /\ new.chan = Tail(kd[c].chan)
        /\ new.got = Append(kd[c].got, b) /\ new.pc = kd[c].pc
        /\ new.step = kd[c].step /\ new.queue = kd[c].queue /\ new.hand = kd[c].hand
        /\ new.next = kd[c].next /\ new.dropped = kd[c].dropped
        /\ new.beats = kd[c].beats /\ new.sender = kd[c].sender
        /\ new.sending = kd[c].sending /\ new.lost = kd[c].lost
        /\ new.setupFailed = kd[c].setupFailed
    BY ONLY <1>1, <2>1 DEF KdRec
  <2>3. kd' = [kd EXCEPT ![c] = new]
    BY <1>1 DEF ClientRecv
  <2> HIDE DEF new
  <2>4. Ids(new.got) = Ids(kd[c].got) \cup {b.id} /\ Rising(new.got)
    <3>1. Rising(kd[c].got) /\ Below(Ids(kd[c].got), {b.id})
      BY <1>1, <2>1 DEF RisingLine, Below
    <3> HIDE DEF b
    <3> QED
      BY <2>1, <2>2, <3>1, SentIds
  <2>5. OnTheWay(new) = OnTheWay(kd[c])
    BY <2>1, <2>2, <2>4 DEF OnTheWay
  <2>6. Phase(new) /\ Excused(new, cancel[c])
    BY <1>1, <2>1, <2>2, <2>4, <2>5 DEF Phase, Excused
  <2>7. RisingLine(new)
    BY <1>1, <2>2, <2>4, <2>5, <2>1 DEF RisingLine, Below
  <2>8. GivenUp(new)
    BY <1>1, <2>2, <2>4, <2>5 DEF GivenUp
  <2>9. Taken(new)
    BY <1>1, <2>2, <2>4, <2>5 DEF Taken
  <2>10. Flow(new, cancel'[c])
    BY <1>3, <2>6, <2>7, <2>8, <2>9 DEF Flow
  <2> QED
    BY <1>1, <1>2, <1>3, <2>2, <2>3, <2>10, SessionKeeps DEF KdTypeOK, Draining
<1> QED
  BY <1>4

\* The client is gone.
LEMMA ClientCloseKeeps ==
  ASSUME KdInd, NEW c \in Callers, ClientClose(c)
  PROVE  KdInd'
<1>1. /\ kd[c] \in KdRec /\ KdTypeOK /\ Phase(kd[c]) /\ RisingLine(kd[c]) /\ GivenUp(kd[c])
      /\ Taken(kd[c]) /\ Excused(kd[c], cancel[c])
  BY DEF KdInd, KdTypeOK, KdFlow, Flow, ClientClose
<1>2. UNCHANGED <<slot, hw, stop>>
  BY DEF ClientClose
<1>3. UNCHANGED cancel
  BY DEF ClientClose
<1>4. KdInd'
  <2> DEFINE new == [kd[c] EXCEPT !.rx = FALSE]
  <2>1. FALSE \in BOOLEAN
    OBVIOUS
  <2>2. /\ new \in KdRec /\ new.rx = FALSE /\ new.pc = kd[c].pc
        /\ new.step = kd[c].step /\ new.queue = kd[c].queue /\ new.hand = kd[c].hand
        /\ new.next = kd[c].next /\ new.dropped = kd[c].dropped
        /\ new.beats = kd[c].beats /\ new.sender = kd[c].sender
        /\ new.sending = kd[c].sending /\ new.chan = kd[c].chan
        /\ new.got = kd[c].got /\ new.lost = kd[c].lost
        /\ new.setupFailed = kd[c].setupFailed
    BY ONLY <1>1, <2>1 DEF KdRec
  <2>3. kd' = [kd EXCEPT ![c] = new]
    BY <1>1 DEF ClientClose
  <2> HIDE DEF new
  <2>4. OnTheWay(new) = OnTheWay(kd[c])
    BY <2>2 DEF OnTheWay
  <2>5. Phase(new) /\ Excused(new, cancel[c])
    BY <1>1, <2>1, <2>2, <2>4 DEF Phase, Excused
  <2>6. RisingLine(new)
    BY <1>1, <2>2, <2>4 DEF RisingLine, Below
  <2>7. GivenUp(new)
    BY <1>1, <2>2, <2>4 DEF GivenUp
  <2>8. Taken(new)
    BY <1>1, <2>2, <2>4 DEF Taken
  <2>9. Flow(new, cancel'[c])
    BY <1>3, <2>5, <2>6, <2>7, <2>8 DEF Flow
  <2> QED
    BY <1>1, <1>2, <1>3, <2>2, <2>3, <2>9, SessionKeeps DEF KdTypeOK, Draining
<1> QED
  BY <1>4

\* The session is over: what was still queued or in the sender's hand is lost.
LEMMA FlushedKeeps ==
  ASSUME KdInd, NEW c \in Callers, At(c, "flush"), Flushed(c)
  PROVE  KdInd'
<1>1. /\ kd[c] \in KdRec /\ KdTypeOK /\ Phase(kd[c]) /\ RisingLine(kd[c]) /\ GivenUp(kd[c])
      /\ Taken(kd[c]) /\ Excused(kd[c], cancel[c]) /\ kd[c].pc = "flush" /\ kd[c].hand = <<>>
      /\ kd[c].sender # "off"
  BY DEF KdInd, KdTypeOK, KdFlow, Flow, At, Phase
<1>2. UNCHANGED <<slot, hw, stop>>
  BY DEF Flushed
<1>3. UNCHANGED cancel
  BY DEF Flushed
<1> DEFINE out == Ids(kd[c].queue) \cup Ids(kd[c].sending)
<1>4. out \in SUBSET Nat /\ Ids(<<>>) = {} /\ Ids(kd[c].got) \in SUBSET Nat /\ Ids(kd[c].chan) \in SUBSET Nat
  BY <1>1, IdsAt, NoIds DEF KdRec
<1>5. KdInd'
  <2> DEFINE new == [kd[c] EXCEPT !.pc = "teardown", !.sender = "done", !.lost = kd[c].lost \cup out, !.queue = <<>>, !.sending = <<>>]
  <2>1. kd[c].lost \cup out \in SUBSET Nat /\ <<>> \in Seq(BatchRec) /\ "teardown" \in KdPcs
    BY <1>1, <1>4, EmptySeq DEF KdRec, KdPcs
  <2>2. /\ new \in KdRec /\ new.pc = "teardown" /\ new.sender = "done"
        /\ new.lost = kd[c].lost \cup out /\ new.queue = <<>> /\ new.sending = <<>>
        /\ new.step = kd[c].step /\ new.hand = kd[c].hand /\ new.next = kd[c].next
        /\ new.dropped = kd[c].dropped /\ new.beats = kd[c].beats
        /\ new.chan = kd[c].chan /\ new.got = kd[c].got
        /\ new.setupFailed = kd[c].setupFailed
    BY ONLY <1>1, <2>1 DEF KdRec
  <2>3. kd' = [kd EXCEPT ![c] = new]
    <3>1. kd[c].lost \cup out = kd[c].lost \cup Ids(kd[c].queue) \cup Ids(kd[c].sending)
      OBVIOUS
    <3> QED
      BY <1>1, <3>1 DEF Flushed
  <2> HIDE DEF new
  <2>4. Ids(new.queue) = {} /\ Ids(new.sending) = {} /\ Ids(new.hand) = {} /\ Rising(new.queue)
    BY <1>1, <2>2, NoIds
  <2>5. OnTheWay(new) \cup out = OnTheWay(kd[c]) /\ out \cap OnTheWay(new) = {}
    BY <1>1, <1>4, <2>2, <2>4 DEF OnTheWay, Below, RisingLine
  <2>6. Phase(new) /\ Excused(new, cancel[c])
    BY <1>1, <2>1, <2>2, <2>4, <2>5 DEF Phase, Excused
  <2>7. RisingLine(new)
    BY <1>1, <2>2, <2>4, <2>5, <1>4 DEF RisingLine, Below
  <2>8. GivenUp(new)
    BY <1>1, <2>2, <2>4, <2>5 DEF GivenUp
  <2>9. Taken(new)
    BY <1>1, <2>2, <2>4, <2>5 DEF Taken
  <2>10. Flow(new, cancel'[c])
    BY <1>3, <2>6, <2>7, <2>8, <2>9 DEF Flow
  <2> QED
    BY <1>1, <1>2, <1>3, <2>2, <2>3, <2>10, SessionKeeps DEF KdTypeOK, Draining
<1> QED
  BY <1>5

\* A stop looks up the session and later stores its cancel flag.
LEMMA StopKeeps ==
  ASSUME KdInd, StopLookup \/ StopStore
  PROVE  KdInd'
<1>1. UNCHANGED <<slot, hw, kd>> /\ KdTypeOK /\ KdOwned /\ KdFlow
  BY DEF StopLookup, StopStore, KdInd
<1>2. KdTypeOK' /\ \A c \in Callers : cancel[c] => cancel'[c]
  BY <1>1 DEF StopLookup, StopStore, KdTypeOK
<1>3. KdOwned'
  BY <1>1 DEF KdOwned, Holds, InSession, Draining
<1>4. ASSUME NEW c \in Callers PROVE Flow(kd'[c], cancel'[c])
  <2>1. Flow(kd[c], cancel[c]) /\ kd'[c] = kd[c] /\ (cancel[c] => cancel'[c])
    BY <1>1, <1>2 DEF KdFlow
  <2> QED
    BY <2>1 DEF Flow, Excused
<1> QED
  BY <1>2, <1>3, <1>4 DEF KdInd, KdFlow

\* Every step keeps the invariant.
LEMMA KdStepKeeps == KdInd /\ [KdNext]_kdVars => KdInd'
<1> SUFFICES ASSUME KdInd, [KdNext]_kdVars PROVE KdInd'
  OBVIOUS
<1>1. CASE UNCHANGED kdVars
  BY <1>1 DEF kdVars, KdInd, KdTypeOK, KdOwned, Holds, InSession, Draining, KdFlow
<1>2. CASE StopLookup \/ StopStore
  BY <1>2, StopKeeps
<1>3. ASSUME NEW c \in Callers, Record(c) \/ KdStep(c) PROVE KdInd'
  BY <1>3, RecordKeeps, GateKeeps, SetupKeeps, ReadyKeeps, TeardownKeeps, ReleaseKeeps,
     CheckCancelKeeps, ReadTraceKeeps, TrySendBatchKeeps, EvictKeeps, FlushedKeeps
     DEF KdStep, Flush, FlushTimeout
<1>4. ASSUME NEW c \in Callers, SenderTake(c) \/ SenderSend(c) \/ ClientRecv(c) \/ ClientClose(c)
      PROVE  KdInd'
  BY <1>4, SenderTakeKeeps, SenderSendKeeps, ClientRecvKeeps, ClientCloseKeeps
<1> QED
  BY <1>1, <1>2, <1>3, <1>4 DEF KdNext

-----------------------------------------------------------------------------
(* Theorems *)

\* While a session drains, every kernel facility is as it set it, for any
\* number of callers and whatever earlier sessions left; a facility outlives
\* its session only after a set-up that failed half way (run, setup_kperf,
\* setup_kdebug, teardown in staxd/src/session.rs).
THEOREM HardwareOwnedThm == KdSpec => []HardwareOwned
<1>1. KdInd => HardwareOwned
  <2> SUFFICES ASSUME KdInd PROVE HardwareOwned
    OBVIOUS
  <2>1. ASSUME NEW c \in Callers, Draining(c), NEW f \in Facilities PROVE hw[f] = c
    BY <2>1 DEF KdInd, KdOwned, Holds
  <2>2. ASSUME NEW f \in Facilities, hw[f] # None
        PROVE  InSession(hw[f]) \/ kd[hw[f]].setupFailed
    <3>1. hw[f] \in Callers
      BY <2>2 DEF KdInd, KdTypeOK
    <3>2. Holds(hw[f]) /\ kd[hw[f]].pc \in KdPcs
      BY <3>1 DEF KdInd, KdTypeOK, KdOwned, KdRec
    <3> QED
      BY <3>2 DEF Holds, InSession
  <2> QED
    BY <2>1, <2>2 DEF HardwareOwned
<1> QED
  BY KdStart, KdStepKeeps, <1>1, PTL DEF KdSpec

\* Every batch taken from the kernel is in exactly one place, and the client
\* sees batches in the order they were drained, for any queue and channel
\* capacities (enqueue_drop_oldest, send_batches, the flush of drain).
THEOREM DrainAccountedThm == KdSpec => []DrainAccounted
<1>1. KdInd => DrainAccounted
  <2> SUFFICES ASSUME KdInd, NEW c \in Callers
               PROVE  LET s == kd[c]
                          places == <<Ids(s.hand), Ids(s.queue), Ids(s.sending),
                                      Ids(s.chan), Ids(s.got), s.dropped, s.beats, s.lost>>
                          stream == s.got \o s.chan \o s.sending \o s.queue \o s.hand
                      IN  /\ s.sender # "off" => UNION ToSet(places) = 1 .. (s.next - 1)
                          /\ \A i, j \in DOMAIN places : i < j => places[i] \cap places[j] = {}
                          /\ \A i, j \in DOMAIN stream : i < j => stream[i].id < stream[j].id
                          /\ s.lost # {} => cancel[c] \/ s.pc \in {"flush", "teardown", "release", "done"}
    BY DEF DrainAccounted
  <2> DEFINE s == kd[c]
             places == <<Ids(s.hand), Ids(s.queue), Ids(s.sending),
                         Ids(s.chan), Ids(s.got), s.dropped, s.beats, s.lost>>
             stream == s.got \o s.chan \o s.sending \o s.queue \o s.hand
  <2>1. /\ s \in KdRec /\ Phase(s) /\ RisingLine(s) /\ GivenUp(s) /\ Taken(s) /\ Excused(s, cancel[c])
    BY DEF KdInd, KdTypeOK, KdFlow, Flow
  <2>2. /\ s.got \in Seq(BatchRec) /\ s.chan \in Seq(BatchRec) /\ s.sending \in Seq(BatchRec)
        /\ s.queue \in Seq(BatchRec) /\ s.hand \in Seq(BatchRec)
    BY <2>1 DEF KdRec
  <2>3. ASSUME NEW bs \in Seq(BatchRec), bs = <<>> \/ Tail(bs) = <<>> PROVE Rising(bs)
    <3>1. CASE bs = <<>>
      BY <3>1, NoIds
    <3>2. CASE bs # <<>> /\ Tail(bs) = <<>>
      <4>1. Len(bs) = 1 /\ DOMAIN bs = 1 .. Len(bs)
        <5>1. Len(Tail(bs)) = Len(bs) - 1 /\ Len(Tail(bs)) = 0 /\ Len(bs) \in Nat
          BY <3>2, HeadTailProperties, IdsAt, EmptySeq
        <5> QED
          BY <5>1, IdsAt
      <4> QED
        BY <4>1 DEF Rising
    <3> QED
      BY <2>3, <3>1, <3>2
  <2>4. Rising(s.sending) /\ Rising(s.hand)
    BY <2>1, <2>2, <2>3 DEF Phase
  <2>5. \A i, j \in DOMAIN stream : i < j => stream[i].id < stream[j].id
    <3> HIDE DEF s
    <3>1. /\ s.got \o s.chan \in Seq(BatchRec) /\ Rising(s.got \o s.chan)
          /\ Ids(s.got \o s.chan) = Ids(s.got) \cup Ids(s.chan)
      BY <2>1, <2>2, JoinedIds DEF RisingLine
    <3> DEFINE two == s.got \o s.chan
               three == two \o s.sending
               four == three \o s.queue
    <3> HIDE DEF two
    <3>2. three \in Seq(BatchRec) /\ Rising(three) /\ Ids(three) = Ids(two) \cup Ids(s.sending)
      BY <2>1, <2>2, <2>4, <3>1, JoinedIds DEF RisingLine, two
    <3> HIDE DEF three
    <3>3. four \in Seq(BatchRec) /\ Rising(four) /\ Ids(four) = Ids(three) \cup Ids(s.queue)
      <4>1. Ids(three) = Ids(s.got) \cup Ids(s.chan) \cup Ids(s.sending)
        BY <3>1, <3>2 DEF two
      <4>2. Below(Ids(three), Ids(s.queue)) /\ Rising(s.queue)
        BY <2>1, <4>1 DEF RisingLine
      <4> QED
        BY ONLY <2>2, <3>2, <4>2, JoinedIds
    <3> HIDE DEF four
    <3>4. Rising(four \o s.hand)
      <4>1. Ids(four) = Ids(s.got) \cup Ids(s.chan) \cup Ids(s.sending) \cup Ids(s.queue)
        BY <3>1, <3>2, <3>3 DEF two
      <4>2. Below(Ids(four), Ids(s.hand))
        BY <2>1, <4>1 DEF RisingLine
      <4> QED
        BY ONLY <2>2, <2>4, <3>3, <4>2, JoinedIds
    <3> QED
      BY <3>4 DEF Rising, two, three, four
  <2>6. /\ Ids(s.got) \in SUBSET Nat /\ Ids(s.chan) \in SUBSET Nat /\ Ids(s.sending) \in SUBSET Nat
        /\ Ids(s.queue) \in SUBSET Nat /\ Ids(s.hand) \in SUBSET Nat
    BY <2>2, IdsAt
  <2>7. ASSUME s.sender # "off" PROVE UNION ToSet(places) = 1 .. (s.next - 1)
    <3>1. UNION ToSet(places) = OnTheWay(s) \cup s.dropped \cup s.beats \cup s.lost
      <4>1. /\ DOMAIN places = 1 .. 8
            /\ places[1] = Ids(s.hand) /\ places[2] = Ids(s.queue) /\ places[3] = Ids(s.sending)
            /\ places[4] = Ids(s.chan) /\ places[5] = Ids(s.got) /\ places[6] = s.dropped
            /\ places[7] = s.beats /\ places[8] = s.lost
        OBVIOUS
      <4> HIDE DEF places, s
      <4>2. ToSet(places) = {Ids(s.hand), Ids(s.queue), Ids(s.sending), Ids(s.chan), Ids(s.got),
                             s.dropped, s.beats, s.lost}
        BY <4>1 DEF ToSet
      <4> QED
        BY <4>2 DEF OnTheWay
    <3> QED
      BY <2>1, <2>7, <3>1 DEF Taken
  <2>8. ASSUME NEW i \in DOMAIN places, NEW j \in DOMAIN places, i < j
        PROVE  places[i] \cap places[j] = {}
    <3>2. /\ Ids(s.hand) \cap Ids(s.queue) = {} /\ Ids(s.hand) \cap Ids(s.sending) = {}
          /\ Ids(s.hand) \cap Ids(s.chan) = {} /\ Ids(s.hand) \cap Ids(s.got) = {}
          /\ Ids(s.queue) \cap Ids(s.sending) = {} /\ Ids(s.queue) \cap Ids(s.chan) = {}
          /\ Ids(s.queue) \cap Ids(s.got) = {} /\ Ids(s.sending) \cap Ids(s.chan) = {}
          /\ Ids(s.sending) \cap Ids(s.got) = {} /\ Ids(s.chan) \cap Ids(s.got) = {}
      BY <2>1, <2>6 DEF RisingLine, Below
    <3>3. \A A \in {Ids(s.got), Ids(s.chan), Ids(s.sending), Ids(s.queue), Ids(s.hand)} :
            A \cap s.dropped = {} /\ A \cap s.beats = {} /\ A \cap s.lost = {}
      BY <2>1 DEF GivenUp, OnTheWay
    <3>4. s.dropped \cap s.beats = {} /\ s.dropped \cap s.lost = {} /\ s.beats \cap s.lost = {}
      BY <2>1 DEF GivenUp
    <3>5. /\ DOMAIN places = 1 .. 8
          /\ places[1] = Ids(s.hand) /\ places[2] = Ids(s.queue) /\ places[3] = Ids(s.sending)
          /\ places[4] = Ids(s.chan) /\ places[5] = Ids(s.got) /\ places[6] = s.dropped
          /\ places[7] = s.beats /\ places[8] = s.lost
      OBVIOUS
    <3> HIDE DEF places, s
    <3> QED
      BY <2>8, <3>2, <3>3, <3>4, <3>5
  <2>9. s.lost # {} => cancel[c] \/ s.pc \in {"flush", "teardown", "release", "done"}
    BY <2>1 DEF Excused
  <2> HIDE DEF s, places, stream
  <2>10. /\ s.sender # "off" => UNION ToSet(places) = 1 .. (s.next - 1)
         /\ \A i, j \in DOMAIN places : i < j => places[i] \cap places[j] = {}
    BY <2>7, <2>8
  <2> QED
    BY <2>5, <2>9, <2>10 DEF s, places, stream
<1> QED
  BY KdStart, KdStepKeeps, <1>1, PTL DEF KdSpec
=============================================================================
