---------------------------- MODULE KperfDaemon ----------------------------
(***************************************************************************)
(* staxd on macOS: the single session slot (staxd/src/macos.rs) and the    *)
(* driver of one session (staxd/src/session.rs), with the kernel's trace   *)
(* facilities as the shared resource it configures.                        *)
(*                                                                         *)
(*   slot    the caller whose session holds the daemon (None: idle)        *)
(*   hw      who last configured each kernel facility (None: switched off) *)
(*   cancel  the cancel flag of each session                               *)
(*   stop    the session a stop_recording call has looked up               *)
(*   kd      per caller: the record() call, its send queue and sender task *)
(*                                                                         *)
(* A batch is [id, recs]; recs = 0 is a heartbeat.  The drain thread holds *)
(* both ends of the send queue, so a send never finds it disconnected.     *)
(***************************************************************************)
EXTENDS Naturals, Sequences, FiniteSets, SequencesExt

CONSTANTS Callers,       \* connections that call record() once
          None,
          QueueCap,      \* SEND_QUEUE_CAPACITY
          ChannelCap,    \* STAXD_RECORD_CHANNEL_CAPACITY
          MaxBatches     \* bound: batches each caller's session queues

ASSUME KdAssumption == None \notin Callers

VARIABLES slot, hw, cancel, stop, kd
kdVars == <<slot, hw, cancel, stop, kd>>

\* setup_kperf and then setup_kdebug, in the order of their calls.
SetupSteps == <<"timers", "counting", "threads", "light_pet", "sampling",
                "buffer", "trace">>
Facilities == ToSet(SetupSteps)

NoSession == [pc |-> "idle", step |-> 1, queue |-> <<>>, hand |-> <<>>,
              next |-> 1, dropped |-> {}, beats |-> {}, sender |-> "off",
              sending |-> <<>>, chan |-> <<>>, got |-> <<>>, lost |-> {},
              rx |-> TRUE, setupFailed |-> FALSE]

KdInit == /\ slot = None
          /\ hw = [f \in Facilities |-> None]
          /\ cancel = [c \in Callers |-> FALSE]
          /\ stop = None
          /\ kd = [c \in Callers |-> NoSession]

InSession(c) == kd[c].pc \notin {"idle", "done"}
At(c, pc) == kd[c].pc = pc
Goto(c, pc) == kd' = [kd EXCEPT ![c].pc = pc]

----------------------------------------------------------------------------
(* record() and run() *)

MutantNoSlotCheck == TRUE

\* The slot is looked up and claimed under one hold of its lock.
SlotFree == slot = None

Record(c) ==
  /\ At(c, "idle")
  /\ IF SlotFree
       THEN slot' = c /\ Goto(c, "gate")
       ELSE Goto(c, "done") /\ UNCHANGED slot
  /\ UNCHANGED <<hw, cancel, stop>>

\* What the wipe of stale state switches off; the counters are not in it.
Wiped == {"timers", "light_pet", "sampling", "buffer", "trace"}

\* bindings::load or the root check fails, or the stale state is wiped.
Gate(c) ==
  /\ At(c, "gate")
  /\ \/ Goto(c, "release") /\ UNCHANGED hw
     \/ /\ hw' = [f \in Facilities |-> IF f \in Wiped THEN None ELSE hw[f]]
        /\ Goto(c, "setup")
  /\ UNCHANGED <<slot, cancel, stop>>

\* One call of the set-up; a call that fails returns past the teardown.
Setup(c) ==
  /\ At(c, "setup")
  /\ \/ /\ hw' = [hw EXCEPT ![SetupSteps[kd[c].step]] = c]
        /\ kd' = [kd EXCEPT ![c].step = @ + 1,
                            ![c].pc = IF kd[c].step = Len(SetupSteps)
                                        THEN "ready" ELSE "setup"]
     \/ /\ kd' = [kd EXCEPT ![c].pc = "release", ![c].setupFailed = TRUE]
        /\ UNCHANGED hw
  /\ UNCHANGED <<slot, cancel, stop>>

\* drain(): the sender task is spawned and the ready batch queued.
Ready(c) ==
  /\ At(c, "ready")
  /\ kd' = [kd EXCEPT ![c].pc = "loop", ![c].sender = "wait", ![c].next = 2,
                      ![c].queue = <<[id |-> 1, recs |-> 0]>>]
  /\ UNCHANGED <<slot, hw, cancel, stop>>

TornDown == [f \in Facilities |-> None]

Teardown(c) ==
  /\ At(c, "teardown")
  /\ hw' = TornDown
  /\ Goto(c, "release")
  /\ UNCHANGED <<slot, cancel, stop>>

\* record() returns; what is left in the channel is no longer followed.
Release(c) ==
  /\ At(c, "release")
  /\ slot' = None
  /\ kd' = [kd EXCEPT ![c] = [NoSession EXCEPT !.pc = "done",
                                               !.setupFailed = kd[c].setupFailed]]
  /\ UNCHANGED <<hw, cancel, stop>>

----------------------------------------------------------------------------
(* drain_kdebug_loop: the drain thread *)

CheckCancel(c) ==
  /\ At(c, "loop")
  /\ Goto(c, IF cancel[c] THEN "flush" ELSE "read")
  /\ UNCHANGED <<slot, hw, cancel, stop>>

\* KERN_KDREADTR: nothing, nothing but a heartbeat is due, records, an error.
ReadTrace(c) ==
  /\ At(c, "read")
  /\ \/ Goto(c, "loop")
     \/ \E recs \in {0, 1} :
          /\ kd[c].next <= MaxBatches[c]
          /\ kd' = [kd EXCEPT ![c].pc = "enqueue", ![c].next = @ + 1,
                              ![c].hand = <<[id |-> kd[c].next, recs |-> recs]>>]
     \/ Goto(c, "flush")
  /\ UNCHANGED <<slot, hw, cancel, stop>>

\* enqueue_drop_oldest, first half of its loop: try_send.
TrySendBatch(c) ==
  /\ At(c, "enqueue")
  /\ LET b == Head(kd[c].hand) IN
     kd' = IF Len(kd[c].queue) < QueueCap
             THEN [kd EXCEPT ![c].pc = "loop", ![c].hand = <<>>,
                             ![c].queue = Append(@, b)]
           ELSE IF b.recs = 0
             THEN [kd EXCEPT ![c].pc = "loop", ![c].hand = <<>>,
                             ![c].beats = @ \cup {b.id}]
           ELSE [kd EXCEPT ![c].pc = "evict"]
  /\ UNCHANGED <<slot, hw, cancel, stop>>

MutantUncountedDrop(s, b) == s

\* record_drop
CountDrop(s, b) ==
  IF b.recs = 0 THEN [s EXCEPT !.beats = @ \cup {b.id}]
                ELSE [s EXCEPT !.dropped = @ \cup {b.id}]

\* Its second half: evict the oldest, unless the sender has emptied the queue.
Evict(c) ==
  /\ At(c, "evict")
  /\ LET s == kd[c] IN
     kd' = [kd EXCEPT ![c] =
             IF s.queue = <<>> THEN [s EXCEPT !.pc = "enqueue"]
             ELSE [CountDrop(s, Head(s.queue)) EXCEPT !.queue = Tail(@),
                                                      !.pc = "enqueue"]]
  /\ UNCHANGED <<slot, hw, cancel, stop>>

Ids(batches) == {b.id : b \in ToSet(batches)}

\* The session is over; what the queue or the sender still holds is lost.
Flushed(c) ==
  /\ kd' = [kd EXCEPT ![c].pc = "teardown", ![c].sender = "done",
                      ![c].lost = @ \cup Ids(kd[c].queue) \cup Ids(kd[c].sending),
                      ![c].queue = <<>>, ![c].sending = <<>>]
  /\ UNCHANGED <<slot, hw, cancel, stop>>

\* After the join, the sender has ended on its own ...
Flush(c) ==
  /\ At(c, "flush")
  /\ kd[c].sender = "done"
  /\ Flushed(c)

MutantNoBudget(c) == Flush(c)

\* ... or SEND_FLUSH_BUDGET runs out and it is aborted.
FlushTimeout(c) ==
  /\ At(c, "flush")
  /\ kd[c].sender # "done"
  /\ Flushed(c)

----------------------------------------------------------------------------
(* send_batches: the sender task *)

SenderTake(c) ==
  /\ kd[c].sender = "wait"
  /\ \/ /\ kd[c].queue # <<>>
        /\ kd' = [kd EXCEPT ![c].sender = "send", ![c].queue = Tail(@),
                            ![c].sending = <<Head(kd[c].queue)>>]
     \/ /\ kd[c].queue = <<>> /\ At(c, "flush")     \* the queue was dropped
        /\ kd' = [kd EXCEPT ![c].sender = "done"]
  /\ UNCHANGED <<slot, hw, cancel, stop>>

\* Tx::send waits for credit and fails once the client is gone.
SenderSend(c) ==
  /\ kd[c].sender = "send"
  /\ IF kd[c].rx
       THEN /\ Len(kd[c].chan) < ChannelCap
            /\ kd' = [kd EXCEPT ![c].sender = "wait", ![c].sending = <<>>,
                                ![c].chan = Append(@, Head(kd[c].sending))]
            /\ UNCHANGED cancel
       ELSE /\ kd' = [kd EXCEPT ![c].sender = "done", ![c].sending = <<>>,
                                ![c].lost = @ \cup Ids(kd[c].sending)]
            /\ cancel' = [cancel EXCEPT ![c] = TRUE]
  /\ UNCHANGED <<slot, hw, stop>>

----------------------------------------------------------------------------
(* stop_recording, from any connection, and the client's end of the stream *)

StopLookup ==
  /\ stop = None
  /\ slot # None
  /\ stop' = slot
  /\ UNCHANGED <<slot, hw, cancel, kd>>

StopStore ==
  /\ stop # None
  /\ cancel' = [cancel EXCEPT ![stop] = TRUE]
  /\ stop' = None
  /\ UNCHANGED <<slot, hw, kd>>

ClientRecv(c) ==
  /\ kd[c].rx /\ kd[c].chan # <<>>
  /\ kd' = [kd EXCEPT ![c].chan = Tail(@), ![c].got = Append(@, Head(kd[c].chan))]
  /\ UNCHANGED <<slot, hw, cancel, stop>>

ClientClose(c) ==
  /\ kd[c].rx /\ InSession(c)
  /\ kd' = [kd EXCEPT ![c].rx = FALSE]
  /\ UNCHANGED <<slot, hw, cancel, stop>>

KdStep(c) ==
  \/ Gate(c) \/ Setup(c) \/ Ready(c) \/ Teardown(c) \/ Release(c)
  \/ CheckCancel(c) \/ ReadTrace(c) \/ TrySendBatch(c) \/ Evict(c) \/ Flush(c)
  \/ FlushTimeout(c)

KdNext ==
  \/ \E c \in Callers : \/ Record(c) \/ KdStep(c) \/ SenderTake(c)
                        \/ SenderSend(c) \/ ClientRecv(c) \/ ClientClose(c)
  \/ StopLookup \/ StopStore

\* The drain thread and the record() task are never kept from running.
KdFairness == \A c \in Callers : WF_kdVars(KdStep(c))

KdSpec == KdInit /\ [][KdNext]_kdVars

----------------------------------------------------------------------------
(* Properties *)

Draining(c) == kd[c].pc \in {"ready", "loop", "read", "enqueue", "evict", "flush"}

\* A session reads traces of its own making: while it drains, every kernel
\* facility is as it set it, whatever an earlier session left behind and
\* whatever another caller asks for; and a facility stays configured after
\* its session only when that session's set-up failed half way, which is the
\* one path of run() without a teardown.
HardwareOwned ==
  /\ \A c \in Callers : Draining(c) => \A f \in Facilities : hw[f] = c
  /\ \A f \in Facilities :
       hw[f] # None => InSession(hw[f]) \/ kd[hw[f]].setupFailed

\* Every batch the drain thread took from the kernel is in exactly one place:
\* in its hand, queued, in the sender's hand, in the channel, received,
\* counted as dropped, or lost with the session's end or the client's close;
\* and the client sees batches in the order they were drained.
DrainAccounted ==
  \A c \in Callers :
    LET s == kd[c]
        places == <<Ids(s.hand), Ids(s.queue), Ids(s.sending),
                    Ids(s.chan), Ids(s.got), s.dropped, s.beats, s.lost>>
        stream == s.got \o s.chan \o s.sending \o s.queue \o s.hand
    IN  /\ s.sender # "off" =>
             UNION ToSet(places) = 1 .. (s.next - 1)
        /\ \A i, j \in DOMAIN places : i < j => places[i] \cap places[j] = {}
        /\ \A i, j \in DOMAIN stream : i < j => stream[i].id < stream[j].id
        /\ s.lost # {} => cancel[c] \/ s.pc \in {"flush", "teardown", "release", "done"}

\* A cancelled session gives the slot back, even when the client has stopped
\* reading and the sender is stuck without credit: none holds it for good.
CancelReleases ==
  \A c \in Callers : ~<>[](slot = c /\ cancel[c])
=============================================================================
