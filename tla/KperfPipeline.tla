--------------------------- MODULE KperfPipeline ---------------------------
(***************************************************************************)
(* The macOS record pipeline of stax-mac-kperf-parse: the sample assembler *)
(* (parser.rs), the CPU interval tracker (offcpu.rs), the batch driver     *)
(* that joins them (pipeline.rs), and the probe trigger scanner of         *)
(* staxd-client, fed by a kernel that switches, wakes and samples threads. *)
(*                                                                         *)
(*   kern   the truth: time, the thread on each CPU, closed intervals, the *)
(*          walks taken, the records of the walk still to be written       *)
(*   ps     Parser;  tg  KperfProbeTriggerScanner                          *)
(*   tr     CpuIntervalTracker;  seen  Pipeline::seen_tids                 *)
(*   out    what the sink got: the last sample and the last batch's        *)
(*          intervals and wakeups                                          *)
(*                                                                         *)
(* Tid 0 is the idle thread; 0 also stands for "no time" and a null frame. *)
(***************************************************************************)
EXTENDS Naturals, Sequences, FiniteSets, SequencesExt

CONSTANTS KpCpus, KpTids,
          Walks,       \* the stack walks PET may take
          Chunk,       \* frames one record carries (4)
          Unseen,      \* no thread known on this CPU yet
          KpMaxTime,     \* bound: clock ticks
          MaxWalks,    \* bound: samples taken
          MaxWakes     \* bound: wakeups

VARIABLES kern, ps, tg, tr, seen, out
kpVars == <<kern, ps, tg, tr, seen, out>>

\* A walk that reads any user frame at all ends its chain with one fixup, the
\* saved link register; one that fails reads no frame.
ASSUME KpAssumption ==
  /\ Chunk \in Nat \ {0}
  /\ 0 \notin KpTids /\ Unseen \notin KpTids \cup {0}
  /\ Walks \subseteq [tid : KpTids, chain : Seq(Nat), fixup : Seq(Nat), async : Seq(Nat),
                      kernel : Seq(Nat)]
  /\ \A w \in Walks : IF w.chain = <<>> THEN w.fixup = <<>> /\ w.async = <<>>
                                         ELSE Len(w.fixup) = 1

NoThread == [on |-> 0, off |-> 0, user |-> <<>>, kernel |-> <<>>, waker |-> 0]

IdleParser == [busy |-> FALSE, tid |-> 0, ts |-> 0, user |-> <<>>, kernel |-> <<>>,
               main |-> 0, left |-> 0, kleft |-> 0]
IdleScanner == [busy |-> FALSE, tid |-> 0, triggered |-> FALSE, last |-> <<>>]

KpInit ==
  /\ \E on \in [KpCpus -> KpTids \cup {0}] :
       /\ \A c, d \in KpCpus : c # d /\ on[c] # 0 => on[c] # on[d]
       /\ kern = [now |-> 1, on |-> on, closed |-> {}, todo |-> <<>>,
                  walk |-> <<>>, walks |-> 0, wakes |-> 0,
                  mark |-> [t \in KpTids |-> [run |-> \E c \in KpCpus : on[c] = t, at |-> 1]],
                  stack |-> [t \in KpTids |-> <<>>]]
  /\ ps = IdleParser
  /\ tg = IdleScanner
  /\ tr = [onCpu |-> [c \in KpCpus |-> Unseen],
           th |-> [t \in KpTids |-> NoThread], pending |-> <<>>, wakeups |-> <<>>]
  /\ seen = {}
  /\ out = [sample |-> <<>>, intervals |-> {}, wakeups |-> <<>>]

----------------------------------------------------------------------------
(* Parser: one operator per record *)

\* The data records that carry a list of frames, padded with nulls.
Chunks(frames) ==
  LET frame(n) == IF n <= Len(frames) THEN frames[n] ELSE 0
  IN  [i \in 1 .. (Len(frames) + Chunk - 1) \div Chunk |->
         [j \in 1 .. Chunk |-> frame((i - 1) * Chunk + j)]]

\* What xnu writes for one walk: the frame-pointer chain, then the fixup (the
\* saved link register), then async frames; the kernel stack likewise.
WalkRecords(w, ts) ==
  LET main == w.chain \o w.fixup
      data(k, fs) == [i \in 1 .. Len(Chunks(fs)) |-> [k |-> k, frames |-> Chunks(fs)[i]]]
  IN  <<[k |-> "start", tid |-> w.tid, ts |-> ts]>>
        \o (IF main = <<>> THEN <<[k |-> "error"]>>
            ELSE <<[k |-> "uhdr", main |-> Len(main), async |-> Len(w.async)]>>
                   \o data("udata", main \o w.async))
        \o (IF w.kernel = <<>> THEN <<>>
            ELSE <<[k |-> "khdr", main |-> Len(w.kernel), async |-> 0]>>
                   \o data("kdata", w.kernel))
        \o <<[k |-> "end"]>>

\* append_chunk
Appended(frames, left, rec) ==
  frames \o SubSeq(rec.frames, 1, IF left < Chunk THEN left ELSE Chunk)
Remaining(left) == IF left < Chunk THEN 0 ELSE left - Chunk

MutantNoFixup(p) == p.user

\* normalize_user_fixup
Normalized(p) ==
  LET main == IF p.main < Len(p.user) THEN p.main ELSE Len(p.user)
      fixup == p.user[main]
      rest == RemoveAt(p.user, main)
  IN  IF main < 2 THEN p.user
      ELSE IF fixup = 0 THEN p.user
      ELSE IF main > 2 /\ p.user[2] = fixup THEN rest
      ELSE InsertAt(rest, 2, fixup)

\* Everything from the first null frame on is dropped.
UpToNull(frames) ==
  LET nulls == {i \in DOMAIN frames : frames[i] = 0}
  IN  IF nulls = {} THEN frames
      ELSE SubSeq(frames, 1, (CHOOSE i \in nulls : \A j \in nulls : i <= j) - 1)

Fed(p, rec) ==
  CASE rec.k = "start" ->
         [IdleParser EXCEPT !.busy = TRUE, !.tid = rec.tid, !.ts = rec.ts]
    [] rec.k = "end" -> [p EXCEPT !.busy = FALSE]
    [] rec.k = "uhdr" /\ p.busy ->
         [p EXCEPT !.main = rec.main, !.left = rec.main + rec.async]
    [] rec.k = "udata" /\ p.busy ->
         [p EXCEPT !.user = Appended(@, p.left, rec), !.left = Remaining(@)]
    [] rec.k = "khdr" /\ p.busy -> [p EXCEPT !.kleft = rec.main + rec.async]
    [] rec.k = "kdata" /\ p.busy ->
         [p EXCEPT !.kernel = Appended(@, p.kleft, rec), !.kleft = Remaining(@)]
    [] OTHER -> p

\* The sample the end record completes, or none.
Completed(p, rec) ==
  IF rec.k = "end" /\ p.busy
    THEN <<[tid |-> p.tid, ts |-> p.ts, user |-> UpToNull(Normalized(p)),
            kernel |-> UpToNull(p.kernel)]>>
    ELSE <<>>

\* KperfProbeTriggerScanner::feed
Scanned(g, rec) ==
  CASE rec.k = "start" -> [g EXCEPT !.busy = TRUE, !.tid = rec.tid, !.triggered = FALSE]
    [] rec.k = "end" -> [g EXCEPT !.busy = FALSE]
    [] rec.k = "uhdr" /\ g.busy /\ ~g.triggered /\ rec.main + rec.async > 0 ->
         [g EXCEPT !.triggered = TRUE, !.last = <<g.tid>>]
    [] OTHER -> g

----------------------------------------------------------------------------
(* CpuIntervalTracker *)

\* note_sample: a sample without user frames leaves the cached stack alone.
Noted(th, s) ==
  IF s.user = <<>> THEN th
  ELSE [th EXCEPT ![s.tid].user = s.user, ![s.tid].kernel = s.kernel]

\* The thread that leaves the CPU: its on-CPU interval closes.
Departed(x, t, ts) ==
  LET st == x.th[t]
  IN  [x EXCEPT !.th[t].on = 0, !.th[t].off = ts,
                !.pending = IF st.on # 0 /\ ts > st.on
                              THEN Append(@, [tid |-> t, kind |-> "on", from |-> st.on,
                                              to |-> ts, stack |-> <<>>, waker |-> 0])
                              ELSE @]

\* The thread that comes on: its off-CPU interval closes, with the stack of
\* its last sample and the wakeup noted for it.
Arrived(x, t, ts) ==
  LET st == x.th[t]
      closes == st.off # 0 /\ ts > st.off
  IN  [x EXCEPT !.th[t].off = 0, !.th[t].on = ts,
                !.th[t].waker = IF closes THEN 0 ELSE @,
                !.pending = IF closes /\ st.user # <<>>
                              THEN Append(@, [tid |-> t, kind |-> "off", from |-> st.off,
                                              to |-> ts, stack |-> st.user, waker |-> st.waker])
                              ELSE @]

MutantIgnoresIdle(x, cpu, new, ts) ==
  LET prev == x.onCpu[cpu]
      left == IF prev \in KpTids /\ prev # new THEN Departed(x, prev, ts) ELSE x
  IN  IF new # 0 THEN Arrived([left EXCEPT !.onCpu[cpu] = new], new, ts) ELSE x

\* MACH_SCHED and MACH_STKHANDOFF
SchedFed(x, cpu, new, ts) ==
  LET prev == x.onCpu[cpu]
      left == IF prev \in KpTids /\ prev # new THEN Departed(x, prev, ts) ELSE x
      y == [left EXCEPT !.onCpu[cpu] = new]
  IN  IF new # 0 THEN Arrived(y, new, ts) ELSE y

\* MACH_MAKERUNNABLE: the waker is whoever runs on the recording CPU.
WakeFed(x, cpu, wakee, ts) ==
  LET waker == x.onCpu[cpu]
  IN  IF waker \notin KpTids \/ waker = wakee \/ x.th[waker].user = <<>> THEN x
      ELSE [x EXCEPT !.wakeups = Append(@, [at |-> ts, waker |-> waker, wakee |-> wakee]),
                     !.th[wakee].waker = waker]

----------------------------------------------------------------------------
(* The kernel, and Pipeline::process_records on what it writes *)

\* A batch ends before the tracker holds more than two intervals.
Later == IF Len(tr.pending) > 1 THEN {} ELSE {kern.now + 1} \cap 1 .. KpMaxTime

\* The switch itself, and the record of it.
Sched(cpu, new) ==
  \E ts \in Later :
    LET prev == kern.on[cpu]
        ended(t, run) == [tid |-> t, run |-> run, from |-> kern.mark[t].at, to |-> ts]
        gone == IF prev # 0 THEN {ended(prev, TRUE)} ELSE {}
        came == IF new # 0 THEN {ended(new, FALSE)} ELSE {}
    IN
    /\ new # prev
    /\ new # 0 => \A c \in KpCpus : kern.on[c] # new
    /\ kern' = [kern EXCEPT !.now = ts, !.on[cpu] = new,
                            !.closed = @ \cup gone \cup came,
                            !.mark = [t \in KpTids |->
                               IF t = prev THEN [run |-> FALSE, at |-> ts]
                               ELSE IF t = new THEN [run |-> TRUE, at |-> ts] ELSE @[t]]]
    /\ tr' = SchedFed(tr, cpu, new, ts)
    /\ UNCHANGED <<ps, tg, seen, out>>

MakeRunnable(cpu, wakee) ==
  /\ kern.wakes < MaxWakes
  /\ kern' = [kern EXCEPT !.wakes = @ + 1]
  /\ tr' = WakeFed(tr, cpu, wakee, kern.now)
  /\ UNCHANGED <<ps, tg, seen, out>>

\* PET walks a thread; its records follow, with switches in between.
TakeWalk(w) ==
  /\ kern.todo = <<>> /\ kern.walks < MaxWalks
  /\ kern' = [kern EXCEPT !.todo = WalkRecords(w, kern.now), !.walk = <<w>>,
                          !.walks = @ + 1]
  /\ UNCHANGED <<ps, tg, tr, seen, out>>

\* The stack a walk stands for, in call order: a reference for the assembler.
CallStack(w) ==
  LET lr == w.fixup
      repeated == Len(w.chain) > 1 /\ lr # <<>> /\ w.chain[2] = lr[1]
      main == IF lr = <<>> \/ lr = <<0>> \/ repeated THEN w.chain
              ELSE <<w.chain[1]>> \o lr \o Tail(w.chain)
  IN  UpToNull(main \o (IF lr = <<0>> THEN lr ELSE <<>>) \o w.async)

PerfRecord ==
  /\ kern.todo # <<>>
  /\ LET rec == Head(kern.todo)
         done == Completed(ps, rec)
         w == kern.walk[1]
     IN
     /\ ps' = Fed(ps, rec)
     /\ tg' = Scanned(tg, rec)
     /\ kern' = [kern EXCEPT !.todo = Tail(@),
                   !.stack = IF rec.k = "end" /\ CallStack(w) # <<>>
                               THEN [@ EXCEPT ![w.tid] = CallStack(w)] ELSE @]
     /\ IF done = <<>> THEN UNCHANGED <<tr, seen, out>>
        ELSE /\ seen' = seen \cup {done[1].tid}
             /\ tr' = [tr EXCEPT !.th = Noted(@, done[1])]
             /\ out' = IF done[1].user = <<>> THEN out
                       ELSE [out EXCEPT !.sample = <<[s |-> done[1], w |-> w]>>]

\* The end of a batch: drain_wakeups and drain_pending; intervals of threads
\* no sample has named yet are not forwarded.
EndBatch ==
  /\ tr.pending # <<>> \/ tr.wakeups # <<>>
  /\ out' = [out EXCEPT !.wakeups = tr.wakeups,
                        !.intervals = {i \in ToSet(tr.pending) : i.tid \in seen}]
  /\ tr' = [tr EXCEPT !.pending = <<>>, !.wakeups = <<>>]
  /\ UNCHANGED <<kern, ps, tg, seen>>

KpNext ==
  \/ \E c \in KpCpus : \/ \E t \in KpTids \cup {0} : Sched(c, t)
                     \/ \E t \in KpTids : MakeRunnable(c, t)
  \/ \E w \in Walks : TakeWalk(w)
  \/ PerfRecord \/ EndBatch

KpSpec == KpInit /\ [][KpNext]_kpVars

----------------------------------------------------------------------------
(* Properties *)

\* A sample the sink gets is one walk, whole: its thread, its frames in call
\* order with the fixup where it belongs, cut at the null frame; and the
\* probe was triggered for that thread before the sample was complete.
SamplesFaithful ==
  out.sample # <<>> =>
    LET s == out.sample[1].s
        w == out.sample[1].w
    IN  /\ s.tid = w.tid
        /\ s.user = CallStack(w)
        /\ s.kernel = UpToNull(w.kernel)
        /\ kern.todo = <<>> => tg.last = <<kern.walk[1].tid>> \/ kern.walk[1].chain = <<>>

\* Every interval the sink gets was really spent that way: the thread was on
\* (or off) a CPU for exactly that time, and an off-CPU interval carries the
\* last stack walked on that thread.
IntervalsExact ==
  /\ \A i \in ToSet(tr.pending) \cup out.intervals :
       [tid |-> i.tid, run |-> i.kind = "on", from |-> i.from, to |-> i.to]
         \in kern.closed
  /\ \A i \in ToSet(tr.pending) : i.kind = "off" => i.stack # <<>>
  /\ \A t \in KpTids : tr.th[t].user = kern.stack[t]
  /\ IsInjective(tr.pending)
=============================================================================
