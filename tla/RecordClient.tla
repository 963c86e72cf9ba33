---------------------------- MODULE RecordClient ----------------------------
(* `stax record -- <argv>` on Linux, for several clients of one server: the   *)
(* child forked behind a "go" pipe, start_attach, resume, the three-way wait  *)
(* for the run, the child or Ctrl-C, stop_active, and the final terminate.    *)
(*                                                                            *)
(* Of the server only what these calls see is kept: the one active run, its   *)
(* stop flag, the recorder's attach, and the ids in history (RunRegistry has  *)
(* the rest).  The kernel's part is the child's state and the reuse of pids.  *)
EXTENDS Integers, Sequences, FiniteSets

CONSTANT RcClients

VARIABLES rcRun,     \* the server's active run
          rcIds,     \* the last run id given out
          rcHistory, \* ids of the finished runs
          rcChild,   \* each client's child, as the kernel sees it
          rcCli,     \* each client
          rcEarly,   \* clients whose target ran before perf was attached to it
          rcStray    \* clients whose SIGKILL went to somebody else's process

rcVars == <<rcRun, rcIds, rcHistory, rcChild, rcCli, rcEarly, rcStray>>

NoRun == [id |-> 0]
Alive == {"blocked", "go", "target"}

RcInit ==
  /\ rcRun = NoRun
  /\ rcIds = 0
  /\ rcHistory = {}
  /\ rcChild = [c \in RcClients |-> "none"]
  /\ rcCli = [c \in RcClients |-> [pc |-> "fork", run |-> 0, stop |-> 0, told |-> 0, watch |-> FALSE]]
  /\ rcEarly = {}
  /\ rcStray = {}

CliAt(c, pc) == rcCli[c].pc = pc

\* fork_suspended: the child blocks on the pipe; a failed fork ends the command.
Fork(c) ==
  /\ CliAt(c, "fork")
  /\ \/ /\ rcChild' = [rcChild EXCEPT ![c] = "blocked"]
        /\ rcCli' = [rcCli EXCEPT ![c].pc = "attach"]
     \/ /\ rcCli' = [rcCli EXCEPT ![c].pc = "done"]
        /\ UNCHANGED rcChild
  /\ UNCHANGED <<rcRun, rcIds, rcHistory, rcEarly, rcStray>>

\* start_attach: begin_run claims the slot, the recorder thread is spawned with
\* its stop flag, and the call returns.
StartAttach(c) ==
  /\ CliAt(c, "attach")
  /\ rcRun = NoRun
  /\ rcIds' = rcIds + 1
  /\ rcRun' = [id |-> rcIds + 1, of |-> c, attached |-> FALSE, stop |-> FALSE]
  /\ rcCli' = [rcCli EXCEPT ![c].pc = "resume", ![c].run = rcIds + 1]
  /\ UNCHANGED <<rcHistory, rcChild, rcEarly, rcStray>>

MutantRefused(c) ==
  /\ CliAt(c, "attach")
  /\ rcRun # NoRun
  /\ rcCli' = [rcCli EXCEPT ![c].pc = "done"]
  /\ UNCHANGED <<rcRun, rcIds, rcHistory, rcChild, rcEarly, rcStray>>

\* Another run is active: the child is killed before it runs anything.
AttachRefused(c) ==
  /\ CliAt(c, "attach")
  /\ rcRun # NoRun
  /\ rcCli' = [rcCli EXCEPT ![c].pc = "terminate"]
  /\ UNCHANGED <<rcRun, rcIds, rcHistory, rcChild, rcEarly, rcStray>>

\* resume: the go byte, and the watcher that polls waitpid.  A failed write closes
\* the pipe all the same and the child is killed.
Resume(c) ==
  /\ CliAt(c, "resume")
  /\ rcChild' = [rcChild EXCEPT ![c] = IF @ = "blocked" THEN "go" ELSE @]
  /\ \/ rcCli' = [rcCli EXCEPT ![c].pc = "wait", ![c].watch = TRUE]
     \/ rcCli' = [rcCli EXCEPT ![c].pc = "terminate"]
  /\ UNCHANGED <<rcRun, rcIds, rcHistory, rcEarly, rcStray>>

(* ------------------------- the child ---------------------------------------- *)

AttachedTo(c) == rcRun # NoRun /\ rcRun.of = c /\ rcRun.attached

\* execvp: from here on instructions of the target run.
Exec(c) ==
  /\ rcChild[c] = "go"
  /\ rcChild' = [rcChild EXCEPT ![c] = "target"]
  /\ rcEarly' = IF AttachedTo(c) THEN rcEarly ELSE rcEarly \cup {c}
  /\ UNCHANGED <<rcRun, rcIds, rcHistory, rcCli, rcStray>>

\* execvp fails, or the target exits.
ChildExit(c) ==
  /\ rcChild[c] \in {"go", "target"}
  /\ rcChild' = [rcChild EXCEPT ![c] = "zombie"]
  /\ UNCHANGED <<rcRun, rcIds, rcHistory, rcCli, rcEarly, rcStray>>

\* Once the child is reaped the kernel may give its pid to another process.
Recycle(c) ==
  /\ rcChild[c] = "reaped"
  /\ rcChild' = [rcChild EXCEPT ![c] = "recycled"]
  /\ UNCHANGED <<rcRun, rcIds, rcHistory, rcCli, rcEarly, rcStray>>

(* ------------------------- the recorder ------------------------------------- *)

\* run_attach: perf is opened on the pid some time after start_attach returned.
PerfAttach ==
  /\ rcRun # NoRun
  /\ ~rcRun.attached
  /\ rcChild[rcRun.of] \in Alive
  /\ rcRun' = [rcRun EXCEPT !.attached = TRUE]
  /\ UNCHANGED <<rcIds, rcHistory, rcChild, rcCli, rcEarly, rcStray>>

\* finalize_run: after a stop request, the target's exit, the time limit, or an
\* error of the attach.
RunEnds ==
  /\ rcRun # NoRun
  /\ rcHistory' = rcHistory \cup {rcRun.id}
  /\ rcRun' = NoRun
  /\ UNCHANGED <<rcIds, rcChild, rcCli, rcEarly, rcStray>>

(* ------------------------- waiting and stopping ----------------------------- *)

\* The watcher task reaps the child; it goes on after the select is over.
WatcherReaps(c) ==
  /\ rcCli[c].watch
  /\ rcChild[c] = "zombie"
  /\ rcChild' = [rcChild EXCEPT ![c] = "reaped"]
  /\ UNCHANGED <<rcRun, rcIds, rcHistory, rcCli, rcEarly, rcStray>>

\* wait_active(UntilStopped) sees an empty slot: NoActiveRun.
WaitReturns(c) ==
  /\ CliAt(c, "wait")
  /\ rcRun = NoRun
  /\ rcCli' = [rcCli EXCEPT ![c].pc = "list"]
  /\ UNCHANGED <<rcRun, rcIds, rcHistory, rcChild, rcEarly, rcStray>>

\* The watcher is done, or Ctrl-C: stop_waited_run.
ChildGoneOrCtrlC(c) ==
  /\ CliAt(c, "wait")
  /\ rcCli' = [rcCli EXCEPT ![c].pc = "stop"]
  /\ UNCHANGED <<rcRun, rcIds, rcHistory, rcChild, rcEarly, rcStray>>

\* stop_active: the flag of whichever run is active, and its id to poll for.
StopActive(c) ==
  /\ CliAt(c, "stop")
  /\ IF rcRun = NoRun
       THEN rcCli' = [rcCli EXCEPT ![c].pc = "list"] /\ UNCHANGED rcRun
       ELSE /\ rcRun' = [rcRun EXCEPT !.stop = TRUE]
            /\ rcCli' = [rcCli EXCEPT ![c].pc = "stopping", ![c].stop = rcRun.id]
  /\ UNCHANGED <<rcIds, rcHistory, rcChild, rcEarly, rcStray>>

StopAnswered(c) ==
  /\ CliAt(c, "stopping")
  /\ rcCli[c].stop \in rcHistory
  /\ rcCli' = [rcCli EXCEPT ![c].pc = "terminate", ![c].told = rcCli[c].stop]
  /\ UNCHANGED <<rcRun, rcIds, rcHistory, rcChild, rcEarly, rcStray>>

\* print_finished_run_or_message: its own run, if the list has it.
ListRuns(c) ==
  /\ CliAt(c, "list")
  /\ rcCli' = [rcCli EXCEPT ![c].pc = "terminate",
                            ![c].told = IF rcCli[c].run \in rcHistory THEN rcCli[c].run ELSE 0]
  /\ UNCHANGED <<rcRun, rcIds, rcHistory, rcChild, rcEarly, rcStray>>

\* terminate: waitpid(WNOHANG) first; unless that reaped the child, SIGKILL goes to
\* the pid, whoever has it now, and a second waitpid follows.
Terminate(c) ==
  /\ CliAt(c, "terminate")
  /\ rcChild' = [rcChild EXCEPT ![c] = IF @ \in Alive \cup {"zombie"} THEN "reaped" ELSE @]
  /\ rcStray' = IF rcChild[c] = "recycled" THEN rcStray \cup {c} ELSE rcStray
  /\ rcCli' = [rcCli EXCEPT ![c].pc = "done"]
  /\ UNCHANGED <<rcRun, rcIds, rcHistory, rcEarly>>

\* The client is killed: its end of the pipe closes, which the child takes for go.
ClientDies(c) ==
  /\ rcCli[c].pc \notin {"fork", "done", "killed"}
  /\ rcCli' = [rcCli EXCEPT ![c].pc = "killed", ![c].watch = FALSE]
  /\ rcChild' = [rcChild EXCEPT ![c] = IF @ = "blocked" THEN "go" ELSE @]
  /\ UNCHANGED <<rcRun, rcIds, rcHistory, rcEarly, rcStray>>

RcNext ==
  \/ PerfAttach \/ RunEnds
  \/ \E c \in RcClients :
       \/ Fork(c) \/ StartAttach(c) \/ AttachRefused(c) \/ Resume(c)
       \/ Exec(c) \/ ChildExit(c) \/ Recycle(c)
       \/ WatcherReaps(c) \/ WaitReturns(c) \/ ChildGoneOrCtrlC(c)
       \/ StopActive(c) \/ StopAnswered(c) \/ ListRuns(c) \/ Terminate(c) \/ ClientDies(c)

RcSpec == RcInit /\ [][RcNext]_rcVars

(* ------------------------- properties --------------------------------------- *)

\* When `stax record` has returned, whatever it waited for and whoever's run it
\* stopped: its child is gone; if it got as far as waiting, the run it started is
\* over and a run was reported; and a target whose run was refused never ran
\* (cli/src/main.rs run_record_launch_linux, stop_waited_run).
LaunchSettled ==
  \A c \in RcClients :
    CliAt(c, "done") =>
      /\ rcChild[c] \in {"none", "reaped", "recycled"}
      /\ rcCli[c].watch => rcCli[c].run \in rcHistory /\ rcCli[c].told >= rcCli[c].run
      /\ rcCli[c].run = 0 => c \notin rcEarly
=============================================================================
