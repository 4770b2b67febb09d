---------------------------- MODULE HelperDaemon ----------------------------
(***************************************************************************)
(* The privileged helper daemon (helper/src): the lifecycle of the         *)
(* sing-box child it runs as root for the app.                             *)
(*                                                                         *)
(* One HelperState sits behind an async mutex.  Four kinds of task use it  *)
(* concurrently: one task per client connection, the watchdog, the signal  *)
(* handler and one exit monitor per child.  The mutex is held only for     *)
(* short sections; singbox::stop waits for the child WITHOUT it.  Every    *)
(* action below is one such section, or one await between two of them.     *)
(*                                                                         *)
(* Abstracted: path validation (a rejected request changes nothing),       *)
(* started_at (set and cleared with singbox), Info and Status (they only   *)
(* read), the DNS requests (they touch neither the mutex nor a child).     *)
(***************************************************************************)
EXTENDS Naturals, FiniteSets

CONSTANTS
  Client,         \* client connections, each serves one request at a time
  App,            \* processes of the Electron app, by pid
  StartPids,      \* what requests pass as app_pid; None stands for 0
  Pid,            \* pids of sing-box children; none is used twice
  Watchdog,       \* the watchdog task
  SignalHandler,  \* the task that waits for SIGTERM / SIGINT
  None            \* Rust's None, for singbox and for app_pid

ASSUME TasksAreDistinct ==
  /\ Watchdog # SignalHandler
  /\ Client \cap {Watchdog, SignalHandler} = {}

ASSUME NoneIsNoValue == None \notin App \cup Pid

ASSUME StartPidsAreApps == StartPids \subseteq App \cup {None}

VARIABLES
  helper,     \* "up" or "down": the helper process
  exiting,    \* Shutdown was served, process::exit is 200ms away
  singbox,    \* HelperState.singbox: the tracked child
  app_pid,    \* HelperState.app_pid: the process the watchdog guards
  pc, op,     \* per task: where it is, and which request it serves
  child,      \* per task: the Child handle it owns outside the mutex
  app,        \* per task: the app pid it carries (Start's argument, or what
              \* the watchdog read)
  monitor,    \* pids an exit monitor polls
  proc,       \* the OS process table, for the children
  alive,      \* app processes that are alive
  orphans,    \* children of a helper process that is gone
  owner,      \* history: app_pid argument of the start that spawned a child
  announced,  \* history: pids of the singbox_started events sent
  exits       \* history: number of singbox_exited events sent per pid

HelperState == <<singbox, app_pid>>
taskVars    == <<pc, op, child, app>>
history     == <<owner, announced, exits>>
vars == <<helper, exiting, HelperState, taskVars, monitor, proc, alive,
          orphans, history>>

Task == Client \cup {Watchdog, SignalHandler}

\* "terming" got SIGTERM and may ignore it, "killed" got SIGKILL and cannot.
ProcStatus == {"unused", "running", "terming", "killed", "dead"}
Live(p)    == proc[p] \in {"running", "terming"}

\* "take" .. "settle" are the sections of singbox::stop, in order.
StopPc  == {"take", "reap", "publish", "settle"}
PcLabel == {"idle", "check", "stopped", "store"} \cup StopPc
OpName  == {"none", "start", "stop", "shutdown", "watchdog", "signal"}

TypeOK ==
  /\ helper \in {"up", "down"}
  /\ exiting \in BOOLEAN
  /\ singbox \in Pid \cup {None}
  /\ app_pid \in App \cup {None}
  /\ pc \in [Task -> PcLabel]
  /\ op \in [Task -> OpName]
  /\ child \in [Task -> Pid \cup {None}]
  /\ app \in [Task -> App \cup {None}]
  /\ monitor \subseteq Pid
  /\ proc \in [Pid -> ProcStatus]
  /\ alive \subseteq App
  /\ orphans \subseteq Pid
  /\ owner \in [Pid -> App \cup {None}]
  /\ announced \subseteq Pid
  /\ exits \in [Pid -> Nat]

Init ==
  /\ helper = "up"
  /\ exiting = FALSE
  /\ singbox = None
  /\ app_pid = None
  /\ pc = [t \in Task |-> "idle"]
  /\ op = [t \in Task |-> "none"]
  /\ child = [t \in Task |-> None]
  /\ app = [t \in Task |-> None]
  /\ monitor = {}
  /\ proc = [p \in Pid |-> "unused"]
  /\ alive = App
  /\ orphans = {}
  /\ owner = [p \in Pid |-> None]
  /\ announced = {}
  /\ exits = [p \in Pid |-> 0]

-----------------------------------------------------------------------------
(***************************************************************************)
(* Small steps shared by the tasks.                                        *)
(***************************************************************************)

Goto(t, label) == pc' = [pc EXCEPT ![t] = label]

\* The task answered its request, or the watchdog goes back to its ticker.
Finish(t) ==
  /\ Goto(t, "idle")
  /\ op' = [op EXCEPT ![t] = "none"]
  /\ app' = [app EXCEPT ![t] = None]

\* SIGTERM to the child's group: a process that is already gone stays gone.
Sigterm(p) ==
  proc' = [proc EXCEPT ![p] = IF @ = "running" THEN "terming" ELSE @]

\* SIGKILL, by stop's escalation or by kill_on_drop of an unreaped Child.
Sigkill_Forgotten(p) == UNCHANGED proc
Sigkill(p) ==
  proc' = [proc EXCEPT ![p] = IF Live(p) THEN "killed" ELSE @]

\* stop and the exit monitor take the child out of the state and disarm the
\* watchdog in one section.
ForgetTracked_KeepsChild  == app_pid' = None /\ UNCHANGED singbox
ForgetTracked_KeepsAppPid == singbox' = None /\ UNCHANGED app_pid
ForgetTracked ==
  /\ singbox' = None
  /\ app_pid' = None

SendExited_Skipped(p) == UNCHANGED exits
SendExited(p) == exits' = [exits EXCEPT ![p] = @ + 1]

ArmWatchdog_WrongPid(t) == app_pid' = child[t]
ArmWatchdog(t) == app_pid' = app[t]

SpawnMonitor(p) == monitor' = monitor \cup {p}

\* kill(pid, 0): does the app process exist?
pid_alive_Always(a) == TRUE
pid_alive(a) == a \in alive

-----------------------------------------------------------------------------
(***************************************************************************)
(* Requests.  Each connection has its own task, which serves the next      *)
(* request only after it answered the previous one.  Only a live app       *)
(* process sends; the handler runs on when that process dies.              *)
(***************************************************************************)

Request(c, name, a) ==
  /\ helper = "up"
  /\ pc[c] = "idle"
  /\ alive # {}
  /\ op' = [op EXCEPT ![c] = name]
  /\ app' = [app EXCEPT ![c] = a]
  /\ Goto(c, "take")
  /\ UNCHANGED <<helper, exiting, HelperState, child, monitor, proc, alive,
                 orphans, history>>

\* Start carries the app's own pid, or 0 to leave the watchdog disarmed.  One
\* whose paths are refused changes nothing and is no step.
RequestStart(c) ==
  \E a \in StartPids \cap (alive \cup {None}) : Request(c, "start", a)
RequestStop(c)     == Request(c, "stop", None)
RequestShutdown(c) == Request(c, "shutdown", None)

SignalArrives ==
  /\ helper = "up"
  /\ pc[SignalHandler] = "idle"
  /\ op' = [op EXCEPT ![SignalHandler] = "signal"]
  /\ Goto(SignalHandler, "take")
  /\ UNCHANGED <<helper, exiting, HelperState, child, app, monitor, proc,
                 alive, orphans, history>>

-----------------------------------------------------------------------------
(***************************************************************************)
(* watchdog::run.  app_pid is read under the lock; the liveness probe and  *)
(* the stop that may follow run after the lock is dropped.                 *)
(***************************************************************************)

WatchdogRead ==
  /\ helper = "up"
  /\ pc[Watchdog] = "idle"
  /\ app_pid # None
  /\ app' = [app EXCEPT ![Watchdog] = app_pid]
  /\ Goto(Watchdog, "check")
  /\ UNCHANGED <<helper, exiting, HelperState, op, child, monitor, proc,
                 alive, orphans, history>>

WatchdogCheck ==
  /\ pc[Watchdog] = "check"
  /\ \/ /\ pid_alive(app[Watchdog])
        /\ Finish(Watchdog)
     \/ /\ ~pid_alive(app[Watchdog])
        /\ op' = [op EXCEPT ![Watchdog] = "watchdog"]
        /\ Goto(Watchdog, "take")
        /\ UNCHANGED app
  /\ UNCHANGED <<helper, exiting, HelperState, child, monitor, proc, alive,
                 orphans, history>>

-----------------------------------------------------------------------------
(***************************************************************************)
(* singbox::stop, run by any task.  Between TakeChild and the end the task *)
(* owns the Child and holds no lock.                                       *)
(***************************************************************************)

\* Lock: clear the watchdog target, take the child.  SIGTERM follows at once
\* and concerns only the child now owned by this task.
TakeChild(t) ==
  /\ pc[t] = "take"
  /\ ForgetTracked
  /\ \/ /\ singbox = None
        /\ Goto(t, "stopped")
        /\ UNCHANGED <<child, proc>>
     \/ /\ singbox # None
        /\ child' = [child EXCEPT ![t] = singbox]
        /\ Sigterm(singbox)
        /\ Goto(t, "reap")
  /\ UNCHANGED <<helper, exiting, op, app, monitor, alive, orphans, history>>

\* child.wait() returns within STOP_GRACE_PERIOD.
Reap(t) ==
  /\ pc[t] = "reap"
  /\ proc[child[t]] = "dead"
  /\ Goto(t, "publish")
  /\ UNCHANGED <<helper, exiting, HelperState, op, child, app, monitor, proc,
                 alive, orphans, history>>

\* A stop that waits for a graceful exit for ever.
Escalate_Missing(t) == FALSE

\* STOP_GRACE_PERIOD is over: force-kill.  The wait that follows returns or
\* gives up after 2s, and stop goes on either way.
Escalate(t) ==
  /\ pc[t] = "reap"
  /\ proc[child[t]] # "dead"
  /\ Sigkill(child[t])
  /\ Goto(t, "publish")
  /\ UNCHANGED <<helper, exiting, HelperState, op, child, app, monitor,
                 alive, orphans, history>>

\* Lock again, only to send singbox_exited.
PublishExit(t) ==
  /\ pc[t] = "publish"
  /\ SendExited(child[t])
  /\ Goto(t, "settle")
  /\ UNCHANGED <<helper, exiting, HelperState, op, child, app, monitor, proc,
                 alive, orphans, owner, announced>>

\* The 200ms pause is over and stop returns, dropping the Child.
Settle(t) ==
  /\ pc[t] = "settle"
  /\ Sigkill(child[t])
  /\ child' = [child EXCEPT ![t] = None]
  /\ Goto(t, "stopped")
  /\ UNCHANGED <<helper, exiting, HelperState, op, app, monitor, alive,
                 orphans, history>>

-----------------------------------------------------------------------------
(***************************************************************************)
(* What each caller does once stop returned.                               *)
(***************************************************************************)

\* The Stop request is answered, or the watchdog ticks on.
ReturnFromStop(t) ==
  /\ pc[t] = "stopped"
  /\ op[t] \in {"stop", "watchdog"}
  /\ Finish(t)
  /\ UNCHANGED <<helper, exiting, HelperState, child, monitor, proc, alive,
                 orphans, history>>

\* The Shutdown request is answered; a task exits the process 200ms later.
ReturnFromShutdown(t) ==
  /\ pc[t] = "stopped"
  /\ op[t] = "shutdown"
  /\ exiting' = TRUE
  /\ Finish(t)
  /\ UNCHANGED <<helper, HelperState, child, monitor, proc, alive, orphans,
                 history>>

\* singbox::start after its stop: spawn the new child, outside the lock.
Spawn(t) ==
  /\ pc[t] = "stopped"
  /\ op[t] = "start"
  /\ \E p \in Pid :
       /\ proc[p] = "unused"
       /\ proc' = [proc EXCEPT ![p] = "running"]
       /\ child' = [child EXCEPT ![t] = p]
       /\ owner' = [owner EXCEPT ![p] = app[t]]
  /\ Goto(t, "store")
  /\ UNCHANGED <<helper, exiting, HelperState, op, app, monitor, alive,
                 orphans, announced, exits>>

\* The binary could not be spawned: an error reply, and nothing else.
SpawnFails(t) ==
  /\ pc[t] = "stopped"
  /\ op[t] = "start"
  /\ Finish(t)
  /\ UNCHANGED <<helper, exiting, HelperState, child, monitor, proc, alive,
                 orphans, history>>

\* Lock: track the child, send singbox_started, start its monitor, reply.
\* Assigning singbox drops a Child that was tracked (kill_on_drop).
Store(t) ==
  /\ pc[t] = "store"
  /\ singbox' = child[t]
  /\ ArmWatchdog(t)
  /\ \/ singbox = None /\ UNCHANGED proc
     \/ singbox # None /\ Sigkill(singbox)
  /\ announced' = announced \cup {child[t]}
  /\ SpawnMonitor(child[t])
  /\ child' = [child EXCEPT ![t] = None]
  /\ Finish(t)
  /\ UNCHANGED <<helper, exiting, alive, orphans, owner, exits>>

-----------------------------------------------------------------------------
\* "if the tracked child is no longer ours, another path took over"
our_child_still_tracked_Any(p)   == singbox # None
our_child_still_tracked_Never(p) == FALSE
our_child_still_tracked(p) == singbox = p

\* One poll of monitor_child_exit.  A child that is no longer tracked ends
\* the monitor silently; a tracked one that is gone is cleared and announced;
\* otherwise the poll changes nothing.
MonitorPoll(p) ==
  /\ p \in monitor
  /\ \/ /\ ~our_child_still_tracked(p)
        /\ UNCHANGED <<HelperState, exits>>
     \/ /\ our_child_still_tracked(p)
        /\ proc[p] = "dead"
        /\ ForgetTracked
        /\ SendExited(p)
  /\ monitor' = monitor \ {p}
  /\ UNCHANGED <<helper, exiting, taskVars, proc, alive, orphans, owner,
                 announced>>

-----------------------------------------------------------------------------
(***************************************************************************)
(* The processes around the helper, and the helper's own end.  Exit and    *)
(* crash run no destructor and signal no child: each child leads a process *)
(* group of its own.  launchd restarts the helper (KeepAlive).             *)
(***************************************************************************)

\* sing-box exits by itself or crashes, obeys SIGTERM, or is killed.
ChildExits(p) ==
  /\ proc[p] \in {"running", "terming", "killed"}
  /\ proc' = [proc EXCEPT ![p] = "dead"]
  /\ UNCHANGED <<helper, exiting, HelperState, taskVars, monitor, alive,
                 orphans, history>>

AppDies(a) ==
  /\ a \in alive
  /\ alive' = alive \ {a}
  /\ UNCHANGED <<helper, exiting, HelperState, taskVars, monitor, proc,
                 orphans, history>>

HelperGone ==
  /\ helper' = "down"
  /\ exiting' = FALSE
  /\ singbox' = None
  /\ app_pid' = None
  /\ pc' = [t \in Task |-> "idle"]
  /\ op' = [t \in Task |-> "none"]
  /\ child' = [t \in Task |-> None]
  /\ app' = [t \in Task |-> None]
  /\ monitor' = {}
  /\ orphans' = {p \in Pid : proc[p] # "unused"}
  /\ UNCHANGED <<proc, alive, history>>

\* process::exit(0), by the Shutdown task or by the signal handler.
HelperExits ==
  /\ helper = "up"
  /\ \/ exiting
     \/ pc[SignalHandler] = "stopped"
  /\ HelperGone

HelperCrashes == helper = "up" /\ HelperGone

HelperRestarts ==
  /\ helper = "down"
  /\ helper' = "up"
  /\ UNCHANGED <<exiting, HelperState, taskVars, monitor, proc, alive,
                 orphans, history>>

-----------------------------------------------------------------------------
StopStep(t) ==
  \/ TakeChild(t)
  \/ Reap(t)
  \/ Escalate(t)
  \/ PublishExit(t)
  \/ Settle(t)

\* What a client task does by itself once it has a request.
ClientStep(c) ==
  \/ StopStep(c)
  \/ ReturnFromStop(c)
  \/ ReturnFromShutdown(c)
  \/ Spawn(c)
  \/ SpawnFails(c)
  \/ Store(c)

WatchdogStep ==
  \/ WatchdogRead
  \/ WatchdogCheck
  \/ StopStep(Watchdog)
  \/ ReturnFromStop(Watchdog)

Next ==
  \/ \E c \in Client : RequestStart(c)
  \/ \E c \in Client : RequestStop(c)
  \/ \E c \in Client : RequestShutdown(c)
  \/ SignalArrives
  \/ \E c \in Client : ClientStep(c)
  \/ WatchdogStep
  \/ StopStep(SignalHandler)
  \/ \E p \in Pid : MonitorPoll(p)
  \/ \E p \in Pid : ChildExits(p)
  \/ \E a \in App : AppDies(a)
  \/ HelperExits
  \/ HelperCrashes
  \/ HelperRestarts

Spec == Init /\ [][Next]_vars

(***************************************************************************)
(* The tokio runtime keeps running every task that can run, timers fire,   *)
(* the kernel delivers SIGKILL, and launchd restarts the helper.  Nobody   *)
(* is obliged to send a request, to die or to crash, and a child is not    *)
(* obliged to obey SIGTERM.                                                *)
(***************************************************************************)
KilledDies(p) == proc[p] = "killed" /\ ChildExits(p)

Fairness ==
  /\ \A c \in Client : WF_vars(ClientStep(c))
  /\ WF_vars(WatchdogStep)
  /\ WF_vars(StopStep(SignalHandler))
  /\ \A p \in Pid : WF_vars(MonitorPoll(p))
  /\ \A p \in Pid : WF_vars(KilledDies(p))
  /\ WF_vars(HelperExits)
  /\ WF_vars(HelperRestarts)

FairSpec == Spec /\ Fairness
-----------------------------------------------------------------------------
(***************************************************************************)
(* Safety.                                                                 *)
(***************************************************************************)

\* A Child handle is in one place only: HelperState, or one task that starts
\* or stops it.  Two owners would signal, reap and announce it twice
\* (singbox.rs: `take()` in stop, the move in start).
HandleHasOneOwner ==
  /\ singbox # None => \A t \in Task : child[t] # singbox
  /\ \A t, u \in Task : t # u /\ child[t] # None => child[t] # child[u]

\* As long as the helper lives it loses no child: one it spawned and that
\* nobody killed is tracked, or in the hands of a task that starts or stops it.
NoLeakedChild ==
  \A p \in Pid : Live(p) /\ p \notin orphans =>
    \/ singbox = p
    \/ \E t \in Task : child[t] = p

\* The watchdog guards exactly the process that asked for the tracked child,
\* whatever starts, stops and exits interleave; it is armed for nothing else.
WatchdogGuardsTracked ==
  app_pid = IF singbox = None THEN None ELSE owner[singbox]

\* singbox.rs monitor_child_exit: "each `start` -> at most one
\* `singbox_exited` event for that PID".  The event is no lie either: it
\* follows the started event, and the child is gone or about to be.
ExitEventsAreHonest ==
  \A p \in Pid :
    /\ exits[p] <= 1
    /\ exits[p] = 1 => p \in announced /\ ~Live(p)

\* A tracked child has its monitor and has not been announced as gone: an
\* unexpected exit is still going to be noticed.
TrackedIsMonitored ==
  singbox # None => /\ singbox \in monitor
                    /\ singbox \in announced
                    /\ exits[singbox] = 0

\* What HelperState, the tasks, the watchdog and the monitors each know of the
\* tracked child never disagrees, though each of them lets go of the mutex.
RecordsAgree ==
  /\ HandleHasOneOwner
  /\ WatchdogGuardsTracked
  /\ TrackedIsMonitored

\* How the places a child can be in and the history of its events go
\* together, task by task: a child in hand was spawned by this helper; a start
\* has not announced its child yet; a stop announces its child once, when it
\* is gone.  (What makes the invariants above inductive.)
ChildBookkeeping ==
  /\ \A p \in Pid : proc[p] = "unused" =>
       p \notin announced /\ p \notin orphans /\ exits[p] = 0
  /\ singbox # None => proc[singbox] # "unused" /\ singbox \notin orphans
  /\ \A t \in Task :
       /\ (child[t] # None) <=> (pc[t] \in {"reap", "publish", "settle", "store"})
       /\ child[t] # None =>
            proc[child[t]] # "unused" /\ child[t] \notin orphans
       /\ pc[t] = "store" =>
            /\ child[t] \notin announced
            /\ exits[child[t]] = 0
            /\ owner[child[t]] = app[t]
       /\ pc[t] \in {"reap", "publish"} =>
            child[t] \in announced /\ exits[child[t]] = 0
       /\ pc[t] \in {"publish", "settle"} => ~Live(child[t])
       /\ pc[t] = "settle" => exits[child[t]] = 1

(***************************************************************************)
(* Liveness, under Fairness.                                               *)
(***************************************************************************)

\* watchdog.rs: the fail-closed promise, while the helper that spawned the
\* child lives: once the app that asked for sing-box is gone, so is sing-box.
AppDeathStopsSingbox ==
  \A p \in Pid : \A a \in App :
    (owner[p] = a /\ a \notin alive /\ Live(p)) ~> (~Live(p) \/ p \in orphans)

\* A child that died is not reported as running for ever: its monitor, or a
\* task that takes its place, removes it from HelperState.
DeadChildIsForgotten ==
  \A p \in Pid : (singbox = p /\ proc[p] = "dead") ~> (singbox # p)

\* Every request is answered, even if sing-box ignores SIGTERM, unless the
\* helper goes down first.
EveryRequestReturns ==
  \A c \in Client : (pc[c] # "idle") ~> (pc[c] = "idle")

(***************************************************************************)
(* Refinement: each child's life, event and all, is the abstract one.      *)
(***************************************************************************)
stage == [p \in Pid |->
  CASE proc[p] = "unused"              -> "unborn"
    [] p \in orphans                   -> "lost"
    [] p \notin orphans /\ exits[p] > 0 -> "exited"
    [] singbox = p                     -> "tracked"
    [] \E t \in Task : child[t] = p /\ pc[t] = "store" -> "starting"
    [] \E t \in Task : child[t] = p /\ pc[t] # "store" /\ exits[p] = 0
                                       -> "stopping"
    [] OTHER                           -> "replaced"]

live == {p \in Pid : Live(p)}

Lifecycle == INSTANCE ChildLifecycle WITH Pid <- Pid, stage <- stage, live <- live

\* Every step of the helper is a step of ChildLifecycle or leaves it alone.
ImplementsLifecycle == Lifecycle!Spec

(***************************************************************************)
(* What the comments in the source promise and the code does not keep.     *)
(***************************************************************************)

\* rpc.rs, Request::Start: "The helper will first `stop` any
\* currently-running sing-box child".
StartStopsPreviousFirst ==
  \A p, q \in Pid \ orphans : Live(p) /\ Live(q) => p = q

\* singbox.rs, header: "if the helper itself dies, the OS delivers SIGTERM to
\* the whole group - ensuring sing-box does not become an orphan".
HelperDeathStopsSingbox ==
  \A p \in Pid : (p \in orphans /\ Live(p)) ~> ~Live(p)
=============================================================================
