----------------------------- MODULE TunManager -----------------------------
(***************************************************************************)
(* The app's side of the TUN: SingBoxManager (proxy/sing-box-manager.ts)   *)
(* and the IPC handlers tun:startTun, tun:reconnect and tun:stop that call *)
(* it (main/index.ts).                                                     *)
(*                                                                         *)
(* The Electron main process has one thread, but every await lets another  *)
(* handler run.  An action below is the code between two awaits.  What     *)
(* several handlers share is the manager's fields and its three "mutexes", *)
(* promises that a second caller joins: startPromise, stopPromise and the  *)
(* reconcile in flight.                                                    *)
(*                                                                         *)
(* A helper request is served at some moment between the call and the      *)
(* continuation (its effect atomically: HelperDaemon has the inside).      *)
(* Where the continuation uses a shared field, the reply is a step of its  *)
(* own and may be stale when it is used; where it only issues the caller's *)
(* next request, service and continuation are one step.                    *)
(*                                                                         *)
(* macOS only.  Abstracted: _mode (nothing reads it), config contents,     *)
(* latency and IP fields, the interface monitor (it only alerts).          *)
(* Several sing-boxes may run: box says who knows of them.                 *)
(***************************************************************************)
EXTENDS Naturals, Sequences

CONSTANTS
  Caller,     \* slots for the IPC calls in progress: numbers
  Reconciler, \* the reconcile in flight
  Setups,     \* which installations to consider, see Setup
  Overrides,  \* whose DNS overrides to follow (nothing reads them): see dns
  HELPER_FAILURE_THRESHOLD,
  MaxCalls,   \* bound: operations requested
  MaxFaults,  \* bound: crashes of sing-box, outages and delays of the helper
  None

(***************************************************************************)
(* "helper":   the helper is installed and starts sing-box, or osascript   *)
(*             where it is down when it is needed;                         *)
(* "sudo":     no helper, useHelper = false: osascript starts it;          *)
(* "mixed":    the helper is installed and runs, but useHelper = false;    *)
(* "fallback": useHelper = true, but the helper never comes up.            *)
(***************************************************************************)
Setup == {"helper", "sudo", "mixed", "fallback"}

ASSUME SetupsAreSetups == Setups \subseteq Setup

ASSUME OverridesAreOverrides == Overrides \subseteq {"helper", "app"}

ASSUME BoundsAreNat ==
  /\ HELPER_FAILURE_THRESHOLD \in Nat \ {0}
  /\ MaxCalls \in Nat
  /\ MaxFaults \in Nat

ASSUME CallersAreDistinct ==
  /\ Caller \subseteq Nat
  /\ Reconciler \notin Caller
  /\ None \notin Caller

ASSUME NoneIsNoReply == None \notin {"ok", "error", "running", "not_running"}

VARIABLES
  status,        \* _status
  stopRequested, \* _stopRequested
  startPromise,  \* _startPromise: the caller whose _startTunImpl runs
  stopPromise,   \* _stopPromise: the caller whose _stopImpl runs
  helperAuthoritative, helperFailures, \* ... and _helperConsecutiveFailures
  process,       \* this.process is the osascript child
  subscription,  \* the event subscription: none, down (reconnecting) or up
  events,        \* helper events sent to the app and not handled yet
  pc, op,        \* per caller: where it is, and the IPC operation it serves
  reply,         \* per caller: the helper's answer to the request it awaits
  setup,         \* one of Setups
  stopFailed,    \* history: a stop threw since the last start began
  joinedReconnect, \* history: ... and a tun:stop only joined a reconnect's stop
  handleLost,    \* history: this.process was forgotten while osascript runs
  helper,        \* the helper answers: up or down
  box,           \* the sing-boxes that run: the helper's child, the one that
                 \* osascript started as root, an orphan of a helper's crash
  stray,         \* a clean-up that timed out still has its helper calls to make
  pidFile,       \* the app's PID file exists (osascript only)
  osascript,     \* the last osascript: off, prompt, run, or gone (see exits)
  exits,         \* an earlier osascript has its exit still to be handled
  wrapper,       \* the root shell around sing-box: off, started or loop
  dns,           \* the DNS overrides in force, by who set them
  calls, faults  \* bounds

manager == <<status, stopRequested, startPromise, stopPromise,
             helperAuthoritative, helperFailures, process>>
tasks   == <<pc, op, reply>>
link    == <<subscription, events>>
root    == <<osascript, exits, handleLost, wrapper, pidFile>>
boxes   == <<box, stray>>
handles == <<exits, handleLost>>
prompts == <<osascript, handles>>
world   == <<link, setup, helper, boxes, root, dns, faults>>
health  == <<helperAuthoritative, helperFailures>>
history == <<stopFailed, joinedReconnect>>
vars    == <<manager, tasks, world, history, calls>>

Task == Caller \cup {Reconciler}

\* The labels at which a task awaits a reply, and the request it sent.
RequestAt ==
  [ status |-> "status", s_stop |-> "stop",     verify  |-> "status",
    start  |-> "start",  rollback |-> "stop",   verify2 |-> "status" ]

PcLabel == DOMAIN RequestAt \cup
  {"idle", "pre", "join", "recon", "install", "cleanup", "cleaned", "validate",
   "ready", "set_dns", "sudo",
   "s_join", "s_avail", "s_dns", "m_dns", "s_kill", "s_wait", "stopped",
   "stop_failed", "avail"}

TypeOK ==
  /\ status \in {"stopped", "starting", "running", "error"}
  /\ stopRequested \in BOOLEAN
  /\ startPromise \in Caller \cup {None}
  /\ stopPromise \in Caller \cup {None}
  /\ helperAuthoritative \in BOOLEAN
  /\ helperFailures \in 0 .. HELPER_FAILURE_THRESHOLD - 1
  /\ process \in BOOLEAN
  /\ subscription \in {"none", "down", "up"}
  /\ events \in Seq({"started", "exited"})
  /\ pc \in [Task -> PcLabel]
  /\ op \in [Caller -> {"none", "start", "reconnect", "stop"}]
  /\ reply \in [Task -> {None, "ok", "error", "running", "not_running"}]
  /\ setup \in Setups
  /\ stopFailed \in BOOLEAN
  /\ joinedReconnect \in BOOLEAN
  /\ helper \in {"up", "down"}
  /\ box \subseteq {"helper", "root", "orphan"}
  /\ stray \in BOOLEAN
  /\ pidFile \in BOOLEAN
  /\ osascript \in {"off", "prompt", "run", "gone"}
  /\ exits \in BOOLEAN
  /\ handleLost \in BOOLEAN
  /\ wrapper \in {"off", "started", "loop"}
  /\ dns \subseteq Overrides
  /\ calls \in 0 .. MaxCalls
  /\ faults \in 0 .. MaxFaults

Init ==
  /\ status = "stopped"
  /\ stopRequested = FALSE
  /\ startPromise = None
  /\ stopPromise = None
  /\ helperAuthoritative = FALSE
  /\ helperFailures = 0
  /\ process = FALSE
  /\ subscription = "none"
  /\ events = <<>>
  /\ pc = [t \in Task |-> "idle"]
  /\ op = [c \in Caller |-> "none"]
  /\ reply = [t \in Task |-> None]
  /\ setup \in Setups
  /\ stopFailed = FALSE
  /\ joinedReconnect = FALSE
  /\ helper = IF setup \in {"helper", "mixed"} THEN "up" ELSE "down"
  /\ box = {}
  /\ stray = FALSE
  /\ pidFile = FALSE
  /\ osascript = "off"
  /\ exits = FALSE
  /\ handleLost = FALSE
  /\ wrapper = "off"
  /\ dns = {}
  /\ calls = 0
  /\ faults = 0

-----------------------------------------------------------------------------
(***************************************************************************)
(* Steps of a task.                                                        *)
(***************************************************************************)

\* Move on to a label; a request awaited there has no reply yet.
Goto(t, label) ==
  /\ pc' = [pc EXCEPT ![t] = label]
  /\ reply' = [reply EXCEPT ![t] = None]

Replied(t, label) == pc[t] = label /\ reply[t] # None

\* The task settles a promise: whoever waits at label goes on at next.
Release(t, tnext, label, next) ==
  /\ pc' = [u \in Task |-> IF u = t THEN tnext
                           ELSE IF pc[u] = label THEN next ELSE pc[u]]
  /\ reply' = [reply EXCEPT ![t] = None]

Return(c) ==
  /\ Goto(c, "idle")
  /\ op' = [op EXCEPT ![c] = "none"]

\* _startTunImpl is over, with success or not: startTun clears the promise,
\* and the callers that joined it return with it.
FinishStart(c) ==
  /\ startPromise' = None
  /\ Release(c, "idle", "join", "idle")
  /\ op' = [u \in Caller |->
              IF u = c \/ pc[u] = "join" THEN "none" ELSE op[u]]

\* _stopImpl is over: its finally clears the mutex and the joiners go on.
FinishStop(c, how) ==
  /\ stopPromise' = None
  /\ Release(c, how, "s_join", how)

-----------------------------------------------------------------------------
(***************************************************************************)
(* The helper, seen from the app.                                          *)
(***************************************************************************)

\* What the helper pushes to a connected subscriber; nobody else gets it.
Push(evs) ==
  events' = IF subscription = "up" THEN events \o evs ELSE events

\* The helper only knows the child it started and has not lost.
tracked == "helper" \in box

Exited == IF tracked THEN <<"exited">> ELSE <<>>

HelperStop ==
  /\ box' = box \ {"helper"}
  /\ Push(Exited)

Answer(t, r) == reply' = [reply EXCEPT ![t] = r]

HelperServes(t) ==
  /\ helper = "up"
  /\ pc[t] \in DOMAIN RequestAt
  /\ reply[t] = None
  /\ \/ /\ RequestAt[pc[t]] = "status"
        /\ Answer(t, IF tracked THEN "running" ELSE "not_running")
        /\ UNCHANGED <<box, events>>
     \/ /\ RequestAt[pc[t]] = "stop"
        /\ Answer(t, "ok")
        /\ HelperStop
     \/ /\ RequestAt[pc[t]] = "start"
        /\ Answer(t, "ok")
        /\ box' = box \cup {"helper"}
        /\ Push(Exited \o <<"started">>)
     \/ /\ RequestAt[pc[t]] = "start"     \* the binary could not be spawned
        /\ Answer(t, "error")
        /\ HelperStop
  /\ UNCHANGED <<manager, pc, op, subscription, setup, history, helper,
                 stray, root, dns, calls, faults>>

\* Nobody answers: sendWithRetry gives up.  (It may also wait for the helper.)
HelperRefuses(t) ==
  /\ helper = "down"
  /\ pc[t] \in DOMAIN RequestAt
  /\ reply[t] = None
  /\ Answer(t, "error")
  /\ UNCHANGED <<manager, pc, op, world, history, calls>>

\* What goes wrong outside the app is bounded.
Fault ==
  /\ faults < MaxFaults
  /\ faults' = faults + 1

\* isAvailable, setDns and restoreDns, whose continuations are local.
isAvailable == helper = "up"
HelperDns(new) == dns' = IF isAvailable THEN new ELSE dns

\* The daemon's entry in the system's configuration is one, however often it
\* is set.
set_dns     == dns \cup ({"helper"} \cap Overrides)
restore_dns == dns \ {"helper"}

-----------------------------------------------------------------------------
(***************************************************************************)
(* reconcileStatus.  One runs at a time; a second caller awaits it.        *)
(***************************************************************************)

ReconcileFrom == IF helperAuthoritative THEN "status" ELSE "avail"

\* getInfo, tun:getInfo, testConnectivity and the subscription's onConnect.
Poll ==
  /\ pc[Reconciler] = "idle"
  /\ Goto(Reconciler, ReconcileFrom)
  /\ UNCHANGED <<manager, op, world, history, calls>>

ReconcileDone == Release(Reconciler, "idle", "recon", "install")

\* The helper answers for the first time: subscribe to its events.
BecomesAuthoritative ==
  /\ pc[Reconciler] = "avail"
  /\ isAvailable
  /\ helperAuthoritative' = TRUE
  /\ subscription' = IF subscription = "none" THEN "down" ELSE subscription
  /\ Goto(Reconciler, "status")
  /\ UNCHANGED <<status, stopRequested, startPromise, stopPromise,
                 helperFailures, process, op, events, setup, history,
                 helper, boxes, root, dns, calls, faults>>

\* isProcessAlive of the process in the PID file.
PidAlive == pidFile /\ "root" \in box

\* Only a "running" is taken back; "starting" and "error" stay.
Downgraded_Never(running) == IF running THEN "running" ELSE status
Downgraded(running) ==
  IF running THEN "running"
  ELSE IF status = "running" THEN "stopped" ELSE status

\* No helper: the PID file and ps.  The file of a dead process is removed.
ReconcileByPidFile ==
  /\ pc[Reconciler] = "avail"
  /\ ~isAvailable
  /\ status' = Downgraded(PidAlive)
  /\ pidFile' = PidAlive
  /\ ReconcileDone
  /\ UNCHANGED <<stopRequested, startPromise, stopPromise, health, process,
                 op, link, setup, history, helper, boxes, prompts, wrapper,
                 dns, calls, faults>>

ReconcileByHelper ==
  /\ Replied(Reconciler, "status")
  /\ reply[Reconciler] \in {"running", "not_running"}
  /\ status' = Downgraded(reply[Reconciler] = "running")
  /\ helperFailures' = 0
  /\ ReconcileDone
  /\ UNCHANGED <<stopRequested, startPromise, stopPromise,
                 helperAuthoritative, process, op, world, history, calls>>

\* The last state is kept until the helper failed too often in a row.
NextFailures == (helperFailures + 1) % HELPER_FAILURE_THRESHOLD

ReconcileFails ==
  /\ Replied(Reconciler, "status")
  /\ reply[Reconciler] = "error"
  /\ helperFailures' = NextFailures
  /\ \/ /\ helperFailures + 1 < HELPER_FAILURE_THRESHOLD
        /\ UNCHANGED <<status, helperAuthoritative>>
     \/ /\ helperFailures + 1 >= HELPER_FAILURE_THRESHOLD
        /\ status' = "stopped"
        /\ helperAuthoritative' = FALSE
  /\ ReconcileDone
  /\ UNCHANGED <<stopRequested, startPromise, stopPromise, process, op, world,
                 history, calls>>

-----------------------------------------------------------------------------
(***************************************************************************)
(* The event subscription.                                                 *)
(***************************************************************************)

\* The ack arrives: events flow, and onConnect reconciles (or joins).
Subscribed ==
  /\ subscription = "down"
  /\ helper = "up"
  /\ events = <<>>
  /\ subscription' = "up"
  /\ \/ /\ pc[Reconciler] = "idle"
        /\ Goto(Reconciler, ReconcileFrom)
     \/ /\ pc[Reconciler] # "idle"
        /\ UNCHANGED <<pc, reply>>
  /\ UNCHANGED <<manager, op, events, setup, history, helper, boxes, root,
                 dns, calls, faults>>

handleHelperEvent ==
  /\ events # <<>>
  /\ events' = Tail(events)
  /\ status' = IF Head(events) = "started" THEN "running" ELSE "stopped"
  /\ UNCHANGED <<stopRequested, startPromise, stopPromise, health, process,
                 tasks, subscription, setup, history, helper, boxes, root,
                 dns, calls, faults>>

-----------------------------------------------------------------------------
(***************************************************************************)
(* stop(restoreDns).  tun:stop restores the DNS; a start and a reconnect   *)
(* stop the old tunnel without.                                            *)
(***************************************************************************)

\* Called where pc'[c] is free: signal a start in progress, then own the
\* stop or join the one that runs.
stop(c, restoreDns) ==
  /\ stopRequested' = (stopRequested \/ restoreDns)
  /\ \/ /\ stopPromise # None
        /\ Goto(c, "s_join")
        /\ UNCHANGED stopPromise
     \/ /\ stopPromise = None
        /\ Goto(c, "s_avail")
        /\ stopPromise' = c

restoreDns(c) == op[c] = "stop"

\* _stopImpl: is the helper there?
StopProbed(c) ==
  /\ pc[c] = "s_avail"
  /\ \/ isAvailable /\ Goto(c, IF restoreDns(c) THEN "s_dns" ELSE "s_stop")
     \/ ~isAvailable /\ Goto(c, IF restoreDns(c) THEN "m_dns" ELSE "s_kill")
  /\ UNCHANGED <<manager, op, world, history, calls>>

\* A failing restoreDns is only logged.
StopRestoresDnsFirst(c) ==
  /\ pc[c] = "s_dns"
  /\ HelperDns(restore_dns)
  /\ Goto(c, "s_stop")
  /\ UNCHANGED <<manager, op, link, setup, history, helper, boxes, root,
                 calls, faults>>

StopByHelper(c) ==
  /\ Replied(c, "s_stop")
  /\ reply[c] = "ok"
  /\ pidFile' = FALSE
  /\ status' = "stopped"
  /\ FinishStop(c, "stopped")
  /\ UNCHANGED <<stopRequested, startPromise, health, process, op, link,
                 setup, history, helper, boxes, prompts, wrapper, dns,
                 calls, faults>>

StopByHelperFails(c) ==
  /\ Replied(c, "s_stop")
  /\ reply[c] = "error"
  /\ Goto(c, "s_kill")
  /\ UNCHANGED <<manager, op, world, history, calls>>

\* restoreSystemDns: the helper, or else osascript, which removes the
\* override the app's own osascript set and which the user may deny.
restoreSystemDns(c) ==
  /\ pc[c] = "m_dns"
  /\ \/ isAvailable /\ dns' = restore_dns
     \/ ~isAvailable /\ dns' \in {dns, dns \ {"app"}}
  /\ Goto(c, "s_kill")
  /\ UNCHANGED <<manager, op, link, setup, history, helper, boxes, root,
                 calls, faults>>

\* _stopImplManual kills osascript: the prompt goes with it, the root shell
\* of one that was accepted does not.
KillOsascript_Forgotten == UNCHANGED osascript
KillOsascript ==
  osascript' = IF process /\ osascript \in {"prompt", "run"}
               THEN "gone" ELSE osascript

StopManually(c) ==
  /\ pc[c] = "s_kill"
  /\ process' = FALSE
  /\ KillOsascript
  /\ \/ /\ PidAlive
        /\ Goto(c, "s_wait")
        /\ UNCHANGED <<status, stopPromise, pidFile>>
     \/ /\ ~PidAlive
        /\ pidFile' = FALSE
        /\ status' = "stopped"
        /\ FinishStop(c, "stopped")
  /\ UNCHANGED <<stopRequested, startPromise, health, op, link, setup,
                 history, helper, boxes, handles, wrapper, dns, calls, faults>>

\* Killing a root process takes a password.  Only a process that is confirmed
\* dead loses its PID file; otherwise stop fails.
MayHaveDied_Unconfirmed == box' \in {box, box \ {"root"}}
MayHaveDied == box' = box \ {"root"}

PidKilled(c) ==
  /\ pc[c] = "s_wait"
  /\ MayHaveDied
  /\ pidFile' = FALSE
  /\ status' = "stopped"
  /\ FinishStop(c, "stopped")
  /\ UNCHANGED <<stopRequested, startPromise, health, process, op, link,
                 setup, history, helper, stray, prompts, wrapper, dns,
                 calls, faults>>

PidSurvives(c) ==
  /\ pc[c] = "s_wait"
  /\ PidAlive
  /\ status' = "error"
  /\ stopFailed' = TRUE
  /\ FinishStop(c, "stop_failed")
  /\ UNCHANGED <<joinedReconnect, stopRequested, startPromise, health, process,
                 op, world, calls>>

-----------------------------------------------------------------------------
(***************************************************************************)
(* The IPC operations.                                                     *)
(***************************************************************************)

\* A new IPC call takes the first free slot (slots have no identity).
Request(c, name) ==
  /\ pc[c] = "idle"
  /\ \A d \in Caller : d < c => pc[d] # "idle"
  /\ calls < MaxCalls
  /\ calls' = calls + 1
  /\ op' = [op EXCEPT ![c] = name]

\* The stop(false) of a reconnect, which no start in progress waits for: its
\* request may have been served long before the stop(true) that joins it.
JoinsReconnect ==
  /\ stopPromise \notin {None, startPromise}
  /\ op[stopPromise] = "reconnect"

tun_stop(c) ==
  /\ Request(c, "stop")
  /\ stop(c, TRUE)
  /\ joinedReconnect' = (joinedReconnect \/ JoinsReconnect)
  /\ UNCHANGED <<status, startPromise, health, process, world, stopFailed>>

tun_reconnect(c) ==
  /\ Request(c, "reconnect")
  /\ stop(c, FALSE)
  /\ UNCHANGED <<status, startPromise, health, process, world, history>>

\* startTunInternal first fetches the tunnel subscription and probes.
tun_startTun(c) ==
  /\ Request(c, "start")
  /\ Goto(c, "pre")
  /\ UNCHANGED <<manager, world, history>>

\* startTun: join the start that runs, or become it and await a reconcile.
startTun(c) ==
  /\ pc[c] = "pre"
  /\ \/ /\ startPromise # None
        /\ Goto(c, "join")
        /\ UNCHANGED <<stopRequested, history, startPromise>>
     \/ /\ startPromise = None
        /\ stopRequested' = FALSE
        /\ stopFailed' = FALSE
        /\ joinedReconnect' = FALSE
        /\ startPromise' = c
        /\ pc' = [pc EXCEPT ![c] = "recon",
                            ![Reconciler] = IF @ = "idle" THEN ReconcileFrom
                                            ELSE @]
        /\ UNCHANGED reply
  /\ UNCHANGED <<status, stopPromise, health, process, op, world, calls>>

\* ensureInstalled, then stop the old tunnel.
Installed(c) ==
  /\ pc[c] = "install"
  /\ stop(c, FALSE)
  /\ UNCHANGED <<status, startPromise, health, process, op, world, history,
                 calls>>

\* A step of the start threw: the error is returned, the fields stay.
StartThrows(c) ==
  /\ \/ pc[c] \in {"install", "validate"}
     \/ startPromise = c /\ pc[c] = "stop_failed"
  /\ FinishStart(c)
  /\ UNCHANGED <<status, stopRequested, stopPromise, health, process, world,
                 history, calls>>

\* The gates: "an external stop() was requested while we were ..."
Cancelled == stopRequested

AtGate(c) == pc[c] = "cleaned" \/ (startPromise = c /\ pc[c] = "stopped")

StartCancelled(c) ==
  /\ AtGate(c)
  /\ Cancelled
  /\ FinishStart(c)
  /\ UNCHANGED <<status, stopRequested, stopPromise, health, process, world,
                 history, calls>>

\* The old tunnel is down: clean up stale interfaces or routes if there are
\* any, then write the config and validate it.
PassGate(c) ==
  /\ AtGate(c)
  /\ ~Cancelled
  /\ \/ pc[c] = "stopped" /\ Goto(c, "cleanup")
     \/ Goto(c, "validate")
  /\ UNCHANGED <<manager, op, world, history, calls>>

\* cleanupStaleNetworkState: stop and restoreDns by the helper, one after the
\* other, or a script in osascript, which may fail and which blocks the app.
\* After 20s the start goes on without the helper's answers (CleanupTimesOut).
HelperCleansUp ==
  /\ HelperStop
  /\ dns' = restore_dns

CleanupStale(c) ==
  /\ pc[c] = "cleanup"
  /\ \/ isAvailable /\ HelperCleansUp
     \/ /\ ~isAvailable
        /\ dns' \in {dns, dns \ {"app"}}
        /\ UNCHANGED <<box, events>>
  /\ Goto(c, "cleaned")
  /\ UNCHANGED <<manager, op, subscription, setup, history, helper, stray,
                 root, calls, faults>>

CleanupTimesOut(c) ==
  /\ Fault
  /\ pc[c] = "cleanup"
  /\ isAvailable
  /\ stray' = TRUE
  /\ Goto(c, "cleaned")
  /\ UNCHANGED <<manager, op, link, setup, history, helper, box, root, dns,
                 calls>>

\* The calls of a clean-up nobody waits for are served, or given up.
StrayCleanup ==
  /\ stray
  /\ stray' = FALSE
  /\ \/ isAvailable /\ HelperCleansUp
     \/ ~isAvailable /\ UNCHANGED <<box, events, dns>>
  /\ UNCHANGED <<manager, tasks, subscription, setup, history, helper, root,
                 calls, faults>>

\* The callers of stop and of reconnect go on when their stop is over.
AfterStop(c) ==
  /\ startPromise # c
  /\ \/ /\ op[c] = "stop"
        /\ pc[c] \in {"stopped", "stop_failed"}
        /\ Return(c)
     \/ /\ op[c] = "reconnect"
        /\ pc[c] = "stopped"
        /\ Goto(c, "pre")
        /\ UNCHANGED op
     \/ /\ op[c] = "reconnect"
        /\ pc[c] = "stop_failed"
        /\ Return(c)
  /\ UNCHANGED <<manager, world, history, calls>>

-----------------------------------------------------------------------------
(***************************************************************************)
(* The start proper, once the config is valid.                             *)
(***************************************************************************)

\* this.process is the new osascript; the exit event of the one before, which
\* was killed or whose sing-box was, may be still to come.
SpawnOsascript ==
  /\ process' = TRUE
  /\ osascript' = "prompt"
  /\ exits' = (exits \/ osascript # "off")
  /\ handleLost' = FALSE

\* The last gate before the start; then the helper, or osascript at once.
Validated(c) ==
  /\ pc[c] = "validate"
  /\ \/ /\ Cancelled
        /\ status' = "stopped"
        /\ FinishStart(c)
        /\ UNCHANGED <<process, prompts>>
     \/ /\ ~Cancelled
        /\ status' = "starting"
        /\ UNCHANGED <<startPromise, op>>
        /\ \/ /\ setup \in {"helper", "fallback"}
              /\ Goto(c, "ready")
              /\ UNCHANGED <<process, prompts>>
           \/ /\ setup \in {"sudo", "mixed"}
              /\ Goto(c, "sudo")
              /\ SpawnOsascript
  /\ UNCHANGED <<stopRequested, stopPromise, health, link, setup, history,
                 helper, boxes, pidFile, wrapper, dns, calls, faults>>

\* ensureReady: the helper answers.
HelperReady(c) ==
  /\ pc[c] = "ready"
  /\ isAvailable
  /\ Goto(c, "start")
  /\ UNCHANGED <<manager, op, world, history, calls>>

\* ... or it does not: it is waited for, the user denies its installation, or
\* it does not come up in time and osascript takes over, without a gate.
HelperNotReady(c) ==
  /\ pc[c] = "ready"
  /\ ~isAvailable
  /\ \/ /\ status' = "stopped"
        /\ FinishStart(c)
        /\ UNCHANGED <<process, prompts>>
     \/ /\ Goto(c, "sudo")
        /\ SpawnOsascript
        /\ UNCHANGED <<status, startPromise, op>>
  /\ UNCHANGED <<stopRequested, stopPromise, health, link, setup, history,
                 helper, boxes, pidFile, wrapper, dns, calls, faults>>

\* "Abort gate: if stop was requested while helper was starting, roll back"
RollBack_Skipped == FALSE
RollBack == stopRequested

StartedByHelper(c) ==
  /\ Replied(c, "start")
  /\ reply[c] = "ok"
  /\ Goto(c, IF RollBack THEN "rollback" ELSE "set_dns")
  /\ UNCHANGED <<manager, op, world, history, calls>>

\* helper.start failed, or the start was rolled back, or no sing-box came up:
\* the error is thrown and the status stays as it is.
HelperStartThrows(c) ==
  /\ \/ Replied(c, "start") /\ reply[c] = "error"
     \/ Replied(c, "rollback")
     \/ Replied(c, "verify") /\ reply[c] = "error"
     \/ Replied(c, "verify2") /\ reply[c] # "running"
  /\ FinishStart(c)
  /\ UNCHANGED <<status, stopRequested, stopPromise, health, process, world,
                 history, calls>>

\* A failing setDns is not fatal.  The status is asked twice.
SetDns(c) ==
  /\ pc[c] = "set_dns"
  /\ HelperDns(set_dns)
  /\ Goto(c, "verify")
  /\ UNCHANGED <<manager, op, link, setup, history, helper, boxes, root,
                 calls, faults>>

NotRunningYet(c) ==
  /\ Replied(c, "verify")
  /\ reply[c] = "not_running"
  /\ Goto(c, "verify2")
  /\ UNCHANGED <<manager, op, world, history, calls>>

ConfirmedByHelper(c) ==
  /\ \/ Replied(c, "verify")
     \/ Replied(c, "verify2")
  /\ reply[c] = "running"
  /\ status' = "running"
  /\ helperAuthoritative' = TRUE
  /\ subscription' = IF subscription = "none" THEN "down" ELSE subscription
  /\ pidFile' = (pidFile /\ pc[c] = "verify2")
  /\ FinishStart(c)
  /\ UNCHANGED <<stopRequested, stopPromise, helperFailures, process, events,
                 setup, history, helper, boxes, prompts, wrapper, dns,
                 calls, faults>>

-----------------------------------------------------------------------------
(***************************************************************************)
(* startWithSudoFallback.  The root shell starts sing-box, writes the PID  *)
(* file, sets the DNS a second later, waits for the end of sing-box and    *)
(* restores the DNS.                                                       *)
(***************************************************************************)

\* The password is typed; a shell of an earlier start is through by then.
PromptAccepted ==
  /\ osascript = "prompt"
  /\ wrapper = "off"
  /\ osascript' = "run"
  /\ wrapper' = "started"
  /\ box' = box \cup {"root"}
  /\ pidFile' = TRUE
  /\ UNCHANGED <<manager, tasks, link, setup, history, helper, stray, handles,
                 dns, calls, faults>>

PromptDenied ==
  /\ osascript = "prompt"
  /\ osascript' = "gone"
  /\ UNCHANGED <<manager, tasks, link, setup, history, helper, boxes,
                 handles, wrapper, pidFile, dns, calls, faults>>

WrapperSetsDns ==
  /\ wrapper = "started"
  /\ wrapper' = "loop"
  /\ dns' = dns \cup ({"app"} \cap Overrides)
  /\ UNCHANGED <<manager, tasks, link, setup, history, helper, boxes,
                 prompts, pidFile, calls, faults>>

WrapperEnds ==
  /\ wrapper = "loop"
  /\ "root" \notin box
  /\ wrapper' = "off"
  /\ dns' = dns \ {"app"}
  /\ osascript' = IF osascript = "run" THEN "gone" ELSE osascript
  /\ UNCHANGED <<manager, tasks, link, setup, history, helper, boxes, handles,
                 pidFile, calls, faults>>

\* settle: every 300ms the PID file is polled; a dead process in it is given
\* 15s to be replaced.
SudoSettles(c) ==
  /\ pc[c] = "sudo"
  /\ pidFile
  /\ status' = IF PidAlive THEN "running" ELSE "error"
  /\ FinishStart(c)
  /\ UNCHANGED <<stopRequested, stopPromise, health, process, world,
                 history, calls>>

\* The exit event of osascript: settles a start that still waits.
OsascriptExit ==
  /\ osascript = "gone"
  /\ osascript' = "off"
  /\ process' = FALSE
  /\ \/ \E c \in Caller :
          /\ pc[c] = "sudo"
          /\ status' = IF PidAlive THEN "running" ELSE "error"
          /\ FinishStart(c)
     \/ /\ \A c \in Caller : pc[c] # "sudo"
        /\ UNCHANGED <<status, startPromise, tasks>>
  /\ UNCHANGED <<stopRequested, stopPromise, health, link, setup, history,
                 helper, boxes, handles, wrapper, pidFile, dns, calls, faults>>

\* ... and that of an earlier osascript, whose start is settled: its handler
\* forgets this.process, whichever osascript that is by now.
EarlierOsascriptExit ==
  /\ exits
  /\ exits' = FALSE
  /\ handleLost' = (handleLost \/ (process /\ osascript \in {"prompt", "run"}))
  /\ process' = FALSE
  /\ UNCHANGED <<status, stopRequested, startPromise, stopPromise, health,
                 tasks, link, setup, history, helper, boxes, osascript,
                 wrapper, pidFile, dns, calls, faults>>

-----------------------------------------------------------------------------
(***************************************************************************)
(* sing-box and the helper fail.                                           *)
(***************************************************************************)

BoxDies ==
  /\ Fault
  /\ \E b \in box :
       /\ box' = box \ {b}
       /\ Push(IF b = "helper" THEN Exited ELSE <<>>)
  /\ UNCHANGED <<manager, tasks, subscription, setup, history, helper,
                 stray, root, dns, calls>>

\* The helper is gone.  One that is asked to end (SIGTERM) stops its sing-box;
\* one that crashes leaves it behind, in a process group of its own, and the
\* helper that follows knows nothing of it.  Events sent before still arrive.
HelperDown ==
  /\ Fault
  /\ helper = "up"
  /\ helper' = "down"
  /\ \/ box' = box \ {"helper"}
     \/ tracked /\ box' = (box \ {"helper"}) \cup {"orphan"}
  /\ subscription' = IF subscription = "up" THEN "down" ELSE subscription
  /\ UNCHANGED <<manager, tasks, events, setup, history, stray, root, dns,
                 calls>>

HelperUp ==
  /\ helper = "down"
  /\ setup \in {"helper", "mixed"}
  /\ helper' = "up"
  /\ UNCHANGED <<manager, tasks, link, setup, history, boxes, root, dns,
                 calls, faults>>

-----------------------------------------------------------------------------
ReconcileStep ==
  \/ BecomesAuthoritative
  \/ ReconcileByPidFile
  \/ ReconcileByHelper
  \/ ReconcileFails

StopStep(c) ==
  \/ StopProbed(c)
  \/ StopRestoresDnsFirst(c)
  \/ StopByHelper(c)
  \/ StopByHelperFails(c)
  \/ restoreSystemDns(c)
  \/ StopManually(c)
  \/ PidKilled(c)
  \/ PidSurvives(c)
  \/ AfterStop(c)

StartStep(c) ==
  \/ startTun(c)
  \/ Installed(c)
  \/ StartThrows(c)
  \/ StartCancelled(c)
  \/ PassGate(c)
  \/ CleanupStale(c)
  \/ CleanupTimesOut(c)
  \/ Validated(c)
  \/ HelperReady(c)
  \/ HelperNotReady(c)
  \/ StartedByHelper(c)
  \/ HelperStartThrows(c)
  \/ SetDns(c)
  \/ NotRunningYet(c)
  \/ ConfirmedByHelper(c)
  \/ SudoSettles(c)

RootStep ==
  \/ PromptAccepted
  \/ PromptDenied
  \/ WrapperSetsDns
  \/ WrapperEnds

Next ==
  \/ \E c \in Caller : tun_stop(c)
  \/ \E c \in Caller : tun_reconnect(c)
  \/ \E c \in Caller : tun_startTun(c)
  \/ \E c \in Caller : StopStep(c)
  \/ \E c \in Caller : StartStep(c)
  \/ \E t \in Task : HelperServes(t)
  \/ \E t \in Task : HelperRefuses(t)
  \/ Poll
  \/ ReconcileStep
  \/ Subscribed
  \/ handleHelperEvent
  \/ RootStep
  \/ OsascriptExit
  \/ EarlierOsascriptExit
  \/ StrayCleanup
  \/ BoxDies
  \/ HelperDown
  \/ HelperUp

Spec == Init /\ [][Next]_vars

(***************************************************************************)
(* Promises settle, timers fire, requests are served or refused, launchd   *)
(* restarts the helper, and the terminal view polls every 5s as long as it *)
(* shows a running tunnel.  The user is not obliged to answer a prompt.    *)
(***************************************************************************)
PollWhileRunning == status = "running" /\ Poll

CallerRuns(c) ==
  StopStep(c) \/ StartStep(c) \/ HelperServes(c) \/ HelperRefuses(c)
ReconcilerRuns ==
  ReconcileStep \/ HelperServes(Reconciler) \/ HelperRefuses(Reconciler)
WrapperRuns == WrapperSetsDns \/ WrapperEnds

Fairness ==
  /\ \A c \in Caller : WF_vars(CallerRuns(c))
  /\ WF_vars(ReconcilerRuns)
  /\ WF_vars(PollWhileRunning)
  /\ WF_vars(Subscribed)
  /\ WF_vars(handleHelperEvent)
  /\ WF_vars(HelperUp)
  /\ WF_vars(WrapperRuns)
  /\ WF_vars(OsascriptExit)
  /\ WF_vars(EarlierOsascriptExit)
  /\ WF_vars(StrayCleanup)

FairSpec == Spec /\ Fairness

-----------------------------------------------------------------------------
(***************************************************************************)
(* Properties.                                                             *)
(***************************************************************************)

AllIdle == \A c \in Caller : pc[c] = "idle"

\* A start waits for a prompt that no stop closes: osascript took over from a
\* helper that was down, after the stop or unknown to it; or its handle is lost.
PromptStays ==
  /\ startPromise # None
  /\ pc[startPromise] = "sudo"
  /\ handleLost \/ setup # "sudo"

\* "Signal any in-progress startTun to abort" and "waits for process to be
\* confirmed dead": once a stop(true) and all the calls it raced with are
\* over, no sing-box runs that the helper started, nor, where no helper is
\* used, one that osascript started; unless a stop threw an error that says
\* so, the stop(true) joined the stop(false) of a reconnect, or the exit of an
\* earlier osascript made the app forget the prompt.  (Without the exceptions,
\* see the divergences: StopAlwaysWins, StopLeavesNothing.)
StopWins ==
  /\ AllIdle
  /\ stopRequested
  /\ tracked \/ (setup = "sudo" /\ "root" \in box)
  => stopFailed \/ joinedReconnect \/ handleLost

StopAlwaysWins ==
  /\ AllIdle
  /\ stopRequested
  /\ tracked \/ "root" \in box
  => stopFailed

StopLeavesNothing ==
  AllIdle /\ stopRequested /\ box # {} => stopFailed \/ joinedReconnect

\* Without a helper the PID file is the only trace of the root process:
\* stop, reconcile and a start that fails keep it as long as sing-box lives.
OsascriptBoxHasPidFile ==
  setup \in {"sudo", "fallback"} /\ "root" \in box => pidFile

\* stop(true) "restore DNS to system default": when it and what it raced with
\* are over, no DNS override is in force.
StopRestoresDns ==
  AllIdle /\ stopRequested /\ status = "stopped" /\ wrapper = "off" => dns = {}

\* The UI does not show a dead tunnel as running for ever, whichever of the
\* events, polls and replies that report its end are lost or come late.  An
\* orphan is no tunnel that anybody knows of.
Tunnel == box \cap {"helper", "root"} # {}

DeadTunnelIsNoticed ==
  (status = "running" /\ ~Tunnel) ~> (status # "running" \/ Tunnel)

\* A stop returns, whoever it waits for and whatever prompt the user leaves
\* unanswered, and so does a start that it cancels, but for PromptStays.
StopPending ==
  \/ \E c \in Caller : op[c] = "stop"
  \/ stopRequested /\ startPromise # None /\ ~PromptStays

StopCompletes == StopPending ~> ~StopPending
=============================================================================
