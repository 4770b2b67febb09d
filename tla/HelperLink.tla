----------------------------- MODULE HelperLink -----------------------------
(***************************************************************************)
(* The app's link to the privileged helper, from installation to quit:     *)
(* the installer (proxy/helper-installer.ts), the client's requests with   *)
(* their retries and its event subscription (proxy/helper-client.ts), the  *)
(* subscriber's side in the helper (main.rs, ipc.rs, state.rs), how the    *)
(* manager keeps its status by events and by asking (sing-box-manager.ts), *)
(* and the quit flow that takes all of it down (main/index.ts).            *)
(*                                                                         *)
(* The helper's handling of sing-box is HelperDaemon, the races between    *)
(* starts and stops are TunManager: here a request takes effect at once,   *)
(* and what matters is who gets to know.  macOS only; the DNS requests,    *)
(* restored before each stop, are in TunManager too.                       *)
(*                                                                         *)
(* Time passes as it likes, with one assumption: the close of a socket     *)
(* that ended comes within the second a reconnect waits (Stalls = FALSE).  *)
(* A main thread blocked by execSync just then may break it.               *)
(***************************************************************************)
EXTENDS Naturals, Sequences, FiniteSets

CONSTANTS
  Retries,    \* sendWithRetry: attempts of one request
  HELPER_FAILURE_THRESHOLD,
  EVENT_CHANNEL_CAPACITY,
  Stalls,     \* a reconnect may run before the close of the old socket
  MaxSockets, \* bound: sockets at a time
  MaxFaults   \* bound: deaths of sing-box and of the helper, uses of the
              \* Settings page, scripts of the installer that fail in part

ASSUME HelperLinkConstants ==
  /\ {Retries, HELPER_FAILURE_THRESHOLD, EVENT_CHANNEL_CAPACITY} \subseteq Nat \ {0}
  /\ MaxSockets \in Nat \ {0} /\ MaxFaults \in Nat /\ Stalls \in BOOLEAN

Socket == 1 .. MaxSockets

VARIABLES
  \* the machine
  files,         \* the helper's installation (binary and plist): none, old or new
  loaded,        \* launchd has the daemon's job
  helper,        \* the version of the daemon that runs, or "down"
  hidden,        \* it runs, but the file of its socket was removed
  muffled,       \* history: a command of the last script that put the files in
                 \* place or took them away failed, and nobody was told
  box,           \* the helper runs sing-box
  faults,
  \* the subscription
  subscription,  \* _helperSubscription: none or open
  sock,          \* per socket: its state, whether the helper feeds it, what it holds
  socket,        \* the variable of subscribe(), 0 for null
  timers,        \* reconnect timers pending
  \* the manager
  running,       \* _status = "running"
  authoritative, failures,
  reconcile,     \* the reconcile in flight
  overlap,       \* history: the last one was overtaken by an event or a connect
  start,         \* startViaHelper: how far it has come
  \* quitting
  quitState, work,
  engine,        \* the process of a chat
  over           \* how the app has exited

launchd == <<files, loaded, helper, hidden, muffled>>
machine == <<launchd, box, faults>>
channel == <<subscription, sock, socket, timers>>
health  == <<authoritative, failures>>
manager == <<running, health, reconcile, overlap>>
quitting == <<quitState, work, engine, over>>
vars == <<machine, channel, manager, start, quitting>>

Free == [pc |-> "free", fed |-> FALSE, inbox |-> <<>>]
NoReconcile == [pc |-> "idle", try |-> 1, value |-> FALSE]
Idle == [pc |-> "idle", try |-> 1, reload |-> FALSE, value |-> FALSE]

\* index.ts reconciles when it is loaded; a chat has a turn under way.
Init ==
  /\ files \in {"none", "old", "new"}
  /\ loaded \in (IF files = "none" THEN {FALSE} ELSE BOOLEAN)
  /\ helper \in (IF loaded THEN {"down", files} ELSE {"down"})
  /\ hidden = FALSE /\ muffled = FALSE
  /\ box = FALSE /\ faults = 0
  /\ subscription = "none" /\ sock = [s \in Socket |-> Free] /\ socket = 0 /\ timers = 0
  /\ running = FALSE /\ authoritative = FALSE /\ failures = 0
  /\ reconcile = [NoReconcile EXCEPT !.pc = "avail"] /\ overlap = FALSE
  /\ start = Idle
  /\ quitState = "idle" /\ work = "none"
  /\ engine = "runs" /\ over = "no"

\* The daemon runs; and it can be reached.
Runs == helper # "down"
Up == Runs /\ ~hidden
Alive == over = "no"

-----------------------------------------------------------------------------
(* The helper's side of the subscription.                                  *)

\* Mutant: a subscriber that lags misses the event and stays.
FedOrSkipped(k, event) ==
  IF k.fed /\ Len(k.inbox) < EVENT_CHANNEL_CAPACITY
  THEN [k EXCEPT !.inbox = Append(@, event)] ELSE k

\* run_subscriber_loop: a subscriber that is too far behind is told so and
\* dropped.
Fed(k, event) ==
  IF ~k.fed THEN k
  ELSE IF Len(k.inbox) < EVENT_CHANNEL_CAPACITY THEN [k EXCEPT !.inbox = Append(@, event)]
  ELSE [k EXCEPT !.fed = FALSE, !.inbox = @ \o <<"lagged", "end", "close">>]

Push(event) == sock' = [s \in Socket |-> Fed(sock[s], event)]

\* The close of the socket is on its way.
Closes(k) == \E i \in DOMAIN k.inbox : k.inbox[i] = "close"

\* What the death of the helper is to a socket.
HungUp(k) ==
  IF k.pc = "free" \/ Closes(k) THEN k
  ELSE IF k.pc = "connecting" THEN [k EXCEPT !.inbox = <<"error", "close">>]
  ELSE [k EXCEPT !.fed = FALSE, !.inbox = @ \o <<"end", "close">>]

\* bind() removed a stale socket file; a connection attempt succeeds or not.
SocketConnects(s) ==
  /\ sock[s].pc = "connecting" /\ sock[s].inbox = <<>>
  /\ sock' = [sock EXCEPT ![s] = IF Up THEN [@ EXCEPT !.pc = "open"] ELSE HungUp(@)]
  /\ UNCHANGED <<machine, subscription, socket, timers, manager, start, quitting>>

\* handle_client: subscribe is acknowledged, then the events flow.
HelperSubscribes(s) ==
  /\ sock[s] = [Free EXCEPT !.pc = "open"] /\ Runs
  /\ sock' = [sock EXCEPT ![s].fed = TRUE, ![s].inbox = <<"ack">>]
  /\ UNCHANGED <<machine, subscription, socket, timers, manager, start, quitting>>

-----------------------------------------------------------------------------
(* The client's subscription.                                              *)

Free1(sk) == CHOOSE s \in Socket : sk[s] = Free /\ \A r \in Socket : sk[r] = Free => s <= r

\* connect() of subscribe.
Connect(sk) ==
  /\ \E s \in Socket : sk[s] = Free
  /\ socket' = Free1(sk)
  /\ sock' = [sk EXCEPT ![Free1(sk)].pc = "connecting"]

ensureHelperSubscription ==
  IF subscription = "open" THEN UNCHANGED channel
  ELSE subscription' = "open" /\ Connect(sock) /\ UNCHANGED timers

\* The timer of scheduleReconnect.
Reconnect ==
  /\ Alive /\ timers > 0
  /\ Stalls \/ \A s \in Socket : ~Closes(sock[s])
  /\ timers' = timers - 1
  /\ Connect(sock)
  /\ UNCHANGED <<machine, subscription, manager, start, quitting>>

\* Mutant: a second timer beside the pending one.
scheduleReconnectAgain == timers' = timers + 1

scheduleReconnect == timers' = IF timers > 0 THEN timers ELSE timers + 1

\* onClosed, for error, end and close alike.
OnClosed == socket' = 0 /\ scheduleReconnect

\* An answer about sing-box is on its way to the manager.
Asking == reconcile.pc # "idle" \/ start.pc = "verified"

\* reconcileStatus: joins the one in flight.
ReconcileFrom(pc) ==
  IF reconcile.pc # "idle" THEN reconcile' = reconcile /\ overlap' = TRUE
  ELSE reconcile' = [NoReconcile EXCEPT !.pc = pc] /\ overlap' = Asking

Entry == IF authoritative THEN "status" ELSE "avail"

\* The ack is the sign to ask what was missed.
OnConnect == ReconcileFrom(Entry) /\ UNCHANGED running

\* handleHelperEvent.
OnEvent(event) ==
  /\ running' = (event = "started")
  /\ overlap' = (overlap \/ Asking)
  /\ UNCHANGED reconcile

\* What a socket holds once its next message is read.
Rest(k) == [k EXCEPT !.inbox = Tail(@)]

\* A socket's next message.  "lagged" is logged only.
Receive(s) ==
  /\ Alive /\ sock[s].inbox # <<>>
  /\ LET m == Head(sock[s].inbox)
     IN  /\ IF m = "ack" THEN OnConnect
            ELSE IF m \in {"started", "exited"} THEN OnEvent(m)
            ELSE UNCHANGED <<running, reconcile, overlap>>
         /\ IF m \in {"error", "end", "close"} THEN OnClosed ELSE UNCHANGED <<socket, timers>>
         /\ sock' = [sock EXCEPT ![s] = IF m = "close" THEN Free ELSE Rest(@)]
  /\ UNCHANGED <<machine, subscription, health, start, quitting>>

\* closeHelperSubscription: the controller's close destroys the socket, and
\* what its handlers still hear has no effect.  A start or a reconcile under
\* way may subscribe anew.
Close ==
  /\ subscription' = "none" /\ timers' = 0 /\ socket' = 0
  /\ sock' = [s \in Socket |-> Free]

-----------------------------------------------------------------------------
(* Reconciling the status by asking (_reconcileStatusImpl).                *)

\* The poll, and whatever else asks for the status.
Poll ==
  /\ Alive /\ reconcile.pc = "idle"
  /\ ReconcileFrom(Entry)
  /\ UNCHANGED <<machine, channel, running, health, start, quitting>>

\* No helper so far: is it there now?  Without one, no PID file either.
ReconcileAvail ==
  /\ reconcile.pc = "avail"
  /\ IF Up THEN /\ authoritative' = TRUE
                /\ ensureHelperSubscription
                /\ reconcile' = [reconcile EXCEPT !.pc = "status"]
                /\ UNCHANGED running
     ELSE /\ running' = FALSE
          /\ reconcile' = NoReconcile
          /\ UNCHANGED <<authoritative, channel>>
  /\ UNCHANGED failures

\* The helper serves the status request.
ReconcileServed ==
  /\ reconcile.pc = "status" /\ Up
  /\ reconcile' = [reconcile EXCEPT !.pc = "reply", !.value = box]
  /\ UNCHANGED <<running, health, channel>>

ReconcileReply ==
  /\ reconcile.pc = "reply"
  /\ running' = reconcile.value
  /\ failures' = 0
  /\ reconcile' = NoReconcile
  /\ UNCHANGED <<authoritative, channel>>

\* sendWithRetry gives up, and at the threshold so does the manager.
ReconcileFails ==
  /\ reconcile.pc = "status" /\ ~Up
  /\ IF reconcile.try < Retries
     THEN reconcile' = [reconcile EXCEPT !.try = @ + 1] /\ UNCHANGED <<running, health>>
     ELSE /\ reconcile' = NoReconcile
          /\ IF failures + 1 < HELPER_FAILURE_THRESHOLD
             THEN failures' = failures + 1 /\ UNCHANGED <<running, authoritative>>
             ELSE failures' = 0 /\ running' = FALSE /\ authoritative' = FALSE
  /\ UNCHANGED channel

Reconcile ==
  /\ Alive
  /\ ReconcileAvail \/ ReconcileServed \/ ReconcileReply \/ ReconcileFails
  /\ UNCHANGED <<machine, overlap, start, quitting>>

-----------------------------------------------------------------------------
(* The installer: ensureReady, and the Settings page.                      *)

(***************************************************************************)
(* The scripts of the installer, run as root.  Their commands are joined   *)
(* by "; " and the last ends with "|| true": whatever failed, the caller   *)
(* hears of success.  A copy that fails leaves what was there; of a binary *)
(* and a plist one alone counts as none.                                   *)
(***************************************************************************)

\* bootout, with the job gone or not.
Bootout(gone) ==
  /\ gone \/ loaded
  /\ IF gone
     THEN /\ box' = FALSE
          /\ sock' = [s \in Socket |-> HungUp(sock[s])]
     ELSE UNCHANGED <<box, sock>>
  /\ UNCHANGED <<subscription, socket, timers>>

\* bootstrap, which fails while launchd has the job.
Bootstrap(gone, loads) ==
  LET boots == gone /\ loads /\ files' # "none"
  IN  /\ loaded' = (boots \/ ~gone)
      /\ helper' = IF boots THEN files' ELSE IF gone THEN "down" ELSE helper
      /\ hidden' = (hidden /\ ~gone)

\* What fails is counted.
Counted(done) == IF done THEN UNCHANGED faults ELSE faults < MaxFaults /\ faults' = faults + 1

\* install: the copies, bootout and bootstrap.
Installed(copied, gone, loads) ==
  /\ files' = IF copied THEN "new" ELSE files
  /\ muffled' = ~(copied /\ gone)
  /\ Bootout(gone) /\ Bootstrap(gone, loads)

\* The reload: bootout and bootstrap.
Reloaded(gone, loads) ==
  /\ UNCHANGED <<files, muffled>>
  /\ Bootout(gone) /\ Bootstrap(gone, loads)

\* uninstall: bootout, and the removal of the files and of the socket's.
Uninstalled(gone) ==
  /\ files' = "none" /\ muffled' = ~gone
  /\ Bootout(gone)
  /\ loaded' = ~gone
  /\ helper' = IF gone THEN "down" ELSE helper
  /\ hidden' = (~gone /\ Runs)

To(pc) == start' = [Idle EXCEPT !.pc = pc, !.reload = start.reload]

\* The start fails.  What fails in the try block of a reload leads to the
\* full installation; startTun goes on without the helper (TunManager).
Fails == IF start.reload THEN start' = [Idle EXCEPT !.pc = "install"] ELSE start' = Idle

\* ensureReady begins by asking whether the helper answers.
EnsureReady ==
  /\ start.pc = "avail"
  /\ To(IF Up THEN "version" ELSE IF files # "none" THEN "reload" ELSE "install")
  /\ UNCHANGED <<machine, channel>>

\* Mutant: a helper that does not tell its version is taken for the new one.
ensureUpToDateTrusting ==
  /\ start.pc = "version"
  /\ IF files = "none" THEN To("start")
     ELSE IF Up THEN To(IF helper = "new" THEN "start" ELSE "install")
     ELSE IF start.try < Retries THEN start' = [start EXCEPT !.try = @ + 1]
     ELSE To("start")
  /\ UNCHANGED <<machine, channel>>

\* Another version, or none that answers, is replaced.
ensureUpToDate ==
  /\ start.pc = "version"
  /\ IF files = "none" THEN To("start")
     ELSE IF Up THEN To(IF helper = "new" THEN "start" ELSE "install")
     ELSE IF start.try < Retries THEN start' = [start EXCEPT !.try = @ + 1]
     ELSE To("install")
  /\ UNCHANGED <<machine, channel>>

\* The files are there, the daemon does not answer: the script, unless the user
\* refuses, or its 30 s are over first.
Reload ==
  /\ start.pc = "reload"
  /\ \/ \E gone, loads, told \in BOOLEAN :
          /\ Reloaded(gone, loads) /\ Counted(gone /\ loads /\ told)
          /\ start' = [Idle EXCEPT !.pc = IF told THEN "reloaded" ELSE "install",
                                  !.reload = told]
     \/ To("install") /\ UNCHANGED <<machine, channel>>

\* waitForHelper after it.
ReloadWait ==
  /\ start.pc = "reloaded"
  /\ IF Up THEN To("version") ELSE Fails
  /\ UNCHANGED <<machine, channel>>

Install ==
  /\ start.pc = "install"
  /\ \/ \E copied, gone, loads, told \in BOOLEAN :
          /\ Installed(copied, gone, loads) /\ Counted(copied /\ gone /\ loads /\ told)
          /\ IF told THEN To("wait") ELSE Fails
     \/ Fails /\ UNCHANGED <<machine, channel>>

\* waitForHelper.
Wait ==
  /\ start.pc = "wait"
  /\ IF Up THEN To("start") ELSE Fails
  /\ UNCHANGED <<machine, channel>>

\* A request of the start while the helper is down.
Again == start' = IF start.try < Retries THEN [start EXCEPT !.try = @ + 1] ELSE Idle

\* The start request.  (That of a sing-box that runs replaces it.)
StartServed ==
  /\ start.pc = "start"
  /\ IF Up THEN box' = TRUE /\ Push("started") /\ To("verify")
     ELSE Again /\ UNCHANGED <<box, sock>>
  /\ UNCHANGED <<launchd, faults, subscription, socket, timers, overlap>>

\* The helper is asked whether sing-box runs ...
StartAsked ==
  /\ start.pc = "verify"
  /\ IF Up THEN start' = [Idle EXCEPT !.pc = "verified", !.value = box] ELSE Again
  /\ overlap' = (overlap \/ reconcile.pc # "idle")
  /\ UNCHANGED <<machine, channel>>

\* ... and owns it from now on.
StartVerified ==
  /\ start.pc = "verified"
  /\ start' = Idle
  /\ IF start.value
     THEN /\ running' = TRUE /\ authoritative' = TRUE
          /\ ensureHelperSubscription
     ELSE UNCHANGED <<running, authoritative, channel>>
  /\ UNCHANGED <<machine, failures, reconcile, overlap>>

StartStep ==
  /\ Alive
  /\ \/ /\ EnsureReady \/ ensureUpToDate \/ Reload \/ ReloadWait \/ Install \/ Wait
        /\ UNCHANGED manager
     \/ (StartServed \/ StartAsked) /\ UNCHANGED <<running, health, reconcile>>
     \/ StartVerified
  /\ UNCHANGED quitting

\* startViaHelper.
Start ==
  /\ Alive /\ start.pc = "idle" /\ ~running /\ quitState = "idle"
  /\ To("avail")
  /\ UNCHANGED <<machine, channel, manager, quitting>>

\* helper:install and helper:uninstall, also while a start is under way.
SettingsInstall ==
  /\ Alive /\ Counted(FALSE)
  /\ \E copied, gone, loads \in BOOLEAN : Installed(copied, gone, loads)
  /\ UNCHANGED <<manager, start, quitting>>

Uninstall ==
  /\ Alive /\ Counted(FALSE) /\ files # "none"
  /\ \E gone \in BOOLEAN : Uninstalled(gone)
  /\ UNCHANGED <<manager, start, quitting>>

-----------------------------------------------------------------------------
(* Faults.                                                                 *)

BoxDies ==
  /\ box /\ faults < MaxFaults
  /\ box' = FALSE /\ faults' = faults + 1
  /\ Push("exited")
  /\ UNCHANGED <<launchd, subscription, socket, timers, manager, start, quitting>>

HelperDies ==
  /\ Runs /\ faults < MaxFaults
  /\ helper' = "down" /\ hidden' = FALSE /\ box' = FALSE /\ faults' = faults + 1
  /\ sock' = [s \in Socket |-> HungUp(sock[s])]
  /\ UNCHANGED <<files, loaded, muffled, subscription, socket, timers, manager, start,
                 quitting>>

\* launchd keeps it alive.
HelperRestarts ==
  /\ ~Runs /\ loaded /\ files # "none"
  /\ helper' = files
  /\ UNCHANGED <<files, loaded, hidden, muffled, box, faults, channel, manager, start,
                 quitting>>

-----------------------------------------------------------------------------
(* Quitting.                                                               *)

\* The app is gone: with it its sockets and timers.
Exit(how) ==
  /\ over' = how
  /\ sock' = [s \in Socket |-> Free] /\ socket' = 0 /\ timers' = 0
  /\ UNCHANGED subscription

\* before-quit.  Idle: the work begins, with cancelAll, whose SIGTERM the engine
\* obeys or does not.  Running: ignored.
beforeQuit ==
  \/ /\ quitState = "idle"
     /\ quitState' = "running" /\ work' = "upload"
     /\ engine' \in (IF engine = "runs" THEN {"off", "stubborn"} ELSE {engine})
     /\ UNCHANGED <<channel, over>>
  \/ quitState = "done" /\ Exit("asked") /\ UNCHANGED <<quitState, work, engine>>

\* The user quits; so does the app itself when the work is done.
Quit ==
  /\ Alive /\ beforeQuit
  /\ UNCHANGED <<machine, manager, start>>

\* The upload, or its 5 s; then the subscription is closed and stop called.
QuitUploaded ==
  /\ work = "upload" /\ work' = "stop"
  /\ Close
  /\ UNCHANGED <<machine, quitState, running>>

\* stop(): by the helper if it answers one of two pings; else there is no
\* PID file to kill by.
QuitStops ==
  /\ work = "stop" /\ work' = "stopped"
  /\ IF Up THEN box' = FALSE /\ Push("exited") ELSE UNCHANGED <<box, sock>>
  /\ running' = FALSE
  /\ UNCHANGED <<launchd, faults, subscription, socket, timers, quitState>>

\* finally: app.quit() finds the state done.
QuitDone ==
  /\ quitState = "running" /\ work = "stopped"
  /\ quitState' = "done"
  /\ UNCHANGED <<machine, channel, work, running>>

\* Mutant: the bound is on the upload only.
QuitTimeoutUpload ==
  /\ quitState = "running" /\ work = "upload"
  /\ quitState' = "done"
  /\ UNCHANGED <<machine, channel, work, running>>

\* 30 s are over.
QuitTimeout ==
  /\ quitState = "running" /\ work \in {"upload", "stop"}
  /\ quitState' = "done"
  /\ UNCHANGED <<machine, channel, work, running>>

QuitWork ==
  /\ Alive
  /\ QuitUploaded \/ QuitStops \/ QuitDone \/ QuitTimeout
  /\ overlap' = (overlap \/ Asking)
  /\ UNCHANGED <<health, reconcile, start, engine, over>>

\* SIGTERM or SIGINT: stop, then exit; nothing is refused while the stop lasts.
Signal ==
  /\ Alive
  /\ IF Up THEN box' = FALSE ELSE UNCHANGED box
  /\ Exit("signal")
  /\ UNCHANGED <<launchd, faults, manager, start, quitState, work, engine>>

\* CANCEL_GRACE_MS are over: SIGKILL, by a timer of the app.
KillTimer ==
  /\ Alive /\ engine = "stubborn"
  /\ engine' = "off"
  /\ UNCHANGED <<machine, channel, manager, start, quitState, work, over>>

\* The watchdog finds the app gone.
WatchdogStops ==
  /\ ~Alive /\ box /\ Runs
  /\ box' = FALSE
  /\ UNCHANGED <<launchd, faults, channel, manager, start, quitting>>

-----------------------------------------------------------------------------

Next ==
  \/ \E s \in Socket : SocketConnects(s) \/ HelperSubscribes(s) \/ Receive(s)
  \/ Reconnect \/ Poll \/ Reconcile \/ StartStep \/ Start \/ SettingsInstall \/ Uninstall
  \/ BoxDies \/ HelperDies \/ HelperRestarts
  \/ Quit \/ QuitWork \/ Signal \/ KillTimer \/ WatchdogStops

Spec == Init /\ [][Next]_vars

\* The bound on the quit work fires and the app quits itself; the stop of the
\* tunnel may hang (a password prompt, a sing-box that does not die).
FairSpec ==
  /\ Spec
  /\ WF_vars(QuitWork /\ quitState' = "done")
  /\ WF_vars(Quit /\ quitState = "done")

-----------------------------------------------------------------------------

Message == {"ack", "started", "exited", "lagged", "error", "end", "close"}

\* Every variable has its type, and what a socket still holds is bounded by
\* the helper's event channel (state.rs) and the end of the connection.
TypeOK ==
  /\ files \in {"none", "old", "new"} /\ helper \in {"down", "old", "new"}
  /\ {loaded, hidden, muffled} \subseteq BOOLEAN
  /\ (Runs => loaded) /\ (hidden => Runs /\ muffled) /\ (Runs /\ ~muffled => helper = files)
  /\ box \in BOOLEAN /\ (box => Runs) /\ faults \in 0 .. MaxFaults
  /\ subscription \in {"none", "open"}
  /\ \A s \in Socket :
       /\ sock[s].pc \in {"free", "connecting", "open"} /\ sock[s].fed \in BOOLEAN
       /\ sock[s].inbox \in Seq(Message)
       /\ Len(sock[s].inbox) <= EVENT_CHANNEL_CAPACITY + 3
  /\ socket \in Socket \cup {0} /\ timers \in 0 .. 1
  /\ running \in BOOLEAN /\ authoritative \in BOOLEAN /\ overlap \in BOOLEAN
  /\ failures \in 0 .. HELPER_FAILURE_THRESHOLD - 1
  /\ reconcile.pc \in {"idle", "avail", "status", "reply"} /\ reconcile.try \in 1 .. Retries
  /\ start.pc \in {"idle", "avail", "version", "reload", "reloaded", "install", "wait", "start",
                   "verify", "verified"}
  /\ start.try \in 1 .. Retries
  /\ quitState \in {"idle", "running", "done"}
  /\ work \in {"none", "upload", "stop", "stopped"}
  /\ engine \in {"off", "runs", "stubborn"} /\ over \in {"no", "asked", "signal"}

Ended(s) == sock[s].pc # "free" /\ socket # s

\* However a socket goes (error, end and close all report it, and a lagging
\* subscriber is dropped), an open subscription (helper-client.ts, subscribe)
\* has one socket or one timer that will make one, never both and never
\* neither; once closed it has none of them.
OneChannel ==
  /\ Alive /\ subscription = "open" =>
       /\ timers = IF socket = 0 THEN 1 ELSE 0
       /\ socket # 0 => sock[socket].pc # "free"
  /\ subscription = "none" => timers = 0 /\ socket = 0 /\ \A s \in Socket : sock[s] = Free
  /\ \A s \in Socket : Ended(s) => ~sock[s].fed /\ Head(sock[s].inbox) \in {"end", "close"}

\* No event is lost for good: once the subscription is acknowledged, nothing
\* it brought is unread and no question is under way, the manager's status is
\* what the helper has - unless the last answer crossed an event
\* (handleHelperEvent, reconcileStatus): the next poll corrects that; or the
\* helper was uninstalled and runs on, where no question reaches it.
ViewIsTrue ==
  ( /\ Alive /\ ~overlap /\ ~Asking /\ ~hidden
    /\ \E s \in Socket : sock[s].fed /\ sock[s].inbox = <<>> )
  => (running <=> box)

\* A start is sent to the helper that came with this app, whatever was
\* installed before, whichever step of ensureReady failed on the way, and
\* whatever the Settings page does meanwhile - unless a command of the last
\* script failed unnoticed (helper-installer.ts, install and uninstall).
ReadyIsNew == start.pc = "start" /\ Up /\ ~muffled => helper = "new"

\* What the comment on ensureReady says, "Ensure the helper is installed,
\* running, and up to date": refuted in HelperLinkPartial.cfg, where the copy
\* of the new binary fails and the old daemon answers waitForHelper.
ReadyIsAlwaysNew == start.pc = "start" /\ Up => helper = "new"

\* Whatever hangs, and however often the user asks, a quit that began ends in
\* the exit of the app (index.ts, before-quit).
QuitEnds == quitState = "running" ~> ~Alive

\* What the comment on the chat cleanup of doQuitWork says: it waits for the
\* grace period after which an engine is killed.
QuitKillsEngines == over = "asked" => engine # "stubborn"

=============================================================================
