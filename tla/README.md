# Verification of inkess-code

inkess-code is an Electron desktop application for AI coding tools: a terminal
window (PTY tabs), a chat window over command-line engines, and a TUN tunnel by
sing-box, which on macOS a privileged helper daemon (Rust) or an `osascript`
root shell runs. This directory holds TLA+ models of the parts where processes,
callbacks and messages interleave, the TLC configurations that check them, and
proofs for TLAPS.

Paths below are relative to the repository. `src/main` is the Electron main
process, `src/renderer` the windows, `helper/src` the daemon.

## 1. Inventory

**Helper daemon** (`helper/src`). One tokio task per connection, a watchdog task,
one exit monitor per child and a signal handler share `HelperState` under one
mutex: the sing-box child, the pid of the app that asked for it, and a broadcast
channel of events. Requests: start, stop, status, info, set_dns, restore_dns,
shutdown, subscribe. Hard: `stop` releases the mutex while it waits up to 7 s for
the child; the watchdog acts on a pid it read earlier; monitor and stop both see
a child die; the helper itself may crash and launchd restarts it. Correct when a
child handle has one owner and is never lost, the watchdog guards the app of the
tracked child, events tell the truth, the death of the app ends sing-box, and every
request returns.

**TUN manager** (`src/main/proxy/sing-box-manager.ts`, with `helper-client.ts`,
`helper-installer.ts` and the `tun:*` handlers of `index.ts`). One JavaScript
thread, but every `await` lets another handler run. State: `_status`, the abort
flag `_stopRequested`, three joined promises (start, stop, reconcile), the
helper's authority and its failure count, the osascript child, the PID file, the
event subscription. Hard: starts, stops, reconnects, polls and events overlap;
replies are stale when used; the root process outlives what started it. Correct
when a stop beats the starts it races with, what the window shows becomes true, the
root process stays findable, DNS is restored, and nobody waits for ever.

**Helper client, installer and quit** (`helper-client.ts`, `helper-installer.ts`, the
quit machine of `index.ts`). An installed helper may be old, dead or gone; requests
are retried; the event subscription reconnects with a growing delay and may lag;
quit (idle, running, done) races a 30 s hard timeout, SIGTERM and a second quit.
Correct when an open subscription has one socket or one timer, no event is lost for
good, sing-box is started by the helper of this version, and a quit ends.

**Terminals** (`pty-manager.ts`, `pty-output-monitor.ts`, `session-recorder.ts`, sleep
inhibitor in `index.ts`). Per-PTY activity state with idle timers, a power-save
blocker while something streams, a recording per PTY and one index, rewritten in
place. Correct when a task keeps the system awake, and a recording stays listed
until it is deleted or the oldest has to make room.

**Chat** (`src/main/chat`). One engine child per turn, at most five at once, a
JSON store with an index, cancel and delete. Child events arrive in several
orders. Correct when a turn ends exactly once, a slot is freed whenever its child
is gone, and a deleted chat does not come back.

**Chat window** (`src/renderer/stores/chat.ts`, `views/chat`, and the parsing of
`stream-parser.ts`, `normalizer.ts`, `engines/`, `history-loader.ts`). Replies,
broadcasts and chunks of output come in between the window's awaits. Correct when
what is shown is what the session says, the input is blocked exactly while a turn
runs, and the list follows the index.

**TUN gate and terminal window** (`views/tun/TunGate.tsx`, `TerminalApp.tsx`,
`NetworkPopover.tsx`). A gate until the tunnel is up, then a watch over it: a poll,
a chain of checks of the exit address, pushes, alerts, an automatic and a manual
reconnect. Correct when one reconnect runs at a time and a tunnel that is down or
hijacked is noticed.

**Account** (`subscription-manager.ts`, `browser-sync.ts`, login and logout in
`index.ts` and `TerminalApp.tsx`). Session, status polls, periodic uploads of browser
data; each handler reads the current session again after its awaits. Correct when data of one account reach another in no other way than
with a transfer that a sign-in overtook, and a page does not outlive its session.

**Installation** (`cli-manager.ts`, `tools-manager.ts`, `SetupScreen.tsx`). Several
flows download, verify and place files at once; the process may die at any step.
Correct when what is at a final path is whole and the set-up screen ends.

**Proxy configuration** (`subscription.ts`, `sing-box-config.ts`, `startTunInternal`).
Two parsers with a URL in between, then two lists of rules that must agree. Correct when no tunnel that can be dialled is weaker than its node, the tunnel is one that a
waiting request asked for, and no lookup waits for itself.

**Embedded browser**, **reporting, updates, utilities**, **preload**, **views**: listed
with their files in `PROJECT.json`, not modelled (section 6).

Components meet like this: the window asks over IPC, `index.ts` dispatches to the
managers, `SingBoxManager` talks to the daemon over a socket and gets events back,
the window gets pushes. `Connection` is the window's end of the tunnel, `TunManager`
the main process, `HelperLink` the socket, `HelperDaemon` the other end; each takes the
next one as the few outcomes it can see. `ChatWindow` and `ChatTurns` are the two
ends of chat in the same way.

## 2. Modules

| module | models |
| --- | --- |
| `ChildLifecycle` | abstract: what the helper promises about one sing-box child |
| `HelperDaemon` | the daemon: `singbox.rs`, `watchdog.rs`, dispatch and signals of `main.rs`, `state.rs` |
| `MCHelperDaemon` | `HelperDaemon` with symmetry for TLC |
| `HelperDaemonProofs` | its theorems |
| `TunManager` | `SingBoxManager` on macOS, the `tun:*` handlers, the helper as the app sees it, the root shell of osascript |
| `TunManagerProofs` | its theorems |
| `ChatTurns` | the main process's side of chat: `ChatManager`, `ChatStore`, the `chat:*` handlers, one engine child per turn |
| `ChatTurnsProofs` | its theorems |
| `ChatWindow` | the window's side of chat and what becomes of an engine's output |
| `Terminals` | PTYs, output monitor, sleep inhibitor, session recorder |
| `TerminalsProofs` | its theorems |
| `Account` | session, browser sync, login page or app |
| `Installation` | engine and tools, the set-up flow |
| `InstallationProofs` | its theorems |
| `Connection` | gate, watch and reconnects of the window |
| `WindowProofs` | theorems of `ChatWindow` and `Connection`, which run in the same window |
| `HelperLink` | installer, client, subscription, the manager's status, quit |
| `HelperLinkProofs` | its theorems |
| `ProxyConfig` | nodes, URL parsers, choice of the tunnel, TUN configuration, stale state |
| `SubscriptionProofs` | theorems of `Account` and `ProxyConfig`, which share the subscription |

Where a theorem module speaks of two models, their specifications have names of their own:
`Spec` and `ConnSpec` in `WindowProofs`, `Spec` (of `Account`) and `ProxySpec` in `SubscriptionProofs`.

### HelperDaemon

A *task* is a connection, the watchdog or the signal handler; `pc[t]` is where it
stands between two acquisitions of the mutex or two awaits, `child[t]` is the
`Child` it took out of the state or has spawned and not yet stored. A critical
section of the Rust code is one action: `TakeChild` is the first half of `stop`
(take the handle, SIGTERM), `Reap` the `timeout(5s, wait())`, `Escalate` the SIGKILL
and the 2 s wait, `PublishExit` the event, `Spawn` and `Store` the two halves of
`start` around the spawn. `MonitorPoll` is one tick of `monitor_child_exit`.
`WatchdogRead` and `WatchdogCheck` are the two halves of a watchdog tick, with the
lock free between them. Children and apps are model values; `proc[c]` is
what the process table knows of a child (a child that was sent a SIGKILL is doomed
until it dies), `monitor`, `announced`, `exits` and `owner` record its monitor and
the events sent for it. Time is abstracted: a timeout may fire at any moment its
wait is not over. `HelperCrashes` loses all state and leaves children behind;
`HelperRestarts` is launchd.

`ChildLifecycle` has four states of one child and is refined for each child
(`ImplementsLifecycle`): spawned, announced, announced as gone, each at most
once, with a gap only where a crash or a second start loses the events.

### TunManager

An action is the code between two awaits. `Caller` are slots for IPC calls in
progress, `Reconciler` is the reconcile in flight. `pc` is where each awaits;
`startPromise` and `stopPromise` name the caller whose `_startTunImpl` or
`_stopImpl` runs, and a joiner waits at `join`, `s_join` or `recon` until `Release`
moves it on. `HelperServes` and `HelperRefuses` are the helper's side of an RPC;
`reply[t]` then waits to be used and can be stale. Requests whose continuation
touches no shared field (`isAvailable`, `setDns`, `restoreDns`) are served and
continued in one step. `setup` is chosen once: `helper` (the helper
runs sing-box, and osascript does if the helper is down when it is needed), `sudo` (osascript
runs it), `mixed` (the helper is installed but `useHelper` is off) and `fallback` (the helper never
comes up). Several sing-boxes may run at once; `box` says whose they are: the child that the helper
tracks, the one that osascript started as root, and the orphan that a crash of the helper leaves,
which the restarted helper does not know. `osascript` and `wrapper` are the two processes behind a
password prompt; the wrapper survives the kill of osascript, as a root shell does. The exit of an
earlier osascript (`exits`) is handled late and sets `this.process` to null, whoever is in it by
then: `handleLost` remembers that the app forgot a prompt that way. A clean-up of leftovers that
loses its race against 20 s goes on beside the start: `stray` is the helper call it has yet to make.
`Overrides` says whose DNS overrides are followed; no code reads them, and only
`TunManagerDns.cfg` does.

Assumed: the helper answers within the client's timeout or not at all; typing a
password takes longer than the 2 s loop of an earlier wrapper; accepting a prompt
and writing the PID file are one step; set_dns and restore_dns succeed when
served; the helper's stop and start are atomic (`HelperDaemon` shows what is inside
and where that is not so). Left out: `_mode` (nothing reads it), configuration
contents, latency and IP fields, the interface monitor, Windows and Linux,
`startLocalProxy`, what `install` does beyond returning or throwing, connectivity probes, the
clean-up at start-up.

### ChatTurns

All handlers but `chat:delete` run to their end, so an action is one callback: a
handler, a timer, or an event of a child. `turn[t]` is the child of the t-th
accepted send with what its closures hold: the metadata as send read it (`meta`),
whether it was cancelled or timed out, whether a kill timer is armed. `inflight` is
the map of slots, `chats` the index in memory, `files` the workspace directories;
`waitsFor[c]` is a `chat:delete` inside `cancelAndWait`, and names the child it
cancelled. `Exit` is the whole exit handler: it frees the slot, patches the index
from the stale metadata (the write can fail, and is rolled back), and announces
the end. `StdoutData` may come after it, as Node allows. A child that cannot be
spawned (`failed`) reports an error and no exit.

A rejected call changes nothing and is no step. Ids of chats are never used twice. The
flags of a turn that is over are reset in `Exit`, because nothing reads them. Renames,
titles and time stamps are left out: `update` of a rename touches no modelled field.
Assumed (`Deadline`): the exit of a child that got SIGKILL is reported within the 500 ms that
`cancelAndWait` allows after it, as the code's own comment has it; and the user deletes a chat once
at a time. Not
modelled: a restart, the index on disk, and failing writes of create and delete.
`WipesAfterExit` speaks of the child that was cancelled. That another child of the chat may run is
`ChatDelete` (section 4): `cancelAndWait` polls every 30 ms, and a send takes the slot in between.

### ChatWindow

The window and the main process share two queues, `toMain` and `toWindow`, which keep
the order, as Electron's IPC does. A callback of the window is an action: a control the
user touches (`selectChat`, `send`, `delete`, ...), or `Receive`, which handles the next reply
or broadcast with the rest of the code after that `await`. A call in `toMain` carries what the
code after the await still knows (the snapshot that a refused send restores). The
engine prints lines as two halves; `Data` reads any number of them, so a chunk
may end in the middle of a line. Rendering is the code's: text deltas merge, a result is
put at the last open call with its id. `said` is the session's file, `Rebuild`
its replay. Texts are tokens. `Exit` may come while lines are
still in the pipe, as Node allows; `Data` reads them afterwards, and the window drops them (`late`,
`unread`). The user submits whenever the input lets him: `ahead` holds the chats in which a message
was submitted before a history or the reply to another had come, which may then take it off the
display. `MaxAhead` bounds such messages.

### Terminals

`monitor` has an entry per watched PTY (streaming or idle), `active` and `index` are the
recorder's maps, `file` and `disk` the sizes on disk and the index there. `Store` packs
the recorder's state so that `closeSession` and `enforceStorageLimit` are functions; `killAll`
applies them to the PTYs in the order of their map, a recursive function (`Closed`). PTYs are numbered by creation, which
is the order of `createdAt`. `listening` is the activity listener of `setupIPC`; on macOS the closing of the window takes
it away, and a window that the dock icon opens again has none. `guarded` are the PTYs whose
streaming began under an enabled inhibitor, whether or not anybody listens. `TornWrites` lets a
crash leave half an index; it is off in the run, because no document claims that
`index.json` survives one (`HistoryIsKept` fails with it on).

### Account

`session` is `subscriptionManager.session`, `sync` BrowserSync's user; `checks`, `cleanups`,
`downloads` and `upload` are what is in flight, one slot per place in the code that starts
one. `jar` and `remote` hold the accounts whose data is in a browser partition and on the
server. The partition and the token are read again at each step, as in the code. `Answered`
covers no answer, a 401, no change, a new configuration and an expired plan.
Nobody has to wait: a user may sign in while anything of the last session is in flight.
`overtaken` is a history: the accounts whose data an upload or a download had in flight when
another account's sign-in was accepted. Accounts are alike, so one of them (`FirstUser`) signs in
first; `MaxBusy` bounds what the user and the upload interval let come together.

### Installation

`binary[v]`, `part[v]`, `tool[t]`, `archive[t]` and `marker` are files; `task` and `job` the calls of
`CliManager.install` and `ToolsManager.install` with the step each awaits. While `execSync` verifies or
extracts, nothing else runs (`Blocked`). A crash keeps the files as they are. `flow`
is `checkCliAndProceed` or a retry in the renderer. `removed` is a history: a failed
switch took the active version off the disk. The branch of `install` for a version that exists already writes the
marker inside the same `try` as a download, so its failure runs the same clean-up. One engine is modelled;
Codex has a manager of the same code and its own directory.

### Connection

`loop[w]` is a watch over a running tunnel (its timer, its checks under way, the failures
counted, the offer on display), `gate[g]` a gate's `_connect`; both live on after they are
taken off the screen, as their closures do. `Render` is what React does when `loggedIn` or
`tunOk` changes: it mounts and unmounts them. The tunnel is up or down, its address right or wrong.
`Remount` is the effect that runs again when the account's exit address or the
language changes. The user may reconnect from the popover at any moment. `cut` marks a watch whose
third failure met the popover's reconnect: that branch returns and schedules no further check, a
divergence (section 4).

### HelperLink

`files` is the installed version, `helper` the running one, `box` whether sing-box runs. A
socket has an inbox of events with the end of the connection behind them;
`subscription`, `socket` and `timers` are the client's. `reconcile` and `start` stand at
their awaits with the attempt they are at. The installer's scripts go on after a failed command and
report the success of the last: `loaded` says whether launchd has the daemon, `hidden` that its files and
its socket are gone while it runs on, `muffled` that a command of the last script failed without
notice. `quitState`, `work` and `over` are the quit
flow, `engine` a chat's engine that may ignore SIGTERM. Simplified: a signal to the daemon ends
sing-box and the daemon in one step, and the event of a dead sing-box is pushed at once (the
daemon's monitor polls every 500 ms). `Stalls` lets a reconnect run
before the close of the old socket; off, that close comes within the backoff.

### ProxyConfig

A node is its protocol, transport, security and notation. `buildProtocolUrl`, the `parse*`
operators and `buildTunConfig` are functions, written field by field like the code's: a field that one does not write is what the next puts in its place. A damaged address goes
through their `catch` branches: an outbound without TLS, and without a server to dial. `call` are the requests in
`startTunInternal`, `outbound` the field `_tunnelOutbound`, `start` the start they join.
`residue` is what a killed sing-box leaves. DNS and route rules are sequences, and the
first match counts (`Match`).

## 3. Runs

| run | checks | bounds |
| --- | --- | --- |
| `helper_safety` | types, the records of the daemon agree (one owner per handle, the watchdog's target, a monitor per tracked child), no lost live child, honest events, refinement of `ChildLifecycle` | 2 connections, 2 children, 1 app, symmetry, crash and restart |
| `helper_live` | app death stops sing-box, dead children are forgotten, requests return | 1 connection, 2 children |
| `helper_start_first` | **violated**: a start stops the running child first | 2 connections, 2 children |
| `tun_manager` | a stop beats every start it races with, the root process keeps its PID file, a dead tunnel is noticed, stops complete | 2 overlapping calls, 1 fault (a crash of sing-box or of the helper, an outage, an overdue clean-up), set-ups `helper` and `sudo`, threshold 2 instead of 5 |
| `chat_turns` | a child keeps its slot, exact counts, resumed sessions, final deletes, files wiped after the exit, turns end | 2 chats, 2 turns, limit 1 instead of 5 |
| `chat_window` | what a chat shows is its replay, the input is blocked while and only while a turn runs, the list follows the index | a Claude and a Codex chat, 2 messages, submitted ahead of answers or not, 1 tool call, 1 rename, deletion or reload |
| `terminals` | tasks keep the system awake, recordings stay listed, the limit removes the oldest and no more | 3 PTYs, sizes of 1 and 2, room for 4, the window closed and opened again, crash and restart |
| `account` | what crosses between accounts was in flight at a sign-in, a dropped session is noticed | 2 accounts, 2 sign-ins, 1 relaunch, 2 things in flight that nothing forces |
| `installation` | files at their final path are whole, there is an engine whenever the app is ready, the set-up screen ends | 2 flows and Settings, 2 versions, 1 tool, 1 crash |
| `connection` | one reconnect at a time, the chain of checks goes on, a tunnel that is down or hijacked is noticed | 2 watches, 1 gate, 1 check of each and 1 interface alert under way, the popover at any moment |
| `helper_link` | one channel, a true status, the right helper, quit ends | 2 sockets, 2 attempts, threshold 2, capacity 1, 1 fault (a partly failed script or a visit to Settings is one) |
| `proxy_config` | no downgrade, the tunnel is one that a request wants, names resolve | every kind of node, a damaged address too, 2 requests in flight |

### Why the bounds are enough

*Helper.* Races are between two holders of a handle: two connections, or one with the
watchdog, the signal handler or a monitor. Two children give the overlap of an old and
a new one. The theorems of section 5 lift the safety part to any number of both.

*TUN manager.* Calls join (a start joins a start, a stop a stop) or abort each other, so
the races are between two calls, the reconcile and the events. A tunnel that runs
when the second call begins needs a finished first call, which slots that are
used again allow. With these set-ups and without a fault it takes three calls to see a
stop lose against what the helper still tracks or osascript started (`TunManagerJoin`,
`TunManagerHandle`, section 4). `StopWins` names these exceptions, and an orphan is no part of it
(`TunManagerOrphan`); the theorem of section 5 has it for any number of calls and in every set-up.
The run stays at two so that liveness is checked too. The threshold of failures is 2: what
matters is one below and one at it.

*Chat.* Chats meet only at the concurrency limit, which two chats reach when it is
one. Two turns are a turn and its successor, which `RetryResumes` and the stale
metadata are about. The theorems lift the safety part.

*Chat window.* What can be lost is lost between two messages or two chats: one message is
on display while the next is sent, and the second chat has the other engine. One
extra is a reload, a rename or a deletion at every point.

*Terminals.* Two recordings fit and a third does not, so the limit acts while others
record. *Account.* The hazards are between one account and the next: two sign-ins are a
switch, or the same account again; two things in flight are one of each account, or two of one.
The theorem has any number. *Installation.* A second flow is refused or
joins the same files; a third adds nothing new; one crash, because a second one starts from
the same kinds of files.

*Connection.* A watch and the one after it, with what is in flight from the first; an interface
alert of either meets every state of the other.
*HelperLink.* A socket and its successor; one fault, since after each the
client starts from the same three kinds of state (no socket, timer set, connected); the
capacity, attempts and threshold are the least at which each limit is passed and not passed.
*ProxyConfig.* The nodes are enumerated completely; a request joins at most one other.

`CHECK_DEADLOCK FALSE` stands where the user may stop asking, or has
deleted every chat, or the app has exited. The other runs check deadlock.

### Fairness

*Helper.* Tokio runs every ready task, so the steps of a connection's handler, the
watchdog, the signal handler and the monitors are weakly fair; a child that was
sent SIGKILL dies; `process::exit` takes effect; launchd restarts the helper.
Nobody has to send a request, no app has to die, and a child may ignore SIGTERM.

*TUN manager.* The event loop runs the continuation of every await that is over, an overdue
clean-up's too. The
window polls while the status is running (TunGate's 5 s interval, so the poll is fair
only then). The helper comes up when launchd is asked, the wrapper's 2 s loop goes on,
osascript reports its exit, and so does an earlier one. A password prompt need not be answered, no fault has to
happen, no request has to come.

*Chat.* The watchdog and kill timers fire, the exit of a child is handled, the
30 ms poll goes on. A child may write nothing and ignore SIGTERM.

*Account.* The interval of the status poll fires, every request has a timeout, and
continuations run, those of a forced logout's clean-up too. *Installation.* Every fetch and every synchronous command has a timeout,
so some step of what has begun is taken; the retry button need not be pressed.
*Connection.* Some timer that is set fires and some call is answered, of each kind; of many
checks of a wrong address one finds it (strong fairness: the trace that tells the address is one
of several probes and need not be the first to answer). The push of the helper's event and the
alert may never come. The user stops pressing the popover's button at some
time, and the account's address and the language stop changing: each reconnect sets the count of
failed polls to zero, as the code's poll does, and each change mounts the watch anew.
*HelperLink.* Only the 30 s bound on the quit work and the app's own exit are
fair: the stop of the tunnel may hang. The other runs check safety.

## 4. Divergences

`helper_start_first` is a run: the property states what a comment says, and TLC's trace is
what the code does instead (`findings` in `PROJECT.json` quotes the lines). `stop` takes the
child out of the state and waits for it without the mutex; a start that comes meanwhile
finds none and runs a second sing-box.

The other disagreements met while modelling are kept as a property of the module and a
configuration of its own, outside the list of runs, with which TLC shows the same way
what happens:

| configuration (module, property) | what the repository says, what the code does |
| --- | --- |
| `HelperDaemonOrphan` (`HelperDaemon`, `HelperDeathStopsSingbox`) | `singbox.rs:4`: the process group ends the child with the helper. It detaches it; a crash leaves sing-box running, and the restarted helper does not look for it |
| `TunManagerDns` (`TunManager`, `StopRestoresDns`) | `sing-box-manager.ts:546`: stop(true) restores the DNS. `setDns` of a start that passed the abort gate overtakes it; a stop(true) that joins a stop(false) loses its argument |
| `TunManagerMixed`, `TunManagerFallback` (`TunManager`, `StopAlwaysWins`) | `sing-box-manager.ts:539, 550`: a stop kills sing-box and aborts starts. `_stopImpl` asks the helper whenever one answers, even when osascript started sing-box; the fall-back to osascript, which an installed helper that is down takes too, has no abort gate after its waits |
| `TunManagerJoin` (`TunManager`, `StopAlwaysWins`) | `sing-box-manager.ts:548`: a stop signals the start in progress to abort. The helper answers the stop(false) of a reconnect, then a start in progress passes its last gate and sing-box comes up; a `tun:stop` that comes before the reconnect goes on only joins its stop, and sing-box stays |
| `TunManagerOrphan` (`TunManager`, `StopLeavesNothing`) | `sing-box-manager.ts:539`: a stop "waits for process to be confirmed dead". After a crash of the helper its child lives on (`singbox.rs:82-96`); the restarted helper does not know it, answers the stop with ok, and no PID file names it |
| `TunManagerHandle` (`TunManager`, `StopAlwaysWins`) | The same lines. The exit handler of an earlier osascript (`sing-box-manager.ts:1669-1670`) sets `this.process` to null when the next prompt is already in it: a stop then does not kill that prompt, and the password typed into it starts sing-box |
| `ChatSpawnError` (`ChatTurns`, `EveryTurnEnds`) | `constants.ts:4`: a hard cap on a turn. A spawn that fails with ENOENT or EACCES emits `error` and no `exit`; only `exit` frees the slot |
| `ChatLateOutput` (`ChatTurns`, `EndComesLast`) | `chat.ts:34`: the end stamps the final state. `exit` may come before the last `data` of stdout |
| `ChatDelete` (`ChatTurns`, `WipesAfterEveryExit`) | `chat-ipc.ts:96-99`, `chat-manager.ts:206-208`: a delete waits for the child before the files go, "otherwise the child can keep writing". A send takes the slot between the exit of the cancelled child and the next poll; its child is not cancelled, and the wipe comes while it runs |
| `ChatWindowLate` (`ChatWindow`, `LastLinesAreShown`) | `chat.ts:34`: the end stamps the final state. Node may report `exit` before the last of stdout (`chat-manager.ts:155`); `useChatStream.ts:13-14` drops what arrives after the end, and the replay of the session has it |
| `ChatWindowAhead` (`ChatWindow`, `MessagesStayShown`) | The history on display is the session's. `ChatInput.tsx:38-40` lets the user send while a history or a refusal is on its way, which then sets the messages without what was shown since |
| `TerminalsBlocker` (`Terminals`, `BlockerIsForATask`) | `en.ts:73`: "Prevent sleep during tasks". A PTY that ends while it streams emits no idle event, and the blocker stays |
| `TerminalsReopened` (`Terminals`, `TasksAlwaysKeepAwake`) | `en.ts:73`, the other way round. On macOS closing the window disposes of the monitor's listeners (`pty-output-monitor.ts:157`, `index.ts:1679`); a window opened again from the dock streams and nothing holds the blocker. (Nor does anything when the inhibitor is enabled in the middle of a task.) |
| `AccountGhost` (`Account`, `SessionIsConsistent`) | `subscription-manager.ts:200`: the clone keeps the state consistent. It is taken after the awaits; a reply after a logout brings back a session without user and token, which no poll notices: the exception in `SignedOutIsSeen` |
| `AccountIsolation` (`Account`, `Isolated`) | `browser-window.ts:28`: "isolated per account". An upload or download in flight reads user and token of the next account |
| `AccountLogout` (`Account`, `LoginLasts`) | `subscription-manager.ts:188-191`: a 401 ends the session that the server refuses. The answer may come when another account has signed in, and ends that one's session |
| `InstallationTools` (`Installation`, `RequiredTools`) | `SetupScreen.tsx:323`: on Windows the tools are required. `checkCliAndProceed` ignores what the installation returned and goes on to ready |
| `InstallationSwitch` (`Installation`, `OnlyPartialIsRemoved`) | `cli-manager.ts:409-410`: "Clean up partial install directory on failure". The branch for a version that exists (283-290) is in the same `try`: when its write of `.active` fails, the complete installation is removed |
| `ConnectionPopover` (`Connection`, `HijackIsAlwaysSeen`) | `TerminalApp.tsx:126`: the exit address is checked every 60 s. A third failure during the popover's reconnect returns (243-247, 259) without the next check, and the chain ends |
| `HelperLinkPartial` (`HelperLink`, `ReadyIsAlwaysNew`) | `helper-installer.ts:213`: ensures "the helper is installed, running, and up to date". The commands of the root script are joined by `;`, some with <code>&#124;&#124; true</code> (81-101); when the copy or the bootstrap fails the script succeeds, and `waitForHelper` takes the answer of the old daemon |
| `HelperLinkEngines` (`HelperLink`, `QuitKillsEngines`) | `index.ts:1573`: quit waits for the SIGKILL grace. It does not, and the timer goes with the app |
| `ProxyConfigStale` (`ProxyConfig`, `StaleIsFound`) | `sing-box-stale-state.ts:9`: sing-box's TUN subnet is 198.18.0.0/15. `buildTunConfig` gives the interface 172.19.0.1/30 |

One comment is contradicted by the model without a trace: `sing-box-config.ts:31-34` says of
`PROXY_DOMAINS` "Whitelist: only these domains go through proxy, everything else is direct".
`buildTunConfig` does not use the list; its `final` route is the proxy, and what
goes out directly is listed instead (Chinese, private and the proxy's own addresses). `NamesResolve`
states what the code does: that names are looked up where the route they get can use the answer.

## 5. Proofs

TLAPS proves, for every set of constants that satisfies the assumptions named in the
modules (the bounds are natural numbers, `None` and the other marks are no values):

| module | theorem | states |
| --- | --- | --- |
| `HelperDaemonProofs` | `TypeCorrect`, `Agreement`, `NoLeak`, `HonestEvents` | the invariants of `helper_safety`; `Agreement` rests on `OneOwner`, `WatchdogTarget` and `Monitored` |
| | `Bookkeeping` | the relation between counters, handles and monitors that makes them inductive |
| | `Refinement` | `Spec => ImplementsLifecycle` |
| `ChatTurnsProofs` | `TypeCorrect`, `ChildHasSlot`, `CountIsExact`, `Resumes` | the invariants of `chat_turns` and the types they need |
| | `Bookkeeping` | the relation between turns, slots and index that makes them inductive |
| | `DeletedStaysDeleted`, `DeleteWaits` | its two action properties |
| `TunManagerProofs` | `TypeCorrect`, `PidFileIsKept`, `StopIsFinal` | the types and the invariants of `tun_manager`, in all four set-ups |
| `HelperLinkProofs` | `TypeCorrect`, `StartsOnNew`, `OneWayToEvents`, `StatusIsTrue` | those of `helper_link` |
| `TerminalsProofs` | `TasksAreGuarded`, `RecordingsAreListed` | those of `terminals` |
| `InstallationProofs` | `TypeCorrect`, `BinariesStayWhole`, `EngineStaysUsable` | those of `installation` |
| `WindowProofs` | `InputFollowsTurns`, `ListIsTheIndex` | two of the three invariants of `chat_window` |
| | `ReconnectsOnce`, `ChecksNeverStop` | those of `connection` |
| `SubscriptionProofs` | `TypeCorrect`, `OnlyTransfersCross` | the types of `Account`, and the invariant of `account` |
| | `TunnelsAreNotDowngraded`, `ChainsAreWanted`, `WrittenNamesResolve` | the invariants of `proxy_config` |

Some have a hypothesis on a constant. With the other value in the run's configuration TLC
refutes the property, except for the types of `HelperLink`, which are proved along with `Alone`:

| hypothesis | theorems | why |
| --- | --- | --- |
| `TornWrites = FALSE` | `RecordingsAreListed` | a crash in the middle of a write leaves half an index, which reads as none |
| `Stalls = FALSE` | `OneWayToEvents`, `StatusIsTrue`, `TypeCorrect` of `HelperLink` | a reconnect that runs before the old socket's close has two sockets at once |

None of the invariants is inductive alone. What each one rests on:

*Helper.* That a child is announced as gone
only once rests on the stop that announces it holding the only handle; that rests on the
child of a start being new; and both on what a program counter says of the child in
hand. `ChildBookkeeping` states this relation between counters, handles, monitors and
events, and `IInv` is the conjunction of all. One lemma per action shows that it keeps
`IInv`, with one step per conjunct it can disturb. The refinement uses `IInv` before
and after a step: each action moves at most one child by one arrow of
`ChildLifecycle`, or leaves `stage` and `live` alone.

*Chat.* The end of a turn writes the count and session that its send read. This is
exact because a chat has one turn at a time and the index of a chat changes only
at the end of its turns: `TurnBookkeeping`. The types depend on it (a count stays
within the number of turns only because it is exact). Steps that neither begin nor end
a turn (`Quiet`) are treated together; `CreateKeeps`, `SendKeeps` and `ExitKeeps` are
the steps with content. The limit on processes follows from the limit on slots by
an injection from live children to slots.

*TUN manager.* `Owners`: whoever owns a promise is inside what it promised, and nobody else
is; every other part speaks of the start or the stop in progress by it. Where
osascript starts sing-box (`Prompted`), a stop(true) that a prompt or sing-box outlives is in
progress or has failed, because the start in progress had stopped the old tunnel first; or the app
had forgotten that prompt (`handleLost`). Where the helper does (`RolledBack`), nobody but the
helper starts what it tracks, an overdue clean-up included, and somebody will still stop a sing-box that a stop(true) wants
down (`RequestIsPending`): the stop itself, if the helper has not served it yet, or the start it
overtook, at its roll-back. The case in which neither does is `TunManagerJoin`. An orphan is not tracked and not spoken of.

*Helper link.* `ReadyIsNew` needs that a running daemon is the one launchd has loaded and the one
installed, unless a command of the last script failed (`muffled`), as one must have where a daemon
runs on without its files (`hidden`; `Machine`, `Ready`). The other two rest
on the shape of a socket's unread messages (`Shaped`): its end is announced once, last, and
by two messages, the first of which makes way for the next socket. From it follows how all
sockets share one variable and one timer (`Alone`), and where the truth about sing-box is: in
the last event unread, else in the answer on its way, else in the status (`EventsTell`,
`AnswersTell`).

*Terminals.* Who is guarded streams, so the listener that looks whether anyone does finds it
(`Guarding`); a recording in progress is listed before its first byte (`Listed`). What a recursive
function computes cannot be proved by the library's induction theorems here, but that it
keeps an invariant can: `ClosedIsRecursive` shows that `Closed` is well defined and `ClosedKeeps`
what each of its steps keeps, both from the least number at which it would fail (`Least`).

*Installation.* There is one installation at a time, and it alone renames (`OneInstall`), files it
has completed (`FilesInPlace`). An engine that a flow or the ready app counts on (`Promised`) is
not the one whose verification may still fail and remove it, unless a failed switch has removed it
 (`Usable`, `removed`).

*Connection.* A count of reconnects is nothing a step preserves. The invariant is that any
two are the same one, and that the flag is up while there is one (`FlagIsHeld`); that the count is at
most one follows at the end. `ChecksGoOn` rests on the same: a third failure either begins the
reconnect of its own watch, which schedules a check when it is over, or finds the flag held by
another's, and is noted (`Chain`).

*Chat window.* Both invariants speak of what is on display, and both are kept by what is on its
way, so `WInv` relates the two queues to the two sides. A request names one message: the call to
the main process, then the turn, then its end in the queue to the window (`OneRequest`). What
blocks the input runs, or its end is coming (`Blocked`); an acceptance on its way is of a turn
that runs or comes before that turn's end (`Followed`); and a turn that runs either blocks the
input or its acceptance is the last that the chat will get (`Told`). With the last one, an answer
that comes late cannot put an ended turn back. The list is asked for, or changed, or an
up-to-date one is the last that is coming, or it is on display with none coming (`Follows`). That
is not enough: `loadChatList` keeps the old list when ids and time stamps look the same. So lists
on display, on their way and in the index agree on a title wherever they agree on a time, and
none is newer than the index (`Dated`), which holds because every rename stamps a new time. Each
part is a predicate on sequences with one lemma for a message added at the end and one for
the first one taken; the steps only combine them.

*Account.* Every place where data get to an account (an import, a tab, an upload, a post) takes them from
what is under way, waits for a tab or is about to be uploaded. `Known` says of these that, while
somebody is signed in, they are of that user or were noted in `overtaken` when the sign-in overtook
them. Signing out leaves nobody signed in, so a transfer that goes on under nobody's name reaches
nobody. The history is written at every accepted sign-in, with what is in flight then, whether or
not the data get across afterwards: it exceeds what crosses, and the theorem is the one direction.

*Proxy configuration.* What a request means to tunnel through is a node that a fetch found
(`CallsAreOffered`), and of such a node `NoDowngrade` is a calculation through notation,
`buildProtocolUrl` and `parseProxyUrl`, entry by entry and document by document, the `catch` branches
included: what they return has no TLS, but it has no server either, and the property is about
tunnels that can be dialled. `_tunnelOutbound`
is a field that outlives its start; a start under way keeps the requests that wait for it
(`StartHasItsCalls`), and the request that set the field last is one of them
(`BuiltForWaiting`). `NamesResolve` is a calculation too: the rules in a configuration are those of
`buildTunConfig`, with or without the rule sets (`AsBuilt`).

Each inductive invariant was checked by TLC on the bounds of its run before it was proved; `WInv`
also on random behaviours with three chats and more messages, reloads and calls under way.

Only model-checked: every liveness property (fairness and ENABLED are out of the prover's
reach); `HistoryIsKept` of `Terminals`, which compares sums over sets of files (that smaller files
have a smaller sum is an induction over data); and `ShownIsReplayed` of `ChatWindow`, which says
what folding a list of lines yields, the same kind of induction. The types of `ChatWindow` and
`ProxyConfig` are proved as far as their theorems need them (`Shapes`, `AsBuilt`).

## 6. Not modelled

In the modelled parts:

- Daemon: the path check is a guard that may refuse; `networksetup` and the code-signature
  check are calls to the operating system.
- TUN manager: Windows and Linux start paths, `startLocalProxy`, the interface monitor, download of
  sing-box.
- Helper link: the lost wake-up of a main thread blocked for a whole backoff (`Stalls`).
- Chat: a restart between the write of the index and the directories; the list that
  create and delete change before the index is written, without a roll-back. The
  arguments of an engine, the sandbox, the validators, thinking blocks.
- Terminals: statistics, an append-only log; titles.
- Account: the automatic login to Claude; device id; address of the server.
- Installation: listing versions, the PATH that a terminal gets, a second engine.
- Connection: macOS answers connectivity checks without a probe; the model is of the platforms
  where they run. Of the interface monitor there is the alert it sends, not the baseline of
  interfaces it compares with. A gate or poll that answers after its page has gone acts on the
  next (modelled, and no document says what should happen).

Of the parts listed as `not_modelled`: the embedded browser (window handling and scripts
injected into pages), the preload bridge (stateless), reporting, updates and utilities
(best-effort network calls), views and the stores that one handler writes. They hold no
state that steps of two actors share.

## 7. What is next

1. A chat store on disk, with a restart; the clean-up at start-up of the TUN manager.
2. The interface monitor and the local proxy of `SingBoxManager`.
3. `ShownIsReplayed` and `HistoryIsKept`, with a prover that can instantiate induction theorems.
