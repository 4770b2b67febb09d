------------------------------ MODULE Terminals ------------------------------
(***************************************************************************)
(* Terminals of the main process: PtyManager, PtyOutputMonitor, the sleep  *)
(* inhibitor that follows the monitor, and SessionRecorder, which keeps    *)
(* what every terminal printed in a file of its own and lists the files in *)
(* an index that it rewrites in place.  All handlers run to their end; the *)
(* interleaving is that of PTY output, idle timers, exits, the user's      *)
(* requests, and crashes of the app.                                       *)
(***************************************************************************)
EXTENDS Integers, FiniteSets, FiniteSetsExt

CONSTANTS
  MaxPtys,           \* bound: PTYs ever created, numbered in that order
  MIN_SESSION_SIZE,  \* a recording below this is dropped when it is closed
  MAX_SESSION_SIZE,  \* nothing is appended to a recording that has reached this
  MAX_TOTAL_SIZE,    \* what all recordings may take together
  ChunkSizes,        \* sizes of the pieces in which a PTY prints
  TornWrites,        \* whether a crash may leave a half-written index.json
  Damaged            \* what index.json then holds

ASSUME SizesAreNat ==
  /\ MaxPtys \in Nat
  /\ {MIN_SESSION_SIZE, MAX_SESSION_SIZE, MAX_TOTAL_SIZE} \subseteq Nat
  /\ ChunkSizes \subseteq Nat \ {0}

Pty == 1..MaxPtys

ASSUME DamagedIsNoIndex == \A S \in SUBSET Pty : S # Damaged

VARIABLES
  app,        \* "up" or "down"
  window,     \* whether the main window is open
  sessions,   \* PtyManager.sessions
  created,    \* how many PTYs there have been
  monitor,    \* PtyOutputMonitor.sessions: watched PTY -> is it streaming
  listening,  \* whether the sleep inhibitor listens to the monitor: until
              \* window-all-closed disposes of the monitor and its listeners
  blocker,    \* whether powerSaveBlocker is held (sleepBlockerId # null)
  enabled,    \* sleepInhibitorEnabled
  index,      \* SessionRecorder.index, as the set of ids
  active,     \* SessionRecorder.activeSessions: id -> bytes recorded
  file,       \* file[p]: size of p's recording on disk, 0 when there is none
  disk,       \* what index.json holds: a set of ids, or Damaged
  deleted,    \* history: recordings the user has deleted
  trimmed,    \* history: recordings the storage limit has removed
  guarded     \* history: PTYs that began to stream under an enabled inhibitor

screenVars == <<app, window, sessions, created>>
powerVars == <<monitor, listening, blocker, enabled, guarded>>
recorderVars == <<index, active, file, disk, deleted, trimmed>>
vars == <<screenVars, powerVars, recorderVars>>

MaxFile == MAX_SESSION_SIZE + Max(ChunkSizes) - 1

\* Every variable holds a value of its kind; no recording outgrows the limit on
\* one session by more than its last piece.
TypeOK ==
  /\ app \in {"up", "down"}
  /\ window \in BOOLEAN
  /\ sessions \subseteq Pty
  /\ created \in 0..MaxPtys
  /\ DOMAIN monitor \subseteq Pty /\ \A p \in DOMAIN monitor : monitor[p] \in BOOLEAN
  /\ {listening, blocker, enabled} \subseteq BOOLEAN
  /\ index \subseteq Pty
  /\ DOMAIN active \subseteq Pty /\ \A p \in DOMAIN active : active[p] \in 0..MaxFile
  /\ file \in [Pty -> 0..MaxFile]
  /\ disk = Damaged \/ disk \subseteq Pty
  /\ {deleted, trimmed, guarded} \subseteq SUBSET Pty

Init ==
  /\ app = "up" /\ window = TRUE
  /\ sessions = {} /\ created = 0
  /\ monitor = <<>> /\ listening = TRUE /\ blocker = FALSE /\ enabled = TRUE
  /\ index = {} /\ active = <<>> /\ file = [p \in Pty |-> 0] /\ disk = {}
  /\ deleted = {} /\ trimmed = {} /\ guarded = {}

Without(f, S) == [x \in DOMAIN f \ S |-> f[x]]
With(f, x, v) == [y \in DOMAIN f \cup {x} |-> IF y = x THEN v ELSE f[y]]

-----------------------------------------------------------------------------
(***************************************************************************)
(* SessionRecorder.  Its operations are functions of a store: the index in *)
(* memory, the files, and what the limit has removed.                      *)
(***************************************************************************)
Store == [index |-> index, file |-> file, trimmed |-> {}]

unlink(s, S) == [s EXCEPT !.file = [p \in Pty |-> IF p \in S THEN 0 ELSE @[p]]]

Total(s, S) == MapThenSumSet(LAMBDA p : s.file[p], S)

OversizeNewestFirst(s) ==
  {p \in s.index : s.file[p] > 0 /\ Total(s, {q \in Pty : q <= p}) > MAX_TOTAL_SIZE}

\* the indexed recordings that go, oldest first, until the rest fits
Oversize(s) ==
  {p \in s.index : s.file[p] > 0 /\ Total(s, {q \in Pty : q >= p}) > MAX_TOTAL_SIZE}

enforceStorageLimit(s) ==
  LET swept == unlink(s, Pty \ s.index)
      gone  == Oversize(swept)
  IN  [unlink(swept, gone) EXCEPT !.index = @ \ gone, !.trimmed = @ \cup gone]

closeSession(s, p) ==
  IF s.file[p] < MIN_SESSION_SIZE
  THEN [unlink(s, {p}) EXCEPT !.index = @ \ {p}]
  ELSE enforceStorageLimit(s)

\* the store becomes s and the index is saved
Saved(s) ==
  /\ index' = s.index /\ file' = s.file /\ disk' = s.index
  /\ trimmed' = trimmed \cup s.trimmed

-----------------------------------------------------------------------------
(***************************************************************************)
(* The power-save blocker.                                                 *)
(***************************************************************************)
Streaming == {p \in DOMAIN monitor : monitor[p]}

isAnyStreaming(m) == \E p \in DOMAIN m : m[p]

\* the listener of "streaming"
HoldBlocker(p) ==
  /\ blocker' = (blocker \/ (listening /\ enabled))
  /\ guarded' = IF enabled THEN guarded \cup {p} ELSE guarded

ReleaseWhenAnyIdle(m) == blocker' = (blocker /\ ~listening)

\* the listener of "task-complete" and "prompt-idle"; m is the monitor by then
ReleaseBlocker(m) == blocker' = (blocker /\ (~listening \/ isAnyStreaming(m)))

unwatch(S) == monitor' = Without(monitor, S)

-----------------------------------------------------------------------------
Up == app = "up"

\* PtyManager.create
create(p) == created' = p /\ sessions' = sessions \cup {p}

watch(p) == monitor' = With(monitor, p, FALSE)

startSessionUnsaved(p) ==
  active' = With(active, p, 0) /\ index' = index \cup {p} /\ disk' = disk

\* SessionRecorder.startSession: the recording is listed before its first byte
startSession(p) ==
  active' = With(active, p, 0) /\ index' = index \cup {p} /\ disk' = index'

\* pty:create.  The renderer asks for it, so there is a window.
CreatePty ==
  /\ Up /\ window /\ created < MaxPtys
  /\ create(created + 1) /\ watch(created + 1) /\ startSession(created + 1)
  /\ UNCHANGED <<app, window, listening, blocker, enabled, guarded, file, deleted, trimmed>>

recordData(p, n) ==
  IF active[p] < MAX_SESSION_SIZE
  THEN active' = [active EXCEPT ![p] = @ + n] /\ file' = [file EXCEPT ![p] = @ + n]
  ELSE UNCHANGED <<active, file>>

\* PtyOutputMonitor.feed: "streaming" is emitted once per run of output
feed(p) ==
  /\ monitor' = [monitor EXCEPT ![p] = TRUE]
  /\ IF monitor[p] THEN UNCHANGED <<blocker, guarded>> ELSE HoldBlocker(p)

\* onData: the monitor is fed and restarts the idle timer, the recorder appends
Data(p, n) ==
  /\ Up /\ p \in sessions
  /\ feed(p)
  /\ recordData(p, n)
  /\ UNCHANGED <<screenVars, listening, enabled, index, disk, deleted, trimmed>>

\* two seconds without output; the timer runs exactly while p streams
IdleTimer(p) ==
  /\ Up /\ p \in Streaming
  /\ monitor' = [monitor EXCEPT ![p] = FALSE]
  /\ ReleaseBlocker(monitor')
  /\ guarded' = guarded \ {p}
  /\ UNCHANGED <<screenVars, listening, enabled, recorderVars>>

\* the store when those of the first n PTYs that are in S have been closed
Closed(S) ==
  LET closed[n \in 0..MaxPtys] ==
        IF n = 0 THEN Store
        ELSE IF n \in S \cap DOMAIN active THEN closeSession(closed[n - 1], n)
        ELSE closed[n - 1]
  IN  closed

\* the exit callbacks of pty:create, for the PTYs of S in the order of creation
OnExit(S) ==
  /\ unwatch(S)
  /\ active' = Without(active, S)
  /\ guarded' = guarded \ S
  /\ Saved(Closed(S)[MaxPtys])
  /\ deleted' = deleted

\* The process of p ends, or the user closes the tab (kill runs the callbacks
\* itself and forgets them): the same steps, once.  Neither is an "activity".
Exit(p) ==
  /\ Up /\ p \in sessions
  /\ sessions' = sessions \ {p}
  /\ OnExit({p})
  /\ UNCHANGED <<app, window, created, listening, blocker, enabled>>

\* pty:killAll
killAll ==
  /\ Up /\ window /\ sessions # {}
  /\ sessions' = {}
  /\ OnExit(sessions)
  /\ UNCHANGED <<app, window, created, listening, blocker, enabled>>

\* window-all-closed on macOS: everything is disposed of, and the app lives on
closeWindow ==
  /\ Up /\ window
  /\ window' = FALSE
  /\ sessions' = {}
  /\ IF sessions = {} THEN UNCHANGED <<monitor, guarded, recorderVars>> ELSE OnExit(sessions)
  /\ listening' = FALSE
  /\ blocker' = FALSE
  /\ UNCHANGED <<app, created, enabled>>

\* a click on the dock icon
activate ==
  /\ Up /\ ~window
  /\ window' = TRUE
  /\ UNCHANGED <<app, sessions, created, powerVars, recorderVars>>

setSleepInhibitorEnabled(on) ==
  /\ Up /\ window /\ enabled # on
  /\ enabled' = on
  /\ blocker' = (blocker /\ on)
  /\ guarded' = IF on THEN guarded ELSE {}
  /\ UNCHANGED <<screenVars, monitor, listening, recorderVars>>

\* deleteSession and clearAll, from the history view; S may be recording
Discard(S) ==
  /\ Up /\ window /\ S # {}
  /\ Saved([unlink(Store, S) EXCEPT !.index = @ \ S])
  /\ deleted' = deleted \cup S
  /\ UNCHANGED <<screenVars, powerVars, active>>

deleteSession(p) == p \in index /\ Discard({p})

clearAll == Discard(index)

\* The app dies, or quits: Cmd+Q runs none of the callbacks of the PTYs.
\* writeFileSync is not atomic: a death inside it leaves part of the index.
Crash ==
  /\ Up
  /\ app' = "down" /\ window' = FALSE /\ sessions' = {}
  /\ monitor' = <<>> /\ blocker' = FALSE /\ guarded' = {}
  /\ active' = <<>> /\ index' = {}
  /\ disk' \in {disk} \cup (IF TornWrites THEN {Damaged} ELSE {})
  /\ UNCHANGED <<created, listening, enabled, file, deleted, trimmed>>

\* an index that cannot be parsed is an empty one
loadIndex == IF disk = Damaged THEN {} ELSE disk

Restart ==
  /\ app = "down"
  /\ app' = "up" /\ window' = TRUE
  /\ listening' = TRUE /\ enabled' = TRUE
  /\ index' = loadIndex
  /\ UNCHANGED <<sessions, created, monitor, blocker, guarded, active, file, disk, deleted, trimmed>>

Next ==
  \/ CreatePty \/ killAll \/ closeWindow \/ activate \/ clearAll \/ Crash \/ Restart
  \/ \E p \in Pty :
       \/ IdleTimer(p) \/ Exit(p) \/ deleteSession(p)
       \/ \E n \in ChunkSizes : Data(p, n)
  \/ \E on \in BOOLEAN : setSleepInhibitorEnabled(on)

Spec == Init /\ [][Next]_vars

-----------------------------------------------------------------------------
(***************************************************************************)
(* Properties                                                              *)
(***************************************************************************)

\* While a PTY streams that began under an enabled inhibitor, the blocker is
\* held, whatever other PTYs do: one that falls idle must not release the
\* blocker of one that still prints (isAnyStreaming), nor may an exit.  It is
\* lost in one way only: the window was closed, and the dock icon opened it
\* again without the listener (without the exception: TasksAlwaysKeepAwake).
TasksKeepAwake == guarded \cap Streaming # {} => blocker \/ ~listening

TasksAlwaysKeepAwake == guarded \cap Streaming # {} => blocker

\* A recording stays in the history over crashes and restarts, from its first
\* byte until it is deleted or trimmed: what is on disk is in the index on disk
\* and, while the app runs, in the index in memory.  A file that is in neither
\* is taken for an orphan by the next closeSession and removed.
RecordingIsListed ==
  \A p \in Pty : file[p] > 0 /\ p \notin deleted \cup trimmed =>
    /\ disk # Damaged /\ p \in disk
    /\ app = "up" => p \in index

\* A recording worth keeping goes only because the user deletes it, or because
\* it and the newer ones do not fit: the limit removes the oldest first and no
\* more than it must, and the sweep for orphans removes nothing else.
HistoryIsKept ==
  [][\A p \in Pty : file[p] >= MIN_SESSION_SIZE /\ file'[p] = 0 =>
       \/ p \in deleted' \cup trimmed
       \/ Total(Store, {q \in Pty : q >= p}) > MAX_TOTAL_SIZE]_vars

\* The system is kept awake for a task only ("Prevent sleep during tasks"): the
\* blocker is held only while some PTY streams.
BlockerIsForATask == blocker => Streaming # {}

=============================================================================
