---------------------------- MODULE Installation ----------------------------
(***************************************************************************)
(* Getting the command-line engine and the development tools onto the      *)
(* disk: CliManager (one engine; each engine has a manager of its own),    *)
(* ToolsManager, and the set-up flow of the renderer that calls them.      *)
(*                                                                         *)
(* Several flows may run at once: the app starts one when it mounts and    *)
(* one when the tunnel is ready, the user retries, and Settings switches   *)
(* versions.  CliManager refuses a second installation; ToolsManager does  *)
(* not.  The process may die at any step, and from the rename of a binary  *)
(* to the end of its verification nothing else runs in it (execSync).      *)
(***************************************************************************)
EXTENDS Integers, FiniteSets

CONSTANTS
  Versions,   \* of the engine, on the mirror
  Latest,     \* the version the mirror says is the latest
  OldVersions,\* of the engine, that a layout from before may hold
  Tools,      \* required on this platform, numbered in the order of their list
  Flows,      \* bound: set-up flows of the renderer at once
  None,
  Windows,    \* whether the tools are required (platform === "win32")
  MaxCrashes  \* bound: times the process dies

ASSUME ToolsAreNumbered == Tools \subseteq Nat
ASSUME VersionsAreKnown == OldVersions \subseteq Versions /\ Latest \in Versions
ASSUME NoneIsNoVersion == None \notin Versions
ASSUME CrashesAreNat == MaxCrashes \in Nat

Callers == Flows \cup {"settings"}

VARIABLES
  active,      \* what .active names
  binary,      \* binary[v]: the file at versionBinaryPath(v)
  part,        \* part[v]: the .tmp file next to it
  legacy,      \* a version in a layout from before there were engines
  cached,      \* CliManager._cachedInfo: the version it says is installed
  installing,  \* CliManager._installing
  task,        \* the CliManager.install call of each caller
  tool,        \* tool[t]: the directory of t
  archive,     \* archive[t]: whether its .tmp file exists
  marker,      \* whether tools/.installed exists
  job,         \* the ToolsManager.install call of each flow
  phase,       \* useAppStore.phase
  flow,        \* the set-up flows of the renderer
  crashes,
  removed      \* history: a failed switch to the active version has removed it

cliVars == <<active, binary, part, legacy, cached, installing, task>>
toolVars == <<tool, archive, marker, job>>
setupVars == <<phase, flow>>
vars == <<cliVars, toolVars, setupVars, crashes, removed>>

FileState == {"none", "partial", "full"}
Task == [step : {"latest", "manifest", "body", "place", "verify", "ok", "failed"},
         version : Versions \cup {None}]
Job == [step : {"manifest", "body", "extract", "ok", "failed"},
        todo : SUBSET Tools]
Flow == [at : {"cli", "tools", "recheck"},
         of : {"check", "fresh", "retry"}]

TypeOK ==
  /\ active \in Versions \cup {None} /\ legacy \in Versions \cup {None}
  /\ cached \in Versions \cup {None}
  /\ binary \in [Versions -> FileState \cup {"unverified"}]
  /\ part \in [Versions -> FileState]
  /\ {installing, marker} \subseteq BOOLEAN
  /\ task \in [Callers -> Task \cup {None}]
  /\ \A c \in Callers : task[c] # None /\ task[c].version = None => task[c].step \in {"latest", "failed"}
  /\ tool \in [Tools -> FileState] /\ archive \in [Tools -> BOOLEAN]
  /\ job \in [Flows -> Job \cup {None}]
  /\ phase \in {"checking", "installing", "ready", "error"}
  /\ flow \in [Flows -> Flow \cup {None}]
  /\ crashes \in 0..MaxCrashes
  /\ removed \in BOOLEAN

Fresh ==
  /\ cached = None /\ installing = FALSE
  /\ task = [c \in Callers |-> None] /\ job = [f \in Flows |-> None]
  /\ phase = "checking" /\ flow = [f \in Flows |-> None]

Init ==
  /\ active = None /\ binary = [v \in Versions |-> "none"]
  /\ part = [v \in Versions |-> "none"]
  /\ legacy \in OldVersions \cup {None}
  /\ tool = [t \in Tools |-> "none"] /\ archive = [t \in Tools |-> FALSE]
  /\ marker = FALSE /\ crashes = 0 /\ removed = FALSE
  /\ Fresh

\* the main process is inside a synchronous stretch of an installation
Blocked ==
  \/ \E c \in Callers : task[c] # None /\ task[c].step = "verify"
  \/ \E f \in Flows : job[f] # None /\ job[f].step = "extract"

-----------------------------------------------------------------------------
(***************************************************************************)
(* CliManager.                                                             *)
(***************************************************************************)
\* getInfo, as the version it answers with.  Without .active it first moves a
\* binary from an old layout; the move may fail (lost) and is not looked at.
Found(a, b) == IF a # None /\ b[a] # "none" THEN a ELSE None

getInfo(v) ==
  \/ cached # None /\ v = cached /\ UNCHANGED <<active, binary, legacy, cached>>
  \/ /\ cached = None /\ (active # None \/ legacy = None)
     /\ v = Found(active, binary) /\ cached' = v
     /\ UNCHANGED <<active, binary, legacy>>
  \/ /\ cached = None /\ active = None /\ legacy # None
     /\ active' = legacy /\ legacy' = None
     /\ binary' \in {binary, [binary EXCEPT ![legacy] = "full"]}
     /\ v = Found(active', binary') /\ cached' = v

At(c, step) == task[c] # None /\ task[c].step = step
Goto(c, step) == task' = [task EXCEPT ![c].step = step]

\* without a version, the mirror is asked for the latest
Started(v) == [step |-> IF v = None THEN "latest" ELSE "manifest", version |-> v]

installUnguarded(c, v) == installing' = TRUE /\ task' = [task EXCEPT ![c] = Started(v)]

\* install: one at a time; v is None for the latest version
install(c, v) ==
  IF installing
  THEN task' = [task EXCEPT ![c] = [step |-> "failed", version |-> None]] /\ UNCHANGED installing
  ELSE installing' = TRUE /\ task' = [task EXCEPT ![c] = Started(v)]

\* the end of install, with or without an error; Settings only shows it
Finish(c, result) ==
  /\ task' = [task EXCEPT ![c] = IF c = "settings" THEN None ELSE [@ EXCEPT !.step = result]]
  /\ installing' = FALSE

setActiveKeepsCache(v) == active' = v /\ removed' = FALSE /\ UNCHANGED cached

\* writeFileSync(activePath) and invalidateCache
setActive(v) == active' = v /\ cached' = None /\ removed' = FALSE

\* the reply to "latest"
GotLatest(c) ==
  /\ ~Blocked /\ At(c, "latest")
  /\ task' = [task EXCEPT ![c] = [step |-> "manifest", version |-> Latest]]
  /\ UNCHANGED <<active, binary, part, legacy, cached, installing, toolVars, setupVars, crashes, removed>>

\* a version that is there already is only made active; for any other the
\* manifest and the response are awaited, and the .tmp file is opened
SwitchOrFetch(c) ==
  LET v == task[c].version IN
  /\ ~Blocked /\ At(c, "manifest")
  /\ IF binary[v] # "none"
     THEN setActive(v) /\ Finish(c, "ok") /\ UNCHANGED part
     ELSE /\ Goto(c, "body") /\ part' = [part EXCEPT ![v] = "partial"]
          /\ UNCHANGED <<active, cached, installing, removed>>
  /\ UNCHANGED <<binary, legacy, toolVars, setupVars, crashes>>

\* the download is complete and its checksum is the manifest's
Downloaded(c) ==
  LET v == task[c].version IN
  /\ ~Blocked /\ At(c, "body") /\ part[v] # "none"
  /\ Goto(c, "place") /\ part' = [part EXCEPT ![v] = "full"]
  /\ UNCHANGED <<active, binary, legacy, cached, installing, toolVars, setupVars, crashes, removed>>

\* renameSync: from here on the main process is blocked
Place(c) ==
  LET v == task[c].version IN
  /\ ~Blocked /\ At(c, "place") /\ part[v] # "none"
  /\ binary' = [binary EXCEPT ![v] = IF part[v] = "full" THEN "unverified" ELSE "partial"]
  /\ part' = [part EXCEPT ![v] = "none"]
  /\ Goto(c, "verify")
  /\ UNCHANGED <<active, legacy, cached, installing, toolVars, setupVars, crashes, removed>>

\* --version has run
Verified(c) ==
  LET v == task[c].version IN
  /\ At(c, "verify")
  /\ binary' = [binary EXCEPT ![v] = "full"]
  /\ setActive(v) /\ Finish(c, "ok")
  /\ UNCHANGED <<part, legacy, toolVars, setupVars, crashes>>

\* any step may throw, the write of .active too; the catch removes the
\* directory of the version, also one that was there before
InstallFailed(c) ==
  LET v == task[c].version IN
  /\ \/ At(c, "verify")
     \/ ~Blocked /\ task[c] # None /\ task[c].step \in {"latest", "manifest", "body"}
     \/ ~Blocked /\ At(c, "place") /\ part[v] = "none"
  /\ removed' = (removed \/ (At(c, "manifest") /\ v = active /\ binary[v] # "none"))
  /\ binary' = [w \in Versions |-> IF w = v THEN "none" ELSE binary[w]]
  /\ part' = [w \in Versions |-> IF w = v THEN "none" ELSE part[w]]
  /\ Finish(c, "failed")
  /\ UNCHANGED <<active, legacy, cached, toolVars, setupVars, crashes>>

-----------------------------------------------------------------------------
(***************************************************************************)
(* ToolsManager.                                                           *)
(***************************************************************************)
On(f, step) == job[f] # None /\ job[f].step = step
Turn(f, step) == job' = [job EXCEPT ![f].step = step]

First(S) == CHOOSE t \in S : \A u \in S : t <= u

\* the tool a job is at
Current(f) == First(job[f].todo)

\* what install sees missing: it looks for a tool's binary, no further
Missing == {t \in Tools : tool[t] = "none"}

isAllInstalled == marker \/ Missing = {}

\* ToolsManager.install up to its first await
installTools(f) ==
  job' = [job EXCEPT ![f] = [step |-> IF Missing = {} THEN "ok" ELSE "manifest", todo |-> Missing]]

\* a is the .tmp files by now; the first of the tools left is downloaded into one
Advance(f, left, a) ==
  IF left = {}
  THEN /\ job' = [job EXCEPT ![f] = [step |-> "ok", todo |-> {}]]
       /\ marker' = TRUE /\ archive' = a
  ELSE /\ job' = [job EXCEPT ![f] = [step |-> "body", todo |-> left]]
       /\ archive' = [a EXCEPT ![First(left)] = TRUE] /\ UNCHANGED marker

\* tools that the manifest does not list are skipped
Manifest(f) ==
  /\ ~Blocked /\ On(f, "manifest")
  /\ \E listed \in SUBSET job[f].todo : Advance(f, listed, archive)
  /\ UNCHANGED <<tool, cliVars, setupVars, crashes, removed>>

\* the archive is complete and its checksum right; another job that writes to
\* the same file may spoil it (ToolFailed), and ends its own with it
ToolDownloaded(f) ==
  /\ ~Blocked /\ On(f, "body") /\ archive[Current(f)]
  /\ Turn(f, "extract") /\ tool' = [tool EXCEPT ![Current(f)] = "partial"]
  /\ UNCHANGED <<archive, marker, cliVars, setupVars, crashes, removed>>

\* extracted over what was removed first, and verified
ToolReady(f) ==
  LET t == Current(f) IN
  /\ On(f, "extract")
  /\ tool' = [tool EXCEPT ![t] = "full"]
  /\ Advance(f, job[f].todo \ {t}, [archive EXCEPT ![t] = FALSE])
  /\ UNCHANGED <<cliVars, setupVars, crashes, removed>>

\* a failed download or checksum removes the .tmp file; a failed extraction
\* leaves what there is of the tool, a failed verification removes it
ToolFailed(f) ==
  /\ \/ ~Blocked /\ On(f, "manifest") /\ UNCHANGED <<tool, archive>>
     \/ /\ On(f, "extract") \/ (~Blocked /\ On(f, "body"))
        /\ archive' = [archive EXCEPT ![Current(f)] = FALSE]
        /\ \/ UNCHANGED tool
           \/ On(f, "extract") /\ tool' = [tool EXCEPT ![Current(f)] = "none"]
  /\ Turn(f, "failed")
  /\ UNCHANGED <<marker, cliVars, setupVars, crashes, removed>>

-----------------------------------------------------------------------------
(***************************************************************************)
(* The renderer: checkCliAndProceed, startInstall, startToolsInstall.      *)
(***************************************************************************)
In(f, at) == flow[f] # None /\ flow[f].at = at
Leave(f) == flow' = [flow EXCEPT ![f] = None]

Enter(f, where, why) == flow' = [flow EXCEPT ![f] = [at |-> where, of |-> why]]

\* startInstall ends for a retry; checkCliAndProceed goes on whatever it returned
Returned(f, why) == IF why = "retry" THEN Leave(f) ELSE Enter(f, "recheck", why)

\* startInstall, or startToolsInstall when there is an engine
CheckTools(f, why) ==
  IF isAllInstalled
  THEN /\ Returned(f, why) /\ UNCHANGED job
       /\ phase' = IF why = "check" THEN phase ELSE "ready"
  ELSE /\ phase' = "installing" /\ Enter(f, "tools", why)
       /\ installTools(f)

InstallCli(f, why) == phase' = "installing" /\ Enter(f, "cli", why) /\ install(f, None)

\* checkCliAndProceed, up to its first installation
CheckCli(f) ==
  /\ ~Blocked /\ flow[f] = None
  /\ \E v \in Versions \cup {None} :
       /\ getInfo(v)
       /\ IF v # None THEN CheckTools(f, "check") /\ UNCHANGED <<task, installing>>
                      ELSE InstallCli(f, "fresh") /\ UNCHANGED job
  /\ UNCHANGED <<part, tool, archive, marker, crashes, removed>>

\* startInstall, by the retry button
Retry(f) ==
  /\ ~Blocked /\ flow[f] = None /\ phase = "error"
  /\ InstallCli(f, "retry")
  /\ UNCHANGED <<active, binary, part, legacy, cached, toolVars, crashes, removed>>

CliInstalled(f) ==
  /\ ~Blocked /\ In(f, "cli") /\ task[f] # None /\ task[f].step \in {"ok", "failed"}
  /\ task' = [task EXCEPT ![f] = None]
  /\ IF task[f].step = "ok"
     THEN CheckTools(f, flow[f].of) /\ \E v \in Versions \cup {None} : getInfo(v)
     ELSE /\ phase' = "error" /\ Returned(f, flow[f].of)
          /\ UNCHANGED <<job, active, binary, legacy, cached>>
  /\ UNCHANGED <<part, installing, tool, archive, marker, crashes, removed>>

ToolsFailedQuietly == IF Windows THEN phase ELSE "ready"

ToolsFailed == IF Windows THEN "error" ELSE "ready"

ToolsInstalled(f) ==
  /\ In(f, "tools") /\ job[f] # None /\ job[f].step \in {"ok", "failed"}
  /\ job' = [job EXCEPT ![f] = None]
  /\ phase' = IF job[f].step = "ok" THEN "ready" ELSE ToolsFailed
  /\ Returned(f, flow[f].of)
  /\ UNCHANGED <<cliVars, tool, archive, marker, crashes, removed>>

\* the last getInfo of checkCliAndProceed; with an engine from the start it does
\* not ask again
Proceed(f) ==
  /\ ~Blocked /\ In(f, "recheck")
  /\ IF flow[f].of = "check"
     THEN phase' = "ready" /\ UNCHANGED <<active, binary, legacy, cached>>
     ELSE \E v \in Versions \cup {None} : getInfo(v) /\ phase' = IF v # None THEN "ready" ELSE phase
  /\ Leave(f)
  /\ UNCHANGED <<part, installing, task, toolVars, crashes, removed>>

\* Settings: cli:installVersion, of a version other than the one it shows, which
\* a set-up may have replaced
SwitchVersion(v) ==
  /\ ~Blocked /\ phase = "ready" /\ ~installing
  /\ install("settings", v)
  /\ UNCHANGED <<active, binary, part, legacy, cached, toolVars, setupVars, crashes, removed>>

\* The process dies.  What is on disk stays, half of it written.
Crash ==
  /\ crashes < MaxCrashes /\ crashes' = crashes + 1
  /\ cached' = None /\ installing' = FALSE
  /\ task' = [c \in Callers |-> None] /\ job' = [f \in Flows |-> None]
  /\ phase' = "checking" /\ flow' = [f \in Flows |-> None]
  /\ removed' = FALSE
  /\ UNCHANGED <<active, binary, part, legacy, tool, archive, marker>>

-----------------------------------------------------------------------------
CliStep(c) ==
  \/ GotLatest(c) \/ SwitchOrFetch(c) \/ Downloaded(c) \/ Place(c)
  \/ Verified(c) \/ InstallFailed(c)

ToolStep(f) == Manifest(f) \/ ToolDownloaded(f) \/ ToolReady(f) \/ ToolFailed(f)

FlowStep(f) == CliInstalled(f) \/ ToolsInstalled(f) \/ Proceed(f)

Step ==
  \/ \E c \in Callers : CliStep(c)
  \/ \E f \in Flows : ToolStep(f) \/ FlowStep(f)

Next ==
  \/ Step
  \/ \E f \in Flows : CheckCli(f) \/ Retry(f)
  \/ \E v \in Versions : SwitchVersion(v)
  \/ Crash

\* What has begun goes on: every fetch has a timeout, every synchronous command
\* too, and the renderer runs its continuations.
Spec == Init /\ [][Next]_vars /\ WF_vars(Step)

-----------------------------------------------------------------------------
\* A file at the final path of a version has passed its checksum, however many
\* installations were started and wherever the process died.
BinariesAreWhole == \A v \in Versions : binary[v] # "partial"

\* What getInfo answers from its cache is the active version and is on disk, and
\* the app is never ready without an engine to run; unless a failed switch to the
\* active version has removed it.
CliIsUsable ==
  /\ cached # None => cached = active /\ (binary[cached] # "none" \/ removed)
  /\ phase = "ready" => Found(active, binary) # None \/ removed

\* "Clean up partial install directory on failure" (cli-manager.ts): a failure
\* removes nothing but what was partial.  Refuted in InstallationSwitch.cfg: the
\* write of .active fails.
OnlyPartialIsRemoved ==
  [][\A v \in Versions : binary[v] = "full" => binary'[v] = "full"]_vars

\* The set-up screen does not stay: every flow, also one that fails or that
\* overlaps another, ends in the app or in an error with its retry button.
SetupEnds == []<>(phase # "installing")

\* On Windows the tools are required (SetupScreen): the app is not ready without.
RequiredTools == Windows /\ phase = "ready" => marker \/ Missing = {}
=============================================================================
