------------------------- MODULE InstallationProofs -------------------------
(***************************************************************************)
(* Proofs about Installation, for any sets of versions, tools and flows.   *)
(*                                                                         *)
(* Neither invariant is inductive alone.  A file is renamed to its final   *)
(* path by the only installation there is (OneInstall), which has just     *)
(* completed it (FilesInPlace).  And an engine that somebody counts on     *)
(* (Promised) is not the one whose verification may still fail and remove  *)
(* it (Usable); only a failed switch to it removes it (removed).           *)
(***************************************************************************)
EXTENDS Installation, TLAPS

Busy == {"latest", "manifest", "body", "place", "verify"}

Installs(c) == task[c] # None /\ task[c].step \in Busy

\* _installing is set while a call of install is at work, and there is one.
OneInstall ==
  \A c \in Callers : Installs(c) =>
    /\ installing
    /\ \A d \in Callers : Installs(d) => d = c

\* A version that is being fetched is not there yet, and a complete file waits
\* for its rename; who asks for the latest has no version so far.
FilesInPlace ==
  \A c \in Callers :
    /\ At(c, "latest") => task[c].version = None
    /\ At(c, "body") \/ At(c, "place") => binary[task[c].version] = "none"
    /\ At(c, "place") => part[task[c].version] = "full"

\* The binary of an old layout is moved before anything is installed.
LegacyIsMoved ==
  phase # "checking" \/ (\E c \in Callers : task[c] # None)
    => active # None \/ legacy = None

\* The flow of a call that has ended does not go on as one that found an engine.
FreshFlows == \A f \in Flows : In(f, "cli") => flow[f].of # "check"

Usable(v) ==
  /\ v # None
  /\ \/ removed
     \/ /\ binary[v] # "none"
        /\ \A c \in Callers : At(c, "verify") => task[c].version # v

\* Who counts on the engine: the app, the cache, a flow, an install that ended.
Promised ==
  \/ phase = "ready"
  \/ cached # None
  \/ \E f \in Flows : In(f, "tools") \/ (In(f, "recheck") /\ flow[f].of = "check")
  \/ \E c \in Callers : At(c, "ok")

PromisesHold == Promised => Usable(active) /\ cached \in {None, active}

IInv ==
  /\ TypeOK
  /\ OneInstall
  /\ FilesInPlace
  /\ LegacyIsMoved
  /\ FreshFlows
  /\ BinariesAreWhole
  /\ PromisesHold

-----------------------------------------------------------------------------
(***************************************************************************)
(* Types of an installation in progress.                                   *)
(***************************************************************************)
TaskTyped ==
  /\ task \in [Callers -> Task \cup {None}]
  /\ \A c \in Callers : task[c] # None /\ task[c].version = None
                        => task[c].step \in {"latest", "failed"}

\* A call of install that ends keeps its version, and Settings forgets it.
LEMMA FinishTyped ==
  ASSUME TaskTyped, NEW c \in Callers, task[c] # None,
         NEW r \in {"ok", "failed"}, r = "failed" \/ task[c].version # None,
         Finish(c, r)
  PROVE  TaskTyped' /\ installing' \in BOOLEAN
<1>1. task[c] \in Task
  BY DEF TaskTyped
<1>2. [task[c] EXCEPT !.step = r] \in Task
  BY <1>1 DEF Task
<1>3. CASE c = "settings"
  BY <1>3 DEF Finish, TaskTyped
<1>4. CASE c # "settings"
  <2> DEFINE t == [task[c] EXCEPT !.step = r]
  <2>1. task' = [task EXCEPT ![c] = t]
    BY <1>4 DEF Finish
  <2>2. t.step = r /\ t.version = task[c].version
    BY <1>1 DEF Task
  <2> HIDE DEF t
  <2>3. task' \in [Callers -> Task \cup {None}]
    BY <1>2, <2>1 DEF TaskTyped, t
  <2>4. ASSUME NEW d \in Callers, task'[d] # None, task'[d].version = None
        PROVE  task'[d].step \in {"latest", "failed"}
    BY <2>1, <2>2, <2>4 DEF TaskTyped
  <2> QED BY <2>3, <2>4 DEF TaskTyped, Finish
<1> QED BY <1>3, <1>4

\* install hands its caller a call that is typed and has, unless it was
\* refused, nothing but itself at work.
LEMMA InstallTyped ==
  ASSUME TaskTyped, installing \in BOOLEAN, NEW c \in Callers,
         NEW v \in Versions \cup {None}, install(c, v)
  PROVE  TaskTyped' /\ installing' \in BOOLEAN
<1> DEFINE t == IF installing THEN [step |-> "failed", version |-> None] ELSE Started(v)
<1>1. t \in Task /\ (t.version = None => t.step \in {"latest", "failed"})
  <2>1. CASE installing
    BY <2>1 DEF Task
  <2>2. CASE ~installing /\ v = None
    BY <2>2 DEF Started, Task
  <2>3. CASE ~installing /\ v # None
    BY <2>3 DEF Started, Task
  <2> QED BY <2>1, <2>2, <2>3
<1>2. task' = [task EXCEPT ![c] = t] /\ installing' \in BOOLEAN
  BY DEF install
<1> HIDE DEF t
<1> QED BY <1>1, <1>2 DEF TaskTyped

-----------------------------------------------------------------------------
LEMMA InitHolds == Init => IInv
<1> SUFFICES ASSUME Init PROVE IInv
  OBVIOUS
<1>1. TypeOK
  <2>1. task \in [Callers -> Task \cup {None}] /\ job \in [Flows -> Job \cup {None}]
    BY DEF Init, Fresh
  <2>2. flow \in [Flows -> Flow \cup {None}]
    BY DEF Init, Fresh
  <2>3. crashes \in 0 .. MaxCrashes
    BY CrashesAreNat DEF Init
  <2> QED BY <2>1, <2>2, <2>3, VersionsAreKnown DEF Init, Fresh, TypeOK, FileState
<1>2. OneInstall /\ FilesInPlace /\ LegacyIsMoved /\ FreshFlows /\ BinariesAreWhole
  BY DEF Init, Fresh, OneInstall, Installs, FilesInPlace, LegacyIsMoved, FreshFlows,
       BinariesAreWhole, At, In
<1>3. PromisesHold
  BY DEF Init, Fresh, PromisesHold, Promised, At, In
<1> QED BY <1>1, <1>2, <1>3 DEF IInv

-----------------------------------------------------------------------------
(***************************************************************************)
(* The steps of CliManager.                                                *)
(***************************************************************************)
LEMMA GotLatestKeeps ==
  ASSUME IInv, NEW c \in Callers, GotLatest(c)
  PROVE  IInv'
<1>1. TypeOK'
  BY VersionsAreKnown, NoneIsNoVersion DEF IInv, TypeOK, Task, FileState, GotLatest, At,
       toolVars, setupVars
<1>2. OneInstall' /\ FilesInPlace'
  BY VersionsAreKnown, NoneIsNoVersion DEF IInv, TypeOK, Task, GotLatest, Blocked, OneInstall,
       Installs, Busy, FilesInPlace, At
<1>3. LegacyIsMoved' /\ FreshFlows'
  BY DEF IInv, TypeOK, GotLatest, LegacyIsMoved, FreshFlows, In, At, toolVars, setupVars
<1>4. BinariesAreWhole'
  BY VersionsAreKnown, NoneIsNoVersion DEF IInv, TypeOK, GotLatest, FilesInPlace,
       BinariesAreWhole, At
<1>5. PromisesHold'
  BY VersionsAreKnown, NoneIsNoVersion DEF IInv, TypeOK, Task, FileState, GotLatest, Blocked,
       OneInstall, Installs, Busy, FilesInPlace, PromisesHold, Promised, Usable, In, At,
       toolVars, setupVars
<1> QED BY <1>1, <1>2, <1>3, <1>4, <1>5 DEF IInv

LEMMA SwitchOrFetchKeeps ==
  ASSUME IInv, NEW c \in Callers, SwitchOrFetch(c)
  PROVE  IInv'
<1>1. TypeOK'
  <2>1. task[c] \in Task /\ task[c].version \in Versions
    BY DEF IInv, TypeOK, SwitchOrFetch, At, Task
  <2>2. TaskTyped' /\ installing' \in BOOLEAN
    <3>1. CASE Finish(c, "ok")
      BY <2>1, <3>1, FinishTyped, NoneIsNoVersion DEF IInv, TypeOK, TaskTyped, SwitchOrFetch, At
    <3>2. CASE Goto(c, "body") /\ UNCHANGED installing
      BY <2>1, <3>2, NoneIsNoVersion DEF IInv, TypeOK, TaskTyped, Goto, Task
    <3> QED BY <3>1, <3>2 DEF SwitchOrFetch
  <2> QED BY <2>1, <2>2 DEF IInv, TypeOK, TaskTyped, FileState, SwitchOrFetch, setActive, toolVars, setupVars
<1>2. OneInstall' /\ FilesInPlace'
  BY VersionsAreKnown, NoneIsNoVersion DEF IInv, TypeOK, Task, SwitchOrFetch, Goto, setActive,
       Finish, Blocked, OneInstall, Installs, Busy, FilesInPlace, At
<1>3. LegacyIsMoved' /\ FreshFlows'
  BY DEF IInv, TypeOK, SwitchOrFetch, Goto, setActive, Finish, LegacyIsMoved, FreshFlows, In,
       At, toolVars, setupVars
<1>4. BinariesAreWhole'
  BY VersionsAreKnown, NoneIsNoVersion DEF IInv, TypeOK, SwitchOrFetch, Goto, setActive,
       Finish, FilesInPlace, BinariesAreWhole, At
<1>5. PromisesHold'
  BY VersionsAreKnown, NoneIsNoVersion DEF IInv, TypeOK, Task, FileState, SwitchOrFetch, Goto,
       setActive, Finish, Blocked, OneInstall, Installs, Busy, FilesInPlace, PromisesHold,
       Promised, Usable, In, At, toolVars, setupVars
<1> QED BY <1>1, <1>2, <1>3, <1>4, <1>5 DEF IInv

LEMMA DownloadedKeeps ==
  ASSUME IInv, NEW c \in Callers, Downloaded(c)
  PROVE  IInv'
<1>1. TypeOK'
  BY VersionsAreKnown, NoneIsNoVersion DEF IInv, TypeOK, Task, FileState, Downloaded, Goto,
       At, toolVars, setupVars
<1>2. OneInstall' /\ FilesInPlace'
  BY VersionsAreKnown, NoneIsNoVersion DEF IInv, TypeOK, Task, Downloaded, Goto, Blocked,
       OneInstall, Installs, Busy, FilesInPlace, At
<1>3. LegacyIsMoved' /\ FreshFlows'
  BY DEF IInv, TypeOK, Downloaded, Goto, LegacyIsMoved, FreshFlows, In, At, toolVars, setupVars
<1>4. BinariesAreWhole'
  BY VersionsAreKnown, NoneIsNoVersion DEF IInv, TypeOK, Downloaded, Goto, FilesInPlace,
       BinariesAreWhole, At
<1>5. PromisesHold'
  BY VersionsAreKnown, NoneIsNoVersion DEF IInv, TypeOK, Task, FileState, Downloaded, Goto,
       Blocked, OneInstall, Installs, Busy, FilesInPlace, PromisesHold, Promised, Usable, In,
       At, toolVars, setupVars
<1> QED BY <1>1, <1>2, <1>3, <1>4, <1>5 DEF IInv

LEMMA PlaceKeeps ==
  ASSUME IInv, NEW c \in Callers, Place(c)
  PROVE  IInv'
<1>1. TypeOK'
  BY VersionsAreKnown, NoneIsNoVersion DEF IInv, TypeOK, Task, FileState, Place, Goto, At,
       toolVars, setupVars
<1>2. OneInstall' /\ FilesInPlace'
  BY VersionsAreKnown, NoneIsNoVersion DEF IInv, TypeOK, Task, Place, Goto, Blocked,
       OneInstall, Installs, Busy, FilesInPlace, At
<1>3. LegacyIsMoved' /\ FreshFlows'
  BY DEF IInv, TypeOK, Place, Goto, LegacyIsMoved, FreshFlows, In, At, toolVars, setupVars
<1>4. BinariesAreWhole'
  BY VersionsAreKnown, NoneIsNoVersion DEF IInv, TypeOK, Place, Goto, FilesInPlace,
       BinariesAreWhole, At
<1>5. PromisesHold'
  BY VersionsAreKnown, NoneIsNoVersion DEF IInv, TypeOK, Task, FileState, Place, Goto,
       Blocked, OneInstall, Installs, Busy, FilesInPlace, PromisesHold, Promised, Usable, In,
       At, toolVars, setupVars
<1> QED BY <1>1, <1>2, <1>3, <1>4, <1>5 DEF IInv

LEMMA VerifiedKeeps ==
  ASSUME IInv, NEW c \in Callers, Verified(c)
  PROVE  IInv'
<1>1. TypeOK'
  <2>1. task[c] \in Task /\ task[c].version \in Versions
    BY DEF IInv, TypeOK, Verified, At, Task
  <2>2. TaskTyped' /\ installing' \in BOOLEAN
    BY <2>1, FinishTyped, NoneIsNoVersion DEF IInv, TypeOK, TaskTyped, Verified, At
  <2> QED BY <2>1, <2>2 DEF IInv, TypeOK, TaskTyped, FileState, Verified, setActive, toolVars, setupVars
<1>2. OneInstall' /\ FilesInPlace'
  BY VersionsAreKnown, NoneIsNoVersion DEF IInv, TypeOK, Task, Verified, setActive, Finish,
       Blocked, OneInstall, Installs, Busy, FilesInPlace, At
<1>3. LegacyIsMoved' /\ FreshFlows'
  BY DEF IInv, TypeOK, Verified, setActive, Finish, LegacyIsMoved, FreshFlows, In, At,
       toolVars, setupVars
<1>4. BinariesAreWhole'
  BY VersionsAreKnown, NoneIsNoVersion DEF IInv, TypeOK, Verified, setActive, Finish,
       FilesInPlace, BinariesAreWhole, At
<1>5. PromisesHold'
  BY VersionsAreKnown, NoneIsNoVersion DEF IInv, TypeOK, Task, FileState, Verified, setActive,
       Finish, Blocked, OneInstall, Installs, Busy, FilesInPlace, PromisesHold, Promised,
       Usable, In, At, toolVars, setupVars
<1> QED BY <1>1, <1>2, <1>3, <1>4, <1>5 DEF IInv

LEMMA InstallFailedKeeps ==
  ASSUME IInv, NEW c \in Callers, InstallFailed(c)
  PROVE  IInv'
<1>1. TypeOK'
  <2>1. TaskTyped' /\ installing' \in BOOLEAN
    BY FinishTyped DEF IInv, TypeOK, TaskTyped, InstallFailed, At
  <2> QED BY <2>1 DEF IInv, TypeOK, TaskTyped, FileState, InstallFailed, toolVars, setupVars
<1>2. OneInstall' /\ FilesInPlace'
  BY VersionsAreKnown, NoneIsNoVersion DEF IInv, TypeOK, Task, InstallFailed, Finish, Blocked,
       OneInstall, Installs, Busy, FilesInPlace, At
<1>3. LegacyIsMoved' /\ FreshFlows'
  BY DEF IInv, TypeOK, InstallFailed, Finish, LegacyIsMoved, FreshFlows, In, At, toolVars, setupVars
<1>4. BinariesAreWhole'
  BY VersionsAreKnown, NoneIsNoVersion DEF IInv, TypeOK, InstallFailed, Finish, FilesInPlace,
       BinariesAreWhole, At
<1>5. PromisesHold'
  BY VersionsAreKnown, NoneIsNoVersion DEF IInv, TypeOK, Task, FileState, InstallFailed,
       Finish, Blocked, OneInstall, Installs, Busy, FilesInPlace, PromisesHold, Promised,
       Usable, In, At, toolVars, setupVars
<1> QED BY <1>1, <1>2, <1>3, <1>4, <1>5 DEF IInv

-----------------------------------------------------------------------------
(***************************************************************************)
(* The steps of ToolsManager touch none of the engine's files.             *)
(***************************************************************************)
LEMMA AdvanceTyped ==
  ASSUME TypeOK, NEW f \in Flows, NEW left \in SUBSET Tools,
         NEW a \in [Tools -> BOOLEAN], Advance(f, left, a)
  PROVE  /\ job' \in [Flows -> Job \cup {None}]
         /\ archive' \in [Tools -> BOOLEAN]
         /\ marker' \in BOOLEAN
<1>1. [step |-> "ok", todo |-> {}] \in Job /\ [step |-> "body", todo |-> left] \in Job
  BY DEF Job
<1> QED BY <1>1 DEF TypeOK, Advance

LEMMA TurnTyped ==
  ASSUME TypeOK, NEW f \in Flows, job[f] # None,
         NEW step \in {"extract", "failed"}, Turn(f, step)
  PROVE  job' \in [Flows -> Job \cup {None}]
<1>1. job[f] \in Job
  BY DEF TypeOK
<1>2. [job[f] EXCEPT !.step = step] \in Job
  BY <1>1 DEF Job
<1> QED BY <1>2 DEF TypeOK, Turn

LEMMA ToolsKeep ==
  ASSUME IInv, NEW f \in Flows, ToolStep(f)
  PROVE  IInv'
<1> DEFINE Typed == /\ job' \in [Flows -> Job \cup {None}]
                    /\ tool' \in [Tools -> FileState]
                    /\ archive' \in [Tools -> BOOLEAN]
                    /\ marker' \in BOOLEAN
<1>1. UNCHANGED <<cliVars, setupVars, crashes, removed>>
  BY DEF ToolStep, Manifest, ToolDownloaded, ToolReady, ToolFailed
<1>2. job[f] # None => job[f] \in Job /\ job[f].todo \subseteq Tools
  BY DEF IInv, TypeOK, Job
<1>3. ASSUME Manifest(f) PROVE Typed
  <2> PICK listed \in SUBSET job[f].todo : Advance(f, listed, archive)
    BY <1>3 DEF Manifest
  <2> QED BY <1>2, <1>3, AdvanceTyped DEF IInv, TypeOK, Manifest, On
<1>4. ASSUME ToolDownloaded(f) PROVE Typed
  BY <1>4, TurnTyped DEF IInv, TypeOK, FileState, ToolDownloaded, On
<1>5. ASSUME ToolReady(f) PROVE Typed
  <2>1. [archive EXCEPT ![Current(f)] = FALSE] \in [Tools -> BOOLEAN]
    BY DEF IInv, TypeOK
  <2>2. job[f].todo \ {Current(f)} \in SUBSET Tools
    BY <1>2, <1>5 DEF ToolReady, On
  <2>3. Advance(f, job[f].todo \ {Current(f)}, [archive EXCEPT ![Current(f)] = FALSE])
    BY <1>5 DEF ToolReady
  <2>4. tool' \in [Tools -> FileState]
    BY <1>5 DEF IInv, TypeOK, FileState, ToolReady
  <2> QED BY <2>1, <2>2, <2>3, <2>4, AdvanceTyped DEF IInv
<1>6. ASSUME ToolFailed(f) PROVE Typed
  <2>1. job[f] # None /\ Turn(f, "failed")
    BY <1>6 DEF ToolFailed, On
  <2>2. archive' \in [Tools -> BOOLEAN] /\ tool' \in [Tools -> FileState] /\ marker' \in BOOLEAN
    BY <1>6 DEF IInv, TypeOK, FileState, ToolFailed
  <2> QED BY <2>1, <2>2, TurnTyped DEF IInv
<1>7. Typed
  BY <1>3, <1>4, <1>5, <1>6 DEF ToolStep
<1>8. TypeOK'
  BY <1>1, <1>7 DEF IInv, TypeOK, cliVars, setupVars
<1>9. (OneInstall /\ FilesInPlace /\ LegacyIsMoved /\ FreshFlows /\ BinariesAreWhole)'
  BY <1>1 DEF IInv, OneInstall, Installs, FilesInPlace, LegacyIsMoved, FreshFlows,
       BinariesAreWhole, At, In, cliVars, setupVars
<1>10. PromisesHold'
  BY <1>1 DEF IInv, PromisesHold, Promised, Usable, At, In, cliVars, setupVars
<1> QED BY <1>8, <1>9, <1>10 DEF IInv

-----------------------------------------------------------------------------
(***************************************************************************)
(* The flows of the renderer.                                              *)
(***************************************************************************)

\* getInfo answers with the active version, which is there, or with none; and
\* it moves the binary of an old layout only while nobody counts on an engine.
LEMMA GetInfoAnswers ==
  ASSUME IInv, ~Blocked, NEW v \in Versions \cup {None}, getInfo(v)
  PROVE  /\ active' \in Versions \cup {None} /\ legacy' \in Versions \cup {None}
         /\ cached' \in {None, active'}
         /\ binary' \in [Versions -> FileState \cup {"unverified"}]
         /\ BinariesAreWhole'
         /\ active' # None \/ legacy' = None
         /\ v # None => v = active' /\ (binary'[v] # "none" \/ removed)
         /\ v = None => cached' = None
         /\ active # None \/ legacy = None
              => UNCHANGED <<active, binary, legacy>> /\ (cached # None => cached' = cached)
         /\ ~(active # None \/ legacy = None) => cached = None
<1>1. cached \in {None, active} /\ (cached # None => binary[cached] # "none" \/ removed)
  BY DEF IInv, PromisesHold, Promised, Usable
<1>2. CASE cached # None
  BY <1>1, <1>2, NoneIsNoVersion DEF IInv, TypeOK, getInfo, BinariesAreWhole
<1>3. CASE cached = None /\ (active # None \/ legacy = None)
  BY <1>3, NoneIsNoVersion DEF IInv, TypeOK, getInfo, Found, BinariesAreWhole
<1>4. CASE cached = None /\ active = None /\ legacy # None
  <2>1. active' = legacy /\ legacy' = None /\ legacy \in Versions
    BY <1>4 DEF IInv, TypeOK, getInfo
  <2>2. binary' = binary \/ binary' = [binary EXCEPT ![legacy] = "full"]
    BY <1>4 DEF getInfo
  <2>3. binary' \in [Versions -> FileState \cup {"unverified"}] /\ BinariesAreWhole'
    BY <2>1, <2>2 DEF IInv, TypeOK, FileState, BinariesAreWhole
  <2>4. v = Found(active', binary') /\ cached' = v
    BY <1>4 DEF getInfo
  <2> QED BY <1>4, <2>1, <2>3, <2>4, NoneIsNoVersion DEF Found
<1> QED BY <1>2, <1>3, <1>4 DEF IInv

\* A new call of install is the only one, or it was refused.
LEMMA InstallKeepsOne ==
  ASSUME IInv, NEW c \in Callers, NEW v \in Versions \cup {None}, install(c, v),
         UNCHANGED part,
         (\E d \in Callers : task[d] # None) => UNCHANGED binary
  PROVE  /\ OneInstall' /\ FilesInPlace'
         /\ \A d \in Callers : At(d, "ok")' => At(d, "ok")
         /\ \A d \in Callers : At(d, "verify")' => At(d, "verify") /\ task'[d] = task[d]
<1> DEFINE t == IF installing THEN [step |-> "failed", version |-> None] ELSE Started(v)
<1>1. /\ t.step \in {"failed", "latest", "manifest"}
      /\ t.step = "latest" => t.version = None
      /\ installing => t.step = "failed"
  BY DEF Started
<1>2. task' = [task EXCEPT ![c] = t] /\ (installing \/ t.step # "failed" => installing' = TRUE)
  BY DEF install
<1> HIDE DEF t
<1>3. \A d \in Callers : task'[d] = IF d = c THEN t ELSE task[d]
  BY <1>2 DEF IInv, TypeOK
<1> QED BY <1>1, <1>2, <1>3 DEF IInv, OneInstall, Installs, Busy, FilesInPlace, At

LEMMA EnterTyped ==
  ASSUME TypeOK, NEW f \in Flows, NEW at \in {"cli", "tools", "recheck"},
         NEW why \in {"check", "fresh", "retry"}, Enter(f, at, why)
  PROVE  /\ flow' \in [Flows -> Flow \cup {None}]
         /\ flow'[f].at = at /\ flow'[f].of = why
         /\ \A g \in Flows : g # f => flow'[g] = flow[g]
<1>1. [at |-> at, of |-> why] \in Flow
  BY DEF Flow
<1> QED BY <1>1 DEF TypeOK, Enter

\* A flow that comes to the tools, or beyond, has an engine to count on.
LEMMA CheckToolsTyped ==
  ASSUME TypeOK, NEW f \in Flows, NEW why \in {"check", "fresh", "retry"},
         CheckTools(f, why)
  PROVE  /\ flow' \in [Flows -> Flow \cup {None}]
         /\ job' \in [Flows -> Job \cup {None}]
         /\ phase' \in {"checking", "installing", "ready", "error"}
         /\ ~In(f, "cli")'
         /\ \A g \in Flows : g # f => flow'[g] = flow[g]
         /\ phase' # "checking" \/ phase' = phase
<1>1. CASE isAllInstalled
  <2>1. Leave(f) \/ Enter(f, "recheck", why)
    BY <1>1 DEF CheckTools, Returned
  <2>2. CASE Leave(f)
    BY <1>1, <2>2 DEF TypeOK, CheckTools, Leave, In
  <2>3. CASE Enter(f, "recheck", why)
    BY <1>1, <2>3, EnterTyped DEF TypeOK, CheckTools, In
  <2> QED BY <2>1, <2>2, <2>3
<1>2. CASE ~isAllInstalled
  <2>1. Enter(f, "tools", why) /\ installTools(f) /\ phase' = "installing"
    BY <1>2 DEF CheckTools
  <2>2. [step |-> IF Missing = {} THEN "ok" ELSE "manifest", todo |-> Missing] \in Job
    BY DEF Job, Missing
  <2>3. job' \in [Flows -> Job \cup {None}]
    BY <2>1, <2>2 DEF TypeOK, installTools
  <2> QED BY <2>1, <2>3, EnterTyped DEF In
<1> QED BY <1>1, <1>2

LEMMA CheckCliKeeps ==
  ASSUME IInv, NEW f \in Flows, CheckCli(f)
  PROVE  IInv'
<1> PICK v \in Versions \cup {None} :
      /\ getInfo(v)
      /\ IF v # None THEN CheckTools(f, "check") /\ UNCHANGED <<task, installing>>
                     ELSE InstallCli(f, "fresh") /\ UNCHANGED job
  BY DEF CheckCli
<1>1. ~Blocked /\ UNCHANGED <<part, tool, archive, marker, crashes, removed>>
  BY DEF CheckCli
<1>2. f \in Callers
  BY DEF Callers
<1>3. CASE v # None
  <2>1. CheckTools(f, "check") /\ UNCHANGED <<task, installing>>
    BY <1>3
  <2>2. TypeOK'
    BY <1>1, <2>1, GetInfoAnswers, CheckToolsTyped DEF IInv, TypeOK
  <2>3. OneInstall' /\ FilesInPlace'
    BY <1>1, <2>1, GetInfoAnswers DEF IInv, OneInstall, Installs, FilesInPlace, LegacyIsMoved, At
  <2>4. LegacyIsMoved' /\ FreshFlows' /\ BinariesAreWhole'
    BY <2>1, <1>1, GetInfoAnswers, CheckToolsTyped DEF IInv, LegacyIsMoved, FreshFlows, In
  <2>5. Usable(active)'
    BY <1>1, <1>3, <2>1, GetInfoAnswers DEF Usable, Blocked, At
  <2> QED BY <1>1, <2>2, <2>3, <2>4, <2>5, GetInfoAnswers DEF IInv, PromisesHold
<1>4. CASE v = None
  <2>1. /\ phase' = "installing" /\ Enter(f, "cli", "fresh") /\ install(f, None)
        /\ UNCHANGED job
    BY <1>4 DEF InstallCli
  <2>2. TaskTyped' /\ installing' \in BOOLEAN
    BY <1>2, <2>1, InstallTyped DEF IInv, TypeOK, TaskTyped
  <2>3. TypeOK'
    BY <1>1, <2>1, <2>2, GetInfoAnswers, EnterTyped DEF IInv, TypeOK, TaskTyped
  <2>4. (\E d \in Callers : task[d] # None) => UNCHANGED binary
    BY <1>1, GetInfoAnswers DEF IInv, LegacyIsMoved
  <2>5. OneInstall' /\ FilesInPlace' /\ \A d \in Callers : At(d, "ok")' => At(d, "ok")
    BY <1>1, <1>2, <2>1, <2>4, InstallKeepsOne
  <2>6. LegacyIsMoved' /\ FreshFlows' /\ BinariesAreWhole'
    BY <1>1, <2>1, GetInfoAnswers, EnterTyped DEF IInv, LegacyIsMoved, FreshFlows, In
  <2>7. Promised => removed /\ active # None
    BY <1>1, <1>4, GetInfoAnswers, NoneIsNoVersion DEF IInv, PromisesHold, Usable, Blocked,
         getInfo, Found
  <2>8. Promised' => Promised
    BY <1>1, <1>4, <2>1, <2>5, GetInfoAnswers, EnterTyped DEF IInv, Promised, In
  <2>9. PromisesHold'
    BY <1>1, <1>4, <2>7, <2>8, GetInfoAnswers DEF PromisesHold, Usable
  <2> QED BY <2>3, <2>5, <2>6, <2>9 DEF IInv
<1> QED BY <1>3, <1>4

LEMMA RetryKeeps ==
  ASSUME IInv, NEW f \in Flows, Retry(f)
  PROVE  IInv'
<1>1. /\ phase' = "installing" /\ Enter(f, "cli", "retry") /\ install(f, None)
      /\ UNCHANGED <<active, binary, part, legacy, cached, toolVars, crashes, removed>>
  BY DEF Retry, InstallCli
<1>2. f \in Callers /\ phase = "error" /\ flow[f] = None
  BY DEF Callers, Retry
<1>3. TypeOK'
  <2>1. TaskTyped' /\ installing' \in BOOLEAN
    BY <1>1, <1>2, InstallTyped DEF IInv, TypeOK, TaskTyped
  <2> QED BY <1>1, <2>1, EnterTyped DEF IInv, TypeOK, TaskTyped, toolVars
<1>4. OneInstall' /\ FilesInPlace'
  BY <1>1, <1>2, InstallKeepsOne
<1>5. LegacyIsMoved' /\ FreshFlows' /\ BinariesAreWhole'
  BY <1>1, <1>2, EnterTyped DEF IInv, LegacyIsMoved, FreshFlows, BinariesAreWhole, In
<1>6. PromisesHold'
  <2>1. Promised' => Promised
    BY <1>1, <1>2, InstallKeepsOne, EnterTyped DEF IInv, Promised, In
  <2>2. Usable(active) => Usable(active)'
    BY <1>1, <1>2, InstallKeepsOne DEF Usable
  <2> QED BY <1>1, <2>1, <2>2 DEF IInv, PromisesHold
<1> QED BY <1>3, <1>4, <1>5, <1>6 DEF IInv

\* The flow goes on with the engine that its installation left.
LEMMA CliInstalledKeeps ==
  ASSUME IInv, NEW f \in Flows, CliInstalled(f)
  PROVE  IInv'
<1>1. /\ ~Blocked /\ In(f, "cli") /\ task[f] # None
      /\ task' = [task EXCEPT ![f] = None]
      /\ UNCHANGED <<part, installing, tool, archive, marker, crashes, removed>>
  BY DEF CliInstalled
<1>2. f \in Callers /\ flow[f] \in Flow /\ flow[f].of \in {"check", "fresh", "retry"}
  BY <1>1 DEF Callers, IInv, TypeOK, In, Flow
<1>3. \A c \in Callers : task'[c] = IF c = f THEN None ELSE task[c]
  BY <1>1, <1>2 DEF IInv, TypeOK
<1>4. TaskTyped'
  BY <1>1, <1>3 DEF IInv, TypeOK, TaskTyped
<1>5. CASE At(f, "ok")
  <2>1. CheckTools(f, flow[f].of) /\ \E v \in Versions \cup {None} : getInfo(v)
    BY <1>5 DEF CliInstalled, At
  <2>2. PICK v \in Versions \cup {None} : getInfo(v)
    BY <2>1
  <2>3. Usable(active) /\ active # None
    BY <1>2, <1>5 DEF IInv, PromisesHold, Promised, Usable
  <2>4. TypeOK'
    BY <1>1, <1>2, <1>4, <2>1, <2>2, GetInfoAnswers, CheckToolsTyped DEF IInv, TypeOK, TaskTyped
  <2>5. UNCHANGED <<active, binary, legacy>> /\ cached' \in {None, active'} /\ BinariesAreWhole'
    BY <1>1, <2>2, <2>3, GetInfoAnswers
  <2>6. OneInstall' /\ FilesInPlace'
    BY <1>1, <1>3, <2>5 DEF IInv, OneInstall, Installs, FilesInPlace, At
  <2>7. LegacyIsMoved' /\ FreshFlows'
    BY <1>2, <2>1, <2>3, <2>5, CheckToolsTyped DEF IInv, LegacyIsMoved, FreshFlows, In
  <2>8. Usable(active)'
    BY <1>1, <1>3, <2>3, <2>5 DEF Usable, At
  <2> QED BY <2>4, <2>5, <2>6, <2>7, <2>8 DEF IInv, PromisesHold
<1>6. CASE ~At(f, "ok")
  <2>1. /\ phase' = "error" /\ Returned(f, flow[f].of)
        /\ UNCHANGED <<job, active, binary, legacy, cached>>
    BY <1>1, <1>6 DEF CliInstalled, At
  <2>2. /\ flow' \in [Flows -> Flow \cup {None}]
        /\ \A g \in Flows : g # f => flow'[g] = flow[g]
        /\ ~In(f, "cli")' /\ ~In(f, "tools")'
        /\ flow'[f] # None => flow'[f].of = flow[f].of
    <3>1. CASE flow[f].of = "retry"
      BY <2>1, <3>1 DEF IInv, TypeOK, Returned, Leave, In
    <3>2. CASE flow[f].of # "retry"
      BY <1>2, <2>1, <3>2, EnterTyped DEF IInv, Returned, In
    <3> QED BY <3>1, <3>2
  <2>3. TypeOK'
    BY <1>1, <1>4, <2>1, <2>2 DEF IInv, TypeOK, TaskTyped
  <2>4. OneInstall' /\ FilesInPlace' /\ BinariesAreWhole'
    BY <1>1, <1>3, <2>1 DEF IInv, OneInstall, Installs, FilesInPlace, BinariesAreWhole, At
  <2>5. LegacyIsMoved' /\ FreshFlows'
    BY <1>1, <1>2, <2>1, <2>2 DEF IInv, LegacyIsMoved, FreshFlows, In
  <2>6. flow[f].of # "check"
    BY <1>1 DEF IInv, FreshFlows
  <2>7. Promised' => Promised
    BY <1>3, <2>1, <2>2, <2>6 DEF Promised, In, At
  <2>8. Usable(active) => Usable(active)'
    BY <1>1, <1>3, <2>1 DEF Usable, At
  <2> QED BY <2>1, <2>3, <2>4, <2>5, <2>7, <2>8 DEF IInv, PromisesHold
<1> QED BY <1>5, <1>6

LEMMA ToolsInstalledKeeps ==
  ASSUME IInv, NEW f \in Flows, ToolsInstalled(f)
  PROVE  IInv'
<1>1. /\ In(f, "tools") /\ job' = [job EXCEPT ![f] = None]
      /\ phase' \in {"ready", "error"} \cup {phase} /\ phase' # "checking"
      /\ Returned(f, flow[f].of)
      /\ UNCHANGED <<cliVars, tool, archive, marker, crashes, removed>>
  BY DEF ToolsInstalled, ToolsFailed
<1>2. flow[f] \in Flow /\ flow[f].of \in {"check", "fresh", "retry"}
  BY <1>1 DEF IInv, TypeOK, In, Flow
<1>3. /\ flow' \in [Flows -> Flow \cup {None}]
      /\ \A g \in Flows : g # f => flow'[g] = flow[g]
      /\ ~In(f, "cli")'
  <2>1. CASE flow[f].of = "retry"
    BY <1>1, <2>1 DEF IInv, TypeOK, Returned, Leave, In
  <2>2. CASE flow[f].of # "retry"
    BY <1>1, <1>2, <2>2, EnterTyped DEF IInv, Returned, In
  <2> QED BY <2>1, <2>2
<1>4. TypeOK'
  BY <1>1, <1>3 DEF IInv, TypeOK, cliVars
<1>5. Usable(active) /\ active # None
  BY <1>1 DEF IInv, PromisesHold, Promised, Usable
<1>6. (OneInstall /\ FilesInPlace /\ BinariesAreWhole)'
  BY <1>1 DEF IInv, OneInstall, Installs, FilesInPlace, BinariesAreWhole, At, cliVars
<1>7. (LegacyIsMoved /\ FreshFlows)'
  BY <1>1, <1>3, <1>5 DEF IInv, LegacyIsMoved, FreshFlows, In, cliVars
<1>8. PromisesHold'
  BY <1>1, <1>5 DEF IInv, PromisesHold, Promised, Usable, At, cliVars
<1> QED BY <1>4, <1>6, <1>7, <1>8 DEF IInv

\* The app is ready by what the last getInfo answered, or by what the first did.
LEMMA ProceedKeeps ==
  ASSUME IInv, NEW f \in Flows, Proceed(f)
  PROVE  IInv'
<1>1. /\ ~Blocked /\ In(f, "recheck") /\ Leave(f)
      /\ UNCHANGED <<part, installing, task, toolVars, crashes, removed>>
  BY DEF Proceed
<1>2. /\ flow' \in [Flows -> Flow \cup {None}]
      /\ \A g \in Flows : g # f => flow'[g] = flow[g]
      /\ flow'[f] = None
  BY <1>1 DEF IInv, TypeOK, Leave
<1>3. CASE flow[f].of = "check"
  <2>1. phase' = "ready" /\ UNCHANGED <<active, binary, legacy, cached>>
    BY <1>3 DEF Proceed
  <2>2. Usable(active) /\ active # None
    BY <1>1, <1>3 DEF IInv, PromisesHold, Promised, Usable
  <2>3. TypeOK'
    BY <1>1, <1>2, <2>1 DEF IInv, TypeOK, toolVars
  <2>4. (OneInstall /\ FilesInPlace /\ BinariesAreWhole)'
    BY <1>1, <2>1 DEF IInv, OneInstall, Installs, FilesInPlace, BinariesAreWhole, At
  <2>5. (LegacyIsMoved /\ FreshFlows)'
    BY <1>2, <2>1, <2>2 DEF IInv, LegacyIsMoved, FreshFlows, In
  <2>6. PromisesHold'
    BY <1>1, <2>1, <2>2 DEF IInv, PromisesHold, Promised, Usable, At
  <2> QED BY <2>3, <2>4, <2>5, <2>6 DEF IInv
<1>4. CASE flow[f].of # "check"
  <2>1. PICK v \in Versions \cup {None} :
               getInfo(v) /\ phase' = IF v # None THEN "ready" ELSE phase
    BY <1>4 DEF Proceed
  <2>2. TypeOK'
    BY <1>1, <1>2, <2>1, GetInfoAnswers DEF IInv, TypeOK, toolVars
  <2>3. OneInstall' /\ FilesInPlace'
    BY <1>1, <2>1, GetInfoAnswers DEF IInv, OneInstall, Installs, FilesInPlace, LegacyIsMoved, At
  <2>4. LegacyIsMoved' /\ FreshFlows' /\ BinariesAreWhole'
    BY <1>1, <1>2, <2>1, GetInfoAnswers DEF IInv, LegacyIsMoved, FreshFlows, In
  <2>5. v # None => Usable(active)'
    BY <1>1, <2>1, GetInfoAnswers DEF Usable, Blocked, At
  <2>6. v = None => PromisesHold'
    <3>1. v = None /\ Promised => removed /\ active # None
      BY <1>1, <2>1, GetInfoAnswers, NoneIsNoVersion DEF IInv, PromisesHold, Usable,
           Blocked, getInfo, Found
    <3>2. v = None /\ Promised' => Promised
      BY <1>1, <1>2, <2>1, GetInfoAnswers DEF Promised, In, At
    <3> QED BY <1>1, <3>1, <3>2, <2>1, GetInfoAnswers DEF PromisesHold, Usable
  <2> QED BY <1>1, <2>1, <2>2, <2>3, <2>4, <2>5, <2>6, GetInfoAnswers DEF IInv, PromisesHold
<1> QED BY <1>3, <1>4

LEMMA SwitchVersionKeeps ==
  ASSUME IInv, NEW v \in Versions, SwitchVersion(v)
  PROVE  IInv'
<1>1. /\ phase = "ready" /\ install("settings", v)
      /\ UNCHANGED <<active, binary, part, legacy, cached, toolVars, setupVars, crashes, removed>>
  BY DEF SwitchVersion
<1>2. "settings" \in Callers
  BY DEF Callers
<1>3. TypeOK'
  <2>1. TaskTyped' /\ installing' \in BOOLEAN
    BY <1>1, <1>2, InstallTyped DEF IInv, TypeOK, TaskTyped
  <2> QED BY <1>1, <2>1 DEF IInv, TypeOK, TaskTyped, toolVars, setupVars
<1>4. OneInstall' /\ FilesInPlace'
  BY <1>1, <1>2, InstallKeepsOne
<1>5. LegacyIsMoved' /\ FreshFlows' /\ BinariesAreWhole'
  BY <1>1 DEF IInv, LegacyIsMoved, FreshFlows, BinariesAreWhole, In, setupVars
<1>6. PromisesHold'
  <2>1. Promised
    BY <1>1 DEF Promised
  <2>2. Usable(active) => Usable(active)'
    BY <1>1, <1>2, InstallKeepsOne DEF Usable
  <2> QED BY <1>1, <2>1, <2>2 DEF IInv, PromisesHold
<1> QED BY <1>3, <1>4, <1>5, <1>6 DEF IInv

\* A crash leaves nobody who counts on anything; the files are what they were.
LEMMA CrashKeeps ==
  ASSUME IInv, Crash
  PROVE  IInv'
<1>1. TypeOK'
  <2>1. (task \in [Callers -> Task \cup {None}] /\ job \in [Flows -> Job \cup {None}])'
    BY DEF Crash
  <2>2. (flow \in [Flows -> Flow \cup {None}] /\ crashes \in 0 .. MaxCrashes)'
    BY CrashesAreNat DEF IInv, TypeOK, Crash
  <2> QED BY <2>1, <2>2 DEF IInv, TypeOK, Crash
<1>2. (OneInstall /\ FilesInPlace /\ LegacyIsMoved /\ FreshFlows /\ BinariesAreWhole)'
  BY DEF IInv, Crash, OneInstall, Installs, FilesInPlace, LegacyIsMoved, FreshFlows,
       BinariesAreWhole, At, In
<1>3. PromisesHold'
  BY DEF Crash, PromisesHold, Promised, At, In
<1> QED BY <1>1, <1>2, <1>3 DEF IInv

-----------------------------------------------------------------------------
LEMMA StepKeeps == IInv /\ [Next]_vars => IInv'
<1> SUFFICES ASSUME IInv, [Next]_vars PROVE IInv'
  OBVIOUS
<1>1. ASSUME NEW c \in Callers, CliStep(c) PROVE IInv'
  BY <1>1, GotLatestKeeps, SwitchOrFetchKeeps, DownloadedKeeps, PlaceKeeps, VerifiedKeeps,
       InstallFailedKeeps DEF CliStep
<1>2. ASSUME NEW f \in Flows, ToolStep(f) PROVE IInv'
  BY <1>2, ToolsKeep
<1>3. ASSUME NEW f \in Flows, FlowStep(f) PROVE IInv'
  BY <1>3, CliInstalledKeeps, ToolsInstalledKeeps, ProceedKeeps DEF FlowStep
<1>4. ASSUME NEW f \in Flows, CheckCli(f) \/ Retry(f) PROVE IInv'
  BY <1>4, CheckCliKeeps, RetryKeeps
<1>5. ASSUME NEW v \in Versions, SwitchVersion(v) PROVE IInv'
  BY <1>5, SwitchVersionKeeps
<1>6. CASE Crash
  BY <1>6, CrashKeeps
<1>7. CASE UNCHANGED vars
  <2>1. TypeOK'
    BY <1>7 DEF IInv, TypeOK, vars, cliVars, toolVars, setupVars
  <2>2. (OneInstall /\ FilesInPlace /\ LegacyIsMoved /\ FreshFlows /\ BinariesAreWhole)'
    BY <1>7 DEF IInv, OneInstall, Installs, FilesInPlace, LegacyIsMoved, FreshFlows,
         BinariesAreWhole, At, In, vars, cliVars, setupVars
  <2>3. PromisesHold'
    BY <1>7 DEF IInv, PromisesHold, Promised, Usable, At, In, vars, cliVars, setupVars
  <2> QED BY <2>1, <2>2, <2>3 DEF IInv
<1> QED
  BY <1>1, <1>2, <1>3, <1>4, <1>5, <1>6, <1>7 DEF Next, Step

\* The strengthening of both invariants.
THEOREM Inductive == Spec => []IInv
  BY InitHolds, StepKeeps, PTL DEF Spec

\* Every variable keeps its type, a call of install its version.
THEOREM TypeCorrect == Spec => []TypeOK
<1>1. IInv => TypeOK
  BY DEF IInv
<1> QED BY <1>1, Inductive, PTL

(***************************************************************************)
(* A file at the final path of a version has passed its checksum, for any  *)
(* number of flows, versions and crashes (CliManager.install).             *)
(***************************************************************************)
THEOREM BinariesStayWhole == Spec => []BinariesAreWhole
<1>1. IInv => BinariesAreWhole
  BY DEF IInv
<1> QED BY <1>1, Inductive, PTL

(***************************************************************************)
(* The cached answer of getInfo is true, and an app that is ready has an   *)
(* engine to run, whatever Settings and other flows install or fail to     *)
(* install meanwhile.                                                      *)
(***************************************************************************)
THEOREM EngineStaysUsable == Spec => []CliIsUsable
<1>1. IInv => CliIsUsable
  BY NoneIsNoVersion DEF IInv, TypeOK, PromisesHold, Promised, Usable, CliIsUsable, Found
<1> QED BY <1>1, Inductive, PTL
=============================================================================
