-------------------------- MODULE TunManagerProofs --------------------------
(***************************************************************************)
(* Proofs about TunManager, for any number of overlapping calls, crashes   *)
(* and outages.  IInv says who owns the two promises (Owners), what holds  *)
(* where the helper starts nothing (WithoutHelper), and for each of the    *)
(* two ways to start sing-box why a stop(true) wins: with osascript the    *)
(* stop in progress kills it (Prompted), with the helper either the stop   *)
(* in progress or the start that it overtook brings it down (RolledBack).  *)
(***************************************************************************)
EXTENDS TunManager, TLAPS

\* Inside _stopImpl, and inside _startTunImpl but for its stop.
StopLabel == {"s_avail", "s_dns", "m_dns", "s_stop", "s_kill", "s_wait"}

StartLabel ==
  {"recon", "install", "cleanup", "cleaned", "validate", "ready", "sudo",
   "start", "rollback", "set_dns", "verify", "verify2"}

StartOwnerAt(L) == startPromise # None /\ pc[startPromise] \in L
StopOwnerAt(L) == stopPromise # None /\ pc[stopPromise] \in L

\* The owner of a promise is inside what it promised, and nobody else is.
Owners ==
  /\ pc[Reconciler] \in {"idle", "avail", "status"}
  /\ stopPromise # None => StopOwnerAt(StopLabel)
  /\ startPromise # None =>
       StartOwnerAt(StartLabel \cup StopLabel
                      \cup {"s_join", "stopped", "stop_failed"})
  /\ \A c \in Caller :
       /\ pc[c] \notin {"avail", "status"}
       /\ pc[c] \in StopLabel => stopPromise = c
       /\ pc[c] \in StartLabel => startPromise = c
       /\ op[c] = "none" => pc[c] = "idle"
       /\ op[c] = "start" /\ pc[c] \in StopLabel => startPromise = c

\* Nobody answers where no helper is installed, and the PID file is kept; and
\* a helper that is not asked starts nothing.
WithoutHelper ==
  /\ setup \in {"sudo", "fallback"} =>
       /\ helper = "down"
       /\ \A t \in Task : reply[t] \in {None, "error"}
       /\ "root" \in box => pidFile
  /\ setup \in {"sudo", "mixed"} => \A c \in Caller : pc[c] # "ready"
  /\ setup # "helper" => ~tracked /\ \A c \in Caller : pc[c] # "start"

\* The start in progress has stopped the old tunnel, and not begun the new.
StopDone == {"stopped", "cleanup", "cleaned", "validate"}

\* osascript starts sing-box.  A prompt belongs to the start in progress, no
\* stop waits for the end of sing-box while one is open, and a stop(true)
\* that sing-box or a prompt outlives is in progress, has failed, or could not
\* kill an osascript that the app had forgotten.
Prompted ==
  setup = "sudo" =>
    /\ osascript \in {"prompt", "run"} => process \/ handleLost
    /\ osascript = "prompt" =>
         StartOwnerAt({"sudo"}) /\ "root" \notin box /\ ~pidFile
    /\ StartOwnerAt(StopDone) => "root" \notin box /\ ~pidFile
    /\ StopOwnerAt({"s_wait"}) => osascript # "prompt" /\ ~StartOwnerAt(StopDone)
    /\ \A c \in Caller : pc[c] \notin {"ready", "start", "s_stop", "s_dns"}
    /\ stopRequested /\ ("root" \in box \/ osascript = "prompt") =>
         stopFailed \/ handleLost \/ stopPromise # None

\* The start in progress is past its own stop.
PastStop == (StartLabel \ {"recon", "install"}) \cup {"stopped"}

\* The start in progress stops what the helper starts for it.
WillRollBack ==
  /\ stopRequested
  /\ \/ StartOwnerAt({"start"})
     \/ StartOwnerAt({"rollback"}) /\ reply[startPromise] = None

\* The stop in progress was answered by the helper, or went on without it.
StopServed ==
  \/ StopOwnerAt({"m_dns", "s_kill", "s_wait"})
  \/ StopOwnerAt({"s_stop"}) /\ reply[stopPromise] # None

WillStop == stopPromise # None /\ ~StopServed

\* A helper that is down has no child.
OnlyByHelper == helper = "down" => ~tracked

\* A start that is past its own stop has not forgotten a stop(true) that runs.
StopIsHeard ==
  /\ stopPromise # None
  /\ op[stopPromise] = "stop"
  /\ StartOwnerAt(PastStop)
  => stopRequested

\* A start that will throw left nothing behind.
FailedStartIsDown ==
  /\ StartOwnerAt({"start"}) /\ reply[startPromise] = "error" => ~tracked
  /\ StartOwnerAt({"rollback"}) /\ reply[startPromise] # None => ~tracked

\* After its stop was served, a stop has nothing left to stop ...
ServedStopIsDown ==
  StopServed /\ tracked =>
    \/ WillRollBack
    \/ op[stopPromise] = "reconnect" /\ stopPromise # startPromise

\* ... and while a stop(true) is requested, somebody still stops sing-box.
RequestIsPending ==
  stopRequested /\ tracked => joinedReconnect \/ WillStop \/ WillRollBack

\* The helper may start sing-box.
RolledBack ==
  setup = "helper" =>
    /\ OnlyByHelper
    /\ StopIsHeard
    /\ FailedStartIsDown
    /\ ServedStopIsDown
    /\ RequestIsPending

\* What the steps below need of TypeOK.
Typed ==
  /\ startPromise \in Caller \cup {None}
  /\ stopPromise \in Caller \cup {None}
  /\ pc \in [Task -> PcLabel]
  /\ op \in [Caller -> {"none", "start", "reconnect", "stop"}]
  /\ reply \in [Task -> {None, "ok", "error", "running", "not_running"}]

\* ... and the rest of TypeOK.
StatesTyped ==
  /\ status \in {"stopped", "starting", "running", "error"}
  /\ subscription \in {"none", "down", "up"}
  /\ setup \in Setups
  /\ helper \in {"up", "down"}
  /\ osascript \in {"off", "prompt", "run", "gone"}
  /\ wrapper \in {"off", "started", "loop"}

FlagsTyped ==
  /\ stopRequested \in BOOLEAN
  /\ helperAuthoritative \in BOOLEAN
  /\ process \in BOOLEAN
  /\ stopFailed \in BOOLEAN
  /\ joinedReconnect \in BOOLEAN
  /\ box \subseteq {"helper", "root", "orphan"}
  /\ stray \in BOOLEAN
  /\ exits \in BOOLEAN
  /\ handleLost \in BOOLEAN
  /\ pidFile \in BOOLEAN

CountersTyped ==
  /\ helperFailures \in 0 .. HELPER_FAILURE_THRESHOLD - 1
  /\ events \in Seq({"started", "exited"})
  /\ dns \subseteq Overrides
  /\ calls \in 0 .. MaxCalls
  /\ faults \in 0 .. MaxFaults

IInv == TypeOK /\ Owners /\ WithoutHelper /\ Prompted /\ RolledBack

\* What a caller may do at a label without disturbing who owns what.
LEMMA GotoOwners ==
  ASSUME Typed, Owners, NEW c \in Caller, NEW label, Goto(c, label),
         UNCHANGED <<op, startPromise, stopPromise>>,
         label \notin {"avail", "status", "idle"},
         op[c] # "none",
         stopPromise = c <=> label \in StopLabel,
         label \in StartLabel => startPromise = c,
         startPromise = c =>
           label \in StartLabel \cup StopLabel
                       \cup {"s_join", "stopped", "stop_failed"},
         op[c] = "start" /\ label \in StopLabel => startPromise = c
  PROVE  Owners'
  BY CallersAreDistinct
  DEF Typed, Owners, StartOwnerAt, StopOwnerAt, StartLabel, StopLabel, Task,
      Goto

\* The end of a start.
LEMMA FinishStartOwners ==
  ASSUME Typed, Owners, NEW c \in Caller, FinishStart(c), startPromise = c,
         pc[c] \notin StopLabel, UNCHANGED stopPromise
  PROVE  Owners'
  BY CallersAreDistinct
  DEF Typed, Owners, StartOwnerAt, StopOwnerAt, StartLabel, StopLabel, Task,
      FinishStart, Release

\* The end of a stop.
LEMMA FinishStopOwners ==
  ASSUME Typed, Owners, NEW c \in Caller, pc[c] \in StopLabel,
         NEW how \in {"stopped", "stop_failed"}, FinishStop(c, how),
         UNCHANGED <<op, startPromise>>
  PROVE  Owners'
  BY CallersAreDistinct
  DEF Typed, Owners, StartOwnerAt, StopOwnerAt, StartLabel, StopLabel, Task,
      FinishStop, Release

\* A caller in no promise, or the start in progress, calls stop.
LEMMA StopOwners ==
  ASSUME Typed, Owners, NEW c \in Caller, NEW restore, stop(c, restore),
         pc[c] \in {"idle", "install"},
         UNCHANGED startPromise,
         op' \in [Caller -> {"none", "start", "reconnect", "stop"}],
         \A d \in Caller : d # c => op'[d] = op[d],
         \/ pc[c] = "install" /\ op' = op
         \/ pc[c] = "idle" /\ op'[c] \in {"stop", "reconnect"}
  PROVE  Owners'
<1> USE CallersAreDistinct
    DEF Typed, Owners, StartOwnerAt, StopOwnerAt, StartLabel, StopLabel, Task
<1>1. stopPromise # c
  OBVIOUS
<1>2. CASE stopPromise # None
  <2>1. /\ stopPromise' = stopPromise
        /\ pc' = [pc EXCEPT ![c] = "s_join"]
    BY <1>2 DEF stop, Goto
  <2>2. CASE pc[c] = "install" /\ op' = op
    BY <1>1, <1>2, <2>1, <2>2
  <2>3. CASE pc[c] = "idle" /\ op'[c] \in {"stop", "reconnect"}
    <3>1. startPromise # c
      BY <2>3
    <3> QED
      BY <1>1, <1>2, <2>1, <2>3, <3>1
  <2> QED
    BY <2>2, <2>3
<1>3. CASE stopPromise = None
  <2>1. /\ stopPromise' = c
        /\ pc' = [pc EXCEPT ![c] = "s_avail"]
    BY <1>3 DEF stop, Goto
  <2>2. CASE pc[c] = "install" /\ op' = op
    BY <1>3, <2>1, <2>2
  <2>3. CASE pc[c] = "idle" /\ op'[c] \in {"stop", "reconnect"}
    <3>1. startPromise # c
      BY <2>3
    <3> QED
      BY <1>3, <2>1, <2>3, <3>1
  <2> QED
    BY <2>2, <2>3
<1> QED
  BY <1>2, <1>3


\* Every step keeps Owners ...
LEMMA OwnersStep == IInv /\ [Next]_vars => Owners'
<1> SUFFICES ASSUME TypeOK, Owners, [Next]_vars PROVE Owners'
  BY DEF IInv
<1>0. Typed
  BY DEF TypeOK, Typed
<1> USE <1>0, CallersAreDistinct DEF Typed, Owners, StartOwnerAt, StopOwnerAt,
   StartLabel, StopLabel, Task, manager, tasks, world, link, root, health, history,
   boxes, handles, prompts
<1>1. ASSUME NEW c \in Caller, tun_stop(c) PROVE Owners'
  BY <1>1, StopOwners DEF tun_stop, Request
<1>2. ASSUME NEW c \in Caller, tun_reconnect(c) PROVE Owners'
  BY <1>2, StopOwners DEF tun_reconnect, Request
<1>3. ASSUME NEW c \in Caller, tun_startTun(c) PROVE Owners'
  BY <1>3 DEF tun_startTun, Request, Goto
<1>4. ASSUME NEW c \in Caller, StopProbed(c) PROVE Owners'
  <2>1. stopPromise = c /\ op[c] # "none"
    BY <1>4 DEF StopProbed
  <2>2. PICK label \in {"s_dns", "s_stop", "m_dns", "s_kill"} : Goto(c, label)
    BY <1>4 DEF StopProbed
  <2> QED
    BY <1>4, <2>1, <2>2, GotoOwners DEF StopProbed, manager
<1>5. ASSUME NEW c \in Caller, StopRestoresDnsFirst(c) PROVE Owners'
  BY <1>5 DEF StopRestoresDnsFirst, Goto, HelperDns, isAvailable
<1>6. ASSUME NEW c \in Caller, StopByHelper(c) PROVE Owners'
  BY <1>6 DEF StopByHelper, Replied, FinishStop, Release
<1>7. ASSUME NEW c \in Caller, StopByHelperFails(c) PROVE Owners'
  BY <1>7 DEF StopByHelperFails, Replied, Goto
<1>8. ASSUME NEW c \in Caller, restoreSystemDns(c) PROVE Owners'
  BY <1>8 DEF restoreSystemDns, Goto, isAvailable
<1>9. ASSUME NEW c \in Caller, StopManually(c) PROVE Owners'
  <2>1. stopPromise = c /\ op[c] # "none"
    BY <1>9 DEF StopManually
  <2>2. CASE Goto(c, "s_wait") /\ UNCHANGED stopPromise
    BY <1>9, <2>1, <2>2, GotoOwners DEF StopManually
  <2>3. CASE FinishStop(c, "stopped")
    BY <1>9, <2>3, FinishStopOwners DEF StopManually
  <2> QED
    BY <1>9, <2>2, <2>3 DEF StopManually
<1>10. ASSUME NEW c \in Caller, PidKilled(c) PROVE Owners'
  BY <1>10 DEF PidKilled, MayHaveDied, FinishStop, Release
<1>11. ASSUME NEW c \in Caller, PidSurvives(c) PROVE Owners'
  BY <1>11 DEF PidSurvives, PidAlive, FinishStop, Release
<1>12. ASSUME NEW c \in Caller, AfterStop(c) PROVE Owners'
  <2>1. CASE Return(c)
    BY <1>12, <2>1 DEF AfterStop, Return, Goto, manager
  <2>2. CASE Goto(c, "pre") /\ pc[c] = "stopped" /\ op[c] = "reconnect"
             /\ UNCHANGED op
    BY <1>12, <2>2, GotoOwners DEF AfterStop, manager
  <2> QED
    BY <1>12, <2>1, <2>2 DEF AfterStop
<1>13. ASSUME NEW c \in Caller, startTun(c) PROVE Owners'
  <2>1. op[c] # "none" /\ startPromise # c
    BY <1>13 DEF startTun
  <2>2. CASE startPromise # None
    BY <1>13, <2>1, <2>2, GotoOwners DEF startTun
  <2>3. CASE startPromise = None
    <3>1. /\ startPromise' = c
          /\ pc' = [pc EXCEPT ![c] = "recon",
                              ![Reconciler] = IF @ = "idle" THEN ReconcileFrom
                                              ELSE @]
      BY <1>13, <2>3 DEF startTun
    <3>2. pc'[Reconciler] \in {"idle", "avail", "status"}
      BY <3>1 DEF ReconcileFrom
    <3>3. \A d \in Caller : pc'[d] = IF d = c THEN "recon" ELSE pc[d]
      BY <3>1
    <3> QED
      BY <1>13, <2>1, <2>3, <3>1, <3>2, <3>3 DEF startTun
  <2> QED
    BY <2>2, <2>3
<1>14. ASSUME NEW c \in Caller, Installed(c) PROVE Owners'
  <2>1. UNCHANGED <<op, startPromise>>
    BY <1>14 DEF Installed
  <2> QED
    BY <1>14, <2>1, StopOwners DEF Installed
<1>15. ASSUME NEW c \in Caller, StartThrows(c) PROVE Owners'
  BY <1>15 DEF StartThrows, FinishStart, Release
<1>16. ASSUME NEW c \in Caller, StartCancelled(c) PROVE Owners'
  BY <1>16 DEF StartCancelled, AtGate, Cancelled, FinishStart, Release
<1>17. ASSUME NEW c \in Caller, PassGate(c) PROVE Owners'
  <2>1. startPromise = c /\ op[c] # "none" /\ stopPromise # c
    BY <1>17 DEF PassGate, AtGate
  <2>2. PICK label \in {"cleanup", "validate"} : Goto(c, label)
    BY <1>17 DEF PassGate
  <2> QED
    BY <1>17, <2>1, <2>2, GotoOwners DEF PassGate, manager
<1>18. ASSUME NEW c \in Caller, CleanupStale(c) PROVE Owners'
  BY <1>18 DEF CleanupStale, HelperCleansUp, Goto, isAvailable, HelperStop, tracked,
     Push, Exited
<1>19. ASSUME NEW c \in Caller, Validated(c) PROVE Owners'
  <2>1. startPromise = c /\ op[c] # "none" /\ stopPromise # c
    BY <1>19 DEF Validated
  <2>2. CASE FinishStart(c)
    BY <1>19, <2>1, <2>2, FinishStartOwners DEF Validated
  <2>3. ASSUME NEW label \in {"ready", "sudo"}, Goto(c, label),
               UNCHANGED <<startPromise, op>>
        PROVE  Owners'
    BY <1>19, <2>1, <2>3, GotoOwners DEF Validated
  <2> QED
    BY <1>19, <2>2, <2>3 DEF Validated
<1>20. ASSUME NEW c \in Caller, HelperReady(c) PROVE Owners'
  BY <1>20 DEF HelperReady, isAvailable, Goto
<1>21. ASSUME NEW c \in Caller, HelperNotReady(c) PROVE Owners'
  <2>1. startPromise = c /\ op[c] # "none" /\ stopPromise # c
    BY <1>21 DEF HelperNotReady
  <2>2. CASE FinishStart(c)
    BY <1>21, <2>1, <2>2, FinishStartOwners DEF HelperNotReady
  <2>3. CASE Goto(c, "sudo") /\ UNCHANGED <<startPromise, op>>
    BY <1>21, <2>1, <2>3, GotoOwners DEF HelperNotReady
  <2> QED
    BY <1>21, <2>2, <2>3 DEF HelperNotReady
<1>22. ASSUME NEW c \in Caller, StartedByHelper(c) PROVE Owners'
  BY <1>22 DEF StartedByHelper, Replied, RollBack, Goto
<1>23. ASSUME NEW c \in Caller, HelperStartThrows(c) PROVE Owners'
  BY <1>23 DEF HelperStartThrows, Replied, FinishStart, Release
<1>24. ASSUME NEW c \in Caller, SetDns(c) PROVE Owners'
  BY <1>24 DEF SetDns, HelperDns, isAvailable, Goto
<1>25. ASSUME NEW c \in Caller, NotRunningYet(c) PROVE Owners'
  BY <1>25 DEF NotRunningYet, Replied, Goto
<1>26. ASSUME NEW c \in Caller, ConfirmedByHelper(c) PROVE Owners'
  BY <1>26 DEF ConfirmedByHelper, Replied, FinishStart, Release
<1>27. ASSUME NEW c \in Caller, SudoSettles(c) PROVE Owners'
  BY <1>27 DEF SudoSettles, PidAlive, FinishStart, Release
<1>28. ASSUME NEW t \in Task, HelperServes(t) PROVE Owners'
  BY <1>28 DEF HelperServes, RequestAt, Answer, HelperStop, tracked, Push,
     Exited
<1>29. ASSUME NEW t \in Task, HelperRefuses(t) PROVE Owners'
  BY <1>29 DEF HelperRefuses, RequestAt, Answer
<1>30. CASE Poll
  BY <1>30 DEF Poll, Goto, ReconcileFrom
<1>31. CASE BecomesAuthoritative
  BY <1>31 DEF BecomesAuthoritative, isAvailable, Goto
<1>32. CASE ReconcileByPidFile
  BY <1>32 DEF ReconcileByPidFile, isAvailable, PidAlive, Downgraded,
     ReconcileDone, Release
<1>33. CASE ReconcileByHelper
  BY <1>33 DEF ReconcileByHelper, Replied, Downgraded, ReconcileDone, Release
<1>34. CASE ReconcileFails
  BY <1>34 DEF ReconcileFails, Replied, NextFailures, ReconcileDone, Release
<1>35. CASE Subscribed
  BY <1>35 DEF Subscribed, Goto, ReconcileFrom
<1>36. CASE handleHelperEvent
  BY <1>36 DEF handleHelperEvent
<1>37. CASE PromptAccepted
  BY <1>37 DEF PromptAccepted
<1>38. CASE PromptDenied
  BY <1>38 DEF PromptDenied
<1>39. CASE WrapperSetsDns
  BY <1>39 DEF WrapperSetsDns
<1>40. CASE WrapperEnds
  BY <1>40 DEF WrapperEnds
<1>41. CASE OsascriptExit
  <2>1. ASSUME NEW c \in Caller, pc[c] = "sudo", FinishStart(c)
        PROVE  Owners'
    BY <1>41, <2>1, FinishStartOwners DEF OsascriptExit
  <2>2. CASE UNCHANGED <<status, startPromise, tasks>>
    BY <1>41, <2>2 DEF OsascriptExit, tasks
  <2> QED
    BY <1>41, <2>1, <2>2 DEF OsascriptExit
<1>42. CASE BoxDies
  BY <1>42 DEF BoxDies, Fault, Push, Exited, tracked
<1>43. CASE HelperDown
  BY <1>43 DEF HelperDown, Fault, tracked
<1>44. CASE HelperUp
  BY <1>44 DEF HelperUp
<1>45. CASE UNCHANGED vars
  BY <1>45 DEF vars
<1>46. ASSUME NEW c \in Caller, CleanupTimesOut(c) PROVE Owners'
  BY <1>46 DEF CleanupTimesOut, Fault, Goto, isAvailable, tracked
<1>47. CASE StrayCleanup
  BY <1>47 DEF StrayCleanup, HelperCleansUp, HelperStop, tracked, Push, Exited,
     isAvailable
<1>48. CASE EarlierOsascriptExit
  BY <1>48 DEF EarlierOsascriptExit, tracked
<1>49. QED
  BY <1>1, <1>2, <1>3, <1>4, <1>5, <1>6, <1>7, <1>8, <1>9, <1>10, <1>11,
     <1>12, <1>13, <1>14, <1>15, <1>16, <1>17, <1>18, <1>19, <1>20, <1>21,
     <1>22, <1>23, <1>24, <1>25, <1>26, <1>27, <1>28, <1>29, <1>30, <1>31,
     <1>32, <1>33, <1>34, <1>35, <1>36, <1>37, <1>38, <1>39, <1>40, <1>41,
     <1>42, <1>43, <1>44, <1>45, <1>46, <1>47, <1>48 DEF Next, StopStep, StartStep, ReconcileStep,
     RootStep


\* ... and WithoutHelper.
LEMMA WithoutHelperStep == IInv /\ [Next]_vars => WithoutHelper'
<1> SUFFICES ASSUME TypeOK, Owners, WithoutHelper, [Next]_vars PROVE WithoutHelper'
  BY DEF IInv
<1>0. Typed
  BY DEF TypeOK, Typed
<1> USE <1>0, CallersAreDistinct DEF Typed, WithoutHelper, Task, manager,
   tasks, world, link, root, health, history,
   boxes, handles, prompts, tracked
<1>1. ASSUME NEW c \in Caller, tun_stop(c) PROVE WithoutHelper'
  BY <1>1 DEF tun_stop, Request, stop, Goto
<1>2. ASSUME NEW c \in Caller, tun_reconnect(c) PROVE WithoutHelper'
  BY <1>2 DEF tun_reconnect, Request, stop, Goto
<1>3. ASSUME NEW c \in Caller, tun_startTun(c) PROVE WithoutHelper'
  BY <1>3 DEF tun_startTun, Request, Goto
<1>4. ASSUME NEW c \in Caller, StopProbed(c) PROVE WithoutHelper'
  BY <1>4 DEF StopProbed, Goto, isAvailable, restoreDns
<1>5. ASSUME NEW c \in Caller, StopRestoresDnsFirst(c) PROVE WithoutHelper'
  BY <1>5 DEF StopRestoresDnsFirst, Goto, HelperDns, isAvailable
<1>6. ASSUME NEW c \in Caller, StopByHelper(c) PROVE WithoutHelper'
  BY <1>6 DEF StopByHelper, Replied, FinishStop, Release
<1>7. ASSUME NEW c \in Caller, StopByHelperFails(c) PROVE WithoutHelper'
  BY <1>7 DEF StopByHelperFails, Replied, Goto
<1>8. ASSUME NEW c \in Caller, restoreSystemDns(c) PROVE WithoutHelper'
  BY <1>8 DEF restoreSystemDns, Goto, isAvailable
<1>9. ASSUME NEW c \in Caller, StopManually(c) PROVE WithoutHelper'
  BY <1>9 DEF StopManually, KillOsascript, PidAlive, Goto, FinishStop, Release
<1>10. ASSUME NEW c \in Caller, PidKilled(c) PROVE WithoutHelper'
  BY <1>10 DEF PidKilled, MayHaveDied, FinishStop, Release
<1>11. ASSUME NEW c \in Caller, PidSurvives(c) PROVE WithoutHelper'
  BY <1>11 DEF PidSurvives, PidAlive, FinishStop, Release
<1>12. ASSUME NEW c \in Caller, AfterStop(c) PROVE WithoutHelper'
  BY <1>12 DEF AfterStop, Return, Goto
<1>13. ASSUME NEW c \in Caller, startTun(c) PROVE WithoutHelper'
  BY <1>13 DEF startTun, Goto, ReconcileFrom
<1>14. ASSUME NEW c \in Caller, Installed(c) PROVE WithoutHelper'
  BY <1>14 DEF Installed, stop, Goto
<1>15. ASSUME NEW c \in Caller, StartThrows(c) PROVE WithoutHelper'
  BY <1>15 DEF StartThrows, FinishStart, Release
<1>16. ASSUME NEW c \in Caller, StartCancelled(c) PROVE WithoutHelper'
  BY <1>16 DEF StartCancelled, AtGate, Cancelled, FinishStart, Release
<1>17. ASSUME NEW c \in Caller, PassGate(c) PROVE WithoutHelper'
  BY <1>17 DEF PassGate, AtGate, Cancelled, Goto
<1>18. ASSUME NEW c \in Caller, CleanupStale(c) PROVE WithoutHelper'
  BY <1>18 DEF CleanupStale, HelperCleansUp, Goto, isAvailable, HelperStop, tracked,
     Push, Exited
<1>19. ASSUME NEW c \in Caller, Validated(c) PROVE WithoutHelper'
  BY <1>19 DEF Validated, Cancelled, FinishStart, Release, Goto,
     SpawnOsascript
<1>20. ASSUME NEW c \in Caller, HelperReady(c) PROVE WithoutHelper'
  <2>1. setup = "helper"
    BY <1>20, SetupsAreSetups DEF HelperReady, isAvailable, TypeOK, Setup
  <2> QED
    BY <1>20, <2>1 DEF HelperReady, Goto
<1>21. ASSUME NEW c \in Caller, HelperNotReady(c) PROVE WithoutHelper'
  BY <1>21 DEF HelperNotReady, isAvailable, FinishStart, Release, Goto,
     SpawnOsascript
<1>22. ASSUME NEW c \in Caller, StartedByHelper(c) PROVE WithoutHelper'
  BY <1>22 DEF StartedByHelper, Replied, RollBack, Goto
<1>23. ASSUME NEW c \in Caller, HelperStartThrows(c) PROVE WithoutHelper'
  BY <1>23 DEF HelperStartThrows, Replied, FinishStart, Release
<1>24. ASSUME NEW c \in Caller, SetDns(c) PROVE WithoutHelper'
  BY <1>24 DEF SetDns, HelperDns, isAvailable, Goto
<1>25. ASSUME NEW c \in Caller, NotRunningYet(c) PROVE WithoutHelper'
  BY <1>25 DEF NotRunningYet, Replied, Goto
<1>26. ASSUME NEW c \in Caller, ConfirmedByHelper(c) PROVE WithoutHelper'
  BY <1>26 DEF ConfirmedByHelper, Replied, FinishStart, Release
<1>27. ASSUME NEW c \in Caller, SudoSettles(c) PROVE WithoutHelper'
  BY <1>27 DEF SudoSettles, PidAlive, FinishStart, Release
<1>28. ASSUME NEW t \in Task, HelperServes(t) PROVE WithoutHelper'
  <2>1. pc[t] = "start" => setup = "helper"
    BY DEF Owners
  <2>2. setup # "helper" => ~tracked'
    <3>1. CASE RequestAt[pc[t]] # "start"
      BY <1>28, <3>1 DEF HelperServes, HelperStop
    <3>2. CASE RequestAt[pc[t]] = "start"
      <4>1. pc[t] = "start"
        BY <1>28, <3>2 DEF HelperServes, RequestAt
      <4> QED
        BY <2>1, <4>1
    <3> QED
      BY <3>1, <3>2
  <2>3. helper = "up" /\ UNCHANGED <<pc, setup, helper>>
    BY <1>28 DEF HelperServes
  <2> QED
    BY <2>2, <2>3
<1>29. ASSUME NEW t \in Task, HelperRefuses(t) PROVE WithoutHelper'
  BY <1>29 DEF HelperRefuses, RequestAt, Answer
<1>30. CASE Poll
  BY <1>30 DEF Poll, Goto, ReconcileFrom
<1>31. CASE BecomesAuthoritative
  BY <1>31 DEF BecomesAuthoritative, isAvailable, Goto
<1>32. CASE ReconcileByPidFile
  BY <1>32 DEF ReconcileByPidFile, isAvailable, PidAlive, Downgraded,
     ReconcileDone, Release
<1>33. CASE ReconcileByHelper
  BY <1>33 DEF ReconcileByHelper, Replied, Downgraded, ReconcileDone, Release
<1>34. CASE ReconcileFails
  BY <1>34 DEF ReconcileFails, Replied, NextFailures, ReconcileDone, Release
<1>35. CASE Subscribed
  BY <1>35 DEF Subscribed, Goto, ReconcileFrom
<1>36. CASE handleHelperEvent
  BY <1>36 DEF handleHelperEvent
<1>37. CASE PromptAccepted
  BY <1>37 DEF PromptAccepted
<1>38. CASE PromptDenied
  BY <1>38 DEF PromptDenied
<1>39. CASE WrapperSetsDns
  BY <1>39 DEF WrapperSetsDns
<1>40. CASE WrapperEnds
  BY <1>40 DEF WrapperEnds
<1>41. CASE OsascriptExit
  BY <1>41 DEF OsascriptExit, PidAlive, FinishStart, Release
<1>42. CASE BoxDies
  BY <1>42 DEF BoxDies, Fault, Push, Exited, tracked
<1>43. CASE HelperDown
  BY <1>43 DEF HelperDown, Fault, tracked
<1>44. CASE HelperUp
  BY <1>44 DEF HelperUp
<1>45. CASE UNCHANGED vars
  BY <1>45 DEF vars
<1>46. ASSUME NEW c \in Caller, CleanupTimesOut(c) PROVE WithoutHelper'
  BY <1>46 DEF CleanupTimesOut, Fault, Goto, isAvailable, tracked
<1>47. CASE StrayCleanup
  BY <1>47 DEF StrayCleanup, HelperCleansUp, HelperStop, tracked, Push, Exited,
     isAvailable
<1>48. CASE EarlierOsascriptExit
  BY <1>48 DEF EarlierOsascriptExit, tracked
<1>49. QED
  BY <1>1, <1>2, <1>3, <1>4, <1>5, <1>6, <1>7, <1>8, <1>9, <1>10, <1>11,
     <1>12, <1>13, <1>14, <1>15, <1>16, <1>17, <1>18, <1>19, <1>20, <1>21,
     <1>22, <1>23, <1>24, <1>25, <1>26, <1>27, <1>28, <1>29, <1>30, <1>31,
     <1>32, <1>33, <1>34, <1>35, <1>36, <1>37, <1>38, <1>39, <1>40, <1>41,
     <1>42, <1>43, <1>44, <1>45, <1>46, <1>47, <1>48 DEF Next, StopStep, StartStep, ReconcileStep,
     RootStep


\* TypeOK in four parts, which the provers take one at a time.
LEMMA TypeOKIsTyped == TypeOK <=> Typed /\ StatesTyped /\ FlagsTyped /\ CountersTyped
  BY DEF TypeOK, Typed, StatesTyped, FlagsTyped, CountersTyped

\* PcLabel without the DOMAIN.
LEMMA Labels ==
  PcLabel = {"status", "s_stop", "verify", "start", "rollback", "verify2",
             "idle", "pre", "join", "recon", "install", "cleanup", "cleaned",
             "validate", "ready", "set_dns", "sudo", "s_join", "s_avail",
             "s_dns", "m_dns", "s_kill", "s_wait", "stopped", "stop_failed",
             "avail"}
  BY DEF PcLabel, RequestAt

\* Release keeps the types of pc and reply.
LEMMA ReleaseTyped ==
  ASSUME Typed, NEW t \in Task, NEW tnext \in PcLabel, NEW label,
         NEW next \in PcLabel, Release(t, tnext, label, next)
  PROVE  /\ pc' \in [Task -> PcLabel]
         /\ reply' \in [Task -> {None, "ok", "error", "running", "not_running"}]
  BY DEF Typed, Release

\* Pushed events are events.
LEMMA PushTyped ==
  ASSUME events \in Seq({"started", "exited"}),
         NEW evs \in Seq({"started", "exited"}), Push(evs)
  PROVE  events' \in Seq({"started", "exited"})
  BY DEF Push

\* ... and Exited is a sequence of them.
LEMMA ExitedTyped == Exited \in Seq({"started", "exited"})
<1>1. CASE tracked
  BY <1>1 DEF Exited
<1>2. CASE ~tracked
  BY <1>2 DEF Exited
<1> QED
  BY <1>1, <1>2


\* The types of the promises and of the callers.
LEMMA TypedStep == IInv /\ [Next]_vars => Typed'
<1> SUFFICES ASSUME TypeOK, Owners, [Next]_vars PROVE Typed'
  BY DEF IInv
<1>0. Typed
  BY DEF TypeOK, Typed
<1> USE <1>0, CallersAreDistinct, Labels DEF Typed, Task, manager, tasks,
   world, link, root, health, history,
   boxes, handles, prompts
<1>1. ASSUME NEW c \in Caller, tun_stop(c) PROVE Typed'
  BY <1>1 DEF tun_stop, Request, stop, Goto
<1>2. ASSUME NEW c \in Caller, tun_reconnect(c) PROVE Typed'
  BY <1>2 DEF tun_reconnect, Request, stop, Goto
<1>3. ASSUME NEW c \in Caller, tun_startTun(c) PROVE Typed'
  BY <1>3 DEF tun_startTun, Request, Goto
<1>4. ASSUME NEW c \in Caller, StopProbed(c) PROVE Typed'
  BY <1>4 DEF StopProbed, Goto, isAvailable, restoreDns
<1>5. ASSUME NEW c \in Caller, StopRestoresDnsFirst(c) PROVE Typed'
  BY <1>5 DEF StopRestoresDnsFirst, Goto, HelperDns, isAvailable
<1>6. ASSUME NEW c \in Caller, StopByHelper(c) PROVE Typed'
  BY <1>6 DEF StopByHelper, Replied, FinishStop, Release
<1>7. ASSUME NEW c \in Caller, StopByHelperFails(c) PROVE Typed'
  BY <1>7 DEF StopByHelperFails, Replied, Goto
<1>8. ASSUME NEW c \in Caller, restoreSystemDns(c) PROVE Typed'
  BY <1>8 DEF restoreSystemDns, Goto, isAvailable
<1>9. ASSUME NEW c \in Caller, StopManually(c) PROVE Typed'
  <2>1. CASE Goto(c, "s_wait") /\ UNCHANGED stopPromise
    BY <1>9, <2>1 DEF StopManually, Goto
  <2>2. CASE FinishStop(c, "stopped")
    BY <1>9, <2>2, ReleaseTyped DEF StopManually, FinishStop
  <2> QED
    BY <1>9, <2>1, <2>2 DEF StopManually
<1>10. ASSUME NEW c \in Caller, PidKilled(c) PROVE Typed'
  BY <1>10 DEF PidKilled, MayHaveDied, FinishStop, Release
<1>11. ASSUME NEW c \in Caller, PidSurvives(c) PROVE Typed'
  BY <1>11 DEF PidSurvives, PidAlive, FinishStop, Release
<1>12. ASSUME NEW c \in Caller, AfterStop(c) PROVE Typed'
  BY <1>12 DEF AfterStop, Return, Goto
<1>13. ASSUME NEW c \in Caller, startTun(c) PROVE Typed'
  BY <1>13 DEF startTun, Goto, ReconcileFrom
<1>14. ASSUME NEW c \in Caller, Installed(c) PROVE Typed'
  BY <1>14 DEF Installed, stop, Goto
<1>15. ASSUME NEW c \in Caller, StartThrows(c) PROVE Typed'
  BY <1>15 DEF StartThrows, FinishStart, Release
<1>16. ASSUME NEW c \in Caller, StartCancelled(c) PROVE Typed'
  BY <1>16 DEF StartCancelled, AtGate, Cancelled, FinishStart, Release
<1>17. ASSUME NEW c \in Caller, PassGate(c) PROVE Typed'
  BY <1>17 DEF PassGate, AtGate, Cancelled, Goto
<1>18. ASSUME NEW c \in Caller, CleanupStale(c) PROVE Typed'
  BY <1>18 DEF CleanupStale, HelperCleansUp, Goto, isAvailable, HelperStop, tracked,
     Push, Exited
<1>19. ASSUME NEW c \in Caller, Validated(c) PROVE Typed'
  <2>1. CASE FinishStart(c)
    BY <1>19, <2>1, ReleaseTyped DEF Validated, FinishStart
  <2>2. ASSUME NEW label \in {"ready", "sudo"}, Goto(c, label),
               UNCHANGED <<startPromise, op>>
        PROVE  Typed'
    BY <1>19, <2>2 DEF Validated, Goto
  <2> QED
    BY <1>19, <2>1, <2>2 DEF Validated
<1>20. ASSUME NEW c \in Caller, HelperReady(c) PROVE Typed'
  BY <1>20 DEF HelperReady, isAvailable, Goto
<1>21. ASSUME NEW c \in Caller, HelperNotReady(c) PROVE Typed'
  <2>1. CASE FinishStart(c)
    BY <1>21, <2>1, ReleaseTyped DEF HelperNotReady, FinishStart
  <2>2. CASE Goto(c, "sudo") /\ UNCHANGED <<startPromise, op>>
    BY <1>21, <2>2 DEF HelperNotReady, Goto
  <2> QED
    BY <1>21, <2>1, <2>2 DEF HelperNotReady
<1>22. ASSUME NEW c \in Caller, StartedByHelper(c) PROVE Typed'
  BY <1>22 DEF StartedByHelper, Replied, RollBack, Goto
<1>23. ASSUME NEW c \in Caller, HelperStartThrows(c) PROVE Typed'
  BY <1>23 DEF HelperStartThrows, Replied, FinishStart, Release
<1>24. ASSUME NEW c \in Caller, SetDns(c) PROVE Typed'
  BY <1>24 DEF SetDns, HelperDns, isAvailable, Goto
<1>25. ASSUME NEW c \in Caller, NotRunningYet(c) PROVE Typed'
  BY <1>25 DEF NotRunningYet, Replied, Goto
<1>26. ASSUME NEW c \in Caller, ConfirmedByHelper(c) PROVE Typed'
  BY <1>26 DEF ConfirmedByHelper, Replied, FinishStart, Release
<1>27. ASSUME NEW c \in Caller, SudoSettles(c) PROVE Typed'
  BY <1>27 DEF SudoSettles, PidAlive, FinishStart, Release
<1>28. ASSUME NEW t \in Task, HelperServes(t) PROVE Typed'
  BY <1>28 DEF HelperServes, RequestAt, Answer, HelperStop, tracked, Push,
     Exited
<1>29. ASSUME NEW t \in Task, HelperRefuses(t) PROVE Typed'
  BY <1>29 DEF HelperRefuses, RequestAt, Answer
<1>30. CASE Poll
  BY <1>30 DEF Poll, Goto, ReconcileFrom
<1>31. CASE BecomesAuthoritative
  BY <1>31 DEF BecomesAuthoritative, isAvailable, Goto
<1>32. CASE ReconcileByPidFile
  BY <1>32 DEF ReconcileByPidFile, isAvailable, PidAlive, Downgraded,
     ReconcileDone, Release
<1>33. CASE ReconcileByHelper
  BY <1>33 DEF ReconcileByHelper, Replied, Downgraded, ReconcileDone, Release
<1>34. CASE ReconcileFails
  BY <1>34 DEF ReconcileFails, Replied, NextFailures, ReconcileDone, Release
<1>35. CASE Subscribed
  BY <1>35 DEF Subscribed, Goto, ReconcileFrom
<1>36. CASE handleHelperEvent
  BY <1>36 DEF handleHelperEvent
<1>37. CASE PromptAccepted
  BY <1>37 DEF PromptAccepted
<1>38. CASE PromptDenied
  BY <1>38 DEF PromptDenied
<1>39. CASE WrapperSetsDns
  BY <1>39 DEF WrapperSetsDns
<1>40. CASE WrapperEnds
  BY <1>40 DEF WrapperEnds
<1>41. CASE OsascriptExit
  <2>1. ASSUME NEW c \in Caller, FinishStart(c)
        PROVE  Typed'
    BY <1>41, <2>1, ReleaseTyped DEF OsascriptExit, FinishStart
  <2>2. CASE UNCHANGED <<status, startPromise, tasks>>
    BY <1>41, <2>2 DEF OsascriptExit
  <2> QED
    BY <1>41, <2>1, <2>2 DEF OsascriptExit
<1>42. CASE BoxDies
  BY <1>42 DEF BoxDies, Fault, Push, Exited, tracked
<1>43. CASE HelperDown
  BY <1>43 DEF HelperDown, Fault, tracked
<1>44. CASE HelperUp
  BY <1>44 DEF HelperUp
<1>45. CASE UNCHANGED vars
  BY <1>45 DEF vars
<1>46. ASSUME NEW c \in Caller, CleanupTimesOut(c) PROVE Typed'
  BY <1>46 DEF CleanupTimesOut, Fault, Goto, isAvailable, tracked
<1>47. CASE StrayCleanup
  BY <1>47 DEF StrayCleanup, HelperCleansUp, HelperStop, tracked, Push, Exited,
     isAvailable
<1>48. CASE EarlierOsascriptExit
  BY <1>48 DEF EarlierOsascriptExit, tracked
<1>49. QED
  BY <1>1, <1>2, <1>3, <1>4, <1>5, <1>6, <1>7, <1>8, <1>9, <1>10, <1>11,
     <1>12, <1>13, <1>14, <1>15, <1>16, <1>17, <1>18, <1>19, <1>20, <1>21,
     <1>22, <1>23, <1>24, <1>25, <1>26, <1>27, <1>28, <1>29, <1>30, <1>31,
     <1>32, <1>33, <1>34, <1>35, <1>36, <1>37, <1>38, <1>39, <1>40, <1>41,
     <1>42, <1>43, <1>44, <1>45, <1>46, <1>47, <1>48 DEF Next, StopStep, StartStep, ReconcileStep,
     RootStep


\* The types of the flags ...
LEMMA FlagsTypedStep == IInv /\ [Next]_vars => FlagsTyped'
<1> SUFFICES ASSUME TypeOK, [Next]_vars PROVE FlagsTyped'
  BY DEF IInv
<1>0. FlagsTyped
  BY DEF TypeOK, FlagsTyped
<1> USE <1>0, BoundsAreNat DEF FlagsTyped, manager, tasks, world, link, root, health, history,
   boxes, handles, prompts
<1>1. ASSUME NEW c \in Caller, tun_stop(c) PROVE FlagsTyped'
  BY <1>1 DEF tun_stop, Request, stop, Goto
<1>2. ASSUME NEW c \in Caller, tun_reconnect(c) PROVE FlagsTyped'
  BY <1>2 DEF tun_reconnect, Request, stop, Goto
<1>3. ASSUME NEW c \in Caller, tun_startTun(c) PROVE FlagsTyped'
  BY <1>3 DEF tun_startTun, Request, Goto
<1>4. ASSUME NEW c \in Caller, StopProbed(c) PROVE FlagsTyped'
  BY <1>4 DEF StopProbed, Goto, isAvailable, restoreDns
<1>5. ASSUME NEW c \in Caller, StopRestoresDnsFirst(c) PROVE FlagsTyped'
  BY <1>5 DEF StopRestoresDnsFirst, Goto, HelperDns, isAvailable
<1>6. ASSUME NEW c \in Caller, StopByHelper(c) PROVE FlagsTyped'
  BY <1>6 DEF StopByHelper
<1>7. ASSUME NEW c \in Caller, StopByHelperFails(c) PROVE FlagsTyped'
  BY <1>7 DEF StopByHelperFails, Replied, Goto
<1>8. ASSUME NEW c \in Caller, restoreSystemDns(c) PROVE FlagsTyped'
  BY <1>8 DEF restoreSystemDns
<1>9. ASSUME NEW c \in Caller, StopManually(c) PROVE FlagsTyped'
  BY <1>9 DEF StopManually, KillOsascript
<1>10. ASSUME NEW c \in Caller, PidKilled(c) PROVE FlagsTyped'
  BY <1>10 DEF PidKilled, MayHaveDied
<1>11. ASSUME NEW c \in Caller, PidSurvives(c) PROVE FlagsTyped'
  BY <1>11 DEF PidSurvives, PidAlive, FinishStop, Release
<1>12. ASSUME NEW c \in Caller, AfterStop(c) PROVE FlagsTyped'
  BY <1>12 DEF AfterStop, Return, Goto
<1>13. ASSUME NEW c \in Caller, startTun(c) PROVE FlagsTyped'
  BY <1>13 DEF startTun
<1>14. ASSUME NEW c \in Caller, Installed(c) PROVE FlagsTyped'
  BY <1>14 DEF Installed, stop, Goto
<1>15. ASSUME NEW c \in Caller, StartThrows(c) PROVE FlagsTyped'
  BY <1>15 DEF StartThrows, FinishStart, Release
<1>16. ASSUME NEW c \in Caller, StartCancelled(c) PROVE FlagsTyped'
  BY <1>16 DEF StartCancelled, AtGate, Cancelled, FinishStart, Release
<1>17. ASSUME NEW c \in Caller, PassGate(c) PROVE FlagsTyped'
  BY <1>17 DEF PassGate, AtGate, Cancelled, Goto
<1>18. ASSUME NEW c \in Caller, CleanupStale(c) PROVE FlagsTyped'
  BY <1>18 DEF CleanupStale, HelperCleansUp, HelperStop
<1>19. ASSUME NEW c \in Caller, Validated(c) PROVE FlagsTyped'
  BY <1>19 DEF Validated, SpawnOsascript
<1>20. ASSUME NEW c \in Caller, HelperReady(c) PROVE FlagsTyped'
  BY <1>20 DEF HelperReady, isAvailable, Goto
<1>21. ASSUME NEW c \in Caller, HelperNotReady(c) PROVE FlagsTyped'
  BY <1>21 DEF HelperNotReady, SpawnOsascript
<1>22. ASSUME NEW c \in Caller, StartedByHelper(c) PROVE FlagsTyped'
  BY <1>22 DEF StartedByHelper, Replied, RollBack, Goto
<1>23. ASSUME NEW c \in Caller, HelperStartThrows(c) PROVE FlagsTyped'
  BY <1>23 DEF HelperStartThrows, Replied, FinishStart, Release
<1>24. ASSUME NEW c \in Caller, SetDns(c) PROVE FlagsTyped'
  BY <1>24 DEF SetDns, HelperDns, isAvailable, Goto
<1>25. ASSUME NEW c \in Caller, NotRunningYet(c) PROVE FlagsTyped'
  BY <1>25 DEF NotRunningYet, Replied, Goto
<1>26. ASSUME NEW c \in Caller, ConfirmedByHelper(c) PROVE FlagsTyped'
  BY <1>26 DEF ConfirmedByHelper, Replied, FinishStart, Release
<1>27. ASSUME NEW c \in Caller, SudoSettles(c) PROVE FlagsTyped'
  BY <1>27 DEF SudoSettles, PidAlive, FinishStart, Release
<1>28. ASSUME NEW t \in Task, HelperServes(t) PROVE FlagsTyped'
  BY <1>28 DEF HelperServes, HelperStop
<1>29. ASSUME NEW t \in Task, HelperRefuses(t) PROVE FlagsTyped'
  BY <1>29 DEF HelperRefuses, RequestAt, Answer
<1>30. CASE Poll
  BY <1>30 DEF Poll, Goto, ReconcileFrom
<1>31. CASE BecomesAuthoritative
  BY <1>31 DEF BecomesAuthoritative, isAvailable, Goto
<1>32. CASE ReconcileByPidFile
  BY <1>32 DEF ReconcileByPidFile, isAvailable, PidAlive, Downgraded,
     ReconcileDone, Release
<1>33. CASE ReconcileByHelper
  BY <1>33 DEF ReconcileByHelper, Replied, Downgraded, ReconcileDone, Release
<1>34. CASE ReconcileFails
  BY <1>34 DEF ReconcileFails, Replied, NextFailures, ReconcileDone, Release
<1>35. CASE Subscribed
  BY <1>35 DEF Subscribed, Goto, ReconcileFrom
<1>36. CASE handleHelperEvent
  BY <1>36 DEF handleHelperEvent
<1>37. CASE PromptAccepted
  BY <1>37 DEF PromptAccepted
<1>38. CASE PromptDenied
  BY <1>38 DEF PromptDenied
<1>39. CASE WrapperSetsDns
  BY <1>39 DEF WrapperSetsDns
<1>40. CASE WrapperEnds
  BY <1>40 DEF WrapperEnds
<1>41. CASE OsascriptExit
  BY <1>41 DEF OsascriptExit, PidAlive, FinishStart, Release
<1>42. CASE BoxDies
  BY <1>42 DEF BoxDies
<1>43. CASE HelperDown
  BY <1>43 DEF HelperDown, Fault, tracked
<1>44. CASE HelperUp
  BY <1>44 DEF HelperUp
<1>45. CASE UNCHANGED vars
  BY <1>45 DEF vars
<1>46. ASSUME NEW c \in Caller, CleanupTimesOut(c) PROVE FlagsTyped'
  BY <1>46 DEF CleanupTimesOut, Fault, Goto, isAvailable, tracked
<1>47. CASE StrayCleanup
  BY <1>47 DEF StrayCleanup, HelperCleansUp, HelperStop, tracked, Push, Exited,
     isAvailable
<1>48. CASE EarlierOsascriptExit
  BY <1>48 DEF EarlierOsascriptExit, tracked
<1>49. QED
  BY <1>1, <1>2, <1>3, <1>4, <1>5, <1>6, <1>7, <1>8, <1>9, <1>10, <1>11,
     <1>12, <1>13, <1>14, <1>15, <1>16, <1>17, <1>18, <1>19, <1>20, <1>21,
     <1>22, <1>23, <1>24, <1>25, <1>26, <1>27, <1>28, <1>29, <1>30, <1>31,
     <1>32, <1>33, <1>34, <1>35, <1>36, <1>37, <1>38, <1>39, <1>40, <1>41,
     <1>42, <1>43, <1>44, <1>45, <1>46, <1>47, <1>48 DEF Next, StopStep, StartStep, ReconcileStep,
     RootStep


\* ... of the states of status, helper and osascript ...
LEMMA StatesTypedStep == IInv /\ [Next]_vars => StatesTyped'
<1> SUFFICES ASSUME TypeOK, [Next]_vars PROVE StatesTyped'
  BY DEF IInv
<1>0. StatesTyped
  BY DEF TypeOK, StatesTyped
<1> USE <1>0, BoundsAreNat DEF StatesTyped, manager, tasks, world, link, root, health, history,
   boxes, handles, prompts
<1>1. ASSUME NEW c \in Caller, tun_stop(c) PROVE StatesTyped'
  BY <1>1 DEF tun_stop, Request, stop, Goto
<1>2. ASSUME NEW c \in Caller, tun_reconnect(c) PROVE StatesTyped'
  BY <1>2 DEF tun_reconnect, Request, stop, Goto
<1>3. ASSUME NEW c \in Caller, tun_startTun(c) PROVE StatesTyped'
  BY <1>3 DEF tun_startTun, Request, Goto
<1>4. ASSUME NEW c \in Caller, StopProbed(c) PROVE StatesTyped'
  BY <1>4 DEF StopProbed, Goto, isAvailable, restoreDns
<1>5. ASSUME NEW c \in Caller, StopRestoresDnsFirst(c) PROVE StatesTyped'
  BY <1>5 DEF StopRestoresDnsFirst, Goto, HelperDns, isAvailable
<1>6. ASSUME NEW c \in Caller, StopByHelper(c) PROVE StatesTyped'
  BY <1>6 DEF StopByHelper
<1>7. ASSUME NEW c \in Caller, StopByHelperFails(c) PROVE StatesTyped'
  BY <1>7 DEF StopByHelperFails, Replied, Goto
<1>8. ASSUME NEW c \in Caller, restoreSystemDns(c) PROVE StatesTyped'
  BY <1>8 DEF restoreSystemDns
<1>9. ASSUME NEW c \in Caller, StopManually(c) PROVE StatesTyped'
  BY <1>9 DEF StopManually, KillOsascript
<1>10. ASSUME NEW c \in Caller, PidKilled(c) PROVE StatesTyped'
  BY <1>10 DEF PidKilled, MayHaveDied
<1>11. ASSUME NEW c \in Caller, PidSurvives(c) PROVE StatesTyped'
  BY <1>11 DEF PidSurvives, PidAlive, FinishStop, Release
<1>12. ASSUME NEW c \in Caller, AfterStop(c) PROVE StatesTyped'
  BY <1>12 DEF AfterStop, Return, Goto
<1>13. ASSUME NEW c \in Caller, startTun(c) PROVE StatesTyped'
  BY <1>13 DEF startTun
<1>14. ASSUME NEW c \in Caller, Installed(c) PROVE StatesTyped'
  BY <1>14 DEF Installed, stop, Goto
<1>15. ASSUME NEW c \in Caller, StartThrows(c) PROVE StatesTyped'
  BY <1>15 DEF StartThrows, FinishStart, Release
<1>16. ASSUME NEW c \in Caller, StartCancelled(c) PROVE StatesTyped'
  BY <1>16 DEF StartCancelled, AtGate, Cancelled, FinishStart, Release
<1>17. ASSUME NEW c \in Caller, PassGate(c) PROVE StatesTyped'
  BY <1>17 DEF PassGate, AtGate, Cancelled, Goto
<1>18. ASSUME NEW c \in Caller, CleanupStale(c) PROVE StatesTyped'
  BY <1>18 DEF CleanupStale, HelperCleansUp, HelperStop
<1>19. ASSUME NEW c \in Caller, Validated(c) PROVE StatesTyped'
  BY <1>19 DEF Validated, SpawnOsascript
<1>20. ASSUME NEW c \in Caller, HelperReady(c) PROVE StatesTyped'
  BY <1>20 DEF HelperReady, isAvailable, Goto
<1>21. ASSUME NEW c \in Caller, HelperNotReady(c) PROVE StatesTyped'
  BY <1>21 DEF HelperNotReady, SpawnOsascript
<1>22. ASSUME NEW c \in Caller, StartedByHelper(c) PROVE StatesTyped'
  BY <1>22 DEF StartedByHelper, Replied, RollBack, Goto
<1>23. ASSUME NEW c \in Caller, HelperStartThrows(c) PROVE StatesTyped'
  BY <1>23 DEF HelperStartThrows, Replied, FinishStart, Release
<1>24. ASSUME NEW c \in Caller, SetDns(c) PROVE StatesTyped'
  BY <1>24 DEF SetDns, HelperDns, isAvailable, Goto
<1>25. ASSUME NEW c \in Caller, NotRunningYet(c) PROVE StatesTyped'
  BY <1>25 DEF NotRunningYet, Replied, Goto
<1>26. ASSUME NEW c \in Caller, ConfirmedByHelper(c) PROVE StatesTyped'
  BY <1>26 DEF ConfirmedByHelper, Replied, FinishStart, Release
<1>27. ASSUME NEW c \in Caller, SudoSettles(c) PROVE StatesTyped'
  BY <1>27 DEF SudoSettles, PidAlive, FinishStart, Release
<1>28. ASSUME NEW t \in Task, HelperServes(t) PROVE StatesTyped'
  BY <1>28 DEF HelperServes, HelperStop
<1>29. ASSUME NEW t \in Task, HelperRefuses(t) PROVE StatesTyped'
  BY <1>29 DEF HelperRefuses, RequestAt, Answer
<1>30. CASE Poll
  BY <1>30 DEF Poll, Goto, ReconcileFrom
<1>31. CASE BecomesAuthoritative
  BY <1>31 DEF BecomesAuthoritative, isAvailable, Goto
<1>32. CASE ReconcileByPidFile
  BY <1>32 DEF ReconcileByPidFile, isAvailable, PidAlive, Downgraded,
     ReconcileDone, Release
<1>33. CASE ReconcileByHelper
  BY <1>33 DEF ReconcileByHelper, Replied, Downgraded, ReconcileDone, Release
<1>34. CASE ReconcileFails
  BY <1>34 DEF ReconcileFails, Replied, NextFailures, ReconcileDone, Release
<1>35. CASE Subscribed
  BY <1>35 DEF Subscribed, Goto, ReconcileFrom
<1>36. CASE handleHelperEvent
  BY <1>36 DEF handleHelperEvent
<1>37. CASE PromptAccepted
  BY <1>37 DEF PromptAccepted
<1>38. CASE PromptDenied
  BY <1>38 DEF PromptDenied
<1>39. CASE WrapperSetsDns
  BY <1>39 DEF WrapperSetsDns
<1>40. CASE WrapperEnds
  BY <1>40 DEF WrapperEnds
<1>41. CASE OsascriptExit
  BY <1>41 DEF OsascriptExit, PidAlive, FinishStart, Release
<1>42. CASE BoxDies
  BY <1>42 DEF BoxDies
<1>43. CASE HelperDown
  BY <1>43 DEF HelperDown, Fault, tracked
<1>44. CASE HelperUp
  BY <1>44 DEF HelperUp
<1>45. CASE UNCHANGED vars
  BY <1>45 DEF vars
<1>46. ASSUME NEW c \in Caller, CleanupTimesOut(c) PROVE StatesTyped'
  BY <1>46 DEF CleanupTimesOut, Fault, Goto, isAvailable, tracked
<1>47. CASE StrayCleanup
  BY <1>47 DEF StrayCleanup, HelperCleansUp, HelperStop, tracked, Push, Exited,
     isAvailable
<1>48. CASE EarlierOsascriptExit
  BY <1>48 DEF EarlierOsascriptExit, tracked
<1>49. QED
  BY <1>1, <1>2, <1>3, <1>4, <1>5, <1>6, <1>7, <1>8, <1>9, <1>10, <1>11,
     <1>12, <1>13, <1>14, <1>15, <1>16, <1>17, <1>18, <1>19, <1>20, <1>21,
     <1>22, <1>23, <1>24, <1>25, <1>26, <1>27, <1>28, <1>29, <1>30, <1>31,
     <1>32, <1>33, <1>34, <1>35, <1>36, <1>37, <1>38, <1>39, <1>40, <1>41,
     <1>42, <1>43, <1>44, <1>45, <1>46, <1>47, <1>48 DEF Next, StopStep, StartStep, ReconcileStep,
     RootStep


\* ... and of counters, events and DNS overrides.
LEMMA CountersTypedStep == IInv /\ [Next]_vars => CountersTyped'
<1> SUFFICES ASSUME TypeOK, [Next]_vars PROVE CountersTyped'
  BY DEF IInv
<1>0. CountersTyped
  BY DEF TypeOK, CountersTyped
<1> USE <1>0, BoundsAreNat DEF CountersTyped, manager, tasks, world, link, root, health, history,
   boxes, handles, prompts
<1>1. ASSUME NEW c \in Caller, tun_stop(c) PROVE CountersTyped'
  BY <1>1 DEF tun_stop, Request, stop, Goto
<1>2. ASSUME NEW c \in Caller, tun_reconnect(c) PROVE CountersTyped'
  BY <1>2 DEF tun_reconnect, Request, stop, Goto
<1>3. ASSUME NEW c \in Caller, tun_startTun(c) PROVE CountersTyped'
  BY <1>3 DEF tun_startTun, Request, Goto
<1>4. ASSUME NEW c \in Caller, StopProbed(c) PROVE CountersTyped'
  BY <1>4 DEF StopProbed, Goto, isAvailable, restoreDns
<1>5. ASSUME NEW c \in Caller, StopRestoresDnsFirst(c) PROVE CountersTyped'
  BY <1>5 DEF StopRestoresDnsFirst, Goto, HelperDns, isAvailable, restore_dns
<1>6. ASSUME NEW c \in Caller, StopByHelper(c) PROVE CountersTyped'
  BY <1>6 DEF StopByHelper, Replied, FinishStop, Release
<1>7. ASSUME NEW c \in Caller, StopByHelperFails(c) PROVE CountersTyped'
  BY <1>7 DEF StopByHelperFails, Replied, Goto
<1>8. ASSUME NEW c \in Caller, restoreSystemDns(c) PROVE CountersTyped'
  BY <1>8 DEF restoreSystemDns, Goto, isAvailable, restore_dns
<1>9. ASSUME NEW c \in Caller, StopManually(c) PROVE CountersTyped'
  BY <1>9 DEF StopManually, KillOsascript, PidAlive, Goto, FinishStop, Release
<1>10. ASSUME NEW c \in Caller, PidKilled(c) PROVE CountersTyped'
  BY <1>10 DEF PidKilled, MayHaveDied, FinishStop, Release
<1>11. ASSUME NEW c \in Caller, PidSurvives(c) PROVE CountersTyped'
  BY <1>11 DEF PidSurvives, PidAlive, FinishStop, Release
<1>12. ASSUME NEW c \in Caller, AfterStop(c) PROVE CountersTyped'
  BY <1>12 DEF AfterStop, Return, Goto
<1>13. ASSUME NEW c \in Caller, startTun(c) PROVE CountersTyped'
  BY <1>13 DEF startTun, Goto, ReconcileFrom
<1>14. ASSUME NEW c \in Caller, Installed(c) PROVE CountersTyped'
  BY <1>14 DEF Installed, stop, Goto
<1>15. ASSUME NEW c \in Caller, StartThrows(c) PROVE CountersTyped'
  BY <1>15 DEF StartThrows, FinishStart, Release
<1>16. ASSUME NEW c \in Caller, StartCancelled(c) PROVE CountersTyped'
  BY <1>16 DEF StartCancelled, AtGate, Cancelled, FinishStart, Release
<1>17. ASSUME NEW c \in Caller, PassGate(c) PROVE CountersTyped'
  BY <1>17 DEF PassGate, AtGate, Cancelled, Goto
<1>18. ASSUME NEW c \in Caller, CleanupStale(c) PROVE CountersTyped'
  BY <1>18, PushTyped, ExitedTyped DEF CleanupStale, HelperCleansUp, HelperStop, restore_dns
<1>19. ASSUME NEW c \in Caller, Validated(c) PROVE CountersTyped'
  BY <1>19 DEF Validated, Cancelled, FinishStart, Release, Goto,
     SpawnOsascript
<1>20. ASSUME NEW c \in Caller, HelperReady(c) PROVE CountersTyped'
  BY <1>20 DEF HelperReady, isAvailable, Goto
<1>21. ASSUME NEW c \in Caller, HelperNotReady(c) PROVE CountersTyped'
  BY <1>21 DEF HelperNotReady, isAvailable, FinishStart, Release, Goto,
     SpawnOsascript
<1>22. ASSUME NEW c \in Caller, StartedByHelper(c) PROVE CountersTyped'
  BY <1>22 DEF StartedByHelper, Replied, RollBack, Goto
<1>23. ASSUME NEW c \in Caller, HelperStartThrows(c) PROVE CountersTyped'
  BY <1>23 DEF HelperStartThrows, Replied, FinishStart, Release
<1>24. ASSUME NEW c \in Caller, SetDns(c) PROVE CountersTyped'
  BY <1>24 DEF SetDns, HelperDns, isAvailable, set_dns, Goto
<1>25. ASSUME NEW c \in Caller, NotRunningYet(c) PROVE CountersTyped'
  BY <1>25 DEF NotRunningYet, Replied, Goto
<1>26. ASSUME NEW c \in Caller, ConfirmedByHelper(c) PROVE CountersTyped'
  BY <1>26 DEF ConfirmedByHelper, Replied, FinishStart, Release
<1>27. ASSUME NEW c \in Caller, SudoSettles(c) PROVE CountersTyped'
  BY <1>27 DEF SudoSettles, PidAlive, FinishStart, Release
<1>28. ASSUME NEW t \in Task, HelperServes(t) PROVE CountersTyped'
  <2>1. Exited \o <<"started">> \in Seq({"started", "exited"})
    BY ExitedTyped
  <2>2. events' \in Seq({"started", "exited"})
    BY <1>28, <2>1, PushTyped, ExitedTyped DEF HelperServes, HelperStop
  <2> QED
    BY <1>28, <2>2 DEF HelperServes
<1>29. ASSUME NEW t \in Task, HelperRefuses(t) PROVE CountersTyped'
  BY <1>29 DEF HelperRefuses, RequestAt, Answer
<1>30. CASE Poll
  BY <1>30 DEF Poll, Goto, ReconcileFrom
<1>31. CASE BecomesAuthoritative
  BY <1>31 DEF BecomesAuthoritative, isAvailable, Goto
<1>32. CASE ReconcileByPidFile
  BY <1>32 DEF ReconcileByPidFile, isAvailable, PidAlive, Downgraded,
     ReconcileDone, Release
<1>33. CASE ReconcileByHelper
  BY <1>33 DEF ReconcileByHelper, Replied, Downgraded, ReconcileDone, Release
<1>34. CASE ReconcileFails
  <2>1. helperFailures' \in 0 .. HELPER_FAILURE_THRESHOLD - 1
    BY <1>34 DEF ReconcileFails, NextFailures
  <2> QED
    BY <1>34, <2>1 DEF ReconcileFails
<1>35. CASE Subscribed
  BY <1>35 DEF Subscribed, Goto, ReconcileFrom
<1>36. CASE handleHelperEvent
  BY <1>36 DEF handleHelperEvent
<1>37. CASE PromptAccepted
  BY <1>37 DEF PromptAccepted
<1>38. CASE PromptDenied
  BY <1>38 DEF PromptDenied
<1>39. CASE WrapperSetsDns
  BY <1>39 DEF WrapperSetsDns
<1>40. CASE WrapperEnds
  BY <1>40 DEF WrapperEnds
<1>41. CASE OsascriptExit
  BY <1>41 DEF OsascriptExit, PidAlive, FinishStart, Release
<1>42. CASE BoxDies
  <2>1. <<>> \in Seq({"started", "exited"})
    OBVIOUS
  <2>2. PICK evs \in Seq({"started", "exited"}) : Push(evs)
    <3>1. PICK b \in box : Push(IF b = "helper" THEN Exited ELSE <<>>)
      BY <1>42 DEF BoxDies
    <3>2. (IF b = "helper" THEN Exited ELSE <<>>) \in Seq({"started", "exited"})
      BY <2>1, ExitedTyped
    <3> QED
      BY <3>1, <3>2
  <2>3. events' \in Seq({"started", "exited"})
    BY <2>2, PushTyped
  <2> QED
    BY <1>42, <2>3 DEF BoxDies, Fault
<1>43. CASE HelperDown
  BY <1>43 DEF HelperDown, Fault, tracked
<1>44. CASE HelperUp
  BY <1>44 DEF HelperUp
<1>45. CASE UNCHANGED vars
  BY <1>45 DEF vars
<1>46. ASSUME NEW c \in Caller, CleanupTimesOut(c) PROVE CountersTyped'
  BY <1>46 DEF CleanupTimesOut, Fault, Goto, isAvailable, tracked
<1>47. CASE StrayCleanup
  BY <1>47, PushTyped, ExitedTyped DEF StrayCleanup, HelperCleansUp, HelperStop,
     restore_dns
<1>48. CASE EarlierOsascriptExit
  BY <1>48 DEF EarlierOsascriptExit, tracked
<1>49. QED
  BY <1>1, <1>2, <1>3, <1>4, <1>5, <1>6, <1>7, <1>8, <1>9, <1>10, <1>11,
     <1>12, <1>13, <1>14, <1>15, <1>16, <1>17, <1>18, <1>19, <1>20, <1>21,
     <1>22, <1>23, <1>24, <1>25, <1>26, <1>27, <1>28, <1>29, <1>30, <1>31,
     <1>32, <1>33, <1>34, <1>35, <1>36, <1>37, <1>38, <1>39, <1>40, <1>41,
     <1>42, <1>43, <1>44, <1>45, <1>46, <1>47, <1>48 DEF Next, StopStep, StartStep, ReconcileStep,
     RootStep


\* Every step keeps Prompted: the gates of a start matter in Validated.
LEMMA PromptedStep == IInv /\ [Next]_vars => Prompted'
<1> SUFFICES ASSUME TypeOK, Owners, WithoutHelper, Prompted, [Next]_vars PROVE Prompted'
  BY DEF IInv
<1>0. Typed
  BY DEF TypeOK, Typed
<1> USE <1>0, CallersAreDistinct DEF Typed, Prompted, WithoutHelper, Owners,
   StartOwnerAt, StopOwnerAt, StartLabel, StopLabel, StopDone, Task, manager,
   tasks, world, link, root, health, history,
   boxes, handles, prompts, tracked
<1>1. ASSUME NEW c \in Caller, tun_stop(c) PROVE Prompted'
  BY <1>1 DEF tun_stop, Request, stop, Goto
<1>2. ASSUME NEW c \in Caller, tun_reconnect(c) PROVE Prompted'
  BY <1>2 DEF tun_reconnect, Request, stop, Goto
<1>3. ASSUME NEW c \in Caller, tun_startTun(c) PROVE Prompted'
  BY <1>3 DEF tun_startTun, Request, Goto
<1>4. ASSUME NEW c \in Caller, StopProbed(c) PROVE Prompted'
  BY <1>4 DEF StopProbed, Goto, isAvailable, restoreDns
<1>5. ASSUME NEW c \in Caller, StopRestoresDnsFirst(c) PROVE Prompted'
  BY <1>5 DEF StopRestoresDnsFirst, Goto, HelperDns, isAvailable
<1>6. ASSUME NEW c \in Caller, StopByHelper(c) PROVE Prompted'
  BY <1>6 DEF StopByHelper, Replied, FinishStop, Release
<1>7. ASSUME NEW c \in Caller, StopByHelperFails(c) PROVE Prompted'
  BY <1>7 DEF StopByHelperFails, Replied, Goto
<1>8. ASSUME NEW c \in Caller, restoreSystemDns(c) PROVE Prompted'
  BY <1>8 DEF restoreSystemDns, Goto, isAvailable
<1>9. ASSUME NEW c \in Caller, StopManually(c) PROVE Prompted'
  BY <1>9 DEF StopManually, KillOsascript, PidAlive, Goto, FinishStop, Release
<1>10. ASSUME NEW c \in Caller, PidKilled(c) PROVE Prompted'
  BY <1>10 DEF PidKilled, MayHaveDied, FinishStop, Release
<1>11. ASSUME NEW c \in Caller, PidSurvives(c) PROVE Prompted'
  BY <1>11 DEF PidSurvives, PidAlive, FinishStop, Release
<1>12. ASSUME NEW c \in Caller, AfterStop(c) PROVE Prompted'
  BY <1>12 DEF AfterStop, Return, Goto
<1>13. ASSUME NEW c \in Caller, startTun(c) PROVE Prompted'
  BY <1>13 DEF startTun, Goto, ReconcileFrom
<1>14. ASSUME NEW c \in Caller, Installed(c) PROVE Prompted'
  BY <1>14 DEF Installed, stop, Goto
<1>15. ASSUME NEW c \in Caller, StartThrows(c) PROVE Prompted'
  BY <1>15 DEF StartThrows, FinishStart, Release
<1>16. ASSUME NEW c \in Caller, StartCancelled(c) PROVE Prompted'
  BY <1>16 DEF StartCancelled, AtGate, Cancelled, FinishStart, Release
<1>17. ASSUME NEW c \in Caller, PassGate(c) PROVE Prompted'
  BY <1>17 DEF PassGate, AtGate, Cancelled, Goto
<1>18. ASSUME NEW c \in Caller, CleanupStale(c) PROVE Prompted'
  BY <1>18 DEF CleanupStale, HelperCleansUp, Goto, isAvailable, HelperStop, tracked,
     Push, Exited
<1>19. ASSUME NEW c \in Caller, Validated(c) PROVE Prompted'
  BY <1>19 DEF Validated, Cancelled, FinishStart, Release, Goto,
     SpawnOsascript
<1>20. ASSUME NEW c \in Caller, HelperReady(c) PROVE Prompted'
  BY <1>20 DEF HelperReady, isAvailable, Goto
<1>21. ASSUME NEW c \in Caller, HelperNotReady(c) PROVE Prompted'
  BY <1>21 DEF HelperNotReady, isAvailable, FinishStart, Release, Goto,
     SpawnOsascript
<1>22. ASSUME NEW c \in Caller, StartedByHelper(c) PROVE Prompted'
  BY <1>22 DEF StartedByHelper, Replied, RollBack, Goto
<1>23. ASSUME NEW c \in Caller, HelperStartThrows(c) PROVE Prompted'
  BY <1>23 DEF HelperStartThrows, Replied, FinishStart, Release
<1>24. ASSUME NEW c \in Caller, SetDns(c) PROVE Prompted'
  BY <1>24 DEF SetDns, HelperDns, isAvailable, Goto
<1>25. ASSUME NEW c \in Caller, NotRunningYet(c) PROVE Prompted'
  BY <1>25 DEF NotRunningYet, Replied, Goto
<1>26. ASSUME NEW c \in Caller, ConfirmedByHelper(c) PROVE Prompted'
  BY <1>26 DEF ConfirmedByHelper, Replied, FinishStart, Release
<1>27. ASSUME NEW c \in Caller, SudoSettles(c) PROVE Prompted'
  BY <1>27 DEF SudoSettles, PidAlive, FinishStart, Release
<1>28. ASSUME NEW t \in Task, HelperServes(t) PROVE Prompted'
  BY <1>28 DEF HelperServes, RequestAt, Answer, HelperStop, tracked, Push,
     Exited
<1>29. ASSUME NEW t \in Task, HelperRefuses(t) PROVE Prompted'
  BY <1>29 DEF HelperRefuses, RequestAt, Answer
<1>30. CASE Poll
  BY <1>30 DEF Poll, Goto, ReconcileFrom
<1>31. CASE BecomesAuthoritative
  BY <1>31 DEF BecomesAuthoritative, isAvailable, Goto
<1>32. CASE ReconcileByPidFile
  BY <1>32 DEF ReconcileByPidFile, isAvailable, PidAlive, Downgraded,
     ReconcileDone, Release
<1>33. CASE ReconcileByHelper
  BY <1>33 DEF ReconcileByHelper, Replied, Downgraded, ReconcileDone, Release
<1>34. CASE ReconcileFails
  BY <1>34 DEF ReconcileFails, Replied, NextFailures, ReconcileDone, Release
<1>35. CASE Subscribed
  BY <1>35 DEF Subscribed, Goto, ReconcileFrom
<1>36. CASE handleHelperEvent
  BY <1>36 DEF handleHelperEvent
<1>37. CASE PromptAccepted
  BY <1>37 DEF PromptAccepted
<1>38. CASE PromptDenied
  BY <1>38 DEF PromptDenied
<1>39. CASE WrapperSetsDns
  BY <1>39 DEF WrapperSetsDns
<1>40. CASE WrapperEnds
  BY <1>40 DEF WrapperEnds
<1>41. CASE OsascriptExit
  BY <1>41 DEF OsascriptExit, PidAlive, FinishStart, Release
<1>42. CASE BoxDies
  BY <1>42 DEF BoxDies, Fault, Push, Exited, tracked
<1>43. CASE HelperDown
  BY <1>43 DEF HelperDown, Fault, tracked
<1>44. CASE HelperUp
  BY <1>44 DEF HelperUp
<1>45. CASE UNCHANGED vars
  BY <1>45 DEF vars
<1>46. ASSUME NEW c \in Caller, CleanupTimesOut(c) PROVE Prompted'
  BY <1>46 DEF CleanupTimesOut, Fault, Goto, isAvailable, tracked
<1>47. CASE StrayCleanup
  BY <1>47 DEF StrayCleanup, HelperCleansUp, HelperStop, tracked, Push, Exited,
     isAvailable
<1>48. CASE EarlierOsascriptExit
  BY <1>48 DEF EarlierOsascriptExit, tracked
<1>49. QED
  BY <1>1, <1>2, <1>3, <1>4, <1>5, <1>6, <1>7, <1>8, <1>9, <1>10, <1>11,
     <1>12, <1>13, <1>14, <1>15, <1>16, <1>17, <1>18, <1>19, <1>20, <1>21,
     <1>22, <1>23, <1>24, <1>25, <1>26, <1>27, <1>28, <1>29, <1>30, <1>31,
     <1>32, <1>33, <1>34, <1>35, <1>36, <1>37, <1>38, <1>39, <1>40, <1>41,
     <1>42, <1>43, <1>44, <1>45, <1>46, <1>47, <1>48 DEF Next, StopStep, StartStep, ReconcileStep,
     RootStep


\* Every step keeps RolledBack: the roll back matters in StartedByHelper.
LEMMA RolledBackStep == IInv /\ [Next]_vars => RolledBack'
<1> SUFFICES ASSUME TypeOK, Owners, RolledBack, [Next]_vars PROVE RolledBack'
  BY DEF IInv
<1>0. Typed
  BY DEF TypeOK, Typed
<1> USE <1>0, CallersAreDistinct, NoneIsNoReply DEF Typed, RolledBack,
   OnlyByHelper, StopIsHeard, FailedStartIsDown, ServedStopIsDown,
   RequestIsPending, WillRollBack, StopServed, WillStop, PastStop, Owners,
   StartOwnerAt, StopOwnerAt, StartLabel, StopLabel, Task, manager, tasks,
   world, link, root, health, history,
   boxes, handles, prompts, tracked
<1>1. ASSUME NEW c \in Caller, tun_stop(c) PROVE RolledBack'
  <2>1. stopPromise # c
    BY <1>1 DEF tun_stop, Request
  <2>2. startPromise # c
    BY <1>1 DEF tun_stop, Request
  <2>3. CASE stopPromise # None
    <3>1. /\ pc' = [pc EXCEPT ![c] = "s_join"]
          /\ reply' = [reply EXCEPT ![c] = None]
          /\ UNCHANGED <<startPromise, stopPromise>>
      BY <1>1, <2>3 DEF tun_stop, stop, Goto
    <3>2. stopPromise # None => /\ pc'[stopPromise] = pc[stopPromise]
                               /\ reply'[stopPromise] = reply[stopPromise]
                               /\ op'[stopPromise] = op[stopPromise]
      BY <1>1, <2>1, <3>1 DEF tun_stop, Request
    <3>3. \A d \in Caller : d # c => pc'[d] = pc[d] /\ reply'[d] = reply[d]
      BY <3>1
    <3>4. pc'[c] = "s_join"
      BY <3>1
    <3> SUFFICES ASSUME setup = "helper", setup' = "helper"
          PROVE  RolledBack'
      BY <1>1 DEF tun_stop
    <3>10. OnlyByHelper'
      BY <1>1, <2>1, <2>2, <2>3, <3>1, <3>2, <3>3, <3>4
        DEF tun_stop, stop, JoinsReconnect, Request
    <3>11. StopIsHeard'
      BY <1>1, <2>1, <2>2, <2>3, <3>1, <3>2, <3>3, <3>4
        DEF tun_stop, stop, JoinsReconnect, Request
    <3>12. FailedStartIsDown'
      BY <1>1, <2>1, <2>2, <2>3, <3>1, <3>2, <3>3, <3>4
        DEF tun_stop, stop, JoinsReconnect, Request
    <3>13. ServedStopIsDown'
      BY <1>1, <2>1, <2>2, <2>3, <3>1, <3>2, <3>3, <3>4
        DEF tun_stop, stop, JoinsReconnect, Request
    <3>14. RequestIsPending'
      BY <1>1, <2>1, <2>2, <2>3, <3>1, <3>2, <3>3, <3>4
        DEF tun_stop, stop, JoinsReconnect, Request
    <3> QED
      BY <3>10, <3>11, <3>12, <3>13, <3>14
  <2>4. CASE stopPromise = None
    <3>1. /\ pc' = [pc EXCEPT ![c] = "s_avail"]
          /\ reply' = [reply EXCEPT ![c] = None]
          /\ startPromise' = startPromise
          /\ stopPromise' = c
      BY <1>1, <2>4 DEF tun_stop, stop, Goto
    <3>3. \A d \in Caller : d # c => pc'[d] = pc[d] /\ reply'[d] = reply[d]
      BY <3>1
    <3>4. pc'[c] = "s_avail"
      BY <3>1
    <3> SUFFICES ASSUME setup = "helper", setup' = "helper"
          PROVE  RolledBack'
      BY <1>1 DEF tun_stop
    <3>10. OnlyByHelper'
      BY <1>1, <2>1, <2>2, <2>4, <3>1, <3>3, <3>4
        DEF tun_stop, stop, JoinsReconnect, Request
    <3>11. StopIsHeard'
      BY <1>1, <2>1, <2>2, <2>4, <3>1, <3>3, <3>4
        DEF tun_stop, stop, JoinsReconnect, Request
    <3>12. FailedStartIsDown'
      BY <1>1, <2>1, <2>2, <2>4, <3>1, <3>3, <3>4
        DEF tun_stop, stop, JoinsReconnect, Request
    <3>13. ServedStopIsDown'
      BY <1>1, <2>1, <2>2, <2>4, <3>1, <3>3, <3>4
        DEF tun_stop, stop, JoinsReconnect, Request
    <3>14. RequestIsPending'
      BY <1>1, <2>1, <2>2, <2>4, <3>1, <3>3, <3>4
        DEF tun_stop, stop, JoinsReconnect, Request
    <3> QED
      BY <3>10, <3>11, <3>12, <3>13, <3>14
  <2> QED
    BY <2>3, <2>4
<1>2. ASSUME NEW c \in Caller, tun_reconnect(c) PROVE RolledBack'
  <2>1. stopPromise # c
    BY <1>2 DEF tun_reconnect, Request
  <2>2. startPromise # c
    BY <1>2 DEF tun_reconnect, Request
  <2>3. CASE stopPromise # None
    <3>1. /\ pc' = [pc EXCEPT ![c] = "s_join"]
          /\ reply' = [reply EXCEPT ![c] = None]
          /\ UNCHANGED <<startPromise, stopPromise>>
      BY <1>2, <2>3 DEF tun_reconnect, stop, Goto
    <3>2. stopPromise # None => /\ pc'[stopPromise] = pc[stopPromise]
                               /\ reply'[stopPromise] = reply[stopPromise]
                               /\ op'[stopPromise] = op[stopPromise]
      BY <1>2, <2>1, <3>1 DEF tun_reconnect, Request
    <3>3. \A d \in Caller : d # c => pc'[d] = pc[d] /\ reply'[d] = reply[d]
      BY <3>1
    <3>4. pc'[c] = "s_join"
      BY <3>1
    <3> SUFFICES ASSUME setup = "helper", setup' = "helper"
          PROVE  RolledBack'
      BY <1>2 DEF tun_reconnect
    <3>10. OnlyByHelper'
      BY <1>2, <2>1, <2>2, <2>3, <3>1, <3>2, <3>3, <3>4
        DEF tun_reconnect, stop, Request
    <3>11. StopIsHeard'
      BY <1>2, <2>1, <2>2, <2>3, <3>1, <3>2, <3>3, <3>4
        DEF tun_reconnect, stop, Request
    <3>12. FailedStartIsDown'
      BY <1>2, <2>1, <2>2, <2>3, <3>1, <3>2, <3>3, <3>4
        DEF tun_reconnect, stop, Request
    <3>13. ServedStopIsDown'
      BY <1>2, <2>1, <2>2, <2>3, <3>1, <3>2, <3>3, <3>4
        DEF tun_reconnect, stop, Request
    <3>14. RequestIsPending'
      BY <1>2, <2>1, <2>2, <2>3, <3>1, <3>2, <3>3, <3>4
        DEF tun_reconnect, stop, Request
    <3> QED
      BY <3>10, <3>11, <3>12, <3>13, <3>14
  <2>4. CASE stopPromise = None
    <3>1. /\ pc' = [pc EXCEPT ![c] = "s_avail"]
          /\ reply' = [reply EXCEPT ![c] = None]
          /\ startPromise' = startPromise
          /\ stopPromise' = c
      BY <1>2, <2>4 DEF tun_reconnect, stop, Goto
    <3>3. \A d \in Caller : d # c => pc'[d] = pc[d] /\ reply'[d] = reply[d]
      BY <3>1
    <3>4. pc'[c] = "s_avail"
      BY <3>1
    <3> SUFFICES ASSUME setup = "helper", setup' = "helper"
          PROVE  RolledBack'
      BY <1>2 DEF tun_reconnect
    <3>10. OnlyByHelper'
      BY <1>2, <2>1, <2>2, <2>4, <3>1, <3>3, <3>4
        DEF tun_reconnect, stop, Request
    <3>11. StopIsHeard'
      BY <1>2, <2>1, <2>2, <2>4, <3>1, <3>3, <3>4
        DEF tun_reconnect, stop, Request
    <3>12. FailedStartIsDown'
      BY <1>2, <2>1, <2>2, <2>4, <3>1, <3>3, <3>4
        DEF tun_reconnect, stop, Request
    <3>13. ServedStopIsDown'
      BY <1>2, <2>1, <2>2, <2>4, <3>1, <3>3, <3>4
        DEF tun_reconnect, stop, Request
    <3>14. RequestIsPending'
      BY <1>2, <2>1, <2>2, <2>4, <3>1, <3>3, <3>4
        DEF tun_reconnect, stop, Request
    <3> QED
      BY <3>10, <3>11, <3>12, <3>13, <3>14
  <2> QED
    BY <2>3, <2>4
<1>3. ASSUME NEW c \in Caller, tun_startTun(c) PROVE RolledBack'
  BY <1>3 DEF tun_startTun, Request, Goto
<1>4. ASSUME NEW c \in Caller, StopProbed(c) PROVE RolledBack'
  <2>2. PICK label \in {"s_dns", "s_stop", "m_dns", "s_kill"} :
          Goto(c, label) /\ (helper = "down" \/ label \in {"s_dns", "s_stop"})
    <3>1. CASE isAvailable
      BY <1>4, <3>1 DEF StopProbed
    <3>2. CASE ~isAvailable
      <4>1. helper = "down"
        BY <3>2 DEF TypeOK, isAvailable
      <4> QED
        BY <1>4, <3>2, <4>1 DEF StopProbed
    <3> QED
      BY <3>1, <3>2
  <2>3. \A d \in Caller : d # c => pc'[d] = pc[d] /\ reply'[d] = reply[d]
    BY <2>2 DEF Goto
  <2>4. pc'[c] = label /\ reply'[c] = None
    BY <2>2 DEF Goto
  <2>5. stopPromise = c /\ pc[c] = "s_avail"
    BY <1>4 DEF StopProbed
  <2> SUFFICES ASSUME setup = "helper", setup' = "helper"
        PROVE  RolledBack'
    BY <1>4 DEF StopProbed
  <2>10. OnlyByHelper'
    BY <1>4, <2>2, <2>3, <2>4, <2>5 DEF StopProbed
  <2>11. StopIsHeard'
    BY <1>4, <2>2, <2>3, <2>4, <2>5 DEF StopProbed
  <2>12. FailedStartIsDown'
    BY <1>4, <2>2, <2>3, <2>4, <2>5 DEF StopProbed
  <2>13. ServedStopIsDown'
    BY <1>4, <2>2, <2>3, <2>4, <2>5 DEF StopProbed
  <2>14. RequestIsPending'
    BY <1>4, <2>2, <2>3, <2>4, <2>5 DEF StopProbed
  <2> QED
    BY <2>10, <2>11, <2>12, <2>13, <2>14
<1>5. ASSUME NEW c \in Caller, StopRestoresDnsFirst(c) PROVE RolledBack'
  BY <1>5 DEF StopRestoresDnsFirst, Goto, HelperDns, isAvailable
<1>6. ASSUME NEW c \in Caller, StopByHelper(c) PROVE RolledBack'
  BY <1>6 DEF StopByHelper, Replied, FinishStop, Release
<1>7. ASSUME NEW c \in Caller, StopByHelperFails(c) PROVE RolledBack'
  BY <1>7 DEF StopByHelperFails, Replied, Goto
<1>8. ASSUME NEW c \in Caller, restoreSystemDns(c) PROVE RolledBack'
  BY <1>8 DEF restoreSystemDns, Goto, isAvailable
<1>9. ASSUME NEW c \in Caller, StopManually(c) PROVE RolledBack'
  BY <1>9 DEF StopManually, KillOsascript, PidAlive, Goto, FinishStop, Release
<1>10. ASSUME NEW c \in Caller, PidKilled(c) PROVE RolledBack'
  BY <1>10 DEF PidKilled, MayHaveDied, FinishStop, Release
<1>11. ASSUME NEW c \in Caller, PidSurvives(c) PROVE RolledBack'
  BY <1>11 DEF PidSurvives, PidAlive, FinishStop, Release
<1>12. ASSUME NEW c \in Caller, AfterStop(c) PROVE RolledBack'
  BY <1>12 DEF AfterStop, Return, Goto
<1>13. ASSUME NEW c \in Caller, startTun(c) PROVE RolledBack'
  BY <1>13 DEF startTun, Goto, ReconcileFrom
<1>14. ASSUME NEW c \in Caller, Installed(c) PROVE RolledBack'
  <2>1. stopPromise # c
    BY <1>14 DEF Installed
  <2>2. startPromise = c
    BY <1>14 DEF Installed
  <2>3. CASE stopPromise # None
    <3>1. /\ pc' = [pc EXCEPT ![c] = "s_join"]
          /\ reply' = [reply EXCEPT ![c] = None]
          /\ UNCHANGED <<startPromise, stopPromise>>
      BY <1>14, <2>3 DEF Installed, stop, Goto
    <3>2. stopPromise # None => /\ pc'[stopPromise] = pc[stopPromise]
                               /\ reply'[stopPromise] = reply[stopPromise]
                               /\ op'[stopPromise] = op[stopPromise]
      BY <1>14, <2>1, <3>1 DEF Installed, Request
    <3>3. \A d \in Caller : d # c => pc'[d] = pc[d] /\ reply'[d] = reply[d]
      BY <3>1
    <3>4. pc'[c] = "s_join"
      BY <3>1
    <3> SUFFICES ASSUME setup = "helper", setup' = "helper"
          PROVE  RolledBack'
      BY <1>14 DEF Installed
    <3>10. OnlyByHelper'
      BY <1>14, <2>1, <2>2, <2>3, <3>1, <3>2, <3>3, <3>4
        DEF Installed, stop
    <3>11. StopIsHeard'
      BY <1>14, <2>1, <2>2, <2>3, <3>1, <3>2, <3>3, <3>4
        DEF Installed, stop
    <3>12. FailedStartIsDown'
      BY <1>14, <2>1, <2>2, <2>3, <3>1, <3>2, <3>3, <3>4
        DEF Installed, stop
    <3>13. ServedStopIsDown'
      BY <1>14, <2>1, <2>2, <2>3, <3>1, <3>2, <3>3, <3>4
        DEF Installed, stop
    <3>14. RequestIsPending'
      BY <1>14, <2>1, <2>2, <2>3, <3>1, <3>2, <3>3, <3>4
        DEF Installed, stop
    <3> QED
      BY <3>10, <3>11, <3>12, <3>13, <3>14
  <2>4. CASE stopPromise = None
    <3>1. /\ pc' = [pc EXCEPT ![c] = "s_avail"]
          /\ reply' = [reply EXCEPT ![c] = None]
          /\ startPromise' = startPromise
          /\ stopPromise' = c
      BY <1>14, <2>4 DEF Installed, stop, Goto
    <3>3. \A d \in Caller : d # c => pc'[d] = pc[d] /\ reply'[d] = reply[d]
      BY <3>1
    <3>4. pc'[c] = "s_avail"
      BY <3>1
    <3> SUFFICES ASSUME setup = "helper", setup' = "helper"
          PROVE  RolledBack'
      BY <1>14 DEF Installed
    <3>10. OnlyByHelper'
      BY <1>14, <2>1, <2>2, <2>4, <3>1, <3>3, <3>4
        DEF Installed, stop
    <3>11. StopIsHeard'
      BY <1>14, <2>1, <2>2, <2>4, <3>1, <3>3, <3>4
        DEF Installed, stop
    <3>12. FailedStartIsDown'
      BY <1>14, <2>1, <2>2, <2>4, <3>1, <3>3, <3>4
        DEF Installed, stop
    <3>13. ServedStopIsDown'
      BY <1>14, <2>1, <2>2, <2>4, <3>1, <3>3, <3>4
        DEF Installed, stop
    <3>14. RequestIsPending'
      BY <1>14, <2>1, <2>2, <2>4, <3>1, <3>3, <3>4
        DEF Installed, stop
    <3> QED
      BY <3>10, <3>11, <3>12, <3>13, <3>14
  <2> QED
    BY <2>3, <2>4
<1>15. ASSUME NEW c \in Caller, StartThrows(c) PROVE RolledBack'
  BY <1>15 DEF StartThrows, FinishStart, Release
<1>16. ASSUME NEW c \in Caller, StartCancelled(c) PROVE RolledBack'
  BY <1>16 DEF StartCancelled, AtGate, Cancelled, FinishStart, Release
<1>17. ASSUME NEW c \in Caller, PassGate(c) PROVE RolledBack'
  BY <1>17 DEF PassGate, AtGate, Cancelled, Goto
<1>18. ASSUME NEW c \in Caller, CleanupStale(c) PROVE RolledBack'
  BY <1>18 DEF CleanupStale, HelperCleansUp, Goto, isAvailable, HelperStop, tracked,
     Push, Exited
<1>19. ASSUME NEW c \in Caller, Validated(c) PROVE RolledBack'
  BY <1>19 DEF Validated, Cancelled, FinishStart, Release, Goto,
     SpawnOsascript
<1>20. ASSUME NEW c \in Caller, HelperReady(c) PROVE RolledBack'
  <2>1. /\ startPromise = c
        /\ pc[c] = "ready"
        /\ pc' = [pc EXCEPT ![c] = "start"]
        /\ reply' = [reply EXCEPT ![c] = None]
    BY <1>20 DEF HelperReady, Goto
  <2>2. \A d \in Caller : d # c => pc'[d] = pc[d] /\ reply'[d] = reply[d]
    BY <2>1
  <2>3. pc'[c] = "start" /\ reply'[c] = None
    BY <2>1
  <2> SUFFICES ASSUME setup = "helper", setup' = "helper"
        PROVE  RolledBack'
    BY <1>20 DEF HelperReady
  <2>10. OnlyByHelper'
    BY <1>20, <2>1, <2>2, <2>3 DEF HelperReady
  <2>11. StopIsHeard'
    BY <1>20, <2>1, <2>2, <2>3 DEF HelperReady
  <2>12. FailedStartIsDown'
    BY <1>20, <2>1, <2>2, <2>3 DEF HelperReady
  <2>13. ServedStopIsDown'
    BY <1>20, <2>1, <2>2, <2>3 DEF HelperReady
  <2>14. RequestIsPending'
    BY <1>20, <2>1, <2>2, <2>3 DEF HelperReady
  <2> QED
    BY <2>10, <2>11, <2>12, <2>13, <2>14
<1>21. ASSUME NEW c \in Caller, HelperNotReady(c) PROVE RolledBack'
  BY <1>21 DEF HelperNotReady, isAvailable, FinishStart, Release, Goto,
     SpawnOsascript
<1>22. ASSUME NEW c \in Caller, StartedByHelper(c) PROVE RolledBack'
  BY <1>22 DEF StartedByHelper, Replied, RollBack, Goto
<1>23. ASSUME NEW c \in Caller, HelperStartThrows(c) PROVE RolledBack'
  BY <1>23 DEF HelperStartThrows, Replied, FinishStart, Release
<1>24. ASSUME NEW c \in Caller, SetDns(c) PROVE RolledBack'
  BY <1>24 DEF SetDns, HelperDns, isAvailable, Goto
<1>25. ASSUME NEW c \in Caller, NotRunningYet(c) PROVE RolledBack'
  BY <1>25 DEF NotRunningYet, Replied, Goto
<1>26. ASSUME NEW c \in Caller, ConfirmedByHelper(c) PROVE RolledBack'
  BY <1>26 DEF ConfirmedByHelper, Replied, FinishStart, Release
<1>27. ASSUME NEW c \in Caller, SudoSettles(c) PROVE RolledBack'
  BY <1>27 DEF SudoSettles, PidAlive, FinishStart, Release
<1>28. ASSUME NEW t \in Task, HelperServes(t) PROVE RolledBack'
  <2>1. reply'[t] # None /\ \A u \in Task : u # t => reply'[u] = reply[u]
    BY <1>28 DEF HelperServes, Answer
  <2>2. /\ t \in Caller => pc[t] # "status"
        /\ reply[t] = None
        /\ UNCHANGED <<pc, op, startPromise, stopPromise, stopRequested, helper,
                       joinedReconnect>>
    BY <1>28 DEF HelperServes
  <2> SUFFICES ASSUME setup = "helper", setup' = "helper"
               PROVE  RolledBack'
    BY <1>28 DEF HelperServes
  <2>3. CASE /\ pc[t] \in {"status", "verify", "verify2"}
             /\ UNCHANGED box
    <3>1. OnlyByHelper'
      BY <1>28, <2>1, <2>2, <2>3
    <3>2. StopIsHeard'
      BY <1>28, <2>1, <2>2, <2>3
    <3>3. FailedStartIsDown'
      BY <1>28, <2>1, <2>2, <2>3
    <3>4. ServedStopIsDown'
      BY <1>28, <2>1, <2>2, <2>3
    <3>5. RequestIsPending'
      BY <1>28, <2>1, <2>2, <2>3
    <3> QED
      BY <3>1, <3>2, <3>3, <3>4, <3>5
  <2>4. CASE pc[t] \in {"s_stop", "rollback"} /\ ~tracked'
    <3>1. OnlyByHelper'
      BY <1>28, <2>1, <2>2, <2>4
    <3>2. StopIsHeard'
      BY <1>28, <2>1, <2>2, <2>4
    <3>3. FailedStartIsDown'
      BY <1>28, <2>1, <2>2, <2>4
    <3>4. ServedStopIsDown'
      BY <1>28, <2>1, <2>2, <2>4
    <3>5. RequestIsPending'
      BY <1>28, <2>1, <2>2, <2>4
    <3> QED
      BY <3>1, <3>2, <3>3, <3>4, <3>5
  <2>5. CASE pc[t] = "start" /\ reply'[t] = "error" /\ ~tracked'
    <3>1. OnlyByHelper'
      BY <1>28, <2>1, <2>2, <2>5
    <3>2. StopIsHeard'
      BY <1>28, <2>1, <2>2, <2>5
    <3>3. FailedStartIsDown'
      BY <1>28, <2>1, <2>2, <2>5
    <3>4. ServedStopIsDown'
      BY <1>28, <2>1, <2>2, <2>5
    <3>5. RequestIsPending'
      BY <1>28, <2>1, <2>2, <2>5
    <3> QED
      BY <3>1, <3>2, <3>3, <3>4, <3>5
  <2>6. CASE pc[t] = "start" /\ reply'[t] = "ok" /\ helper = "up"
    <3>1. OnlyByHelper'
      BY <1>28, <2>1, <2>2, <2>6
    <3>2. StopIsHeard'
      BY <1>28, <2>1, <2>2, <2>6
    <3>3. FailedStartIsDown'
      BY <1>28, <2>1, <2>2, <2>6
    <3>4. ServedStopIsDown'
      BY <1>28, <2>1, <2>2, <2>6
    <3>5. RequestIsPending'
      BY <1>28, <2>1, <2>2, <2>6
    <3> QED
      BY <3>1, <3>2, <3>3, <3>4, <3>5
  <2>7. /\ pc[t] \in {"status", "s_stop", "verify", "start", "rollback",
                    "verify2"}
        /\ helper = "up"
    BY <1>28 DEF HelperServes, RequestAt
  <2>8. CASE RequestAt[pc[t]] = "status" /\ UNCHANGED box
    BY <2>3, <2>7, <2>8 DEF RequestAt
  <2>9. CASE RequestAt[pc[t]] = "stop" /\ HelperStop
    <3>1. ~tracked'
      BY <2>9 DEF HelperStop, tracked
    <3>2. pc[t] \in {"s_stop", "rollback"}
      BY <2>7, <2>9 DEF RequestAt
    <3> QED
      BY <2>4, <3>1, <3>2
  <2>10. CASE RequestAt[pc[t]] = "start" /\ Answer(t, "ok")
    BY <2>6, <2>7, <2>10 DEF RequestAt, Answer
  <2>11. CASE RequestAt[pc[t]] = "start" /\ Answer(t, "error") /\ HelperStop
    <3>1. ~tracked'
      BY <2>11 DEF HelperStop, tracked
    <3>2. pc[t] = "start" /\ reply'[t] = "error"
      BY <2>7, <2>11 DEF RequestAt, Answer
    <3> QED
      BY <2>5, <3>1, <3>2
  <2> QED
    BY <1>28, <2>8, <2>9, <2>10, <2>11 DEF HelperServes
<1>29. ASSUME NEW t \in Task, HelperRefuses(t) PROVE RolledBack'
  BY <1>29 DEF HelperRefuses, RequestAt, Answer
<1>30. CASE Poll
  BY <1>30 DEF Poll, Goto, ReconcileFrom
<1>31. CASE BecomesAuthoritative
  BY <1>31 DEF BecomesAuthoritative, isAvailable, Goto
<1>32. CASE ReconcileByPidFile
  BY <1>32 DEF ReconcileByPidFile, isAvailable, PidAlive, Downgraded,
     ReconcileDone, Release
<1>33. CASE ReconcileByHelper
  BY <1>33 DEF ReconcileByHelper, Replied, Downgraded, ReconcileDone, Release
<1>34. CASE ReconcileFails
  BY <1>34 DEF ReconcileFails, Replied, NextFailures, ReconcileDone, Release
<1>35. CASE Subscribed
  BY <1>35 DEF Subscribed, Goto, ReconcileFrom
<1>36. CASE handleHelperEvent
  BY <1>36 DEF handleHelperEvent
<1>37. CASE PromptAccepted
  BY <1>37 DEF PromptAccepted
<1>38. CASE PromptDenied
  BY <1>38 DEF PromptDenied
<1>39. CASE WrapperSetsDns
  BY <1>39 DEF WrapperSetsDns
<1>40. CASE WrapperEnds
  BY <1>40 DEF WrapperEnds
<1>41. CASE OsascriptExit
  BY <1>41 DEF OsascriptExit, PidAlive, FinishStart, Release
<1>42. CASE BoxDies
  BY <1>42 DEF BoxDies, Fault, Push, Exited, tracked
<1>43. CASE HelperDown
  BY <1>43 DEF HelperDown, Fault, tracked
<1>44. CASE HelperUp
  BY <1>44 DEF HelperUp
<1>45. CASE UNCHANGED vars
  BY <1>45 DEF vars
<1>46. ASSUME NEW c \in Caller, CleanupTimesOut(c) PROVE RolledBack'
  BY <1>46 DEF CleanupTimesOut, Fault, Goto, isAvailable, tracked
<1>47. CASE StrayCleanup
  BY <1>47 DEF StrayCleanup, HelperCleansUp, HelperStop, tracked, Push, Exited,
     isAvailable
<1>48. CASE EarlierOsascriptExit
  BY <1>48 DEF EarlierOsascriptExit, tracked
<1>49. QED
  BY <1>1, <1>2, <1>3, <1>4, <1>5, <1>6, <1>7, <1>8, <1>9, <1>10, <1>11,
     <1>12, <1>13, <1>14, <1>15, <1>16, <1>17, <1>18, <1>19, <1>20, <1>21,
     <1>22, <1>23, <1>24, <1>25, <1>26, <1>27, <1>28, <1>29, <1>30, <1>31,
     <1>32, <1>33, <1>34, <1>35, <1>36, <1>37, <1>38, <1>39, <1>40, <1>41,
     <1>42, <1>43, <1>44, <1>45, <1>46, <1>47, <1>48 DEF Next, StopStep, StartStep, ReconcileStep,
     RootStep


\* The invariant holds initially.
LEMMA InitIInv == Init => IInv
<1> SUFFICES ASSUME Init PROVE IInv
  OBVIOUS
<1>1. TypeOK
  <2>1. Typed
    BY Labels DEF Init, Typed
  <2>2. StatesTyped
    BY DEF Init, StatesTyped
  <2>3. FlagsTyped
    BY DEF Init, FlagsTyped
  <2>4. CountersTyped
    BY BoundsAreNat DEF Init, CountersTyped
  <2> QED
    BY <2>1, <2>2, <2>3, <2>4, TypeOKIsTyped
<1>2. Owners
  BY DEF Init, Owners, Task, StopLabel, StartLabel
<1>3. WithoutHelper
  BY SetupsAreSetups DEF Init, WithoutHelper, Task, tracked, Setup
<1>4. Prompted
  BY DEF Init, Prompted, StartOwnerAt, StopOwnerAt, Task
<1>5. RolledBack
  BY DEF Init, RolledBack, OnlyByHelper, StopIsHeard, FailedStartIsDown,
         ServedStopIsDown, RequestIsPending, StartOwnerAt, StopServed,
         StopOwnerAt, Task
<1> QED
  BY <1>1, <1>2, <1>3, <1>4, <1>5 DEF IInv

\* The invariant is inductive, whatever Setups is.
LEMMA Inductive == Spec => []IInv
<1>1. IInv /\ [Next]_vars => IInv'
  <2> SUFFICES ASSUME IInv, [Next]_vars PROVE IInv'
    OBVIOUS
  <2>1. TypeOK'
    <3>1. Typed' /\ StatesTyped' /\ FlagsTyped' /\ CountersTyped'
      BY TypedStep, StatesTypedStep, FlagsTypedStep, CountersTypedStep
    <3> QED
      BY <3>1 DEF TypeOK, Typed, StatesTyped, FlagsTyped, CountersTyped
  <2> QED
    BY <2>1, OwnersStep, WithoutHelperStep, PromptedStep, RolledBackStep
    DEF IInv
<1> QED
  BY <1>1, InitIInv, PTL DEF Spec

-----------------------------------------------------------------------------
(***************************************************************************)
(* The results.                                                            *)
(***************************************************************************)

\* The manager's fields, the tasks and the world keep their types.
THEOREM TypeCorrect == Spec => []TypeOK
<1>1. IInv => TypeOK
  BY DEF IInv
<1> QED
  BY <1>1, Inductive, PTL

\* stop, reconcile and a start that fails keep the PID file of a sing-box that
\* osascript started as long as it lives, for any number of overlapping calls,
\* where no helper is installed or none comes up.
THEOREM PidFileIsKept == Spec => []OsascriptBoxHasPidFile
<1>1. IInv => OsascriptBoxHasPidFile
  BY DEF IInv, WithoutHelper, OsascriptBoxHasPidFile
<1> QED
  BY <1>1, Inductive, PTL

\* Once a stop(true) and the calls it raced with are over, nothing is left of
\* what the helper started and still knows, nor, without a helper, of what
\* osascript started, for any number of overlapping calls, crashes, outages
\* and late clean-ups; unless a stop threw, the stop(true) joined a
\* reconnect's, or the app forgot the osascript that asks for the password.
THEOREM StopIsFinal == Spec => []StopWins
<1>1. IInv => StopWins
  <2> SUFFICES ASSUME IInv, AllIdle, stopRequested,
                      tracked \/ (setup = "sudo" /\ "root" \in box)
               PROVE  stopFailed \/ joinedReconnect \/ handleLost
    BY DEF StopWins
  <2> USE DEF IInv
  <2>1. startPromise = None /\ stopPromise = None
    BY DEF AllIdle, TypeOK, Owners, StartOwnerAt, StopOwnerAt, StartLabel,
           StopLabel
  <2>2. CASE setup = "sudo" /\ "root" \in box
    BY <2>1, <2>2 DEF Prompted
  <2>3. CASE tracked
    BY <2>1, <2>3
    DEF WithoutHelper, RolledBack, RequestIsPending, WillStop, WillRollBack,
        StartOwnerAt
  <2> QED
    BY <2>2, <2>3
<1> QED
  BY <1>1, Inductive, PTL
=============================================================================
