------------------------- MODULE HelperDaemonProofs -------------------------
(***************************************************************************)
(* Proofs about HelperDaemon, for every set of connections, apps and pids: *)
(* its safety invariants, and that it implements ChildLifecycle.           *)
(*                                                                         *)
(* None of the invariants is inductive alone.  That a child is announced   *)
(* only once rests on a stop having the only handle; that it has the only  *)
(* handle rests on a start's child being new; ChildBookkeeping says both.  *)
(***************************************************************************)
EXTENDS HelperDaemon, TLAPS

IInv ==
  /\ TypeOK
  /\ HandleHasOneOwner
  /\ NoLeakedChild
  /\ WatchdogGuardsTracked
  /\ ExitEventsAreHonest
  /\ TrackedIsMonitored
  /\ ChildBookkeeping

-----------------------------------------------------------------------------
(***************************************************************************)
(* Steps that move control only.                                           *)
(***************************************************************************)

\* Accepting a request hands the task no child.
LEMMA RequestKeeps ==
  ASSUME IInv, NEW c \in Client,
         RequestStart(c) \/ RequestStop(c) \/ RequestShutdown(c)
  PROVE  IInv'
  BY DEF RequestStart, RequestStop, RequestShutdown, Request, IInv, TypeOK,
     HandleHasOneOwner, NoLeakedChild, WatchdogGuardsTracked,
     ExitEventsAreHonest, TrackedIsMonitored, ChildBookkeeping, Live, PcLabel,
     StopPc, OpName, HelperState, history, Goto

\* Neither does a signal or a look at app_pid.
LEMMA WatchKeeps ==
  ASSUME IInv, SignalArrives \/ WatchdogRead \/ WatchdogCheck
  PROVE  IInv'
  BY DEF SignalArrives, WatchdogRead, WatchdogCheck, IInv, TypeOK,
     HandleHasOneOwner, NoLeakedChild, WatchdogGuardsTracked,
     ExitEventsAreHonest, TrackedIsMonitored, ChildBookkeeping, Live, PcLabel,
     StopPc, OpName, HelperState, history, Goto, Finish

\* A reaped child is dead, which is all that publish asks for.
LEMMA ReapKeeps ==
  ASSUME IInv, NEW t \in Task, Reap(t)
  PROVE  IInv'
  BY DEF Reap, IInv, TypeOK, HandleHasOneOwner, NoLeakedChild,
     WatchdogGuardsTracked, ExitEventsAreHonest, TrackedIsMonitored,
     ChildBookkeeping, Live, PcLabel, StopPc, HelperState, history, Goto

\* A task that answers has no child left.
LEMMA ReturnKeeps ==
  ASSUME IInv, NEW t \in Task,
         ReturnFromStop(t) \/ ReturnFromShutdown(t) \/ SpawnFails(t)
  PROVE  IInv'
<1>1. TypeOK'
  <2>1. UNCHANGED <<helper, singbox, app_pid, child, monitor, proc, alive,
                    orphans, owner, announced, exits>>
    BY DEF ReturnFromStop, ReturnFromShutdown, SpawnFails, HelperState,
       history
  <2>2. exiting' \in BOOLEAN /\ Finish(t)
    BY DEF ReturnFromStop, ReturnFromShutdown, SpawnFails, IInv, TypeOK
  <2> QED BY <2>1, <2>2 DEF IInv, TypeOK, PcLabel, OpName, Goto, Finish
<1>2. ChildBookkeeping'
  BY DEF ReturnFromStop, ReturnFromShutdown, SpawnFails, IInv, TypeOK,
     ChildBookkeeping, Live, HelperState, history, Goto, Finish
<1>3. /\ HandleHasOneOwner' /\ NoLeakedChild' /\ WatchdogGuardsTracked'
      /\ ExitEventsAreHonest' /\ TrackedIsMonitored'
  BY DEF ReturnFromStop, ReturnFromShutdown, SpawnFails, IInv,
     HandleHasOneOwner, NoLeakedChild, WatchdogGuardsTracked,
     ExitEventsAreHonest, TrackedIsMonitored, Live, HelperState, history
<1> QED BY <1>1, <1>2, <1>3 DEF IInv

\* The watchdog's invariant is about who asked, not about who is alive.
LEMMA WorldKeeps ==
  ASSUME IInv, (\E a \in App : AppDies(a)) \/ HelperRestarts
  PROVE  IInv'
  BY DEF AppDies, HelperRestarts, IInv, TypeOK, HandleHasOneOwner,
     NoLeakedChild, WatchdogGuardsTracked, ExitEventsAreHonest,
     TrackedIsMonitored, ChildBookkeeping, Live, HelperState, taskVars,
     history

-----------------------------------------------------------------------------
(***************************************************************************)
(* Steps that move a child.                                                *)
(***************************************************************************)

\* The handle moves from the state to the task, together with app_pid.
LEMMA TakeChildKeeps ==
  ASSUME IInv, NEW t \in Task, TakeChild(t)
  PROVE  IInv'
<1>1. TypeOK'
  BY DEF TakeChild, ForgetTracked, Sigterm, IInv, TypeOK, ProcStatus, PcLabel,
     StopPc, history, Goto
<1>2. HandleHasOneOwner'
  BY DEF TakeChild, ForgetTracked, IInv, TypeOK, HandleHasOneOwner
<1>3. NoLeakedChild'
  BY NoneIsNoValue DEF TakeChild, Sigterm, IInv, TypeOK, NoLeakedChild,
     ChildBookkeeping, Live
<1>4. WatchdogGuardsTracked'
  BY DEF TakeChild, ForgetTracked, WatchdogGuardsTracked
<1>5. ExitEventsAreHonest'
  BY DEF TakeChild, Sigterm, IInv, TypeOK, ExitEventsAreHonest, Live, history
<1>6. TrackedIsMonitored'
  BY DEF TakeChild, ForgetTracked, TrackedIsMonitored
<1>7. ChildBookkeeping'
  BY DEF TakeChild, ForgetTracked, Sigterm, IInv, TypeOK, TrackedIsMonitored,
     ChildBookkeeping, Live, history, Goto
<1> QED BY <1>1, <1>2, <1>3, <1>4, <1>5, <1>6, <1>7 DEF IInv

\* The child the task owns is killed before it is announced.
LEMMA EscalateKeeps ==
  ASSUME IInv, NEW t \in Task, Escalate(t)
  PROVE  IInv'
<1>1. TypeOK'
  BY DEF Escalate, Sigkill, IInv, TypeOK, ProcStatus, PcLabel, StopPc,
     HelperState, history, Goto
<1>2. NoLeakedChild'
  BY DEF Escalate, Sigkill, IInv, NoLeakedChild, Live, HelperState
<1>3. ExitEventsAreHonest'
  BY DEF Escalate, Sigkill, IInv, ExitEventsAreHonest, Live, history
<1>4. ChildBookkeeping'
  BY DEF Escalate, Sigkill, IInv, TypeOK, ChildBookkeeping, Live, HelperState,
     history, Goto
<1>5. HandleHasOneOwner' /\ WatchdogGuardsTracked' /\ TrackedIsMonitored'
  BY DEF Escalate, IInv, HandleHasOneOwner, WatchdogGuardsTracked,
     TrackedIsMonitored, HelperState, history
<1> QED BY <1>1, <1>2, <1>3, <1>4, <1>5 DEF IInv

\* The only holder announces, and it had not done so before.
LEMMA PublishExitKeeps ==
  ASSUME IInv, NEW t \in Task, PublishExit(t)
  PROVE  IInv'
<1>1. TypeOK'
  BY DEF PublishExit, SendExited, IInv, TypeOK, ChildBookkeeping, PcLabel,
     StopPc, HelperState, Goto
<1>2. ExitEventsAreHonest'
  BY DEF PublishExit, SendExited, IInv, ExitEventsAreHonest, ChildBookkeeping,
     Live
<1>3. TrackedIsMonitored'
  BY DEF PublishExit, SendExited, IInv, HandleHasOneOwner, TrackedIsMonitored,
     HelperState
<1>4. ChildBookkeeping'
  BY DEF PublishExit, SendExited, IInv, TypeOK, HandleHasOneOwner,
     ChildBookkeeping, Live, HelperState, Goto
<1>5. HandleHasOneOwner' /\ NoLeakedChild' /\ WatchdogGuardsTracked'
  BY DEF PublishExit, IInv, HandleHasOneOwner, NoLeakedChild,
     WatchdogGuardsTracked, Live, HelperState
<1> QED BY <1>1, <1>2, <1>3, <1>4, <1>5 DEF IInv

\* The handle is dropped: nothing is alive behind it.
LEMMA SettleKeeps ==
  ASSUME IInv, NEW t \in Task, Settle(t)
  PROVE  IInv'
<1>1. TypeOK'
  BY DEF Settle, Sigkill, IInv, TypeOK, ProcStatus, PcLabel, HelperState,
     history, Goto
<1>2. HandleHasOneOwner'
  BY DEF Settle, IInv, HandleHasOneOwner, HelperState
<1>3. NoLeakedChild'
  BY DEF Settle, Sigkill, IInv, NoLeakedChild, ChildBookkeeping, Live,
     HelperState
<1>4. ChildBookkeeping'
  BY DEF Settle, Sigkill, IInv, TypeOK, ChildBookkeeping, Live, HelperState,
     history, Goto
<1>5. WatchdogGuardsTracked' /\ ExitEventsAreHonest' /\ TrackedIsMonitored'
  BY DEF Settle, Sigkill, IInv, WatchdogGuardsTracked, ExitEventsAreHonest,
     TrackedIsMonitored, Live, HelperState, history
<1> QED BY <1>1, <1>2, <1>3, <1>4, <1>5 DEF IInv

\* A fresh pid has no history and no other owner.
LEMMA SpawnKeeps ==
  ASSUME IInv, NEW t \in Task, Spawn(t)
  PROVE  IInv'
<1>1. TypeOK'
  BY DEF Spawn, IInv, TypeOK, ProcStatus, PcLabel, HelperState, Goto
<1>2. HandleHasOneOwner'
  BY DEF Spawn, IInv, HandleHasOneOwner, ChildBookkeeping, HelperState
<1>3. NoLeakedChild'
  BY NoneIsNoValue DEF Spawn, IInv, TypeOK, NoLeakedChild, ChildBookkeeping,
     Live, HelperState
<1>4. WatchdogGuardsTracked'
  BY DEF Spawn, IInv, WatchdogGuardsTracked, ChildBookkeeping, HelperState
<1>5. ExitEventsAreHonest'
  BY DEF Spawn, IInv, ExitEventsAreHonest, ChildBookkeeping, Live
<1>6. TrackedIsMonitored'
  BY DEF Spawn, IInv, TrackedIsMonitored, HelperState
<1>7. ChildBookkeeping'
  BY NoneIsNoValue DEF Spawn, IInv, TypeOK, ChildBookkeeping, Live,
     HelperState, Goto
<1> QED BY <1>1, <1>2, <1>3, <1>4, <1>5, <1>6, <1>7 DEF IInv

\* The handle moves from the task to the state; a child that was there is
\* killed as it is dropped.
LEMMA StoreKeeps ==
  ASSUME IInv, NEW t \in Task, Store(t)
  PROVE  IInv'
<1>1. TypeOK'
  BY DEF Store, ArmWatchdog, Sigkill, SpawnMonitor, IInv, TypeOK,
     ChildBookkeeping, ProcStatus, PcLabel, OpName, Goto, Finish
<1>2. HandleHasOneOwner'
  BY DEF Store, IInv, TypeOK, HandleHasOneOwner
<1>3. NoLeakedChild'
  BY DEF Store, Sigkill, IInv, TypeOK, NoLeakedChild, Live
<1>4. WatchdogGuardsTracked'
  BY DEF Store, ArmWatchdog, IInv, WatchdogGuardsTracked, ChildBookkeeping
<1>5. ExitEventsAreHonest'
  BY DEF Store, Sigkill, IInv, TypeOK, ExitEventsAreHonest, Live
<1>6. TrackedIsMonitored'
  BY DEF Store, SpawnMonitor, IInv, TrackedIsMonitored, ChildBookkeeping
<1>7. ChildBookkeeping'
  BY DEF Store, Sigkill, IInv, TypeOK, HandleHasOneOwner, ChildBookkeeping,
     Live, Goto, Finish
<1> QED BY <1>1, <1>2, <1>3, <1>4, <1>5, <1>6, <1>7 DEF IInv

\* Only the tracked child is announced, and no task holds it.
LEMMA MonitorPollKeeps ==
  ASSUME IInv, NEW p \in Pid, MonitorPoll(p)
  PROVE  IInv'
<1>1. TypeOK'
  BY DEF MonitorPoll, ForgetTracked, SendExited, IInv, TypeOK, HelperState,
     taskVars
<1>2. HandleHasOneOwner'
  BY DEF MonitorPoll, ForgetTracked, IInv, HandleHasOneOwner, HelperState,
     taskVars
<1>3. NoLeakedChild'
  BY DEF MonitorPoll, our_child_still_tracked, IInv, NoLeakedChild, Live,
     HelperState, taskVars
<1>4. WatchdogGuardsTracked'
  BY DEF MonitorPoll, ForgetTracked, IInv, WatchdogGuardsTracked, HelperState
<1>5. ExitEventsAreHonest'
  BY NoneIsNoValue DEF MonitorPoll, our_child_still_tracked, SendExited, IInv,
     TypeOK, ExitEventsAreHonest, TrackedIsMonitored, Live
<1>6. TrackedIsMonitored'
  BY DEF MonitorPoll, our_child_still_tracked, ForgetTracked, IInv,
     TrackedIsMonitored, HelperState
<1>7. ChildBookkeeping'
  BY DEF MonitorPoll, our_child_still_tracked, ForgetTracked, SendExited,
     IInv, TypeOK, HandleHasOneOwner, ChildBookkeeping, Live, HelperState,
     taskVars
<1> QED BY <1>1, <1>2, <1>3, <1>4, <1>5, <1>6, <1>7 DEF IInv

\* A child that exits loses no owner.
LEMMA ChildExitsKeeps ==
  ASSUME IInv, NEW p \in Pid, ChildExits(p)
  PROVE  IInv'
<1>1. TypeOK'
  BY DEF ChildExits, IInv, TypeOK, ProcStatus, HelperState, taskVars, history
<1>2. NoLeakedChild'
  BY DEF ChildExits, IInv, NoLeakedChild, Live, HelperState, taskVars
<1>3. ExitEventsAreHonest'
  BY DEF ChildExits, IInv, ExitEventsAreHonest, Live, history
<1>4. ChildBookkeeping'
  BY DEF ChildExits, IInv, ChildBookkeeping, Live, HelperState, taskVars,
     history
<1>5. HandleHasOneOwner' /\ WatchdogGuardsTracked' /\ TrackedIsMonitored'
  BY DEF ChildExits, IInv, HandleHasOneOwner, WatchdogGuardsTracked,
     TrackedIsMonitored, HelperState, taskVars, history
<1> QED BY <1>1, <1>2, <1>3, <1>4, <1>5 DEF IInv

\* Everything the helper knew is gone, and every child is an orphan.
LEMMA HelperGoneKeeps ==
  ASSUME IInv, HelperGone
  PROVE  IInv'
<1>1. TypeOK'
  BY DEF HelperGone, IInv, TypeOK, PcLabel, OpName, history
<1>2. NoLeakedChild'
  BY DEF HelperGone, NoLeakedChild, Live
<1>3. ExitEventsAreHonest'
  BY DEF HelperGone, IInv, ExitEventsAreHonest, Live, history
<1>4. ChildBookkeeping'
  BY DEF HelperGone, IInv, ChildBookkeeping, history
<1>5. HandleHasOneOwner' /\ WatchdogGuardsTracked' /\ TrackedIsMonitored'
  BY DEF HelperGone, HandleHasOneOwner, WatchdogGuardsTracked,
     TrackedIsMonitored
<1> QED BY <1>1, <1>2, <1>3, <1>4, <1>5 DEF IInv

-----------------------------------------------------------------------------
\* IInv is inductive: no step of any task, of the monitors or of the world
\* breaks it.
LEMMA NextKeeps == IInv /\ [Next]_vars => IInv'
<1> SUFFICES ASSUME IInv, [Next]_vars PROVE IInv'
  OBVIOUS
<1>1. ASSUME NEW t \in Task, StopStep(t) PROVE IInv'
  BY <1>1, TakeChildKeeps, ReapKeeps, EscalateKeeps, PublishExitKeeps,
     SettleKeeps DEF StopStep
<1>2. ASSUME NEW c \in Client, ClientStep(c) PROVE IInv'
  BY <1>1, <1>2, ReturnKeeps, SpawnKeeps, StoreKeeps DEF ClientStep, Task
<1>3. CASE WatchdogStep
  BY <1>1, <1>3, WatchKeeps, ReturnKeeps DEF WatchdogStep, Task
<1>4. CASE HelperExits \/ HelperCrashes
  BY <1>4, HelperGoneKeeps DEF HelperExits, HelperCrashes
<1>5. CASE UNCHANGED vars
  BY <1>5 DEF vars, IInv, TypeOK, HandleHasOneOwner, NoLeakedChild,
     WatchdogGuardsTracked, ExitEventsAreHonest, TrackedIsMonitored,
     ChildBookkeeping, Live, HelperState, taskVars, history
<1> QED
  BY <1>1, <1>2, <1>3, <1>4, <1>5, RequestKeeps, WatchKeeps, WorldKeeps,
     MonitorPollKeeps, ChildExitsKeeps DEF Next, Task

\* A helper that just started has nothing to account for.
LEMMA InitHolds == Init => IInv
<1> SUFFICES ASSUME Init PROVE IInv
  OBVIOUS
<1>1. TypeOK
  BY DEF Init, TypeOK, ProcStatus, PcLabel, OpName
<1>2. HandleHasOneOwner /\ WatchdogGuardsTracked /\ TrackedIsMonitored
  BY DEF Init, HandleHasOneOwner, WatchdogGuardsTracked, TrackedIsMonitored
<1>3. NoLeakedChild /\ ExitEventsAreHonest
  BY DEF Init, NoLeakedChild, ExitEventsAreHonest, Live
<1>4. ChildBookkeeping
  BY DEF Init, ChildBookkeeping
<1> QED BY <1>1, <1>2, <1>3, <1>4 DEF IInv

\* The inductive invariant holds in every reachable state.
THEOREM Inductive == Spec => []IInv
  BY InitHolds, NextKeeps, PTL DEF Spec

\* The values of every variable stay in their types.
THEOREM TypeCorrect == Spec => []TypeOK
  BY Inductive, PTL DEF IInv

\* Two tasks never own the same child, and none owns the tracked one.
THEOREM OneOwner == Spec => []HandleHasOneOwner
  BY Inductive, PTL DEF IInv

\* While the helper lives, every live child is tracked or in a task's hands.
THEOREM NoLeak == Spec => []NoLeakedChild
  BY Inductive, PTL DEF IInv

\* The watchdog guards the app that asked for the tracked child, no other.
THEOREM WatchdogTarget == Spec => []WatchdogGuardsTracked
  BY Inductive, PTL DEF IInv

\* At most one exited event per child, after its started event, once it is gone.
THEOREM HonestEvents == Spec => []ExitEventsAreHonest
  BY Inductive, PTL DEF IInv

\* The tracked child is monitored and was not announced as gone.
THEOREM Monitored == Spec => []TrackedIsMonitored
  BY Inductive, PTL DEF IInv

\* The records of the tracked child never disagree.
THEOREM Agreement == Spec => []RecordsAgree
  BY Inductive, PTL DEF IInv, RecordsAgree

\* Where a task is tells what was done to the child in its hands.
THEOREM Bookkeeping == Spec => []ChildBookkeeping
  BY Inductive, PTL DEF IInv

-----------------------------------------------------------------------------
(***************************************************************************)
(* Refinement: what each step does to the life of each child.              *)
(***************************************************************************)

\* Two functions on Pid that agree except at p.
LEMMA OneMoves ==
  ASSUME NEW p \in Pid, NEW s, NEW f, NEW g,
         f = [q \in Pid |-> f[q]], g = [q \in Pid |-> g[q]],
         g[p] = s, \A q \in Pid : q # p => g[q] = f[q]
  PROVE  g = [f EXCEPT ![p] = s]
  OBVIOUS

\* Before and after a step, stage is a function on the pids.
LEMMA StageIsFunction ==
  /\ stage = [p \in Pid |-> stage[p]]
  /\ stage' = [p \in Pid |-> stage'[p]]
  BY DEF stage

\* Accepting a request moves no child.
LEMMA RequestStutters ==
  ASSUME IInv, IInv', NEW c \in Client,
         RequestStart(c) \/ RequestStop(c) \/ RequestShutdown(c)
  PROVE  UNCHANGED <<stage, live>>
  BY DEF stage, live, RequestStart, RequestStop, RequestShutdown, Request,
     IInv, ChildBookkeeping, Live, HelperState, history

\* A signal that arrives, or a look by the watchdog, moves no child.
LEMMA WatchStutters ==
  ASSUME IInv, IInv', SignalArrives \/ WatchdogRead \/ WatchdogCheck
  PROVE  UNCHANGED <<stage, live>>
  BY DEF stage, live, SignalArrives, WatchdogRead, WatchdogCheck, IInv,
     ChildBookkeeping, Live, HelperState, history

\* Reaping a child that exited moves it nowhere: it was dead before.
LEMMA ReapStutters ==
  ASSUME IInv, IInv', NEW t \in Task, Reap(t)
  PROVE  UNCHANGED <<stage, live>>
  BY DEF stage, live, Reap, Live

\* Answering a request moves no child.
LEMMA ReturnStutters ==
  ASSUME IInv, IInv', NEW t \in Task,
         ReturnFromStop(t) \/ ReturnFromShutdown(t) \/ SpawnFails(t)
  PROVE  UNCHANGED <<stage, live>>
  BY DEF stage, live, ReturnFromStop, ReturnFromShutdown, SpawnFails, IInv,
     ChildBookkeeping, Live, HelperState, history

\* An app process that dies, or a helper that comes back, moves no child.
LEMMA WorldStutters ==
  ASSUME IInv, IInv', (\E a \in App : AppDies(a)) \/ HelperRestarts
  PROVE  UNCHANGED <<stage, live>>
  BY DEF stage, live, AppDies, HelperRestarts, Live, HelperState, taskVars,
     history

\* The child was announced before, so dropping its handle changes nothing.
LEMMA SettleStutters ==
  ASSUME IInv, IInv', NEW t \in Task, Settle(t)
  PROVE  UNCHANGED <<stage, live>>
<1>1. child[t] \in Pid /\ ~Live(child[t]) /\ exits[child[t]] > 0
  BY DEF Settle, IInv, TypeOK, ChildBookkeeping
<1>2. UNCHANGED proc
  BY <1>1 DEF Settle, Sigkill, IInv, TypeOK
<1>3. \A p \in Pid : stage'[p] = stage[p]
  BY <1>1, <1>2 DEF stage
<1> QED BY <1>2, <1>3, StageIsFunction DEF live, Live

\* stop takes the tracked child, if there is one.
LEMMA TakeChildTakes ==
  ASSUME IInv, IInv', NEW t \in Task, TakeChild(t)
  PROVE  UNCHANGED <<stage, live>> \/ \E p \in Pid : Lifecycle!Take(p)
<1>1. CASE singbox = None
  BY <1>1 DEF stage, live, Live, TakeChild, ForgetTracked, history, IInv,
     ChildBookkeeping
<1>2. CASE singbox # None
  <2>1. PICK q \in Pid : q = singbox
    BY <1>2 DEF IInv, TypeOK
  <2>2. stage[q] = "tracked"
    BY <2>1, <1>2 DEF stage, IInv, HandleHasOneOwner
  <2>3. stage'[q] = "stopping"
    BY <2>1, <1>2 DEF stage, TakeChild, history, IInv, TypeOK,
       TrackedIsMonitored, ChildBookkeeping
  <2>4. \A p \in Pid : p # q => stage'[p] = stage[p]
    BY <2>1, <1>2, NoneIsNoValue DEF stage, Sigterm, TakeChild, ForgetTracked,
       history, IInv, TypeOK, ChildBookkeeping
  <2>5. UNCHANGED live
    BY <1>2, <2>1 DEF live, Live, Sigterm, TakeChild, IInv, TypeOK
  <2>6. stage' = [stage EXCEPT ![q] = "stopping"]
    BY <2>3, <2>4, StageIsFunction
  <2> QED BY <2>2, <2>5, <2>6 DEF Lifecycle!Take
<1> QED BY <1>1, <1>2

\* start begins the life of one child.
LEMMA SpawnSpawns ==
  ASSUME IInv, IInv', NEW t \in Task, Spawn(t)
  PROVE  \E p \in Pid : Lifecycle!Spawn(p)
<1>1. PICK p \in Pid : /\ proc[p] = "unused"
                       /\ proc' = [proc EXCEPT ![p] = "running"]
                       /\ child' = [child EXCEPT ![t] = p]
  BY DEF Spawn
<1>2. stage[p] = "unborn"
  BY <1>1, NoneIsNoValue DEF stage, IInv, ChildBookkeeping
<1>3. stage'[p] = "starting"
  BY <1>1, NoneIsNoValue DEF stage, Spawn, IInv, TypeOK, ChildBookkeeping
<1>4. \A q \in Pid : q # p => stage'[q] = stage[q]
  BY <1>1, NoneIsNoValue DEF stage, Spawn, HelperState, IInv, ChildBookkeeping
<1>5. live' = live \cup {p}
  BY <1>1 DEF live, Live, IInv, TypeOK
<1>6. stage' = [stage EXCEPT ![p] = "starting"]
  BY <1>3, <1>4, StageIsFunction
<1> QED BY <1>2, <1>5, <1>6 DEF Lifecycle!Spawn

\* The escalation kills the child in hand, unless it is being killed already.
LEMMA EscalateKills ==
  ASSUME IInv, IInv', NEW t \in Task, Escalate(t)
  PROVE  UNCHANGED <<stage, live>> \/ Lifecycle!Dies(child[t])
  BY DEF stage, live, Lifecycle!Dies, Escalate, Sigkill, Live, HelperState,
     history, Goto

\* The exited event of stop ends the life of the child in hand.
LEMMA PublishAnnounces ==
  ASSUME IInv, IInv', NEW t \in Task, PublishExit(t)
  PROVE  Lifecycle!Announce(child[t])
  BY NoneIsNoValue, TasksAreDistinct DEF stage, live, Lifecycle!Announce,
     PublishExit, SendExited, IInv, TypeOK, HandleHasOneOwner,
     ExitEventsAreHonest, TrackedIsMonitored, ChildBookkeeping, Task, Live,
     HelperState, taskVars, history, Goto, Finish

\* start's second section tracks its child and replaces the one it finds.
LEMMA StoreTracks ==
  ASSUME IInv, IInv', NEW t \in Task, Store(t)
  PROVE  Lifecycle!Track(child[t])
  BY NoneIsNoValue, TasksAreDistinct DEF stage, live, Lifecycle!Track, Store,
     ArmWatchdog, Sigkill, SpawnMonitor, IInv, TypeOK, HandleHasOneOwner,
     ExitEventsAreHonest, TrackedIsMonitored, ChildBookkeeping, Task, Live,
     HelperState, taskVars, history, Goto, Finish

\* A monitor announces the tracked child's death, or changes nothing.
LEMMA PollAnnounces ==
  ASSUME IInv, IInv', NEW p \in Pid, MonitorPoll(p)
  PROVE  UNCHANGED <<stage, live>> \/ Lifecycle!Announce(p)
<1>1. CASE ~our_child_still_tracked(p)
  BY <1>1 DEF stage, live, MonitorPoll, HelperState, taskVars, Live
<1>2. CASE our_child_still_tracked(p)
  <2>1. singbox = p /\ proc[p] = "dead" /\ p \notin live
    BY <1>2 DEF MonitorPoll, our_child_still_tracked, live, Live
  <2>2. singbox' = None /\ exits' = [exits EXCEPT ![p] = @ + 1]
    BY <1>2 DEF MonitorPoll, ForgetTracked, SendExited
  <2>3. UNCHANGED <<proc, orphans, taskVars, live>>
    BY DEF MonitorPoll, live, Live
  <2>4. stage[p] = "tracked" /\ stage'[p] = "exited"
    <3>1. proc[p] # "unused" /\ p \notin orphans /\ exits[p] = 0
      BY <2>1, NoneIsNoValue DEF IInv, TrackedIsMonitored, ChildBookkeeping
    <3>2. exits'[p] = 1 /\ proc'[p] # "unused" /\ p \notin orphans'
      BY <2>2, <2>3, <3>1 DEF IInv, TypeOK
    <3>3. (\A t \in Task : child[t] # p) /\ UNCHANGED child /\ singbox' # p
      BY <2>1, <2>2, <2>3, NoneIsNoValue DEF IInv, HandleHasOneOwner, taskVars
    <3> QED BY <2>1, <3>1, <3>2, <3>3 DEF stage
  <2>5. \A q \in Pid : q # p => stage'[q] = stage[q]
    BY <2>1, <2>2, <2>3, NoneIsNoValue DEF stage, taskVars, IInv, TypeOK
  <2>6. stage' = [stage EXCEPT ![p] = "exited"]
    BY <2>4, <2>5, StageIsFunction
  <2> QED BY <2>1, <2>3, <2>4, <2>6 DEF Lifecycle!Announce
<1> QED BY <1>1, <1>2

\* A child that exits dies once: after a SIGKILL it counts as dead already.
LEMMA ExitKills ==
  ASSUME IInv, IInv', NEW p \in Pid, ChildExits(p)
  PROVE  UNCHANGED <<stage, live>> \/ Lifecycle!Dies(p)
  BY DEF stage, live, Lifecycle!Dies, ChildExits, Live, HelperState, taskVars,
     history

\* A helper that is gone loses every child it had.
LEMMA GoneLoses ==
  ASSUME IInv, IInv', HelperGone
  PROVE  Lifecycle!HelperGone
  BY NoneIsNoValue DEF stage, live, Lifecycle!HelperGone, HelperGone, IInv,
     ChildBookkeeping, Live

\* A task inside stop or start holds a real child.
LEMMA HandleIsPid ==
  ASSUME IInv, NEW t \in Task, pc[t] \in {"reap", "publish", "settle", "store"}
  PROVE  child[t] \in Pid
  BY DEF IInv, TypeOK, ChildBookkeeping

\* Every step of the helper is a step of ChildLifecycle or a stutter.
LEMMA StepRefines ==
  IInv /\ IInv' /\ [Next]_vars => [Lifecycle!Next]_(Lifecycle!vars)
<1> SUFFICES ASSUME IInv, IInv', [Next]_vars
             PROVE  Lifecycle!Next \/ UNCHANGED <<stage, live>>
  BY DEF Lifecycle!vars
<1>1. ASSUME NEW t \in Task, StopStep(t)
      PROVE  Lifecycle!Next \/ UNCHANGED <<stage, live>>
  <2>1. CASE TakeChild(t)
    BY <2>1, TakeChildTakes DEF Lifecycle!Next
  <2>2. CASE Reap(t)
    BY <2>2, ReapStutters
  <2>3. CASE Escalate(t)
    BY <2>3, EscalateKills, HandleIsPid DEF Escalate, Lifecycle!Next
  <2>4. CASE PublishExit(t)
    BY <2>4, PublishAnnounces, HandleIsPid DEF PublishExit, Lifecycle!Next
  <2>5. CASE Settle(t)
    BY <2>5, SettleStutters
  <2> QED BY <1>1, <2>1, <2>2, <2>3, <2>4, <2>5 DEF StopStep
<1>2. ASSUME NEW c \in Client, ClientStep(c)
      PROVE  Lifecycle!Next \/ UNCHANGED <<stage, live>>
  <2>1. c \in Task
    BY DEF Task
  <2>2. CASE Spawn(c)
    BY <2>1, <2>2, SpawnSpawns DEF Lifecycle!Next
  <2>3. CASE Store(c)
    BY <2>1, <2>3, StoreTracks, HandleIsPid DEF Store, Lifecycle!Next
  <2> QED BY <1>1, <1>2, <2>1, <2>2, <2>3, ReturnStutters DEF ClientStep
<1>3. CASE WatchdogStep
  BY <1>1, <1>3, WatchStutters, ReturnStutters DEF WatchdogStep, Task
<1>4. CASE HelperExits \/ HelperCrashes
  BY <1>4, GoneLoses DEF HelperExits, HelperCrashes, Lifecycle!Next
<1>5. ASSUME NEW p \in Pid, MonitorPoll(p) \/ ChildExits(p)
      PROVE  Lifecycle!Next \/ UNCHANGED <<stage, live>>
  BY <1>5, PollAnnounces, ExitKills DEF Lifecycle!Next
<1>6. CASE UNCHANGED vars
  BY <1>6 DEF vars, stage, live, Live
<1> QED
  BY <1>1, <1>2, <1>3, <1>4, <1>5, <1>6, RequestStutters, WatchStutters,
     WorldStutters DEF Next, Task

\* Whatever the helper's tasks do, each child is started, tracked, announced
\* or replaced in the order ChildLifecycle allows.
THEOREM Refinement == Spec => ImplementsLifecycle
<1>1. Init => Lifecycle!Init
  BY NoneIsNoValue DEF Init, Lifecycle!Init, stage, live, Live
<1> QED
  BY <1>1, StepRefines, Inductive, PTL DEF Spec, ImplementsLifecycle,
     Lifecycle!Spec
=============================================================================
