----------------------------- MODULE Connection -----------------------------
(***************************************************************************)
(* How the window keeps the user on a working tunnel: the gate that covers *)
(* the app until the tunnel is up (views/tun/TunGate.tsx), the watch over a *)
(* running tunnel (TerminalApp.tsx: the poll of the process, the check of  *)
(* the exit address, the interface alert, the push of the status), the     *)
(* automatic reconnect and the one of the popover (NetworkPopover.tsx),    *)
(* and what the main process answers (tun:* of index.ts, testConnectivity  *)
(* of proxy/sing-box-manager.ts).                                          *)
(*                                                                         *)
(* Every await of the window is a state of its own, and anything may come  *)
(* in between.  A push and a reply arrive in the order they were sent: a   *)
(* reply waits for a push.  Time passes as it likes: a timer fires at any  *)
(* moment after it was set.                                                *)
(*                                                                         *)
(* Abstracted: the tunnel itself (TunManager) is up or down; addresses are *)
(* right or wrong; the platform is one where probes run (on macOS          *)
(* testConnectivity answers without them); the exit address of the account *)
(* is known (without it the window checks nothing); tun:recentActivity, a  *)
(* look into the log, answers at once.                                     *)
(***************************************************************************)
EXTENDS Naturals, FiniteSets

CONSTANTS
  MaxWatches,  \* bound: watches over a running tunnel, ended ones with an answer due included
  MaxGates,    \* bound: gates, unmounted ones still at work included
  MaxTests,    \* bound: checks of one watch under way
  MaxAlerts    \* bound: tests after an interface alert under way

ASSUME ConnectionBounds == {MaxWatches, MaxGates, MaxTests, MaxAlerts} \subseteq Nat

Watches == 1 .. MaxWatches
Gates == 1 .. MaxGates

VARIABLES
  \* the main process and the world
  up,            \* sing-box runs
  reachable,     \* _internetReachable
  hijacked,      \* traffic leaves through another VPN
  push,          \* a status update "not running" is on its way
  \* TerminalApp
  loggedIn, tunOk,
  reconnecting,  \* useNetworkStore.reconnecting
  reconnect,     \* calls of tun:reconnect and the tests after them: who made them
  watch,         \* the current instance of the watch, or 0
  loop,          \* per watch: what its closures hold
  alerts,        \* watches whose interface alert awaits a test
  \* TunGate
  mounted,       \* the gate on display, or 0
  gate           \* per gate: how far its connect has come

tunnelVars == <<up, reachable, hijacked, push>>
appVars == <<loggedIn, tunOk, watch, mounted>>
connVars == <<tunnelVars, appVars, reconnecting, reconnect, loop, alerts, gate>>

NewLoop == [timer |-> FALSE, testing |-> 0, fails |-> 0, attempted |-> FALSE,
            offer |-> FALSE, poll |-> FALSE, pollFails |-> 0,
            cut |-> FALSE]  \* history: CutShort
NewGate == [pc |-> "off", try |-> 0]

ConnInit ==
  /\ up \in BOOLEAN /\ reachable = FALSE /\ hijacked = FALSE /\ push = FALSE
  /\ loggedIn = TRUE /\ tunOk = FALSE
  /\ reconnecting = FALSE /\ reconnect = {}
  /\ watch = 0
  /\ loop = [w \in Watches |-> NewLoop]
  /\ alerts = {}
  /\ mounted = 1
  /\ gate = [g \in Gates |-> IF g = 1 THEN [NewGate EXCEPT !.pc = "info"] ELSE NewGate]

-----------------------------------------------------------------------------
(* What React renders: a gate while logged in without a tunnel, the watch  *)
(* while logged in with one.  Ending a watch clears its timers.            *)

Clear(l) == [NewLoop EXCEPT !.testing = l.testing, !.poll = l.poll,
                            !.pollFails = IF l.poll THEN l.pollFails ELSE 0]

\* Nothing of an instance is left: its place in the model is free.
Gone(w, l) == /\ w # watch /\ l[w] = NewLoop /\ w \notin alerts
              /\ \A x \in reconnect : x.by # w
Unused(g, gs) == g # mounted /\ gs[g].pc \in {"off", "failed"}

(***************************************************************************)
(* The next state of the app's parts, given that of loggedIn and tunOk,    *)
(* the loops l and the gates g as the handler leaves them.                 *)
(***************************************************************************)
Render(in, ok, l, g) ==
  /\ loggedIn' = in /\ tunOk' = ok
  /\ IF in /\ ok /\ watch = 0
     THEN \E w \in {x \in Watches : Gone(x, l) /\ \A y \in 1 .. x - 1 : ~Gone(y, l)} :
            watch' = w /\ loop' = [l EXCEPT ![w] = [NewLoop EXCEPT !.timer = TRUE]]
     ELSE IF watch # 0 /\ ~(in /\ ok)
     THEN watch' = 0 /\ loop' = [l EXCEPT ![watch] = Clear(@)]
     ELSE watch' = watch /\ loop' = l
  /\ IF in /\ ~ok /\ mounted = 0
     THEN \E n \in {x \in Gates : Unused(x, g) /\ \A y \in 1 .. x - 1 : ~Unused(y, g)} :
            mounted' = n /\ gate' = [g EXCEPT ![n] = [NewGate EXCEPT !.pc = "info"]]
     ELSE mounted' = (IF in /\ ~ok THEN mounted ELSE 0) /\ gate' = g

SetTunOk(ok, l, g) == Render(loggedIn, ok, l, g)

\* The exit address of the account or the language changes: the effect ends
\* the watch and begins one anew.
Remount ==
  /\ watch # 0
  /\ \E w \in Watches :
       /\ Gone(w, loop) /\ \A y \in 1 .. w - 1 : ~Gone(y, loop)
       /\ watch' = w
       /\ loop' = [loop EXCEPT ![watch] = Clear(@), ![w] = [NewLoop EXCEPT !.timer = TRUE]]
  /\ UNCHANGED <<tunnelVars, loggedIn, tunOk, mounted, reconnecting, reconnect, alerts, gate>>

-----------------------------------------------------------------------------
(* The main process.                                                       *)

\* What the probes tell that get through: probeOne of the trace brings the
\* address the packets leave from, unless another probe answers first.
Probe == IF ~up THEN {} ELSE {"lost", "reached"} \cup (IF hijacked THEN {"wrong"} ELSE {})

\* What the log of sing-box tells of the last half minute.
recentOutboundActivity == BOOLEAN

\* What testConnectivity may find.  A hijack may go unnoticed.
Outcomes == IF ~up THEN {"down"}
            ELSE {IF p = "wrong" THEN "mismatch"
                  ELSE IF p = "reached" \/ active THEN "ok" ELSE "fail" :
                  p \in Probe, active \in recentOutboundActivity}

\* testConnectivity: remembers what it found.
Tested(r) == reachable' = (r = "ok") /\ UNCHANGED <<up, hijacked>>

\* A test of a tunnel that is down sends the status before it answers, and
\* the window handles that first: true if the handler of the answer still
\* finds its watch alive.
StillWatched(w, r) == w = watch /\ ~(r = "down" /\ ~reconnecting)

\* onStatusUpdate: the tunnel is not running.
Down == tunOk /\ ~reconnecting

OnPush ==
  /\ push /\ push' = FALSE
  /\ SetTunOk(tunOk /\ ~Down, loop, gate)
  /\ UNCHANGED <<up, reachable, hijacked, reconnecting, reconnect, alerts>>

\* sing-box dies; the helper's event gets through or is lost.  Whoever reads
\* _internetReachable reconciles first, and that resets it.
Die ==
  /\ up /\ up' = FALSE /\ reachable' = FALSE
  /\ push' \in {TRUE, push}
  /\ UNCHANGED <<hijacked, appVars, reconnecting, reconnect, loop, alerts, gate>>

\* Another VPN takes over the routes.
Hijack ==
  /\ up /\ ~hijacked /\ hijacked' = TRUE
  /\ UNCHANGED <<up, reachable, push, appVars, reconnecting, reconnect, loop, alerts, gate>>

\* A tunnel that is set up anew has its own routes.
Started == up' = TRUE /\ hijacked' = FALSE /\ reachable' = FALSE

Stopped == up' = FALSE /\ hijacked' = FALSE /\ reachable' = FALSE /\ push' = (push \/ up)

-----------------------------------------------------------------------------
(* TunGate.connect.  A gate that was unmounted goes on.                    *)

Goto(g, pc) == [gate EXCEPT ![g] = [NewGate EXCEPT !.pc =
                  IF pc = "failed" /\ mounted # g THEN "off" ELSE pc]]

Stay == UNCHANGED <<appVars, loop>>

\* tun:getInfo: up and tested before, up, or down.
GateInfo(g) ==
  /\ gate[g].pc = "info" /\ ~push
  /\ gate' = Goto(g, IF up /\ reachable THEN "ready" ELSE IF up THEN "test" ELSE "resolve")
  /\ UNCHANGED tunnelVars

\* The test of a tunnel that was up, and the second opinion of the log.
GateTest(g) ==
  /\ gate[g].pc = "test" /\ ~push
  /\ \E r \in Outcomes, active \in recentOutboundActivity :
       /\ Tested(r) /\ push' = FALSE
       /\ gate' = Goto(g, IF r = "ok" \/ (r # "mismatch" /\ active) THEN "ready" ELSE "stop")

\* tun:stop.
GateStop(g) ==
  /\ gate[g].pc = "stop" /\ ~push
  /\ Stopped
  /\ gate' = Goto(g, "resolve")

\* tun:install and proxy:resolveUrl.
GateResolve(g) ==
  /\ gate[g].pc = "resolve" /\ ~push
  /\ \E ok \in BOOLEAN : gate' = Goto(g, IF ok THEN "start" ELSE "failed")
  /\ UNCHANGED tunnelVars

\* tun:startTun; a tunnel that is up is left alone.
GateStart(g) ==
  /\ gate[g].pc = "start" /\ ~push
  /\ \/ /\ IF up THEN UNCHANGED <<up, hijacked, reachable>> ELSE Started
        /\ gate' = [gate EXCEPT ![g] = [pc |-> "probe", try |-> 1]]
     \/ /\ UNCHANGED <<up, hijacked, reachable>>
        /\ gate' = Goto(g, "failed")
  /\ UNCHANGED push

\* The tests after the start, three at most, and the second opinion.
GateProbe(g) ==
  /\ gate[g].pc = "probe" /\ ~push
  /\ \E r \in Outcomes, active \in recentOutboundActivity :
       /\ Tested(r) /\ push' = FALSE
       /\ gate' = IF r = "ok" THEN Goto(g, "ready")
                  ELSE IF gate[g].try < 3 THEN [gate EXCEPT ![g].try = @ + 1]
                  ELSE Goto(g, IF r # "mismatch" /\ active THEN "ready" ELSE "failed")

\* onReady, 300 ms after the gate said connected.
GateReady(g) ==
  /\ gate[g].pc = "ready"
  /\ Render(loggedIn, TRUE, loop, Goto(g, "off"))
  /\ UNCHANGED tunnelVars

\* The Retry button.
GateRetry(g) ==
  /\ gate[g].pc = "failed" /\ mounted = g
  /\ gate' = Goto(g, "info")
  /\ UNCHANGED <<tunnelVars, appVars, loop, reconnecting, reconnect, alerts>>

GateStep(g) ==
  /\ \/ /\ \/ GateInfo(g) \/ GateTest(g) \/ GateStop(g)
           \/ GateResolve(g) \/ GateStart(g) \/ GateProbe(g)
        /\ Stay
     \/ GateReady(g)
  /\ UNCHANGED <<reconnecting, reconnect, alerts>>

-----------------------------------------------------------------------------
(* The check of the exit address: runCheck and triggerReconnect.           *)

Schedule(w, l) == IF w = watch THEN [l EXCEPT ![w].timer = TRUE] ELSE l

Reconnecting(w) == [by |-> w, step |-> "call"]

\* Mutant: a reconnect under way is not noticed.
triggerReconnectAnyway(w) ==
  /\ reconnecting' = TRUE
  /\ reconnect' = reconnect \cup {Reconnecting(w)}
  /\ up' = FALSE /\ hijacked' = FALSE /\ push' = (push \/ up)

\* triggerReconnect up to its await; nothing while another reconnect runs.
\* tun:reconnect stops the tunnel first.
triggerReconnect(w) ==
  IF reconnecting THEN UNCHANGED <<up, hijacked, push, reconnecting, reconnect>>
  ELSE /\ reconnecting' = TRUE
       /\ reconnect' = reconnect \cup {Reconnecting(w)}
       /\ up' = FALSE /\ hijacked' = FALSE /\ push' = (push \/ up)

\* The timer: a call of testConnectivity, or none while a reconnect runs.
CheckTimer(w) ==
  /\ loop[w].timer
  /\ loop' = IF reconnecting \/ loop[w].testing = MaxTests THEN loop
             ELSE [loop EXCEPT ![w].timer = FALSE, ![w].testing = @ + 1]
  /\ UNCHANGED <<tunnelVars, appVars, reconnecting, reconnect, alerts, gate>>

Answered(w) == [loop EXCEPT ![w].testing = @ - 1]

\* The answer came after the watch had ended.
CheckLate(w, r) ==
  /\ ~StillWatched(w, r)
  /\ SetTunOk(tunOk /\ ~(r = "down" /\ Down), Answered(w), gate)
  /\ UNCHANGED <<up, hijacked, push, reconnecting, reconnect>>

\* Mutant: after a good answer the next check is not scheduled.
CheckGoodIsLast(w, r) ==
  /\ StillWatched(w, r) /\ r # "mismatch"
  /\ loop' = [Answered(w) EXCEPT ![w].fails = 0, ![w].offer = FALSE,
                                 ![w].attempted = IF r = "ok" THEN FALSE ELSE @]
  /\ UNCHANGED <<up, hijacked, push, appVars, reconnecting, reconnect, gate>>

\* A good answer, or a bad one while traffic flows.
CheckGood(w, r) ==
  /\ StillWatched(w, r) /\ r # "mismatch"
  /\ loop' = LET l == Schedule(w, Answered(w))
             IN  [l EXCEPT ![w].fails = 0, ![w].offer = FALSE,
                           ![w].attempted = IF r = "ok" THEN FALSE ELSE @]
  /\ UNCHANGED <<up, hijacked, push, appVars, reconnecting, reconnect, gate>>

\* A wrong address: the gate.
CheckMismatch(w, r) ==
  /\ StillWatched(w, r) /\ r = "mismatch"
  /\ SetTunOk(FALSE, Answered(w), gate)
  /\ UNCHANGED <<up, hijacked, push, reconnecting, reconnect>>

\* A reconnect is asked for while another one, of the popover, runs: nothing
\* comes of it, and nobody schedules the next check.
CutShort(w) == reconnecting /\ \A x \in reconnect : x.by # w

\* A failure: at the second an offer to reconnect, at the third a reconnect.
CheckBad(w, r) ==
  /\ StillWatched(w, r) /\ r \in {"fail", "down"}
  /\ LET fails == IF loop[w].fails < 3 THEN loop[w].fails + 1 ELSE 3
         l == [Answered(w) EXCEPT ![w].fails = fails, ![w].offer = @ \/ fails = 2]
     IN  IF fails = 3 /\ ~loop[w].attempted
         THEN /\ loop' = [l EXCEPT ![w].attempted = TRUE, ![w].offer = FALSE,
                                   ![w].cut = CutShort(w)]
              /\ triggerReconnect(w)
         ELSE /\ loop' = Schedule(w, l)
              /\ UNCHANGED <<up, hijacked, push, reconnecting, reconnect>>
  /\ UNCHANGED <<appVars, gate>>

CheckFinds(w, r) ==
  /\ loop[w].testing > 0 /\ ~push
  /\ r \in Outcomes
  /\ CheckLate(w, r) \/ CheckGood(w, r) \/ CheckMismatch(w, r) \/ CheckBad(w, r)
  /\ reachable' = (r = "ok")
  /\ UNCHANGED alerts

Check(w) == \E r \in Outcomes : CheckFinds(w, r)

\* The stop of a reconnect resets _internetReachable.
StopForgets == reachable' = (reachable /\ up')

\* The button of the offer.
AcceptOffer(w) ==
  /\ loop[w].offer /\ w = watch
  /\ loop' = [loop EXCEPT ![w].attempted = TRUE]
  /\ triggerReconnect(w)
  /\ StopForgets
  /\ UNCHANGED <<appVars, alerts, gate>>

\* The popover's button, also while the watch is checking.
PopoverReconnect ==
  /\ tunOk /\ loggedIn /\ ~reconnecting
  /\ triggerReconnect(0)
  /\ StopForgets
  /\ UNCHANGED <<appVars, loop, alerts, gate>>

\* A new alert takes the place of the offer.
NoOffer(w, l) == [l EXCEPT ![w].offer = FALSE]

\* Mutant: the flag stays up.
FinallyKeepsFlag(x, l) ==
  /\ UNCHANGED reconnecting
  /\ reconnect' = reconnect \ {x}
  /\ loop' = IF x.by = 0 THEN l ELSE Schedule(x.by, NoOffer(x.by, l))

\* Mutant: nobody schedules the next check.
FinallySchedulesNothing(x, l) ==
  /\ reconnecting' = FALSE
  /\ reconnect' = reconnect \ {x}
  /\ loop' = IF x.by = 0 THEN l ELSE NoOffer(x.by, l)

\* finally: the flag is dropped, and the watch that asked goes on.
Finally(x, l) ==
  /\ reconnecting' = FALSE
  /\ reconnect' = reconnect \ {x}
  /\ loop' = IF x.by = 0 THEN l ELSE Schedule(x.by, NoOffer(x.by, l))

\* tun:reconnect answers: a test follows, an alert, or the gate when the
\* user has to authorize.  (A watch that has ended ignores the answer.)
ReconnectAnswer(x) ==
  /\ x.step = "call" /\ ~push
  /\ \/ /\ Started
        /\ IF x.by \in {0, watch}
           THEN /\ reconnect' = (reconnect \ {x}) \cup {[x EXCEPT !.step = "verify"]}
                /\ UNCHANGED <<reconnecting, loop>>
           ELSE Finally(x, loop)
        /\ UNCHANGED <<appVars, gate>>
     \/ /\ UNCHANGED <<up, hijacked, reachable, appVars, gate>>
        /\ Finally(x, loop)
     \/ /\ x.by # 0 /\ x.by = watch
        /\ UNCHANGED <<up, hijacked, reachable>>
        /\ reconnecting' = FALSE /\ reconnect' = reconnect \ {x}
        /\ SetTunOk(FALSE, Schedule(x.by, loop), gate)
  /\ UNCHANGED <<push, alerts>>

\* The test after the reconnect.
ReconnectVerify(x) ==
  /\ x.step = "verify" /\ ~push
  /\ \E r \in Outcomes :
       /\ Tested(r)
       /\ Finally(x, IF r = "ok" /\ x.by # 0 /\ x.by = watch
                     THEN [loop EXCEPT ![x.by].fails = 0, ![x.by].attempted = FALSE]
                     ELSE loop)
  /\ UNCHANGED <<push, appVars, alerts, gate>>

-----------------------------------------------------------------------------
(* The poll of the process and the interface alert.                        *)

\* Every 30 s; none while a reconnect runs.
PollTimer ==
  /\ watch # 0 /\ ~loop[watch].poll
  /\ loop' = IF reconnecting THEN [loop EXCEPT ![watch].pollFails = 0]
             ELSE [loop EXCEPT ![watch].poll = TRUE]
  /\ UNCHANGED <<tunnelVars, appVars, reconnecting, reconnect, alerts, gate>>

\* tun:getInfo answers, also to a watch that has ended.
PollAnswer(w) ==
  /\ loop[w].poll /\ ~push
  /\ LET fails == IF up THEN 0 ELSE IF loop[w].pollFails < 2 THEN loop[w].pollFails + 1 ELSE 2
         l == [loop EXCEPT ![w].poll = FALSE, ![w].pollFails = IF w = watch THEN fails ELSE 0]
     IN  SetTunOk(tunOk /\ fails < 2, l, gate)
  /\ UNCHANGED <<tunnelVars, reconnecting, reconnect, alerts>>

\* The main process saw a new interface: a test, unless a reconnect runs.
InterfaceAlert ==
  /\ watch # 0 /\ hijacked /\ ~reconnecting
  /\ alerts' = alerts \cup {watch} /\ Cardinality(alerts') <= MaxAlerts
  /\ UNCHANGED <<tunnelVars, appVars, reconnecting, reconnect, loop, gate>>

\* The answer, also after the watch has ended.
AlertAnswer(w) ==
  /\ w \in alerts /\ ~push
  /\ alerts' = alerts \ {w}
  /\ \E r \in Outcomes :
       /\ Tested(r)
       /\ SetTunOk(tunOk /\ r # "mismatch" /\ ~(r = "down" /\ Down), loop, gate)
  /\ UNCHANGED <<push, reconnecting, reconnect>>

-----------------------------------------------------------------------------

\* forceExpiredLogout: the tunnel is stopped, the overlay is the login.
Logout ==
  /\ loggedIn
  /\ Stopped
  /\ Render(FALSE, FALSE, loop, gate)
  /\ UNCHANGED <<reconnecting, reconnect, alerts>>

\* handleSubscriptionLogin.
Login ==
  /\ ~loggedIn
  /\ Render(TRUE, tunOk, loop, gate)
  /\ UNCHANGED <<tunnelVars, reconnecting, reconnect, alerts>>

Reconnects == \E x \in reconnect : ReconnectAnswer(x) \/ ReconnectVerify(x)

Watching(w) == CheckTimer(w) \/ Check(w)
Polling == PollTimer \/ \E w \in Watches : PollAnswer(w)

ConnNext ==
  \/ OnPush \/ Die \/ Hijack \/ Logout \/ Login \/ Remount
  \/ \E g \in Gates : GateStep(g) \/ GateRetry(g)
  \/ \E w \in Watches : Watching(w) \/ AcceptOffer(w) \/ AlertAnswer(w)
  \/ PopoverReconnect \/ InterfaceAlert
  \/ Reconnects \/ Polling

ConnSpec == ConnInit /\ [][ConnNext]_connVars

(***************************************************************************)
(* Some timer that is set fires and some call is answered, of each kind,   *)
(* and of many checks one finds the address; the user, the helper's event  *)
(* and the interface monitor owe nothing.  The user does not press the     *)
(* popover's button for ever, nor does the exit address or the language    *)
(* change for ever: each time the polls start over.                        *)
(***************************************************************************)
FairSpec ==
  /\ ConnSpec
  /\ WF_connVars(OnPush) /\ WF_connVars(Reconnects) /\ WF_connVars(PollTimer)
  /\ WF_connVars(\E w \in Watches : CheckTimer(w))
  /\ WF_connVars(\E w \in Watches : Check(w))
  /\ WF_connVars(\E w \in Watches : PollAnswer(w))
  /\ SF_connVars(\E w \in Watches : CheckFinds(w, "mismatch"))
  /\ WF_connVars(\E g \in Gates : GateStep(g))
  /\ <>[][~PopoverReconnect /\ ~Remount]_connVars

-----------------------------------------------------------------------------

\* The parts on display are those the state calls for, and what the user is
\* not shown has no timer and no offer.
ConnTypeOK ==
  /\ {up, reachable, hijacked, push, loggedIn, tunOk, reconnecting} \subseteq BOOLEAN
  /\ watch \in 0 .. MaxWatches /\ (watch # 0 <=> loggedIn /\ tunOk)
  /\ mounted \in 0 .. MaxGates /\ (mounted # 0 <=> loggedIn /\ ~tunOk)
  /\ \A w \in Watches : /\ loop[w].testing \in 0 .. MaxTests /\ loop[w].fails \in 0 .. 3
                        /\ loop[w].timer \/ loop[w].offer => w = watch
  /\ alerts \subseteq Watches

(***************************************************************************)
(* However the offer, the popover and the automatic reconnect come         *)
(* together, one tun:reconnect runs at a time, and the flag that holds the *)
(* other watchers back is up exactly then.                                 *)
(***************************************************************************)
OneReconnect ==
  /\ Cardinality(reconnect) <= 1
  /\ reconnecting <=> reconnect # {}

(***************************************************************************)
(* A tunnel that is down does not stay hidden behind the app: it is back,  *)
(* or the gate is shown, even if the helper's event was lost.              *)
(***************************************************************************)
DownIsSeen == (loggedIn /\ tunOk /\ ~up) ~> (~tunOk \/ up \/ ~loggedIn)

(***************************************************************************)
(* The chain of checks of a running watch never breaks, whichever of its   *)
(* callbacks and reconnects come together: a check is set or under way, or *)
(* a reconnect that sets the next one; but for the third failure that      *)
(* meets a reconnect of the popover.                                       *)
(***************************************************************************)
ChecksGoOn ==
  watch # 0 => \/ loop[watch].timer \/ loop[watch].testing > 0 \/ loop[watch].cut
               \/ \E x \in reconnect : x.by = watch

(***************************************************************************)
(* Traffic that leaves by a wrong address is noticed, unless the checks    *)
(* were cut short.                                                         *)
(***************************************************************************)
HijackIsSeen ==
  (loggedIn /\ tunOk /\ hijacked)
    ~> (~(loggedIn /\ tunOk /\ hijacked) \/ (watch # 0 /\ loop[watch].cut))

(***************************************************************************)
(* The same whatever comes together: "Exit IP check: 60s poll, verify exit *)
(* IP matches expected" (TerminalApp.tsx).  Refuted in                     *)
(* ConnectionPopover.cfg: the third failure comes while the user reconnects *)
(* from the popover.                                                       *)
(***************************************************************************)
HijackIsAlwaysSeen ==
  (loggedIn /\ tunOk /\ hijacked) ~> ~(loggedIn /\ tunOk /\ hijacked)

=============================================================================
