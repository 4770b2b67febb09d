------------------------------ MODULE Account ------------------------------
(***************************************************************************)
(* Signing in and out: SubscriptionManager (the session of this device),   *)
(* BrowserSync (whose browser data is fetched and uploaded), the part of   *)
(* TerminalApp that shows the login page or the app, and the server's      *)
(* copy of each account's browser data.                                    *)
(*                                                                         *)
(* Every handler reads the current session or the current sync user again  *)
(* after each of its awaits, and nothing makes a user who signs in wait for *)
(* what the earlier session still has in flight: what was started for one  *)
(* account may end under another.                                          *)
(***************************************************************************)
EXTENDS Naturals, FiniteSets

CONSTANTS
  Accounts,
  FirstUser,     \* who signs in first: the accounts are alike
  None,
  MaxLogins,     \* bound: sign-ins the server accepts
  MaxRelaunches, \* bound: times the app dies and is started again
  ForceSlots,    \* bound: forced logouts in flight at once
  MaxBusy        \* bound: requests, transfers and cleanups that the user or the
                 \* upload interval let come together

ASSUME AccountsAreNotNone == None \notin Accounts /\ FirstUser \in Accounts
ASSUME BoundsAreNat == {MaxLogins, MaxRelaunches, MaxBusy} \subseteq Nat

Users == Accounts \cup {None}

VARIABLES
  session,      \* SubscriptionManager.session: None, or whose user and config
  sync,         \* BrowserSync.username and .token
  pending,      \* owner of BrowserSync.pendingLocalStorage
  timer,        \* whether the upload interval is set
  view,         \* what TerminalApp shows: "boot", "login" or "main"
  polling,      \* statusPollRef
  login,        \* the user of the login request under way
  checks,       \* subscription:checkStatus requests of the renderer, by origin
  cleanups,     \* cleanupForLoginRedirect and cleanupForAccountSwitch under way
  downloads,    \* downloadAndImportCookies at start and at login
  upload,       \* BrowserSync._uploadPromise
  jar,          \* jar[u]: whose data the browser partitions of u hold
  remote,       \* remote[a]: whose data the server keeps for a
  logins,       \* how many sign-ins the server accepted
  relaunches,   \* how often the app was started again
  overtaken     \* history: whose data was in flight when another signed in

accountVars == <<session, sync, pending, timer>>
rendererVars == <<view, polling, login, checks, cleanups>>
dataVars == <<downloads, upload, jar, remote>>
boundVars == <<logins, relaunches, overtaken>>
vars == <<accountVars, rendererVars, dataVars, boundVars>>

Origins == {"boot", "poll", "refresh"}
CleanupSlots == ForceSlots \cup {"switch"}

Session == [user : Users, config : Accounts]
Check == [token : Users, answer : {"awaited", "null", "ok", "expired"}]
Cleanup == [step : {"tun", "clear"}, of : Users]
Download == [of : Accounts, step : {"request", "browser"}]
Upload == [step : {"export", "post"}, data : SUBSET Accounts]

ASSUME NoneIsNoRecord == None \notin Session \cup Check \cup Cleanup \cup Download \cup Upload

TypeOK ==
  /\ session \in Session \cup {None}
  /\ {sync, pending, login} \subseteq Users
  /\ {timer, polling} \subseteq BOOLEAN
  /\ view \in {"boot", "login", "main"}
  /\ checks \in [Origins -> Check \cup {None}]
  /\ cleanups \in [CleanupSlots -> Cleanup \cup {None}]
  /\ downloads \in [{"start", "login"} -> Download \cup {None}]
  /\ upload \in Upload \cup {None}
  /\ jar \in [Users -> SUBSET Accounts]
  /\ remote \in [Accounts -> SUBSET Accounts]
  /\ logins \in 0..MaxLogins /\ relaunches \in 0..MaxRelaunches
  /\ overtaken \subseteq Accounts

Owner(s) == IF s = None THEN None ELSE s.user

NoneOf(S) == [k \in S |-> None]

\* a device nobody has signed in on yet
Init ==
  /\ session = None /\ sync = None /\ pending = None /\ timer = FALSE
  /\ view = "boot" /\ polling = FALSE /\ login = None
  /\ checks = NoneOf(Origins) /\ cleanups = NoneOf(CleanupSlots)
  /\ downloads = NoneOf({"start", "login"}) /\ upload = None
  /\ jar = [u \in Users |-> {}]
  /\ remote = [a \in Accounts |-> {a}]
  /\ logins = 0 /\ relaunches = 0 /\ overtaken = {}

Idle(f) == \A k \in DOMAIN f : f[k] = None

\* what is under way
Busy == {o \in Origins : checks[o] # None} \cup {k \in CleanupSlots : cleanups[k] # None}
        \cup {k \in {"start", "login"} : downloads[k] # None} \cup {u \in {"upload"} : upload # None}
Room == Cardinality(Busy) < MaxBusy

-----------------------------------------------------------------------------
(***************************************************************************)
(* What several handlers do.                                               *)
(***************************************************************************)
\* BrowserSync.stop
stop == sync' = None /\ timer' = FALSE /\ pending' = None

\* subscription:logout up to its first await
logout == stop /\ session' = None

\* the await of clearStorageData; whose session it was is read before logout
ClearedJar(of) == jar' = [jar EXCEPT ![of] = {}]

\* a cleanup that waits for tun.stop
Stopping == [step |-> "tun", of |-> None]

\* forceExpiredLogout: the page changes at once, the cleanup is not awaited
forceExpiredLogout ==
  /\ view' = "login" /\ polling' = FALSE
  /\ \E k \in ForceSlots :
       /\ cleanups[k] = None
       /\ cleanups' = [cleanups EXCEPT ![k] = Stopping]

\* a request without a token is not sent
Ask(o) == [token |-> Owner(session),
           answer |-> IF Owner(session) = None THEN "null" ELSE "awaited"]

-----------------------------------------------------------------------------
(***************************************************************************)
(* Start-up of the renderer, and the status checks.                        *)
(***************************************************************************)
\* checkSubscriptionAndProceed up to its first check
Boot ==
  /\ view = "boot" /\ checks["boot"] = None
  /\ IF session = None
     THEN view' = "login" /\ UNCHANGED checks
     ELSE checks' = [checks EXCEPT !["boot"] = Ask("boot")] /\ UNCHANGED view
  /\ UNCHANGED <<accountVars, polling, login, cleanups, dataVars, boundVars>>

\* the interval of startStatusPolling, or the countdown of a daily plan
Poll ==
  /\ polling /\ checks["poll"] = None
  /\ checks' = [checks EXCEPT !["poll"] = Ask("poll")]
  /\ UNCHANGED <<accountVars, view, polling, login, cleanups, dataVars, boundVars>>

\* handleRefreshConfig, on the user's request
Refresh ==
  /\ view = "main" /\ Owner(session) # None /\ checks["refresh"] = None /\ Room
  /\ checks' = [checks EXCEPT !["refresh"] = Ask("refresh")]
  /\ UNCHANGED <<accountVars, view, polling, login, cleanups, dataVars, boundVars>>

\* the request of o is answered; handleRefreshConfig does no more than show it,
\* and the poll nothing about a session that goes on
Answered(o, verdict) ==
  checks' = [checks EXCEPT ![o] = IF o = "refresh" \/ (o = "poll" /\ verdict = "ok") THEN None
                                  ELSE [@ EXCEPT !.answer = verdict]]

\* SubscriptionManager.checkStatus: the reply for the token the request carried
checkStatus(o) ==
  /\ checks[o] # None /\ checks[o].answer = "awaited"
  /\ \/ Answered(o, "null") /\ UNCHANGED session              \* no answer
     \/ Answered(o, "null") /\ session' = None                \* 401
     \/ Answered(o, "ok") /\ UNCHANGED session                \* nothing has changed
     \/ \E verdict \in {"ok", "expired"} :
          /\ Answered(o, verdict)
          /\ session' = IF session = None
                        THEN [user |-> None, config |-> checks[o].token]
                        ELSE [session EXCEPT !.config = checks[o].token]
  /\ UNCHANGED <<sync, pending, timer, view, polling, login, cleanups, dataVars, boundVars>>

\* the rest of checkSubscriptionAndProceed
BootChecked ==
  LET c == checks["boot"] IN
  /\ c # None /\ c.answer # "awaited"
  /\ checks' = [checks EXCEPT !["boot"] = None]
  /\ \/ /\ c.answer = "expired"
        /\ logout /\ ClearedJar(Owner(session)) /\ view' = "login"
        /\ UNCHANGED <<polling, cleanups>>
     \/ /\ c.answer = "null" /\ session = None /\ view' = "login"
        /\ UNCHANGED <<accountVars, jar, polling, cleanups>>
     \/ /\ c.answer = "ok" \/ (c.answer = "null" /\ session # None)
        /\ \/ view' = "main" /\ polling' = TRUE /\ UNCHANGED cleanups
           \/ forceExpiredLogout                \* expired by the local clock
        /\ UNCHANGED <<accountVars, jar>>
  /\ UNCHANGED <<login, downloads, upload, remote, boundVars>>

\* Mutant: a 401 is nothing to the poll.
EndedIfExpired(c) == c.answer = "expired"

\* null stands for a 401 only if the main process has dropped the session
Ended(c) == c.answer = "expired" \/ (c.answer = "null" /\ session = None)

\* the rest of poll and of the countdown
PollChecked ==
  LET c == checks["poll"] IN
  /\ c # None /\ c.answer # "awaited"
  /\ checks' = [checks EXCEPT !["poll"] = None]
  /\ IF Ended(c)
     THEN forceExpiredLogout
     ELSE UNCHANGED <<view, polling, cleanups>>
  /\ UNCHANGED <<accountVars, login, dataVars, boundVars>>

-----------------------------------------------------------------------------
(***************************************************************************)
(* Signing out.                                                            *)
(***************************************************************************)
\* SettingsPanel's onLogout
SignOut ==
  /\ view = "main" /\ forceExpiredLogout
  /\ UNCHANGED <<accountVars, login, checks, dataVars, boundVars>>

\* handleSwitchAccount: here the page changes only after the cleanup
SwitchAccount ==
  /\ view = "main" /\ cleanups["switch"] = None /\ Room
  /\ cleanups' = [cleanups EXCEPT !["switch"] = Stopping]
  /\ UNCHANGED <<accountVars, view, polling, login, checks, dataVars, boundVars>>

\* tun.stop has returned: closeAll, clearCredentials and subscription:logout
CleanupLogout(k) ==
  /\ cleanups[k] # None /\ cleanups[k].step = "tun"
  /\ logout
  /\ cleanups' = [cleanups EXCEPT ![k] = [step |-> "clear", of |-> Owner(session)]]
  /\ UNCHANGED <<view, polling, login, checks, dataVars, boundVars>>

CleanupDone(k) ==
  /\ cleanups[k] # None /\ cleanups[k].step = "clear"
  /\ ClearedJar(cleanups[k].of)
  /\ cleanups' = [cleanups EXCEPT ![k] = None]
  /\ IF k = "switch" THEN view' = "login" /\ polling' = FALSE
                     ELSE UNCHANGED <<view, polling>>
  /\ UNCHANGED <<accountVars, login, checks, downloads, upload, remote, boundVars>>

-----------------------------------------------------------------------------
(***************************************************************************)
(* Signing in.                                                             *)
(***************************************************************************)
\* LoginPage.handleLogin
Submit(a) ==
  /\ view = "login" /\ login = None /\ downloads["login"] = None
  /\ logins = 0 => a = FirstUser
  /\ login' = a
  /\ UNCHANGED <<accountVars, view, polling, checks, cleanups, dataVars, boundVars>>

LoginRefused ==
  /\ login # None /\ downloads["login"] = None
  /\ login' = None
  /\ UNCHANGED <<accountVars, view, polling, checks, cleanups, dataVars, boundVars>>

\* whose data a download or an upload has under way
InFlight == UNION ({{d.of} : d \in {downloads["start"], downloads["login"]} \ {None}}
                   \cup {u.data : u \in {upload} \ {None}})

\* Mutant: what the last account restored is left.
LoginAcceptedKeepsPending ==
  /\ login # None /\ downloads["login"] = None
  /\ logins < MaxLogins /\ Room
  /\ session' = [user |-> login, config |-> login]
  /\ sync' = login /\ UNCHANGED pending
  /\ downloads' = [downloads EXCEPT !["login"] = [of |-> login, step |-> "request"]]
  /\ logins' = logins + 1 /\ overtaken' = overtaken \cup (InFlight \ {login})
  /\ UNCHANGED <<timer, rendererVars, upload, jar, remote, relaunches>>

\* SubscriptionManager.login, and the start of downloadAndImportCookies
LoginAccepted ==
  /\ login # None /\ downloads["login"] = None
  /\ logins < MaxLogins /\ Room
  /\ session' = [user |-> login, config |-> login]
  /\ sync' = login /\ pending' = None
  /\ downloads' = [downloads EXCEPT !["login"] = [of |-> login, step |-> "request"]]
  /\ logins' = logins + 1 /\ overtaken' = overtaken \cup (InFlight \ {login})
  /\ UNCHANGED <<timer, rendererVars, upload, jar, remote, relaunches>>

\* handleSubscriptionLogin, once subscription:login has returned
LoggedIn == login' = None /\ view' = "main" /\ polling' = TRUE

-----------------------------------------------------------------------------
(***************************************************************************)
(* BrowserSync.                                                            *)
(***************************************************************************)
Imported(d) == jar' = [jar EXCEPT ![sync] = @ \cup remote[d.of]]

\* downloadAndImportCookies: the partition is looked up when the reply is there
DownloadReply(k) ==
  LET d == downloads[k] IN
  /\ d # None /\ d.step = "request" /\ remote[d.of] # {}
  /\ Imported(d)
  /\ downloads' = [downloads EXCEPT ![k].step = "browser"]
  /\ UNCHANGED <<accountVars, rendererVars, upload, remote, boundVars>>

\* no data or no answer, or the second partition and the localStorage are done
DownloadDone(k) ==
  LET d == downloads[k] IN
  /\ d # None
  /\ IF d.step = "browser" THEN Imported(d) /\ pending' = d.of
                           ELSE UNCHANGED <<jar, pending>>
  /\ downloads' = [downloads EXCEPT ![k] = None]
  /\ IF k = "login" THEN LoggedIn
                    ELSE UNCHANGED <<login, view, polling>>
  /\ UNCHANGED <<session, sync, timer, checks, cleanups, upload, remote, boundVars>>

\* the user's own browsing; the first claude.ai tab takes the pending data
Browse ==
  /\ view = "main" /\ session # None
  /\ jar' = [jar EXCEPT ![session.user] = @ \cup ({session.user, pending} \ {None})]
  /\ pending' = None
  /\ UNCHANGED <<session, sync, timer,
                 rendererVars, downloads, upload, remote, boundVars>>

\* TunGate's onReady
startPeriodicUpload ==
  /\ view = "main" /\ timer' = TRUE
  /\ UNCHANGED <<session, sync, pending,
                 rendererVars, dataVars, boundVars>>

\* _doUpload: the cookies of both partitions, then the localStorage of the
\* claude partition, then the token of the request.  The second partition is
\* looked up after an await too; its cookies count with those before it.
UploadStart ==
  /\ timer /\ upload = None /\ sync # None /\ Room
  /\ upload' = [step |-> "export", data |-> jar[sync]]
  /\ UNCHANGED <<accountVars, rendererVars, downloads, jar, remote, boundVars>>

\* a hidden page of the claude partition; when it does not load or answer in
\* time, the cookies go without localStorage
exportClaudeLocalStorage ==
  /\ upload # None /\ upload.step = "export"
  /\ \E read \in {jar[sync], {}} :
       upload' = [step |-> "post", data |-> upload.data \cup read]
  /\ UNCHANGED <<accountVars, rendererVars, downloads, jar, remote, boundVars>>

\* unchanged since the last upload, a failed read, or a request that fails
UploadEnd ==
  /\ upload # None /\ upload' = None
  /\ timer' \in IF upload.step = "post" THEN {timer, FALSE} ELSE {timer}
  /\ UNCHANGED <<session, sync, pending, rendererVars,
                 downloads, jar, remote, boundVars>>

UploadPosted ==
  /\ upload # None /\ upload.step = "post" /\ sync # None
  /\ remote' = [remote EXCEPT ![sync] = upload.data]
  /\ upload' = None
  /\ UNCHANGED <<accountVars, rendererVars, downloads, jar, boundVars>>

\* loadSession, and what index.ts starts for a session it finds; one that the
\* keychain no longer decrypts counts as none
loadSession(s) ==
  /\ session' = s /\ sync' = Owner(s)
  /\ downloads' = [NoneOf({"start", "login"}) EXCEPT !["start"] =
       IF Owner(s) = None THEN None ELSE [of |-> s.user, step |-> "request"]]

\* the process dies and is started again
Relaunch ==
  /\ relaunches < MaxRelaunches /\ relaunches' = relaunches + 1
  /\ loadSession(session) \/ loadSession(None)
  /\ pending' = None /\ timer' = FALSE
  /\ view' = "boot" /\ polling' = FALSE /\ login' = None
  /\ checks' = NoneOf(Origins) /\ cleanups' = NoneOf(CleanupSlots)
  /\ upload' = None
  /\ UNCHANGED <<jar, remote, logins, overtaken>>

-----------------------------------------------------------------------------
Next ==
  \/ Boot \/ BootChecked \/ Poll \/ PollChecked \/ Refresh
  \/ \E o \in Origins : checkStatus(o)
  \/ SignOut \/ SwitchAccount
  \/ \E k \in CleanupSlots : CleanupLogout(k) \/ CleanupDone(k)
  \/ \E a \in Accounts : Submit(a)
  \/ LoginRefused \/ LoginAccepted
  \/ \E k \in {"start", "login"} : DownloadReply(k) \/ DownloadDone(k)
  \/ Browse \/ startPeriodicUpload
  \/ UploadStart \/ exportClaudeLocalStorage
  \/ UploadEnd \/ UploadPosted
  \/ Relaunch

\* The interval of the poll fires, its request has a timeout, and so has the
\* stop of the tunnel that a forced logout waits for.
Fairness ==
  /\ WF_vars(Poll) /\ WF_vars(checkStatus("poll")) /\ WF_vars(PollChecked)
  /\ \A k \in ForceSlots : WF_vars(CleanupLogout(k)) /\ WF_vars(CleanupDone(k))

Spec == Init /\ [][Next]_vars /\ Fairness

-----------------------------------------------------------------------------
\* "Browser partitions are isolated per account" (browser-window.ts), and so is
\* what the server keeps.  Not so for data in flight at a sign-in: an upload
\* and a download look the user up again at each of their steps.
Isolated == \A a \in Accounts : jar[a] \subseteq {a} /\ remote[a] \subseteq {a}

\* That is the only way across.  Whatever is late or left behind when accounts
\* are switched (replies, logouts, restored data that no tab has taken yet,
\* partitions that are not cleared, the token of the next request), data of an
\* account get to another only if a sign-in of another account overtook an
\* upload or a download that had them.
CrossedOnlyInFlight ==
  \A a \in Accounts : (jar[a] \cup remote[a]) \ {a} \subseteq overtaken

\* The session carries the proxy configuration of its own user.  Not so when a
\* status reply comes late: it puts one account's configuration into the
\* session of another, or brings back a session that was ended, without a user.
SessionIsConsistent == session # None => session.user = session.config

\* A session that the server ends was refused itself: by the answer to a check
\* made with its token.  Not so when the 401 to an earlier session comes late.
LoginLasts ==
  [][\A a \in Accounts, o \in Origins :
       /\ Owner(session) = a /\ session' = None
       /\ checks[o] # None /\ checks[o].answer = "awaited" /\ checks'[o] # checks[o]
       => checks[o].token = a \/ relaunches' # relaunches]_vars

\* When the main process has dropped the session, at a 401 to whichever request
\* or at the late logout of an earlier session, the app does not stay open: the
\* poll notices and the login page replaces it.  (Unless another status request is
\* still out: its reply may bring the session back without a user, which no
\* poll notices.)
SignedOutIsSeen ==
  /\ view = "main" /\ session = None
  /\ \A o \in Origins : checks[o] # None => checks[o].answer # "awaited"
  ~> view # "main"
=============================================================================
