------------------------- MODULE SubscriptionProofs -------------------------
(***************************************************************************)
(* Proofs about the subscription: whose session and data the app holds     *)
(* (Account, for any accounts, numbers of sign-ins, relaunches and forced  *)
(* logouts), and what it makes of the proxies that come with it            *)
(* (ProxyConfig, for any number of requests and starts).                   *)
(*                                                                         *)
(* CrossedOnlyInFlight rests on Known: what is under way, waits for a tab  *)
(* or is about to be uploaded while somebody is signed in is that user's,  *)
(* or was noted when the sign-in overtook it.  Each place where data get   *)
(* to an account (an import, a tab, an upload, a post) then takes only     *)
(* that.  Signing out leaves nobody signed in, and a sign-in and a         *)
(* relaunch start anew.                                                    *)
(*                                                                         *)
(* NoDowngrade is a calculation on the operators that carry a node from    *)
(* the subscription into an outbound, for every entry and document, the    *)
(* branches for damaged URLs included, and rests on CallsAreOffered: a     *)
(* request means to tunnel through nothing or through a node that a fetch  *)
(* found; and on BuiltForWaiting.  ChainIsWanted rests on              *)
(* StartHasItsCalls and BuiltForWaiting: _tunnelOutbound outlives a start, *)
(* but as long as a start is under way the request that set it last waits. *)
(* NamesResolve is a calculation on the two lists of rules, which are the  *)
(* ones buildTunConfig makes, with or without the rule sets (AsBuilt).     *)
(***************************************************************************)
EXTENDS Account, ProxyConfig, FiniteSetTheorems, SequenceTheorems, TLAPS

-----------------------------------------------------------------------------
(***************************************************************************)
(* Account: sessions, uploads and clean-ups.                               *)
(***************************************************************************)

\* Only a request with a token is sent; its reply brings that user's configuration.
Asked == \A o \in Origins : checks[o] # None /\ checks[o].answer = "awaited" => checks[o].token # None

\* Types, with the tokens of what was asked.
Typed == TypeOK /\ Asked

-----------------------------------------------------------------------------
\* The types.

\* Of whom a session is.
LEMMA OwnerTyped ==
  ASSUME NEW s \in Session \cup {None}
  PROVE  Owner(s) \in Users
BY NoneIsNoRecord DEF Owner, Session, Users

\* A status check has a token, or an answer at once.
LEMMA AskTyped ==
  ASSUME TypeOK, NEW o \in Origins
  PROVE  /\ Ask(o) \in Check
         /\ Ask(o).answer = "awaited" => Ask(o).token # None
BY OwnerTyped DEF Ask, Check, TypeOK

\* Nothing under way, of whatever kind.
LEMMA NoneOfTyped ==
  ASSUME NEW S, NEW T
  PROVE  NoneOf(S) \in [S -> T \cup {None}]
BY DEF NoneOf

\* The app was just started.
LEMMA TypedInit == Init => Typed
<1> SUFFICES ASSUME Init PROVE Typed
  OBVIOUS
<1>1. /\ checks \in [Origins -> Check \cup {None}]
      /\ cleanups \in [CleanupSlots -> Cleanup \cup {None}]
      /\ downloads \in [{"start", "login"} -> Download \cup {None}]
  BY NoneOfTyped DEF Init
<1>2. jar \in [Users -> SUBSET Accounts] /\ remote \in [Accounts -> SUBSET Accounts]
  BY DEF Init
<1>3. logins \in 0..MaxLogins /\ relaunches \in 0..MaxRelaunches
  BY BoundsAreNat DEF Init
<1>4. Asked
  BY DEF Init, NoneOf, Asked
<1> QED
  BY <1>1, <1>2, <1>3, <1>4 DEF Init, Typed, TypeOK, Users

\* A forced logout takes a slot for the session there is.
LEMMA ForcedTyped ==
  ASSUME TypeOK, forceExpiredLogout
  PROVE  /\ view' = "login" /\ polling' = FALSE
         /\ cleanups' \in [CleanupSlots -> Cleanup \cup {None}]
BY DEF forceExpiredLogout, Stopping, TypeOK, Cleanup, CleanupSlots, Users

\* Every step keeps the types; one case per action.
LEMMA TypedStep ==
  ASSUME Typed, [Next]_vars
  PROVE  Typed'
<1> USE DEF accountVars, rendererVars, dataVars, boundVars
<1>0. TypeOK /\ Asked
  BY DEF Typed
<1>1. CASE Boot \/ Poll \/ Refresh
  BY <1>0, <1>1, AskTyped DEF Boot, Poll, Refresh, Typed, TypeOK, Asked, Origins
<1>2. ASSUME NEW o \in Origins, checkStatus(o) PROVE Typed'
  <2>1. \E v \in {"null", "ok", "expired"} : Answered(o, v)
    BY <1>2 DEF checkStatus
  <2>2. checks[o] # None /\ checks[o].answer = "awaited" /\ checks[o].token \in Accounts
    BY <1>0, <1>2 DEF checkStatus, TypeOK, Asked, Check, Users
  <2>3. checks' \in [Origins -> Check \cup {None}] /\ Asked'
    BY <1>0, <2>1, <2>2 DEF TypeOK, Asked, Answered, Check
  <2>4. session' \in Session \cup {None}
    BY <1>0, <1>2, <2>2 DEF checkStatus, TypeOK, Session, Users
  <2> QED
    BY <1>0, <1>2, <2>3, <2>4 DEF checkStatus, Typed, TypeOK
<1>3. CASE BootChecked
  <2>1. checks' \in [Origins -> Check \cup {None}] /\ Asked'
    BY <1>0, <1>3 DEF BootChecked, TypeOK, Asked
  <2>2. /\ session' \in Session \cup {None} /\ {sync', pending'} \subseteq Users /\ timer' \in BOOLEAN
        /\ jar' \in [Users -> SUBSET Accounts]
    BY <1>0, <1>3 DEF BootChecked, TypeOK, logout, stop, ClearedJar, Users
  <2>3. /\ view' \in {"boot", "login", "main"} /\ polling' \in BOOLEAN
        /\ cleanups' \in [CleanupSlots -> Cleanup \cup {None}]
    BY <1>0, <1>3, ForcedTyped DEF BootChecked, TypeOK
  <2> QED
    BY <1>0, <1>3, <2>1, <2>2, <2>3 DEF BootChecked, Typed, TypeOK
<1>4. CASE PollChecked
  <2>1. checks' \in [Origins -> Check \cup {None}] /\ Asked'
    BY <1>0, <1>4 DEF PollChecked, TypeOK, Asked
  <2> QED
    BY <1>0, <1>4, <2>1, ForcedTyped DEF PollChecked, Typed, TypeOK
<1>5. CASE SignOut
  BY <1>0, <1>5, ForcedTyped DEF SignOut, Typed, TypeOK, Asked
<1>6. CASE SwitchAccount
  BY <1>0, <1>6 DEF SwitchAccount, Stopping, Typed, TypeOK, Asked, Cleanup, CleanupSlots, Users
<1>7. ASSUME NEW k \in CleanupSlots, CleanupLogout(k) \/ CleanupDone(k) PROVE Typed'
  <2>1. cleanups' \in [CleanupSlots -> Cleanup \cup {None}]
    BY <1>0, <1>7, OwnerTyped DEF CleanupLogout, CleanupDone, TypeOK, Cleanup
  <2>2. CASE CleanupLogout(k)
    BY <1>0, <2>1, <2>2 DEF CleanupLogout, logout, stop, Typed, TypeOK, Asked, Users
  <2>3. CASE CleanupDone(k)
    BY <1>0, <2>1, <2>3 DEF CleanupDone, ClearedJar, Typed, TypeOK, Asked
  <2> QED
    BY <1>7, <2>2, <2>3
<1>8. ASSUME NEW a \in Accounts, Submit(a) PROVE Typed'
  BY <1>0, <1>8 DEF Submit, Typed, TypeOK, Asked, Users
<1>9. CASE LoginRefused \/ LoginAccepted
  <2>1. InFlight \subseteq Accounts
    BY <1>0 DEF InFlight, TypeOK, Download, Upload
  <2> QED
    BY <1>0, <1>9, <2>1, BoundsAreNat
       DEF LoginRefused, LoginAccepted, Typed, TypeOK, Asked, Session, Download, Users
<1>10. ASSUME NEW d \in {"start", "login"}, DownloadReply(d) \/ DownloadDone(d) PROVE Typed'
  <2>1. downloads[d] \in Download
    BY <1>0, <1>10 DEF DownloadReply, DownloadDone, TypeOK
  <2>2. downloads' \in [{"start", "login"} -> Download \cup {None}]
    BY <1>0, <1>10, <2>1 DEF DownloadReply, DownloadDone, TypeOK, Download
  <2>3. jar' \in [Users -> SUBSET Accounts] /\ pending' \in Users
    BY <1>0, <1>10, <2>1 DEF DownloadReply, DownloadDone, Imported, TypeOK, Download, Users
  <2> QED
    BY <1>0, <1>10, <2>2, <2>3
       DEF DownloadReply, DownloadDone, LoggedIn, Typed, TypeOK, Asked, Users
<1>11. CASE Browse \/ startPeriodicUpload
  <2>1. session # None => session.user \in Users
    BY <1>0 DEF TypeOK, Session
  <2>2. jar' \in [Users -> SUBSET Accounts]
    BY <1>0, <1>11, <2>1 DEF Browse, startPeriodicUpload, TypeOK, Users
  <2> QED
    BY <1>0, <1>11, <2>2 DEF Browse, startPeriodicUpload, Typed, TypeOK, Asked, Users
<1>12. CASE UploadStart \/ exportClaudeLocalStorage
  <2>1. upload' \in Upload
    BY <1>0, <1>12 DEF UploadStart, exportClaudeLocalStorage, TypeOK, Upload
  <2> QED
    BY <1>0, <1>12, <2>1 DEF UploadStart, exportClaudeLocalStorage, Typed, TypeOK, Asked
<1>13. CASE UploadEnd \/ UploadPosted
  BY <1>0, <1>13 DEF UploadEnd, UploadPosted, Typed, TypeOK, Asked, Upload
<1>14. CASE Relaunch
  <2>1. /\ session' \in Session \cup {None} /\ sync' \in Users
        /\ downloads' \in [{"start", "login"} -> Download \cup {None}]
    BY <1>0, <1>14, OwnerTyped, NoneIsNoRecord
       DEF Relaunch, loadSession, NoneOf, Owner, TypeOK, Session, Download, Users
  <2>2. /\ checks' \in [Origins -> Check \cup {None}]
        /\ cleanups' \in [CleanupSlots -> Cleanup \cup {None}]
    BY <1>14, NoneOfTyped DEF Relaunch
  <2>3. Asked'
    BY <1>14 DEF Relaunch, NoneOf, Asked
  <2>4. relaunches' \in 0..MaxRelaunches
    BY <1>0, <1>14, BoundsAreNat DEF Relaunch, TypeOK
  <2> QED
    BY <1>0, <1>14, <2>1, <2>2, <2>3, <2>4 DEF Relaunch, Typed, TypeOK, Users
<1>15. CASE UNCHANGED vars
  BY <1>0, <1>15 DEF vars, Typed, TypeOK, Asked
<1> QED
  BY <1>1, <1>2, <1>3, <1>4, <1>5, <1>6, <1>7, <1>8, <1>9, <1>10, <1>11, <1>12, <1>13, <1>14, <1>15
     DEF Next

\* Every variable keeps its type, whatever the user does.
THEOREM TypeCorrect == Spec => []TypeOK
<1>1. Typed => TypeOK
  BY DEF Typed
<1> QED
  BY <1>1, TypedInit, TypedStep, PTL DEF Spec

-----------------------------------------------------------------------------
\* What may reach whom.

\* The data that may be with u: its own, and what a sign-in overtook.
Allowed(u) == {u} \cup overtaken

\* A session with a user is that of the sync user.
SessionOfSync == Owner(session) # None => sync = Owner(session)

\* Whose data is under way, waits for a tab or is about to be uploaded, while
\* somebody is signed in.
DownloadsKnown ==
  \A d \in {"start", "login"} :
    downloads[d] # None /\ sync # None => downloads[d].of \in Allowed(sync)

PendingKnown == pending # None /\ sync # None => pending \in Allowed(sync)

UploadKnown == upload # None /\ sync # None => upload.data \subseteq Allowed(sync)

Known == SessionOfSync /\ DownloadsKnown /\ PendingKnown /\ UploadKnown

\* What every step preserves.
IInv == Typed /\ Known /\ CrossedOnlyInFlight

\* Nothing starts to know more when the user stays or goes.
LEMMA SameUser ==
  ASSUME Known, UNCHANGED overtaken, sync' \in {None, sync}
  PROVE  /\ downloads' = downloads => DownloadsKnown'
         /\ pending' \in {None, pending} => PendingKnown'
         /\ upload' \in {None, upload} => UploadKnown'
         /\ sync' = sync /\ Owner(session') \in {None, Owner(session)} => SessionOfSync'
<1> USE DEF Known
<1>1. downloads' = downloads => DownloadsKnown'
  BY DEF DownloadsKnown, Allowed
<1>2. pending' \in {None, pending} => PendingKnown'
  BY DEF PendingKnown, Allowed
<1>3. upload' \in {None, upload} => UploadKnown'
  BY DEF UploadKnown, Allowed
<1>4. sync' = sync /\ Owner(session') \in {None, Owner(session)} => SessionOfSync'
  BY DEF SessionOfSync, Owner
<1> QED
  BY <1>1, <1>2, <1>3, <1>4

\* Every step keeps track of whose data is where; the sign-in is the one that
\* takes note of what it overtakes.
LEMMA KnownStep ==
  ASSUME IInv, [Next]_vars
  PROVE  Known'
<1> USE DEF accountVars, rendererVars, dataVars, boundVars, IInv
<1>0. /\ downloads \in [{"start", "login"} -> Download \cup {None}]
      /\ upload \in Upload \cup {None} /\ jar \in [Users -> SUBSET Accounts]
      /\ sync \in Users /\ session \in Session \cup {None} /\ login \in Users
  BY DEF Typed, TypeOK
<1>1. CASE \/ Boot \/ Poll \/ Refresh \/ PollChecked \/ SignOut \/ SwitchAccount
           \/ LoginRefused \/ startPeriodicUpload \/ UNCHANGED vars
           \/ \E k \in CleanupSlots : CleanupDone(k)
           \/ \E a \in Accounts : Submit(a)
  <2>1. UNCHANGED <<session, sync, pending, downloads, upload, overtaken>>
    BY <1>1 DEF Boot, Poll, Refresh, PollChecked, SignOut, SwitchAccount, LoginRefused,
         startPeriodicUpload, CleanupDone, Submit, vars
  <2> QED
    BY <2>1 DEF Known, SessionOfSync, DownloadsKnown, PendingKnown, UploadKnown, Allowed, Owner
<1>2. ASSUME NEW o \in Origins, checkStatus(o) PROVE Known'
  <2>1. Owner(session') \in {None, Owner(session)}
    BY <1>0, <1>2, NoneIsNoRecord DEF checkStatus, Owner, Session, Users
  <2>2. UNCHANGED <<sync, pending, downloads, upload, overtaken>>
    BY <1>2 DEF checkStatus
  <2> QED
    BY <2>1, <2>2, SameUser DEF Known
<1>3. ASSUME logout, UNCHANGED <<downloads, upload, overtaken>> PROVE Known'
  <2>1. sync' = None /\ session' = None
    BY <1>3 DEF logout, stop
  <2> QED
    BY <2>1 DEF Known, SessionOfSync, DownloadsKnown, PendingKnown, UploadKnown, Owner
<1>4. CASE BootChecked
  <2>1. CASE logout
    BY <1>3, <1>4, <2>1 DEF BootChecked
  <2>2. CASE UNCHANGED <<session, sync, pending>>
    <3>1. UNCHANGED <<downloads, upload, overtaken>>
      BY <1>4 DEF BootChecked
    <3> QED
      BY <2>2, <3>1
         DEF Known, SessionOfSync, DownloadsKnown, PendingKnown, UploadKnown, Allowed, Owner
  <2> QED
    BY <1>4, <2>1, <2>2 DEF BootChecked
<1>5. ASSUME NEW k \in CleanupSlots, CleanupLogout(k) PROVE Known'
  BY <1>3, <1>5 DEF CleanupLogout
<1>6. CASE LoginAccepted
  <2>1. /\ login \in Accounts /\ sync' = login /\ pending' = None
        /\ session' = [user |-> login, config |-> login] /\ UNCHANGED upload
        /\ overtaken' = overtaken \cup (InFlight \ {login})
        /\ downloads' = [downloads EXCEPT !["login"] = [of |-> login, step |-> "request"]]
    BY <1>0, <1>6 DEF LoginAccepted, Users
  <2>2. SessionOfSync'
    <3>1. session' \in Session
      BY <2>1 DEF Session, Users
    <3> QED BY <2>1, <3>1, NoneIsNoRecord DEF SessionOfSync, Owner
  <2>3. DownloadsKnown'
    <3>1. downloads'["login"].of = login /\ downloads'["start"] = downloads["start"]
      BY <1>0, <2>1
    <3>2. downloads["start"] # None => downloads["start"].of \in InFlight
      BY DEF InFlight
    <3> QED BY <2>1, <3>1, <3>2 DEF DownloadsKnown, Allowed
  <2>4. UploadKnown'
    <3>1. upload # None => upload.data \subseteq InFlight
      BY DEF InFlight
    <3> QED BY <2>1, <3>1 DEF UploadKnown, Allowed
  <2> QED BY <2>1, <2>2, <2>3, <2>4 DEF Known, PendingKnown
<1>7. ASSUME NEW d \in {"start", "login"}, DownloadReply(d) \/ DownloadDone(d) PROVE Known'
  <2>1. UNCHANGED <<session, sync, upload, overtaken>>
    BY <1>7 DEF DownloadReply, DownloadDone
  <2>2. DownloadsKnown'
    <3>1. \A e \in {"start", "login"} :
            downloads'[e] # None => downloads[e] # None /\ downloads'[e].of = downloads[e].of
      BY <1>0, <1>7 DEF DownloadReply, DownloadDone, Download
    <3> QED BY <2>1, <3>1 DEF Known, DownloadsKnown, Allowed
  <2>3. pending' \in {pending, downloads[d].of} /\ downloads[d] # None
    BY <1>7 DEF DownloadReply, DownloadDone
  <2>4. PendingKnown'
    BY <2>1, <2>3 DEF Known, PendingKnown, DownloadsKnown, Allowed
  <2> QED BY <2>1, <2>2, <2>4, SameUser DEF Known
<1>8. CASE Browse
  <2>1. UNCHANGED <<session, sync, downloads, upload, overtaken>> /\ pending' = None
    BY <1>8 DEF Browse
  <2> QED BY <2>1, SameUser DEF Known
<1>9. CASE UploadStart \/ exportClaudeLocalStorage
  <2>1. UNCHANGED <<session, sync, pending, downloads, overtaken>>
    BY <1>9 DEF UploadStart, exportClaudeLocalStorage
  <2>2. /\ upload'.data \subseteq jar[sync] \cup (IF upload = None THEN {} ELSE upload.data)
    BY <1>0, <1>9 DEF UploadStart, exportClaudeLocalStorage
  <2>3. sync # None => jar[sync] \subseteq Allowed(sync)
    BY <1>0 DEF CrossedOnlyInFlight, Allowed, Users
  <2>4. UploadKnown'
    BY <2>1, <2>2, <2>3 DEF Known, UploadKnown, Allowed
  <2> QED BY <2>1, <2>4, SameUser DEF Known
<1>10. CASE UploadEnd \/ UploadPosted
  <2>1. UNCHANGED <<session, sync, pending, downloads, overtaken>> /\ upload' = None
    BY <1>10 DEF UploadEnd, UploadPosted
  <2> QED BY <2>1, SameUser DEF Known
<1>11. CASE Relaunch
  <2>1. PICK s \in {session, None} : loadSession(s)
    BY <1>11 DEF Relaunch
  <2>2. UNCHANGED overtaken /\ pending' = None /\ upload' = None
    BY <1>11 DEF Relaunch
  <2>3. session' = s /\ sync' = Owner(s) /\ (Owner(s) # None => s # None /\ Owner(s) = s.user)
    BY <2>1 DEF loadSession, Owner
  <2>4. /\ downloads'["login"] = None
        /\ downloads'["start"] # None => downloads'["start"].of = sync'
    BY <2>1, <2>3 DEF loadSession, NoneOf
  <2> QED
    BY <2>2, <2>3, <2>4
       DEF Known, SessionOfSync, DownloadsKnown, PendingKnown, UploadKnown, Allowed, Owner
<1> QED
  BY <1>1, <1>2, <1>4, <1>5, <1>6, <1>7, <1>8, <1>9, <1>10, <1>11 DEF Next

\* What the partitions and the server's copy take in.
LEMMA CrossedStep ==
  ASSUME IInv, [Next]_vars
  PROVE  CrossedOnlyInFlight'
<1> USE DEF accountVars, rendererVars, dataVars, boundVars, IInv
<1>0. /\ jar \in [Users -> SUBSET Accounts] /\ remote \in [Accounts -> SUBSET Accounts]
      /\ downloads \in [{"start", "login"} -> Download \cup {None}]
      /\ sync \in Users /\ overtaken \subseteq overtaken'
  <2>1. overtaken \subseteq overtaken'
    BY DEF Next, vars, Boot, Poll, Refresh, PollChecked, SignOut, SwitchAccount, LoginRefused,
       startPeriodicUpload, CleanupDone, Submit, checkStatus, BootChecked, CleanupLogout,
       LoginAccepted, DownloadReply, DownloadDone, Browse, UploadStart, exportClaudeLocalStorage,
       UploadEnd, UploadPosted, Relaunch
  <2> QED BY <2>1 DEF Typed, TypeOK
<1>c. ASSUME NEW u, ClearedJar(u), remote' = remote PROVE CrossedOnlyInFlight'
  BY <1>0, <1>c DEF ClearedJar, Users, CrossedOnlyInFlight
<1>i. ASSUME NEW d \in {"start", "login"}, downloads[d] # None, Imported(downloads[d]),
             remote' = remote
      PROVE  CrossedOnlyInFlight'
  <2>1. downloads[d].of \in Accounts
    BY <1>0, <1>i DEF Download
  <2>2. sync # None => remote[downloads[d].of] \subseteq Allowed(sync)
    BY <1>i, <2>1 DEF Known, DownloadsKnown, CrossedOnlyInFlight, Allowed
  <2>3. jar' = [jar EXCEPT ![sync] = @ \cup remote[downloads[d].of]]
    BY <1>i DEF Imported
  <2>4. ASSUME NEW a \in Accounts PROVE jar'[a] \ {a} \subseteq overtaken'
    <3>1. CASE a = sync
      <4>1. jar'[a] = jar[a] \cup remote[downloads[d].of]
        BY <1>0, <2>3, <3>1
      <4> QED BY <1>0, <2>2, <3>1, <4>1, AccountsAreNotNone DEF CrossedOnlyInFlight, Allowed
    <3>2. CASE a # sync
      BY <1>0, <2>3, <3>2 DEF CrossedOnlyInFlight, Users
    <3> QED BY <3>1, <3>2
  <2> QED BY <1>0, <1>i, <2>4 DEF CrossedOnlyInFlight
<1>1. CASE \/ Boot \/ Poll \/ Refresh \/ PollChecked \/ SignOut \/ SwitchAccount
           \/ LoginRefused \/ LoginAccepted \/ startPeriodicUpload \/ Relaunch
           \/ \E o \in Origins : checkStatus(o)
           \/ \E k \in CleanupSlots : CleanupLogout(k)
           \/ \E a \in Accounts : Submit(a)
           \/ UploadStart \/ exportClaudeLocalStorage \/ UploadEnd
           \/ UNCHANGED vars
  <2>1. UNCHANGED <<jar, remote>>
    BY <1>1 DEF Boot, Poll, Refresh, PollChecked, SignOut, SwitchAccount, LoginRefused,
         LoginAccepted, startPeriodicUpload, Relaunch, checkStatus, CleanupLogout, Submit,
         UploadStart, exportClaudeLocalStorage, UploadEnd, vars
  <2> QED
    BY <1>0, <2>1 DEF CrossedOnlyInFlight
<1>2. CASE BootChecked
  <2>1. UNCHANGED remote /\ (UNCHANGED jar \/ ClearedJar(Owner(session)))
    BY <1>2 DEF BootChecked
  <2> QED BY <1>0, <1>c, <2>1 DEF CrossedOnlyInFlight
<1>3. ASSUME NEW k \in CleanupSlots, CleanupDone(k) PROVE CrossedOnlyInFlight'
  BY <1>3, <1>c DEF CleanupDone
<1>4. ASSUME NEW d \in {"start", "login"}, DownloadReply(d) \/ DownloadDone(d)
      PROVE  CrossedOnlyInFlight'
  <2>1. UNCHANGED remote /\ downloads[d] # None /\ (UNCHANGED jar \/ Imported(downloads[d]))
    BY <1>4 DEF DownloadReply, DownloadDone
  <2> QED BY <1>0, <1>i, <2>1 DEF CrossedOnlyInFlight
<1>5. CASE Browse
  <2>1. session # None /\ session.user = Owner(session) /\ session.user \in Users
    BY <1>5 DEF Browse, Owner, Typed, TypeOK, Session
  <2>2. session.user # None =>
          {session.user, pending} \ {None} \subseteq {session.user} \cup overtaken
    BY <2>1 DEF Known, SessionOfSync, PendingKnown, Allowed
  <2>3. /\ jar' = [jar EXCEPT ![session.user] = @ \cup ({session.user, pending} \ {None})]
        /\ UNCHANGED remote
    BY <1>5 DEF Browse
  <2>4. ASSUME NEW a \in Accounts PROVE jar'[a] \ {a} \subseteq overtaken'
    <3>1. CASE a = session.user
      <4>1. jar'[a] = jar[a] \cup ({session.user, pending} \ {None})
        BY <1>0, <2>1, <2>3, <3>1
      <4> QED BY <1>0, <2>2, <3>1, <4>1, AccountsAreNotNone DEF CrossedOnlyInFlight
    <3>2. CASE a # session.user
      BY <1>0, <2>3, <3>2 DEF CrossedOnlyInFlight, Users
    <3> QED BY <3>1, <3>2
  <2> QED
    BY <1>0, <2>3, <2>4 DEF CrossedOnlyInFlight
<1>6. CASE UploadPosted
  <2>1. /\ sync \in Accounts /\ upload.data \subseteq Allowed(sync)
        /\ remote' = [remote EXCEPT ![sync] = upload.data] /\ UNCHANGED jar
    BY <1>0, <1>6 DEF UploadPosted, Known, UploadKnown, Users
  <2> QED BY <1>0, <2>1 DEF CrossedOnlyInFlight, Allowed
<1> QED
  BY <1>1, <1>2, <1>3, <1>4, <1>5, <1>6 DEF Next

\* The invariant holds in every state.
LEMMA Inductive == Spec => []IInv
<1>1. Init => IInv
  <2> SUFFICES ASSUME Init PROVE IInv
    OBVIOUS
  <2>1. Known /\ CrossedOnlyInFlight
    BY DEF Init, Known, SessionOfSync, DownloadsKnown, PendingKnown, UploadKnown,
         CrossedOnlyInFlight, NoneOf, Users, Owner
  <2> QED
    BY <2>1, TypedInit DEF IInv
<1>2. IInv /\ [Next]_vars => IInv'
  <2> SUFFICES ASSUME IInv, [Next]_vars PROVE IInv'
    OBVIOUS
  <2>1. Typed'
    BY TypedStep DEF IInv
  <2> QED BY <2>1, KnownStep, CrossedStep DEF IInv
<1> QED
  BY <1>1, <1>2, PTL DEF Spec

\* Through every switch of accounts, whatever comes late: an account's browser
\* partitions and the server's copy of them hold the data of another only if a
\* sign-in overtook an upload or a download that had them (browser-sync.ts), for
\* any accounts and any number of things under way.
THEOREM OnlyTransfersCross == Spec => []CrossedOnlyInFlight
<1>1. IInv => CrossedOnlyInFlight
  BY DEF IInv
<1> QED
  BY <1>1, Inductive, PTL

-----------------------------------------------------------------------------
(***************************************************************************)
(* The operators of the configuration.                                     *)
(***************************************************************************)

\* A set of at most four places has a first one.
LEMMA MinOfFew ==
  ASSUME NEW I \in SUBSET (1 .. 4), I # {}
  PROVE  Min(I) \in I /\ \A y \in I : Min(I) <= y
<1>1. \E x \in I : \A y \in I : x <= y
  <2>1. CASE 1 \in I
    BY <2>1
  <2>2. CASE 1 \notin I /\ 2 \in I
    BY <2>2
  <2>3. CASE 1 \notin I /\ 2 \notin I /\ 3 \in I
    BY <2>3
  <2>4. CASE 1 \notin I /\ 2 \notin I /\ 3 \notin I
    <3>1. PICK x \in I : TRUE
      OBVIOUS
    <3>2. \A y \in I : y = 4
      BY <2>4
    <3> QED BY <3>1, <3>2
  <2> QED BY <2>1, <2>2, <2>3, <2>4
<1> QED
  BY <1>1, Zenon DEF Min

\* What a node's URL is made into is as secure as the provider's node, if it
\* has a server at all.
Faithful(n) ==
  parseProxyUrl(n.raw).good =>
    /\ parseProxyUrl(n.raw).sec = n.of.sec
    /\ parseProxyUrl(n.raw).insecure => n.of.insecure

\* The protocols a tunnel node is chosen from, in this order.
Best == {"hysteria2", "vless", "trojan", "ss"}

\* Of an entry: hysteria2 and trojan have TLS, ss has nothing of its own.
LEMMA EntrySecurity ==
  ASSUME NEW e \in Entry
  PROVE  /\ e \in [proto : Proto, net : Net, sec : {"none", "tls", "reality"}, insecure : BOOLEAN,
                   form : Form, good : BOOLEAN]
         /\ e.proto \in {"trojan", "hysteria2", "hy2"} => e.sec = "tls"
         /\ e.proto \in {"ss", "ssr", "socks5"} => e.sec = "none"
  BY DEF Entry, Proto

\* What the parsers make of a URL that can be parsed, as far as security goes.
LEMMA UrlSecurity ==
  ASSUME NEW u, u.proto \in {"ss", "vless", "trojan", "hysteria2"}, parseProxyUrl(u).good
  PROVE  /\ u.proto = "ss" => parseProxyUrl(u).sec = "none" /\ ~parseProxyUrl(u).insecure
         /\ u.proto = "vless" => parseProxyUrl(u).sec = u.sec /\ ~parseProxyUrl(u).insecure
         /\ u.proto = "trojan" => parseProxyUrl(u).sec = "tls" /\ ~parseProxyUrl(u).insecure
         /\ u.proto = "hysteria2" =>
              parseProxyUrl(u).sec = "tls" /\ parseProxyUrl(u).insecure = u.insecure
<1>0. u.good
  <2>1. parseProxyUrl(u).good = u.good
    BY DEF parseProxyUrl, parseShadowsocks, parseVless, parseTrojan, parseHysteria2, Outbound
  <2> QED BY <2>1
<1>1. CASE u.proto = "ss"
  BY <1>1 DEF parseProxyUrl, parseShadowsocks, Outbound
<1>2. CASE u.proto = "vless"
  BY <1>0, <1>2 DEF parseProxyUrl, parseVless, Outbound
<1>3. CASE u.proto = "trojan"
  BY <1>0, <1>3 DEF parseProxyUrl, parseTrojan, Outbound
<1>4. CASE u.proto = "hysteria2"
  BY <1>0, <1>4 DEF parseProxyUrl, parseHysteria2, Outbound
<1> QED BY <1>1, <1>2, <1>3, <1>4

\* Nodes of a list of links (parseProxyLine).
LEMMA LineIsFaithful ==
  ASSUME NEW e \in Entry, parseProxyLine(e).type \in Best
  PROVE  Faithful(parseProxyLine(e))
<1> DEFINE u == parseProxyLine(e).raw
<1>1. /\ e.proto \in {"ss", "vless", "trojan", "hysteria2", "hy2"}
      /\ u.proto = IF e.proto = "hy2" THEN "hysteria2" ELSE e.proto
      /\ u.sec = e.sec /\ u.insecure = e.insecure
      /\ parseProxyLine(e).of.sec = e.sec /\ parseProxyLine(e).of.insecure = e.insecure
  BY EntrySecurity DEF Proto, parseProxyLine, UrlOf, Wanted, Best
<1> HIDE DEF u
<1> QED BY <1>1, UrlSecurity, EntrySecurity DEF Faithful, u

\* Nodes of a Clash document (pushClashNode).
LEMMA ClashIsFaithful ==
  ASSUME NEW e \in Entry, pushClashNode(e).type \in Best
  PROVE  Faithful(pushClashNode(e))
<1> DEFINE u == pushClashNode(e).raw
<1>1. /\ e.proto \in {"ss", "vless", "trojan", "hysteria2"}
      /\ pushClashNode(e).of.sec = e.sec /\ pushClashNode(e).of.insecure = e.insecure
  BY EntrySecurity DEF Proto, pushClashNode, Wanted, Best
<1>2. /\ Captured(e).proto = e.proto /\ Captured(e).sec = e.sec
      /\ Captured(e).insecure = e.insecure
  BY EntrySecurity DEF Captured, UrlOf
<1>3. u.proto = e.proto /\ u.sec = e.sec /\ (u.insecure => e.insecure)
  <2>1. CASE e.proto \in {"ss", "hysteria2"}
    BY <1>2, <2>1 DEF pushClashNode, buildProtocolUrl, Captured, UrlOf
  <2>2. CASE e.proto \in {"vless", "trojan"}
    BY <1>2, <2>2 DEF pushClashNode, buildProtocolUrl, Captured, UrlOf
  <2> QED BY <1>1, <2>1, <2>2
<1> HIDE DEF u
<1> QED BY <1>1, <1>3, UrlSecurity, EntrySecurity DEF Faithful, u

\* A subscription is a short list of nodes, each made of an entry.
LEMMA Parsed ==
  ASSUME NEW d \in Document
  PROVE  /\ Len(parseSubscription(d)) \in 1 .. 2
         /\ \A i \in 1 .. Len(parseSubscription(d)) : \E e \in Entry :
              parseSubscription(d)[i] \in {parseProxyLine(e), pushClashNode(e)}
<1>1. Len(d) \in 1 .. 2 /\ d \in Seq(Entry)
  <2>1. CASE \E e \in Entry : d = <<e>>
    BY <2>1
  <2>2. CASE \E e, f \in Entry : d = <<e, f>>
    BY <2>2
  <2> QED BY <2>1, <2>2 DEF Document
<1>2. DOMAIN d = 1 .. Len(d) /\ \A i \in 1 .. Len(d) : d[i] \in Entry
  BY <1>1
<1>3. /\ parseSubscription(d) = [i \in 1 .. Len(d) |-> parseSubscription(d)[i]]
      /\ \A i \in 1 .. Len(d) :
           parseSubscription(d)[i] \in {parseProxyLine(d[i]), pushClashNode(d[i])}
  BY <1>2 DEF parseSubscription
<1>4. Len(parseSubscription(d)) = Len(d)
  <2> DEFINE T == {parseProxyLine(e) : e \in Entry} \cup {pushClashNode(e) : e \in Entry}
  <2>1. parseSubscription(d) \in [1 .. Len(d) -> T]
    BY <1>2, <1>3
  <2>2. Len(d) \in Nat
    BY <1>1
  <2> QED BY <2>1, <2>2 DEF Len
<1> QED BY <1>1, <1>2, <1>3, <1>4

\* First: nothing, or one of the nodes, of the type asked for.
LEMMA FirstIsOne ==
  ASSUME NEW d \in Document, NEW t, First(parseSubscription(d), t) # NoNode
  PROVE  \E i \in 1 .. Len(parseSubscription(d)) :
           /\ First(parseSubscription(d), t) = parseSubscription(d)[i]
           /\ parseSubscription(d)[i].type = t
<1> DEFINE nodes == parseSubscription(d)
           I == {i \in 1 .. Len(nodes) : nodes[i].type = t}
<1>1. First(nodes, t) = IF (IF I # {} THEN Min(I) ELSE 0) = 0 THEN NoNode
                        ELSE nodes[IF I # {} THEN Min(I) ELSE 0]
  BY DEF First, SelectInSeq
<1>2. Len(nodes) \in 1 .. 2
  BY Parsed
<1> HIDE DEF nodes
<1>3. I # {}
  BY <1>1 DEF nodes
<1>4. Min(I) \in I
  <2>1. I \in SUBSET (1 .. 4)
    BY <1>2
  <2> HIDE DEF I
  <2> QED BY <1>3, <2>1, MinOfFew
<1>5. Min(I) \in 1 .. Len(nodes) /\ nodes[Min(I)].type = t /\ Min(I) # 0
  BY <1>2, <1>4
<1> HIDE DEF I
<1>6. First(nodes, t) = nodes[Min(I)]
  BY <1>1, <1>3, <1>5
<1> QED BY <1>5, <1>6 DEF nodes

\* What a fetch comes back with: a node of one of the four types.
LEMMA FetchedIsFaithful ==
  ASSUME NEW n \in Fetchable
  PROVE  Faithful(n) /\ n # NoNode
<1>1. PICK d \in Document : n = TunnelNode(parseSubscription(d)) /\ n # NoNode
  BY DEF Fetchable
<1> DEFINE nodes == parseSubscription(d)
           types == <<"hysteria2", "vless", "trojan", "ss">>
           I == {i \in 1 .. Len(types) : First(nodes, types[i]) # NoNode}
           best == IF I # {} THEN Min(I) ELSE 0
<1>2. TunnelNode(nodes) = IF best = 0 THEN NoNode ELSE First(nodes, types[best])
  BY DEF TunnelNode, SelectInSeq
<1>3. Len(types) = 4 /\ \A i \in 1 .. 4 : types[i] \in Best
  BY DEF Best
<1> HIDE DEF nodes, types
<1>4. I # {}
  BY <1>1, <1>2 DEF nodes
<1>5. Min(I) \in I
  <2>1. I \in SUBSET (1 .. 4)
    BY <1>3
  <2> HIDE DEF I
  <2> QED BY <1>4, <2>1, MinOfFew
<1>6. best \in 1 .. 4 /\ First(nodes, types[best]) # NoNode
  BY <1>3, <1>4, <1>5
<1> HIDE DEF best
<1>7. n = First(nodes, types[best]) /\ types[best] \in Best
  BY <1>1, <1>2, <1>3, <1>6 DEF nodes
<1>8. PICK i \in 1 .. Len(nodes) : n = nodes[i] /\ nodes[i].type \in Best
  BY <1>6, <1>7, FirstIsOne DEF nodes
<1>9. PICK e \in Entry : n \in {parseProxyLine(e), pushClashNode(e)}
  BY <1>8, Parsed DEF nodes
<1>10. Faithful(n)
  BY <1>8, <1>9, LineIsFaithful, ClashIsFaithful
<1> QED BY <1>1, <1>10

-----------------------------------------------------------------------------
(***************************************************************************)
(* Rules.  A list of rules is decided by the first that matches.           *)
(***************************************************************************)

\* Whether a rule concerns a kind of traffic.
Hits(rules, i, traffic) == rules[i].traits \cap traffic # {}

\* The configuration has four rules of a kind at most.
LEMMA AtMostFour ==
  ASSUME NEW n \in Nat, n <= 4
  PROVE  n \in 0 .. 4
  OBVIOUS

\* The first rule that hits decides, or the final one if none does.
LEMMA MatchIsFirst ==
  ASSUME NEW T, NEW rules \in Seq(T), Len(rules) <= 4, NEW traffic, NEW final
  PROVE  \/ /\ \A i \in 1 .. Len(rules) : ~Hits(rules, i, traffic)
            /\ Match(rules, traffic, final) = final
         \/ \E i \in 1 .. Len(rules) :
              /\ Hits(rules, i, traffic)
              /\ \A j \in 1 .. Len(rules) : j < i => ~Hits(rules, j, traffic)
              /\ Match(rules, traffic, final) = rules[i].to
<1>2. Len(rules) \in 0 .. 4
  <2>1. Len(rules) \in Nat
    BY LenProperties
  <2> QED BY <2>1, AtMostFour
<1> DEFINE I == {i \in 1 .. Len(rules) : rules[i].traits \cap traffic # {}}
           hit == IF I # {} THEN Min(I) ELSE 0
<1>1. Match(rules, traffic, final) = IF hit = 0 THEN final ELSE rules[hit].to
  BY DEF Match, SelectInSeq
<1>3. CASE I = {}
  <2>1. \A i \in 1 .. Len(rules) : ~Hits(rules, i, traffic)
    BY <1>3 DEF Hits
  <2>2. Match(rules, traffic, final) = final
    <3> HIDE DEF I
    <3> QED BY <1>1, <1>3
  <2> QED BY <1>2, <2>1, <2>2
<1>4. CASE I # {}
  <2>1. Min(I) \in I /\ \A y \in I : Min(I) <= y
    <3>1. I \in SUBSET (1 .. 4)
      BY <1>2
    <3> HIDE DEF I
    <3> QED BY <1>4, <3>1, MinOfFew
  <2>2. Min(I) \in 1 .. Len(rules) /\ Hits(rules, Min(I), traffic) /\ Min(I) # 0
    BY <1>2, <2>1 DEF Hits
  <2>3. \A j \in 1 .. Len(rules) : j < Min(I) => ~Hits(rules, j, traffic)
    BY <1>2, <2>1, <2>2 DEF Hits
  <2>4. Match(rules, traffic, final) = rules[Min(I)].to
    <3> HIDE DEF I
    <3> QED BY <1>1, <1>4, <2>2
  <2> HIDE DEF I
  <2> QED BY <2>2, <2>3, <2>4
<1> QED BY <1>3, <1>4

\* What a rule of the configuration may say.
ARule == [traits : SUBSET Trait, to : {"local", "fakeip", "direct", "reject"}]

\* Lists of up to three rules.
LEMMA Lists ==
  ASSUME NEW x \in ARule, NEW y \in ARule, NEW z \in ARule
  PROVE  /\ <<>> \in Seq(ARule) /\ Len(<<>>) = 0
         /\ <<x>> \in Seq(ARule) /\ Len(<<x>>) = 1 /\ <<x>>[1] = x
         /\ <<x, y, z>> \in Seq(ARule) /\ Len(<<x, y, z>>) = 3
         /\ <<x, y, z>>[1] = x /\ <<x, y, z>>[2] = y /\ <<x, y, z>>[3] = z
  OBVIOUS

\* Two lists of rules, one behind the other.
LEMMA Concatenated ==
  ASSUME NEW x \in Seq(ARule), NEW y \in Seq(ARule)
  PROVE  /\ x \o y \in Seq(ARule) /\ Len(x \o y) = Len(x) + Len(y)
         /\ \A i \in 1 .. Len(x) + Len(y) :
              (x \o y)[i] = IF i <= Len(x) THEN x[i] ELSE y[i - Len(x)]
  BY ConcatProperties

\* The rules buildTunConfig writes.
LEMMA RulesAreRules ==
  /\ Rule({"cn-app"}, "local") \in ARule /\ Rule({"cn-site"}, "local") \in ARule
  /\ Rule({"named"}, "fakeip") \in ARule /\ Rule({"ipv6"}, "reject") \in ARule
  /\ Rule({"cn-app"}, "direct") \in ARule /\ Rule({"private"}, "direct") \in ARule
  /\ Rule({"cn-site", "cn-ip"}, "direct") \in ARule
  BY DEF ARule, Rule, Trait

\* A configuration that buildTunConfig made, with or without the rule sets.
IsBuilt(cfg, ruleSet) == cfg = buildTunConfig(cfg.proxy, cfg.tunnel, ruleSet)

\* Its rules, one by one.
LEMMA DnsRules ==
  ASSUME NEW cfg, NEW ruleSet \in BOOLEAN, IsBuilt(cfg, ruleSet), NEW r, r = cfg.dnsRules
  PROVE  /\ r \in Seq(ARule) /\ Len(r) = (IF ruleSet THEN 3 ELSE 2)
         /\ r[1] = Rule({"cn-app"}, "local")
         /\ ruleSet => r[2] = Rule({"cn-site"}, "local")
         /\ r[Len(r)] = Rule({"named"}, "fakeip")
<1> DEFINE a == <<Rule({"cn-app"}, "local")>>
           b == IF ruleSet THEN <<Rule({"cn-site"}, "local")>> ELSE <<>>
           c == <<Rule({"named"}, "fakeip")>>
           ab == a \o b
<1>1. /\ a \in Seq(ARule) /\ Len(a) = 1 /\ a[1] = Rule({"cn-app"}, "local")
      /\ b \in Seq(ARule) /\ Len(b) = (IF ruleSet THEN 1 ELSE 0)
      /\ ruleSet => b[1] = Rule({"cn-site"}, "local")
      /\ c \in Seq(ARule) /\ Len(c) = 1 /\ c[1] = Rule({"named"}, "fakeip")
  BY Lists, RulesAreRules
<1>2. r = ab \o c
  BY DEF IsBuilt, buildTunConfig
<1> HIDE DEF a, b, c
<1>3. /\ ab \in Seq(ARule) /\ Len(ab) = Len(a) + Len(b)
      /\ \A i \in 1 .. Len(a) + Len(b) : ab[i] = IF i <= Len(a) THEN a[i] ELSE b[i - Len(a)]
  BY <1>1, Concatenated
<1> HIDE DEF ab
<1>4. /\ ab \o c \in Seq(ARule) /\ Len(ab \o c) = Len(ab) + Len(c)
      /\ \A i \in 1 .. Len(ab) + Len(c) :
           (ab \o c)[i] = IF i <= Len(ab) THEN ab[i] ELSE c[i - Len(ab)]
  BY <1>1, <1>3, Concatenated
<1>5. /\ r \in Seq(ARule) /\ Len(r) = Len(ab) + 1
      /\ \A i \in 1 .. Len(ab) + 1 : r[i] = IF i <= Len(ab) THEN ab[i] ELSE c[i - Len(ab)]
  <2>1. Len(c) = 1
    BY <1>1
  <2> QED BY <1>2, <1>4, <2>1
<1>6. CASE ruleSet
  <2>1. Len(ab) = 2 /\ ab[1] = a[1] /\ ab[2] = b[1]
    BY <1>1, <1>3, <1>6
  <2>2. Len(r) = 3 /\ r[1] = ab[1] /\ r[2] = ab[2] /\ r[3] = c[1]
    BY <1>5, <2>1
  <2> QED BY <1>1, <1>5, <1>6, <2>1, <2>2
<1>7. CASE ~ruleSet
  <2>1. Len(ab) = 1 /\ ab[1] = a[1]
    BY <1>1, <1>3, <1>7
  <2>2. Len(r) = 2 /\ r[1] = ab[1] /\ r[2] = c[1]
    BY <1>5, <2>1
  <2> QED BY <1>1, <1>5, <1>7, <2>1, <2>2
<1> QED BY <1>6, <1>7

\* Its rules for connections.
LEMMA RouteRules ==
  ASSUME NEW cfg, NEW ruleSet \in BOOLEAN, IsBuilt(cfg, ruleSet), NEW r, r = cfg.rules
  PROVE  /\ r \in Seq(ARule) /\ Len(r) = (IF ruleSet THEN 4 ELSE 3)
         /\ r[1] = Rule({"ipv6"}, "reject")
         /\ r[2] = Rule({"cn-app"}, "direct")
         /\ r[3] = Rule({"private"}, "direct")
         /\ ruleSet => r[4] = Rule({"cn-site", "cn-ip"}, "direct")
<1> DEFINE a == <<Rule({"ipv6"}, "reject"), Rule({"cn-app"}, "direct"),
                  Rule({"private"}, "direct")>>
           b == IF ruleSet THEN <<Rule({"cn-site", "cn-ip"}, "direct")>> ELSE <<>>
<1>1. /\ a \in Seq(ARule) /\ Len(a) = 3
      /\ a[1] = Rule({"ipv6"}, "reject")
      /\ a[2] = Rule({"cn-app"}, "direct")
      /\ a[3] = Rule({"private"}, "direct")
      /\ b \in Seq(ARule) /\ Len(b) = (IF ruleSet THEN 1 ELSE 0)
      /\ ruleSet => b[1] = Rule({"cn-site", "cn-ip"}, "direct")
  BY Lists, RulesAreRules
<1>2. r = a \o b
  BY DEF IsBuilt, buildTunConfig
<1> HIDE DEF a, b
<1>3. /\ r \in Seq(ARule) /\ Len(r) = 3 + Len(b)
      /\ \A i \in 1 .. 3 + Len(b) : r[i] = IF i <= 3 THEN a[i] ELSE b[i - 3]
  <2>1. a \in Seq(ARule) /\ b \in Seq(ARule) /\ Len(a) = 3
    BY <1>1
  <2>2. /\ a \o b \in Seq(ARule) /\ Len(a \o b) = Len(a) + Len(b)
        /\ \A i \in 1 .. Len(a) + Len(b) : (a \o b)[i] = IF i <= Len(a) THEN a[i] ELSE b[i - Len(a)]
    BY <2>1, ConcatProperties
  <2> QED BY <1>2, <2>1, <2>2
<1>4. CASE ruleSet
  <2>1. Len(b) = 1 /\ Len(r) = 4
    BY <1>1, <1>3, <1>4
  <2>2. r[1] = a[1] /\ r[2] = a[2] /\ r[3] = a[3] /\ r[4] = b[1]
    BY <1>3, <2>1
  <2> QED BY <1>1, <1>3, <1>4, <2>1, <2>2
<1>5. CASE ~ruleSet
  BY <1>1, <1>3, <1>5
<1> QED BY <1>4, <1>5

\* What goes out directly is resolved directly, whichever rules decide.
LEMMA BuiltAgrees ==
  ASSUME NEW ruleSet \in BOOLEAN, IsBuilt(config, ruleSet)
  PROVE  RoutesAgree
<1> SUFFICES ASSUME NEW traffic \in Traffic, Route(traffic) = "direct"
             PROVE  /\ Dns(traffic) \in {"none", "local"}
                    /\ traffic \cap {"cn-app", "cn-site", "cn-ip", "private"} # {}
  BY DEF RoutesAgree
<1> DEFINE dns == config.dnsRules
           rules == config.rules
           seen == Seen(traffic)
<1>1. /\ dns \in Seq(ARule) /\ Len(dns) = (IF ruleSet THEN 3 ELSE 2)
      /\ dns[1] = Rule({"cn-app"}, "local")
      /\ ruleSet => dns[2] = Rule({"cn-site"}, "local")
      /\ dns[Len(dns)] = Rule({"named"}, "fakeip")
  BY DnsRules
<1>2. /\ rules \in Seq(ARule) /\ Len(rules) = (IF ruleSet THEN 4 ELSE 3)
      /\ rules[1] = Rule({"ipv6"}, "reject")
      /\ rules[2] = Rule({"cn-app"}, "direct")
      /\ rules[3] = Rule({"private"}, "direct")
      /\ ruleSet => rules[4] = Rule({"cn-site", "cn-ip"}, "direct")
  BY RouteRules
<1>3. Match(rules, seen, "proxy") = "direct"
  BY DEF Route
<1> HIDE DEF dns, rules, seen
<1>4. \/ "cn-app" \in seen \/ "private" \in seen
      \/ ruleSet /\ ("cn-site" \in seen \/ "cn-ip" \in seen)
  <2>0. Len(rules) <= 4
    BY <1>2
  <2>1. PICK i \in 1 .. Len(rules) : Hits(rules, i, seen) /\ rules[i].to = "direct"
    <3>1. rules \in Seq(ARule)
      BY <1>2
    <3>2. "proxy" # "direct"
      OBVIOUS
    <3> QED BY <1>3, <2>0, <3>1, <3>2, MatchIsFirst
  <2>2. i # 1
    BY <1>2, <2>1 DEF Rule
  <2>3. i = 2 \/ i = 3 \/ (i = 4 /\ ruleSet)
    BY <1>2, <2>1, <2>2
  <2>4. CASE i = 2
    BY <1>2, <2>1, <2>4 DEF Rule, Hits
  <2>5. CASE i = 3
    BY <1>2, <2>1, <2>5 DEF Rule, Hits
  <2>6. CASE i = 4 /\ ruleSet
    BY <1>2, <2>1, <2>6 DEF Rule, Hits
  <2> QED BY <2>3, <2>4, <2>5, <2>6
<1>5. seen \subseteq traffic
  BY DEF seen, Seen
<1>6. Dns(traffic) \in {"none", "local", "fakeip"}
  <2>1. CASE "named" \notin traffic
    BY <2>1 DEF Dns
  <2>2. CASE "named" \in traffic
    <3>1. Hits(dns, Len(dns), traffic) /\ Len(dns) \in 1 .. Len(dns) /\ Len(dns) <= 4
      BY <1>1, <2>2 DEF Hits, Rule
    <3>2. PICK i \in 1 .. Len(dns) : Match(dns, traffic, "remote") = dns[i].to
      BY <1>1, <3>1, MatchIsFirst
    <3>3. dns[i].to \in {"local", "fakeip"}
      <4>1. CASE ruleSet
        <5>1. i = 1 \/ i = 2 \/ i = Len(dns)
          BY <1>1, <3>2, <4>1
        <5> QED BY <1>1, <4>1, <5>1 DEF Rule
      <4>2. CASE ~ruleSet
        <5>1. i = 1 \/ i = Len(dns)
          BY <1>1, <3>2, <4>2
        <5> QED BY <1>1, <4>2, <5>1 DEF Rule
      <4> QED BY <4>1, <4>2
    <3> QED BY <2>2, <3>2, <3>3 DEF Dns, dns
  <2> QED BY <2>1, <2>2
<1>7. ASSUME Dns(traffic) = "fakeip" PROVE FALSE
  <2>1. Match(dns, traffic, "remote") = "fakeip"
    BY <1>7 DEF Dns, dns
  <2>2. Len(dns) <= 4
    BY <1>1
  <2>3. PICK i \in 1 .. Len(dns) : /\ dns[i].to = "fakeip"
                                   /\ \A j \in 1 .. Len(dns) : j < i => ~Hits(dns, j, traffic)
    BY <1>1, <2>1, <2>2, MatchIsFirst
  <2>4. i # 1 /\ (ruleSet => i # 2) /\ Len(dns) \in {2, 3}
    BY <1>1, <2>3 DEF Rule
  <2>5. ~Hits(dns, 1, traffic) /\ (ruleSet => ~Hits(dns, 2, traffic))
    BY <1>1, <2>3, <2>4
  <2>6. "cn-app" \notin traffic /\ (ruleSet => "cn-site" \notin traffic)
    BY <1>1, <2>5 DEF Hits, Rule
  <2>7. seen = traffic \ {"cn-ip", "private"}
    BY <1>7 DEF seen, Seen
  <2> QED BY <1>4, <2>6, <2>7
<1> QED BY <1>4, <1>5, <1>6, <1>7

\* Each needs only what comes before it in direct, local-dns, local-dns-ali,
\* tunnel, proxy, remote-dns: the first of a set needs none of the set.
LEMMA BuiltHasNoLoop ==
  ASSUME NEW ruleSet \in BOOLEAN, IsBuilt(config, ruleSet)
  PROVE  NoLoop
<1>1. /\ config.detour["proxy"] \in {"tunnel", "none"} /\ config.detour["tunnel"] = "none"
      /\ config.dialDns = "local"
      /\ config.dnsDetour["local"] = "direct" /\ config.dnsDetour["ali"] = "direct"
      /\ config.dnsDetour["remote"] \in {"tunnel", "proxy"}
      /\ config.resolver["local"] = "none" /\ config.resolver["ali"] = "none"
      /\ config.resolver["remote"] = "local"
  BY DEF IsBuilt, buildTunConfig
<1>2. /\ Needs("direct") = {} /\ Needs("local") \subseteq {"direct"}
      /\ Needs("ali") \subseteq {"direct"}
  BY <1>1 DEF Needs
<1>3. Needs("tunnel") \subseteq {"local"} /\ Needs("proxy") \subseteq {"tunnel", "local"}
  BY <1>1 DEF Needs
<1>4. Needs("remote") \subseteq {"tunnel", "proxy", "local"}
  BY <1>1 DEF Needs
<1> SUFFICES ASSUME NEW some \in SUBSET {"proxy", "tunnel", "direct", "remote", "local", "ali"},
                    some # {}
             PROVE  \E n \in some : Needs(n) \cap some = {}
  BY DEF NoLoop
<1>5. CASE "direct" \in some
  BY <1>2, <1>5
<1>6. CASE "direct" \notin some /\ ("local" \in some \/ "ali" \in some)
  BY <1>2, <1>6
<1>7. CASE "direct" \notin some /\ "local" \notin some /\ "ali" \notin some /\ "tunnel" \in some
  BY <1>3, <1>7
<1>8. CASE some \cap {"direct", "local", "ali", "tunnel"} = {} /\ "proxy" \in some
  BY <1>3, <1>8
<1>9. CASE some \subseteq {"remote"}
  BY <1>4, <1>9
<1> QED BY <1>5, <1>6, <1>7, <1>8, <1>9

-----------------------------------------------------------------------------
(***************************************************************************)
(* The invariants.                                                         *)
(***************************************************************************)

\* What a request means to tunnel through was offered to it.
CallsAreOffered ==
  /\ call \in [Calls -> [pc : {"idle", "fetching", "probing", "owner", "joined"},
                        node : Fetchable \cup {NoNode}]]
  /\ \A c \in Calls : call[c].pc \in {"idle", "fetching"} => call[c].node = NoNode

\* How far a start can be.
Stages == {"none", "stopping", "cleaning", "building", "validating", "starting"}

\* A start under way has the requests that wait for it, its owner among them,
\* and nobody waits for nothing.
StartHasItsCalls ==
  /\ start \in [by : Calls \cup {Nobody}, stage : Stages]
  /\ start # NoStart => start.by \in Calls /\ start.stage # "none" /\ call[start.by].pc = "owner"
  /\ start = NoStart => \A c \in Calls : call[c].pc \notin {"owner", "joined"}

\* The tunnel that the next configuration will go through was set by a request
\* that still waits; so was that of a configuration just built.
Waiting(tunnel) ==
  \E c \in Calls : call[c].pc \in {"owner", "joined"} /\ Tunnel(call[c].node) = tunnel

BuiltForWaiting ==
  /\ start # NoStart /\ outbound # NoTunnel => Waiting(outbound)
  /\ JustBuilt /\ config.tunnel # NoTunnel => Waiting(config.tunnel)

\* What every step preserves.
ProxyInv == CallsAreOffered /\ StartHasItsCalls /\ BuiltForWaiting

\* No request has come.
LEMMA ProxyInitInv == ProxyInit => ProxyInv
<1> SUFFICES ASSUME ProxyInit PROVE ProxyInv
  OBVIOUS
<1>1. CallsAreOffered
  BY DEF ProxyInit, CallsAreOffered, NoCall
<1>2. StartHasItsCalls
  <2>1. start = NoStart /\ \A c \in Calls : call[c].pc = "idle"
    BY DEF ProxyInit, NoCall
  <2> QED BY <2>1 DEF StartHasItsCalls, NoStart, Stages
<1>3. BuiltForWaiting
  BY DEF ProxyInit, BuiltForWaiting, JustBuilt, NoStart
<1> QED BY <1>1, <1>2, <1>3 DEF ProxyInv

\* A request sets the tunnel, and starts or joins.
LEMMA ProceedKeeps ==
  ASSUME ProxyInv, NEW c \in Calls, call[c].pc \in {"idle", "fetching", "probing"},
         NEW node \in Fetchable \cup {NoNode}, Proceed(c, node), UNCHANGED config
  PROVE  ProxyInv'
<1> USE DEF ProxyInv
<1> PICK pc \in {"owner", "joined"} : call' = [call EXCEPT ![c] = [pc |-> pc, node |-> node]]
  BY DEF Proceed, startTun
<1>1. CallsAreOffered'
  BY DEF CallsAreOffered
<1>2. /\ call'[c] = [pc |-> pc, node |-> node]
      /\ \A d \in Calls : d # c => call'[d] = call[d]
  BY DEF CallsAreOffered
<1>3. StartHasItsCalls'
  <2>1. CASE start.by = Nobody
    <3>1. start' = [by |-> c, stage |-> "stopping"] /\ pc = "owner"
      BY <1>2, <2>1 DEF Proceed, startTun, CallsAreOffered
    <3> QED BY <1>2, <3>1 DEF StartHasItsCalls, NoStart, Stages
  <2>2. CASE start.by # Nobody
    <3>1. UNCHANGED start
      BY <2>2 DEF Proceed, startTun
    <3>2. start # NoStart
      BY <2>2 DEF NoStart
    <3> QED BY <1>2, <3>1, <3>2 DEF StartHasItsCalls
  <2> QED BY <2>1, <2>2
<1>4. Waiting(outbound)'
  BY <1>2 DEF Waiting, Proceed, Tunnel
<1>5. ASSUME JustBuilt', config.tunnel # NoTunnel PROVE Waiting(config.tunnel)'
  <2>1. JustBuilt
    BY <1>5 DEF JustBuilt, Proceed, startTun
  <2>2. PICK d \in Calls : /\ call[d].pc \in {"owner", "joined"}
                           /\ Tunnel(call[d].node) = config.tunnel
    BY <1>5, <2>1 DEF BuiltForWaiting, Waiting
  <2>3. call'[d] = call[d]
    BY <1>2, <2>2
  <2> QED BY <2>2, <2>3 DEF Waiting, Tunnel
<1>6. BuiltForWaiting'
  BY <1>4, <1>5 DEF BuiltForWaiting
<1> QED BY <1>1, <1>3, <1>6

\* The steps of a start: who waits, waits on.
LEMMA StageKeeps ==
  ASSUME ProxyInv, UNCHANGED <<call, outbound>>, start # NoStart,
         NEW to \in Stages, to # "none", start' = [start EXCEPT !.stage = to],
         (to = "validating" /\ config'.tunnel # NoTunnel) => Waiting(config'.tunnel)
  PROVE  ProxyInv'
<1>0. /\ start' \in [by : Calls \cup {Nobody}, stage : Stages]
      /\ start'.by = start.by /\ start'.stage = to
  BY DEF ProxyInv, StartHasItsCalls
<1>1. CallsAreOffered'
  BY DEF ProxyInv, CallsAreOffered
<1>2. StartHasItsCalls'
  <2>1. start' # NoStart
    BY <1>0 DEF NoStart
  <2> QED BY <1>0, <2>1 DEF ProxyInv, StartHasItsCalls
<1>3. BuiltForWaiting'
  <2>1. Waiting(outbound)' <=> Waiting(outbound)
    BY DEF Waiting, Tunnel
  <2>2. Waiting(config.tunnel)' <=> Waiting(config'.tunnel)
    BY DEF Waiting, Tunnel
  <2>3. JustBuilt' <=> to = "validating"
    BY <1>0 DEF JustBuilt
  <2>4. UNCHANGED outbound /\ start # NoStart
    OBVIOUS
  <2> QED BY <2>1, <2>3, <2>4, <2>2 DEF ProxyInv, BuiltForWaiting
<1> QED BY <1>1, <1>2, <1>3 DEF ProxyInv

\* Everyone who waited is answered, and nothing is being built.
LEMMA SettleKeeps ==
  ASSUME ProxyInv, Settle
  PROVE  ProxyInv'
<1>1. CallsAreOffered'
  BY DEF ProxyInv, CallsAreOffered, Settle, NoCall
<1>2. start' = NoStart
  BY DEF Settle
<1>3. \A c \in Calls : call'[c].pc \notin {"owner", "joined"}
  BY DEF Settle, NoCall
<1>4. StartHasItsCalls' /\ BuiltForWaiting'
  BY <1>2, <1>3 DEF StartHasItsCalls, BuiltForWaiting, JustBuilt, NoStart, Stages
<1> QED BY <1>1, <1>4 DEF ProxyInv

\* buildTunConfig takes the tunnel as it is.
LEMMA BuiltTunnel ==
  ASSUME NEW p, NEW t, NEW r
  PROVE  buildTunConfig(p, t, r).tunnel = t
  BY DEF buildTunConfig

\* One case per action; a start and its requests end together (settle).
LEMMA ProxyNextInv == ProxyInv /\ [ProxyNext]_proxyVars => ProxyInv'
<1> SUFFICES ASSUME ProxyInv, [ProxyNext]_proxyVars PROVE ProxyInv'
  OBVIOUS
<1>1. ASSUME NEW c \in Calls, StartTunInternal(c) PROVE ProxyInv'
  <2>1. CASE call' = [call EXCEPT ![c].pc = "fetching"] /\ UNCHANGED <<outbound, start>>
    <3>1. call[c].pc = "idle" /\ UNCHANGED config
      BY <1>1 DEF StartTunInternal
    <3>2. CallsAreOffered'
      BY <2>1, <3>1 DEF ProxyInv, CallsAreOffered
    <3>3. /\ call'[c].pc = "fetching"
          /\ \A d \in Calls : d # c => call'[d] = call[d]
      BY <2>1 DEF ProxyInv, CallsAreOffered
    <3>4. StartHasItsCalls'
      BY <2>1, <3>1, <3>3 DEF ProxyInv, StartHasItsCalls, NoStart
    <3>5. ASSUME NEW t, Waiting(t)
          PROVE  \E d \in Calls : call'[d].pc \in {"owner", "joined"} /\ Tunnel(call'[d].node) = t
      BY <3>1, <3>3, <3>5 DEF Waiting
    <3>6. BuiltForWaiting'
      <4>1. UNCHANGED <<start, outbound, config>>
        BY <2>1, <3>1
      <4> QED BY <3>5, <4>1 DEF ProxyInv, BuiltForWaiting, Waiting, JustBuilt, Tunnel
    <3> QED BY <3>2, <3>4, <3>6 DEF ProxyInv
  <2>2. CASE Proceed(c, NoNode)
    BY <1>1, <2>2, ProceedKeeps DEF StartTunInternal
  <2> QED BY <1>1, <2>1, <2>2 DEF StartTunInternal
<1>2. ASSUME NEW c \in Calls, FetchedNone(c) PROVE ProxyInv'
  BY <1>2, ProceedKeeps DEF FetchedNone
<1>3. ASSUME NEW c \in Calls, Fetched(c) PROVE ProxyInv'
  <2> PICK node \in Fetchable : call' = [call EXCEPT ![c] = [pc |-> "probing", node |-> node]]
    BY <1>3 DEF Fetched
  <2>1. call[c].pc = "fetching" /\ UNCHANGED <<start, outbound, config>>
    BY <1>3 DEF Fetched
  <2>2. CallsAreOffered'
    BY <2>1 DEF ProxyInv, CallsAreOffered
  <2>3. /\ call'[c].pc = "probing"
        /\ \A d \in Calls : d # c => call'[d] = call[d]
    BY DEF ProxyInv, CallsAreOffered
  <2>4. StartHasItsCalls'
    BY <2>1, <2>3 DEF ProxyInv, StartHasItsCalls, NoStart
  <2>5. ASSUME NEW t, Waiting(t)
        PROVE  \E d \in Calls : call'[d].pc \in {"owner", "joined"} /\ Tunnel(call'[d].node) = t
    BY <2>1, <2>3, <2>5 DEF Waiting
  <2>6. BuiltForWaiting'
    BY <2>1, <2>5 DEF ProxyInv, BuiltForWaiting, Waiting, JustBuilt, Tunnel
  <2> QED BY <2>2, <2>4, <2>6 DEF ProxyInv
<1>4. ASSUME NEW c \in Calls, Probed(c) PROVE ProxyInv'
  <2> PICK directOk \in BOOLEAN : Proceed(c, IF directOk THEN NoNode ELSE call[c].node)
    BY <1>4 DEF Probed
  <2>1. (IF directOk THEN NoNode ELSE call[c].node) \in Fetchable \cup {NoNode}
    BY DEF ProxyInv, CallsAreOffered
  <2> QED BY <1>4, <2>1, ProceedKeeps DEF Probed
<1>5. CASE Stopped
  <2>1. PICK to \in {"cleaning", "building"} : Stage("stopping", to)
    BY <1>5 DEF Stopped
  <2>2. start # NoStart /\ to \in Stages /\ to \notin {"none", "validating"}
    BY <2>1 DEF Stage, NoStart, Stages
  <2>3. UNCHANGED <<call, outbound>> /\ start' = [start EXCEPT !.stage = to]
    BY <1>5, <2>1 DEF Stopped, Stage
  <2> QED BY <2>2, <2>3, StageKeeps
<1>6. CASE Cleaned
  <2>1. start # NoStart /\ Stage("cleaning", "building") /\ UNCHANGED <<call, outbound>>
    BY <1>6 DEF Cleaned, Stage, NoStart
  <2> QED BY <2>1, StageKeeps DEF Stage, Stages
<1>7. CASE CleanupTimesOut
  <2>1. start # NoStart /\ Stage("cleaning", "building") /\ UNCHANGED <<call, outbound>>
    BY <1>7 DEF CleanupTimesOut, Stage, NoStart
  <2> QED BY <2>1, StageKeeps DEF Stage, Stages
<1>8. CASE Built
  <2>1. PICK u \in ProxyUrl, ruleSet \in BOOLEAN :
          config' = buildTunConfig(parseProxyUrl(u), outbound, ruleSet)
    BY <1>8 DEF Built
  <2>2. config'.tunnel = outbound
    BY <2>1, BuiltTunnel
  <2>3. start # NoStart
    BY <1>8 DEF Built, Stage, NoStart
  <2>4. outbound # NoTunnel => Waiting(outbound)
    BY <2>3 DEF ProxyInv, BuiltForWaiting
  <2>5. start' = [start EXCEPT !.stage = "validating"] /\ UNCHANGED <<call, outbound>>
    BY <1>8 DEF Built, Stage
  <2>6. "validating" \in Stages /\ "validating" # "none"
    BY DEF Stages
  <2> QED BY <2>2, <2>3, <2>4, <2>5, <2>6, StageKeeps
<1>9. CASE Validated
  <2>1. /\ start # NoStart /\ start' = [start EXCEPT !.stage = "starting"]
        /\ UNCHANGED <<call, outbound>>
    BY <1>9 DEF Validated, NoStart
  <2> QED BY <2>1, StageKeeps DEF Stages
<1>10. CASE Started \/ StartFails
  BY <1>10, SettleKeeps DEF Started, StartFails
<1>11. CASE Killed \/ UNCHANGED proxyVars
  <2>1. UNCHANGED <<call, start, outbound, config>>
    BY <1>11 DEF Killed, proxyVars
  <2> QED
    BY <2>1 DEF ProxyInv, CallsAreOffered, StartHasItsCalls, BuiltForWaiting, Waiting, JustBuilt, Tunnel
<1> QED
  BY <1>1, <1>2, <1>3, <1>4, <1>5, <1>6, <1>7, <1>8, <1>9, <1>10, <1>11 DEF ProxyNext

\* The invariant holds in every state.
LEMMA AlwaysProxyInv == ProxySpec => []ProxyInv
  BY ProxyInitInv, ProxyNextInv, PTL DEF ProxySpec

(***************************************************************************)
(* However a node is written and whatever way it takes into the            *)
(* configuration (buildProtocolUrl, parseProxyUrl and its catch branches), *)
(* a tunnel that can be dialled is as secure as the node that a waiting    *)
(* request chose for it.                                                   *)
(***************************************************************************)
THEOREM TunnelsAreNotDowngraded == ProxySpec => []NoDowngrade
<1>1. ProxyInv => NoDowngrade
  <2> SUFFICES ASSUME ProxyInv, JustBuilt, config.tunnel.good
               PROVE  \E c \in Calls : LET node == call[c].node IN
                        /\ call[c].pc \in {"owner", "joined"} /\ node # NoNode
                        /\ Tunnel(node) = config.tunnel
                        /\ config.tunnel.sec = node.of.sec
                        /\ config.tunnel.insecure => node.of.insecure
    BY DEF NoDowngrade
  <2>1. config.tunnel # NoTunnel
    <3>1. ~NoTunnel.good
      BY DEF NoTunnel, NoUrl, Outbound
    <3> QED BY <3>1
  <2>2. PICK c \in Calls : /\ call[c].pc \in {"owner", "joined"}
                           /\ Tunnel(call[c].node) = config.tunnel
    BY <2>1 DEF ProxyInv, BuiltForWaiting, Waiting
  <2>3. call[c].node # NoNode
    BY <2>1, <2>2 DEF Tunnel
  <2>4. call[c].node \in Fetchable
    BY <2>3 DEF ProxyInv, CallsAreOffered
  <2>5. config.tunnel = parseProxyUrl(call[c].node.raw)
    BY <2>2, <2>3 DEF Tunnel
  <2> QED BY <2>2, <2>3, <2>4, <2>5, FetchedIsFaithful DEF Faithful
<1> QED BY <1>1, AlwaysProxyInv, PTL

(***************************************************************************)
(* A configuration goes through the tunnel only if a request that waits    *)
(* for it found that tunnel and no way without (setTunnelOutbound), for    *)
(* any number of overlapping requests.                                     *)
(***************************************************************************)
THEOREM ChainsAreWanted == ProxySpec => []ChainIsWanted
<1>1. ProxyInv => ChainIsWanted
  BY DEF ProxyInv, BuiltForWaiting, ChainIsWanted, Waiting
<1> QED BY <1>1, AlwaysProxyInv, PTL

-----------------------------------------------------------------------------
(***************************************************************************)
(* What was just built is what buildTunConfig builds.                      *)
(***************************************************************************)

AsBuilt == JustBuilt => \E ruleSet \in BOOLEAN : IsBuilt(config, ruleSet)

\* No configuration is just built.
LEMMA AsBuiltInit == ProxyInit => AsBuilt
  BY DEF ProxyInit, AsBuilt, JustBuilt, NoStart

\* Only the stage that builds writes the configuration.
LEMMA AsBuiltStep == ProxyInv /\ AsBuilt /\ [ProxyNext]_proxyVars => AsBuilt'
<1> SUFFICES ASSUME ProxyInv, AsBuilt, [ProxyNext]_proxyVars, JustBuilt'
             PROVE  \E ruleSet \in BOOLEAN : IsBuilt(config', ruleSet)
  BY DEF AsBuilt, IsBuilt
<1> USE DEF JustBuilt
<1>1. start \in [by : Calls \cup {Nobody}, stage : Stages]
  BY DEF ProxyInv, StartHasItsCalls
<1>2. CASE UNCHANGED <<start, config>>
  BY <1>2 DEF AsBuilt
<1>3. ASSUME NEW c \in Calls, NEW node, Proceed(c, node), UNCHANGED config
      PROVE  \E ruleSet \in BOOLEAN : IsBuilt(config', ruleSet)
  <2>1. UNCHANGED start
    BY <1>3 DEF Proceed, startTun
  <2> QED BY <1>2, <1>3, <2>1
<1>4. ASSUME NEW c \in Calls, StartTunInternal(c) \/ FetchedNone(c) \/ Fetched(c) \/ Probed(c)
      PROVE  \E ruleSet \in BOOLEAN : IsBuilt(config', ruleSet)
  BY <1>2, <1>3, <1>4 DEF StartTunInternal, FetchedNone, Fetched, Probed
<1>5. CASE Stopped \/ Cleaned \/ CleanupTimesOut \/ Validated
  BY <1>1, <1>5 DEF Stopped, Cleaned, CleanupTimesOut, Validated, Stage
<1>6. CASE Started \/ StartFails
  BY <1>6 DEF Started, StartFails, Settle, NoStart
<1>7. CASE Built
  <2>1. PICK u \in ProxyUrl, ruleSet \in BOOLEAN :
          config' = buildTunConfig(parseProxyUrl(u), outbound, ruleSet)
    BY <1>7 DEF Built
  <2>2. config'.proxy = parseProxyUrl(u) /\ config'.tunnel = outbound
    BY <2>1 DEF buildTunConfig
  <2> QED BY <2>1, <2>2 DEF IsBuilt
<1>8. CASE Killed \/ UNCHANGED proxyVars
  BY <1>2, <1>8 DEF Killed, proxyVars
<1> QED BY <1>4, <1>5, <1>6, <1>7, <1>8 DEF ProxyNext

(***************************************************************************)
(* The DNS rules and the route rules of buildTunConfig agree about every   *)
(* kind of traffic, and no lookup or dial of the configuration waits for   *)
(* itself, for every proxy and tunnel, with and without the rule sets.     *)
(***************************************************************************)
THEOREM WrittenNamesResolve == ProxySpec => []NamesResolve
<1>1. AsBuilt => NamesResolve
  BY BuiltAgrees, BuiltHasNoLoop DEF AsBuilt, NamesResolve, RoutesAgree, NoLoop
<1> QED BY <1>1, AlwaysProxyInv, AsBuiltInit, AsBuiltStep, PTL DEF ProxySpec

=============================================================================
