--------------------------- MODULE TerminalsProofs ---------------------------
(***************************************************************************)
(* Proofs about Terminals, for any number of PTYs and any sizes.           *)
(*                                                                         *)
(* TasksKeepAwake rests on Guarding: who is guarded streams, so that the   *)
(* listener that looks whether anyone does finds it.  RecordingIsListed    *)
(* rests on Listed: a recording that is being made is listed too, before   *)
(* its first byte.  Closing several recordings at once is a recursion over *)
(* the PTYs (Closed); ClosedIsRecursive shows that it is well defined, and *)
(* ClosedKeeps what every step of it keeps, both by the least PTY at which *)
(* they would fail.                                                        *)
(***************************************************************************)
EXTENDS Terminals, NaturalsInduction, WellFoundedInduction, TLAPS

\* Who is guarded streams, in a terminal that exists, under a held blocker
\* (or, once the window was closed, without the listener).
Guarding ==
  /\ app \in {"up", "down"}
  /\ app = "down" => sessions = {}
  /\ created \in 0..MaxPtys
  /\ sessions \subseteq 1..created
  /\ blocker \in BOOLEAN /\ enabled \in BOOLEAN /\ listening \in BOOLEAN
  /\ DOMAIN monitor = sessions
  /\ guarded \subseteq Streaming
  /\ guarded # {} => (blocker \/ ~listening) /\ enabled

\* What is being recorded, or has been, is listed on disk and in memory.
Listed ==
  /\ DOMAIN active = sessions
  /\ file \in [Pty -> Nat]
  /\ trimmed \subseteq Pty
  /\ disk \subseteq Pty
  /\ app = "up" => index = disk
  /\ \A p \in Pty : (file[p] > 0 \/ p \in DOMAIN active)
                      /\ p \notin deleted \cup trimmed => p \in disk

-----------------------------------------------------------------------------
(***************************************************************************)
(* Closing several recordings.                                             *)
(***************************************************************************)

\* A set of numbers that is not empty has a least element.
LEMMA Least ==
  ASSUME NEW T \in SUBSET Nat, T # {}
  PROVE  \E x \in T : \A y \in T : x <= y
<1> DEFINE R == {ss \in Nat \X Nat : ss[1] < ss[2]}
<1>1. IsWellFoundedOn(R, Nat)
  BY NatLessThanWellFounded DEF OpToRel
<1>2. \E x \in T : \A y \in T : ~(<<y, x>> \in R)
  <2> HIDE DEF R
  <2> QED
    BY <1>1, WFMin
<1>3. ASSUME NEW x \in T, NEW y \in T, ~(<<y, x>> \in R)
      PROVE  x <= y
  <2>1. x \in Nat /\ y \in Nat /\ ~(y < x)
    BY <1>3
  <2> QED
    BY <2>1
<1> QED
  BY <1>2, <1>3

\* The recursion of Closed, one step at a time.
LEMMA ClosedIsRecursive ==
  ASSUME NEW S
  PROVE  /\ Closed(S)[0] = Store
         /\ \A n \in 1..MaxPtys :
              Closed(S)[n] = IF n \in S \cap DOMAIN active
                             THEN closeSession(Closed(S)[n - 1], n)
                             ELSE Closed(S)[n - 1]
<1> DEFINE Next1(s, n) == IF n \in S \cap DOMAIN active
                          THEN closeSession(s, n) ELSE s
           Upto(f, m) == f = [n \in 0..m |->
                                IF n = 0 THEN Store
                                ELSE IF n \in S \cap DOMAIN active
                                THEN closeSession(f[n - 1], n)
                                ELSE f[n - 1]]
<1>1. ASSUME NEW f, NEW m \in Nat,
             f = [n \in 0..m |-> f[n]],
             f[0] = Store,
             \A n \in 1..m : f[n] = Next1(f[n - 1], n)
      PROVE  Upto(f, m)
  <2>1. \A n \in 0..m : f[n] = IF n = 0 THEN Store ELSE Next1(f[n - 1], n)
    <3> HIDE DEF Next1
    <3> SUFFICES ASSUME NEW n \in 0..m
                 PROVE  f[n] = IF n = 0 THEN Store ELSE Next1(f[n - 1], n)
      OBVIOUS
    <3>1. CASE n = 0
      BY <1>1, <3>1
    <3>2. CASE n # 0
      <4>1. n \in 1..m
        BY <3>2
      <4> QED
        BY <1>1, <3>2, <4>1
    <3> QED
      BY <3>1, <3>2
  <2> QED
    BY <1>1, <2>1
<1>2. \A m \in Nat : \E f : Upto(f, m)
  <2> DEFINE T == {m \in Nat : ~ \E f : Upto(f, m)}
  <2> SUFFICES ASSUME T # {} PROVE FALSE
    OBVIOUS
  <2>1. PICK x \in T : \A y \in T : x <= y
    <3> HIDE DEF Upto
    <3> QED
      BY Least
  <2>2. x \in Nat /\ ~ \E f : Upto(f, x)
    OBVIOUS
  <2>3. CASE x = 0
    <3> DEFINE f == [n \in 0..0 |-> Store]
    <3>1. Upto(f, 0)
      BY <1>1
    <3> QED
      BY <2>2, <2>3, <3>1
  <2>4. CASE x # 0
    <3>1. x - 1 \in Nat /\ x - 1 \notin T
      <4>1. x - 1 \in Nat /\ ~(x <= x - 1)
        BY <2>2, <2>4
      <4> HIDE DEF T
      <4> QED
        BY <2>1, <4>1
    <3>2. PICK g : Upto(g, x - 1)
      BY <3>1
    <3>3. g[0] = Store /\ \A n \in 1..(x - 1) : g[n] = Next1(g[n - 1], n)
      BY <2>2, <2>4, <3>2
    <3> DEFINE f == [n \in 0..x |-> IF n = x THEN Next1(g[x - 1], x)
                                    ELSE g[n]]
    <3>4. \A n \in 1..x : f[n] = Next1(f[n - 1], n)
      <4> HIDE DEF Next1
      <4> QED
        BY <2>2, <2>4, <3>3
    <3>5. f[0] = Store /\ f = [n \in 0..x |-> f[n]]
      BY <2>2, <2>4, <3>3
    <3>6. Upto(f, x)
      <4> HIDE DEF f, Next1, Upto
      <4> QED
        BY <1>1, <2>2, <3>4, <3>5
    <3> QED
      BY <2>2, <3>6
  <2> QED
    BY <2>3, <2>4
<1>3. Upto(Closed(S), MaxPtys)
  BY <1>2, SizesAreNat DEF Closed
<1> QED
  BY <1>3, SizesAreNat

\* The stores that closeSession works on.
Stores == [index : SUBSET Pty, file : [Pty -> Nat], trimmed : SUBSET Pty]

\* In a store, what has been recorded or is being recorded in W is listed.
Kept(s, W) ==
  \A p \in Pty : /\ s.file[p] > 0 \/ p \in W
                 /\ p \notin deleted \cup trimmed \cup s.trimmed
                 => p \in s.index

\* Removing files keeps it.
LEMMA UnlinkKeeps ==
  ASSUME NEW W, NEW s \in Stores, Kept(s, W), NEW S
  PROVE  /\ unlink(s, S) \in Stores
         /\ unlink(s, S).index = s.index
         /\ unlink(s, S).trimmed = s.trimmed
         /\ \A p \in Pty : unlink(s, S).file[p] = IF p \in S THEN 0
                                                  ELSE s.file[p]
         /\ Kept(unlink(s, S), W)
<1> DEFINE g == [p \in Pty |-> IF p \in S THEN 0 ELSE s.file[p]]
<1>1. g \in [Pty -> Nat]
  BY DEF Stores
<1>2. unlink(s, S) = [s EXCEPT !.file = g]
  BY DEF unlink
<1>3. /\ unlink(s, S) \in Stores
      /\ unlink(s, S).index = s.index
      /\ unlink(s, S).trimmed = s.trimmed
      /\ unlink(s, S).file = g
  <2> HIDE DEF g
  <2> QED
    BY <1>1, <1>2 DEF Stores
<1> QED
  BY <1>3 DEF Kept, Stores

\* The limit takes a recording off the list together with its file.
LEMMA EnforceKeeps ==
  ASSUME NEW W, NEW s \in Stores, Kept(s, W)
  PROVE  enforceStorageLimit(s) \in Stores /\ Kept(enforceStorageLimit(s), W)
<1> DEFINE swept == unlink(s, Pty \ s.index)
           gone  == Oversize(swept)
           rest  == unlink(swept, gone)
<1>1. swept \in Stores /\ Kept(swept, W)
  BY UnlinkKeeps
<1>2. gone \subseteq Pty
  <2>1. swept.index \subseteq Pty
    BY <1>1 DEF Stores
  <2> HIDE DEF swept
  <2> QED
    BY <2>1 DEF Oversize
<1>3. rest \in Stores /\ Kept(rest, W) /\ \A p \in gone : rest.file[p] = 0
  <2> HIDE DEF swept, gone
  <2> QED
    BY <1>1, <1>2, UnlinkKeeps
<1>4. enforceStorageLimit(s)
        = [rest EXCEPT !.index = @ \ gone, !.trimmed = @ \cup gone]
  BY DEF enforceStorageLimit
<1> HIDE DEF swept, gone, rest
<1> QED
  BY <1>2, <1>3, <1>4 DEF Stores, Kept

\* So does closing a recording that is not in W.
LEMMA CloseKeeps ==
  ASSUME NEW W, NEW s \in Stores, Kept(s, W), NEW p \in Pty, p \notin W
  PROVE  closeSession(s, p) \in Stores /\ Kept(closeSession(s, p), W)
<1>1. CASE s.file[p] < MIN_SESSION_SIZE
  <2> DEFINE u == unlink(s, {p})
  <2>1. u \in Stores /\ Kept(u, W) /\ u.file[p] = 0
    BY UnlinkKeeps
  <2>2. closeSession(s, p) = [u EXCEPT !.index = @ \ {p}]
    BY <1>1 DEF closeSession
  <2> HIDE DEF u
  <2> QED
    BY <2>1, <2>2 DEF Stores, Kept
<1>2. CASE ~(s.file[p] < MIN_SESSION_SIZE)
  BY <1>2, EnforceKeeps DEF closeSession
<1> QED
  BY <1>1, <1>2

\* ... and closing all of S.
LEMMA ClosedKeeps ==
  ASSUME NEW W, NEW S, S \cap W = {}, Store \in Stores, Kept(Store, W)
  PROVE  /\ Closed(S)[MaxPtys] \in Stores
         /\ Kept(Closed(S)[MaxPtys], W)
<1> DEFINE Good(n) == Closed(S)[n] \in Stores /\ Kept(Closed(S)[n], W)
           T == {n \in 0..MaxPtys : ~ Good(n)}
<1>1. Good(0)
  BY ClosedIsRecursive
<1>2. ASSUME NEW n \in 1..MaxPtys, Good(n - 1) PROVE Good(n)
  <2>1. n \in Pty
    BY DEF Pty
  <2>2. CASE n \in S \cap DOMAIN active
    <3>1. Closed(S)[n] = closeSession(Closed(S)[n - 1], n)
      BY <2>2, ClosedIsRecursive
    <3> QED
      BY <1>2, <2>1, <2>2, <3>1, CloseKeeps
  <2>3. CASE n \notin S \cap DOMAIN active
    <3>1. Closed(S)[n] = Closed(S)[n - 1]
      BY <2>3, ClosedIsRecursive
    <3> QED
      BY <1>2, <3>1
  <2> QED
    BY <2>2, <2>3
<1>3. T = {}
  <2> SUFFICES ASSUME T # {} PROVE FALSE
    OBVIOUS
  <2>1. T \subseteq 0..MaxPtys /\ \A n \in T : ~ Good(n)
    OBVIOUS
  <2>2. \A n \in 0..MaxPtys : n \notin T => Good(n)
    OBVIOUS
  <2> HIDE DEF T, Good
  <2>3. PICK x \in T : \A y \in T : x <= y
    BY <2>1, Least
  <2>4. x \in 0..MaxPtys /\ x # 0
    BY <1>1, <2>1
  <2>5. x \in 1..MaxPtys /\ x - 1 \in 0..MaxPtys /\ ~(x <= x - 1)
    BY <2>4, SizesAreNat
  <2>6. Good(x - 1)
    BY <2>2, <2>3, <2>5
  <2> QED
    BY <1>2, <2>1, <2>5, <2>6
<1> QED
  <2>1. MaxPtys \in 0..MaxPtys
    BY SizesAreNat
  <2> HIDE DEF Good
  <2>2. Good(MaxPtys)
    BY <1>3, <2>1
  <2> QED
    BY <2>2 DEF Good

-----------------------------------------------------------------------------
(***************************************************************************)
(* The blocker.                                                            *)
(***************************************************************************)

\* <<>> is the function that is defined nowhere.
LEMMA EmptyFunction == DOMAIN <<>> = {}
  OBVIOUS

\* Both invariants hold initially.
LEMMA InitHolds == Init => Guarding /\ Listed
<1> SUFFICES ASSUME Init PROVE Guarding /\ Listed
  OBVIOUS
<1>1. DOMAIN monitor = {} /\ DOMAIN active = {}
  BY EmptyFunction DEF Init
<1>2. Guarding
  <2>1. created \in 0..MaxPtys /\ sessions \subseteq 1..created
    BY SizesAreNat DEF Init
  <2>2. DOMAIN monitor = sessions /\ guarded = {}
    BY <1>1 DEF Init
  <2>4. app = "up"
    BY DEF Init
  <2>3. blocker \in BOOLEAN /\ enabled \in BOOLEAN /\ listening \in BOOLEAN
    BY DEF Init
  <2> QED
    BY <2>1, <2>2, <2>3, <2>4 DEF Guarding
<1>3. Listed
  BY <1>1 DEF Init, Listed
<1> QED
  BY <1>2, <1>3

\* Every step keeps Guarding.
LEMMA GuardingStep == Guarding /\ [Next]_vars => Guarding'
<1> SUFFICES ASSUME Guarding, [Next]_vars PROVE Guarding'
  OBVIOUS
<1> USE SizesAreNat
    DEF Guarding, Streaming, screenVars, powerVars, recorderVars
<1>1. CASE CreatePty
  <2> DEFINE q == created + 1
  <2>1. /\ created' = q /\ sessions' = sessions \cup {q} /\ q \in 0..MaxPtys
        /\ DOMAIN monitor' = DOMAIN monitor \cup {q}
        /\ \A p \in DOMAIN monitor : p # q => monitor'[p] = monitor[p]
        /\ UNCHANGED <<app, blocker, enabled, listening, guarded>>
        /\ app = "up"
    BY <1>1 DEF CreatePty, Up, create, watch, With
  <2>2. sessions' \subseteq 1..created'
    BY <2>1
  <2>3. guarded' \subseteq Streaming'
    BY <2>1
  <2> QED
    BY <2>1, <2>2, <2>3
<1>2. CASE killAll
  BY <1>2 DEF Up, killAll, OnExit, unwatch, Without
<1>3. CASE closeWindow
  BY <1>3 DEF Up, closeWindow, OnExit, unwatch, Without
<1>4. CASE activate
  BY <1>4 DEF activate, Up
<1>5. CASE clearAll
  BY <1>5 DEF clearAll, Discard
<1>6. CASE Crash
  BY <1>6, EmptyFunction DEF Crash
<1>7. CASE Restart
  BY <1>7 DEF Restart
<1>8. ASSUME NEW p \in Pty, IdleTimer(p) PROVE Guarding'
  BY <1>8 DEF IdleTimer, ReleaseBlocker, isAnyStreaming
<1>9. ASSUME NEW p \in Pty, Exit(p) PROVE Guarding'
  BY <1>9 DEF Up, Exit, OnExit, unwatch, Without
<1>10. ASSUME NEW p \in Pty, deleteSession(p) PROVE Guarding'
  BY <1>10 DEF deleteSession, Discard
<1>11. ASSUME NEW p \in Pty, NEW n \in ChunkSizes, Data(p, n) PROVE Guarding'
  <2>1. /\ p \in DOMAIN monitor
        /\ monitor' = [monitor EXCEPT ![p] = TRUE]
        /\ UNCHANGED <<app, created, sessions, enabled, listening>>
    BY <1>11 DEF Data, feed
  <2>2. Streaming \subseteq Streaming'
    BY <2>1
  <2>3. CASE monitor[p]
    <3>1. UNCHANGED <<blocker, guarded>>
      BY <1>11, <2>3 DEF Data, feed
    <3> QED
      BY <2>1, <2>2, <3>1
  <2>4. CASE ~monitor[p]
    <3>1. HoldBlocker(p)
      BY <1>11, <2>4 DEF Data, feed
    <3>2. CASE enabled
      <4>1. /\ blocker' = (blocker \/ listening)
            /\ guarded' = guarded \cup {p}
        BY <3>1, <3>2 DEF HoldBlocker
      <4>2. p \in Streaming'
        BY <2>1
      <4>3. guarded' \subseteq Streaming'
        BY <2>2, <4>1, <4>2
      <4>4. DOMAIN monitor' = sessions'
        BY <2>1
      <4>5. /\ (blocker' \/ ~listening') /\ enabled'
            /\ enabled' \in BOOLEAN /\ listening' \in BOOLEAN
            /\ blocker' \in BOOLEAN
        BY <2>1, <3>2, <4>1
      <4>6. created' \in 0..MaxPtys /\ sessions' \subseteq 1..created'
        BY <2>1
      <4> QED
        BY <2>1, <4>1, <4>3, <4>4, <4>5, <4>6
    <3>3. CASE ~enabled
      <4>1. blocker' = blocker /\ guarded' = guarded
        BY <3>1, <3>3 DEF HoldBlocker
      <4> QED
        BY <2>1, <2>2, <4>1
    <3> QED
      BY <3>2, <3>3
  <2> QED
    BY <2>3, <2>4
<1>12. ASSUME NEW on \in BOOLEAN, setSleepInhibitorEnabled(on) PROVE Guarding'
  BY <1>12 DEF setSleepInhibitorEnabled
<1>13. CASE UNCHANGED vars
  BY <1>13 DEF vars
<1> QED
  BY <1>1, <1>2, <1>3, <1>4, <1>5, <1>6, <1>7, <1>8, <1>9, <1>10, <1>11,
     <1>12, <1>13 DEF Next

\* For any number of terminals, the sleep blocker is held while one streams
\* that began under an enabled inhibitor, whatever the others do, and only a
\* closed window, which takes the listener with it, can change that.
THEOREM TasksAreGuarded == Spec => []TasksKeepAwake
<1>1. Init => Guarding
  BY InitHolds
<1>2. Guarding => TasksKeepAwake
  BY DEF Guarding, TasksKeepAwake
<1> QED
  BY <1>1, <1>2, GuardingStep, PTL DEF Spec

-----------------------------------------------------------------------------
(***************************************************************************)
(* The history.                                                            *)
(***************************************************************************)

\* The callbacks of an exit keep Listed, but for the terminals that exist.
LEMMA OnExitKeeps ==
  ASSUME Listed, app = "up", app' = "up", NEW S, OnExit(S),
         DOMAIN active \ S = sessions'
  PROVE  Listed'
<1> DEFINE W == DOMAIN active \ S
           s == Closed(S)[MaxPtys]
<1>1. Store \in Stores /\ Kept(Store, W)
  BY DEF Listed, Store, Stores, Kept
<1>2. s \in Stores /\ Kept(s, W)
  BY <1>1, ClosedKeeps
<1>3. /\ DOMAIN active' = W
      /\ index' = s.index /\ disk' = s.index /\ file' = s.file
      /\ trimmed' = trimmed \cup s.trimmed
      /\ deleted' = deleted
  BY DEF OnExit, Saved, Without
<1> HIDE DEF s, W
<1> QED
  <2>1. DOMAIN active' = sessions'
    BY <1>3 DEF W
  <2> QED
    BY <1>2, <1>3, <2>1 DEF Listed, Stores, Kept

\* Deleting recordings keeps Listed.
LEMMA DiscardKeeps ==
  ASSUME Listed, NEW S \in SUBSET Pty, Discard(S)
  PROVE  Listed'
<1> DEFINE u == unlink(Store, S)
           s == [u EXCEPT !.index = @ \ S]
<1>1. Store \in Stores /\ Kept(Store, DOMAIN active)
  BY DEF Listed, Store, Stores, Kept, Discard, Up
<1>2. /\ u \in Stores /\ u.index = index /\ u.trimmed = {}
      /\ \A p \in Pty : u.file[p] = IF p \in S THEN 0 ELSE file[p]
  <2>1. /\ Store.index = index /\ Store.trimmed = {} /\ Store.file = file
    BY DEF Store
  <2> QED
    BY <1>1, <2>1, UnlinkKeeps
<1>3. /\ s.index = index \ S /\ s.trimmed = {} /\ s.file = u.file
  <2> HIDE DEF u
  <2> QED
    BY <1>2 DEF Stores
<1>4. /\ index' = index \ S /\ disk' = index \ S /\ file' = u.file
      /\ trimmed' = trimmed
      /\ deleted' = deleted \cup S
      /\ active' = active
      /\ UNCHANGED <<app, sessions>> /\ app = "up"
  <2>1. Saved(s)
    BY DEF Discard
  <2> HIDE DEF s
  <2> QED
    BY <1>3, <2>1 DEF Discard, Saved, Up, screenVars
<1> HIDE DEF u, s
<1> QED
  BY <1>2, <1>4 DEF Listed, Stores

\* Every step keeps Listed, if no write of the index is torn.
LEMMA ListedStep ==
  ASSUME TornWrites = FALSE
  PROVE  Guarding /\ Listed /\ [Next]_vars => Listed'
<1> SUFFICES ASSUME Guarding, Listed, [Next]_vars PROVE Listed'
  OBVIOUS
<1> USE DEF screenVars, powerVars, recorderVars
<1>1. CASE CreatePty
  <2>1. created + 1 \in Pty
    BY <1>1, SizesAreNat DEF CreatePty, Guarding, Pty
  <2> QED
    BY <1>1, <2>1 DEF CreatePty, Listed, Up, create, startSession, With
<1>2. CASE killAll
  BY <1>2, OnExitKeeps DEF killAll, Up, Listed
<1>3. CASE closeWindow
  <2>1. CASE sessions = {}
    BY <1>3, <2>1 DEF closeWindow, Listed
  <2>2. CASE sessions # {}
    BY <1>3, <2>2, OnExitKeeps DEF closeWindow, Up, Listed
  <2> QED
    BY <2>1, <2>2
<1>4. CASE activate
  BY <1>4 DEF activate, Listed
<1>5. CASE clearAll
  BY <1>5, DiscardKeeps DEF clearAll, Discard, Listed, Up
<1>6. CASE Crash
  BY <1>6, EmptyFunction DEF Crash, Listed
<1>7. CASE Restart
  BY <1>7, DamagedIsNoIndex DEF Restart, loadIndex, Listed
<1>8. ASSUME NEW p \in Pty, IdleTimer(p) PROVE Listed'
  BY <1>8 DEF IdleTimer, Listed
<1>9. ASSUME NEW p \in Pty, Exit(p) PROVE Listed'
  BY <1>9, OnExitKeeps DEF Exit, Up, Listed
<1>10. ASSUME NEW p \in Pty, deleteSession(p) PROVE Listed'
  BY <1>10, DiscardKeeps DEF deleteSession
<1>11. ASSUME NEW p \in Pty, NEW n \in ChunkSizes, Data(p, n) PROVE Listed'
  <2>1. /\ p \in DOMAIN active /\ n \in Nat
        /\ UNCHANGED <<app, sessions, index, disk, deleted, trimmed>>
    BY <1>11, SizesAreNat DEF Data, Listed
  <2>2. CASE active[p] < MAX_SESSION_SIZE
    <3>1. /\ active' = [active EXCEPT ![p] = @ + n]
          /\ file' = [file EXCEPT ![p] = @ + n]
      BY <1>11, <2>2 DEF Data, recordData
    <3> QED
      BY <2>1, <3>1 DEF Listed
  <2>3. CASE ~(active[p] < MAX_SESSION_SIZE)
    BY <1>11, <2>1, <2>3 DEF Data, recordData, Listed
  <2> QED
    BY <2>2, <2>3
<1>12. ASSUME NEW on \in BOOLEAN, setSleepInhibitorEnabled(on) PROVE Listed'
  BY <1>12 DEF setSleepInhibitorEnabled, Listed
<1>13. CASE UNCHANGED vars
  BY <1>13 DEF vars, Listed
<1> QED
  BY <1>1, <1>2, <1>3, <1>4, <1>5, <1>6, <1>7, <1>8, <1>9, <1>10, <1>11,
     <1>12, <1>13 DEF Next

\* A recording stays in the history over crashes and restarts until it is
\* deleted or trimmed, for any number of terminals and any sizes.  A torn write
\* of index.json loses it: hence the assumption.
THEOREM RecordingsAreListed ==
  ASSUME TornWrites = FALSE
  PROVE  Spec => []RecordingIsListed
<1>1. Init => Guarding /\ Listed
  BY InitHolds
<1>2. Guarding /\ Listed /\ [Next]_vars => Guarding' /\ Listed'
  BY GuardingStep, ListedStep
<1>3. Listed => RecordingIsListed
  BY DamagedIsNoIndex DEF Listed, RecordingIsListed
<1> QED
  BY <1>1, <1>2, <1>3, PTL DEF Spec
=============================================================================
