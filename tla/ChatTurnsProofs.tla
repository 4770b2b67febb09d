-------------------------- MODULE ChatTurnsProofs --------------------------
(***************************************************************************)
(* Proofs about ChatTurns, for every set of chats, number of turns and     *)
(* concurrency limit: its invariants, and the two action properties.       *)
(*                                                                         *)
(* The end of a turn writes what its send has read.  That this is not      *)
(* stale rests on a chat having one turn at a time, TurnBookkeeping.       *)
(***************************************************************************)
EXTENDS ChatTurns, FiniteSetTheorems, TLAPS

IInv ==
  /\ TypeOK
  /\ TurnBookkeeping
  /\ MessageCountIsExact
  /\ RetryResumes

\* The turns that a chat's message count stands for.
Counted(c) ==
  {t \in DOMAIN turn :
     turn[t].chat = c /\ turn[t].ended = "ok" /\ turn[t].saved}

-----------------------------------------------------------------------------
(***************************************************************************)
(* Helpers.                                                                *)
(***************************************************************************)

\* The turns are numbered without gaps, and the next number is new.
LEMMA NextTurn ==
  ASSUME TypeOK
  PROVE  \E n \in 0 .. MaxTurns :
           /\ DOMAIN turn = 1 .. n
           /\ Cardinality(DOMAIN turn) = n
           /\ IsFiniteSet(DOMAIN turn)
<1>1. PICK n \in 0 .. MaxTurns : DOMAIN turn = 1 .. n
  BY DEF TypeOK
<1>2. n \in Nat /\ IsFiniteSet(1 .. n) /\ Cardinality(1 .. n) = n
  BY FS_Interval, BoundsAreNat
<1> QED
  BY <1>1, <1>2

\* No more turns count than there are, and one fewer while one is not over.
LEMMA CountedIsBounded ==
  ASSUME TypeOK, NEW c
  PROVE  /\ IsFiniteSet(Counted(c))
         /\ Cardinality(Counted(c)) \in 0 .. MaxTurns
         /\ \A t \in DOMAIN turn \ Counted(c) :
              Cardinality(Counted(c)) < MaxTurns
<1>1. PICK n \in 0 .. MaxTurns :
        /\ DOMAIN turn = 1 .. n
        /\ Cardinality(DOMAIN turn) = n
        /\ IsFiniteSet(DOMAIN turn)
  BY NextTurn
<1>2. Counted(c) \in SUBSET DOMAIN turn
  BY DEF Counted
<1>3. IsFiniteSet(Counted(c)) /\ Cardinality(Counted(c)) <= n
  BY <1>1, <1>2, FS_Subset
<1>4. Cardinality(Counted(c)) \in Nat
  BY <1>3, FS_CardinalityType
<1>5. ASSUME NEW t \in DOMAIN turn \ Counted(c)
      PROVE  Cardinality(Counted(c)) # n
  BY <1>1, <1>2, <1>5, FS_Subset
<1> QED
  BY <1>1, <1>3, <1>4, <1>5, BoundsAreNat

-----------------------------------------------------------------------------
(***************************************************************************)
(* Steps that begin no turn and end none.                                  *)
(***************************************************************************)

\* What a quiet step leaves alone in a turn.
SameEnd(r, q) ==
  /\ r.proc = "gone" <=> q.proc = "gone"
  /\ r.chat = q.chat
  /\ r.meta = q.meta
  /\ r.ended = q.ended
  /\ r.session = q.session
  /\ r.saved = q.saved

\* Such a step may take chats out of the index.
Quiet ==
  /\ DOMAIN chats' \subseteq DOMAIN chats
  /\ \A c \in DOMAIN chats' : chats'[c] = chats[c]
  /\ UNCHANGED <<created, inflight>>
  /\ DOMAIN turn' = DOMAIN turn
  /\ \A t \in DOMAIN turn : SameEnd(turn'[t], turn[t])
  /\ \A c \in Chat : \/ waitsFor'[c] \in {waitsFor[c], None}
                     \/ Busy(c) /\ waitsFor'[c] = inflight[c]

LEMMA QuietKeeps ==
  ASSUME IInv, TypeOK', Quiet
  PROVE  IInv'
<1>1. TurnBookkeeping'
  BY DEF IInv, TypeOK, Quiet, TurnBookkeeping, Busy, SameEnd
<1>2. MessageCountIsExact'
  <2> SUFFICES ASSUME NEW c \in DOMAIN chats'
               PROVE  chats'[c].messageCount = Cardinality(Counted(c)')
    BY DEF MessageCountIsExact, Counted
  <2>1. chats[c].messageCount = Cardinality(Counted(c))
    BY DEF IInv, MessageCountIsExact, Counted, Quiet
  <2>2. Counted(c)' = Counted(c)
    BY DEF Counted, Quiet, SameEnd
  <2> QED
    BY <2>1, <2>2 DEF Quiet
<1>3. RetryResumes'
  BY DEF IInv, Quiet, SameEnd, RetryResumes
<1> QED
  BY <1>1, <1>2, <1>3 DEF IInv

LEMMA KillIsQuiet ==
  ASSUME NEW q \in Turn
  PROVE  /\ killChild([q EXCEPT !.timedOut = TRUE]) \in Turn
         /\ SameEnd(killChild([q EXCEPT !.timedOut = TRUE]), q)
         /\ killChild([q EXCEPT !.cancelled = TRUE]) \in Turn
         /\ SameEnd(killChild([q EXCEPT !.cancelled = TRUE]), q)
<1>1. ASSUME NEW p \in Turn
      PROVE  killChild(p) \in Turn /\ SameEnd(killChild(p), p)
  BY DEF Turn, killChild, SameEnd
<1>2. /\ [q EXCEPT !.timedOut = TRUE] \in Turn
      /\ SameEnd([q EXCEPT !.timedOut = TRUE], q)
  BY DEF Turn, SameEnd
<1>3. /\ [q EXCEPT !.cancelled = TRUE] \in Turn
      /\ SameEnd([q EXCEPT !.cancelled = TRUE], q)
  BY DEF Turn, SameEnd
<1> QED
  BY <1>1, <1>2, <1>3 DEF SameEnd

LEMMA OneTurnChanges ==
  ASSUME IInv, NEW t \in DOMAIN turn, NEW r \in Turn, SameEnd(r, turn[t]),
         turn' = [turn EXCEPT ![t] = r]
  PROVE  /\ DOMAIN turn' = DOMAIN turn
         /\ \A u \in DOMAIN turn' : turn'[u] \in Turn
         /\ \A u \in DOMAIN turn : SameEnd(turn'[u], turn[u])
<1>1. \A u \in DOMAIN turn : turn[u] \in Turn
  BY DEF IInv, TypeOK
<1> QED
  BY <1>1 DEF SameEnd

LEMMA CancelIsQuiet ==
  ASSUME IInv, NEW t \in DOMAIN turn, CancelTurn(t)
  PROVE  /\ DOMAIN turn' = DOMAIN turn
         /\ \A u \in DOMAIN turn' : turn'[u] \in Turn
         /\ \A u \in DOMAIN turn : SameEnd(turn'[u], turn[u])
<1>1. turn[t] \in Turn
  BY DEF IInv, TypeOK
<1> QED
  BY <1>1, KillIsQuiet, OneTurnChanges DEF CancelTurn

\* The timers of a turn, and what its child does.
LEMMA ChildStepKeeps ==
  ASSUME IInv, NEW t \in DOMAIN turn,
         ChildStep(t) \/ Watchdog(t) \/ KillTimer(t)
  PROVE  IInv'
<1>1. turn[t] \in Turn
  BY DEF IInv, TypeOK
<1>2. PICK r \in Turn :
        SameEnd(r, turn[t]) /\ turn' = [turn EXCEPT ![t] = r]
  <2>1. CASE Watchdog(t)
    BY <1>1, <2>1, KillIsQuiet DEF Watchdog
  <2>2. CASE KillTimer(t)
    <3> DEFINE r == [turn[t] EXCEPT !.killTimer = FALSE,
                       !.proc = IF Live(t) THEN "dead" ELSE @,
                       !.code = IF Live(t) THEN 1 ELSE @]
    <3>1. r \in Turn /\ SameEnd(r, turn[t])
      BY <1>1 DEF Turn, SameEnd, Live
    <3>2. turn' = [turn EXCEPT ![t] = r]
      BY <2>2 DEF KillTimer
    <3> QED
      BY <3>1, <3>2
  <2>3. CASE ChildWrites(t)
    BY <1>1, <2>3 DEF ChildWrites, Turn, SameEnd
  <2>4. CASE ChildExits(t)
    <3>1. PICK code \in {0, 1} :
            turn' = [turn EXCEPT
                       ![t] = [@ EXCEPT !.proc = "dead", !.code = code]]
      BY <2>4 DEF ChildExits
    <3>2. [turn[t] EXCEPT !.proc = "dead", !.code = code] \in Turn
      BY <1>1 DEF Turn
    <3>3. SameEnd([turn[t] EXCEPT !.proc = "dead", !.code = code], turn[t])
      BY <1>1, <2>4 DEF Turn, SameEnd, ChildExits, Live
    <3> QED
      BY <3>1, <3>2, <3>3
  <2>5. CASE StdoutData(t)
    BY <1>1, <2>5 DEF StdoutData, Turn, SameEnd
  <2> QED
    BY <2>1, <2>2, <2>3, <2>4, <2>5 DEF ChildStep
<1>3. UNCHANGED <<chats, created, files, inflight, waitsFor>>
  BY DEF ChildStep, ChildWrites, ChildExits, StdoutData, Watchdog, KillTimer
<1>4. TypeOK'
  BY <1>2, <1>3, OneTurnChanges DEF IInv, TypeOK
<1>5. Quiet
  BY <1>2, <1>3, OneTurnChanges DEF Quiet
<1> QED
  BY <1>4, <1>5, QuietKeeps

LEMMA CancelKeeps ==
  ASSUME IInv, NEW c \in Chat, cancel(c) \/ deleteAndWait(c)
  PROVE  IInv'
<1>1. c \in DOMAIN inflight /\ CancelTurn(inflight[c])
  BY DEF cancel, deleteAndWait, Busy
<1>2. inflight[c] \in DOMAIN turn /\ inflight[c] \in TurnId
  BY <1>1, NextTurn, BoundsAreNat DEF IInv, TypeOK, TurnId
<1>3. TypeOK'
  BY <1>1, <1>2, CancelIsQuiet DEF IInv, TypeOK, cancel, deleteAndWait
<1>4. Quiet
  BY <1>1, <1>2, CancelIsQuiet DEF Quiet, cancel, deleteAndWait, Busy,
     IInv, TypeOK
<1> QED
  BY <1>3, <1>4, QuietKeeps

LEMMA DeleteKeeps ==
  ASSUME IInv, NEW c \in Chat, deleteAtOnce(c) \/ deleteGoesOn(c)
  PROVE  IInv'
<1>1. CASE UNCHANGED turn
  <2>1. TypeOK'
    BY <1>1 DEF deleteAtOnce, deleteGoesOn, StoreDelete, Without, IInv, TypeOK
  <2>2. Quiet
    BY <1>1 DEF deleteAtOnce, deleteGoesOn, StoreDelete, Without, IInv, TypeOK,
       Quiet, SameEnd
  <2> QED
    BY <2>1, <2>2, QuietKeeps
<1>2. CASE Busy(c) /\ CancelTurn(inflight[c]) /\ deleteAtOnce(c)
           /\ StoreDelete(c, FALSE)
  <2>1. inflight[c] \in DOMAIN turn
    BY <1>2 DEF Busy, IInv, TypeOK
  <2>2. TypeOK'
    BY <1>2, <2>1, CancelIsQuiet DEF deleteAtOnce, StoreDelete, Without, IInv,
       TypeOK
  <2>3. Quiet
    BY <1>2, <2>1, CancelIsQuiet DEF deleteAtOnce, StoreDelete, Without, IInv,
       TypeOK, Quiet
  <2> QED
    BY <2>2, <2>3, QuietKeeps
<1> QED
  BY <1>1, <1>2 DEF deleteAtOnce, deleteGoesOn

-----------------------------------------------------------------------------
(***************************************************************************)
(* A chat begins.                                                          *)
(***************************************************************************)

LEMMA CreateKeeps ==
  ASSUME IInv, NEW c \in Chat, create(c)
  PROVE  IInv'
<1>1. /\ c \notin created
      /\ created' = created \cup {c}
      /\ DOMAIN chats' = DOMAIN chats \cup {c}
      /\ chats'[c] = [messageCount |-> 0, claudeSessionId |-> None]
      /\ \A d \in DOMAIN chats : chats'[d] = chats[d]
      /\ files' = files \cup {c}
      /\ UNCHANGED <<inflight, turn, waitsFor>>
  BY DEF create, Extend, IInv, TypeOK
<1>2. [messageCount |-> 0, claudeSessionId |-> None] \in Meta
  BY BoundsAreNat DEF Meta
<1>3. TypeOK'
  BY <1>1, <1>2 DEF IInv, TypeOK
<1>4. TurnBookkeeping'
  BY <1>1 DEF IInv, TurnBookkeeping, Busy
<1>5. MessageCountIsExact'
  <2> SUFFICES ASSUME NEW d \in DOMAIN chats'
               PROVE  chats'[d].messageCount = Cardinality(Counted(d)')
    BY DEF MessageCountIsExact, Counted
  <2>1. Counted(d)' = Counted(d)
    BY <1>1 DEF Counted
  <2>2. CASE d = c
    <3>1. Counted(c) = {}
      BY <1>1 DEF Counted, IInv, TurnBookkeeping
    <3> QED
      BY <1>1, <2>1, <2>2, <3>1, FS_EmptySet
  <2>3. CASE d # c
    <3>1. chats[d].messageCount = Cardinality(Counted(d))
      BY <1>1, <2>3 DEF IInv, MessageCountIsExact, Counted
    <3> QED
      BY <1>1, <2>1, <2>3, <3>1
  <2> QED
    BY <2>2, <2>3
<1>6. RetryResumes'
  BY <1>1 DEF IInv, RetryResumes
<1> QED
  BY <1>3, <1>4, <1>5, <1>6 DEF IInv

-----------------------------------------------------------------------------
(***************************************************************************)
(* A turn begins.                                                          *)
(***************************************************************************)

LEMMA SendKeeps ==
  ASSUME IInv, NEW c \in Chat, send(c)
  PROVE  IInv'
<1> DEFINE t == Cardinality(DOMAIN turn) + 1
<1>1. PICK n \in 0 .. MaxTurns :
        /\ DOMAIN turn = 1 .. n
        /\ Cardinality(DOMAIN turn) = n
        /\ IsFiniteSet(DOMAIN turn)
  BY NextTurn DEF IInv
<1>2. PICK proc \in {"run", "failed"} :
        turn' = Extend(turn, t,
          [ chat      |-> c,
            proc      |-> proc,
            code      |-> 0,
            output    |-> "none",
            meta      |-> chats[c],
            cancelled |-> FALSE,
            timedOut  |-> FALSE,
            killTimer |-> FALSE,
            ended     |-> None,
            session   |-> None,
            saved     |-> FALSE ])
  BY DEF send
<1>3. /\ t = n + 1
      /\ n + 1 \in 0 .. MaxTurns
      /\ n \in Nat
      /\ c \in DOMAIN chats
      /\ chats[c] \in Meta
      /\ ~Busy(c)
  BY <1>1, BoundsAreNat DEF send, MaySend, TurnId, IInv, TypeOK
<1>4. /\ DOMAIN turn' = 1 .. n + 1
      /\ \A u \in 1 .. n : turn'[u] = turn[u]
      /\ turn'[n + 1] \in Turn
      /\ turn'[n + 1].chat = c
      /\ turn'[n + 1].proc = proc
      /\ turn'[n + 1].meta = chats[c]
      /\ turn'[n + 1].ended = None
      /\ turn'[n + 1].session = None
  <2>1. DOMAIN turn' = DOMAIN turn \cup {n + 1}
    BY <1>2, <1>3 DEF Extend
  <2>2. (1 .. n) \cup {n + 1} = 1 .. n + 1
    BY <1>3
  <2>3. DOMAIN turn' = 1 .. n + 1
    BY <1>1, <2>1, <2>2
  <2>4. \A u \in 1 .. n : turn'[u] = turn[u]
    BY <1>1, <1>2, <1>3 DEF Extend
  <2>5. turn'[n + 1] =
          [ chat      |-> c,
            proc      |-> proc,
            code      |-> 0,
            output    |-> "none",
            meta      |-> chats[c],
            cancelled |-> FALSE,
            timedOut  |-> FALSE,
            killTimer |-> FALSE,
            ended     |-> None,
            session   |-> None,
            saved     |-> FALSE ]
    BY <1>2, <1>3 DEF Extend
  <2>6. turn'[n + 1] \in Turn
    BY <2>5, <1>2, <1>3 DEF Turn
  <2> QED
    BY <2>3, <2>4, <2>5, <2>6
<1>5. /\ DOMAIN inflight' = DOMAIN inflight \cup {c}
      /\ inflight'[c] = n + 1
      /\ \A d \in DOMAIN inflight : d # c /\ inflight'[d] = inflight[d]
      /\ UNCHANGED <<chats, created, files, waitsFor>>
  BY <1>3 DEF send, Extend, Busy
<1>6. TypeOK'
  <2>1. DOMAIN turn' \in {1 .. m : m \in 0 .. MaxTurns}
    BY <1>3, <1>4
  <2>2. \A u \in DOMAIN turn' : turn'[u] \in Turn
    BY <1>1, <1>3, <1>4 DEF IInv, TypeOK
  <2>3. \A d \in DOMAIN inflight' : inflight'[d] \in DOMAIN turn'
    BY <1>1, <1>3, <1>4, <1>5 DEF IInv, TypeOK
  <2> QED
    BY <1>3, <1>5, <2>1, <2>2, <2>3 DEF IInv, TypeOK
<1>7. TurnBookkeeping'
  <2>1. /\ IsFiniteSet(DOMAIN inflight')
        /\ Cardinality(DOMAIN inflight') <= MAX_CONCURRENT
    <3>1. IsFiniteSet(DOMAIN inflight) /\ Cardinality(DOMAIN inflight) \in Nat
      BY FS_CardinalityType DEF IInv, TurnBookkeeping
    <3>2. Cardinality(DOMAIN inflight) < MAX_CONCURRENT
      BY DEF send, MaySend
    <3>3. /\ IsFiniteSet(DOMAIN inflight \cup {c})
          /\ Cardinality(DOMAIN inflight \cup {c}) =
               Cardinality(DOMAIN inflight) + 1
      BY <1>3, <3>1, FS_AddElement DEF Busy
    <3> QED
      BY <1>5, <3>1, <3>2, <3>3, BoundsAreNat
  <2>2. \A d \in DOMAIN inflight' :
          turn'[inflight'[d]].chat = d /\ turn'[inflight'[d]].proc # "gone"
    <3>1. turn'[inflight'[c]].chat = c /\ turn'[inflight'[c]].proc # "gone"
      BY <1>2, <1>4, <1>5
    <3>2. ASSUME NEW d \in DOMAIN inflight
          PROVE  /\ turn'[inflight[d]].chat = d
                 /\ turn'[inflight[d]].proc # "gone"
      <4>1. inflight[d] \in 1 .. n
        BY <1>1 DEF IInv, TypeOK
      <4> QED
        BY <1>4, <4>1 DEF IInv, TurnBookkeeping
    <3> QED
      BY <1>5, <3>1, <3>2
  <2>3. ASSUME NEW u \in 1 .. n
        PROVE  /\ turn[u].proc # "gone" => turn[u].chat # c
               /\ turn'[u] = turn[u]
    BY <1>1, <1>3, <1>4 DEF IInv, TurnBookkeeping
  <2>4. ASSUME NEW u \in DOMAIN turn'
        PROVE  LET d == turn'[u].chat IN
          /\ d \in created'
          /\ turn'[u].ended # None <=> turn'[u].proc = "gone"
          /\ turn'[u].proc # "gone" =>
               d \in DOMAIN inflight' /\ inflight'[d] = u
          /\ \A v \in DOMAIN turn' :
               v < u /\ turn'[v].chat = d => turn'[v].proc = "gone"
          /\ d \in DOMAIN chats' =>
               /\ turn'[u].proc # "gone" => turn'[u].meta = chats'[d]
               /\ turn'[u].session # None /\ turn'[u].saved =>
                    chats'[d].claudeSessionId # None
    <3>1. CASE u = n + 1
      <4>1. \A v \in DOMAIN turn' : v < u => v \in 1 .. n
        BY <1>3, <1>4, <3>1
      <4> QED
        BY <1>2, <1>3, <1>4, <1>5, <2>3, <3>1, <4>1, ZenonT(60) DEF IInv, TypeOK
    <3>2. CASE u \in 1 .. n
      <4>1. \A v \in DOMAIN turn' : v < u => v \in 1 .. n
        BY <1>3, <1>4, <3>2
      <4> QED
        BY <1>1, <1>5, <2>3, <3>2, <4>1 DEF IInv, TurnBookkeeping, Busy
    <3> QED
      BY <1>3, <1>4, <3>1, <3>2
  <2>5. \A d \in Chat : waitsFor'[d] # None =>
          waitsFor'[d] \in DOMAIN turn' /\ turn'[waitsFor'[d]].chat = d
    BY <1>1, <1>3, <1>4, <1>5 DEF IInv, TurnBookkeeping
  <2> QED
    BY <2>1, <2>2, <2>4, <2>5 DEF TurnBookkeeping, Busy
<1>8. MessageCountIsExact'
  <2> SUFFICES ASSUME NEW d \in DOMAIN chats'
               PROVE  chats'[d].messageCount = Cardinality(Counted(d)')
    BY DEF MessageCountIsExact, Counted
  <2>1. Counted(d)' = Counted(d)
    BY <1>1, <1>3, <1>4, NoneIsNoEnd DEF Counted
  <2>2. chats[d].messageCount = Cardinality(Counted(d))
    BY <1>5 DEF IInv, MessageCountIsExact, Counted
  <2> QED
    BY <1>5, <2>1, <2>2
<1>9. RetryResumes'
  <2> SUFFICES ASSUME NEW u \in DOMAIN turn', NEW v \in DOMAIN turn',
                      turn'[u].chat = turn'[v].chat, u < v,
                      turn'[u].session # None, turn'[u].saved
               PROVE  turn'[v].meta.claudeSessionId # None
    BY DEF RetryResumes
  <2>1. u \in 1 .. n /\ turn'[u] = turn[u]
    BY <1>3, <1>4
  <2>2. CASE v = n + 1
    BY <1>1, <1>3, <1>4, <2>1, <2>2 DEF IInv, TurnBookkeeping
  <2>3. CASE v \in 1 .. n
    BY <1>1, <1>4, <2>1, <2>3 DEF IInv, RetryResumes
  <2> QED
    BY <1>3, <1>4, <2>2, <2>3
<1> QED
  BY <1>6, <1>7, <1>8, <1>9 DEF IInv

-----------------------------------------------------------------------------
(***************************************************************************)
(* A turn ends.                                                            *)
(***************************************************************************)

LEMMA ExitKeeps ==
  ASSUME IInv, NEW t \in DOMAIN turn, Exit(t)
  PROVE  IInv'
<1> DEFINE c == turn[t].chat
<1>1. PICK saved \in BOOLEAN :
        /\ update(t, saved)
        /\ turn' = [turn EXCEPT ![t].proc = "gone",
                                ![t].killTimer = FALSE,
                                ![t].cancelled = FALSE,
                                ![t].timedOut = FALSE,
                                ![t].code = 0,
                                ![t].ended = IF TurnOk(t) THEN "ok"
                                             ELSE "error",
                                ![t].session = finalSession(t),
                                ![t].saved = saved]
  BY DEF Exit
<1>2. /\ turn[t] \in Turn
      /\ turn[t].meta \in Meta
      /\ t \in TurnId
      /\ turn[t].proc = "dead"
      /\ turn[t].ended = None
  <2>1. turn[t] \in Turn /\ turn[t].proc = "dead"
    BY DEF Exit, IInv, TypeOK
  <2>2. turn[t].meta \in Meta /\ turn[t].ended = None
    BY <2>1 DEF Turn, IInv, TurnBookkeeping
  <2> QED
    BY <2>1, <2>2, NextTurn, BoundsAreNat DEF TurnId, IInv
<1>3. finalSession(t) \in TurnId \cup {None}
  BY <1>2 DEF finalSession, sessionFromInit, Meta
<1>4. /\ DOMAIN turn' = DOMAIN turn
      /\ \A u \in DOMAIN turn : u # t => turn'[u] = turn[u]
      /\ turn'[t] \in Turn
      /\ turn'[t].chat = c
      /\ turn'[t].proc = "gone"
      /\ turn'[t].meta = turn[t].meta
      /\ turn'[t].ended = IF TurnOk(t) THEN "ok" ELSE "error"
      /\ turn'[t].session = finalSession(t)
      /\ turn'[t].saved = saved
  <2> DEFINE end == IF TurnOk(t) THEN "ok" ELSE "error"
  <2>1. end \in {None, "ok", "error"}
    OBVIOUS
  \* The record of a turn that is over, made in four stages.
  <2> DEFINE r1 == [turn[t] EXCEPT !.proc = "gone", !.killTimer = FALSE,
                                   !.cancelled = FALSE]
             r2 == [r1 EXCEPT !.timedOut = FALSE, !.code = 0]
             r3 == [r2 EXCEPT !.ended = end]
             r4 == [r3 EXCEPT !.session = finalSession(t)]
             r5 == [r4 EXCEPT !.saved = saved]
  <2>2. turn' = [turn EXCEPT ![t] = r5]
    BY <1>1
  <2> HIDE DEF end
  <2>3. r1 \in Turn /\ r1.chat = c /\ r1.proc = "gone" /\ r1.meta = turn[t].meta
    BY <1>2 DEF Turn
  <2> HIDE DEF r1
  <2>4. r2 \in Turn /\ r2.chat = c /\ r2.proc = "gone" /\ r2.meta = turn[t].meta
    BY <2>3 DEF Turn
  <2> HIDE DEF r2
  <2>5. /\ r3 \in Turn
        /\ r3.chat = c
        /\ r3.proc = "gone"
        /\ r3.meta = turn[t].meta
        /\ r3.ended = end
    BY <2>1, <2>4 DEF Turn
  <2> HIDE DEF r3
  <2>6. /\ r4 \in Turn
        /\ r4.chat = c
        /\ r4.proc = "gone"
        /\ r4.meta = turn[t].meta
        /\ r4.ended = end
        /\ r4.session = finalSession(t)
    BY <1>3, <2>5 DEF Turn
  <2> HIDE DEF r4
  <2>7. /\ r5 \in Turn
        /\ r5.chat = c
        /\ r5.proc = "gone"
        /\ r5.meta = turn[t].meta
        /\ r5.ended = end
        /\ r5.session = finalSession(t)
    BY <2>6 DEF Turn
  <2>8. r5.saved = saved
    BY <2>6 DEF Turn
  <2> HIDE DEF r5
  <2> QED
    BY <2>2, <2>7, <2>8 DEF end
<1>5. /\ DOMAIN inflight' = DOMAIN inflight \ {c}
      /\ \A d \in DOMAIN inflight' : inflight'[d] = inflight[d]
      /\ UNCHANGED <<created, files, waitsFor>>
  BY DEF Exit, Without
\* The turn has the slot, so no other turn of its chat is under way, and the
\* index is as it saw it.
<1>6. /\ c \in DOMAIN inflight /\ inflight[c] = t
      /\ c \in DOMAIN chats => turn[t].meta = chats[c]
      /\ \A u \in DOMAIN turn :
           u # t /\ turn[u].chat = c => turn[u].proc = "gone"
  BY <1>2 DEF IInv, TurnBookkeeping, Busy
<1>7. /\ DOMAIN chats' = DOMAIN chats
      /\ \A d \in DOMAIN chats : d # c => chats'[d] = chats[d]
      /\ c \in DOMAIN chats =>
           chats'[c] = IF saved THEN Patched(t, chats[c]) ELSE chats[c]
  BY <1>1 DEF update, Updatable, Extend
\* It was not counted, and is counted if it ended well and was saved.
<1>8. /\ t \notin Counted(c)
      /\ \A d : Counted(d)' = IF d = c /\ TurnOk(t) /\ saved
                              THEN Counted(d) \cup {t} ELSE Counted(d)
  BY <1>2, <1>4, NoneIsNoEnd DEF Counted
<1>9. c \in DOMAIN chats =>
        /\ chats'[c] \in Meta
        /\ chats'[c].messageCount =
             IF TurnOk(t) /\ saved THEN chats[c].messageCount + 1
                                   ELSE chats[c].messageCount
        /\ chats[c].claudeSessionId # None => chats'[c].claudeSessionId # None
        /\ saved /\ finalSession(t) # None => chats'[c].claudeSessionId # None
  <2> SUFFICES ASSUME c \in DOMAIN chats
               PROVE  /\ chats'[c] \in Meta
                      /\ chats'[c].messageCount =
                           IF TurnOk(t) /\ saved
                             THEN chats[c].messageCount + 1
                             ELSE chats[c].messageCount
                      /\ chats[c].claudeSessionId # None =>
                           chats'[c].claudeSessionId # None
                      /\ saved /\ finalSession(t) # None =>
                           chats'[c].claudeSessionId # None
    OBVIOUS
  <2>1. chats[c] \in Meta /\ chats[c] = turn[t].meta
    BY <1>2, <1>6
  <2>2. /\ chats[c].messageCount < MaxTurns
        /\ chats[c].messageCount \in 0 .. MaxTurns
    <3>1. chats[c].messageCount = Cardinality(Counted(c))
      BY DEF IInv, MessageCountIsExact, Counted
    <3>2. t \in DOMAIN turn \ Counted(c)
      BY <1>8
    <3> QED
      BY <3>1, <3>2, CountedIsBounded DEF IInv
  <2>3. chats[c].claudeSessionId # None => finalSession(t) # None
    BY <1>2, <2>1 DEF finalSession, sessionFromInit
  <2>4. CASE ~saved
    BY <1>7, <2>1, <2>4
  <2>5. CASE saved /\ TurnOk(t)
    <3>1. chats'[c] = [messageCount |-> chats[c].messageCount + 1,
                       claudeSessionId |-> finalSession(t)]
      BY <1>7, <2>1, <2>5 DEF Patched
    <3>2. chats[c].messageCount + 1 \in 0 .. MaxTurns
      BY <2>2, BoundsAreNat
    <3> QED
      BY <1>3, <2>3, <2>5, <3>1, <3>2 DEF Meta
  <2>6. CASE saved /\ ~TurnOk(t) /\ KeepsSession(t)
    BY <1>3, <1>7, <2>1, <2>6 DEF Patched, KeepsSession, Meta
  <2>7. CASE saved /\ ~TurnOk(t) /\ ~KeepsSession(t)
    BY <1>7, <2>1, <2>7 DEF Patched, KeepsSession
  <2> QED
    BY <2>4, <2>5, <2>6, <2>7
<1>10. TypeOK'
  <2>1. \A d \in DOMAIN inflight' : inflight'[d] \in DOMAIN turn'
    BY <1>4, <1>5 DEF IInv, TypeOK
  <2>2. \A d \in DOMAIN chats' : chats'[d] \in Meta
    BY <1>7, <1>9 DEF IInv, TypeOK
  <2>3. \A u \in DOMAIN turn' : turn'[u] \in Turn
    BY <1>4 DEF IInv, TypeOK
  <2> QED
    BY <1>4, <1>5, <1>7, <2>1, <2>2, <2>3 DEF IInv, TypeOK
<1>11. TurnBookkeeping'
  <2>1. /\ IsFiniteSet(DOMAIN inflight')
        /\ Cardinality(DOMAIN inflight') <= MAX_CONCURRENT
    <3>1. IsFiniteSet(DOMAIN inflight) /\ Cardinality(DOMAIN inflight) \in Nat
      BY FS_CardinalityType DEF IInv, TurnBookkeeping
    <3>2. /\ IsFiniteSet(DOMAIN inflight \ {c})
          /\ Cardinality(DOMAIN inflight \ {c}) =
               Cardinality(DOMAIN inflight) - 1
      BY <1>6, <3>1, FS_RemoveElement
    <3> QED
      BY <1>5, <3>1, <3>2, BoundsAreNat DEF IInv, TurnBookkeeping
  <2>2. \A d \in DOMAIN inflight' :
          turn'[inflight'[d]].chat = d /\ turn'[inflight'[d]].proc # "gone"
    BY <1>4, <1>5 DEF IInv, TypeOK, TurnBookkeeping
  <2>3. ASSUME NEW u \in DOMAIN turn'
        PROVE  LET d == turn'[u].chat IN
          /\ d \in created'
          /\ turn'[u].ended # None <=> turn'[u].proc = "gone"
          /\ turn'[u].proc # "gone" =>
               d \in DOMAIN inflight' /\ inflight'[d] = u
          /\ \A v \in DOMAIN turn' :
               v < u /\ turn'[v].chat = d => turn'[v].proc = "gone"
          /\ d \in DOMAIN chats' =>
               /\ turn'[u].proc # "gone" => turn'[u].meta = chats'[d]
               /\ turn'[u].session # None /\ turn'[u].saved =>
                    chats'[d].claudeSessionId # None
    <3>1. CASE u = t
      BY <1>4, <1>5, <1>7, <1>9, <3>1, NoneIsNoEnd DEF IInv, TurnBookkeeping
    <3>2. CASE u # t /\ turn[u].chat = c
      BY <1>4, <1>5, <1>6, <1>7, <1>9, <3>2 DEF IInv, TurnBookkeeping
    <3>3. CASE u # t /\ turn[u].chat # c
      BY <1>4, <1>5, <1>7, <3>3 DEF IInv, TurnBookkeeping, Busy
    <3> QED
      BY <3>1, <3>2, <3>3
  <2>4. \A d \in Chat : waitsFor'[d] # None =>
          waitsFor'[d] \in DOMAIN turn' /\ turn'[waitsFor'[d]].chat = d
    BY <1>4, <1>5 DEF IInv, TurnBookkeeping
  <2> QED
    BY <2>1, <2>2, <2>3, <2>4 DEF TurnBookkeeping, Busy
<1>12. MessageCountIsExact'
  <2> SUFFICES ASSUME NEW d \in DOMAIN chats'
               PROVE  chats'[d].messageCount = Cardinality(Counted(d)')
    BY DEF MessageCountIsExact, Counted
  <2>1. /\ d \in DOMAIN chats
        /\ chats[d].messageCount = Cardinality(Counted(d))
        /\ IsFiniteSet(Counted(d))
    BY <1>7, CountedIsBounded DEF IInv, MessageCountIsExact, Counted
  <2>2. CASE d = c /\ TurnOk(t) /\ saved
    BY <1>8, <1>9, <2>1, <2>2, FS_AddElement
  <2>3. CASE ~(d = c /\ TurnOk(t) /\ saved)
    BY <1>7, <1>8, <1>9, <2>1, <2>3
  <2> QED
    BY <2>2, <2>3
<1>13. RetryResumes'
  <2> SUFFICES ASSUME NEW u \in DOMAIN turn', NEW v \in DOMAIN turn',
                      turn'[u].chat = turn'[v].chat, u < v,
                      turn'[u].session # None, turn'[u].saved
               PROVE  turn'[v].meta.claudeSessionId # None
    BY DEF RetryResumes
  \* A later turn of the chat would mean that this one was over.
  <2>1. u # t
    BY <1>2, <1>4 DEF IInv, TurnBookkeeping
  <2> QED
    BY <1>4, <2>1 DEF IInv, RetryResumes
<1> QED
  BY <1>10, <1>11, <1>12, <1>13 DEF IInv

-----------------------------------------------------------------------------
(***************************************************************************)
(* The theorems.                                                           *)
(***************************************************************************)

LEMMA InitHolds == Init => IInv
<1> SUFFICES ASSUME Init PROVE IInv
  OBVIOUS
<1>1. DOMAIN turn = {} /\ DOMAIN inflight = {} /\ DOMAIN chats = {}
  BY DEF Init
<1>2. DOMAIN turn = 1 .. 0
  BY <1>1
<1>3. TypeOK
  BY <1>1, <1>2, BoundsAreNat DEF Init, TypeOK
<1>4. TurnBookkeeping
  BY <1>1, FS_EmptySet, BoundsAreNat DEF Init, TurnBookkeeping
<1> QED
  BY <1>1, <1>3, <1>4 DEF IInv, MessageCountIsExact, RetryResumes

LEMMA StutterKeeps == IInv /\ UNCHANGED vars => IInv'
<1> SUFFICES ASSUME IInv, UNCHANGED vars PROVE IInv'
  OBVIOUS
<1>1. TypeOK'
  BY DEF vars, IInv, TypeOK
<1>2. Quiet
  BY DEF vars, Quiet, SameEnd
<1> QED
  BY <1>1, <1>2, QuietKeeps

LEMMA NextKeeps == IInv /\ [Next]_vars => IInv'
<1> SUFFICES ASSUME IInv, [Next]_vars PROVE IInv'
  OBVIOUS
<1>1. ASSUME NEW c \in Chat, Handler(c) PROVE IInv'
  BY <1>1, CreateKeeps, SendKeeps, CancelKeeps, DeleteKeeps DEF Handler
<1>2. ASSUME NEW c \in Chat, deleteGoesOn(c) PROVE IInv'
  BY <1>2, DeleteKeeps
<1>3. ASSUME NEW t \in DOMAIN turn, ChildStep(t) \/ Watchdog(t) \/ KillTimer(t)
      PROVE  IInv'
  BY <1>3, ChildStepKeeps
<1>4. ASSUME NEW t \in DOMAIN turn, Exit(t) PROVE IInv'
  BY <1>4, ExitKeeps
<1> QED
  BY <1>1, <1>2, <1>3, <1>4, StutterKeeps DEF Next

\* The invariants hold together.
THEOREM Inductive == Spec => []IInv
  BY InitHolds, NextKeeps, PTL DEF Spec

\* The values of every variable stay in their types.
THEOREM TypeCorrect == Spec => []TypeOK
  BY Inductive, PTL DEF IInv

\* Slots, turns and the index agree.
THEOREM Bookkeeping == Spec => []TurnBookkeeping
  BY Inductive, PTL DEF IInv

\* A chat counts exactly the turns that ended well and were saved.
THEOREM CountIsExact == Spec => []MessageCountIsExact
  BY Inductive, PTL DEF IInv

\* No turn starts a conversation of its own when a session was saved.
THEOREM Resumes == Spec => []RetryResumes
  BY Inductive, PTL DEF IInv

\* As every live child has the slot of its chat, there are no more of them
\* than slots: the limit of send holds for the processes.
LEMMA SlotsBoundChildren ==
  ASSUME IInv
  PROVE  LiveChildHasSlot
<1> DEFINE L == {t \in DOMAIN turn : Live(t)}
           f == [t \in L |-> turn[t].chat]
<1>1. ASSUME NEW t \in L
      PROVE  turn[t].chat \in DOMAIN inflight /\ inflight[turn[t].chat] = t
  BY DEF IInv, TurnBookkeeping, Live, Busy
<1>2. f \in Injection(L, DOMAIN inflight)
  BY <1>1 DEF Injection, IsInjective
<1>3. IsFiniteSet(L) /\ Cardinality(L) <= Cardinality(DOMAIN inflight)
  BY <1>2, FS_Injection DEF IInv, TurnBookkeeping
<1>4. Cardinality(L) <= MAX_CONCURRENT
  BY <1>3, FS_CardinalityType, BoundsAreNat DEF IInv, TurnBookkeeping
<1> QED
  BY <1>1, <1>4 DEF LiveChildHasSlot, Busy

\* Every child that runs can be found by its chat, and at most
\* MAX_CONCURRENT run.
THEOREM ChildHasSlot == Spec => []LiveChildHasSlot
  BY Inductive, SlotsBoundChildren, PTL

\* A step that brings a chat into the index creates it.
LEMMA NoChatReturns ==
  ASSUME [Next]_vars, NEW c \in created, c \notin DOMAIN chats
  PROVE  c \notin DOMAIN chats'
<1>1. ASSUME NEW d \in Chat, Handler(d) \/ deleteGoesOn(d)
      PROVE  c \notin DOMAIN chats'
  BY <1>1 DEF Handler, create, send, cancel, deleteAtOnce, deleteAndWait,
     deleteGoesOn, StoreDelete, Extend, Without
<1>2. ASSUME NEW t \in DOMAIN turn, ChildStep(t) \/ Watchdog(t) \/ KillTimer(t)
      PROVE  c \notin DOMAIN chats'
  BY <1>2 DEF ChildStep, ChildWrites, ChildExits, StdoutData, Watchdog,
     KillTimer
<1>3. ASSUME NEW t \in DOMAIN turn, Exit(t)
      PROVE  c \notin DOMAIN chats'
  BY <1>3 DEF Exit, update, Updatable, Extend
<1> QED
  BY <1>1, <1>2, <1>3 DEF Next, vars

\* A deleted chat does not come back.
THEOREM DeletedStaysDeleted == Spec => DeleteIsFinal
<1>1. [Next]_vars =>
        (\A c \in created : c \notin DOMAIN chats => c \notin DOMAIN chats')
  BY NoChatReturns
<1> QED
  BY <1>1, PTL DEF Spec, DeleteIsFinal

\* Only a delete removes files; the one that waited has seen the slot free,
\* or a child that was never spawned.
LEMMA WipeWaits ==
  ASSUME IInv, [Next]_vars, NEW c \in Chat, waitsFor[c] # None,
         c \in files \ files'
  PROVE  ~Live(waitsFor[c])
<1>1. waitsFor[c] \in DOMAIN turn /\ turn[waitsFor[c]].chat = c
  BY DEF IInv, TurnBookkeeping
<1>2. ~Busy(c) => ~Live(waitsFor[c])
  BY <1>1 DEF IInv, TurnBookkeeping, Live
<1>3. ASSUME NEW d \in Chat, Handler(d)
      PROVE  ~Busy(c)
  BY <1>3 DEF Handler, create, send, cancel, deleteAtOnce, deleteAndWait,
     StoreDelete
<1>4. ASSUME NEW d \in Chat, deleteGoesOn(d)
      PROVE  ~Live(waitsFor[c])
  <2>1. d = c
    BY <1>4 DEF deleteGoesOn, StoreDelete
  <2>2. ~Busy(c) \/ turn[waitsFor[c]].proc \in {"gone", "failed"}
    BY <1>4, <2>1 DEF deleteGoesOn, WaitIsOver, Deadline
  <2> QED
    BY <1>2, <2>2 DEF Live
<1>5. ASSUME NEW t \in DOMAIN turn,
             ChildStep(t) \/ Watchdog(t) \/ KillTimer(t) \/ Exit(t)
      PROVE  FALSE
  <2>1. CASE ChildStep(t)
    BY <2>1 DEF ChildStep, ChildWrites, ChildExits, StdoutData
  <2>2. CASE Watchdog(t)
    BY <2>2 DEF Watchdog
  <2>3. CASE KillTimer(t)
    BY <2>3 DEF KillTimer
  <2>4. CASE Exit(t)
    BY <2>4 DEF Exit
  <2> QED
    BY <1>5, <2>1, <2>2, <2>3, <2>4
<1> QED
  BY <1>2, <1>3, <1>4, <1>5 DEF Next, vars

\* A chat:delete wipes the files when the child it cancelled no longer runs.
THEOREM DeleteWaits == Spec => WipesAfterExit
<1>1. IInv /\ [Next]_vars =>
        (\A c \in Chat :
           waitsFor[c] # None /\ c \in files \ files' => ~Live(waitsFor[c]))
  BY WipeWaits
<1> QED
  BY <1>1, Inductive, PTL DEF Spec, WipesAfterExit

=============================================================================
