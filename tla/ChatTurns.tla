----------------------------- MODULE ChatTurns ------------------------------
(***************************************************************************)
(* Chats of the main process: ChatManager (chat/chat-manager.ts), the      *)
(* ChatStore (chat/chat-store.ts) and the chat:* handlers that call them   *)
(* (chat/chat-ipc.ts).                                                     *)
(*                                                                         *)
(* A turn is one child of a command-line engine.  Handlers, timers and the *)
(* events of a child are callbacks of one thread: an action is one of      *)
(* them, and they come in any order the operating system allows.  All but  *)
(* one handler run to their end; chat:delete waits for the child it        *)
(* cancelled, and others run meanwhile.                                    *)
(*                                                                         *)
(* Abstracted: text, titles and time stamps (rename changes nothing else), *)
(* the engine, and what a child writes beyond its first line, which names  *)
(* the session that a later turn resumes.  A rejected call is no step.     *)
(***************************************************************************)
EXTENDS Naturals, FiniteSets

CONSTANTS
  Chat,           \* chat ids: a new chat gets a fresh one
  MaxTurns,       \* bound: children spawned
  MAX_CONCURRENT,
  None

ASSUME BoundsAreNat == MaxTurns \in Nat /\ MAX_CONCURRENT \in Nat

ASSUME NoneIsNoEnd == None \notin {"ok", "error"}

VARIABLES
  chats,     \* ChatStore.chats: [chat |-> [messageCount, claudeSessionId]]
  created,   \* ids in use, now or earlier
  files,     \* chats whose workspace directory exists
  inflight,  \* ChatManager.inflight: [chat |-> turn]
  turn,      \* the turns, in the order of their send, see Turn
  waitsFor   \* chat:delete in cancelAndWait: [chat |-> the turn it cancelled]

vars == <<chats, created, files, inflight, turn, waitsFor>>

TurnId == 1 .. MaxTurns

Meta == [messageCount : 0 .. MaxTurns, claudeSessionId : TurnId \cup {None}]

(***************************************************************************)
(* proc: a child runs, was sent a SIGTERM, is dead (exit not handled yet), *)
(* is gone; or it failed: the spawn reports an error later, and no exit.   *)
(* output: the first line is not written, written, or read by the app.     *)
(* meta: the chat as send saw it, which the exit handler uses.             *)
(* ended: what chat:end said.  saved: the index was written at the end.    *)
(***************************************************************************)
Turn == [ chat      : Chat,
          proc      : {"run", "term", "dead", "gone", "failed"},
          code      : {0, 1},
          output    : {"none", "written", "read"},
          meta      : Meta,
          cancelled : BOOLEAN,
          timedOut  : BOOLEAN,
          killTimer : BOOLEAN,
          ended     : {None, "ok", "error"},
          session   : TurnId \cup {None},
          saved     : BOOLEAN ]

TypeOK ==
  /\ DOMAIN chats \subseteq created
  /\ \A c \in DOMAIN chats : chats[c] \in Meta
  /\ created \subseteq Chat
  /\ files \subseteq created
  /\ DOMAIN inflight \subseteq created
  /\ \A c \in DOMAIN inflight : inflight[c] \in DOMAIN turn
  /\ DOMAIN turn \in {1 .. n : n \in 0 .. MaxTurns}
  /\ \A t \in DOMAIN turn : turn[t] \in Turn
  /\ waitsFor \in [Chat -> TurnId \cup {None}]

Init ==
  /\ chats = <<>>
  /\ created = {}
  /\ files = {}
  /\ inflight = <<>>
  /\ turn = <<>>
  /\ waitsFor = [c \in Chat |-> None]

Extend(f, x, v) == [y \in DOMAIN f \cup {x} |-> IF y = x THEN v ELSE f[y]]
Without(f, x) == [y \in DOMAIN f \ {x} |-> f[y]]

Busy(c) == c \in DOMAIN inflight
Live(t) == turn[t].proc \in {"run", "term"}
Ended(t) == t \in DOMAIN turn /\ turn[t].ended # None

-----------------------------------------------------------------------------
(***************************************************************************)
(* The handlers.                                                           *)
(***************************************************************************)

\* chat:create
create(c) ==
  /\ c \notin created
  /\ created' = created \cup {c}
  /\ files' = files \cup {c}
  /\ chats' = Extend(chats, c, [messageCount |-> 0, claudeSessionId |-> None])
  /\ UNCHANGED <<inflight, turn, waitsFor>>

\* chat:send.  A child that cannot be spawned (no binary, no directory)
\* reports it by an error event after the call has returned.
MaySend_OneMore(c) ==
  ~Busy(c) /\ Cardinality(DOMAIN inflight) <= MAX_CONCURRENT
MaySend(c) == ~Busy(c) /\ Cardinality(DOMAIN inflight) < MAX_CONCURRENT

send(c) ==
  LET t == Cardinality(DOMAIN turn) + 1 IN
  /\ t \in TurnId
  /\ MaySend(c)
  /\ c \in DOMAIN chats
  /\ inflight' = Extend(inflight, c, t)
  /\ \E proc \in {"run", "failed"} :
       turn' = Extend(turn, t,
         [ chat      |-> c,
           proc      |-> proc,
           code      |-> 0,
           output    |-> "none",
           meta      |-> chats[c],
           cancelled |-> FALSE,
           timedOut  |-> FALSE,
           killTimer |-> FALSE,
           ended     |-> None,
           session   |-> None,
           saved     |-> FALSE ])
  /\ UNCHANGED <<chats, created, files, waitsFor>>

\* killChild: SIGTERM now, SIGKILL after CANCEL_GRACE_MS.
killChild_OnlyTerm(r) == [r EXCEPT !.proc = IF @ = "run" THEN "term" ELSE @]
killChild(r) ==
  [r EXCEPT !.proc = IF @ = "run" THEN "term" ELSE @, !.killTimer = TRUE]

\* ChatManager.cancel, of a chat whose turn is in flight.
CancelTurn(t) ==
  turn' = [turn EXCEPT ![t] = killChild([@ EXCEPT !.cancelled = TRUE])]

\* chat:cancel
cancel(c) ==
  /\ Busy(c)
  /\ CancelTurn(inflight[c])
  /\ UNCHANGED <<chats, created, files, inflight, waitsFor>>

\* store.delete: the chat leaves the index, and its directory the disk.
StoreDelete(c, removeFiles) ==
  /\ chats' = Without(chats, c)
  /\ files' = IF removeFiles /\ c \in DOMAIN chats THEN files \ {c} ELSE files

\* chat:delete of a chat with nothing to cancel, or whose files are kept.
deleteAtOnce(c) ==
  /\ c \in DOMAIN chats
  /\ \/ /\ ~Busy(c)
        /\ \E removeFiles \in BOOLEAN : StoreDelete(c, removeFiles)
        /\ UNCHANGED turn
     \/ /\ Busy(c)
        /\ CancelTurn(inflight[c])
        /\ StoreDelete(c, FALSE)
  /\ UNCHANGED <<created, inflight, waitsFor>>

\* chat:delete with the files: "cancel AND wait for the child to exit".
deleteAndWait(c) ==
  /\ Busy(c)
  /\ waitsFor[c] = None
  /\ CancelTurn(inflight[c])
  /\ waitsFor' = [waitsFor EXCEPT ![c] = inflight[c]]
  /\ UNCHANGED <<chats, created, files, inflight>>

(***************************************************************************)
(* cancelAndWait polls the slot, and goes on when it is free or after its  *)
(* deadline, 500ms after the SIGKILL.  Assumed: the exit of a child that   *)
(* was spawned does not miss this deadline.  A send between that exit and  *)
(* the next poll takes the slot, and the deadline ends the wait.           *)
(***************************************************************************)
Deadline(t) == turn[t].proc \in {"gone", "failed"}

WaitIsOver_AtOnce(c) == TRUE
WaitIsOver(c) == ~Busy(c) \/ Deadline(waitsFor[c])

deleteGoesOn(c) ==
  /\ waitsFor[c] # None
  /\ WaitIsOver(c)
  /\ waitsFor' = [waitsFor EXCEPT ![c] = None]
  /\ StoreDelete(c, TRUE)
  /\ UNCHANGED <<created, inflight, turn>>

-----------------------------------------------------------------------------
(***************************************************************************)
(* The timers of a turn.                                                   *)
(***************************************************************************)

\* The watchdog fires once, TURN_TIMEOUT_MS after the send, unless the exit
\* cleared it.
Watchdog(t) ==
  /\ turn[t].ended = None
  /\ ~turn[t].timedOut
  /\ turn' = [turn EXCEPT ![t] = killChild([@ EXCEPT !.timedOut = TRUE])]
  /\ UNCHANGED <<chats, created, files, inflight, waitsFor>>

KillTimer(t) ==
  /\ turn[t].killTimer
  /\ turn' = [turn EXCEPT ![t].killTimer = FALSE,
                          ![t].proc = IF Live(t) THEN "dead" ELSE @,
                          ![t].code = IF Live(t) THEN 1 ELSE @]
  /\ UNCHANGED <<chats, created, files, inflight, waitsFor>>

-----------------------------------------------------------------------------
(***************************************************************************)
(* The child and its events.                                               *)
(***************************************************************************)

ChildWrites(t) ==
  /\ Live(t)
  /\ turn[t].output = "none"
  /\ turn' = [turn EXCEPT ![t].output = "written"]
  /\ UNCHANGED <<chats, created, files, inflight, waitsFor>>

\* It may exit with success even after a SIGTERM.
ChildExits(t) ==
  /\ Live(t)
  /\ \E code \in {0, 1} :
       turn' = [turn EXCEPT ![t].proc = "dead", ![t].code = code]
  /\ UNCHANGED <<chats, created, files, inflight, waitsFor>>

\* stdout 'data': the event goes to the window, before or after the exit.
StdoutData(t) ==
  /\ turn[t].output = "written"
  /\ turn' = [turn EXCEPT ![t].output = "read"]
  /\ UNCHANGED <<chats, created, files, inflight, waitsFor>>

sessionFromInit(t) == IF turn[t].output = "read" THEN t ELSE None

finalSession(t) ==
  IF sessionFromInit(t) # None THEN sessionFromInit(t)
  ELSE turn[t].meta.claudeSessionId

TurnOk(t) == turn[t].code = 0 /\ ~turn[t].timedOut /\ ~turn[t].cancelled

\* "First-turn failure - still persist the session id so retry can resume"
KeepsSession_Never(t) == FALSE
KeepsSession(t) ==
  finalSession(t) # None /\ turn[t].meta.claudeSessionId = None

\* What the end of a turn changes in its chat's entry of the index.
Patched_AlwaysCounts(t, m) ==
  [messageCount |-> turn[t].meta.messageCount + 1,
   claudeSessionId |-> finalSession(t)]
Patched(t, m) ==
  IF TurnOk(t)
    THEN [messageCount |-> turn[t].meta.messageCount + 1,
          claudeSessionId |-> finalSession(t)]
  ELSE IF KeepsSession(t)
    THEN [m EXCEPT !.claudeSessionId = finalSession(t)]
  ELSE m

\* store.update fails for a chat that was deleted, and when the index cannot
\* be written, in which case it is rolled back.
Updatable_Always(c) == TRUE
Updatable(c) == c \in DOMAIN chats

update(t, saved) ==
  LET c == turn[t].chat IN
  chats' = IF Updatable(c) /\ saved
           THEN Extend(chats, c, Patched(t,
                  IF c \in DOMAIN chats THEN chats[c] ELSE turn[t].meta))
           ELSE chats

\* 'exit': free the slot, save what the turn changed, and announce its end.
\* (The flags of a turn that is over are reset here: nothing reads them.)
Exit(t) ==
  /\ turn[t].proc = "dead"
  /\ inflight' = Without(inflight, turn[t].chat)
  /\ \E saved \in BOOLEAN :
       /\ update(t, saved)
       /\ turn' = [turn EXCEPT ![t].proc = "gone",
                               ![t].killTimer = FALSE,
                               ![t].cancelled = FALSE,
                               ![t].timedOut = FALSE,
                               ![t].code = 0,
                               ![t].ended = IF TurnOk(t) THEN "ok" ELSE "error",
                               ![t].session = finalSession(t),
                               ![t].saved = saved]
  /\ UNCHANGED <<created, files, waitsFor>>

-----------------------------------------------------------------------------
Handler(c) ==
  \/ create(c)
  \/ send(c)
  \/ cancel(c)
  \/ deleteAtOnce(c)
  \/ deleteAndWait(c)

ChildStep(t) ==
  \/ ChildWrites(t)
  \/ ChildExits(t)
  \/ StdoutData(t)

Next ==
  \/ \E c \in Chat : Handler(c)
  \/ \E c \in Chat : deleteGoesOn(c)
  \/ \E t \in DOMAIN turn : ChildStep(t)
  \/ \E t \in DOMAIN turn : Watchdog(t)
  \/ \E t \in DOMAIN turn : KillTimer(t)
  \/ \E t \in DOMAIN turn : Exit(t)

Spec == Init /\ [][Next]_vars

(***************************************************************************)
(* Timers fire, the exit of a child is reported, and the poll goes on.  A  *)
(* child need not exit, and the user need not do anything.                 *)
(***************************************************************************)
TimerFires(t) == t \in DOMAIN turn /\ (Watchdog(t) \/ KillTimer(t))
ExitHandled(t) == t \in DOMAIN turn /\ Exit(t)

Fairness ==
  /\ \A t \in TurnId : WF_vars(TimerFires(t)) /\ WF_vars(ExitHandled(t))
  /\ \A c \in Chat : WF_vars(deleteGoesOn(c))

FairSpec == Spec /\ Fairness

-----------------------------------------------------------------------------
(***************************************************************************)
(* Properties.                                                             *)
(***************************************************************************)

\* Every child that runs is the one in its chat's slot: it can be cancelled,
\* quitting reaches it, and no more than MAX_CONCURRENT run at once.
LiveChildHasSlot ==
  /\ \A t \in DOMAIN turn :
       Live(t) => Busy(turn[t].chat) /\ inflight[turn[t].chat] = t
  /\ Cardinality({t \in DOMAIN turn : Live(t)}) <= MAX_CONCURRENT

\* The count that send read, and that the end of the turn writes plus one, is
\* not stale: a chat counts exactly the turns that ended well and were saved.
MessageCountIsExact ==
  \A c \in DOMAIN chats :
    chats[c].messageCount =
      Cardinality({t \in DOMAIN turn :
        turn[t].chat = c /\ turn[t].ended = "ok" /\ turn[t].saved})

\* "so retry can resume": a turn starts a conversation of its own only if no
\* earlier turn of its chat ended with a session that was saved.
RetryResumes ==
  \A u, t \in DOMAIN turn :
    /\ turn[u].chat = turn[t].chat
    /\ u < t
    /\ turn[u].session # None
    /\ turn[u].saved
    => turn[t].meta.claudeSessionId # None

\* What relates the slots, the turns and the index: a slot holds the one turn
\* of its chat that is not over, this turn saw the chat as it is in the index,
\* and a session that was saved stays there.
TurnBookkeeping ==
  /\ IsFiniteSet(DOMAIN inflight)
  /\ Cardinality(DOMAIN inflight) <= MAX_CONCURRENT
  /\ \A c \in DOMAIN inflight :
       turn[inflight[c]].chat = c /\ turn[inflight[c]].proc # "gone"
  /\ \A t \in DOMAIN turn :
       LET c == turn[t].chat IN
       /\ c \in created
       /\ turn[t].ended # None <=> turn[t].proc = "gone"
       /\ turn[t].proc # "gone" => Busy(c) /\ inflight[c] = t
       /\ \A u \in DOMAIN turn :
            u < t /\ turn[u].chat = c => turn[u].proc = "gone"
       /\ c \in DOMAIN chats =>
            /\ turn[t].proc # "gone" => turn[t].meta = chats[c]
            /\ turn[t].session # None /\ turn[t].saved =>
                 chats[c].claudeSessionId # None
  /\ \A c \in Chat : waitsFor[c] # None =>
       waitsFor[c] \in DOMAIN turn /\ turn[waitsFor[c]].chat = c

\* A deleted chat does not come back, though its last turn ends later.
DeleteIsFinal ==
  [][\A c \in created : c \notin DOMAIN chats => c \notin DOMAIN chats']_vars

\* "cancel AND wait for the child to exit before wiping files": a chat:delete
\* wipes them when the child it cancelled no longer runs.
WipesAfterExit ==
  [][\A c \in Chat :
       waitsFor[c] # None /\ c \in files \ files' => ~Live(waitsFor[c])]_vars

\* The same of any child of the chat: "otherwise the child can keep writing to
\* a soon-to-be-deleted directory" (chat-manager.ts).  Refuted in
\* ChatDelete.cfg: a send during the wait starts another one.
WipesAfterEveryExit ==
  [][\A c \in Chat : c \in files \ files' =>
       \A t \in DOMAIN turn : turn[t].chat = c => ~Live(t)]_vars

\* "Hard cap on a single turn": a turn whose child was spawned ends, whatever
\* the child does.
StartedTurnsEnd ==
  \A t \in TurnId : (t \in DOMAIN turn /\ Live(t)) ~> Ended(t)

\* "Hard cap on a single turn": every turn that send accepted ends.
EveryTurnEnds ==
  \A t \in TurnId : (t \in DOMAIN turn) ~> Ended(t)

\* chat:end comes after every chat:stream of the turn: what a child wrote is
\* shown, and the session it named is known.
EndComesLast ==
  [][\A t \in DOMAIN turn :
       turn'[t].output # turn[t].output => turn[t].ended = None]_vars
=============================================================================
