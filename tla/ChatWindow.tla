----------------------------- MODULE ChatWindow -----------------------------
(***************************************************************************)
(* The chat as the user sees it: the store of the renderer                 *)
(* (stores/chat.ts) with its subscriptions (hooks/useChatStream.ts,        *)
(* hooks/useChatList.ts) and its controls (ChatInput, ChatDrawer,          *)
(* ChatListItem), and what the main process makes of an engine's output:   *)
(* the line buffer (chat/stream-parser.ts), the translation of a line into *)
(* events (chat/normalizer.ts, chat/engines/codex.ts) and the replay of a  *)
(* session from disk (chat/history-loader.ts).                             *)
(*                                                                         *)
(* The two processes talk over two channels that keep the order: calls to  *)
(* the main process, replies and broadcasts to the window.  Every callback *)
(* is an action; an await of the window is a call on its way, which holds  *)
(* what the code after the await still knows.                              *)
(*                                                                         *)
(* Abstracted: a text is a token, concatenation of texts is concatenation  *)
(* of tokens; message ids; the kill timers and limits of ChatTurns, which  *)
(* models the main process in detail.                                      *)
(***************************************************************************)
EXTENDS Naturals, FiniteSets, Functions, SequencesExt

CONSTANTS
  Chats, CodexChats,  \* chat ids; those whose engine is codex
  MaxSends,           \* bound: messages submitted
  MaxExtras,          \* bound: renames, deletions, reloads, messages submitted
                      \* ahead, and exits before the last of the output is read
  MaxCalls,           \* bound: calls under way before the user acts again
  MaxPipe,            \* bound: pieces of lines printed and not read
  MaxQueue,           \* bound: messages to the window before more output is read
  MaxAhead,           \* bound: calls under way when a message is submitted
  NoChat

ASSUME WindowBounds ==
  /\ {MaxSends, MaxExtras, MaxCalls, MaxAhead, MaxPipe, MaxQueue} \subseteq Nat
  /\ CodexChats \subseteq Chats

Absent == << [role |-> "absent"] >>  \* no entry for a chat in the store's maps
NoReq == 0

VARIABLES
  \* the window
  page,      \* how often it was reloaded
  chats,     \* the list on display: [chat |-> [title, updatedAt]]
  active,    \* activeChatId
  messages,  \* [chat |-> rendered messages, or Absent]
  inflight,  \* [chat |-> request id, or NoReq]
  toMain,    \* calls, in order
  toWindow,  \* replies and broadcasts, in order
  sent,      \* messages submitted so far
  ahead,     \* history: chats sent to with a load or a send under way
  \* the main process
  store,     \* ChatStore.chats: [chat |-> [title, updatedAt]]
  used,      \* ids in use now or earlier
  deleting,  \* chat:delete calls in cancelAndWait
  turn,      \* [chat |-> its turn]
  session,   \* chats whose meta names a session
  said,      \* [chat |-> lines of its conversation], the session's file
  late,      \* output of turns that exited before it was read
  whole,     \* history: chats whose messages the window has from the first on
  unread     \* history: chats of a turn in late

windowVars == <<page, chats, active, messages, inflight, sent, ahead>>
mainVars == <<store, used, deleting, turn, session, said, late, whole, unread>>
vars == <<windowVars, mainVars, toMain, toWindow>>

-----------------------------------------------------------------------------
(* Lines of an engine, and the events they become.                         *)

\* The parts of an answer: texts are named by their turn and place, a tool
\* call by its turn.
TextOf(r, k) == [kind |-> "text", text |-> <<r, k>>]
ToolOf(r) == [kind |-> "tool_use", id |-> r]
ResultOf(r) == [kind |-> "tool_result", id |-> r]
UserText(r) == [kind |-> "user_text", text |-> <<r, 0>>]

\* A line: its type, and its turn.  A user line is the message itself or has
\* the results of tools.
Line(type, r) == [type |-> type, req |-> r, own |-> FALSE]
UserLine(r) == [type |-> "user", req |-> r, own |-> TRUE]

\* What Claude Code prints in a turn, line by line.
ClaudeLines(r) == << Line("init", r), Line("assistant", r), Line("user", r) >>

\* What Codex prints: notifications with a method.
CodexLines(r) ==
  << Line("delta", r), Line("toolCall/started", r), Line("toolCall/completed", r) >>

\* The blocks of a message, the item of a notification.
Content(line) ==
  LET r == line.req
  IN  CASE line.own -> << UserText(r) >>
        [] line.type = "assistant" -> << TextOf(r, 1), TextOf(r, 2), ToolOf(r) >>
        [] line.type = "delta" -> << TextOf(r, 1) >>
        [] line.type = "toolCall/started" -> << ToolOf(r) >>
        [] OTHER -> << ResultOf(r) >>

\* normalize: a block of a message is an event; the rest is usage and meta,
\* which show nothing.
normalize(line) ==
  CASE line.type \in {"assistant", "user"} -> Content(line)
    [] OTHER -> << [kind |-> "meta", sessionId |-> line.type = "init"] >>

\* codexEngine.normalize: one event for a notification.
normalizeCodex(line) ==
  CASE line.type \in {"delta", "toolCall/started", "toolCall/completed"} -> Content(line)
    [] OTHER -> << [kind |-> "meta", sessionId |-> line.type = "turn/start"] >>

Events(c, line) == IF c \in CodexChats THEN normalizeCodex(line) ELSE normalize(line)

-----------------------------------------------------------------------------
(* StreamJsonParser.  A line is two halves, the second with the newline;   *)
(* a chunk may end after any of them.                                      *)

HalvesOf(line) == << <<line, 1>>, <<line, 2>> >>

\* Mutant: the rest of a chunk is not kept for the next one.
drainKeepsNothing(buf) ==
  LET complete == {k \in 1 .. Len(buf) - 1 : buf[k][2] = 1 /\ buf[k + 1][2] = 2}
      at == SetToSortSeq(complete, <)
  IN  [objects |-> [k \in DOMAIN at |-> buf[at[k]][1]], buf |-> <<>>]

\* drain: the lines up to the last newline, those that parse.
drain(buf) ==
  LET ended(i) == buf[i][2] = 2
      parses(i) == /\ ended(i) /\ i > 1
                   /\ buf[i - 1] = <<buf[i][1], 1>> /\ (i = 2 \/ ended(i - 2))
      at == SelectSeq([i \in DOMAIN buf |-> i], parses)
      last == Max({i \in DOMAIN buf : ended(i)} \cup {0})
  IN  [ objects |-> [k \in DOMAIN at |-> buf[at[k]][1]],
        buf |-> SubSeq(buf, last + 1, Len(buf)) ]

-----------------------------------------------------------------------------
(* Rendering.  A message has a role and parts.                             *)

User(tok) == [role |-> "user", parts |-> << [kind |-> "text", text |-> <<tok>>] >>]
Assistant(part) == [role |-> "assistant", parts |-> <<part>>]
ErrorMessage == Assistant([kind |-> "error"])
IsError(m) == m.parts[1].kind = "error"

ReplaceLast(s, x) == Append(Front(s), x)

pushAssistantPart(msgs, part) ==
  IF msgs # <<>> /\ Last(msgs).role = "assistant"
  THEN ReplaceLast(msgs, [Last(msgs) EXCEPT !.parts = Append(@, part)])
  ELSE Append(msgs, Assistant(part))

mergeTextDelta(msgs, delta) ==
  IF msgs # <<>> /\ Last(msgs).role = "assistant" /\ Last(Last(msgs).parts).kind = "text"
  THEN ReplaceLast(msgs, [Last(msgs) EXCEPT !.parts =
         ReplaceLast(@, [Last(@) EXCEPT !.text = Append(@, delta)])])
  ELSE pushAssistantPart(msgs, [kind |-> "text", text |-> <<delta>>])

\* The last tool call of that id that has no result yet.
FillResult(msgs, id) ==
  LET open(a) == /\ msgs[a[1]].role = "assistant"
                 /\ a[2] \in DOMAIN msgs[a[1]].parts
                 /\ LET p == msgs[a[1]].parts[a[2]]
                    IN  p.kind = "tool" /\ p.id = id /\ ~p.result
      places == {a \in (DOMAIN msgs) \X (1 .. 9) : open(a)}
      after(a, b) == a[1] > b[1] \/ (a[1] = b[1] /\ a[2] >= b[2])
  IN  IF places = {} THEN msgs
      ELSE LET at == CHOOSE a \in places : \A b \in places : after(a, b)
           IN  [msgs EXCEPT ![at[1]].parts[at[2]].result = TRUE]

applyEvent(msgs, ev) ==
  CASE ev.kind = "text"        -> mergeTextDelta(msgs, ev.text)
    [] ev.kind = "user_text"   -> Append(msgs, User(ev.text))
    [] ev.kind = "tool_use"    ->
         pushAssistantPart(msgs, [kind |-> "tool", id |-> ev.id, result |-> FALSE])
    [] ev.kind = "tool_result" -> FillResult(msgs, ev.id)
    [] OTHER                   -> msgs

Rebuild(events) == FoldLeft(applyEvent, <<>>, events)

\* The events of a conversation's lines.
EventsOf(c, lines) == FlattenSeq([k \in DOMAIN lines |-> Events(c, lines[k])])

-----------------------------------------------------------------------------
(* Turns.  todo: lines the engine has yet to print, its first the message  *)
(* itself, which only the session's file gets.  pipe: printed, not read.   *)

NoTurn == [req |-> NoReq, page |-> 0, todo |-> <<>>, pipe |-> <<>>, buf |-> <<>>,
           init |-> FALSE, stop |-> FALSE]

NewMeta == [title |-> 0, updatedAt |-> 0]

\* A conversation in events: the messages of the user and the answers.
Conversation(c) ==
  LET lines == said[c]
  IN  FlattenSeq([k \in DOMAIN lines |-> IF lines[k].type = "user" THEN Content(lines[k])
                                         ELSE Events(c, lines[k])])

\* Lines that the session's file keeps.
Kept(line) == line.type # "init"

\* loadHistory: nothing without a session, and nothing for codex.
loadHistory(c) == IF c \in session /\ c \notin CodexChats THEN EventsOf(c, said[c])
                  ELSE <<>>

Init ==
  /\ page = 0 /\ active = NoChat /\ sent = 0 /\ ahead = {} /\ chats = <<>>
  /\ messages = [c \in Chats |-> Absent]
  /\ inflight = [c \in Chats |-> NoReq]
  /\ used = Chats \ CodexChats /\ store = [c \in used |-> NewMeta]
  /\ deleting = {}
  /\ turn = [c \in Chats |-> NoTurn]
  /\ session = {}
  /\ said = [c \in Chats |-> <<>>]
  /\ late = {} /\ whole = {} /\ unread = {}
  /\ toMain = << [op |-> "list", page |-> 0, chat |-> NoChat] >>
  /\ toWindow = <<>>

-----------------------------------------------------------------------------
(* The window calls.                                                       *)

Call(call) == toMain' = Append(toMain, call)

\* Calls of this page whose reply has not been handled.
Pending == { x \in ToSet(toMain) \cup deleting
                   \cup { toWindow[i].call : i \in {j \in DOMAIN toWindow :
                                                      toWindow[j].type = "reply"} } :
             x.page = page }
Waits(op, c) == \E x \in Pending : x.op = op /\ x.chat = c
PendingOps == {x.op : x \in Pending}

\* The user acts when the app has caught up to the bound.
UserTurn == Len(toMain) + Len(toWindow) < MaxCalls

\* Events out of the ordinary so far, within the bound.
MoreExtras ==
  page + Cardinality(ahead) + Cardinality(unread)
    + Cardinality(used \ DOMAIN store)
    + Cardinality({x \in Pending : x.op \in {"delete", "rename"}})
    + SumFunction([c \in DOMAIN store |-> store[c].title]) < MaxExtras

\* ChatListItem.onClick, and the store's selectChat up to its await.
selectChat(c) ==
  /\ UserTurn /\ c \in DOMAIN chats /\ c # active
  /\ active' = c
  /\ IF messages[c] = Absent THEN Call([op |-> "load", page |-> page, chat |-> c])
     ELSE UNCHANGED toMain
  /\ UNCHANGED <<page, chats, messages, inflight, sent, ahead, toWindow, mainVars>>

Shown(c) == IF messages[c] = Absent THEN <<>> ELSE messages[c]

\* ChatInput.submit, and the store's send up to its await.  Nothing waits for
\* the history, or for the reply to an earlier message: only a turn blocks.
send(c) ==
  /\ Len(toMain) + Len(toWindow) < MaxAhead
  /\ active = c /\ c \in DOMAIN chats /\ inflight[c] = NoReq
  /\ sent < MaxSends
  /\ sent' = sent + 1
  /\ IF Waits("load", c) \/ Waits("send", c)
     THEN MoreExtras /\ ahead' = ahead \cup {c}
     ELSE UNCHANGED ahead
  /\ messages' = [messages EXCEPT ![c] = Append(Shown(c), User(<<sent + 1, 0>>))]
  /\ Call([op |-> "send", page |-> page, chat |-> c, req |-> sent + 1, was |-> Shown(c)])
  /\ UNCHANGED <<page, chats, active, inflight, toWindow, mainVars>>

\* The stop button, shown while a turn streams.
cancel(c) ==
  /\ UserTurn /\ active = c /\ inflight[c] # NoReq /\ ~Waits("cancel", c)
  /\ Call([op |-> "cancel", page |-> page, chat |-> c])
  /\ UNCHANGED <<windowVars, toWindow, mainVars>>

\* ChatDrawer.createNewChat, one at a time (creatingRef).
createNewChat ==
  /\ UserTurn /\ PendingOps \cap {"create", "listThen"} = {}
  /\ used # Chats
  /\ Call([op |-> "create", page |-> page, chat |-> NoChat])
  /\ UNCHANGED <<windowVars, toWindow, mainVars>>

\* The confirmed dialog.
delete(c) ==
  /\ UserTurn /\ c \in DOMAIN chats /\ ~Waits("delete", c)
  /\ MoreExtras
  /\ Call([op |-> "delete", page |-> page, chat |-> c])
  /\ UNCHANGED <<windowVars, toWindow, mainVars>>

\* ChatListItem.commitRename.
rename(c) ==
  /\ UserTurn /\ c \in DOMAIN chats /\ ~Waits("rename", c)
  /\ MoreExtras
  /\ Call([op |-> "rename", page |-> page, chat |-> c])
  /\ UNCHANGED <<windowVars, toWindow, mainVars>>

\* The menu's Reload: a new page with an empty store, which loads the list.
Reload ==
  /\ MoreExtras
  /\ page' = page + 1
  /\ chats' = <<>> /\ active' = NoChat
  /\ messages' = [c \in Chats |-> Absent]
  /\ inflight' = [c \in Chats |-> NoReq]
  /\ toMain' = Append(toMain, [op |-> "list", page |-> page + 1, chat |-> NoChat])
  /\ whole' = {} /\ unread' = {} /\ ahead' = {}
  /\ UNCHANGED <<sent, toWindow, store, used, deleting, turn, session, said, late>>

-----------------------------------------------------------------------------
(* The main process answers.                                               *)

Reply(call, ok, value) == [type |-> "reply", call |-> call, ok |-> ok, value |-> value]
ListChanged == [type |-> "listChanged"]
ToWindow(ms) == toWindow' = toWindow \o ms

\* chat:list.
HandleList(call) ==
  /\ call.op \in {"list", "listThen"}
  /\ ToWindow(<< Reply(call, TRUE, store) >>)
  /\ UNCHANGED mainVars

\* chat:create.
HandleCreate(call) ==
  /\ call.op = "create"
  /\ \E c \in Chats \ used :
       /\ used' = used \cup {c}
       /\ store' = [d \in DOMAIN store \cup {c} |-> IF d = c THEN NewMeta ELSE store[d]]
       /\ ToWindow(<< ListChanged, Reply(call, TRUE, c) >>)
  /\ UNCHANGED <<deleting, turn, session, said, late, whole, unread>>

\* chat:send: refused while a turn runs, without the chat, and for the
\* reasons that have nothing to do with the window (no binary, no login).
\* Claude Code without a session to resume starts one, with a file of its own.
HandleSend(call) ==
  /\ call.op = "send"
  /\ \E ok \in BOOLEAN :
       /\ ok => call.chat \in DOMAIN store /\ turn[call.chat].req = NoReq
       /\ ToWindow(<< Reply(call, ok, NoReq) >>)
       /\ IF ok
          THEN turn' = [turn EXCEPT ![call.chat] =
                 [NoTurn EXCEPT !.req = call.req, !.page = call.page,
                                !.todo = << UserLine(call.req) >> \o
                                  (IF call.chat \in CodexChats THEN CodexLines(call.req)
                                   ELSE ClaudeLines(call.req))]]
          ELSE UNCHANGED turn
       /\ IF ok /\ call.chat \notin session \cup CodexChats /\ said[call.chat] # <<>>
          THEN said' = [said EXCEPT ![call.chat] = <<>>] /\ whole' = whole \ {call.chat}
          ELSE UNCHANGED <<said, whole>>
  /\ UNCHANGED <<store, used, deleting, session, late, unread>>

Stop(c) == turn' = [turn EXCEPT ![c].stop = @ \/ turn[c].req # NoReq]

\* chat:cancel.
HandleCancel(call) ==
  /\ call.op = "cancel"
  /\ Stop(call.chat)
  /\ ToWindow(<< Reply(call, TRUE, NoReq) >>)
  /\ UNCHANGED <<store, used, deleting, session, said, late, whole, unread>>

\* chat:loadHistory.
HandleLoad(call) ==
  /\ call.op = "load"
  /\ LET c == call.chat  ok == c \in DOMAIN store
     IN  /\ ToWindow(<< Reply(call, ok, IF ok THEN loadHistory(c) ELSE <<>>) >>)
         /\ whole' = IF /\ ok /\ call.page = page /\ turn[c].req = NoReq
                        /\ loadHistory(c) = Conversation(c)
                     THEN whole \cup {c} ELSE whole
  /\ UNCHANGED <<store, used, deleting, turn, session, said, late, unread>>

\* chat:rename.
HandleRename(call) ==
  /\ call.op = "rename"
  /\ IF call.chat \in DOMAIN store
     THEN /\ store' = [store EXCEPT ![call.chat].title = @ + 1, ![call.chat].updatedAt = @ + 1]
          /\ ToWindow(<< ListChanged, Reply(call, TRUE, NoReq) >>)
     ELSE UNCHANGED store /\ ToWindow(<< Reply(call, FALSE, NoReq) >>)
  /\ UNCHANGED <<used, deleting, turn, session, said, late, whole, unread>>

\* chat:delete up to cancelAndWait.
HandleDelete(call) ==
  /\ call.op = "delete"
  /\ Stop(call.chat)
  /\ deleting' = deleting \cup {call}
  /\ UNCHANGED <<store, used, session, said, late, whole, unread, toWindow>>

Handle ==
  /\ toMain # <<>>
  /\ toMain' = Tail(toMain)
  /\ LET call == Head(toMain)
     IN  \/ HandleList(call) \/ HandleCreate(call) \/ HandleSend(call) \/ HandleCancel(call)
         \/ HandleLoad(call) \/ HandleRename(call) \/ HandleDelete(call)
  /\ UNCHANGED windowVars

\* The rest of chat:delete: the turn has ended, or the deadline has passed.
DeleteDone ==
  /\ \E call \in deleting :
       /\ deleting' = deleting \ {call}
       /\ store' = [c \in DOMAIN store \ {call.chat} |-> store[c]]
       /\ whole' = whole \ {call.chat}
       /\ ToWindow(<< ListChanged, Reply(call, TRUE, NoReq) >>)
  /\ UNCHANGED <<windowVars, toMain, used, turn, session, said, late, unread>>

-----------------------------------------------------------------------------
(* The engine and its output.                                              *)

\* The engine prints its next line; the message itself is only recorded.
WriteLine(c) ==
  LET t == turn[c]
      line == Head(t.todo)
  IN  /\ t.todo # <<>> /\ Len(t.pipe) < MaxPipe
      /\ turn' = [turn EXCEPT ![c].todo = Tail(t.todo),
                              ![c].pipe = IF line = UserLine(t.req) THEN @
                                          ELSE @ \o HalvesOf(line)]
      /\ said' = IF Kept(line) THEN [said EXCEPT ![c] = Append(@, line)] ELSE said
      /\ UNCHANGED <<windowVars, toMain, toWindow, store, used, deleting, session, late,
                     whole, unread>>

\* usage and meta go to the window too; applyEvent drops them there.
Shows(ev) == ev.kind \notin {"usage", "meta"}

\* onEvent for the events of a turn that the window shows.
Stream(req, events) ==
  LET shown == SelectSeq(events, Shows)
  IN  [i \in DOMAIN shown |-> [type |-> "stream", req |-> req, event |-> shown[i]]]

\* stdout 'data': a chunk of any length; emitParsed.
Data(c) ==
  LET t == turn[c]
  IN  /\ Len(toWindow) < MaxQueue
      /\ \E k \in 1 .. Len(t.pipe) :
           LET d == drain(t.buf \o SubSeq(t.pipe, 1, k))
               events == EventsOf(c, d.objects)
           IN  /\ turn' = [turn EXCEPT
                    ![c].pipe = SubSeq(@, k + 1, Len(@)), ![c].buf = d.buf,
                    ![c].init = @ \/ \E i \in DOMAIN events :
                                       "sessionId" \in DOMAIN events[i] /\ events[i].sessionId]
               /\ ToWindow(Stream(t.req, events))
      /\ UNCHANGED <<windowVars, toMain, store, used, deleting, session, said, late,
                     whole, unread>>

\* 'exit': at the engine's end, by a failure of its own, or by the signal of a
\* cancel or of the watchdog.  Node may report it before the last of stdout:
\* what is still in the pipe is read later.
Exit(c) ==
  LET t == turn[c]
      rest == EventsOf(c, drain(t.buf \o t.pipe).objects)
      missed == \E i \in DOMAIN rest : Shows(rest[i])
  IN  /\ t.req # NoReq
      /\ missed => MoreExtras
      /\ \E ok \in BOOLEAN :
           /\ ok => t.todo = <<>> /\ ~t.stop
           /\ ToWindow(<< [type |-> "end", req |-> t.req, ok |-> ok] >>)
           /\ store' = IF c \in DOMAIN store /\ (ok \/ (t.init /\ c \notin session))
                       THEN [store EXCEPT ![c].updatedAt = @ + 1] ELSE store
      /\ session' = IF c \in DOMAIN store /\ t.init THEN session \cup {c} ELSE session
      /\ whole' = IF t.todo # <<>> /\ Head(t.todo) = UserLine(t.req) THEN whole \ {c} ELSE whole
      /\ turn' = [turn EXCEPT ![c] = NoTurn]
      /\ late' = IF missed THEN late \cup {[req |-> t.req, events |-> rest]} ELSE late
      /\ unread' = IF missed THEN unread \cup {c} ELSE unread
      /\ UNCHANGED <<windowVars, toMain, used, deleting, said>>

\* stdout 'data' after 'exit': what was left in the pipe, in one chunk.
LateData ==
  /\ Len(toWindow) < MaxQueue
  /\ \E l \in late : late' = late \ {l} /\ ToWindow(Stream(l.req, l.events))
  /\ UNCHANGED <<windowVars, toMain, store, used, deleting, turn, session, said, whole,
                 unread>>

-----------------------------------------------------------------------------
(* The window receives.                                                    *)

\* findChatByRequestId.
ChatOf(req) == {c \in Chats : inflight[c] = req}

\* useChatStream: appendEvent, for a turn that is known.
OnStream(m) ==
  /\ m.type = "stream"
  /\ messages' = [c \in Chats |-> IF c \in ChatOf(m.req) THEN applyEvent(Shown(c), m.event)
                                  ELSE messages[c]]
  /\ UNCHANGED <<chats, active, inflight, toMain>>

\* Mutant: a turn that failed is left in inflight.
OnEndKeepsFailed(m) ==
  /\ m.type = "end"
  /\ inflight' = [c \in Chats |-> IF c \in ChatOf(m.req) /\ m.ok THEN NoReq ELSE inflight[c]]
  /\ messages' = [c \in Chats |-> IF c \in ChatOf(m.req) /\ ~m.ok
                                  THEN Append(Shown(c), ErrorMessage) ELSE messages[c]]
  /\ UNCHANGED <<chats, active, toMain>>

\* useChatStream: markEnded.
OnEnd(m) ==
  /\ m.type = "end"
  /\ inflight' = [c \in Chats |-> IF c \in ChatOf(m.req) THEN NoReq ELSE inflight[c]]
  /\ messages' = [c \in Chats |-> IF c \in ChatOf(m.req) /\ ~m.ok
                                  THEN Append(Shown(c), ErrorMessage) ELSE messages[c]]
  /\ UNCHANGED <<chats, active, toMain>>

\* useChatList.
OnListChanged(m) ==
  /\ m.type = "listChanged"
  /\ Call([op |-> "list", page |-> page, chat |-> NoChat])
  /\ UNCHANGED <<chats, active, messages, inflight>>

\* Mutant: only the ids are compared.
SameListIds(list) == DOMAIN chats = DOMAIN list

\* The rest of loadChatList: an unchanged list is not set.
SameList(list) ==
  /\ DOMAIN chats = DOMAIN list
  /\ \A c \in DOMAIN list : chats[c].updatedAt = list[c].updatedAt

GotList(call, m) ==
  /\ call.op \in {"list", "listThen"}
  /\ chats' = IF SameList(m.value) THEN chats ELSE m.value
  /\ IF call.op = "listThen"
     THEN /\ active' = call.chat
          /\ IF messages[call.chat] = Absent
             THEN Call([op |-> "load", page |-> page, chat |-> call.chat])
             ELSE UNCHANGED toMain
     ELSE UNCHANGED <<active, toMain>>
  /\ UNCHANGED <<messages, inflight>>

\* The rest of createNewChat.
GotCreated(call, m) ==
  /\ call.op = "create"
  /\ Call([op |-> "listThen", page |-> page, chat |-> m.value])
  /\ UNCHANGED <<chats, active, messages, inflight>>

\* The rest of selectChat.
GotHistory(call, m) ==
  /\ call.op = "load"
  /\ messages' = IF m.ok THEN [messages EXCEPT ![call.chat] = Rebuild(m.value)] ELSE messages
  /\ UNCHANGED <<chats, active, inflight, toMain>>

\* The rest of send.
GotSent(call, m) ==
  /\ call.op = "send"
  /\ inflight' = IF m.ok THEN [inflight EXCEPT ![call.chat] = call.req] ELSE inflight
  /\ messages' = IF m.ok THEN messages ELSE [messages EXCEPT ![call.chat] = call.was]
  /\ UNCHANGED <<chats, active, toMain>>

\* The rest of the store's delete.
GotDeleted(call, m) ==
  /\ call.op = "delete"
  /\ active' = IF active = call.chat THEN NoChat ELSE active
  /\ messages' = [messages EXCEPT ![call.chat] = Absent]
  /\ inflight' = [inflight EXCEPT ![call.chat] = NoReq]
  /\ UNCHANGED <<chats, toMain>>

GotNothing(call, m) ==
  /\ call.op \in {"cancel", "rename"}
  /\ UNCHANGED <<chats, active, messages, inflight, toMain>>

\* A reply to a page that is gone is nobody's.
OnReply(m) ==
  /\ m.type = "reply"
  /\ IF m.call.page # page
     THEN UNCHANGED <<chats, active, messages, inflight, toMain>>
     ELSE \/ GotList(m.call, m) \/ GotCreated(m.call, m) \/ GotHistory(m.call, m)
          \/ GotSent(m.call, m) \/ GotDeleted(m.call, m) \/ GotNothing(m.call, m)

Receive ==
  /\ toWindow # <<>>
  /\ toWindow' = Tail(toWindow)
  /\ LET m == Head(toWindow)
     IN  OnStream(m) \/ OnEnd(m) \/ OnListChanged(m) \/ OnReply(m)
  /\ UNCHANGED <<page, sent, ahead, mainVars>>

-----------------------------------------------------------------------------

UserActs ==
  \/ \E c \in Chats : selectChat(c) \/ send(c) \/ cancel(c) \/ delete(c) \/ rename(c)
  \/ createNewChat
  \/ Reload

Engine == (\E c \in Chats : WriteLine(c) \/ Data(c) \/ Exit(c)) \/ LateData

Next == UserActs \/ Handle \/ DeleteDone \/ Engine \/ Receive

Spec == Init /\ [][Next]_vars

-----------------------------------------------------------------------------

\* The shapes of the state: a chat shows what the store has for it, every
\* turn and every mark of a turn belongs to a message that was sent.
TypeOK ==
  /\ page \in 0 .. MaxExtras /\ sent \in 0 .. MaxSends
  /\ active \in Chats \cup {NoChat}
  /\ DOMAIN chats \subseteq used /\ DOMAIN store \subseteq used /\ used \subseteq Chats
  /\ inflight \in [Chats -> 0 .. sent]
  /\ \A c \in Chats : /\ turn[c].req \in 0 .. sent
                      /\ messages[c] # Absent => \A i \in DOMAIN messages[c] :
                           messages[c][i].role \in {"user", "assistant"}
  /\ session \subseteq used /\ whole \cup unread \cup ahead \subseteq used
  /\ \A l \in late : l.req \in 1 .. sent
  /\ \A call \in deleting : call.op = "delete"

\* Nothing about chat c is on its way to the window or to the main process.
Settled(c) ==
  /\ turn[c].req = NoReq /\ inflight[c] = NoReq
  /\ ~Waits("load", c) /\ ~Waits("send", c)

\* The chat on display is the chat that a later start of the app will show.
AsReplayed(c) ==
  Settled(c) /\ messages[c] # Absent =>
    SelectSeq(messages[c], LAMBDA m : ~IsError(m)) = Rebuild(Conversation(c))

(***************************************************************************)
(* What a chat shows, apart from notes of failures, is what its session    *)
(* says when it is replayed: no part of an answer is lost, doubled, out of *)
(* order or in another chat, however the output was cut into chunks, and   *)
(* a tool's result is shown at its call.  For chats whose messages the     *)
(* window has followed from the first one on, but for the two ways in      *)
(* which the code loses some: a turn that exits before the last of its     *)
(* output is read, and a message submitted before the history or the reply *)
(* to an earlier message has come.                                         *)
(***************************************************************************)
ShownIsReplayed ==
  \A c \in (whole \cap DOMAIN store) \ (unread \cup ahead) : AsReplayed(c)

(***************************************************************************)
(* The same with one of the two ways left in: refuted in ChatWindowLate.cfg *)
(* (the engine's last lines arrive after 'exit', when no chat has their    *)
(* request id) and in ChatWindowAhead.cfg (the history or a refusal sets   *)
(* the messages without what was shown since).                             *)
(***************************************************************************)
LastLinesAreShown ==
  \A c \in (whole \cap DOMAIN store) \ ahead : AsReplayed(c)

MessagesStayShown ==
  \A c \in (whole \cap DOMAIN store) \ unread : AsReplayed(c)

(***************************************************************************)
(* The input is blocked by a turn, and the stop button offered, exactly    *)
(* while that turn runs, or its start or end is on its way to the window.  *)
(* (A page that was reloaded knows nothing of the turns of the last one.)  *)
(***************************************************************************)
InflightIsTrue ==
  \A c \in Chats :
    /\ inflight[c] # NoReq =>
         \/ turn[c].req = inflight[c]
         \/ \E i \in DOMAIN toWindow : /\ toWindow[i].type = "end"
                                       /\ toWindow[i].req = inflight[c]
    /\ c \in DOMAIN store /\ turn[c].req # NoReq /\ turn[c].page = page =>
         \/ inflight[c] = turn[c].req
         \/ \E i \in DOMAIN toWindow : /\ toWindow[i].type = "reply"
                                       /\ toWindow[i].call.op = "send"
                                       /\ toWindow[i].call.req = turn[c].req

(***************************************************************************)
(* The list on display has the chats and the titles of the index, once no  *)
(* request or broadcast is under way.                                      *)
(***************************************************************************)
ListFollows ==
  toMain = <<>> /\ toWindow = <<>> =>
    /\ DOMAIN chats = DOMAIN store
    /\ \A c \in DOMAIN store : chats[c].title = store[c].title

=============================================================================
