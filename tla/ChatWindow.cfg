\* A claude chat and a codex chat, two messages, one rename, deletion or reload.
SPECIFICATION Spec
CONSTANTS
  Chats = {c1, c2}
  CodexChats = {c2}
  MaxSends = 2
  MaxCalls = 1
  MaxExtras = 1
  MaxPipe = 2
  MaxQueue = 1
  MaxAhead = 2
  NoChat = NoChat
\* All chats are deleted, or the user is done.
CHECK_DEADLOCK FALSE
INVARIANTS
  ShownIsReplayed
  InflightIsTrue
  ListFollows
