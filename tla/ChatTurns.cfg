\* Two chats over the limit of one, two turns.
SPECIFICATION FairSpec
CONSTANTS
  Chat = {c1, c2}
  MaxTurns = 2
  MAX_CONCURRENT = 1
  None = None
\* All chats are deleted, or nobody sends any more.
CHECK_DEADLOCK FALSE
INVARIANTS
  LiveChildHasSlot
  MessageCountIsExact
  RetryResumes
PROPERTIES
  DeleteIsFinal
  WipesAfterExit
  StartedTurnsEnd
