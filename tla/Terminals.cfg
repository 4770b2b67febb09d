\* Three PTYs, two sizes of chunk; the history holds two recordings.
SPECIFICATION Spec
CONSTANTS
  MaxPtys = 3
  MIN_SESSION_SIZE = 2
  MAX_SESSION_SIZE = 2
  MAX_TOTAL_SIZE = 4
  ChunkSizes = {1, 2}
  TornWrites = FALSE
  Damaged = Damaged
CHECK_DEADLOCK FALSE
INVARIANTS
  TasksKeepAwake
  RecordingIsListed
PROPERTIES
  HistoryIsKept
