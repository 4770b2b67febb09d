\* One fault of the helper, one event buffered, two subscriptions.
SPECIFICATION FairSpec
CONSTANTS
  Retries = 2
  HELPER_FAILURE_THRESHOLD = 2
  EVENT_CHANNEL_CAPACITY = 1
  Stalls = FALSE
  MaxSockets = 2
  MaxFaults = 1
\* The app may have exited with nothing left to happen.
CHECK_DEADLOCK FALSE
INVARIANTS OneChannel ViewIsTrue ReadyIsNew
PROPERTY QuitEnds
