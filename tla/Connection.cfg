\* Two watches, one gate.
SPECIFICATION FairSpec
CONSTANTS
  MaxWatches = 2
  MaxGates = 1
  MaxTests = 1
  MaxAlerts = 1
\* The gate has failed and nobody retries.
CHECK_DEADLOCK FALSE
INVARIANTS
  OneReconnect
  ChecksGoOn
PROPERTIES
  DownIsSeen
  HijackIsSeen
