\* Set-up and Settings install at once, over an older version; one crash.
SPECIFICATION Spec
CONSTANTS
  Versions = {v1, v2}
  Latest = v2
  OldVersions = {v1}
  Tools = {1}
  Flows = {f1, f2}
  None = None
  Windows = TRUE
  MaxCrashes = 1
CHECK_DEADLOCK TRUE
INVARIANTS
  BinariesAreWhole
  CliIsUsable
PROPERTIES
  SetupEnds
