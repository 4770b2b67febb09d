\* Two overlapping calls, one crash or outage, both healthy installations.
SPECIFICATION FairSpec
CONSTANTS
  Caller = {1, 2}
  Reconciler = reconciler
  Setups = {"helper", "sudo"}
  Overrides = {}
  HELPER_FAILURE_THRESHOLD = 2
  MaxCalls = 2
  MaxFaults = 1
  None = None
\* The user stops asking, and the tunnel may stay up or down for ever.
CHECK_DEADLOCK FALSE
INVARIANTS
  
  OsascriptBoxHasPidFile
PROPERTIES
  DeadTunnelIsNoticed
  StopCompletes
