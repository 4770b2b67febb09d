\* Liveness with one connection against the watchdog and the signal handler.
SPECIFICATION FairSpec
CONSTANTS
  Client = {c1}
  App = {a1}
  StartPids = {a1}
  Pid = {p1, p2}
  Watchdog = Watchdog
  SignalHandler = SignalHandler
  None = None
PROPERTIES
  AppDeathStopsSingbox
  DeadChildIsForgotten
  EveryRequestReturns
