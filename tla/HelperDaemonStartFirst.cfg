\* The shortest instance in which the comment is contradicted.
SPECIFICATION Spec
CONSTANTS
  Client = {c1, c2}
  App = {a1}
  StartPids = {a1}
  Pid = {p1, p2}
  Watchdog = Watchdog
  SignalHandler = SignalHandler
  None = None
INVARIANT
  StartStopsPreviousFirst
