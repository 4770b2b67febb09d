\* Two connections, the app, two children: every pair of starts, stops,
\* watchdog stops, crashes and helper exits.
SPECIFICATION Spec
CONSTANTS
  Client = {c1, c2}
  App = {a1}
  StartPids = {a1}
  Pid = {p1, p2}
  Watchdog = Watchdog
  SignalHandler = SignalHandler
  None = None
SYMMETRY Symmetry
INVARIANTS
  TypeOK
  NoLeakedChild
  ExitEventsAreHonest
  RecordsAgree
PROPERTIES
  ImplementsLifecycle
