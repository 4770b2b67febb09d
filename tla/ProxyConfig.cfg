\* Two requests overlap, two tunnels are started.
SPECIFICATION ProxySpec
CONSTANTS
  Calls = {c1, c2}
  c1 = c1
  c2 = c2
  Nobody = Nobody
  MaxStarts = 2
SYMMETRY Symmetry
\* The requests are bounded.
CHECK_DEADLOCK FALSE
INVARIANTS NoDowngrade ChainIsWanted NamesResolve
