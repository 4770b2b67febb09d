--------------------------- MODULE MCHelperDaemon ---------------------------
(* Bounds and symmetry for checking HelperDaemon. *)
EXTENDS HelperDaemon, TLC

\* Connections, app processes and pids are interchangeable.
Symmetry == Permutations(Client) \cup Permutations(App) \cup Permutations(Pid)
=============================================================================
