--------------------------- MODULE ChildLifecycle ---------------------------
(***************************************************************************)
(* What the helper promises about each sing-box child, seen on its own:    *)
(* the child is started, tracked, and then leaves in exactly one way.      *)
(* It is announced as exited at most once, never after it was replaced,    *)
(* and it never comes back.  Nothing here says how the helper's tasks      *)
(* interleave; HelperDaemon implements this specification.                 *)
(***************************************************************************)
CONSTANTS Pid

VARIABLES
  stage,    \* where each child is in its life
  live      \* children that nobody has killed and that have not exited

vars == <<stage, live>>

Stage == {"unborn", "starting", "tracked", "stopping",  \* owned
          "exited",                                     \* and so announced
          "replaced",                                   \* no announcement
          "lost"}                                       \* the helper is gone

Init ==
  /\ stage = [p \in Pid |-> "unborn"]
  /\ live = {}

Spawn(p) ==
  /\ stage[p] = "unborn"
  /\ stage' = [stage EXCEPT ![p] = "starting"]
  /\ live' = live \cup {p}

\* The child becomes the tracked one, and a tracked one makes way: it is
\* killed, not announced.
Track(p) ==
  /\ stage[p] = "starting"
  /\ stage' = [q \in Pid |-> CASE q = p                  -> "tracked"
                               [] q # p /\ stage[q] = "tracked" -> "replaced"
                               [] OTHER                  -> stage[q]]
  /\ live' = {q \in live : q # p => stage[q] # "tracked"}

Take(p) ==
  /\ stage[p] = "tracked"
  /\ stage' = [stage EXCEPT ![p] = "stopping"]
  /\ UNCHANGED live

\* Announced while tracked, by its monitor, or by the task that stopped it.
Announce(p) ==
  /\ stage[p] \in {"tracked", "stopping"}
  /\ p \notin live
  /\ stage' = [stage EXCEPT ![p] = "exited"]
  /\ UNCHANGED live

\* It exits by itself, or is killed by the task that stops it.
Dies(p) ==
  /\ p \in live
  /\ live' = live \ {p}
  /\ UNCHANGED stage

\* The helper is gone: every child it ever had is on its own.
HelperGone ==
  /\ stage' = [p \in Pid |-> IF stage[p] = "unborn" THEN "unborn" ELSE "lost"]
  /\ UNCHANGED live

Next ==
  \/ \E p \in Pid : Spawn(p)
  \/ \E p \in Pid : Track(p)
  \/ \E p \in Pid : Take(p)
  \/ \E p \in Pid : Announce(p)
  \/ \E p \in Pid : Dies(p)
  \/ HelperGone

Spec == Init /\ [][Next]_vars
=============================================================================
