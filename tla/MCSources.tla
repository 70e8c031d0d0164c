------------------------------ MODULE MCSources ------------------------------
(* Instances of Sources for TLC: more tasks than process ids, one of them a  *)
(* follower.                                                                 *)
EXTENDS Sources

CONSTANTS t1, t2, t3, p1, p2
Tasks == {t1, t2, t3}
Followers == {t3}
Pids == {p1, p2}
AllFaults == {"open", "map", "spawn", "exec", "kill"}
=============================================================================
