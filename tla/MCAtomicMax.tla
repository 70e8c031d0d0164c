----------------------------- MODULE MCAtomicMax -----------------------------
(* Instances of AtomicMax for TLC. *)
EXTENDS AtomicMax

CONSTANTS p1, p2, p3
Processes == {p1, p2, p3}
Durations == 1..3
=============================================================================
