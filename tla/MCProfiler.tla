----------------------------- MODULE MCProfiler -----------------------------
(* Instances of Profiler for TLC. *)
EXTENDS Profiler, TLC

CONSTANTS c1, c2, near, far
TwoCtx == {c1, c2}
BothLanes == {near, far}
FarOnly == {far}
CtxSymmetry == Permutations(TwoCtx)
OneDuration == {1}
=============================================================================
