----------------------------- MODULE MCSampler -----------------------------
(* Instances of Sampler for TLC. *)
EXTENDS Sampler

AllFaults == {"spawn", "fdopen", "orphan"}
=============================================================================
