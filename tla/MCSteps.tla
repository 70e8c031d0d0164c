------------------------------- MODULE MCSteps -------------------------------
(* An instance of Steps for TLC: all its constants are numbers.              *)
EXTENDS Steps
=============================================================================
