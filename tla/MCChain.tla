------------------------------ MODULE MCChain ------------------------------
(* Instances of Chain for TLC: two readings that the report must keep apart. *)
EXTENDS ChainInvariant

CONSTANTS r1, r2
Readings == {r1, r2}
OneReading == {r1}

NoFaults == {}
AnyFault == AllFaults
OnlyCommand == {"command"}
=============================================================================
