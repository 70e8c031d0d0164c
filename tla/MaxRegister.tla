----------------------------- MODULE MaxRegister -----------------------------
(***************************************************************************)
(* A register that keeps the maximum of the values given to it: each call    *)
(* takes effect in one step, some time between its start and its return.     *)
(* AtomicMax is shown to implement this module.                              *)
(***************************************************************************)
EXTENDS Naturals

CONSTANTS
  Process,  \* the callers
  Value,    \* what they may give
  None      \* no call under way

VARIABLES
  register,  \* the maximum so far
  request    \* process -> the value of its call, or None

vars == <<register, request>>

Init == register = 0 /\ request = [p \in Process |-> None]

Call(p) ==
  /\ request[p] = None
  /\ \E v \in Value : request' = [request EXCEPT ![p] = v]
  /\ UNCHANGED register

Raise(p) ==
  /\ request[p] # None
  /\ register' = IF request[p] > register THEN request[p] ELSE register
  /\ request' = [request EXCEPT ![p] = None]

Next == \E p \in Process : Call(p) \/ Raise(p)

Spec == Init /\ [][Next]_vars
=============================================================================
