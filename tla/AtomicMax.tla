------------------------------ MODULE AtomicMax ------------------------------
(***************************************************************************)
(* atomic_max_u64() of the shared-memory counters: a load and a loop of      *)
(* compare-exchanges, run by several rank processes on one counter.          *)
(***************************************************************************)
EXTENDS Naturals

CONSTANTS
  Process,  \* the rank processes
  Value,    \* the step durations they report
  None      \* no call under way, to the abstract register

ASSUME AtomicMaxAssumption == Value \subseteq Nat /\ None \notin Nat

VARIABLES
  a,    \* the shared counter
  pc,   \* process -> "idle", "load" or "loop"
  val,  \* process -> the value of its call
  cur   \* process -> what it last saw in the counter

loopVars == <<a, pc, val, cur>>

LoopInit ==
  /\ a = 0
  /\ pc = [p \in Process |-> "idle"]
  /\ val = [p \in Process |-> 0]
  /\ cur = [p \in Process |-> 0]

Begin(p) ==
  /\ pc[p] = "idle"
  /\ \E v \in Value : val' = [val EXCEPT ![p] = v]
  /\ pc' = [pc EXCEPT ![p] = "load"]
  /\ UNCHANGED <<a, cur>>

Load(p) ==
  /\ pc[p] = "load"
  /\ cur' = [cur EXCEPT ![p] = a]
  /\ pc' = [pc EXCEPT ![p] = "loop"]
  /\ UNCHANGED <<a, val>>

(* The loop ends: the counter was not below the value. *)
NotAbove(p) ==
  /\ pc[p] = "loop" /\ val[p] <= cur[p]
  /\ pc' = [pc EXCEPT ![p] = "idle"]
  /\ UNCHANGED <<a, val, cur>>

(* A store without the comparison. *)
BlindStore(p) ==
  /\ pc[p] = "loop" /\ val[p] > cur[p]
  /\ a' = val[p]
  /\ pc' = [pc EXCEPT ![p] = "idle"]
  /\ UNCHANGED <<val, cur>>
Exchange(p) ==
  /\ pc[p] = "loop" /\ val[p] > cur[p]
  /\ a = cur[p]
  /\ a' = val[p]
  /\ pc' = [pc EXCEPT ![p] = "idle"]
  /\ UNCHANGED <<val, cur>>

(* A failed exchange reloads the counter; RetryStale does not.  A spurious   *)
(* failure of the weak exchange changes nothing: it is a stuttering step.    *)
RetryStale(p) ==
  /\ pc[p] = "loop" /\ val[p] > cur[p]
  /\ a # cur[p]
  /\ UNCHANGED loopVars
ExchangeFails(p) ==
  /\ pc[p] = "loop" /\ val[p] > cur[p]
  /\ a # cur[p]
  /\ cur' = [cur EXCEPT ![p] = a]
  /\ UNCHANGED <<a, pc, val>>

Step(p) == Load(p) \/ NotAbove(p) \/ Exchange(p) \/ ExchangeFails(p)

LoopNext == \E p \in Process : Begin(p) \/ Step(p)

LoopSpec == LoopInit /\ [][LoopNext]_loopVars

(* A process that entered the function keeps running, and its exchanges do   *)
(* not fail spuriously for ever.                                             *)
FairSpec == LoopSpec /\ \A p \in Process : WF_loopVars(Step(p))

----------------------------------------------------------------------------
LoopTypes ==
  /\ a \in Nat
  /\ pc \in [Process -> {"idle", "load", "loop"}]
  /\ val \in [Process -> Nat]
  /\ cur \in [Process -> Nat]

(* What a process saw is not above the counter. *)
SeenBelow == \A p \in Process : pc[p] = "loop" => cur[p] <= a

MR == INSTANCE MaxRegister WITH
  register <- a,
  request <- [p \in Process |-> IF pc[p] = "idle" THEN None ELSE val[p]]

(* Every call acts as one atomic maximum (nccl_counters.h:68-74): no value   *)
(* is lost to another process and the counter never falls.                   *)
ImplementsMaxRegister == MR!Spec

(* Every call returns, whatever the other processes report: an exchange only *)
(* fails because the counter rose, and it cannot rise for ever.              *)
CallsReturn == \A p \in Process : pc[p] # "idle" ~> pc[p] = "idle"
=============================================================================
