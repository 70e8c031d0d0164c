------------------------------- MODULE Gather -------------------------------
(***************************************************************************)
(* What gather_cxi_counters promises of a run over a set of nodes, with no  *)
(* word about how: every node contributes one pair of readings (before and  *)
(* after its copy of the command), and the first node publishes, once, the  *)
(* readings of all the nodes.  A node that was left to itself (it could not *)
(* learn the node list) publishes its own readings instead, and then no     *)
(* report of the whole run is ever published.                               *)
(* Chain.tla is shown to implement this module.                             *)
(***************************************************************************)
CONSTANTS
  Node,     \* the nodes of the run
  First,    \* the node that publishes
  Reading   \* what a reading of the counters can return

VARIABLES
  contribution,  \* node -> <<>> or <<initial, final>>
  alone,         \* the nodes left to themselves
  report         \* node -> what it published: a function from nodes to readings

vars == <<contribution, alone, report>>

Init ==
  /\ contribution = [n \in Node |-> <<>>]
  /\ alone = {}
  /\ report = [n \in Node |-> <<>>]

Measure(n) ==
  /\ contribution[n] = <<>>
  /\ \E initial, final \in Reading :
       contribution' = [contribution EXCEPT ![n] = <<initial, final>>]
  /\ UNCHANGED <<alone, report>>

GoAlone(n) ==
  /\ contribution[n] = <<>>
  /\ alone' = alone \cup {n}
  /\ UNCHANGED <<contribution, report>>

PublishAll ==
  /\ alone = {}
  /\ \A n \in Node : contribution[n] # <<>>
  /\ report[First] = <<>>
  /\ report' = [report EXCEPT ![First] = contribution]
  /\ UNCHANGED <<contribution, alone>>

PublishOwn(n) ==
  /\ n \in alone
  /\ contribution[n] # <<>>
  /\ report[n] = <<>>
  /\ report' = [report EXCEPT ![n] = [m \in {n} |-> contribution[n]]]
  /\ UNCHANGED <<contribution, alone>>

Next ==
  \/ PublishAll
  \/ \E n \in Node : Measure(n) \/ GoAlone(n) \/ PublishOwn(n)

Spec == Init /\ [][Next]_vars
=============================================================================
