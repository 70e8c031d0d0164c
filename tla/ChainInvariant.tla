--------------------------- MODULE ChainInvariant ---------------------------
(***************************************************************************)
(* The inductive invariant behind ReportComplete, OneReportOfTheRun and      *)
(* ExitOnlyWhenTaken, in named parts.  It says how far a task's data can     *)
(* have come for each place its program counter can be, and ties each        *)
(* message under way to the aggregate it was made from.                      *)
(***************************************************************************)
EXTENDS Chain

(* The rank is the node's own while it is (or may become) a member, and 0    *)
(* once it is alone.                                                         *)
ViewInv ==
  \A n \in Task :
    /\ pc[n] = "start" => nodeCount[n] = 0
    /\ pc[n] \notin {"start", "failed"} => nodeCount[n] # 0
    /\ procid[n] = IF Alone(n) THEN 0 ELSE n

(* Readings are taken once, in order, and are there before a row is built.   *)
MeasureInv ==
  \A n \in Task :
    /\ pc[n] \in {"command", "final"} => initial[n] # NoReading
    /\ pc[n] \in {"start", "initial", "command", "final"} => final[n] = NoReading
    /\ pc[n] \in {"bind", "recv", "publish", "linger", "done"} => final[n] # NoReading
    /\ final[n] # NoReading => initial[n] # NoReading /\ nodeCount[n] # 0

(* Only members that are not the last one wait for a message.                *)
WaitInv ==
  \A n \in Task : pc[n] \in {"bind", "recv"} => Member(n) /\ n # N - 1

(* All nodes from n up are members that took both readings. *)
Covered(n) ==
  /\ K = N
  /\ \A m \in n..(N - 1) :
       Member(m) /\ initial[m] # NoReading /\ final[m] # NoReading

(* A non-empty aggregate is complete from its node up. *)
AggInv ==
  \A n \in Task :
    /\ pc[n] \in {"publish", "linger", "done"} => agg[n] # <<>>
    /\ agg[n] # <<>> =>
         /\ pc[n] \in {"publish", "linger", "done", "failed"}
         /\ final[n] # NoReading
         /\ Member(n) => Covered(n) /\ agg[n] = RowsFrom(n)
         /\ Alone(n) => agg[n] = <<AloneRow(n)>>

(* A message is in the sender's pipe or, later, in the receiver's socket,    *)
(* and is the sender's aggregate.                                            *)
PipeInv ==
  \A n \in Task :
    /\ pc[n] = "linger" => Member(n) /\ n # 0
    /\ pipe[n] # <<>> => pc[n] = "linger" /\ pipe[n] = <<agg[n]>>

InboxInv ==
  \A n \in Task : inbox[n] # <<>> =>
    /\ pc[n] = "recv"
    /\ n + 1 \in Task
    /\ Member(n + 1)
    /\ pc[n + 1] \in {"linger", "done", "failed"}
    /\ pipe[n + 1] = <<>>
    /\ agg[n + 1] # <<>>
    /\ inbox[n] = <<agg[n + 1]>>

(* A member that appended to a neighbour's rows has emptied that neighbour's *)
(* pipe.                                                                     *)
TakenInv ==
  \A n \in Task : Member(n) /\ n + 1 \in Task /\ agg[n] # <<>> =>
    /\ pc[n + 1] \in {"linger", "done", "failed"}
    /\ pipe[n + 1] = <<>>
    /\ agg[n + 1] # <<>>

(* What was printed is the aggregate of a task that believes it is first.    *)
ReportInv ==
  \A n \in Task : report[n] # <<>> =>
    /\ pc[n] = "done"
    /\ procid[n] = 0
    /\ report[n] = agg[n]

(* A sender that emptied its pipe without failing left its rows with the     *)
(* node below, unless that one failed.                                       *)
LeftInv ==
  \A n \in Task :
    /\ pc[n] = "done" /\ procid[n] # 0 => pipe[n] = <<>> /\ Member(n)
    /\ pc[n] \in {"linger", "done"} /\ procid[n] # 0 /\ pipe[n] = <<>> =>
         \/ pc[n - 1] = "failed"
         \/ inbox[n - 1] # <<>>
         \/ Member(n - 1) /\ agg[n - 1] # <<>>

IInv ==
  /\ TypeOK
  /\ ViewInv
  /\ MeasureInv
  /\ WaitInv
  /\ AggInv
  /\ PipeInv
  /\ InboxInv
  /\ TakenInv
  /\ ReportInv
  /\ LeftInv

(* All that TakenInv says of the next task above holds of every task above:  *)
(* behind a member that has its rows nobody has or sends any.                *)
Settled(m) ==
  pc[m] \in {"linger", "done", "failed"} /\ pipe[m] = <<>> /\ agg[m] # <<>>
AboveInv ==
  \A n, m \in Task : Member(n) /\ agg[n] # <<>> /\ n < m => Settled(m)
=============================================================================
