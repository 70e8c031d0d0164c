-------------------------------- MODULE Chain --------------------------------
(***************************************************************************)
(* The run of gather_cxi_counters over the nodes of a SLURM job: one        *)
(* participating task per node (SLURM_LOCALID = 0), its view of the node     *)
(* list, the two readings around its copy of the command, and the ZeroMQ     *)
(* chain that carries the rows of nodes N-1, N-2, ..., 1 down to node 0,     *)
(* which prints.                                                             *)
(*                                                                           *)
(* pc[n] is where main() and node_handler() of node n's task stand:          *)
(*   start      before the first scontrol query          (main.cpp:115)      *)
(*   initial    before the initial reading      (counter_aggregation.cpp:1996)*)
(*   command    the command runs, or will                        (... :2044) *)
(*   final      before the final reading                         (... :2089) *)
(*   bind       before the PULL socket is bound      (zmq_transfer.cpp:284)  *)
(*   recv       blocked in recv, socket bound                    (... :294)  *)
(*   publish    own row appended; print or send comes next                   *)
(*   linger     context.close() waits for the pipe to drain      (... :324)  *)
(*   done       the task returned 0                                          *)
(*   failed     the task exited with an error, aborted, or its node died     *)
(*                                                                           *)
(* A reading is a value of the small set Reading: what the chain carries is  *)
(* opaque to it.  The sockets are external: an unbounded, ordered,           *)
(* duplicate-free pipe that keeps a message until the peer's socket is bound *)
(* and then moves it there, which is what a connected PUSH/PULL pair gives.  *)
(***************************************************************************)
EXTENDS Integers, Sequences

CONSTANTS
  N,           \* nodes of the SLURM allocation, which is what scontrol lists
  K,           \* nodes of the srun step: tasks run on nodes 0..K-1
  Reading,     \* the values a reading of all counters can take
  NoReading,   \* no reading was taken yet
  FaultKinds,  \* which of the faults below may strike
  MaxFaults    \* bound: how many faults strike in one run

AllFaults == {"scontrol", "command", "bind", "lookup", "crash"}

ASSUME ChainAssumption ==
  /\ N \in Nat \ {0}
  /\ K \in 1..N
  /\ Reading # {}
  /\ NoReading \notin Reading
  /\ FaultKinds \subseteq AllFaults
  /\ MaxFaults \in Nat

Task == 0..(K - 1)

Row == [hostname : Task, procid : Task, initial : Reading, final : Reading]

PC == {"start", "initial", "command", "final", "bind", "recv", "publish",
       "linger", "done", "failed"}

VARIABLES
  pc,         \* task -> where it stands
  procid,     \* task -> its rank: SLURM_NODEID, or 0 once it is standalone
  nodeCount,  \* task -> the length of its node list; 0 before the query
  initial,    \* task -> its initial reading
  final,      \* task -> its final reading
  agg,        \* task -> the rows of its AggregatedStats, in push order
  pipe,       \* task -> messages in its PUSH socket, not yet transmitted
  inbox,      \* task -> messages in its bound PULL socket, not yet received
  report,     \* task -> the rows it printed
  faults      \* how many faults struck

vars == <<pc, procid, nodeCount, initial, final, agg, pipe, inbox, report, faults>>

Init ==
  /\ pc = [n \in Task |-> "start"]
  /\ procid = [n \in Task |-> n]
  /\ nodeCount = [n \in Task |-> 0]
  /\ initial = [n \in Task |-> NoReading]
  /\ final = [n \in Task |-> NoReading]
  /\ agg = [n \in Task |-> <<>>]
  /\ pipe = [n \in Task |-> <<>>]
  /\ inbox = [n \in Task |-> <<>>]
  /\ report = [n \in Task |-> <<>>]
  /\ faults = 0

----------------------------------------------------------------------------
(* Roles, as main() hands them to node_handler(). *)

IsFirst(n) == procid[n] = 0
IsLast(n) == procid[n] = nodeCount[n] - 1

(* get_previous_node.  PrevOffByOne is the same with nodes[procid]. *)
PrevOffByOne(n) == procid[n]
Prev(n) == procid[n] - 1

(* What node n pushes on its AggregatedStats.  OwnRowEarly takes the final   *)
(* reading before it was read, OwnRowStale takes the initial one for it.     *)
OwnRowEarly(n, reading) ==
  [hostname |-> n, procid |-> procid[n], initial |-> initial[n], final |-> NoReading]
OwnRowStale(n, reading) ==
  [hostname |-> n, procid |-> procid[n], initial |-> initial[n], final |-> initial[n]]
OwnRow(n, reading) ==
  [hostname |-> n, procid |-> procid[n], initial |-> initial[n], final |-> reading]

Goto(n, from, to) ==
  /\ pc[n] = from
  /\ pc' = [pc EXCEPT ![n] = to]

Fault(kind) ==
  /\ kind \in FaultKinds
  /\ faults < MaxFaults
  /\ faults' = faults + 1

----------------------------------------------------------------------------
(* main(): learn the node list.  An empty list makes the task standalone. *)

Enter(n) ==
  /\ Goto(n, "start", "initial")
  /\ nodeCount' = [nodeCount EXCEPT ![n] = N]
  /\ UNCHANGED <<procid, initial, final, agg, pipe, inbox, report, faults>>

EnterStandalone(n) ==
  /\ Goto(n, "start", "initial")
  /\ Fault("scontrol")
  /\ nodeCount' = [nodeCount EXCEPT ![n] = 1]
  /\ procid' = [procid EXCEPT ![n] = 0]
  /\ UNCHANGED <<initial, final, agg, pipe, inbox, report>>

(* node_handler(), phase 1. *)

ReadInitial(n) ==
  /\ Goto(n, "initial", "command")
  /\ \E r \in Reading : initial' = [initial EXCEPT ![n] = r]
  /\ UNCHANGED <<procid, nodeCount, final, agg, pipe, inbox, report, faults>>

(* A barrier at which a failed node never arrives; the code has none. *)
RunCommandBarrier(n) ==
  /\ Goto(n, "command", "final")
  /\ \A m \in Task : pc[m] \notin {"start", "initial", "failed"}
  /\ UNCHANGED <<procid, nodeCount, initial, final, agg, pipe, inbox, report, faults>>

RunCommand(n) ==
  /\ Goto(n, "command", "final")
  /\ UNCHANGED <<procid, nodeCount, initial, final, agg, pipe, inbox, report, faults>>

(* run_command() could not start the command: execution_time < 0, exit(1). *)
CommandFails(n) ==
  /\ Goto(n, "command", "failed")
  /\ Fault("command")
  /\ UNCHANGED <<procid, nodeCount, initial, final, agg, pipe, inbox, report>>

(* The final reading; the last node of the chain has nothing to wait for    *)
(* and pushes its row at once.                                              *)
ReadFinal(n) ==
  \E r \in Reading :
    /\ final' = [final EXCEPT ![n] = r]
    /\ \/ /\ IsLast(n)
          /\ Goto(n, "final", "publish")
          /\ agg' = [agg EXCEPT ![n] = <<OwnRow(n, r)>>]
       \/ /\ ~IsLast(n)
          /\ Goto(n, "final", "bind")
          /\ UNCHANGED agg
    /\ UNCHANGED <<procid, nodeCount, initial, pipe, inbox, report, faults>>

----------------------------------------------------------------------------
(* node_handler(), phase 2, with zmq_transfer. *)

Bind(n) ==
  /\ Goto(n, "bind", "recv")
  /\ UNCHANGED <<procid, nodeCount, initial, final, agg, pipe, inbox, report, faults>>

(* The port is taken: zmq::error_t is not caught, the task aborts. *)
BindFails(n) ==
  /\ Goto(n, "bind", "failed")
  /\ Fault("bind")
  /\ UNCHANGED <<procid, nodeCount, initial, final, agg, pipe, inbox, report>>

(* Own row pushed first, then overwritten by what was deserialized. *)
ReceiveOverwrites(n) ==
  /\ Goto(n, "recv", "publish")
  /\ inbox[n] # <<>>
  /\ agg' = [agg EXCEPT ![n] = Head(inbox[n])]
  /\ inbox' = [inbox EXCEPT ![n] = <<>>]
  /\ UNCHANGED <<procid, nodeCount, initial, final, pipe, report, faults>>

(* A receive that gives up when nothing has arrived. *)
ReceiveNoWait(n) ==
  /\ Goto(n, "recv", "publish")
  /\ agg' = [agg EXCEPT ![n] =
       Append(IF inbox[n] = <<>> THEN <<>> ELSE Head(inbox[n]), OwnRow(n, final[n]))]
  /\ inbox' = [inbox EXCEPT ![n] = <<>>]
  /\ UNCHANGED <<procid, nodeCount, initial, final, pipe, report, faults>>

(* Blocking recv of one message, deserialize, close, push the own row. *)
Receive(n) ==
  /\ Goto(n, "recv", "publish")
  /\ inbox[n] # <<>>
  /\ agg' = [agg EXCEPT ![n] = Append(Head(inbox[n]), OwnRow(n, final[n]))]
  /\ inbox' = [inbox EXCEPT ![n] = <<>>]
  /\ UNCHANGED <<procid, nodeCount, initial, final, pipe, report, faults>>

Publish(n) ==
  /\ IsFirst(n)
  /\ Goto(n, "publish", "done")
  /\ report' = [report EXCEPT ![n] = agg[n]]
  /\ UNCHANGED <<procid, nodeCount, initial, final, agg, pipe, inbox, faults>>

(* send_to_previous(): connect, queue the message, close the socket. *)
Send(n) ==
  /\ ~IsFirst(n)
  /\ Goto(n, "publish", "linger")
  /\ pipe' = [pipe EXCEPT ![n] = Append(@, agg[n])]
  /\ UNCHANGED <<procid, nodeCount, initial, final, agg, inbox, report, faults>>

(* The second scontrol query comes back empty: the endpoint has no host,    *)
(* connect throws, nobody catches.                                          *)
SendLookupFails(n) ==
  /\ ~IsFirst(n)
  /\ Goto(n, "publish", "failed")
  /\ Fault("lookup")
  /\ UNCHANGED <<procid, nodeCount, initial, final, agg, pipe, inbox, report>>

(* ZeroMQ's I/O thread: connects (again) until the previous node is bound,  *)
(* then hands the message over.                                             *)
TransmitTwice(n) ==
  /\ pipe[n] # <<>>
  /\ pc[Prev(n)] = "recv"
  /\ inbox' = [inbox EXCEPT ![Prev(n)] = Append(@, Head(pipe[n]))]
  /\ UNCHANGED <<pc, procid, nodeCount, initial, final, agg, pipe, report, faults>>

Transmit(n) ==
  /\ pipe[n] # <<>>
  /\ pc[Prev(n)] = "recv"
  /\ inbox' = [inbox EXCEPT ![Prev(n)] = Append(@, Head(pipe[n]))]
  /\ pipe' = [pipe EXCEPT ![n] = Tail(@)]
  /\ UNCHANGED <<pc, procid, nodeCount, initial, final, agg, report, faults>>

(* ZMQ_LINGER = 0: what is still in the pipe is dropped. *)
CloseContextNoLinger(n) ==
  /\ Goto(n, "linger", "done")
  /\ pipe' = [pipe EXCEPT ![n] = <<>>]
  /\ UNCHANGED <<procid, nodeCount, initial, final, agg, inbox, report, faults>>

(* context.close() with the default, infinite, linger. *)
CloseContext(n) ==
  /\ Goto(n, "linger", "done")
  /\ pipe[n] = <<>>
  /\ UNCHANGED <<procid, nodeCount, initial, final, agg, pipe, inbox, report, faults>>

(* The node or the task dies, and what its sockets held with it. *)
Crash(n) ==
  /\ pc[n] \notin {"done", "failed"}
  /\ pc' = [pc EXCEPT ![n] = "failed"]
  /\ Fault("crash")
  /\ pipe' = [pipe EXCEPT ![n] = <<>>]
  /\ inbox' = [inbox EXCEPT ![n] = <<>>]
  /\ UNCHANGED <<procid, nodeCount, initial, final, agg, report>>

----------------------------------------------------------------------------
Over(n) == pc[n] \in {"done", "failed"}

(* The run is over; the step keeps a finished run from being a deadlock. *)
Finished ==
  /\ \A n \in Task : Over(n)
  /\ UNCHANGED vars

Progress(n) ==
  \/ Enter(n) \/ ReadInitial(n) \/ RunCommand(n) \/ ReadFinal(n)
  \/ Bind(n) \/ Receive(n) \/ Publish(n) \/ Send(n) \/ Transmit(n) \/ CloseContext(n)

Disturb(n) ==
  \/ EnterStandalone(n) \/ CommandFails(n) \/ BindFails(n)
  \/ SendLookupFails(n) \/ Crash(n)

Next == Finished \/ \E n \in Task : Progress(n) \/ Disturb(n)

Spec == Init /\ [][Next]_vars

(* Fairness: each task and its I/O thread keep running, and each command    *)
(* ends.  Nothing is assumed of the faults.                                 *)
FairSpec ==
  Spec /\ \A n \in Task : WF_vars(Progress(n))

----------------------------------------------------------------------------
(* Invariants.                                                               *)

(* Every variable keeps to its type; in particular a row never holds a      *)
(* reading that was not taken.                                               *)
TypeOK ==
  /\ pc \in [Task -> PC]
  /\ procid \in [Task -> Task]
  /\ nodeCount \in [Task -> {0, 1, N}]
  /\ initial \in [Task -> Reading \cup {NoReading}]
  /\ final \in [Task -> Reading \cup {NoReading}]
  /\ agg \in [Task -> Seq(Row)]
  /\ pipe \in [Task -> Seq(Seq(Row))]
  /\ inbox \in [Task -> Seq(Seq(Row))]
  /\ report \in [Task -> Seq(Row)]
  /\ faults \in 0..MaxFaults

(* A task that knows the allocation is a member of the chain; one that got   *)
(* an empty node list stands alone.                                          *)
Member(n) == nodeCount[n] = N
Alone(n) == nodeCount[n] \notin {0, N}

TrueRow(m) ==
  [hostname |-> m, procid |-> m, initial |-> initial[m], final |-> final[m]]
AloneRow(m) ==
  [hostname |-> m, procid |-> 0, initial |-> initial[m], final |-> final[m]]

(* The rows of nodes N-1, N-2, ..., n: what node n has when it published.   *)
RowsFrom(n) == [i \in 1..(N - n) |-> TrueRow(N - i)]

(* What a member prints is, whatever was lost or whoever failed, one row for *)
(* each node of the allocation, from the last to the first, each with that   *)
(* node's own rank and own two readings: no partial and no mixed summary     *)
(* leaves the chain (counter_aggregation.cpp:2094-2108, zmq_transfer).       *)
ReportComplete ==
  \A n \in Task : Member(n) /\ report[n] # <<>> =>
    /\ n = 0
    /\ K = N
    /\ report[n] = RowsFrom(0)

(* A standalone task prints its own row and nothing else; and once the whole *)
(* run was reported nobody reports a part of it, or the other way round.     *)
OneReportOfTheRun ==
  \A m, n \in Task : report[m] # <<>> =>
    /\ Alone(m) => report[m] = <<AloneRow(m)>>
    /\ ~Alone(m) /\ report[n] # <<>> => n = m

(* The rows of the run are in one place: the task that last appended to      *)
(* them, its pipe, or the inbox of the task below.  Counting every message,  *)
(* two copies are never under way (a retransmission, a sender that keeps its *)
(* message, two members that both believe they are the last).                *)
Copies ==
  {<<n, "task", 1>> : n \in {m \in Task : Member(m) /\ pc[m] = "publish"}}
  \cup (UNION {{<<n, "pipe", i>> : i \in DOMAIN pipe[n]} : n \in Task})
  \cup (UNION {{<<n, "inbox", i>> : i \in DOMAIN inbox[n]} : n \in Task})
OneCopyUnderWay == \A c, d \in Copies : c = d

(* A task that exits normally has seen its rows leave: they wait in the      *)
(* previous node's socket, were received there, or that node failed.  This   *)
(* is what context.close() is relied on for at zmq_transfer.cpp:323-324.     *)
ExitOnlyWhenTaken ==
  \A n \in Task : pc[n] = "done" /\ ~IsFirst(n) =>
    \/ pc[n - 1] = "failed"
    \/ inbox[n - 1] = <<agg[n]>>
    \/ agg[n - 1] = Append(agg[n], TrueRow(n - 1))

----------------------------------------------------------------------------
(* Temporal properties. *)

(* If no fault strikes and the step spans the allocation, every task returns *)
(* and the first node has printed (node_handler's blocking recv and the      *)
(* infinite linger always get what they wait for).                           *)
EveryTaskReturns ==
  K = N /\ [](faults = 0) =>
    <>[](report[0] # <<>> /\ \A n \in Task : pc[n] = "done")

(* A failure strands only the nodes on its way to node 0, and the one        *)
(* sender just above it: with f the highest node that failed or fell out of  *)
(* the chain, every node above f + 1 returns.                                *)
FailureStrandsOnlyBelow ==
  \A n \in Task :
    <>[](Over(n) \/ \E f \in Task : n <= f + 1 /\ (pc[f] = "failed" \/ Alone(f)))

(* "Graceful handling of empty node lists and command execution failures",   *)
(* main.cpp:45: whatever command cannot be started, every task returns.      *)
CommandFailureIsGraceful == <>(\A n \in Task : Over(n))

(* "Multi-node aggregation is automatic. [...] Run with srun -N <count> and  *)
(* the tool instances on each node will [...] produce a single summary",     *)
(* README.md:191-194, for a step on fewer nodes than the allocation has.     *)
SummaryForEveryStep == <>(report[0] # <<>>)

----------------------------------------------------------------------------
(* The chain implements Gather.  A report, a sequence of rows, stands for    *)
(* the function from the hostnames in it to their readings.                  *)

Summary(rows) ==
  [h \in {rows[i].hostname : i \in DOMAIN rows} |->
     LET i == CHOOSE j \in DOMAIN rows : rows[j].hostname = h
     IN  <<rows[i].initial, rows[i].final>>]

G == INSTANCE Gather WITH
  Node <- Task,
  First <- 0,
  contribution <- [n \in Task |->
    IF final[n] = NoReading THEN <<>> ELSE <<initial[n], final[n]>>],
  alone <- {n \in Task : Alone(n)},
  report <- [n \in Task |-> Summary(report[n])]

(* Every step of the chain, faults included, is a step of Gather or none.    *)
ImplementsGather == G!Spec
=============================================================================
