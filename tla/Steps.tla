-------------------------------- MODULE Steps --------------------------------
(***************************************************************************)
(* Several steps of one job, each a run of gather_cxi_counters over all its  *)
(* nodes: a job script starts one after the other, or lets them overlap.     *)
(* All of them use one TCP port of each node (ZMQ_PORT), a message does not  *)
(* say which step it is of, and a sender only knows the name of the host     *)
(* before its own.  What Chain has of a single step, its faults at every     *)
(* place and what its rows hold, is left out here.                           *)
(*                                                                           *)
(* A task is a step and a host, and so is the row it contributes: the step   *)
(* in a row is a history variable, the code has no such thing.               *)
(***************************************************************************)
EXTENDS Integers, Sequences, FiniteSets, SequencesExt

CONSTANTS
  Count,      \* the steps are 1..Count, in the order of the script
  N,          \* the hosts are 0..N-1
  MaxFaults   \* bound: tasks that die and steps that are cancelled

ASSUME StepsAssumption ==
  /\ Count \in Nat \ {0}
  /\ N \in Nat /\ N > 1
  /\ MaxFaults \in Nat

Step == 1..Count
Host == 0..(N - 1)
Task == Step \X Host
Prev(h) == h - 1

VARIABLES
  overlap,    \* whether the script waits for a step before the next one
  pc,         \* task -> where it stands, as in Chain
  agg,        \* task -> the rows it holds
  pipe,       \* task -> messages in its PUSH socket
  inbox,      \* task -> messages in its bound PULL socket
  report,     \* step -> what its first task printed
  cancelled,  \* the steps whose tasks are being killed
  faults      \* how many faults struck

vars == <<overlap, pc, agg, pipe, inbox, report, cancelled, faults>>

Init ==
  /\ overlap \in BOOLEAN
  /\ pc = [t \in Task |-> "away"]
  /\ agg = [t \in Task |-> <<>>]
  /\ pipe = [t \in Task |-> <<>>]
  /\ inbox = [t \in Task |-> <<>>]
  /\ report = [s \in Step |-> <<>>]
  /\ cancelled = {}
  /\ faults = 0

Goto(t, from, to) ==
  /\ pc[t] = from
  /\ pc' = [pc EXCEPT ![t] = to]

Over(t) == pc[t] \in {"done", "failed"}
StepOver(s) == \A h \in Host : Over(<<s, h>>)

(* srun starts the tasks of a step, in no order and not at once.             *)
Start(t) ==
  /\ Goto(t, "away", "run")
  /\ overlap \/ \A s \in 1..(t[1] - 1) : StepOver(s)
  /\ UNCHANGED <<overlap, agg, pipe, inbox, report, cancelled, faults>>

(* Phase 1; the last host goes on with its row, the others wait for theirs.  *)
Measure(t) ==
  /\ Goto(t, "run", IF t[2] = N - 1 THEN "publish" ELSE "bind")
  /\ agg' = [agg EXCEPT ![t] = IF t[2] = N - 1 THEN <<t>> ELSE <<>>]
  /\ UNCHANGED <<overlap, pipe, inbox, report, cancelled, faults>>

(* The port is free when no task of the host has it bound; else bind()       *)
(* throws, and nobody catches.  PortFreeOnce lacks what libzmq sets on the    *)
(* socket, SO_REUSEADDR: a port that was used stays taken for a while.       *)
PortFreeOnce(h) == \A s \in Step : pc[<<s, h>>] \in {"away", "run", "bind"}
PortFree(h) == \A s \in Step : pc[<<s, h>>] # "recv"
Bind(t) ==
  /\ PortFree(t[2])
  /\ Goto(t, "bind", "recv")
  /\ UNCHANGED <<overlap, agg, pipe, inbox, report, cancelled, faults>>
BindClash(t) ==
  /\ ~PortFree(t[2])
  /\ Goto(t, "bind", "failed")
  /\ UNCHANGED <<overlap, agg, pipe, inbox, report, cancelled, faults>>

(* One message is received; what else has arrived goes with the socket.      *)
(* ReceiveAll drains the socket.                                             *)
ReceiveAll(t) ==
  /\ Goto(t, "recv", "publish")
  /\ inbox[t] # <<>>
  /\ agg' = [agg EXCEPT ![t] = Append(FlattenSeq(inbox[t]), t)]
  /\ inbox' = [inbox EXCEPT ![t] = <<>>]
  /\ UNCHANGED <<overlap, pipe, report, cancelled, faults>>
Receive(t) ==
  /\ Goto(t, "recv", "publish")
  /\ inbox[t] # <<>>
  /\ agg' = [agg EXCEPT ![t] = Append(Head(inbox[t]), t)]
  /\ inbox' = [inbox EXCEPT ![t] = <<>>]
  /\ UNCHANGED <<overlap, pipe, report, cancelled, faults>>

Publish(t) ==
  /\ t[2] = 0
  /\ Goto(t, "publish", "done")
  /\ report' = [report EXCEPT ![t[1]] = agg[t]]
  /\ UNCHANGED <<overlap, agg, pipe, inbox, cancelled, faults>>

Send(t) ==
  /\ t[2] # 0
  /\ Goto(t, "publish", "linger")
  /\ pipe' = [pipe EXCEPT ![t] = <<agg[t]>>]
  /\ UNCHANGED <<overlap, agg, inbox, report, cancelled, faults>>

(* The message goes to whichever task has the port of the host before.       *)
Transmit(t, s) ==
  /\ pipe[t] # <<>>
  /\ pc[<<s, Prev(t[2])>>] = "recv"
  /\ inbox' = [inbox EXCEPT ![<<s, Prev(t[2])>>] = Append(@, Head(pipe[t]))]
  /\ pipe' = [pipe EXCEPT ![t] = Tail(@)]
  /\ UNCHANGED <<overlap, pc, agg, report, cancelled, faults>>

(* CloseDetached leaves the message to a process of its own and exits.       *)
CloseDetached(t) ==
  /\ Goto(t, "linger", "done")
  /\ UNCHANGED <<overlap, agg, pipe, inbox, report, cancelled, faults>>
CloseContext(t) ==
  /\ Goto(t, "linger", "done")
  /\ pipe[t] = <<>>
  /\ UNCHANGED <<overlap, agg, pipe, inbox, report, cancelled, faults>>

(* A task dies, and its sockets with it; its step then never reports, and    *)
(* somebody may cancel it.  Cancelling kills the tasks one by one.           *)
Dies(t) ==
  /\ ~Over(t)
  /\ pc' = [pc EXCEPT ![t] = "failed"]
  /\ pipe' = [pipe EXCEPT ![t] = <<>>]
  /\ inbox' = [inbox EXCEPT ![t] = <<>>]
  /\ UNCHANGED <<overlap, agg, report, cancelled>>

Crash(t) ==
  /\ faults < MaxFaults
  /\ pc[t] # "away"
  /\ Dies(t)
  /\ faults' = faults + 1

Cancel(s) ==
  /\ faults < MaxFaults
  /\ s \notin cancelled
  /\ ~StepOver(s)
  /\ \E h \in Host : pc[<<s, h>>] # "away"
  /\ cancelled' = cancelled \cup {s}
  /\ faults' = faults + 1
  /\ UNCHANGED <<overlap, pc, agg, pipe, inbox, report>>

Killed(t) ==
  /\ t[1] \in cancelled
  /\ Dies(t)
  /\ UNCHANGED faults

----------------------------------------------------------------------------
Progress(t) ==
  \/ Start(t) \/ Measure(t) \/ Bind(t) \/ BindClash(t) \/ Receive(t)
  \/ Publish(t) \/ Send(t) \/ CloseContext(t) \/ Killed(t)
  \/ \E s \in Step : Transmit(t, s)

Next ==
  \/ \E t \in Task : Progress(t) \/ Crash(t)
  \/ \E s \in Step : Cancel(s)

Spec == Init /\ [][Next]_vars

(* Fairness: tasks that are there keep running, their commands end, and the  *)
(* I/O thread delivers.  Nothing is assumed of faults.                       *)
FairSpec == Spec /\ \A t \in Task : WF_vars(Progress(t))

----------------------------------------------------------------------------
(* Properties. *)

(* However steps overlap and die: a report has one row of each host, from    *)
(* the last to the first, and no row is in two reports.  A step may print    *)
(* the row of another step but never a part of the nodes or one twice        *)
(* (zmq_transfer.cpp:281-325).                                               *)
ReportsWhole ==
  \A s \in Step : report[s] # <<>> =>
    /\ Len(report[s]) = N
    /\ \A i \in 1..N : report[s][i][2] = N - i
    /\ \A q \in Step \ {s} : ToSet(report[q]) \cap ToSet(report[s]) = {}

(* If the script waits for each step, whatever became of it, no report has a *)
(* row of another step: nothing of a step survives its tasks, although the   *)
(* port is the same and a message does not say where it is from              *)
(* (zmq_transfer.cpp:284, 309-312).                                          *)
StepsApart ==
  ~overlap => \A s \in Step : \A row \in ToSet(report[s]) : row[1] = s

(* Without faults every step of a waiting script reports, in spite of the    *)
(* ports its predecessors used; of overlapping ones at least one does: they  *)
(* take each other's messages, but a host that any message reaches passes    *)
(* one on.                                                                   *)
StepsReport ==
  [](faults = 0) =>
    <>(\/ overlap /\ \E s \in Step : report[s] # <<>>
       \/ \A s \in Step : report[s] # <<>>)
=============================================================================
