------------------------------- MODULE Sampler -------------------------------
(***************************************************************************)
(* One participating task while its command runs: the main thread of         *)
(* node_handler() with run_command(), the sampling thread of detailed mode,  *)
(* and the command with the pipe that carries its standard output.           *)
(*                                                                           *)
(* counter is the NIC's own count, which anybody's traffic may move at any   *)
(* time.  A line of output is a unit: the pipe holds at most PipeCapacity of *)
(* them and a writer blocks when it is full.  A process the command left     *)
(* behind (orphan) keeps the write end of the pipe open.                     *)
(***************************************************************************)
EXTENDS Integers, Sequences

CONSTANTS
  MaxLines,      \* bound: lines the command and its orphan write
  PipeCapacity,  \* lines the pipe holds
  MaxCount,      \* bound: the NIC counter
  MaxSamples,    \* bound: the sampling thread starts a round below it
  FaultKinds     \* what may go wrong: "spawn", "fdopen", "orphan"

ASSUME SamplerAssumption ==
  /\ MaxLines \in Nat /\ PipeCapacity \in Nat \ {0}
  /\ MaxCount \in Nat /\ MaxSamples \in Nat
  /\ FaultKinds \subseteq {"spawn", "fdopen", "orphan"}

Unread == -1
Moments == {"initial", "started", "ended", "final"}

VARIABLES
  main,      \* where the main thread stands
  sampler,   \* where the sampling thread stands
  detailed,  \* GATHER_CXI_DETAILED=1
  running,   \* the atomic flag the two threads share
  samples,   \* node_ts.samples: the counter value of each sample
  sampled,   \* the sample the sampling thread is building
  counter,   \* the NIC's count
  reading,   \* the count at the initial and the final reading and (history)
             \* when the command started and ended
  child,     \* the command: none, running, silent (stdout closed), exited
  orphan,    \* a process left behind holds the pipe's write end
  toWrite,   \* lines still to be written
  pipe,      \* lines in the pipe
  readEnd,   \* the pipe's read end is open
  stream     \* fdopen gave a stream to read it with

threads == <<main, sampler, running>>
series == <<samples, sampled>>
command == <<child, orphan, toWrite>>
io == <<pipe, readEnd, stream>>
vars == <<threads, series, command, io, detailed, counter, reading>>

MainPC == {"initial", "firstSample", "spawn", "fork", "fdopen", "read", "wait", "stop",
           "join", "lastSample", "final", "over", "exit", "dying", "gone"}
SamplerPC == {"none", "check", "read", "push", "sleep", "returned"}

Init ==
  /\ main = "initial" /\ sampler = "none" /\ running = FALSE
  /\ detailed \in BOOLEAN
  /\ samples = <<>> /\ sampled = Unread
  /\ counter = 0
  /\ reading = [m \in Moments |-> Unread]
  /\ child = "none" /\ orphan = FALSE
  /\ toWrite \in 0..MaxLines
  /\ pipe = 0 /\ readEnd = FALSE /\ stream = FALSE

(* A step of one thread that leaves the other, and the flag, alone. *)
Goto(from, to) == main = from /\ main' = to /\ UNCHANGED <<sampler, running>>
SGoto(from, to) == sampler = from /\ sampler' = to /\ UNCHANGED <<main, running>>

Record(moment) == reading' = [reading EXCEPT ![moment] = counter]

(* Somebody has the write end of the pipe open. *)
Writers == child = "running" \/ orphan

----------------------------------------------------------------------------
(* The main thread. *)

(* The detailed steps of node_handler are skipped in total-only mode. *)
ReadInitial ==
  /\ Goto("initial", IF detailed THEN "firstSample" ELSE "fork")
  /\ Record("initial")
  /\ UNCHANGED <<series, command, io, detailed, counter>>

FirstSample ==
  /\ Goto("firstSample", "spawn")
  /\ samples' = Append(samples, counter)
  /\ UNCHANGED <<sampled, command, io, detailed, counter, reading>>

StartSampler ==
  /\ main = "spawn" /\ main' = "fork"
  /\ running' = TRUE
  /\ sampler' = "check"
  /\ UNCHANGED <<series, command, io, detailed, counter, reading>>

Fork ==
  /\ Goto("fork", "fdopen")
  /\ child' = "running"
  /\ readEnd' = TRUE
  /\ Record("started")
  /\ UNCHANGED <<series, orphan, toWrite, pipe, stream, detailed, counter>>

(* No command given, or pipe() or fork() failed: node_handler exits. *)
SpawnFails ==
  /\ "spawn" \in FaultKinds
  /\ Goto("fork", "exit")
  /\ UNCHANGED <<series, command, io, detailed, counter, reading>>

(* A wait for the command before its output is read. *)
FdopenThenWait ==
  /\ Goto("fdopen", "wait")
  /\ stream' = TRUE
  /\ UNCHANGED <<series, command, pipe, readEnd, detailed, counter, reading>>
Fdopen ==
  /\ Goto("fdopen", "read")
  /\ stream' = TRUE
  /\ UNCHANGED <<series, command, pipe, readEnd, detailed, counter, reading>>

FdopenFails ==
  /\ "fdopen" \in FaultKinds
  /\ Goto("fdopen", "wait")
  /\ readEnd' = FALSE
  /\ UNCHANGED <<series, command, pipe, stream, detailed, counter, reading>>

ReadLine ==
  /\ main = "read" /\ pipe > 0
  /\ pipe' = pipe - 1
  /\ UNCHANGED <<threads, series, command, readEnd, stream, detailed, counter, reading>>

(* A loop that ends with the command instead of with its output. *)
ReadUntilExit ==
  /\ Goto("read", "wait")
  /\ child = "exited"
  /\ readEnd' = FALSE
  /\ UNCHANGED <<series, command, pipe, stream, detailed, counter, reading>>
ReadEof ==
  /\ Goto("read", "wait")
  /\ pipe = 0 /\ ~Writers
  /\ readEnd' = FALSE
  /\ UNCHANGED <<series, command, pipe, stream, detailed, counter, reading>>

Wait ==
  /\ Goto("wait", IF running THEN "stop" ELSE "final")
  /\ child = "exited"
  /\ UNCHANGED <<series, command, io, detailed, counter, reading>>

Stop ==
  /\ main = "stop" /\ main' = "join"
  /\ running' = FALSE
  /\ UNCHANGED <<sampler, series, command, io, detailed, counter, reading>>

(* A thread that is told to stop and not waited for. *)
Detach ==
  /\ Goto("join", "lastSample")
  /\ UNCHANGED <<series, command, io, detailed, counter, reading>>
Join ==
  /\ Goto("join", "lastSample")
  /\ sampler = "returned"
  /\ UNCHANGED <<series, command, io, detailed, counter, reading>>

(* The sampling thread's last sample pushed again for the final one. *)
LastSampleStale ==
  /\ Goto("lastSample", "final")
  /\ samples' = Append(samples, sampled)
  /\ UNCHANGED <<sampled, command, io, detailed, counter, reading>>
LastSample ==
  /\ Goto("lastSample", "final")
  /\ samples' = Append(samples, counter)
  /\ UNCHANGED <<sampled, command, io, detailed, counter, reading>>

ReadFinal ==
  /\ Goto("final", "over")
  /\ Record("final")
  /\ UNCHANGED <<series, command, io, detailed, counter>>

(* exit(1) runs the destructors of the statics (the MetricRegistry with its  *)
(* sources, counter_names, the cached descriptors) on this thread, then ends *)
(* the process; the sampling thread lives until then, and may well be using  *)
(* them.                                                                     *)
DestroyStatics ==
  /\ Goto("exit", "dying")
  /\ UNCHANGED <<series, command, io, detailed, counter, reading>>

ProcessGone ==
  /\ main = "dying" /\ main' = "gone"
  /\ sampler' = "none"
  /\ UNCHANGED <<running, series, command, io, detailed, counter, reading>>

----------------------------------------------------------------------------
(* sampling_thread(). *)

SamplerRound ==
  /\ SGoto("check", "read")
  /\ running
  /\ Len(samples) < MaxSamples
  /\ UNCHANGED <<series, command, io, detailed, counter, reading>>

SamplerReturns ==
  /\ SGoto("check", "returned")
  /\ ~running
  /\ UNCHANGED <<series, command, io, detailed, counter, reading>>

SamplerRead ==
  /\ SGoto("read", "push")
  /\ sampled' = counter
  /\ UNCHANGED <<samples, command, io, detailed, counter, reading>>

SamplerPush ==
  /\ SGoto("push", "sleep")
  /\ samples' = Append(samples, sampled)
  /\ UNCHANGED <<sampled, command, io, detailed, counter, reading>>

SamplerWakes ==
  /\ SGoto("sleep", "check")
  /\ UNCHANGED <<series, command, io, detailed, counter, reading>>

----------------------------------------------------------------------------
(* The command, what it leaves behind, and the NIC. *)

WriteLine ==
  /\ Writers /\ toWrite > 0
  /\ readEnd /\ pipe < PipeCapacity
  /\ pipe' = pipe + 1
  /\ toWrite' = toWrite - 1
  /\ UNCHANGED <<threads, series, child, orphan, readEnd, stream, detailed, counter, reading>>

ClosesStdout ==
  /\ child = "running" /\ toWrite = 0
  /\ child' = "silent"
  /\ UNCHANGED <<threads, series, orphan, toWrite, io, detailed, counter, reading>>

ChildExits ==
  /\ child \in {"running", "silent"}
  /\ toWrite = 0 \/ ~readEnd          \* at its end, or of SIGPIPE
  /\ child' = "exited" /\ toWrite' = 0
  /\ Record("ended")
  /\ UNCHANGED <<threads, series, orphan, io, detailed, counter>>

LeavesProcess ==
  /\ "orphan" \in FaultKinds
  /\ child = "running" /\ child' = "exited"
  /\ orphan' = TRUE
  /\ Record("ended")
  /\ UNCHANGED <<threads, series, toWrite, io, detailed, counter>>

OrphanExits ==
  /\ orphan /\ (toWrite = 0 \/ ~readEnd)
  /\ orphan' = FALSE
  /\ UNCHANGED <<threads, series, child, toWrite, io, detailed, counter, reading>>

Traffic ==
  /\ counter < MaxCount
  /\ counter' = counter + 1
  /\ UNCHANGED <<threads, series, command, io, detailed, reading>>

----------------------------------------------------------------------------
MainStep ==
  \/ ReadInitial \/ FirstSample \/ StartSampler \/ Fork \/ Fdopen \/ ReadLine \/ ReadEof
  \/ Wait \/ Stop \/ Join \/ LastSample \/ ReadFinal \/ DestroyStatics \/ ProcessGone

SamplerStep ==
  SamplerRound \/ SamplerReturns \/ SamplerRead \/ SamplerPush \/ SamplerWakes

ChildStep == WriteLine \/ ChildExits \/ OrphanExits

Finished == main \in {"over", "gone"} /\ UNCHANGED vars

Next ==
  \/ MainStep \/ SpawnFails \/ FdopenFails \/ SamplerStep \/ ChildStep \/ ClosesStdout
  \/ LeavesProcess \/ Traffic \/ Finished

Spec == Init /\ [][Next]_vars

(* Both threads are scheduled, and the command, with what it leaves behind,  *)
(* writes and ends.  Nothing is assumed of the traffic or of the faults.     *)
FairSpec ==
  Spec /\ WF_vars(MainStep) /\ WF_vars(SamplerStep) /\ WF_vars(ChildStep)

----------------------------------------------------------------------------
(* Properties. *)

(* Types, with the bounds that hold of every run: a sample is a count that   *)
(* was read, and the series is at most the main thread's two samples longer  *)
(* than the sampling thread's bound.                                         *)
TypeOK ==
  /\ main \in MainPC /\ sampler \in SamplerPC
  /\ detailed \in BOOLEAN /\ running \in BOOLEAN
  /\ samples \in Seq(0..MaxCount) /\ Len(samples) <= MaxSamples + 2
  /\ sampled \in (0..MaxCount) \cup {Unread}
  /\ counter \in 0..MaxCount
  /\ reading \in [Moments -> (0..MaxCount) \cup {Unread}]
  /\ child \in {"none", "running", "silent", "exited"}
  /\ orphan \in BOOLEAN /\ readEnd \in BOOLEAN /\ stream \in BOOLEAN
  /\ toWrite \in 0..MaxLines /\ pipe \in 0..PipeCapacity

(* node_ts.samples is a plain vector: the main thread touches it only while  *)
(* the sampling thread cannot (counter_aggregation.cpp:2033, 2040, 2054,     *)
(* 2086, 2108 against 1347).                                                 *)
SamplesNotShared ==
  main \in {"firstSample", "lastSample", "final", "over"} => sampler \in {"none", "returned"}

(* The two total readings span the command; in detailed mode the time series *)
(* lies between them, never goes back, and spans the command too: no         *)
(* interval of it counts what the totals do not, and the command's own       *)
(* traffic is all in it (counter_aggregation.cpp:1996, 2007-2034,            *)
(* 2060-2089).                                                               *)
ReadingsSpanCommand ==
  main = "over" =>
    /\ reading["initial"] <= reading["started"]
    /\ reading["ended"] <= reading["final"]
    /\ detailed =>
         /\ reading["initial"] <= samples[1] /\ samples[1] <= reading["started"]
         /\ \A i \in 1..(Len(samples) - 1) : samples[i] <= samples[i + 1]
         /\ reading["ended"] <= samples[Len(samples)]
         /\ samples[Len(samples)] <= reading["final"]

(* run_command goes on only when the command is over, every line written to  *)
(* the pipe was read and, unless the output could not be opened, no process  *)
(* it left behind can write another one (utils.cpp:142-208).                 *)
EveryLineCaptured ==
  main \in {"stop", "join", "lastSample", "final", "over"} =>
    /\ child = "exited"
    /\ stream => pipe = 0 /\ toWrite = 0 /\ ~orphan

(* The handler gets to its end whatever the command writes: nobody waits     *)
(* for a full pipe, for an output that never ends or for a thread that does  *)
(* not see the flag.                                                         *)
HandlerEnds == <>(main \in {"over", "gone"})
=============================================================================
