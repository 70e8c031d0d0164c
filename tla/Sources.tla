------------------------------- MODULE Sources -------------------------------
(***************************************************************************)
(* The life of the metric sources of the tasks of one node, as far as it     *)
(* outlives a call: the shared-memory segment of the NCCL source.  A task    *)
(* names the segment after its process id, creates and maps it, hands the    *)
(* name to the command in the environment, and removes the name again, by    *)
(* cleanup_all() or, on the ways out of the program that do not call it, by  *)
(* the source's destructor.  The profiler plugin in the command's processes  *)
(* opens the segment by that name; NcclMetricSource::read() is the reader.   *)
(*                                                                           *)
(* Tasks share nothing but the names, /dev/shm; process ids are reused.      *)
(***************************************************************************)
EXTENDS Integers, FiniteSets

CONSTANTS
  Task,       \* the tasks that run on the node, of one step or of several
  Follower,   \* those with SLURM_LOCALID > 0
  Pid,        \* the process ids tasks get
  None,
  MaxSteps,   \* bound: steps the plugin counts for one command
  FaultKinds, \* which of "open", "map", "spawn", "exec", "kill" may happen
  MaxFaults   \* bound: how many

ASSUME SourcesAssumption ==
  /\ Follower \subseteq Task
  /\ None \notin Task \cup Pid
  /\ MaxSteps \in Nat /\ MaxFaults \in Nat

VARIABLES
  pc,      \* the task in main()
  pid,     \* its process id, which a killed task loses when it is reused
  name,    \* shm_name_, as the process id in it
  map,     \* shm_counters_: the segment, named by the task that created it
  seen,    \* what its last reading of the segment said
  child,   \* the command: "none", "forked", "runs", "left": ended, with a
           \* process of it left behind, "ended"
  env,     \* the segment's name in the command's environment
  heir,    \* shm_name_ in the copy of the task that fork() made
  plugin,  \* the segment the command's profiler has mapped
  own,     \* history: the steps that profiler counted
  shm,     \* the directory: process id -> segment
  total,   \* segment -> the steps counted in it
  faults

taskVars == <<pc, pid, name, map, seen>>
childVars == <<child, env, heir, plugin, own>>
vars == <<taskVars, childVars, shm, total, faults>>

Init ==
  /\ pc = [t \in Task |-> "new"]
  /\ pid = [t \in Task |-> None]
  /\ name = [t \in Task |-> None]
  /\ map = [t \in Task |-> None]
  /\ seen = [t \in Task |-> None]
  /\ child = [t \in Task |-> "none"]
  /\ env = [t \in Task |-> None]
  /\ heir = [t \in Task |-> None]
  /\ plugin = [t \in Task |-> None]
  /\ own = [t \in Task |-> 0]
  /\ shm = [p \in Pid |-> None]
  /\ total = [t \in Task |-> 0]
  /\ faults = 0

Fault(kind) ==
  /\ kind \in FaultKinds
  /\ faults < MaxFaults
  /\ faults' = faults + 1

Running(t) == pc[t] \notin {"new", "gone", "killed"}
Goes(t, from, to) == pc[t] = from /\ pc' = [pc EXCEPT ![t] = to]

(* shm_unlink(p): the name goes, the segment stays with who has mapped it.   *)
Unlink(p) == [q \in Pid |-> IF q = p THEN None ELSE shm[q]]

----------------------------------------------------------------------------
(* A task. *)

(* The process starts.  Its id is no live task's, and, as a task is the      *)
(* leader of its process group, that of no group with a process left.        *)
Start(t) ==
  /\ Goes(t, "new", "init")
  /\ \E p \in Pid :
       /\ \A u \in Task : pid[u] = p =>
            ~Running(u) /\ child[u] \in {"none", "ended"}
       /\ pid' = [u \in Task |->
            CASE u = t -> p
              [] u # t /\ pid[u] = p -> None
              [] OTHER -> pid[u]]
  /\ UNCHANGED <<name, map, seen, childVars, shm, total, faults>>

(* NcclMetricSource::init(), called by init_all().  A segment of that name,  *)
(* left by a killed task, is opened as it is; its counters are constructed   *)
(* anew.  ConstructKeeps does not construct, InitUnlinks removes the name    *)
(* as soon as the segment is mapped.                                         *)
Segment(t) == IF shm[pid[t]] = None THEN t ELSE shm[pid[t]]
ConstructKeeps(s) == total
Construct(s) == [total EXCEPT ![s] = 0]

InitUnlinks(t) ==
  /\ Goes(t, "init", "ready")
  /\ name' = [name EXCEPT ![t] = pid[t]]
  /\ env' = [env EXCEPT ![t] = pid[t]]
  /\ map' = [map EXCEPT ![t] = Segment(t)]
  /\ total' = Construct(Segment(t))
  /\ shm' = Unlink(pid[t])
  /\ UNCHANGED <<pid, seen, child, heir, plugin, own, faults>>

InitSource(t) ==
  /\ Goes(t, "init", "ready")
  /\ name' = [name EXCEPT ![t] = pid[t]]
  /\ env' = [env EXCEPT ![t] = pid[t]]
  /\ map' = [map EXCEPT ![t] = Segment(t)]
  /\ total' = Construct(Segment(t))
  /\ shm' = [shm EXCEPT ![pid[t]] = Segment(t)]
  /\ UNCHANGED <<pid, seen, child, heir, plugin, own, faults>>

(* shm_open() fails: the name is kept, and exported all the same.            *)
OpenFails(t) ==
  /\ Goes(t, "init", "ready")
  /\ Fault("open")
  /\ name' = [name EXCEPT ![t] = pid[t]]
  /\ env' = [env EXCEPT ![t] = pid[t]]
  /\ UNCHANGED <<pid, map, seen, child, heir, plugin, own, shm, total>>

(* ftruncate() or mmap() fails.  MapFailsKeepsName forgets to remove the     *)
(* name it just created.                                                     *)
MapFailsKeepsName(t) ==
  /\ Goes(t, "init", "ready")
  /\ Fault("map")
  /\ env' = [env EXCEPT ![t] = pid[t]]
  /\ shm' = [shm EXCEPT ![pid[t]] = Segment(t)]
  /\ UNCHANGED <<pid, name, map, seen, child, heir, plugin, own, total>>

MapFails(t) ==
  /\ Goes(t, "init", "ready")
  /\ Fault("map")
  /\ env' = [env EXCEPT ![t] = pid[t]]
  /\ shm' = Unlink(pid[t])
  /\ UNCHANGED <<pid, name, map, seen, child, heir, plugin, own, total>>

(* run_command() forks; init_all() failing is only a warning.                *)
Fork(t) ==
  /\ Goes(t, "ready", "waits")
  /\ child' = [child EXCEPT ![t] = "forked"]
  /\ heir' = [heir EXCEPT ![t] = name[t]]
  /\ UNCHANGED <<pid, name, map, seen, env, plugin, own, shm, total, faults>>

(* pipe() or fork() fails: node_handler() calls exit(1), a follower, which   *)
(* ignores the result, returns 0.                                            *)
SpawnFails(t) ==
  /\ Goes(t, "ready", "exits")
  /\ Fault("spawn")
  /\ UNCHANGED <<pid, name, map, seen, childVars, shm, total>>

(* The pipe is at its end and the command has been waited for.  A follower   *)
(* returns from main(), others take the final reading.                       *)
Wait(t) ==
  /\ child[t] \in {"left", "ended"}
  /\ IF t \in Follower
     THEN Goes(t, "waits", "exits") /\ UNCHANGED seen
     ELSE /\ Goes(t, "waits", "measured")
          /\ seen' = [seen EXCEPT ![t] = IF map[t] = None THEN None ELSE total[map[t]]]
  /\ UNCHANGED <<pid, name, map, childVars, shm, total, faults>>

(* After the chain: cleanup_all().  The environment is unset, too, but no    *)
(* child is forked any more.                                                 *)
Cleanup(t) ==
  /\ Goes(t, "measured", "exits")
  /\ name' = [name EXCEPT ![t] = None]
  /\ map' = [map EXCEPT ![t] = None]
  /\ shm' = Unlink(name[t])
  /\ UNCHANGED <<pid, seen, childVars, total, faults>>

(* Static destructors, on exit() and on return from main().  ExitKeepsName   *)
(* is without the destructor of the source.                                  *)
ExitKeepsName(t) ==
  /\ Goes(t, "exits", "gone")
  /\ name' = [name EXCEPT ![t] = None]
  /\ map' = [map EXCEPT ![t] = None]
  /\ UNCHANGED <<pid, seen, childVars, shm, total, faults>>

Exit(t) ==
  /\ Goes(t, "exits", "gone")
  /\ name' = [name EXCEPT ![t] = None]
  /\ map' = [map EXCEPT ![t] = None]
  /\ shm' = Unlink(name[t])
  /\ UNCHANGED <<pid, seen, childVars, total, faults>>

(* A signal, or abort() on an exception nobody catches: no destructor runs.  *)
Kill(t) ==
  /\ Running(t)
  /\ Fault("kill")
  /\ pc' = [pc EXCEPT ![t] = "killed"]
  /\ name' = [name EXCEPT ![t] = None]
  /\ map' = [map EXCEPT ![t] = None]
  /\ UNCHANGED <<pid, seen, childVars, shm, total>>

----------------------------------------------------------------------------
(* The command of a task, which outlives a task that is killed. *)

Command(t, from, to) == child[t] = from /\ child' = [child EXCEPT ![t] = to]

Exec(t) ==
  /\ Command(t, "forked", "runs")
  /\ UNCHANGED <<taskVars, env, heir, plugin, own, shm, total, faults>>

(* execvp() fails and the child calls exit(1): its copies of the statics are *)
(* destroyed, and with them goes the task's name.                            *)
ExecFails(t) ==
  /\ Command(t, "forked", "ended")
  /\ Fault("exec")
  /\ shm' = Unlink(heir[t])
  /\ UNCHANGED <<taskVars, env, heir, plugin, own, total>>

(* gatherInit(): without a segment of that name there is no context.         *)
PluginInit(t) ==
  /\ child[t] \in {"runs", "left"} /\ plugin[t] = None
  /\ env[t] # None /\ shm[env[t]] # None
  /\ plugin' = [plugin EXCEPT ![t] = shm[env[t]]]
  /\ UNCHANGED <<taskVars, child, env, heir, own, shm, total, faults>>

PluginFinalize(t) ==
  /\ plugin[t] # None
  /\ plugin' = [plugin EXCEPT ![t] = None]
  /\ UNCHANGED <<taskVars, child, env, heir, own, shm, total, faults>>

Count(t) ==
  /\ plugin[t] # None
  /\ own[t] < MaxSteps
  /\ own' = [own EXCEPT ![t] = @ + 1]
  /\ total' = [total EXCEPT ![plugin[t]] = @ + 1]
  /\ UNCHANGED <<taskVars, child, env, heir, plugin, shm, faults>>

(* The command ends; a process of it may stay behind, its profiler included. *)
LeaveBehind(t) ==
  /\ Command(t, "runs", "left")
  /\ UNCHANGED <<taskVars, env, heir, plugin, own, shm, total, faults>>

End(t) ==
  /\ Command(t, "runs", "ended") \/ Command(t, "left", "ended")
  /\ plugin' = [plugin EXCEPT ![t] = None]
  /\ UNCHANGED <<taskVars, env, heir, own, shm, total, faults>>

----------------------------------------------------------------------------
TaskStep(t) ==
  \/ Start(t) \/ InitSource(t) \/ OpenFails(t) \/ MapFails(t)
  \/ Fork(t) \/ SpawnFails(t) \/ Wait(t) \/ Cleanup(t) \/ Exit(t) \/ Kill(t)

ChildStep(t) ==
  \/ Exec(t) \/ ExecFails(t) \/ LeaveBehind(t) \/ End(t)
  \/ PluginInit(t) \/ PluginFinalize(t) \/ Count(t)

Next == \E t \in Task : TaskStep(t) \/ ChildStep(t)

Spec == Init /\ [][Next]_vars

----------------------------------------------------------------------------
(* Properties. *)

(* Types. *)
TypeOK ==
  /\ pc \in [Task -> {"new", "init", "ready", "waits", "measured", "exits",
                      "gone", "killed"}]
  /\ {pid, name, env, heir} \subseteq [Task -> Pid \cup {None}]
  /\ {map, plugin} \subseteq [Task -> Task \cup {None}]
  /\ seen \in [Task -> 0..MaxSteps \cup {None}]
  /\ child \in [Task -> {"none", "forked", "runs", "left", "ended"}]
  /\ own \in [Task -> 0..MaxSteps]
  /\ shm \in [Pid -> Task \cup {None}]
  /\ total \in [Task -> Nat]
  /\ faults \in 0..MaxFaults

(* A task that has mapped a segment reads in it the steps of its own command *)
(* and of no other, although the segment may be one a killed task left and   *)
(* its process id another task's before; so does its final reading, unless a *)
(* process left behind goes on (metric_source_nccl.cpp:81-84, 118-119).      *)
OwnStepsOnly ==
  \A t \in Task : /\ map[t] # None => total[map[t]] = own[t]
                  /\ seen[t] # None => seen[t] <= own[t]

(* While a task waits for its command, the name the command was given leads  *)
(* to the segment the task reads, so no process of it counts elsewhere       *)
(* (metric_source_nccl.cpp:86-91, nccl_profiler.cc:136-160).                 *)
CommandFindsSegment ==
  \A t \in Task :
    /\ pc[t] = "waits" /\ child[t] = "runs" /\ map[t] # None
         => shm[env[t]] = map[t]
    /\ Running(t) /\ {plugin[t], map[t]} \subseteq Task => plugin[t] = map[t]

(* Nothing stays in /dev/shm: a name is that of a running task, which will   *)
(* remove it on every way out, or it was left by one that was killed, and    *)
(* then no longer than until the task that has the same process id next      *)
(* initializes its source (metric_source_nccl.cpp:57-62, 97, 107, 178-181).  *)
NamesAccounted ==
  \A p \in Pid : shm[p] # None =>
    \E t \in Task : pid[t] = p /\ (pc[t] \in {"killed", "init"} \/ name[t] = p)
=============================================================================
