---------------------------- MODULE SourcesProofs ----------------------------
(***************************************************************************)
(* Proofs about Sources, for any tasks, process ids and faults: a task reads *)
(* the steps of its own command only, the command finds its task's segment,  *)
(* and every name in /dev/shm is accounted for.                              *)
(*                                                                           *)
(* The argument is that at any time a segment is within reach of one task    *)
(* only: mapped by it, mapped by the profiler of its command, or known by    *)
(* its process id; and that a process id is one task's.                      *)
(***************************************************************************)
EXTENDS Sources, TLAPS

Live(t) == Running(t) \/ child[t] \notin {"none", "ended"}
Early(t) == pc[t] \in {"new", "init"}

(* The segments within reach of a task. *)
Reach(t) ==
  ({map[t], plugin[t]} \cup (IF pid[t] = None THEN {} ELSE {shm[pid[t]]})) \ {None}

(* What a task has, and what it knows of its process id. *)
TaskInv ==
  \A t \in Task :
    /\ Live(t) => pid[t] # None
    /\ child[t] # "none" => ~Early(t) /\ pc[t] # "ready"
    /\ child[t] = "none" => own[t] = 0
    /\ plugin[t] # None => child[t] \in {"runs", "left"}
    /\ map[t] # None => Running(t) /\ ~Early(t)
    /\ name[t] # None => Running(t) /\ ~Early(t) /\ name[t] = pid[t]
    /\ Early(t) => env[t] = None
    /\ Live(t) /\ env[t] # None => env[t] = pid[t]
    /\ child[t] = "forked" /\ heir[t] # None => heir[t] = pid[t]

(* What a task has mapped is what its command finds and counts in.           *)
SegmentInv ==
  \A t \in Task :
    /\ map[t] # None /\ child[t] # "ended" => env[t] = pid[t] /\ shm[pid[t]] = map[t]
    /\ map[t] # None /\ plugin[t] # None => plugin[t] = map[t]

PidInv == \A t, u \in Task : pid[t] = pid[u] /\ pid[t] # None => t = u
ReachInv == \A t, u \in Task : t # u => Reach(t) \cap Reach(u) = {}
EarlyInv == \A t, s \in Task : s \in Reach(t) => ~Early(s)

IInv ==
  /\ TypeOK /\ TaskInv /\ SegmentInv /\ PidInv /\ ReachInv /\ EarlyInv
  /\ OwnStepsOnly /\ NamesAccounted
LEMMA InitIInv == Init => IInv
  BY SourcesAssumption
     DEF Init, IInv, TypeOK, TaskInv, SegmentInv, PidInv, ReachInv, EarlyInv,
         OwnStepsOnly, NamesAccounted, Live, Running, Early, Reach

(* A name is removed, or it is not. *)
LEMMA Unlinked ==
  ASSUME TypeOK, NEW p \in Pid \cup {None}
  PROVE  /\ Unlink(p) \in [Pid -> Task \cup {None}]
         /\ \A q \in Pid : Unlink(p)[q] = IF q = p THEN None ELSE shm[q]
  BY DEF TypeOK, Unlink

----------------------------------------------------------------------------
(* Types. *)
LEMMA TaskTypes ==
  ASSUME IInv, NEW t \in Task, TaskStep(t)
  PROVE  TypeOK'
<1>1. TypeOK
  BY DEF IInv
<1>2. CASE Start(t)
  BY <1>1, <1>2, SourcesAssumption DEF TypeOK, Start, Goes, childVars
<1>3. CASE InitSource(t)
  <2>1. pid[t] \in Pid /\ Segment(t) \in Task
    BY <1>1, <1>3, SourcesAssumption
       DEF TypeOK, InitSource, Goes, Segment, IInv, TaskInv, Live, Running
  <2>. QED  BY <1>1, <1>3, <2>1, SourcesAssumption DEF TypeOK, InitSource, Goes, Construct
<1>4. CASE OpenFails(t)
  BY <1>1, <1>4, SourcesAssumption DEF TypeOK, OpenFails, Goes, Fault
<1>5. CASE MapFails(t)
  BY <1>1, <1>5, SourcesAssumption, Unlinked DEF TypeOK, MapFails, Goes, Fault
<1>6. CASE Fork(t)
  BY <1>1, <1>6, SourcesAssumption DEF TypeOK, Fork, Goes
<1>7. CASE SpawnFails(t)
  BY <1>1, <1>7, SourcesAssumption DEF TypeOK, SpawnFails, Goes, Fault, childVars
<1>8. CASE Wait(t)
  <2>1. map[t] # None => total[map[t]] \in 0..MaxSteps
    BY <1>1 DEF TypeOK, IInv, OwnStepsOnly
  <2>. QED  BY <1>1, <1>8, <2>1, SourcesAssumption DEF TypeOK, Wait, Goes, childVars
<1>9. CASE Cleanup(t)
  BY <1>1, <1>9, SourcesAssumption, Unlinked DEF TypeOK, Cleanup, Goes, childVars
<1>10. CASE Exit(t)
  BY <1>1, <1>10, SourcesAssumption, Unlinked DEF TypeOK, Exit, Goes, childVars
<1>11. CASE Kill(t)
  BY <1>1, <1>11, SourcesAssumption DEF TypeOK, Kill, Fault, childVars
<1>. QED  BY <1>2, <1>3, <1>4, <1>5, <1>6, <1>7, <1>8, <1>9, <1>10, <1>11 DEF TaskStep

LEMMA ChildTypes ==
  ASSUME TypeOK, NEW t \in Task, ChildStep(t)
  PROVE  TypeOK'
<1>1. CASE Exec(t)
  BY <1>1 DEF TypeOK, Exec, Command, taskVars
<1>2. CASE ExecFails(t)
  BY <1>2, SourcesAssumption, Unlinked DEF TypeOK, ExecFails, Command, Fault, taskVars
<1>3. CASE LeaveBehind(t)
  BY <1>3 DEF TypeOK, LeaveBehind, Command, taskVars
<1>4. CASE End(t)
  BY <1>4 DEF TypeOK, End, Command, taskVars
<1>5. CASE PluginInit(t)
  BY <1>5 DEF TypeOK, PluginInit, taskVars
<1>6. CASE PluginFinalize(t)
  BY <1>6 DEF TypeOK, PluginFinalize, taskVars
<1>7. CASE Count(t)
  BY <1>7, SourcesAssumption DEF TypeOK, Count, taskVars
<1>. QED  BY <1>1, <1>2, <1>3, <1>4, <1>5, <1>6, <1>7 DEF ChildStep
----------------------------------------------------------------------------
(* What a task has. *)

LEMMA TaskInvKept ==
  ASSUME IInv, NEW t \in Task, TaskStep(t) \/ ChildStep(t)
  PROVE  TaskInv'
<1>1. TypeOK /\ TaskInv /\ PidInv
  BY DEF IInv
<1>2. CASE Start(t)
  BY <1>1, <1>2, SourcesAssumption
     DEF TypeOK, TaskInv, PidInv, Live, Running, Early, Start, Goes, childVars
<1>3. CASE InitSource(t)
  BY <1>1, <1>3, SourcesAssumption
     DEF TypeOK, TaskInv, PidInv, Live, Running, Early, InitSource, Goes, Construct
<1>4. CASE OpenFails(t)
  BY <1>1, <1>4, SourcesAssumption
     DEF TypeOK, TaskInv, PidInv, Live, Running, Early, OpenFails, Goes, Fault
<1>5. CASE MapFails(t)
  BY <1>1, <1>5, SourcesAssumption
     DEF TypeOK, TaskInv, PidInv, Live, Running, Early, MapFails, Goes, Fault
<1>6. CASE Fork(t)
  BY <1>1, <1>6, SourcesAssumption
     DEF TypeOK, TaskInv, PidInv, Live, Running, Early, Fork, Goes
<1>7. CASE SpawnFails(t)
  BY <1>1, <1>7, SourcesAssumption
     DEF TypeOK, TaskInv, PidInv, Live, Running, Early, SpawnFails, Goes, Fault, childVars
<1>8. CASE Wait(t)
  BY <1>1, <1>8, SourcesAssumption
     DEF TypeOK, TaskInv, PidInv, Live, Running, Early, Wait, Goes, childVars
<1>9. CASE Cleanup(t)
  BY <1>1, <1>9, SourcesAssumption
     DEF TypeOK, TaskInv, PidInv, Live, Running, Early, Cleanup, Goes, childVars
<1>10. CASE Exit(t)
  BY <1>1, <1>10, SourcesAssumption
     DEF TypeOK, TaskInv, PidInv, Live, Running, Early, Exit, Goes, childVars
<1>11. CASE Kill(t)
  BY <1>1, <1>11, SourcesAssumption
     DEF TypeOK, TaskInv, PidInv, Live, Running, Early, Kill, Fault, childVars
<1>12. CASE Exec(t)
  BY <1>1, <1>12, SourcesAssumption
     DEF TypeOK, TaskInv, PidInv, Live, Running, Early, Exec, Command, taskVars
<1>13. CASE ExecFails(t)
  BY <1>1, <1>13, SourcesAssumption
     DEF TypeOK, TaskInv, PidInv, Live, Running, Early, ExecFails, Command, Fault, taskVars
<1>14. CASE LeaveBehind(t)
  BY <1>1, <1>14, SourcesAssumption
     DEF TypeOK, TaskInv, PidInv, Live, Running, Early, LeaveBehind, Command, taskVars
<1>15. CASE End(t)
  BY <1>1, <1>15, SourcesAssumption
     DEF TypeOK, TaskInv, PidInv, Live, Running, Early, End, Command, taskVars
<1>16. CASE PluginInit(t)
  BY <1>1, <1>16, SourcesAssumption
     DEF TypeOK, TaskInv, PidInv, Live, Running, Early, PluginInit, taskVars
<1>17. CASE PluginFinalize(t)
  BY <1>1, <1>17, SourcesAssumption
     DEF TypeOK, TaskInv, PidInv, Live, Running, Early, PluginFinalize, taskVars
<1>18. CASE Count(t)
  BY <1>1, <1>18, SourcesAssumption
     DEF TypeOK, TaskInv, PidInv, Live, Running, Early, Count, taskVars
<1>. QED  BY <1>2, <1>3, <1>4, <1>5, <1>6, <1>7, <1>8, <1>9, <1>10, <1>11,
             <1>12, <1>13, <1>14, <1>15, <1>16, <1>17, <1>18 DEF TaskStep, ChildStep

----------------------------------------------------------------------------
(* Process ids. *)
LEMMA PidInvKept ==
  ASSUME IInv, NEW t \in Task, TaskStep(t) \/ ChildStep(t)
  PROVE  PidInv'
<1>1. TypeOK /\ PidInv
  BY DEF IInv
<1>2. CASE Start(t)
  BY <1>1, <1>2, SourcesAssumption DEF Start, PidInv, TypeOK
<1>3. CASE ~Start(t)
  <2>1. pid' = pid
    BY <1>3 DEF TaskStep, ChildStep, InitSource, OpenFails, MapFails, Fork, SpawnFails,
       Wait, Cleanup, Exit, Kill, Exec, ExecFails, LeaveBehind, End, PluginInit,
       PluginFinalize, Count, taskVars
  <2>. QED  BY <1>1, <2>1 DEF PidInv
<1>. QED  BY <1>2, <1>3

----------------------------------------------------------------------------
(* Segments within reach.  All but a start and the creation of a segment     *)
(* only take something out of reach.                                         *)
LEMMA InReach ==
  ASSUME NEW t \in Task, NEW s
  PROVE  s \in Reach(t) <=>
           s # None /\ (s = map[t] \/ s = plugin[t] \/ (pid[t] # None /\ s = shm[pid[t]]))
  BY DEF Reach

LEMMA InReachNext ==
  ASSUME NEW t \in Task, NEW s
  PROVE  s \in Reach(t)' <=>
           s # None /\ (s = map'[t] \/ s = plugin'[t] \/ (pid'[t] # None /\ s = shm'[pid'[t]]))
  BY DEF Reach

LEMMA ReachShrinks ==
  ASSUME IInv, NEW t \in Task, TaskStep(t) \/ ChildStep(t), ~Start(t), ~InitSource(t),
         NEW u \in Task, NEW s \in Reach(u)'
  PROVE  s \in Reach(u)
<1>1. /\ TypeOK /\ TaskInv
      /\ s # None /\ (s = map'[u] \/ s = plugin'[u] \/ (pid'[u] # None /\ s = shm'[pid'[u]]))
  BY InReachNext DEF IInv
<1>2. s # None /\ (s = map[u] \/ s = plugin[u] \/ (pid[u] # None /\ s = shm[pid[u]]))
  <2>1. CASE OpenFails(t)
    BY <1>1, <2>1 DEF TypeOK, OpenFails, Goes, Fault
  <2>2. CASE MapFails(t)
    BY <1>1, <2>2, SourcesAssumption, Unlinked
       DEF TypeOK, TaskInv, Live, Running, MapFails, Goes, Fault
  <2>3. CASE Fork(t)
    BY <1>1, <2>3 DEF TypeOK, Fork, Goes
  <2>4. CASE SpawnFails(t)
    BY <1>1, <2>4 DEF TypeOK, SpawnFails, Goes, Fault, childVars
  <2>5. CASE Wait(t)
    BY <1>1, <2>5 DEF TypeOK, Wait, Goes, childVars
  <2>6. CASE Cleanup(t)
    BY <1>1, <2>6, SourcesAssumption, Unlinked
       DEF TypeOK, TaskInv, Live, Running, Cleanup, Goes, childVars
  <2>7. CASE Exit(t)
    BY <1>1, <2>7, SourcesAssumption, Unlinked
       DEF TypeOK, TaskInv, Live, Running, Exit, Goes, childVars
  <2>8. CASE Kill(t)
    BY <1>1, <2>8 DEF TypeOK, Kill, Fault, childVars
  <2>9. CASE Exec(t)
    BY <1>1, <2>9 DEF TypeOK, Exec, Command, taskVars
  <2>10. CASE ExecFails(t)
    BY <1>1, <2>10, SourcesAssumption, Unlinked
       DEF TypeOK, TaskInv, Live, Running, ExecFails, Command, Fault, taskVars
  <2>11. CASE LeaveBehind(t)
    BY <1>1, <2>11 DEF TypeOK, LeaveBehind, Command, taskVars
  <2>12. CASE End(t)
    BY <1>1, <2>12 DEF TypeOK, End, Command, taskVars
  <2>13. CASE PluginInit(t)
    BY <1>1, <2>13 DEF TypeOK, TaskInv, Live, Running, PluginInit, taskVars
  <2>14. CASE PluginFinalize(t)
    BY <1>1, <2>14 DEF TypeOK, PluginFinalize, taskVars
  <2>15. CASE Count(t)
    BY <1>1, <2>15 DEF TypeOK, Count, taskVars
  <2>. QED  BY <2>1, <2>2, <2>3, <2>4, <2>5, <2>6, <2>7, <2>8, <2>9, <2>10,
               <2>11, <2>12, <2>13, <2>14, <2>15 DEF TaskStep, ChildStep
<1>. QED  BY <1>2, InReach

(* What a started task knows, its predecessor of that process id knew.       *)
LEMMA ReachOfStart ==
  ASSUME IInv, NEW t \in Task, Start(t), NEW u \in Task, NEW s \in Reach(u)'
  PROVE  /\ u # t => s \in Reach(u) /\ pid'[u] = pid[u]
         /\ u = t => \E w \in Task : s \in Reach(w) /\ pid[w] = pid'[t]
<1>1. /\ TypeOK /\ TaskInv /\ NamesAccounted
      /\ s # None /\ (s = map'[u] \/ s = plugin'[u] \/ (pid'[u] # None /\ s = shm'[pid'[u]]))
  BY InReachNext DEF IInv
<1>2. /\ map' = map /\ plugin' = plugin /\ shm' = shm /\ pc[t] = "new" /\ pid'[t] \in Pid
      /\ \A w \in Task : w # t => pid'[w] = IF pid[w] = pid'[t] THEN None ELSE pid[w]
      /\ \A w \in Task : pid[w] = pid'[t] => ~Live(w)
  <2>1. PICK q \in Pid :
          /\ \A w \in Task : pid[w] = q => ~Running(w) /\ child[w] \in {"none", "ended"}
          /\ pid' = [w \in Task |->
                CASE w = t -> q
                  [] w # t /\ pid[w] = q -> None
                  [] OTHER -> pid[w]]
    BY DEF Start
  <2>2. pid'[t] = q /\ \A w \in Task : w # t => pid'[w] = IF pid[w] = q THEN None ELSE pid[w]
    BY <2>1
  <2>3. map' = map /\ plugin' = plugin /\ shm' = shm /\ pc[t] = "new"
    BY DEF Start, Goes, childVars
  <2>4. \A w \in Task : pid[w] = pid'[t] => ~Live(w)
    BY <2>1, <2>2 DEF Live, Running
  <2>. QED  BY <2>2, <2>3, <2>4
<1>3. \A w \in Task : ~Live(w) => map[w] = None /\ plugin[w] = None
  BY <1>1 DEF TaskInv, Live
<1>4. CASE u # t
  <2>1. CASE pid[u] = pid'[t]
    <3>1. map[u] = None /\ plugin[u] = None /\ pid'[u] = None
      BY <1>2, <1>3, <1>4, <2>1
    <3>. QED  BY <1>1, <1>2, <3>1
  <2>2. CASE pid[u] # pid'[t]
    <3>1. pid'[u] = pid[u]
      BY <1>2, <1>4, <2>2
    <3>. QED  BY <1>1, <1>2, <1>4, <3>1, InReach
  <2>. QED  BY <2>1, <2>2
<1>5. CASE u = t
  <2>1. map[t] = None /\ plugin[t] = None
    BY <1>1, <1>2, SourcesAssumption DEF TaskInv, Live, Running, Early
  <2>2. s = shm[pid'[t]] /\ shm[pid'[t]] # None
    BY <1>1, <1>2, <1>5, <2>1
  <2>3. PICK w \in Task : pid[w] = pid'[t]
    BY <1>1, <1>2, <2>2 DEF NamesAccounted
  <2>4. pid[w] # None
    BY <1>2, <2>3, SourcesAssumption
  <2>. QED  BY <1>5, <2>2, <2>3, <2>4, InReach
<1>. QED  BY <1>4, <1>5

(* What a task creates, nobody had; what it opens, it was the one to know.   *)
LEMMA ReachOfInit ==
  ASSUME IInv, NEW t \in Task, InitSource(t), NEW u \in Task, NEW s \in Reach(u)'
  PROVE  s \in Reach(u) \/ (u = t /\ s = t)
<1>1. /\ TypeOK /\ TaskInv /\ PidInv
      /\ s # None /\ (s = map'[u] \/ s = plugin'[u] \/ (pid'[u] # None /\ s = shm'[pid'[u]]))
  BY InReachNext DEF IInv
<1>2. pid[t] \in Pid /\ pid[t] # None
  BY <1>1, SourcesAssumption DEF TaskInv, TypeOK, InitSource, Goes, Live, Running
<1>3. /\ UNCHANGED <<pid, plugin>>
      /\ map'[u] = IF u = t THEN Segment(t) ELSE map[u]
      /\ pid[u] \in Pid => shm'[pid[u]] = IF pid[u] = pid[t] THEN Segment(t) ELSE shm[pid[u]]
      /\ pid[u] # None => pid[u] \in Pid
  BY <1>1 DEF InitSource, TypeOK
<1>4. pid[u] = pid[t] => u = t
  BY <1>1, <1>2 DEF PidInv
<1>. QED  BY <1>1, <1>2, <1>3, <1>4, InReach DEF Segment

LEMMA ReachInvKept ==
  ASSUME IInv, NEW t \in Task, TaskStep(t) \/ ChildStep(t)
  PROVE  ReachInv' /\ EarlyInv'
<1>1. ReachInv /\ EarlyInv /\ TypeOK /\ PidInv
  BY DEF IInv
<1>2. CASE Start(t)
  <2>1. pc[t] = "new" /\ pc' = [pc EXCEPT ![t] = "init"] /\ PidInv'
    BY <1>2, PidInvKept DEF Start, Goes
  <2>2. ASSUME NEW u \in Task, NEW s \in Task, s \in Reach(u)'
        PROVE  ~Early(s)'
    <3>1. \E w \in Task : s \in Reach(w)
      BY <1>2, <2>2, ReachOfStart
    <3>2. ~Early(s) /\ s # t
      BY <1>1, <2>1, <3>1 DEF EarlyInv, Early
    <3>. QED  BY <1>1, <2>1, <3>2 DEF Early, TypeOK
  <2>3. ASSUME NEW u \in Task, NEW v \in Task, u # v, NEW s \in Reach(u)', s \in Reach(v)'
        PROVE  FALSE
    <3>1. CASE u # t /\ v # t
      BY <1>1, <1>2, <2>3, <3>1, ReachOfStart DEF ReachInv
    <3>2. ASSUME NEW x \in Task, x # t, s \in Reach(x)', s \in Reach(t)'
          PROVE  FALSE
      <4>1. s \in Reach(x) /\ pid'[x] = pid[x]
        BY <1>2, <3>2, ReachOfStart
      <4>2. PICK w \in Task : s \in Reach(w) /\ pid[w] = pid'[t]
        BY <1>2, <3>2, ReachOfStart
      <4>3. w = x
        BY <1>1, <4>1, <4>2 DEF ReachInv
      <4>4. pid'[t] # None
        BY <1>2, SourcesAssumption DEF Start, TypeOK
      <4>. QED  BY <2>1, <3>2, <4>1, <4>2, <4>3, <4>4 DEF PidInv
    <3>. QED  BY <2>3, <3>1, <3>2
  <2>. QED  BY <2>2, <2>3 DEF ReachInv, EarlyInv
<1>3. CASE InitSource(t)
  <2>1. Early(t) /\ pc' = [pc EXCEPT ![t] = "ready"]
    BY <1>3 DEF InitSource, Goes, Early
  <2>2. \A u \in Task : t \notin Reach(u)
    BY <1>1, <2>1 DEF EarlyInv
  <2>3. ReachInv'
    BY <1>1, <1>3, <2>2, ReachOfInit DEF ReachInv
  <2>4. \A s \in Task : ~Early(s) \/ s = t => ~Early(s)'
    BY <1>1, <2>1 DEF Early, TypeOK
  <2>. QED  BY <1>1, <1>3, <2>3, <2>4, ReachOfInit DEF EarlyInv
<1>4. CASE ~Start(t) /\ ~InitSource(t)
  <2>1. ReachInv'
    BY <1>1, <1>4, ReachShrinks DEF ReachInv
  <2>2. \A s \in Task : ~Early(s) => ~Early(s)'
    BY <1>1, <1>4
       DEF Early, TypeOK, TaskStep, ChildStep, Goes, OpenFails, MapFails, Fork,
       SpawnFails, Wait, Cleanup, Exit, Kill, Exec, ExecFails, LeaveBehind, End, PluginInit,
       PluginFinalize, Count, taskVars
  <2>. QED  BY <1>1, <1>4, <2>1, <2>2, ReachShrinks DEF EarlyInv
<1>. QED  BY <1>2, <1>3, <1>4

----------------------------------------------------------------------------
(* What is mapped is what is named and counted in. *)

LEMMA SegmentInvKept ==
  ASSUME IInv, NEW t \in Task, TaskStep(t) \/ ChildStep(t)
  PROVE  SegmentInv'
<1>1. TypeOK /\ TaskInv /\ PidInv /\ SegmentInv
  BY DEF IInv
<1>2. CASE Start(t)
  <2>1. \A u \in Task : map[u] # None => Running(u)
    BY <1>1 DEF TaskInv
  <2>2. \A u \in Task : Running(u) => pid'[u] = pid[u]
    BY <1>1, <1>2 DEF Start, Goes, Running, TypeOK
  <2>3. UNCHANGED <<map, plugin, shm, child, env>>
    BY <1>2 DEF Start, childVars
  <2>. QED  BY <1>1, <2>1, <2>2, <2>3 DEF SegmentInv
<1>3. CASE InitSource(t)
  <2>1. /\ map' = [map EXCEPT ![t] = Segment(t)] /\ shm' = [shm EXCEPT ![pid[t]] = Segment(t)]
        /\ env' = [env EXCEPT ![t] = pid[t]] /\ UNCHANGED <<pid, plugin, child>>
        /\ pc[t] = "init"
    BY <1>3 DEF InitSource, Goes
  <2>2. child[t] = "none" /\ plugin[t] = None /\ pid[t] \in Pid
    BY <1>1, <2>1, SourcesAssumption DEF TaskInv, TypeOK, Live, Running, Early
  <2>3. \A u \in Task : u # t /\ map[u] # None => pid[u] \in Pid /\ pid[u] # pid[t]
    BY <1>1, <2>2, SourcesAssumption DEF TaskInv, PidInv, TypeOK, Live
  <2>4. ASSUME NEW u \in Task
        PROVE  /\ map'[u] # None /\ child'[u] # "ended" =>
                    env'[u] = pid'[u] /\ shm'[pid'[u]] = map'[u]
               /\ map'[u] # None /\ plugin'[u] # None => plugin'[u] = map'[u]
    <3>1. CASE u = t
      BY <1>1, <2>1, <2>2, <3>1 DEF TypeOK
    <3>2. CASE u # t
      BY <1>1, <2>1, <2>2, <2>3, <3>2 DEF TypeOK, SegmentInv
    <3>. QED  BY <3>1, <3>2
  <2>. QED  BY <2>4 DEF SegmentInv
<1>4. CASE OpenFails(t)
  BY <1>1, <1>4, SourcesAssumption
     DEF TypeOK, TaskInv, PidInv, SegmentInv, Live, Running, Early, OpenFails, Goes, Fault
<1>5. CASE MapFails(t)
  BY <1>1, <1>5, SourcesAssumption, Unlinked
     DEF TypeOK, TaskInv, PidInv, SegmentInv, Live, Running, Early, MapFails, Goes, Fault
<1>6. CASE Fork(t)
  BY <1>1, <1>6, SourcesAssumption
     DEF TypeOK, TaskInv, PidInv, SegmentInv, Live, Running, Early, Fork, Goes
<1>7. CASE SpawnFails(t)
  BY <1>1, <1>7, SourcesAssumption
     DEF TypeOK, TaskInv, PidInv, SegmentInv, Live, Running, Early, SpawnFails, Goes,
         Fault, childVars
<1>8. CASE Wait(t)
  BY <1>1, <1>8, SourcesAssumption
     DEF TypeOK, TaskInv, PidInv, SegmentInv, Live, Running, Early, Wait, Goes, childVars
<1>9. CASE Cleanup(t)
  BY SMTT(30), <1>1, <1>9, SourcesAssumption, Unlinked
     DEF TypeOK, TaskInv, PidInv, SegmentInv, Live, Running, Early, Cleanup, Goes, childVars
<1>10. CASE Exit(t)
  BY SMTT(30), <1>1, <1>10, SourcesAssumption, Unlinked
     DEF TypeOK, TaskInv, PidInv, SegmentInv, Live, Running, Early, Exit, Goes, childVars
<1>11. CASE Kill(t)
  BY <1>1, <1>11, SourcesAssumption
     DEF TypeOK, TaskInv, PidInv, SegmentInv, Live, Running, Early, Kill, Fault, childVars
<1>12. CASE Exec(t)
  BY <1>1, <1>12, SourcesAssumption
     DEF TypeOK, TaskInv, PidInv, SegmentInv, Live, Running, Early, Exec, Command, taskVars
<1>13. CASE ExecFails(t)
  BY <1>1, <1>13, SourcesAssumption, Unlinked
     DEF TypeOK, TaskInv, PidInv, SegmentInv, Live, Running, Early, ExecFails, Command,
         Fault, taskVars
<1>14. CASE LeaveBehind(t)
  BY <1>1, <1>14, SourcesAssumption
     DEF TypeOK, TaskInv, PidInv, SegmentInv, Live, Running, Early, LeaveBehind, Command,
         taskVars
<1>15. CASE End(t)
  BY <1>1, <1>15, SourcesAssumption
     DEF TypeOK, TaskInv, PidInv, SegmentInv, Live, Running, Early, End, Command, taskVars
<1>16. CASE PluginInit(t)
  BY <1>1, <1>16, SourcesAssumption
     DEF TypeOK, TaskInv, PidInv, SegmentInv, Live, Running, Early, PluginInit, taskVars
<1>17. CASE PluginFinalize(t)
  BY <1>1, <1>17, SourcesAssumption
     DEF TypeOK, TaskInv, PidInv, SegmentInv, Live, Running, Early, PluginFinalize, taskVars
<1>18. CASE Count(t)
  BY <1>1, <1>18, SourcesAssumption
     DEF TypeOK, TaskInv, PidInv, SegmentInv, Live, Running, Early, Count, taskVars
<1>. QED  BY <1>2, <1>3, <1>4, <1>5, <1>6, <1>7, <1>8, <1>9, <1>10, <1>11,
             <1>12, <1>13, <1>14, <1>15, <1>16, <1>17, <1>18 DEF TaskStep, ChildStep

LEMMA NamesKept ==
  ASSUME IInv, NEW t \in Task, TaskStep(t) \/ ChildStep(t)
  PROVE  NamesAccounted'
<1>1. TypeOK /\ TaskInv /\ PidInv /\ NamesAccounted
  BY DEF IInv
<1>2. CASE Start(t)
  BY <1>1, <1>2, SourcesAssumption
     DEF TypeOK, TaskInv, PidInv, NamesAccounted, Live, Running, Early, Start, Goes, childVars
<1>3. CASE InitSource(t)
  BY <1>1, <1>3, SourcesAssumption
     DEF TypeOK, TaskInv, PidInv, NamesAccounted, Live, Running, Early, InitSource, Goes,
         Construct
<1>4. CASE OpenFails(t)
  BY <1>1, <1>4, SourcesAssumption
     DEF TypeOK, TaskInv, PidInv, NamesAccounted, Live, Running, Early, OpenFails, Goes, Fault
<1>5. CASE MapFails(t)
  BY SMTT(30), <1>1, <1>5, SourcesAssumption, Unlinked
     DEF TypeOK, TaskInv, PidInv, NamesAccounted, Live, Running, Early, MapFails, Goes, Fault
<1>6. CASE Fork(t)
  BY <1>1, <1>6, SourcesAssumption
     DEF TypeOK, TaskInv, PidInv, NamesAccounted, Live, Running, Early, Fork, Goes
<1>7. CASE SpawnFails(t)
  BY <1>1, <1>7, SourcesAssumption
     DEF TypeOK, TaskInv, PidInv, NamesAccounted, Live, Running, Early, SpawnFails, Goes,
         Fault, childVars
<1>8. CASE Wait(t)
  BY SMTT(30), <1>1, <1>8, SourcesAssumption
     DEF TypeOK, TaskInv, PidInv, NamesAccounted, Live, Running, Early, Wait, Goes, childVars
<1>9. CASE Cleanup(t)
  BY SMTT(30), <1>1, <1>9, SourcesAssumption, Unlinked
     DEF TypeOK, TaskInv, PidInv, NamesAccounted, Live, Running, Early, Cleanup, Goes, childVars
<1>10. CASE Exit(t)
  BY SMTT(30), <1>1, <1>10, SourcesAssumption, Unlinked
     DEF TypeOK, TaskInv, PidInv, NamesAccounted, Live, Running, Early, Exit, Goes, childVars
<1>11. CASE Kill(t)
  BY <1>1, <1>11, SourcesAssumption
     DEF TypeOK, TaskInv, PidInv, NamesAccounted, Live, Running, Early, Kill, Fault, childVars
<1>12. CASE Exec(t)
  BY <1>1, <1>12, SourcesAssumption
     DEF TypeOK, TaskInv, PidInv, NamesAccounted, Live, Running, Early, Exec, Command, taskVars
<1>13. CASE ExecFails(t)
  BY <1>1, <1>13, SourcesAssumption, Unlinked
     DEF TypeOK, TaskInv, PidInv, NamesAccounted, Live, Running, Early, ExecFails,
         Command, Fault, taskVars
<1>14. CASE LeaveBehind(t)
  BY <1>1, <1>14, SourcesAssumption
     DEF TypeOK, TaskInv, PidInv, NamesAccounted, Live, Running, Early, LeaveBehind,
         Command, taskVars
<1>15. CASE End(t)
  BY <1>1, <1>15, SourcesAssumption
     DEF TypeOK, TaskInv, PidInv, NamesAccounted, Live, Running, Early, End, Command, taskVars
<1>16. CASE PluginInit(t)
  BY <1>1, <1>16, SourcesAssumption
     DEF TypeOK, TaskInv, PidInv, NamesAccounted, Live, Running, Early, PluginInit, taskVars
<1>17. CASE PluginFinalize(t)
  BY <1>1, <1>17, SourcesAssumption
     DEF TypeOK, TaskInv, PidInv, NamesAccounted, Live, Running, Early, PluginFinalize, taskVars
<1>18. CASE Count(t)
  BY <1>1, <1>18, SourcesAssumption
     DEF TypeOK, TaskInv, PidInv, NamesAccounted, Live, Running, Early, Count, taskVars
<1>. QED  BY <1>2, <1>3, <1>4, <1>5, <1>6, <1>7, <1>8, <1>9, <1>10, <1>11,
             <1>12, <1>13, <1>14, <1>15, <1>16, <1>17, <1>18 DEF TaskStep, ChildStep

LEMMA OwnStepsKept ==
  ASSUME IInv, NEW t \in Task, TaskStep(t) \/ ChildStep(t)
  PROVE  OwnStepsOnly'
<1>1. TypeOK /\ TaskInv /\ SegmentInv /\ ReachInv /\ OwnStepsOnly /\ ReachInv'
  BY ReachInvKept DEF IInv
<1>2. CASE Start(t)
  BY <1>1, <1>2, SourcesAssumption
     DEF TypeOK, TaskInv, OwnStepsOnly, Live, Running, Early, Start, Goes, childVars
<1>3. CASE InitSource(t)
  <2>1. /\ map' = [map EXCEPT ![t] = Segment(t)] /\ total' = [total EXCEPT ![Segment(t)] = 0]
        /\ UNCHANGED <<own, seen, child>> /\ own[t] = 0
    BY <1>1, <1>3 DEF InitSource, Goes, Construct, TaskInv, Early, Running
  <2>2. \A u \in Task : u # t /\ map[u] # None => map[u] # Segment(t)
    <3>. SUFFICES ASSUME NEW u \in Task, u # t, map[u] # None, map[u] = Segment(t)
         PROVE  FALSE
      OBVIOUS
    <3>1. map'[u] = Segment(t) /\ map'[t] = Segment(t) /\ Segment(t) # None
      BY <1>1, <2>1 DEF TypeOK
    <3>2. Segment(t) \in Reach(u)' /\ Segment(t) \in Reach(t)'
      BY <3>1 DEF Reach
    <3>. QED  BY <1>1, <3>2 DEF ReachInv
  <2>3. Segment(t) \in Task
    BY <1>1, <1>3, SourcesAssumption
       DEF TypeOK, InitSource, Goes, Segment, TaskInv, Live, Running
  <2>. QED  BY <1>1, <2>1, <2>2, <2>3 DEF OwnStepsOnly, TypeOK
<1>4. CASE OpenFails(t)
  BY <1>1, <1>4, SourcesAssumption
     DEF TypeOK, TaskInv, OwnStepsOnly, Live, Running, Early, OpenFails, Goes, Fault
<1>5. CASE MapFails(t)
  BY <1>1, <1>5, SourcesAssumption
     DEF TypeOK, TaskInv, OwnStepsOnly, Live, Running, Early, MapFails, Goes, Fault
<1>6. CASE Fork(t)
  BY <1>1, <1>6, SourcesAssumption
     DEF TypeOK, TaskInv, OwnStepsOnly, Live, Running, Early, Fork, Goes
<1>7. CASE SpawnFails(t)
  BY <1>1, <1>7, SourcesAssumption
     DEF TypeOK, TaskInv, OwnStepsOnly, Live, Running, Early, SpawnFails, Goes, Fault, childVars
<1>8. CASE Wait(t)
  BY <1>1, <1>8, SourcesAssumption
     DEF TypeOK, TaskInv, OwnStepsOnly, Live, Running, Early, Wait, Goes, childVars
<1>9. CASE Cleanup(t)
  BY <1>1, <1>9, SourcesAssumption
     DEF TypeOK, TaskInv, OwnStepsOnly, Live, Running, Early, Cleanup, Goes, childVars
<1>10. CASE Exit(t)
  BY <1>1, <1>10, SourcesAssumption
     DEF TypeOK, TaskInv, OwnStepsOnly, Live, Running, Early, Exit, Goes, childVars
<1>11. CASE Kill(t)
  BY <1>1, <1>11, SourcesAssumption
     DEF TypeOK, TaskInv, OwnStepsOnly, Live, Running, Early, Kill, Fault, childVars
<1>12. CASE Exec(t)
  BY <1>1, <1>12, SourcesAssumption
     DEF TypeOK, TaskInv, OwnStepsOnly, Live, Running, Early, Exec, Command, taskVars
<1>13. CASE ExecFails(t)
  BY <1>1, <1>13, SourcesAssumption
     DEF TypeOK, TaskInv, OwnStepsOnly, Live, Running, Early, ExecFails, Command, Fault,
         taskVars
<1>14. CASE LeaveBehind(t)
  BY <1>1, <1>14, SourcesAssumption
     DEF TypeOK, TaskInv, OwnStepsOnly, Live, Running, Early, LeaveBehind, Command, taskVars
<1>15. CASE End(t)
  BY <1>1, <1>15, SourcesAssumption
     DEF TypeOK, TaskInv, OwnStepsOnly, Live, Running, Early, End, Command, taskVars
<1>16. CASE PluginInit(t)
  BY <1>1, <1>16, SourcesAssumption
     DEF TypeOK, TaskInv, OwnStepsOnly, Live, Running, Early, PluginInit, taskVars
<1>17. CASE PluginFinalize(t)
  BY <1>1, <1>17, SourcesAssumption
     DEF TypeOK, TaskInv, OwnStepsOnly, Live, Running, Early, PluginFinalize, taskVars
<1>18. CASE Count(t)
  <2>1. \A u \in Task : map[u] # None => (map[u] = plugin[t] <=> u = t)
    <3>1. plugin[t] \in Reach(t)
      BY <1>18, InReach DEF Count
    <3>2. \A u \in Task : map[u] # None => map[u] \in Reach(u)
      BY InReach
    <3>. QED  BY <1>1, <1>18, <3>1, <3>2 DEF SegmentInv, ReachInv, Count
  <2>2. /\ own' = [own EXCEPT ![t] = own[t] + 1]
        /\ total' = [total EXCEPT ![plugin[t]] = total[plugin[t]] + 1]
        /\ map' = map /\ seen' = seen /\ plugin[t] \in Task
    BY <1>1, <1>18 DEF Count, taskVars, TypeOK
  <2>3. \A u \in Task : map[u] # None => total'[map[u]] = own'[u]
    BY <1>1, <2>1, <2>2 DEF OwnStepsOnly, TypeOK
  <2>4. \A u \in Task : /\ own[u] <= own'[u] /\ own[u] \in Nat /\ own'[u] \in Nat
                        /\ seen[u] \in Nat \cup {None}
    BY <1>1, <2>2, SourcesAssumption DEF TypeOK
  <2>5. \A u \in Task : seen[u] # None => seen[u] <= own'[u]
    BY <1>1, <2>4 DEF OwnStepsOnly
  <2>. QED  BY <2>2, <2>3, <2>5 DEF OwnStepsOnly
<1>. QED  BY <1>2, <1>3, <1>4, <1>5, <1>6, <1>7, <1>8, <1>9, <1>10, <1>11,
             <1>12, <1>13, <1>14, <1>15, <1>16, <1>17, <1>18 DEF TaskStep, ChildStep

----------------------------------------------------------------------------
LEMMA NextIInv == IInv /\ [Next]_vars => IInv'
<1>. SUFFICES ASSUME IInv, [Next]_vars PROVE IInv'
  OBVIOUS
<1>1. ASSUME NEW t \in Task, TaskStep(t) \/ ChildStep(t) PROVE IInv'
  <2>1. TypeOK'
    BY <1>1, TaskTypes, ChildTypes DEF IInv
  <2>. QED  BY <1>1, <2>1, TaskInvKept, SegmentInvKept, PidInvKept, ReachInvKept,
               OwnStepsKept, NamesKept DEF IInv
<1>2. CASE UNCHANGED vars
  <2>1. TypeOK' /\ TaskInv' /\ NamesAccounted'
    BY <1>2 DEF vars, taskVars, childVars, IInv, TypeOK, TaskInv, NamesAccounted, Live,
       Running, Early
  <2>2. SegmentInv' /\ PidInv' /\ OwnStepsOnly'
    BY <1>2 DEF vars, taskVars, childVars, IInv, SegmentInv, PidInv, OwnStepsOnly
  <2>3. ReachInv' /\ EarlyInv'
    BY <1>2 DEF vars, taskVars, childVars, IInv, ReachInv, EarlyInv, Reach, Early
  <2>. QED  BY <2>1, <2>2, <2>3 DEF IInv
<1>. QED  BY <1>1, <1>2 DEF Next

(* The inductive invariant: a segment is within reach of one task only.      *)
THEOREM Invariance == Spec => []IInv
<1>. QED  BY InitIInv, NextIInv, PTL DEF Spec

(* Types.                                                                    *)
THEOREM TypeCorrectness == Spec => []TypeOK
<1>1. IInv => TypeOK
  BY DEF IInv
<1>. QED  BY <1>1, Invariance, PTL

(* NcclMetricSource::read() sees the steps of the task's own command, for    *)
(* any number of tasks and reuses of process ids.                            *)
THEOREM OwnSteps == Spec => []OwnStepsOnly
<1>1. IInv => OwnStepsOnly
  BY DEF IInv
<1>. QED  BY <1>1, Invariance, PTL

(* The name in the command's environment leads to the task's segment.        *)
THEOREM NameLeadsToSegment == Spec => []CommandFindsSegment
<1>1. IInv => CommandFindsSegment
  BY SourcesAssumption DEF IInv, TypeOK, TaskInv, SegmentInv, CommandFindsSegment, Live
<1>. QED  BY <1>1, Invariance, PTL

(* Every name in /dev/shm is a running task's, or waits for the next task    *)
(* with the process id of one that was killed.                               *)
THEOREM EveryNameAccounted == Spec => []NamesAccounted
<1>1. IInv => NamesAccounted
  BY DEF IInv
<1>. QED  BY <1>1, Invariance, PTL

==========================================================================
