------------------------------ MODULE Profiler ------------------------------
(***************************************************************************)
(* The NCCL profiler plugin: the callbacks NCCL makes for proxy operations   *)
(* and their steps, the pools the plugin takes their handles from, and the   *)
(* shared-memory counters that the contexts of all rank processes of a node  *)
(* add to and the gather task reads.                                         *)
(*                                                                           *)
(* A lane is a channel and a direction: the eight counters of a channel are  *)
(* two independent groups of four.  NCCL is external; what is assumed of it  *)
(* is that it makes the callbacks of one context one at a time, ends the     *)
(* steps of an operation before the operation, and finalizes a context after *)
(* all of them.  Contexts run concurrently; each counter update is atomic.   *)
(***************************************************************************)
EXTENDS Integers, FiniteSetsExt

CONSTANTS
  Ctx,         \* profiler contexts: one per communicator of a rank process
  Lane,        \* the lanes NCCL uses
  FarLane,     \* those whose channel is MAX_NCCL_CHANNELS or beyond
  OpSlots,     \* slots of an op pool, OP_POOL_SIZE
  StepSlots,   \* slots of a step pool, STEP_POOL_SIZE
  OpenOps,     \* bound: operations a context has open at a time
  OpenSteps,   \* bound: steps a context has open at a time
  MaxSteps,    \* bound: steps of the run
  MaxSize,     \* bound: bytes of a step
  Duration     \* the durations of steps

ASSUME ProfilerAssumption ==
  /\ IsFiniteSet(Ctx)
  /\ FarLane \subseteq Lane
  /\ {OpSlots, StepSlots} \subseteq Nat \ {0}
  /\ {OpenOps, OpenSteps, MaxSteps, MaxSize} \subseteq Nat
  /\ Duration \subseteq Nat

Null == 0      \* no handle
OpSlot == 1..OpSlots
StepSlot == 1..StepSlots
OpId == 1..OpenOps
StepId == 1..OpenSteps

VARIABLES
  state,     \* ctx -> "none", "live", or "null": no shared memory
  op,        \* ctx -> slot -> the lane in its ProxyOpHandle, stale when free
  opFree,    \* ctx -> the free slots of the op pool
  step,      \* ctx -> slot -> [parent, size], its ProxyStepHandle
  stepFree,  \* ctx -> the free slots of the step pool
  openOp,    \* NCCL: ctx -> id -> [lane, foreign, handle] or Closed
  openStep,  \* NCCL: ctx -> id -> [op, handle, size] or Closed
  steps,     \* steps so far
  stopping,  \* ctx -> the stopEvent of a step under way, or Idle
  shm,       \* lane -> [count, bytes, duration, max]
  due        \* history: lane -> what the steps with a handle that ended add
             \* up to

pools == <<op, opFree, step, stepFree>>
vars == <<state, pools, openOp, openStep, steps, stopping, shm, due>>

Zero == [count |-> 0, bytes |-> 0, duration |-> 0, max |-> 0]
Closed == [closed |-> TRUE]
Idle == [idle |-> TRUE]

Init ==
  /\ state = [c \in Ctx |-> "none"]
  /\ op = [c \in Ctx |-> [s \in OpSlot |-> Null]]
  /\ opFree = [c \in Ctx |-> OpSlot]
  /\ step = [c \in Ctx |-> [s \in StepSlot |-> [parent |-> Null, size |-> 0]]]
  /\ stepFree = [c \in Ctx |-> StepSlot]
  /\ openOp = [c \in Ctx |-> [i \in OpId |-> Closed]]
  /\ openStep = [c \in Ctx |-> [i \in StepId |-> Closed]]
  /\ steps = 0
  /\ stopping = [c \in Ctx |-> Idle]
  /\ shm = [l \in Lane |-> Zero] /\ due = [l \in Lane |-> Zero]

(* Pool::alloc: the lowest free slot, or none. *)
Alloc(free) == IF free = {} THEN Null ELSE Min(free)

(* NCCL calls back for context c. *)
Calls(c) == state[c] # "none" /\ stopping[c] = Idle

(* Its ids are names only: a new event gets the first one that is free.      *)
FirstFree(open, i) == open[i] = Closed /\ \A j \in 1..(i - 1) : open[j] # Closed

----------------------------------------------------------------------------
(* gatherInit, with the shared memory mapped or not. *)
Open(c) ==
  /\ state[c] = "none"
  /\ state' = [state EXCEPT ![c] = "live"]
  /\ UNCHANGED <<pools, openOp, openStep, steps, stopping, shm, due>>

OpenWithoutShm(c) ==
  /\ state[c] = "none"
  /\ state' = [state EXCEPT ![c] = "null"]
  /\ UNCHANGED <<pools, openOp, openStep, steps, stopping, shm, due>>

(* gatherFinalize deletes the context; the next one has pools of its own.    *)
Finalize(c) ==
  /\ Calls(c)
  /\ \A i \in OpId : openOp[c][i] = Closed
  /\ state' = [state EXCEPT ![c] = "none"]
  /\ opFree' = [opFree EXCEPT ![c] = OpSlot]
  /\ stepFree' = [stepFree EXCEPT ![c] = StepSlot]
  /\ UNCHANGED <<op, step, openOp, openStep, steps, stopping, shm, due>>

(* startEvent of a ProxyOp.  No handle for one of another process.           *)
StartOp(c, i, lane) ==
  /\ Calls(c) /\ FirstFree(openOp[c], i)
  /\ LET h == IF state[c] = "live" THEN Alloc(opFree[c]) ELSE Null
     IN  /\ openOp' = [openOp EXCEPT ![c][i] =
              [lane |-> lane, foreign |-> FALSE, handle |-> h]]
         /\ opFree' = [opFree EXCEPT ![c] = @ \ {h}]
         /\ op' = [op EXCEPT ![c] = [s \in OpSlot |-> IF s = h THEN lane ELSE @[s]]]
  /\ UNCHANGED <<state, step, stepFree, openStep, steps, stopping, shm, due>>

StartForeignOp(c, i) ==
  /\ Calls(c) /\ FirstFree(openOp[c], i)
  /\ openOp' = [openOp EXCEPT ![c][i] =
       [lane |-> Null, foreign |-> TRUE, handle |-> Null]]
  /\ UNCHANGED <<state, pools, openStep, steps, stopping, shm, due>>

(* startEvent of a ProxyStep.  StartStepUnset does not set trans_size.       *)
StartStepUnset(c, i, o) ==
  /\ Calls(c) /\ FirstFree(openStep[c], i) /\ openOp[c][o] # Closed
  /\ steps < MaxSteps
  /\ steps' = steps + 1
  /\ LET parent == openOp[c][o].handle
         h == IF parent = Null THEN Null ELSE Alloc(stepFree[c])
     IN  /\ openStep' = [openStep EXCEPT ![c][i] = [op |-> o, handle |-> h, size |-> 0]]
         /\ stepFree' = [stepFree EXCEPT ![c] = @ \ {h}]
         /\ step' = [step EXCEPT ![c] = [s \in StepSlot |->
              IF s = h THEN [parent |-> parent, size |-> step[c][s].size] ELSE @[s]]]
  /\ UNCHANGED <<state, op, opFree, openOp, stopping, shm, due>>
StartStep(c, i, o) ==
  /\ Calls(c) /\ FirstFree(openStep[c], i) /\ openOp[c][o] # Closed
  /\ steps < MaxSteps
  /\ steps' = steps + 1
  /\ LET parent == openOp[c][o].handle
         h == IF parent = Null THEN Null ELSE Alloc(stepFree[c])
     IN  /\ openStep' = [openStep EXCEPT ![c][i] = [op |-> o, handle |-> h, size |-> 0]]
         /\ stepFree' = [stepFree EXCEPT ![c] = @ \ {h}]
         /\ step' = [step EXCEPT ![c] = [s \in StepSlot |->
              IF s = h THEN [parent |-> parent, size |-> 0] ELSE @[s]]]
  /\ UNCHANGED <<state, op, opFree, openOp, stopping, shm, due>>

(* recordEventState: bytes of a step. *)
RecordState(c, i) ==
  /\ Calls(c) /\ openStep[c][i] # Closed /\ openStep[c][i].size < MaxSize
  /\ openStep' = [openStep EXCEPT ![c][i].size = @ + 1]
  /\ step' = IF openStep[c][i].handle = Null THEN step
             ELSE [step EXCEPT ![c][openStep[c][i].handle].size = @ + 1]
  /\ UNCHANGED <<state, op, opFree, stepFree, openOp, steps, stopping, shm, due>>

(* What the counters of a lane are after a step: field by field.             *)
Added(group, size, dur) ==
  [count |-> group.count + 1, bytes |-> group.bytes + size,
   duration |-> group.duration + dur, max |-> Max({group.max, dur})]

(* The four counters of a step that ends.  AllButMax forgets one.            *)
AllButMax == {"count", "bytes", "duration"}
Touched == {"count", "bytes", "duration", "max"}

(* stopEvent of a step begins.  The lane is the one in the parent's slot.    *)
StopStep(c, i, dur) ==
  /\ Calls(c) /\ openStep[c][i] # Closed
  /\ openStep' = [openStep EXCEPT ![c][i] = Closed]
  /\ IF openStep[c][i].handle = Null
     THEN UNCHANGED <<stopping, due>>
     ELSE LET s == openStep[c][i].handle
              lane == op[c][step[c][s].parent]
              true == openOp[c][openStep[c][i].op].lane
          IN  /\ stopping' = [stopping EXCEPT ![c] =
                   [slot |-> s, lane |-> lane, dur |-> dur,
                    todo |-> IF lane \in FarLane THEN {} ELSE Touched]]
              /\ due' = IF true \in FarLane THEN due
                        ELSE [due EXCEPT ![true] = Added(@, openStep[c][i].size, dur)]
  /\ UNCHANGED <<state, pools, openOp, steps, shm>>

(* One fetch_add, or the atomic maximum (see AtomicMax).  They are relaxed:  *)
(* others may see the four in any order.                                     *)
AddCounter(c) ==
  /\ stopping[c] # Idle
  /\ \E f \in stopping[c].todo :
       LET s == stopping[c]
       IN  /\ shm' = [shm EXCEPT ![s.lane][f] =
                Added(shm[s.lane], step[c][s.slot].size, s.dur)[f]]
           /\ stopping' = [stopping EXCEPT ![c].todo = @ \ {f}]
  /\ UNCHANGED <<state, pools, openOp, openStep, steps, due>>

ReleaseStep(c) ==
  /\ stopping[c] # Idle /\ stopping[c].todo = {}
  /\ stepFree' = [stepFree EXCEPT ![c] = @ \cup {stopping[c].slot}]
  /\ stopping' = [stopping EXCEPT ![c] = Idle]
  /\ UNCHANGED <<state, op, opFree, step, openOp, openStep, steps, shm, due>>

(* stopEvent of an operation, after its steps.  StopOpLeaks keeps the slot.  *)
StopOpLeaks(c, o) ==
  /\ Calls(c) /\ openOp[c][o] # Closed
  /\ \A i \in StepId : openStep[c][i] # Closed => openStep[c][i].op # o
  /\ openOp' = [openOp EXCEPT ![c][o] = Closed]
  /\ UNCHANGED <<state, pools, openStep, steps, stopping, shm, due>>
StopOp(c, o) ==
  /\ Calls(c) /\ openOp[c][o] # Closed
  /\ \A i \in StepId : openStep[c][i] # Closed => openStep[c][i].op # o
  /\ openOp' = [openOp EXCEPT ![c][o] = Closed]
  /\ opFree' = [opFree EXCEPT ![c] = @ \cup ({openOp[c][o].handle} \ {Null})]
  /\ UNCHANGED <<state, op, step, stepFree, openStep, steps, stopping, shm, due>>

Callback(c) ==
  \/ Open(c) \/ OpenWithoutShm(c) \/ Finalize(c) \/ AddCounter(c) \/ ReleaseStep(c)
  \/ \E o \in OpId :
       \/ \E lane \in Lane : StartOp(c, o, lane)
       \/ StartForeignOp(c, o) \/ StopOp(c, o)
       \/ \E i \in StepId : StartStep(c, i, o)
  \/ \E i \in StepId : RecordState(c, i) \/ \E dur \in Duration : StopStep(c, i, dur)

Next == \E c \in Ctx : Callback(c)

Spec == Init /\ [][Next]_vars

----------------------------------------------------------------------------
(* Properties. *)

CounterGroup == [count : Nat, bytes : Nat, duration : Nat, max : Nat]

TypeOK ==
  /\ state \in [Ctx -> {"none", "null", "live"}]
  /\ op \in [Ctx -> [OpSlot -> Lane \cup {Null}]]
  /\ opFree \in [Ctx -> SUBSET OpSlot] /\ stepFree \in [Ctx -> SUBSET StepSlot]
  /\ step \in [Ctx -> [StepSlot -> [parent : OpSlot \cup {Null}, size : 0..MaxSize]]]
  /\ steps \in 0..MaxSteps
  /\ shm \in [Lane -> CounterGroup] /\ due \in [Lane -> CounterGroup]

OpHandles(c) ==
  {openOp[c][o].handle : o \in {i \in OpId : openOp[c][i] # Closed}} \ {Null}
StepHandles(c) ==
  {openStep[c][i].handle : i \in {j \in StepId : openStep[c][j] # Closed}} \ {Null}

(* The slots in use are the handles NCCL holds, and no two events share one: *)
(* no slot leaks and none is handed out twice (nccl_profiler.cc:81-96,       *)
(* 183-249).                                                                 *)
SlotsAccounted ==
  \A c \in Ctx : stopping[c] = Idle =>
    /\ OpHandles(c) = OpSlot \ opFree[c]
    /\ StepHandles(c) = StepSlot \ stepFree[c]
    /\ \A o, p \in OpId : openOp[c][o] # Closed /\ openOp[c][p] # Closed /\ o # p =>
         openOp[c][o].handle = Null \/ openOp[c][o].handle # openOp[c][p].handle

(* Once no stopEvent is under way each lane has counted exactly its own      *)
(* steps, their bytes and durations, and the longest one, whatever the       *)
(* contexts did at the same time and whatever slots they reused.  So no      *)
(* counter falls, whoever attaches, and the unsigned differences of the CSV  *)
(* (counter_aggregation.cpp:1144) never go around.                           *)
CountersAddUp ==
  (\A c \in Ctx : stopping[c] = Idle) => shm = due

(* "4 ch x 2 dir = 8 live ops max", "steps are sequential per op"            *)
(* (nccl_profiler.cc:57-58): an event of a live context's own process is     *)
(* dropped only while as many events as the pool has slots are open, never   *)
(* because the run was long.                                                 *)
DroppedOnlyWhenFull ==
  [][\A c \in Ctx : state[c] = "live" =>
       /\ \A o \in OpId :
            openOp[c][o] = Closed /\ openOp'[c][o] # Closed /\ ~openOp'[c][o].foreign =>
              openOp'[c][o].handle # Null \/ Cardinality(OpHandles(c)) = OpSlots
       /\ \A i \in StepId :
            openStep[c][i] = Closed /\ openStep'[c][i] # Closed =>
              \/ openStep'[c][i].handle # Null
              \/ Cardinality(StepHandles(c)) = StepSlots
              \/ openOp[c][openStep'[c][i].op].handle = Null]_vars
=============================================================================
