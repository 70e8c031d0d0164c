--------------------------- MODULE ProfilerProofs ---------------------------
(***************************************************************************)
(* Proofs about Profiler, for any finite set of contexts, lanes, pool sizes  *)
(* and numbers of open events: a handle names one event, and the counters    *)
(* are what the steps that ended add up to.  At the end, that AtomicMax is   *)
(* the one step that Profiler takes it for.                                  *)
(***************************************************************************)
EXTENDS Profiler, AtomicMax, FiniteSetTheorems, WellFoundedInduction, TLAPS

OpEvent == [lane : Lane \cup {Null}, foreign : BOOLEAN, handle : OpSlot \cup {Null}]
StepEvent == [op : OpId, handle : StepSlot \cup {Null}, size : 0..MaxSize]
Stop == [slot : StepSlot, lane : Lane, dur : Duration, todo : SUBSET Touched]

(* What NCCL holds. *)
Events ==
  /\ openOp \in [Ctx -> [OpId -> OpEvent \cup {Closed}]]
  /\ openStep \in [Ctx -> [StepId -> StepEvent \cup {Closed}]]
  /\ stopping \in [Ctx -> Stop \cup {Idle}]

(* A context that is not there has nothing open.                             *)
NoneOpen(c) ==
  state[c] = "none" =>
    /\ \A o \in OpId : openOp[c][o] = Closed
    /\ stopping[c] = Idle

(* The handle of an open operation is a slot in use that holds its lane, no  *)
(* other has it, and every slot in use is such a handle.                     *)
OpHeld(c) ==
  \A o \in OpId : openOp[c][o] # Closed /\ openOp[c][o].handle # Null =>
    /\ openOp[c][o].handle \notin opFree[c]
    /\ op[c][openOp[c][o].handle] = openOp[c][o].lane
    /\ openOp[c][o].lane \in Lane
OpApart(c) ==
  \A o, p \in OpId :
    /\ openOp[c][o] # Closed /\ openOp[c][p] # Closed /\ o # p
    /\ openOp[c][o].handle # Null
    => openOp[c][o].handle # openOp[c][p].handle
OpNoLeak(c) ==
  \A s \in OpSlot \ opFree[c] :
    \E o \in OpId : openOp[c][o] # Closed /\ openOp[c][o].handle = s

(* The same of steps: the slot holds the handle of an operation still open,  *)
(* and a step that is stopping still has its slot.                           *)
StepHeld(c) ==
  \A i \in StepId : openStep[c][i] # Closed =>
    /\ openOp[c][openStep[c][i].op] # Closed
    /\ openStep[c][i].handle # Null =>
         /\ openStep[c][i].handle \notin stepFree[c]
         /\ openOp[c][openStep[c][i].op].handle # Null
         /\ step[c][openStep[c][i].handle] =
              [parent |-> openOp[c][openStep[c][i].op].handle,
               size |-> openStep[c][i].size]
StepApart(c) ==
  \A i, j \in StepId :
    /\ openStep[c][i] # Closed /\ openStep[c][j] # Closed /\ i # j
    /\ openStep[c][i].handle # Null
    => openStep[c][i].handle # openStep[c][j].handle
StepStopping(c) ==
  stopping[c] # Idle =>
    /\ stopping[c].slot \notin stepFree[c]
    /\ \A i \in StepId :
         openStep[c][i] # Closed => openStep[c][i].handle # stopping[c].slot
StepNoLeak(c) ==
  \A s \in StepSlot \ stepFree[c] :
    \/ \E i \in StepId : openStep[c][i] # Closed /\ openStep[c][i].handle = s
    \/ stopping[c] # Idle /\ stopping[c].slot = s

Pools(c) ==
  /\ NoneOpen(c)
  /\ OpHeld(c) /\ OpApart(c) /\ OpNoLeak(c)
  /\ StepHeld(c) /\ StepApart(c) /\ StepStopping(c) /\ StepNoLeak(c)

PoolInv == TypeOK /\ Events /\ \A c \in Ctx : Pools(c)
----------------------------------------------------------------------------
LEMMA Facts ==
  /\ OpSlot \subseteq Nat /\ Null \notin OpSlot
  /\ StepSlot \subseteq Nat /\ Null \notin StepSlot
  /\ Closed \notin OpEvent /\ Closed \notin StepEvent /\ Idle \notin Stop
<1>1. DOMAIN Closed = {"closed"} /\ DOMAIN Idle = {"idle"}  BY DEF Closed, Idle
<1>2. \A e \in OpEvent : DOMAIN e = {"lane", "foreign", "handle"}  BY DEF OpEvent
<1>3. \A e \in StepEvent : DOMAIN e = {"op", "handle", "size"}  BY DEF StepEvent
<1>4. \A e \in Stop : DOMAIN e = {"slot", "lane", "dur", "todo"}  BY DEF Stop
<1>5. Closed \notin OpEvent /\ Closed \notin StepEvent /\ Idle \notin Stop
  BY <1>1, <1>2, <1>3, <1>4
<1> QED BY <1>5, ProfilerAssumption DEF OpSlot, StepSlot, Null

LEMMA Least ==
  ASSUME NEW T, T \subseteq Nat, T # {}
  PROVE  \E x \in T : \A y \in T : x <= y
<1> DEFINE R == OpToRel(<, Nat)
<1>1. IsWellFoundedOn(R, Nat)  BY NatLessThanWellFounded
<1>2. \A x, y \in Nat : x < y => <<x, y>> \in R  BY DEF OpToRel
<1> HIDE DEF R
<1>3. PICK x \in T : \A y \in T : ~(<<y, x>> \in R)  BY <1>1, WFMin
<1>4. \A y \in T : x <= y
  <2> TAKE y \in T
  <2>1. x \in Nat /\ y \in Nat  OBVIOUS
  <2>2. ~(y < x)  BY <1>2, <1>3, <2>1
  <2> QED BY <2>1, <2>2
<1> QED BY <1>4

(* Pool::alloc gives a free slot unless there is none. *)
LEMMA Allocates ==
  ASSUME NEW free, free \subseteq Nat
  PROVE  /\ free # {} => Alloc(free) \in free
         /\ free = {} => Alloc(free) = Null
BY Least DEF Alloc, Min

(* A context the step does not touch keeps its pools. *)
Same(d) ==
  /\ state'[d] = state[d] /\ op'[d] = op[d] /\ opFree'[d] = opFree[d]
  /\ step'[d] = step[d] /\ stepFree'[d] = stepFree[d]
  /\ openOp'[d] = openOp[d] /\ openStep'[d] = openStep[d]
  /\ stopping'[d] = stopping[d]

LEMMA SamePools == ASSUME NEW d \in Ctx, Pools(d), Same(d) PROVE Pools(d)'
<1> USE DEF Same, Pools
<1>1. NoneOpen(d)'  BY DEF NoneOpen
<1>2. OpHeld(d)' /\ OpApart(d)' /\ OpNoLeak(d)'  BY DEF OpHeld, OpApart, OpNoLeak
<1>3. StepHeld(d)' /\ StepApart(d)'  BY DEF StepHeld, StepApart
<1>4. StepStopping(d)' /\ StepNoLeak(d)'  BY DEF StepStopping, StepNoLeak
<1> QED BY <1>1, <1>2, <1>3, <1>4

LEMMA OnlyOne ==
  ASSUME \A d \in Ctx : Pools(d), NEW c \in Ctx, \A d \in Ctx : d # c => Same(d),
         Pools(c)'
  PROVE  \A d \in Ctx : Pools(d)'
<1> SUFFICES ASSUME NEW d \in Ctx, d # c PROVE Pools(d)'  OBVIOUS
<1> QED BY SamePools

(* Open, OpenWithoutShm and Finalize. *)
LEMMA LifePools ==
  ASSUME PoolInv, NEW c \in Ctx, Open(c) \/ OpenWithoutShm(c) \/ Finalize(c)
  PROVE  PoolInv'
<1> USE DEF PoolInv
<1>1. \A d \in Ctx : d # c => Same(d)
  BY DEF Open, OpenWithoutShm, Finalize, TypeOK, Same, pools
<1>2. TypeOK'
  <2>1. CASE Finalize(c)  BY <2>1 DEF Finalize, TypeOK
  <2>2. CASE Open(c) \/ OpenWithoutShm(c)
    BY <2>2 DEF Open, OpenWithoutShm, TypeOK, pools
  <2> QED BY <2>1, <2>2
<1>3. Events'  BY DEF Open, OpenWithoutShm, Finalize, Events, pools
<1>4. /\ openOp' = openOp /\ openStep' = openStep /\ stopping' = stopping
      /\ op' = op /\ step' = step
  BY DEF Open, OpenWithoutShm, Finalize, pools
<1>5. /\ \A o \in OpId : openOp[c][o] = Closed
      /\ stopping[c] = Idle
  BY DEF Open, OpenWithoutShm, Finalize, Calls, Pools, NoneOpen
<1>6. \A i \in StepId : openStep[c][i] = Closed
  <2> SUFFICES ASSUME NEW i \in StepId, openStep[c][i] # Closed PROVE FALSE  OBVIOUS
  <2>1. openStep[c][i].op \in OpId  BY DEF Events, StepEvent
  <2> QED BY <1>5, <2>1 DEF Pools, StepHeld
<1>7. opFree'[c] = OpSlot
  <2>1. CASE Finalize(c)  BY <2>1 DEF Finalize, TypeOK
  <2>2. CASE ~Finalize(c)
    <3>1. opFree'[c] = opFree[c] /\ opFree[c] \subseteq OpSlot
      BY <2>2 DEF Open, OpenWithoutShm, TypeOK, pools
    <3> QED BY <3>1, <1>5 DEF Pools, OpNoLeak
  <2> QED BY <2>1, <2>2
<1>8. stepFree'[c] = StepSlot
  <2>1. CASE Finalize(c)  BY <2>1 DEF Finalize, TypeOK
  <2>2. CASE ~Finalize(c)
    <3>1. stepFree'[c] = stepFree[c] /\ stepFree[c] \subseteq StepSlot
      BY <2>2 DEF Open, OpenWithoutShm, TypeOK, pools
    <3>2. ASSUME NEW s \in StepSlot PROVE s \in stepFree[c]
      BY <1>5, <1>6 DEF Pools, StepNoLeak
    <3> QED BY <3>1, <3>2
  <2> QED BY <2>1, <2>2
<1>9. Pools(c)'
  <2>1. NoneOpen(c)'  BY <1>4, <1>5 DEF NoneOpen
  <2>2. OpHeld(c)' /\ OpApart(c)' /\ OpNoLeak(c)'
    BY <1>4, <1>5, <1>7 DEF OpHeld, OpApart, OpNoLeak
  <2>3. StepHeld(c)' /\ StepApart(c)' /\ StepStopping(c)' /\ StepNoLeak(c)'
    BY <1>4, <1>5, <1>6, <1>8 DEF StepHeld, StepApart, StepStopping, StepNoLeak
  <2> QED BY <2>1, <2>2, <2>3 DEF Pools
<1>10. \A d \in Ctx : Pools(d)'  BY <1>1, <1>9, OnlyOne
<1> QED BY <1>2, <1>3, <1>10

(* StartOp and StartForeignOp: a handle, if any, is a slot no event has.     *)
LEMMA NewOpPools ==
  ASSUME PoolInv, NEW c \in Ctx, NEW o \in OpId, NEW e \in OpEvent,
         state[c] # "none", openOp[c][o] = Closed,
         e.handle # Null => e.handle \in opFree[c] /\ e.lane \in Lane,
         openOp' = [openOp EXCEPT ![c][o] = e],
         opFree' = [opFree EXCEPT ![c] = @ \ {e.handle}],
         op' = [op EXCEPT ![c] = [s \in OpSlot |-> IF s = e.handle THEN e.lane ELSE @[s]]],
         UNCHANGED <<state, step, stepFree, openStep, steps, stopping, shm, due>>
  PROVE  PoolInv'
<1> USE DEF PoolInv
<1>1. \A d \in Ctx : d # c => Same(d)  BY DEF TypeOK, Events, Same
<1>2. TypeOK'  BY Facts DEF TypeOK, OpEvent
<1>3. Events'  BY DEF Events
<1>4. /\ openOp'[c] = [openOp[c] EXCEPT ![o] = e] /\ opFree'[c] = opFree[c] \ {e.handle}
      /\ \A p \in OpId : openOp'[c][p] = IF p = o THEN e ELSE openOp[c][p]
      /\ \A s \in OpSlot : op'[c][s] = IF s = e.handle THEN e.lane ELSE op[c][s]
  BY DEF Events, TypeOK
<1>5. \A p \in OpId : openOp[c][p] # Closed =>
        p # o /\ openOp[c][p] \in OpEvent /\ openOp[c][p].handle \in OpSlot \cup {Null}
  BY DEF Events, OpEvent
<1>6. e # Closed /\ e.handle \in OpSlot \cup {Null}  BY Facts DEF OpEvent
<1>7. Pools(c)'
  <2>1. NoneOpen(c)'  BY DEF NoneOpen
  <2>2. OpHeld(c)'
    <3> SUFFICES ASSUME NEW p \in OpId, openOp'[c][p] # Closed, openOp'[c][p].handle # Null
                 PROVE  /\ openOp'[c][p].handle \notin opFree'[c]
                        /\ op'[c][openOp'[c][p].handle] = openOp'[c][p].lane
                        /\ openOp'[c][p].lane \in Lane
      BY DEF OpHeld
    <3>1. CASE p = o  BY <3>1, <1>4, <1>6
    <3>2. CASE p # o
      BY <3>2, <1>4, <1>5 DEF Pools, OpHeld
    <3> QED BY <3>1, <3>2
  <2>3. OpApart(c)'  BY <1>4, <1>5, <1>6 DEF Pools, OpHeld, OpApart
  <2>4. OpNoLeak(c)'
    <3> SUFFICES ASSUME NEW s \in OpSlot, s \notin opFree'[c]
                 PROVE  \E p \in OpId : openOp'[c][p] # Closed /\ openOp'[c][p].handle = s
      BY DEF OpNoLeak
    <3>1. CASE s = e.handle  BY <3>1, <1>4, <1>6
    <3>2. CASE s # e.handle  BY <3>2, <1>4, <1>5 DEF Pools, OpNoLeak
    <3> QED BY <3>1, <3>2
  <2>5. StepHeld(c)'
    <3> SUFFICES ASSUME NEW i \in StepId, openStep[c][i] # Closed
                 PROVE  openOp'[c][openStep[c][i].op] = openOp[c][openStep[c][i].op]
      BY DEF Pools, StepHeld
    <3>1. openStep[c][i].op \in OpId  BY DEF Events, StepEvent
    <3>2. openOp[c][openStep[c][i].op] # Closed  BY DEF Pools, StepHeld
    <3> QED BY <3>1, <3>2, <1>4
  <2>6. StepApart(c)' /\ StepStopping(c)' /\ StepNoLeak(c)'
    BY DEF Pools, StepApart, StepStopping, StepNoLeak
  <2> QED BY <2>1, <2>2, <2>3, <2>4, <2>5, <2>6 DEF Pools
<1>8. \A d \in Ctx : Pools(d)'  BY <1>1, <1>7, OnlyOne
<1> QED BY <1>2, <1>3, <1>8

LEMMA StartOpPools ==
  ASSUME PoolInv, NEW c \in Ctx, NEW o \in OpId, NEW lane \in Lane, StartOp(c, o, lane)
  PROVE  PoolInv'
<1> DEFINE h == IF state[c] = "live" THEN Alloc(opFree[c]) ELSE Null
           e == [lane |-> lane, foreign |-> FALSE, handle |-> h]
<1>1. opFree[c] \subseteq OpSlot  BY DEF PoolInv, TypeOK
<1>2. h \in opFree[c] \cup {Null}  BY <1>1, Facts, Allocates
<1> HIDE DEF h
<1>3. e \in OpEvent /\ e.handle = h /\ e.lane = lane  BY <1>1, <1>2 DEF OpEvent
<1>4. state[c] # "none" /\ openOp[c][o] = Closed  BY DEF StartOp, Calls, FirstFree
<1>5. /\ openOp' = [openOp EXCEPT ![c][o] = e]
      /\ opFree' = [opFree EXCEPT ![c] = @ \ {e.handle}]
      /\ op' = [op EXCEPT ![c] = [s \in OpSlot |-> IF s = e.handle THEN e.lane ELSE @[s]]]
      /\ UNCHANGED <<state, step, stepFree, openStep, steps, stopping, shm, due>>
  BY <1>3 DEF StartOp, h
<1> HIDE DEF e
<1> QED BY <1>2, <1>3, <1>4, <1>5, NewOpPools

LEMMA StartForeignOpPools ==
  ASSUME PoolInv, NEW c \in Ctx, NEW o \in OpId, StartForeignOp(c, o)
  PROVE  PoolInv'
<1> DEFINE e == [lane |-> Null, foreign |-> TRUE, handle |-> Null]
<1>1. e \in OpEvent /\ e.handle = Null  BY DEF OpEvent
<1>2. state[c] # "none" /\ openOp[c][o] = Closed  BY DEF StartForeignOp, Calls, FirstFree
<1>3. opFree' = [opFree EXCEPT ![c] = @ \ {e.handle}]
  BY <1>1, Facts DEF StartForeignOp, pools, PoolInv, TypeOK
<1>4. op' = [op EXCEPT ![c] = [s \in OpSlot |-> IF s = e.handle THEN e.lane ELSE @[s]]]
  <2>1. \A s \in OpSlot : s # e.handle  BY <1>1, Facts
  <2>2. op[c] = [s \in OpSlot |-> IF s = e.handle THEN e.lane ELSE op[c][s]]
    BY <2>1 DEF PoolInv, TypeOK
  <2> QED BY <2>2 DEF StartForeignOp, pools, PoolInv, TypeOK
<1>5. /\ openOp' = [openOp EXCEPT ![c][o] = e]
      /\ UNCHANGED <<state, step, stepFree, openStep, steps, stopping, shm, due>>
  BY DEF StartForeignOp, pools
<1> HIDE DEF e
<1> QED BY <1>1, <1>2, <1>3, <1>4, <1>5, NewOpPools

(* The slot an operation had is free again: no open step is of it.           *)
LEMMA StopOpPools ==
  ASSUME PoolInv, NEW c \in Ctx, NEW o \in OpId, StopOp(c, o) PROVE PoolInv'
<1> USE DEF PoolInv, StopOp
<1> DEFINE h == openOp[c][o].handle
<1>1. \A d \in Ctx : d # c => Same(d)  BY DEF TypeOK, Events, Same
<1>2. openOp[c][o] \in OpEvent /\ h \in OpSlot \cup {Null}
  BY DEF Events, OpEvent
<1>3. TypeOK'  BY <1>2 DEF TypeOK
<1>4. Events'  BY DEF Events
<1>5. /\ opFree'[c] = opFree[c] \cup ({h} \ {Null})
      /\ \A p \in OpId : openOp'[c][p] = IF p = o THEN Closed ELSE openOp[c][p]
  BY DEF Events, TypeOK
<1>6. Pools(c)'
  <2>1. NoneOpen(c)'  BY DEF NoneOpen, Calls
  <2>2. OpHeld(c)'  BY <1>5 DEF Pools, OpHeld, OpApart
  <2>3. OpApart(c)'  BY <1>5 DEF Pools, OpApart
  <2>4. OpNoLeak(c)'  BY <1>5, Facts DEF Pools, OpNoLeak
  <2>5. StepHeld(c)'
    <3> SUFFICES ASSUME NEW i \in StepId, openStep[c][i] # Closed
                 PROVE  openOp'[c][openStep[c][i].op] = openOp[c][openStep[c][i].op]
      BY DEF Pools, StepHeld
    <3>1. openStep[c][i].op \in OpId /\ openStep[c][i].op # o  BY DEF Events, StepEvent
    <3> QED BY <3>1, <1>5
  <2>6. StepApart(c)' /\ StepStopping(c)' /\ StepNoLeak(c)'
    BY DEF Pools, StepApart, StepStopping, StepNoLeak
  <2> QED BY <2>1, <2>2, <2>3, <2>4, <2>5, <2>6 DEF Pools
<1>7. \A d \in Ctx : Pools(d)'  BY <1>1, <1>6, OnlyOne
<1> QED BY <1>3, <1>4, <1>7

(* A step whose operation has a handle takes a free step slot, if any.       *)
LEMMA StartStepPools ==
  ASSUME PoolInv, NEW c \in Ctx, NEW i \in StepId, NEW o \in OpId, StartStep(c, i, o)
  PROVE  PoolInv'
<1> USE DEF PoolInv
<1> DEFINE parent == openOp[c][o].handle
           h == IF parent = Null THEN Null ELSE Alloc(stepFree[c])
           e == [op |-> o, handle |-> h, size |-> 0]
           held == [parent |-> parent, size |-> 0]
<1>1. stepFree[c] \subseteq StepSlot  BY DEF TypeOK
<1>2. openOp[c][o] # Closed /\ parent \in OpSlot \cup {Null}
  BY DEF StartStep, Events, OpEvent
<1>3. h \in stepFree[c] \cup {Null} /\ (parent = Null => h = Null)
  BY <1>1, Facts, Allocates
<1>4. /\ openStep' = [openStep EXCEPT ![c][i] = e]
      /\ stepFree' = [stepFree EXCEPT ![c] = @ \ {h}]
      /\ step' = [step EXCEPT ![c] = [s \in StepSlot |-> IF s = h THEN held ELSE @[s]]]
      /\ steps < MaxSteps /\ steps' = steps + 1
      /\ UNCHANGED <<state, op, opFree, openOp, stopping, shm, due>>
  BY DEF StartStep
<1>5. openStep[c][i] = Closed /\ stopping[c] = Idle
  BY DEF StartStep, Calls, FirstFree
<1> HIDE DEF h, parent
<1>6. e \in StepEvent /\ e # Closed /\ e.handle = h /\ e.op = o /\ e.size = 0
  <2>1. 0 \in 0..MaxSize  BY ProfilerAssumption
  <2>2. e \in StepEvent  BY <1>1, <1>3, <2>1 DEF StepEvent
  <2> QED BY <2>2, Facts
<1>7. held \in [parent : OpSlot \cup {Null}, size : 0..MaxSize]
  BY <1>2, ProfilerAssumption
<1> HIDE DEF e, held
<1>8. \A d \in Ctx : d # c => Same(d)  BY <1>4 DEF TypeOK, Events, Same
<1>9. TypeOK'
  <2>1. steps' \in 0..MaxSteps  BY <1>4, ProfilerAssumption DEF TypeOK
  <2>2. step' \in [Ctx -> [StepSlot -> [parent : OpSlot \cup {Null}, size : 0..MaxSize]]]
    BY <1>4, <1>7 DEF TypeOK
  <2> QED BY <1>4, <2>1, <2>2 DEF TypeOK
<1>10. Events'  BY <1>4, <1>6 DEF Events
<1>11. /\ stepFree'[c] = stepFree[c] \ {h}
       /\ \A j \in StepId : openStep'[c][j] = IF j = i THEN e ELSE openStep[c][j]
       /\ \A s \in StepSlot : step'[c][s] = IF s = h THEN held ELSE step[c][s]
  BY <1>4 DEF Events, TypeOK
<1>12. \A j \in StepId : openStep[c][j] # Closed =>
         /\ j # i
         /\ openStep[c][j].handle \in StepSlot \cup {Null}
         /\ h # Null => openStep[c][j].handle # h
  <2> SUFFICES ASSUME NEW j \in StepId, openStep[c][j] # Closed
               PROVE  /\ j # i
                      /\ openStep[c][j].handle \in StepSlot \cup {Null}
                      /\ h # Null => openStep[c][j].handle # h
    OBVIOUS
  <2>1. openStep[c][j].handle \in StepSlot \cup {Null}  BY DEF Events, StepEvent
  <2>2. openStep[c][j].handle # Null => openStep[c][j].handle \notin stepFree[c]
    BY DEF Pools, StepHeld
  <2> QED BY <2>1, <2>2, <1>3, <1>5
<1>13. Pools(c)'
  <2>1. NoneOpen(c)'  BY <1>4 DEF Pools, NoneOpen
  <2>2. OpHeld(c)' /\ OpApart(c)' /\ OpNoLeak(c)'
    BY <1>4 DEF Pools, OpHeld, OpApart, OpNoLeak
  <2>3. StepHeld(c)'
    <3> SUFFICES ASSUME NEW j \in StepId, openStep'[c][j] # Closed
                 PROVE  /\ openOp[c][openStep'[c][j].op] # Closed
                        /\ openStep'[c][j].handle # Null =>
                             /\ openStep'[c][j].handle \notin stepFree'[c]
                             /\ openOp[c][openStep'[c][j].op].handle # Null
                             /\ step'[c][openStep'[c][j].handle] =
                                  [parent |-> openOp[c][openStep'[c][j].op].handle,
                                   size |-> openStep'[c][j].size]
      BY <1>4 DEF StepHeld
    <3>1. CASE j = i
      <4>1. h # Null => held = [parent |-> openOp[c][o].handle, size |-> 0] /\ parent # Null
        BY <1>3 DEF held, parent
      <4> QED BY <3>1, <4>1, <1>1, <1>2, <1>3, <1>6, <1>11 DEF parent
    <3>2. CASE j # i
      BY <3>2, <1>11, <1>12 DEF Pools, StepHeld
    <3> QED BY <3>1, <3>2
  <2>4. StepApart(c)'  BY <1>6, <1>11, <1>12 DEF Pools, StepApart
  <2>5. StepStopping(c)'  BY <1>4, <1>5 DEF StepStopping
  <2>6. StepNoLeak(c)'
    <3> SUFFICES ASSUME NEW s \in StepSlot, s \notin stepFree'[c]
                 PROVE  \E j \in StepId : openStep'[c][j] # Closed /\ openStep'[c][j].handle = s
      BY DEF StepNoLeak
    <3>1. CASE s = h  BY <3>1, <1>6, <1>11
    <3>2. CASE s # h  BY <3>2, <1>5, <1>11, <1>12 DEF Pools, StepNoLeak
    <3> QED BY <3>1, <3>2
  <2> QED BY <2>1, <2>2, <2>3, <2>4, <2>5, <2>6 DEF Pools
<1>14. \A d \in Ctx : Pools(d)'  BY <1>8, <1>13, OnlyOne
<1> QED BY <1>9, <1>10, <1>14

LEMMA RecordStatePools ==
  ASSUME PoolInv, NEW c \in Ctx, NEW i \in StepId, RecordState(c, i)
  PROVE  PoolInv'
<1> USE DEF PoolInv
<1> DEFINE e == openStep[c][i]
           h == openStep[c][i].handle
<1>1. /\ e \in StepEvent /\ e # Closed /\ h \in StepSlot \cup {Null}
      /\ e.size \in 0..MaxSize /\ e.size < MaxSize /\ stopping[c] = Idle
      /\ e.size + 1 \in 0..MaxSize
  BY ProfilerAssumption DEF RecordState, Calls, Events, StepEvent
<1>2. /\ openStep' = [openStep EXCEPT ![c][i].size = @ + 1]
      /\ h = Null => step' = step
      /\ h # Null => step' = [step EXCEPT ![c][h].size = @ + 1]
      /\ UNCHANGED <<state, op, opFree, stepFree, openOp, steps, stopping, shm, due>>
  BY DEF RecordState
<1>3. h # Null => /\ step[c][h] = [parent |-> openOp[c][e.op].handle, size |-> e.size]
                  /\ step[c][h].size = e.size
  BY <1>1 DEF Pools, StepHeld
<1>4. \A d \in Ctx : d # c => Same(d)  BY <1>2 DEF TypeOK, Events, Same
<1>5. step' \in [Ctx -> [StepSlot -> [parent : OpSlot \cup {Null}, size : 0..MaxSize]]]
  <2>1. CASE h = Null  BY <2>1, <1>2 DEF TypeOK
  <2>2. CASE h # Null
    <3> DEFINE r == [step[c][h] EXCEPT !.size = e.size + 1]
    <3>1. step[c][h] \in [parent : OpSlot \cup {Null}, size : 0..MaxSize]
      BY <2>2, <1>1 DEF TypeOK
    <3>2. r \in [parent : OpSlot \cup {Null}, size : 0..MaxSize]  BY <3>1, <1>1
    <3>3. step' = [step EXCEPT ![c][h] = r]  BY <2>2, <1>2, <1>3
    <3> HIDE DEF r
    <3> QED BY <3>2, <3>3, <2>2, <1>1 DEF TypeOK
  <2> QED BY <2>1, <2>2
<1>6. /\ \A j \in StepId : openStep'[c][j] =
            IF j = i THEN [e EXCEPT !.size = e.size + 1] ELSE openStep[c][j]
      /\ \A s \in StepSlot : step'[c][s] =
            IF s = h THEN [step[c][s] EXCEPT !.size = e.size + 1] ELSE step[c][s]
  <2>1. \A j \in StepId : openStep'[c][j] =
          IF j = i THEN [e EXCEPT !.size = e.size + 1] ELSE openStep[c][j]
    BY <1>2 DEF Events
  <2>2. CASE h = Null  BY <2>1, <2>2, <1>2, Facts
  <2>3. CASE h # Null
    <3>1. step' = [step EXCEPT ![c][h] = [step[c][h] EXCEPT !.size = e.size + 1]]
      BY <2>3, <1>2, <1>3
    <3>2. \A s \in StepSlot : step'[c][s] =
            IF s = h THEN [step[c][s] EXCEPT !.size = e.size + 1] ELSE step[c][s]
      BY <3>1 DEF TypeOK
    <3> QED BY <2>1, <3>2
  <2> QED BY <2>2, <2>3
<1>7. [e EXCEPT !.size = e.size + 1] \in StepEvent
  BY <1>1 DEF StepEvent
<1> DEFINE f == openStep'[c][i]
<1>8. f \in StepEvent /\ f # Closed /\ f.op = e.op /\ f.handle = h /\ f.size = e.size + 1
  BY <1>1, <1>6, <1>7, Facts DEF StepEvent
<1>9. Events'
  <2>1. openStep' = [openStep EXCEPT ![c] = [openStep[c] EXCEPT ![i] = f]]
    BY <1>2, <1>6 DEF Events
  <2> QED BY <1>2, <1>8, <2>1 DEF Events
<1>10. TypeOK'  BY <1>2, <1>5 DEF TypeOK
<1> HIDE DEF f, e, h
<1>11. \A j \in StepId : j # i => openStep'[c][j] = openStep[c][j]  BY <1>6
<1>12. Pools(c)'
  <2>1. NoneOpen(c)'  BY <1>2 DEF Pools, NoneOpen
  <2>2. OpHeld(c)' /\ OpApart(c)' /\ OpNoLeak(c)'
    BY <1>2 DEF Pools, OpHeld, OpApart, OpNoLeak
  <2>3. StepHeld(c)'
    <3> SUFFICES ASSUME NEW j \in StepId, openStep'[c][j] # Closed
                 PROVE  /\ openOp[c][openStep'[c][j].op] # Closed
                        /\ openStep'[c][j].handle # Null =>
                             /\ openStep'[c][j].handle \notin stepFree[c]
                             /\ openOp[c][openStep'[c][j].op].handle # Null
                             /\ step'[c][openStep'[c][j].handle] =
                                  [parent |-> openOp[c][openStep'[c][j].op].handle,
                                   size |-> openStep'[c][j].size]
      BY <1>2 DEF StepHeld
    <3>1. CASE j = i
      <4>1. h # Null => step'[c][h] = [parent |-> openOp[c][e.op].handle, size |-> e.size + 1]
        BY <1>1, <1>3, <1>6
      <4> QED BY <3>1, <4>1, <1>1, <1>8 DEF Pools, StepHeld, f, e, h
    <3>2. CASE j # i
      <4>1. openStep[c][j] # Closed /\ openStep[c][j].handle \in StepSlot \cup {Null}
        BY <3>2, <1>11 DEF Events, StepEvent
      <4>2. openStep[c][j].handle # Null => openStep[c][j].handle # h
        BY <3>2, <4>1, <1>1 DEF Pools, StepApart, e, h
      <4>3. openStep[c][j].handle # Null =>
              step'[c][openStep[c][j].handle] = step[c][openStep[c][j].handle]
        BY <4>1, <4>2, <1>6
      <4> QED BY <3>2, <4>1, <4>3, <1>11 DEF Pools, StepHeld
    <3> QED BY <3>1, <3>2
  <2>4. StepApart(c)'  BY <1>1, <1>8, <1>11 DEF Pools, StepApart, e, f, h
  <2>5. StepStopping(c)'  BY <1>1, <1>2 DEF StepStopping
  <2>6. StepNoLeak(c)'
    BY <1>1, <1>2, <1>8, <1>11 DEF Pools, StepNoLeak, e, f, h
  <2> QED BY <2>1, <2>2, <2>3, <2>4, <2>5, <2>6 DEF Pools
<1>13. \A d \in Ctx : Pools(d)'  BY <1>4, <1>12, OnlyOne
<1> QED BY <1>9, <1>10, <1>13

LEMMA Larger ==
  ASSUME NEW q \in Nat, NEW b \in Nat
  PROVE  Max({q, b}) = IF q >= b THEN q ELSE b
<1> DEFINE m == IF q >= b THEN q ELSE b
<1>1. m \in {q, b} /\ \A x \in {q, b} : m >= x  OBVIOUS
<1>2. \A y \in {q, b} : (\A x \in {q, b} : y >= x) => y = m  OBVIOUS
<1> HIDE DEF m
<1>3. Max({q, b}) = m  BY <1>1, <1>2 DEF Max
<1> QED BY <1>3 DEF m

LEMMA Adds ==
  ASSUME NEW g, NEW size, NEW dur
  PROVE  /\ Added(g, size, dur)["count"] = g["count"] + 1
         /\ Added(g, size, dur)["bytes"] = g["bytes"] + size
         /\ Added(g, size, dur)["duration"] = g["duration"] + dur
BY DEF Added

LEMMA LongestOf ==
  ASSUME NEW g \in CounterGroup, NEW size, NEW dur \in Nat
  PROVE  Added(g, size, dur)["max"] = IF g["max"] >= dur THEN g["max"] ELSE dur
<1>1. g.max \in Nat  BY DEF CounterGroup
<1>2. Max({g.max, dur}) = IF g.max >= dur THEN g.max ELSE dur  BY <1>1, Larger
<1> QED BY <1>2 DEF Added

LEMMA AddedType ==
  ASSUME NEW g \in CounterGroup, NEW size \in Nat, NEW dur \in Nat
  PROVE  Added(g, size, dur) \in CounterGroup
<1>1. g.count \in Nat /\ g.bytes \in Nat /\ g.duration \in Nat /\ g.max \in Nat
  BY DEF CounterGroup
<1>2. Max({g.max, dur}) \in Nat  BY <1>1, Larger
<1> QED BY <1>1, <1>2 DEF Added, CounterGroup

(* What the stopEvent of a step does: the lane it finds by its slots is the  *)
(* lane of its own operation, and its size is in its slot.                   *)
StopEffect(c, e, dur) ==
  /\ e.handle \in StepSlot /\ openOp[c][e.op].lane \in Lane
  /\ step[c][e.handle].size = e.size
  /\ stopping' = [stopping EXCEPT ![c] =
       [slot |-> e.handle, lane |-> openOp[c][e.op].lane, dur |-> dur,
        todo |-> IF openOp[c][e.op].lane \in FarLane THEN {} ELSE Touched]]
  /\ due' = IF openOp[c][e.op].lane \in FarLane THEN due
            ELSE [due EXCEPT ![openOp[c][e.op].lane] = Added(@, e.size, dur)]

LEMMA StopFacts ==
  ASSUME PoolInv, NEW c \in Ctx, NEW i \in StepId, NEW dur \in Duration,
         StopStep(c, i, dur)
  PROVE  /\ stopping[c] = Idle /\ state[c] # "none"
         /\ openStep[c][i] # Closed /\ openStep[c][i] \in StepEvent
         /\ openStep' = [openStep EXCEPT ![c][i] = Closed]
         /\ UNCHANGED <<state, pools, openOp, steps, shm>>
         /\ openStep[c][i].handle = Null => UNCHANGED <<stopping, due>>
         /\ openStep[c][i].handle # Null => StopEffect(c, openStep[c][i], dur)
<1> USE DEF PoolInv
<1>1. /\ stopping[c] = Idle /\ state[c] # "none"
      /\ openStep[c][i] # Closed /\ openStep[c][i] \in StepEvent
      /\ openStep' = [openStep EXCEPT ![c][i] = Closed]
      /\ UNCHANGED <<state, pools, openOp, steps, shm>>
      /\ openStep[c][i].handle = Null => UNCHANGED <<stopping, due>>
  <2>1. /\ stopping[c] = Idle /\ state[c] # "none" /\ openStep[c][i] # Closed
        /\ openStep' = [openStep EXCEPT ![c][i] = Closed]
        /\ UNCHANGED <<state, pools, openOp, steps, shm>>
    BY DEF StopStep, Calls
  <2>2. openStep[c][i].handle = Null => UNCHANGED <<stopping, due>>  BY DEF StopStep
  <2>3. openStep[c][i] \in StepEvent  BY <2>1 DEF Events
  <2> QED BY <2>1, <2>2, <2>3
<1>2. ASSUME openStep[c][i].handle # Null PROVE StopEffect(c, openStep[c][i], dur)
  <2> DEFINE e == openStep[c][i]
             own == openOp[c][e.op]
  <2>1. e.handle \in StepSlot /\ e.op \in OpId  BY <1>1, <1>2 DEF StepEvent
  <2>2. /\ own # Closed /\ own.handle # Null
        /\ step[c][e.handle] = [parent |-> own.handle, size |-> e.size]
    BY <1>1, <1>2 DEF Pools, StepHeld
  <2>3. own.lane \in Lane /\ op[c][own.handle] = own.lane
    BY <2>1, <2>2 DEF Pools, OpHeld
  <2>4. step[c][e.handle].size = e.size /\ op[c][step[c][e.handle].parent] = own.lane
    <3> DEFINE r == step[c][e.handle]
    <3>1. r = [parent |-> own.handle, size |-> e.size]  BY <2>2
    <3> HIDE DEF r, e, own
    <3>2. r.parent = own.handle /\ r.size = e.size  BY <3>1
    <3>3. op[c][r.parent] = own.lane  BY <3>2, <2>3
    <3> QED BY <3>2, <3>3 DEF r
  <2>5. stopping' = [stopping EXCEPT ![c] =
          [slot |-> e.handle, lane |-> own.lane, dur |-> dur,
           todo |-> IF own.lane \in FarLane THEN {} ELSE Touched]]
    BY <1>2, <2>4 DEF StopStep
  <2>6. due' = IF own.lane \in FarLane THEN due
               ELSE [due EXCEPT ![own.lane] = Added(@, e.size, dur)]
    BY <1>2 DEF StopStep
  <2> QED BY <2>1, <2>3, <2>4, <2>5, <2>6 DEF StopEffect
<1> QED BY <1>1, <1>2

LEMMA StopStepPools ==
  ASSUME PoolInv, NEW c \in Ctx, NEW i \in StepId, NEW dur \in Duration,
         StopStep(c, i, dur)
  PROVE  PoolInv'
<1> USE DEF PoolInv
<1> DEFINE e == openStep[c][i]
           h == openStep[c][i].handle
<1>1. /\ stopping[c] = Idle /\ state[c] # "none"
      /\ e # Closed /\ e \in StepEvent /\ h \in StepSlot \cup {Null}
      /\ openStep' = [openStep EXCEPT ![c][i] = Closed]
      /\ UNCHANGED <<state, pools, openOp, steps, shm>>
      /\ h = Null => UNCHANGED <<stopping, due>>
      /\ h # Null => StopEffect(c, e, dur)
  BY StopFacts DEF StepEvent
<1>2. dur \in Nat /\ e.size \in Nat  BY <1>1, ProfilerAssumption DEF StepEvent
<1>3. /\ \A j \in StepId : openStep'[c][j] = IF j = i THEN Closed ELSE openStep[c][j]
      /\ \A d \in Ctx : d # c => openStep'[d] = openStep[d] /\ stopping'[d] = stopping[d]
  BY <1>1 DEF Events, StopEffect
<1>4. \A d \in Ctx : d # c => Same(d)  BY <1>1, <1>3 DEF Same, pools
<1>5. due' \in [Lane -> CounterGroup]
  <2>1. CASE h = Null  BY <2>1, <1>1 DEF TypeOK
  <2>2. CASE h # Null
    <3> DEFINE lane == openOp[c][e.op].lane
    <3>1. lane \in Lane /\ due[lane] \in CounterGroup
      BY <2>2, <1>1 DEF StopEffect, TypeOK
    <3>2. Added(due[lane], e.size, dur) \in CounterGroup  BY <3>1, <1>2, AddedType
    <3> QED BY <2>2, <3>1, <3>2, <1>1 DEF StopEffect, TypeOK
  <2> QED BY <2>1, <2>2
<1>6. TypeOK'  BY <1>1, <1>5 DEF TypeOK, pools
<1>7. h # Null => stopping'[c] \in Stop /\ stopping'[c].slot = h
  <2> DEFINE ln == openOp[c][e.op].lane
             td == IF ln \in FarLane THEN {} ELSE Touched
  <2> SUFFICES ASSUME h # Null PROVE stopping'[c] \in Stop /\ stopping'[c].slot = h  OBVIOUS
  <2>1. /\ stopping'[c] = [slot |-> h, lane |-> ln, dur |-> dur, todo |-> td]
        /\ h \in StepSlot /\ ln \in Lane
    BY <1>1 DEF StopEffect, Events
  <2>2. td \subseteq Touched  OBVIOUS
  <2> HIDE DEF ln, td
  <2> QED BY <2>1, <2>2 DEF Stop
<1>8. Events'
  <2>1. stopping' \in [Ctx -> Stop \cup {Idle}]
    BY <1>1, <1>7 DEF StopEffect, Events
  <2> QED BY <1>1, <2>1 DEF Events
<1> HIDE DEF e, h
<1>9. h # Null => stopping'[c] # Idle  BY <1>7, Facts
<1>10. \A j \in StepId : openStep'[c][j] # Closed =>
         j # i /\ openStep'[c][j] = openStep[c][j] /\ openStep[c][j] # Closed
  BY <1>3
<1>11. Pools(c)'
  <2> USE <1>1 DEF pools
  <2>1. NoneOpen(c)'  BY DEF NoneOpen
  <2>2. OpHeld(c)' /\ OpApart(c)' /\ OpNoLeak(c)'
    BY DEF Pools, OpHeld, OpApart, OpNoLeak
  <2>3. StepHeld(c)'  BY <1>10 DEF Pools, StepHeld
  <2>4. StepApart(c)'  BY <1>10 DEF Pools, StepApart
  <2>5. StepStopping(c)'
    <3>1. CASE h = Null  BY <3>1 DEF StepStopping
    <3>2. CASE h # Null
      <4>1. h \notin stepFree[c]  BY <3>2 DEF Pools, StepHeld, e, h
      <4>2. \A j \in StepId : openStep[c][j] # Closed /\ j # i => openStep[c][j].handle # h
        BY <3>2 DEF Pools, StepApart, e, h
      <4> QED BY <3>2, <4>1, <4>2, <1>7, <1>10 DEF StepStopping
    <3> QED BY <3>1, <3>2
  <2>6. StepNoLeak(c)'
    <3> SUFFICES ASSUME NEW s \in StepSlot, s \notin stepFree[c]
                 PROVE  \/ \E j \in StepId : openStep'[c][j] # Closed /\ openStep'[c][j].handle = s
                        \/ stopping'[c] # Idle /\ stopping'[c].slot = s
      BY DEF StepNoLeak
    <3>1. PICK j \in StepId : openStep[c][j] # Closed /\ openStep[c][j].handle = s
      BY DEF Pools, StepNoLeak
    <3>2. CASE j = i  BY <3>1, <3>2, <1>7, <1>9, Facts DEF e, h
    <3>3. CASE j # i  BY <3>1, <3>3, <1>3
    <3> QED BY <3>2, <3>3
  <2> QED BY <2>1, <2>2, <2>3, <2>4, <2>5, <2>6 DEF Pools
<1>12. \A d \in Ctx : Pools(d)'  BY <1>4, <1>11, OnlyOne
<1> QED BY <1>6, <1>8, <1>12

(* One update of one counter, and one thing less to do. *)
AddEffect(c, f) ==
  /\ f \in stopping[c].todo
  /\ shm' \in [Lane -> CounterGroup]
  /\ \A l \in Lane : \A k \in Touched :
       shm'[l][k] = IF l = stopping[c].lane /\ k = f
                    THEN Added(shm[l], step[c][stopping[c].slot].size, stopping[c].dur)[k]
                    ELSE shm[l][k]
  /\ stopping'[c] \in Stop
  /\ stopping'[c].slot = stopping[c].slot /\ stopping'[c].lane = stopping[c].lane
  /\ stopping'[c].dur = stopping[c].dur /\ stopping'[c].todo = stopping[c].todo \ {f}
  /\ \A d \in Ctx : d # c => stopping'[d] = stopping[d]

LEMMA AddFacts ==
  ASSUME PoolInv, NEW c \in Ctx, AddCounter(c)
  PROVE  /\ stopping[c] \in Stop /\ stopping[c] # Idle /\ stopping'[c] # Idle
         /\ step[c][stopping[c].slot].size \in Nat /\ stopping[c].dur \in Nat
         /\ stopping' \in [Ctx -> Stop \cup {Idle}]
         /\ UNCHANGED <<state, pools, openOp, openStep, steps, due>>
         /\ \E f \in Touched : AddEffect(c, f)
<1> USE DEF PoolInv
<1> DEFINE s == stopping[c]
<1>1. s \in Stop /\ s # Idle  BY DEF AddCounter, Events
<1>2. s.slot \in StepSlot /\ s.lane \in Lane /\ s.dur \in Nat /\ s.todo \subseteq Touched
  BY <1>1, ProfilerAssumption DEF Stop
<1>3. step[c][s.slot].size \in Nat  BY <1>2, ProfilerAssumption DEF TypeOK
<1>4. PICK f \in s.todo :
        /\ shm' = [shm EXCEPT ![s.lane][f] =
             Added(shm[s.lane], step[c][s.slot].size, s.dur)[f]]
        /\ stopping' = [stopping EXCEPT ![c].todo = @ \ {f}]
  BY DEF AddCounter
<1> DEFINE g == shm[s.lane]
           q == Added(shm[s.lane], step[c][s.slot].size, s.dur)
<1>5. g \in CounterGroup /\ q \in CounterGroup
  <2>1. g \in CounterGroup  BY <1>2 DEF TypeOK
  <2> QED BY <2>1, <1>2, <1>3, AddedType
<1> HIDE DEF q
<1>6. shm' = [shm EXCEPT ![s.lane] = [g EXCEPT ![f] = q[f]]]  BY <1>4, <1>2 DEF TypeOK, q
<1>7. f \in Touched  BY <1>2, <1>4
<1>8. /\ [g EXCEPT ![f] = q[f]] \in CounterGroup
      /\ \A k \in Touched : [g EXCEPT ![f] = q[f]][k] = IF k = f THEN q[k] ELSE g[k]
  BY <1>5, <1>7 DEF CounterGroup, Touched
<1>9. /\ shm' \in [Lane -> CounterGroup]
      /\ \A l \in Lane : \A k \in Touched :
           shm'[l][k] = IF l = s.lane /\ k = f THEN q[k] ELSE shm[l][k]
  BY <1>2, <1>6, <1>8 DEF TypeOK
<1>10. /\ stopping'[c] = [s EXCEPT !.todo = s.todo \ {f}]
       /\ \A d \in Ctx : d # c => stopping'[d] = stopping[d]
  BY <1>4 DEF Events
<1>11. /\ stopping'[c] \in Stop
       /\ stopping'[c].slot = s.slot /\ stopping'[c].lane = s.lane
       /\ stopping'[c].dur = s.dur /\ stopping'[c].todo = s.todo \ {f}
  BY <1>1, <1>10 DEF Stop
<1>12. stopping' \in [Ctx -> Stop \cup {Idle}]
  <2>1. stopping' = [stopping EXCEPT ![c] = [s EXCEPT !.todo = s.todo \ {f}]]  BY <1>4
  <2> QED BY <2>1, <1>10, <1>11 DEF Events
<1>13. AddEffect(c, f)
  <2>1. \A l \in Lane : \A k \in Touched :
          shm'[l][k] = IF l = s.lane /\ k = f
                       THEN Added(shm[l], step[c][s.slot].size, s.dur)[k] ELSE shm[l][k]
    BY <1>9 DEF q
  <2> HIDE DEF s
  <2> QED BY <2>1, <1>4, <1>9, <1>10, <1>11 DEF AddEffect, s
<1>14. UNCHANGED <<state, pools, openOp, openStep, steps, due>>  BY DEF AddCounter
<1> QED BY <1>1, <1>2, <1>3, <1>7, <1>11, <1>12, <1>13, <1>14, Facts

LEMMA AddCounterPools == ASSUME PoolInv, NEW c \in Ctx, AddCounter(c) PROVE PoolInv'
<1> USE DEF PoolInv
<1>1. /\ stopping[c] # Idle /\ stopping'[c] # Idle
      /\ stopping' \in [Ctx -> Stop \cup {Idle}]
      /\ UNCHANGED <<state, pools, openOp, openStep, steps, due>>
  BY AddFacts
<1>2. PICK f \in Touched : AddEffect(c, f)  BY AddFacts
<1>3. TypeOK'  BY <1>1, <1>2 DEF TypeOK, AddEffect, pools
<1>4. Events'  BY <1>1 DEF Events
<1>5. \A d \in Ctx : d # c => Same(d)  BY <1>1, <1>2 DEF Same, AddEffect, pools
<1>6. stopping'[c].slot = stopping[c].slot  BY <1>2 DEF AddEffect
<1>7. Pools(c)'
  <2> USE <1>1, <1>6 DEF pools
  <2>1. NoneOpen(c)'  BY DEF Pools, NoneOpen
  <2>2. OpHeld(c)' /\ OpApart(c)' /\ OpNoLeak(c)'
    BY DEF Pools, OpHeld, OpApart, OpNoLeak
  <2>3. StepHeld(c)' /\ StepApart(c)'  BY DEF Pools, StepHeld, StepApart
  <2>4. StepStopping(c)' /\ StepNoLeak(c)'  BY DEF Pools, StepStopping, StepNoLeak
  <2> QED BY <2>1, <2>2, <2>3, <2>4 DEF Pools
<1>8. \A d \in Ctx : Pools(d)'  BY <1>5, <1>7, OnlyOne
<1> QED BY <1>3, <1>4, <1>8

LEMMA ReleaseStepPools == ASSUME PoolInv, NEW c \in Ctx, ReleaseStep(c) PROVE PoolInv'
<1> USE DEF PoolInv, ReleaseStep
<1>1. stopping[c] \in Stop /\ stopping[c].slot \in StepSlot  BY DEF Events, Stop
<1>2. /\ stopping'[c] = Idle /\ stepFree'[c] = stepFree[c] \cup {stopping[c].slot}
      /\ UNCHANGED <<state, op, opFree, step, openOp, openStep, steps, shm, due>>
  BY DEF Events, TypeOK
<1>3. TypeOK'  BY <1>1 DEF TypeOK
<1>4. Events'  BY DEF Events
<1>5. \A d \in Ctx : d # c => Same(d)  BY DEF TypeOK, Events, Same
<1>6. Pools(c)'
  <2> USE <1>2
  <2>1. NoneOpen(c)'  BY DEF Pools, NoneOpen
  <2>2. OpHeld(c)' /\ OpApart(c)' /\ OpNoLeak(c)'
    BY DEF Pools, OpHeld, OpApart, OpNoLeak
  <2>3. StepHeld(c)'  BY DEF Pools, StepHeld, StepStopping
  <2>4. StepApart(c)' /\ StepStopping(c)'  BY DEF Pools, StepApart, StepStopping
  <2>5. StepNoLeak(c)'  BY DEF Pools, StepNoLeak
  <2> QED BY <2>1, <2>2, <2>3, <2>4, <2>5 DEF Pools
<1>7. \A d \in Ctx : Pools(d)'  BY <1>5, <1>6, OnlyOne
<1> QED BY <1>3, <1>4, <1>7

LEMMA InitPools == Init => PoolInv
<1> SUFFICES ASSUME Init PROVE PoolInv  OBVIOUS
<1> USE DEF Init
<1>1. Zero \in CounterGroup  BY DEF Zero, CounterGroup
<1>2. TypeOK
  <2>1. 0 \in 0..MaxSize /\ 0 \in 0..MaxSteps  BY ProfilerAssumption
  <2> QED BY <1>1, <2>1 DEF TypeOK
<1>3. Events  BY DEF Events
<1>4. ASSUME NEW c \in Ctx PROVE Pools(c)
  <2>1. NoneOpen(c)  BY DEF NoneOpen
  <2>2. OpHeld(c) /\ OpApart(c) /\ OpNoLeak(c)  BY DEF OpHeld, OpApart, OpNoLeak
  <2>3. StepHeld(c) /\ StepApart(c) /\ StepStopping(c) /\ StepNoLeak(c)
    BY DEF StepHeld, StepApart, StepStopping, StepNoLeak
  <2> QED BY <2>1, <2>2, <2>3 DEF Pools
<1> QED BY <1>2, <1>3, <1>4 DEF PoolInv

LEMMA NextPools == PoolInv /\ [Next]_vars => PoolInv'
<1> SUFFICES ASSUME PoolInv, [Next]_vars PROVE PoolInv'  OBVIOUS
<1>1. CASE UNCHANGED vars
  <2>1. TypeOK' /\ Events' /\ \A d \in Ctx : Same(d)
    BY <1>1 DEF PoolInv, vars, pools, TypeOK, Events, Same
  <2> QED BY <2>1, SamePools DEF PoolInv
<1>2. ASSUME NEW c \in Ctx, Callback(c) PROVE PoolInv'
  <2>1. CASE Open(c) \/ OpenWithoutShm(c) \/ Finalize(c)  BY <2>1, LifePools
  <2>2. CASE AddCounter(c)  BY <2>2, AddCounterPools
  <2>3. CASE ReleaseStep(c)  BY <2>3, ReleaseStepPools
  <2>4. ASSUME NEW o \in OpId, NEW lane \in Lane, StartOp(c, o, lane) PROVE PoolInv'
    BY <2>4, StartOpPools
  <2>5. ASSUME NEW o \in OpId, StartForeignOp(c, o) PROVE PoolInv'
    BY <2>5, StartForeignOpPools
  <2>6. ASSUME NEW o \in OpId, StopOp(c, o) PROVE PoolInv'  BY <2>6, StopOpPools
  <2>7. ASSUME NEW o \in OpId, NEW i \in StepId, StartStep(c, i, o) PROVE PoolInv'
    BY <2>7, StartStepPools
  <2>8. ASSUME NEW i \in StepId, RecordState(c, i) PROVE PoolInv'
    BY <2>8, RecordStatePools
  <2>9. ASSUME NEW i \in StepId, NEW dur \in Duration, StopStep(c, i, dur) PROVE PoolInv'
    BY <2>9, StopStepPools
  <2> QED BY <1>2, <2>1, <2>2, <2>3, <2>4, <2>5, <2>6, <2>7, <2>8, <2>9 DEF Callback
<1> QED BY <1>1, <1>2 DEF Next

(* The variables keep their types. *)
THEOREM TypeCorrectness == Spec => []TypeOK
<1>1. PoolInv => TypeOK  BY DEF PoolInv
<1> QED BY <1>1, InitPools, NextPools, PTL DEF Spec

LEMMA Accounted == PoolInv => SlotsAccounted
<1> SUFFICES ASSUME PoolInv, NEW c \in Ctx, stopping[c] = Idle
             PROVE  /\ OpHandles(c) = OpSlot \ opFree[c]
                    /\ StepHandles(c) = StepSlot \ stepFree[c]
                    /\ \A o, p \in OpId :
                         openOp[c][o] # Closed /\ openOp[c][p] # Closed /\ o # p =>
                           \/ openOp[c][o].handle = Null
                           \/ openOp[c][o].handle # openOp[c][p].handle
  BY DEF SlotsAccounted
<1>1. \A o \in OpId : openOp[c][o] # Closed => openOp[c][o].handle \in OpSlot \cup {Null}
  BY DEF PoolInv, Events, OpEvent
<1>2. \A i \in StepId :
        openStep[c][i] # Closed => openStep[c][i].handle \in StepSlot \cup {Null}
  BY DEF PoolInv, Events, StepEvent
<1>3. OpHandles(c) \subseteq OpSlot \ opFree[c]
  BY <1>1 DEF PoolInv, Pools, OpHeld, OpHandles
<1>4. OpSlot \ opFree[c] \subseteq OpHandles(c)
  BY Facts DEF PoolInv, Pools, OpNoLeak, OpHandles
<1>5. StepHandles(c) \subseteq StepSlot \ stepFree[c]
  <2>1. \A i \in StepId : openStep[c][i] # Closed /\ openStep[c][i].handle # Null =>
          openStep[c][i].handle \notin stepFree[c]
    BY DEF PoolInv, Pools, StepHeld
  <2> QED BY <2>1, <1>2 DEF StepHandles
<1>6. StepSlot \ stepFree[c] \subseteq StepHandles(c)
  <2>1. \A s \in StepSlot \ stepFree[c] :
          \E i \in StepId : openStep[c][i] # Closed /\ openStep[c][i].handle = s
    BY DEF PoolInv, Pools, StepNoLeak
  <2> QED BY <2>1, Facts DEF StepHandles
<1>7. OpApart(c)  BY DEF PoolInv, Pools
<1> QED BY <1>3, <1>4, <1>5, <1>6, <1>7 DEF OpApart

(* At any number of operations, steps and slots, the slots in use are the    *)
(* handles NCCL holds, and no handle names two events.                       *)
THEOREM HandlesAreUnique == Spec => []SlotsAccounted
BY Accounted, InitPools, NextPools, PTL DEF Spec

(* An event begins: the pool has a slot for it, or all slots are in use.     *)
OpDropped(c, o) ==
  state[c] = "live" /\ openOp[c][o] = Closed /\ openOp'[c][o] # Closed
    /\ ~openOp'[c][o].foreign
  => openOp'[c][o].handle # Null \/ Cardinality(OpHandles(c)) = OpSlots
StepDropped(c, i) ==
  state[c] = "live" /\ openStep[c][i] = Closed /\ openStep'[c][i] # Closed
  => \/ openStep'[c][i].handle # Null
     \/ Cardinality(StepHandles(c)) = StepSlots
     \/ openOp[c][openStep'[c][i].op].handle = Null
Begins(c) == (\A o \in OpId : OpDropped(c, o)) /\ (\A i \in StepId : StepDropped(c, i))

(* What a context has open, when no pool has a slot left.                    *)
LEMMA Full ==
  ASSUME PoolInv, NEW c \in Ctx, stopping[c] = Idle
  PROVE  /\ opFree[c] = {} => Cardinality(OpHandles(c)) = OpSlots
         /\ stepFree[c] = {} => Cardinality(StepHandles(c)) = StepSlots
<1>1. OpHandles(c) = OpSlot \ opFree[c] /\ StepHandles(c) = StepSlot \ stepFree[c]
  BY Accounted DEF SlotsAccounted
<1>2. Cardinality(OpSlot) = OpSlots /\ Cardinality(StepSlot) = StepSlots
  <2>1. OpSlots \in Nat /\ StepSlots \in Nat  BY ProfilerAssumption
  <2> QED BY <2>1, FS_Interval DEF OpSlot, StepSlot
<1> QED BY <1>1, <1>2

(* Events of a context the step does not touch, or that only end.            *)
LEMMA NothingBegins ==
  ASSUME NEW c \in Ctx,
         \A o \in OpId : openOp'[c][o] \in {openOp[c][o], Closed},
         \A i \in StepId : openStep[c][i] = Closed => openStep'[c][i] = Closed
  PROVE  Begins(c)
BY DEF Begins, OpDropped, StepDropped

LEMMA StartOpBegins ==
  ASSUME PoolInv, NEW c \in Ctx, NEW o \in OpId, NEW lane \in Lane, StartOp(c, o, lane)
  PROVE  Begins(c)
<1> DEFINE h == IF state[c] = "live" THEN Alloc(opFree[c]) ELSE Null
<1>1. opFree[c] \subseteq Nat /\ Null \notin opFree[c]
  BY Facts DEF PoolInv, TypeOK
<1>2. state[c] = "live" => h # Null \/ opFree[c] = {}  BY <1>1, Allocates
<1>3. stopping[c] = Idle  BY DEF StartOp, Calls
<1>4. \A p \in OpId : openOp'[c][p] =
        IF p = o THEN [lane |-> lane, foreign |-> FALSE, handle |-> h] ELSE openOp[c][p]
  BY DEF StartOp, PoolInv, Events
<1> HIDE DEF h
<1>5. \A p \in OpId : OpDropped(c, p)  BY <1>2, <1>3, <1>4, Full DEF OpDropped
<1>6. openStep' = openStep  BY DEF StartOp
<1> QED BY <1>5, <1>6 DEF Begins, StepDropped

LEMMA StartStepBegins ==
  ASSUME PoolInv, NEW c \in Ctx, NEW i \in StepId, NEW o \in OpId, StartStep(c, i, o)
  PROVE  Begins(c)
<1> DEFINE parent == openOp[c][o].handle
           h == IF parent = Null THEN Null ELSE Alloc(stepFree[c])
<1>1. stepFree[c] \subseteq Nat /\ Null \notin stepFree[c]
  BY Facts DEF PoolInv, TypeOK
<1>2. parent = Null \/ h # Null \/ stepFree[c] = {}  BY <1>1, Allocates
<1>3. stopping[c] = Idle  BY DEF StartStep, Calls
<1>4. \A j \in StepId : openStep'[c][j] =
        IF j = i THEN [op |-> o, handle |-> h, size |-> 0] ELSE openStep[c][j]
  BY DEF StartStep, PoolInv, Events
<1> HIDE DEF h
<1>5. \A j \in StepId : StepDropped(c, j)  BY <1>2, <1>3, <1>4, Full DEF StepDropped
<1>6. openOp' = openOp  BY DEF StartStep
<1> QED BY <1>5, <1>6 DEF Begins, OpDropped

(* However long the run and whatever slots were reused, an event of a live   *)
(* context's own process is dropped only while as many events as the pool    *)
(* has slots are open.                                                       *)
THEOREM NothingDroppedBefore == Spec => DroppedOnlyWhenFull
<1>1. ASSUME PoolInv, [Next]_vars, NEW d \in Ctx PROVE Begins(d)
  <2>1. CASE UNCHANGED vars  BY <2>1, NothingBegins DEF vars
  <2>2. ASSUME NEW c \in Ctx, Callback(c) PROVE Begins(d)
    <3>1. CASE d # c
      <4> USE <1>1, <3>1 DEF PoolInv, Events
      <4> DEFINE Kept == openOp'[d] = openOp[d] /\ openStep'[d] = openStep[d]
      <4>1. ASSUME Open(c) \/ OpenWithoutShm(c) \/ Finalize(c) \/ AddCounter(c) \/ ReleaseStep(c)
            PROVE  Kept
        BY <4>1 DEF Open, OpenWithoutShm, Finalize, AddCounter, ReleaseStep, pools
      <4>2. ASSUME NEW o \in OpId, NEW lane \in Lane, StartOp(c, o, lane) PROVE Kept
        BY <4>2 DEF StartOp
      <4>3. ASSUME NEW o \in OpId, StartForeignOp(c, o) PROVE Kept
        BY <4>3 DEF StartForeignOp
      <4>4. ASSUME NEW o \in OpId, StopOp(c, o) PROVE Kept
        BY <4>4 DEF StopOp
      <4>5. ASSUME NEW o \in OpId, NEW i \in StepId, StartStep(c, i, o) PROVE Kept
        BY <4>5 DEF StartStep
      <4>6. ASSUME NEW i \in StepId, RecordState(c, i) PROVE Kept
        BY <4>6 DEF RecordState
      <4>7. ASSUME NEW i \in StepId, NEW dur \in Duration, StopStep(c, i, dur) PROVE Kept
        BY <4>7 DEF StopStep
      <4>8. Kept
        <5> HIDE DEF Kept
        <5> QED BY <2>2, <4>1, <4>2, <4>3, <4>4, <4>5, <4>6, <4>7 DEF Callback
      <4> QED BY <4>8, NothingBegins
    <3>2. CASE d = c
      <4>1. CASE Open(c) \/ OpenWithoutShm(c) \/ Finalize(c) \/ AddCounter(c) \/ ReleaseStep(c)
        <5>1. openOp' = openOp /\ openStep' = openStep
          BY <4>1 DEF Open, OpenWithoutShm, Finalize, AddCounter, ReleaseStep, pools
        <5> QED BY <5>1, NothingBegins
      <4>2. ASSUME NEW o \in OpId, NEW lane \in Lane, StartOp(c, o, lane) PROVE Begins(d)
        BY <3>2, <4>2, <1>1, StartOpBegins
      <4>3. ASSUME NEW o \in OpId, StartForeignOp(c, o) PROVE Begins(d)
        <5>1. openStep' = openStep /\ \A p \in OpId : openOp'[c][p] =
                IF p = o THEN [lane |-> Null, foreign |-> TRUE, handle |-> Null]
                ELSE openOp[c][p]
          BY <4>3, <1>1 DEF StartForeignOp, PoolInv, Events
        <5> QED BY <5>1, <3>2 DEF Begins, OpDropped, StepDropped
      <4>4. ASSUME NEW o \in OpId, StopOp(c, o) PROVE Begins(d)
        <5>1. openStep' = openStep /\ \A p \in OpId : openOp'[c][p] =
                IF p = o THEN Closed ELSE openOp[c][p]
          BY <4>4, <1>1 DEF StopOp, PoolInv, Events
        <5> QED BY <5>1, <3>2, NothingBegins
      <4>5. ASSUME NEW o \in OpId, NEW i \in StepId, StartStep(c, i, o) PROVE Begins(d)
        BY <3>2, <4>5, <1>1, StartStepBegins
      <4>6. ASSUME NEW i \in StepId, RecordState(c, i) PROVE Begins(d)
        <5>1. openOp' = openOp /\ openStep[c][i] # Closed
              /\ \A j \in StepId : j # i => openStep'[c][j] = openStep[c][j]
          BY <4>6, <1>1 DEF RecordState, PoolInv, Events
        <5>2. \A j \in StepId : openStep[c][j] = Closed => openStep'[c][j] = Closed
          BY <5>1
        <5> QED BY <5>1, <5>2, <3>2, NothingBegins
      <4>7. ASSUME NEW i \in StepId, NEW dur \in Duration, StopStep(c, i, dur) PROVE Begins(d)
        <5>1. openOp' = openOp /\ \A j \in StepId : openStep'[c][j] =
                IF j = i THEN Closed ELSE openStep[c][j]
          BY <4>7, <1>1 DEF StopStep, PoolInv, Events
        <5> QED BY <5>1, <3>2, NothingBegins
      <4> QED BY <2>2, <4>1, <4>2, <4>3, <4>4, <4>5, <4>6, <4>7 DEF Callback
    <3> QED BY <3>1, <3>2
  <2> QED BY <1>1, <2>1, <2>2 DEF Next
<1>2. PoolInv /\ [Next]_vars =>
        [\A c \in Ctx : state[c] = "live" =>
           /\ \A o \in OpId :
                openOp[c][o] = Closed /\ openOp'[c][o] # Closed /\ ~openOp'[c][o].foreign =>
                  openOp'[c][o].handle # Null \/ Cardinality(OpHandles(c)) = OpSlots
           /\ \A i \in StepId :
                openStep[c][i] = Closed /\ openStep'[c][i] # Closed =>
                  \/ openStep'[c][i].handle # Null
                  \/ Cardinality(StepHandles(c)) = StepSlots
                  \/ openOp[c][openStep'[c][i].op].handle = Null]_vars
  BY <1>1 DEF Begins, OpDropped, StepDropped
<1> QED BY <1>2, InitPools, NextPools, PTL DEF Spec, DroppedOnlyWhenFull
----------------------------------------------------------------------------
(* What the stopEvents under way still owe the counters.  A counter of a     *)
(* lane and what is owed to it are together what they should be; the sum is  *)
(* a function on the sets of contexts, changed where a context is in the set.*)
Summed == {"count", "bytes", "duration"}

Pending(c, l, f) ==
  stopping[c] # Idle /\ stopping[c].lane = l /\ f \in stopping[c].todo
Amount(c, f) ==
  IF f = "count" THEN 1
  ELSE IF f = "bytes" THEN step[c][stopping[c].slot].size
  ELSE stopping[c].dur
Owed(l, f) == [c \in Ctx |-> IF Pending(c, l, f) THEN Amount(c, f) ELSE 0]

IsSum(g, w) ==
  /\ g \in [SUBSET Ctx -> Int]
  /\ g[{}] = 0
  /\ \A S \in SUBSET Ctx : \A c \in Ctx : c \notin S => g[S \cup {c}] = g[S] + w[c]

SumInv(l, f) == \E g : IsSum(g, Owed(l, f)) /\ shm[l][f] + g[Ctx] = due[l][f]

(* The longest step is counted or one under way has it.                      *)
MaxInv(l) ==
  /\ shm[l]["max"] <= due[l]["max"]
  /\ \A c \in Ctx : Pending(c, l, "max") => stopping[c].dur <= due[l]["max"]
  /\ \/ shm[l]["max"] = due[l]["max"]
     \/ \E c \in Ctx : Pending(c, l, "max") /\ stopping[c].dur = due[l]["max"]

CountInv == \A l \in Lane : MaxInv(l) /\ \A f \in Summed : SumInv(l, f)

LEMMA SumMoves ==
  ASSUME NEW g, NEW v \in [Ctx -> Int], NEW w \in [Ctx -> Int], NEW c \in Ctx,
         IsSum(g, v), \A d \in Ctx : d # c => w[d] = v[d]
  PROVE  \E h : IsSum(h, w) /\ h[Ctx] = g[Ctx] + (w[c] - v[c])
<1> DEFINE m == w[c] - v[c]
           h == [S \in SUBSET Ctx |-> IF c \in S THEN g[S] + m ELSE g[S]]
<1>1. m \in Int /\ w[c] = v[c] + m  OBVIOUS
<1>2. \A S \in SUBSET Ctx : g[S] \in Int  BY DEF IsSum
<1> HIDE DEF m
<1>3. h \in [SUBSET Ctx -> Int] /\ h[{}] = 0  BY <1>1, <1>2 DEF IsSum
<1>4. ASSUME NEW S \in SUBSET Ctx, NEW d \in Ctx, d \notin S
      PROVE  h[S \cup {d}] = h[S] + w[d]
  <2>1. g[S \cup {d}] = g[S] + v[d]  BY <1>4 DEF IsSum
  <2>2. S \cup {d} \in SUBSET Ctx /\ g[S] \in Int /\ v[d] \in Int  BY <1>2
  <2>3. CASE d = c
    <3>1. h[S \cup {d}] = g[S \cup {d}] + m /\ h[S] = g[S]  BY <1>4, <2>2, <2>3
    <3> QED BY <3>1, <2>1, <2>2, <2>3, <1>1
  <2>4. CASE d # c
    <3>1. c \in S \cup {d} <=> c \in S  BY <2>4
    <3>2. w[d] = v[d]  BY <2>4
    <3>3. CASE c \in S
      <4>1. h[S \cup {d}] = g[S \cup {d}] + m /\ h[S] = g[S] + m  BY <2>2, <3>1, <3>3
      <4> QED BY <4>1, <2>1, <2>2, <3>2, <1>1
    <3>4. CASE c \notin S
      <4>1. h[S \cup {d}] = g[S \cup {d}] /\ h[S] = g[S]  BY <2>2, <3>1, <3>4
      <4> QED BY <4>1, <2>1, <2>2, <3>2
    <3> QED BY <3>3, <3>4
  <2> QED BY <2>3, <2>4
<1>5. h[Ctx] = g[Ctx] + m  OBVIOUS
<1> HIDE DEF h
<1>6. IsSum(h, w)  BY <1>3, <1>4 DEF IsSum
<1> QED BY <1>5, <1>6 DEF m

LEMMA SumOfNothing ==
  ASSUME NEW g, NEW w, IsSum(g, w), \A c \in Ctx : w[c] = 0
  PROVE  g[Ctx] = 0
<1> DEFINE Bad == {n \in Nat : \E S \in SUBSET Ctx : g[S] # 0 /\ Cardinality(S) = n}
<1>1. \A S \in SUBSET Ctx : IsFiniteSet(S) /\ Cardinality(S) \in Nat
  BY FS_Subset, FS_CardinalityType, ProfilerAssumption
<1>2. Bad = {}
  <2> SUFFICES ASSUME Bad # {} PROVE FALSE  OBVIOUS
  <2>1. PICK n \in Bad : \A k \in Bad : n <= k  BY Least
  <2>2. PICK S \in SUBSET Ctx : g[S] # 0 /\ Cardinality(S) = n  OBVIOUS
  <2>3. PICK c \in S : TRUE  BY <2>2 DEF IsSum
  <2>4. (S \ {c}) \cup {c} = S /\ S \ {c} \in SUBSET Ctx /\ c \in Ctx  BY <2>3
  <2>5. g[S] = g[S \ {c}] + w[c] /\ g[S \ {c}] \in Int  BY <2>4 DEF IsSum
  <2>6. g[S \ {c}] # 0  BY <2>2, <2>4, <2>5
  <2>7. Cardinality(S \ {c}) = n - 1  BY <1>1, <2>2, <2>3, FS_RemoveElement
  <2>8. Cardinality(S \ {c}) \in Bad  BY <1>1, <2>4, <2>6
  <2>9. n <= n - 1 /\ n \in Nat  BY <2>1, <2>7, <2>8
  <2> QED BY <2>9
<1> HIDE DEF Bad
<1>3. ~(g[Ctx] # 0)
  <2>1. g[Ctx] # 0 => Cardinality(Ctx) \in Bad  BY <1>1 DEF Bad
  <2> QED BY <1>2, <2>1
<1> QED BY <1>3

OwedInts == \A l \in Lane : \A f \in Summed : Owed(l, f) \in [Ctx -> Int]

LEMMA OwedTypes == PoolInv => OwedInts
<1> SUFFICES ASSUME PoolInv, NEW l \in Lane, NEW f \in Summed, NEW c \in Ctx, Pending(c, l, f)
             PROVE  Amount(c, f) \in Int
  BY DEF OwedInts, Owed
<1>1. stopping[c] \in Stop  BY DEF PoolInv, Events, Pending
<1>2. stopping[c].slot \in StepSlot /\ stopping[c].dur \in Int
  <2>1. stopping[c].slot \in StepSlot /\ stopping[c].dur \in Duration  BY <1>1 DEF Stop
  <2>2. stopping[c].dur \in Nat  BY <2>1, ProfilerAssumption
  <2> QED BY <2>1, <2>2
<1>3. step[c][stopping[c].slot].size \in Int
  BY <1>2, ProfilerAssumption DEF PoolInv, TypeOK
<1> QED BY <1>2, <1>3 DEF Amount

LEMMA OwedTypesAfter == PoolInv' => OwedInts'  BY OwedTypes, PTL

(* A step that changes what one context owes a counter by what the counter   *)
(* and its due change keeps the sum.                                         *)
LEMMA SumKept ==
  ASSUME PoolInv, PoolInv', NEW c \in Ctx, NEW l \in Lane, NEW f \in Summed,
         SumInv(l, f),
         \A d \in Ctx : d # c => Owed(l, f)'[d] = Owed(l, f)[d],
         (due'[l][f] - shm'[l][f]) - Owed(l, f)'[c] = (due[l][f] - shm[l][f]) - Owed(l, f)[c]
  PROVE  SumInv(l, f)'
<1>1. Owed(l, f) \in [Ctx -> Int] /\ Owed(l, f)' \in [Ctx -> Int]
  <2>1. Owed(l, f) \in [Ctx -> Int]  BY OwedTypes DEF OwedInts
  <2>2. Owed(l, f)' \in [Ctx -> Int]  BY OwedTypesAfter DEF OwedInts
  <2> QED BY <2>1, <2>2
<1>2. PICK g : IsSum(g, Owed(l, f)) /\ shm[l][f] + g[Ctx] = due[l][f]  BY DEF SumInv
<1>3. PICK h : IsSum(h, Owed(l, f)') /\ h[Ctx] = g[Ctx] + (Owed(l, f)'[c] - Owed(l, f)[c])
  <2> DEFINE was == Owed(l, f)
             now == Owed(l, f)'
  <2>1. was \in [Ctx -> Int] /\ now \in [Ctx -> Int] /\ IsSum(g, was)  BY <1>1, <1>2
  <2>2. \A d \in Ctx : d # c => now[d] = was[d]  OBVIOUS
  <2> HIDE DEF was, now
  <2>3. \E h : IsSum(h, now) /\ h[Ctx] = g[Ctx] + (now[c] - was[c])
    BY ONLY <2>1, <2>2, SumMoves, c \in Ctx
  <2> QED BY <2>3 DEF was, now
<1>4. /\ shm[l][f] \in Int /\ due[l][f] \in Int /\ shm'[l][f] \in Int /\ due'[l][f] \in Int
      /\ Owed(l, f)[c] \in Int /\ Owed(l, f)'[c] \in Int
  BY <1>1 DEF PoolInv, TypeOK, CounterGroup, Summed
<1>5. g[Ctx] \in Int  BY <1>2 DEF IsSum
<1>6. shm'[l][f] + h[Ctx] = due'[l][f]
  <2> DEFINE q == Owed(l, f)'[c]
             b == Owed(l, f)[c]
  <2> HIDE DEF q, b
  <2> QED BY <1>2, <1>3, <1>4, <1>5 DEF q, b
<1> QED BY <1>3, <1>6 DEF SumInv, IsSum

(* A step that ends no stopEvent, begins none and counts nothing.            *)
LEMMA QuietCounts ==
  ASSUME CountInv, UNCHANGED <<stopping, shm, due>>,
         \A c \in Ctx : stopping[c] # Idle => step'[c] = step[c]
  PROVE  CountInv'
<1>1. \A c \in Ctx : \A l \in Lane : \A f \in Touched :
        /\ Pending(c, l, f)' <=> Pending(c, l, f)
        /\ Pending(c, l, f) => Amount(c, f)' = Amount(c, f)
  BY DEF Pending, Amount
<1>2. ASSUME NEW l \in Lane, NEW f \in Summed PROVE SumInv(l, f)'
  <2>1. Owed(l, f)' = Owed(l, f)  BY <1>1, <1>2 DEF Owed, Touched, Summed
  <2>2. PICK g : IsSum(g, Owed(l, f)) /\ shm[l][f] + g[Ctx] = due[l][f]
    BY <1>2 DEF CountInv, SumInv
  <2>3. IsSum(g, Owed(l, f)') /\ shm'[l][f] + g[Ctx] = due'[l][f]  BY <2>1, <2>2
  <2> QED BY <2>3 DEF SumInv, IsSum
<1>3. ASSUME NEW l \in Lane PROVE MaxInv(l)'
  BY <1>1, <1>3 DEF CountInv, MaxInv, Touched
<1> QED BY <1>2, <1>3 DEF CountInv

LEMMA CounterTypes ==
  ASSUME NEW m \in [Lane -> CounterGroup], NEW l \in Lane, NEW f \in Touched
  PROVE  m[l][f] \in Nat
BY DEF CounterGroup, Touched

LEMMA StopStepCounts ==
  ASSUME PoolInv, PoolInv', CountInv, NEW c \in Ctx, NEW i \in StepId,
         NEW dur \in Duration, StopStep(c, i, dur)
  PROVE  CountInv'
<1> DEFINE e == openStep[c][i]
           lane == openOp[c][e.op].lane
<1>1. /\ stopping[c] = Idle /\ e \in StepEvent
      /\ UNCHANGED <<state, pools, openOp, steps, shm>>
      /\ e.handle = Null => UNCHANGED <<stopping, due>>
      /\ e.handle # Null => StopEffect(c, e, dur)
  BY StopFacts
<1>2. CASE e.handle = Null  BY <1>1, <1>2, QuietCounts DEF pools
<1>3. ASSUME e.handle # Null PROVE CountInv'
  <2>1. dur \in Nat /\ e.size \in Nat  BY <1>1, ProfilerAssumption DEF StepEvent
  <2>2. /\ e.handle \in StepSlot /\ lane \in Lane /\ step[c][e.handle].size = e.size
        /\ stopping' = [stopping EXCEPT ![c] =
             [slot |-> e.handle, lane |-> lane, dur |-> dur,
              todo |-> IF lane \in FarLane THEN {} ELSE Touched]]
        /\ due' = IF lane \in FarLane THEN due
                  ELSE [due EXCEPT ![lane] = Added(@, e.size, dur)]
    BY <1>1, <1>3 DEF StopEffect
  <2> HIDE DEF e, lane
  <2>3. /\ stopping'[c].slot = e.handle /\ stopping'[c].lane = lane /\ stopping'[c].dur = dur
        /\ stopping'[c].todo = IF lane \in FarLane THEN {} ELSE Touched
        /\ \A d \in Ctx : d # c => stopping'[d] = stopping[d]
    BY <2>2 DEF PoolInv, Events
  <2>4. stopping'[c] # Idle
    <3>1. stopping'[c] \in Stop  BY <2>1, <2>2, ProfilerAssumption DEF PoolInv, Events, Stop, Touched
    <3> QED BY <3>1, Facts
  <2>5. \A l \in Lane : \A f \in Touched :
          /\ ~Pending(c, l, f)
          /\ Pending(c, l, f)' <=> (l = lane /\ lane \notin FarLane)
          /\ \A d \in Ctx : d # c =>
               /\ Pending(d, l, f)' <=> Pending(d, l, f)
               /\ Amount(d, f)' = Amount(d, f)
    BY <1>1, <2>3, <2>4 DEF Pending, Amount, pools
  <2>6. Amount(c, "count")' = 1 /\ Amount(c, "bytes")' = e.size /\ Amount(c, "duration")' = dur
    BY <1>1, <2>2, <2>3 DEF Amount, pools
  <2> DEFINE q == Added(due[lane], e.size, dur)
  <2>7. /\ q["count"] = due[lane]["count"] + 1 /\ q["bytes"] = due[lane]["bytes"] + e.size
        /\ q["duration"] = due[lane]["duration"] + dur
        /\ q["max"] = IF due[lane]["max"] >= dur THEN due[lane]["max"] ELSE dur
    <3>1. due[lane] \in CounterGroup  BY <2>2 DEF PoolInv, TypeOK
    <3>2. /\ q["count"] = due[lane]["count"] + 1 /\ q["bytes"] = due[lane]["bytes"] + e.size
          /\ q["duration"] = due[lane]["duration"] + dur
      BY Adds
    <3>3. q["max"] = IF due[lane]["max"] >= dur THEN due[lane]["max"] ELSE dur
      BY <2>1, <3>1, LongestOf
    <3> QED BY <3>2, <3>3
  <2> HIDE DEF q
  <2>8. \A l \in Lane : \A f \in Touched :
          due'[l][f] = IF l = lane /\ lane \notin FarLane THEN q[f] ELSE due[l][f]
    BY <2>2 DEF PoolInv, TypeOK, q
  <2>9. ASSUME NEW l \in Lane, NEW f \in Summed PROVE SumInv(l, f)'
    <3>1. f \in Touched  BY DEF Summed, Touched
    <3>2. \A d \in Ctx : d # c => Owed(l, f)'[d] = Owed(l, f)[d]
      BY <2>5, <3>1 DEF Owed
    <3>3. /\ Owed(l, f)[c] = 0
          /\ Owed(l, f)'[c] = IF l = lane /\ lane \notin FarLane THEN Amount(c, f)' ELSE 0
      BY <2>5, <3>1 DEF Owed
    <3>4. due[l][f] \in Nat /\ shm[l][f] \in Nat
      BY <3>1, CounterTypes DEF PoolInv, TypeOK
    <3>5. l = lane /\ lane \notin FarLane => due'[l][f] = due[l][f] + Amount(c, f)'
      BY <2>6, <2>7, <2>8, <3>1 DEF Summed
    <3>6. Amount(c, f)' \in Nat  BY <2>1, <2>6 DEF Summed
    <3>7. (due'[l][f] - shm'[l][f]) - Owed(l, f)'[c] = (due[l][f] - shm[l][f]) - Owed(l, f)[c]
      <4>1. shm' = shm  BY <1>1
      <4>2. CASE l = lane /\ lane \notin FarLane
        BY <4>1, <4>2, <3>3, <3>4, <3>5, <3>6
      <4>3. CASE ~(l = lane /\ lane \notin FarLane)
        BY <4>1, <4>3, <3>1, <3>3, <3>4, <2>8
      <4> QED BY <4>2, <4>3
    <3>8. SumInv(l, f)  BY DEF CountInv
    <3> QED BY <3>2, <3>7, <3>8, SumKept
  <2>10. ASSUME NEW l \in Lane PROVE MaxInv(l)'
    <3>1. MaxInv(l) /\ "max" \in Touched  BY DEF CountInv, Touched
    <3>2. due[l]["max"] \in Nat /\ shm[l]["max"] \in Nat
      BY <3>1, CounterTypes DEF PoolInv, TypeOK
    <3>3. shm' = shm  BY <1>1
    <3>4. CASE l = lane /\ lane \notin FarLane
      <4>1. due'[l]["max"] = IF due[l]["max"] >= dur THEN due[l]["max"] ELSE dur
        BY <3>4, <3>1, <2>7, <2>8
      <4>2. \A d \in Ctx : d # c => stopping'[d].dur = stopping[d].dur  BY <2>3
      <4>3. \A d \in Ctx : Pending(d, l, "max") => stopping[d].dur \in Nat
        BY ProfilerAssumption DEF Pending, PoolInv, Events, Stop
      <4>4. /\ Pending(c, l, "max")' /\ stopping'[c].dur = dur
            /\ \A d \in Ctx : d # c => (Pending(d, l, "max")' <=> Pending(d, l, "max"))
        BY <3>1, <3>4, <2>3, <2>5
      <4>5. \A d \in Ctx : Pending(d, l, "max") => d # c  BY <3>1, <2>5
      <4>6. shm'[l]["max"] <= due'[l]["max"]  BY <4>1, <3>1, <3>2, <3>3, <2>1 DEF MaxInv
      <4>7. \A d \in Ctx : Pending(d, l, "max")' => stopping'[d].dur <= due'[l]["max"]
        BY <4>1, <4>2, <4>3, <4>4, <3>1, <3>2, <2>1 DEF MaxInv
      <4>8. CASE due[l]["max"] >= dur
        BY <4>1, <4>2, <4>4, <4>5, <4>6, <4>7, <4>8, <3>1, <3>3 DEF MaxInv
      <4>9. CASE ~(due[l]["max"] >= dur)
        BY <4>1, <4>4, <4>6, <4>7, <4>9 DEF MaxInv
      <4> QED BY <4>8, <4>9
    <3>5. CASE ~(l = lane /\ lane \notin FarLane)
      <4>1. due'[l]["max"] = due[l]["max"]  BY <3>1, <3>5, <2>8
      <4>2. \A d \in Ctx : /\ Pending(d, l, "max")' <=> Pending(d, l, "max")
                           /\ Pending(d, l, "max") => stopping'[d].dur = stopping[d].dur
        BY <3>1, <3>5, <2>3, <2>5
      <4> QED BY <4>1, <4>2, <3>1, <3>3 DEF MaxInv
    <3> QED BY <3>4, <3>5
  <2> QED BY <2>9, <2>10 DEF CountInv
<1> QED BY <1>2, <1>3

LEMMA AddCounterCounts ==
  ASSUME PoolInv, PoolInv', CountInv, NEW c \in Ctx, AddCounter(c)
  PROVE  CountInv'
<1> DEFINE lane == stopping[c].lane
           bytes == step[c][stopping[c].slot].size
           long == stopping[c].dur
<1>1. /\ stopping[c] \in Stop /\ stopping[c] # Idle /\ stopping'[c] # Idle
      /\ bytes \in Nat /\ long \in Nat /\ step' = step /\ due' = due
  BY AddFacts DEF pools
<1>2. PICK k \in Touched : AddEffect(c, k)  BY AddFacts
<1>3. lane \in Lane /\ k \in stopping[c].todo  BY <1>1, <1>2 DEF Stop, AddEffect
<1> DEFINE q == Added(shm[lane], bytes, long)
<1>4. /\ q["count"] = shm[lane]["count"] + 1 /\ q["bytes"] = shm[lane]["bytes"] + bytes
      /\ q["duration"] = shm[lane]["duration"] + long
      /\ q["max"] = IF shm[lane]["max"] >= long THEN shm[lane]["max"] ELSE long
  <2>1. shm[lane] \in CounterGroup  BY <1>3 DEF PoolInv, TypeOK
  <2>2. long \in Nat  BY <1>1
  <2> HIDE DEF lane, bytes, long
  <2>3. /\ q["count"] = shm[lane]["count"] + 1 /\ q["bytes"] = shm[lane]["bytes"] + bytes
        /\ q["duration"] = shm[lane]["duration"] + long
    BY Adds
  <2>4. q["max"] = IF shm[lane]["max"] >= long THEN shm[lane]["max"] ELSE long
    BY <2>1, <2>2, LongestOf
  <2> QED BY <2>3, <2>4
<1> HIDE DEF q
<1>5. \A l \in Lane : \A f \in Touched :
        shm'[l][f] = IF l = lane /\ f = k THEN q[f] ELSE shm[l][f]
  <2> HIDE DEF lane, bytes, long
  <2>1. \A l \in Lane : \A f \in Touched :
          shm'[l][f] = IF l = lane /\ f = k THEN Added(shm[l], bytes, long)[f] ELSE shm[l][f]
    BY <1>2 DEF AddEffect, lane, bytes, long
  <2> QED BY <2>1 DEF q
<1>6. \A l \in Lane : \A f \in Touched :
        /\ Pending(c, l, f)' <=> (Pending(c, l, f) /\ f # k)
        /\ Pending(c, l, f) /\ f = k <=> l = lane /\ f = k
        /\ \A d \in Ctx : d # c => (Pending(d, l, f)' <=> Pending(d, l, f))
        /\ \A d \in Ctx : Pending(d, l, f) => Amount(d, f)' = Amount(d, f)
  BY <1>1, <1>2, <1>3 DEF AddEffect, Pending, Amount
<1>7. \A d \in Ctx : \A l \in Lane : Pending(d, l, "max") => stopping'[d].dur = stopping[d].dur
  BY <1>2 DEF AddEffect
<1>8. Amount(c, "count") = 1 /\ Amount(c, "bytes") = bytes /\ Amount(c, "duration") = long
  BY DEF Amount
<1> HIDE DEF lane, bytes
<1>9. ASSUME NEW l \in Lane, NEW f \in Summed PROVE SumInv(l, f)'
  <2>1. f \in Touched  BY DEF Summed, Touched
  <2>2. \A d \in Ctx : d # c => Owed(l, f)'[d] = Owed(l, f)[d]
    BY <1>6, <2>1 DEF Owed
  <2>3. shm[l][f] \in Nat /\ due[l][f] \in Nat
    BY <2>1, CounterTypes DEF PoolInv, TypeOK
  <2>4. (due'[l][f] - shm'[l][f]) - Owed(l, f)'[c] = (due[l][f] - shm[l][f]) - Owed(l, f)[c]
    <3>1. CASE l = lane /\ f = k
      <4>1. Owed(l, f)'[c] = 0 /\ Owed(l, f)[c] = Amount(c, f)
        BY <3>1, <1>6, <2>1 DEF Owed
      <4>2. shm'[l][f] = shm[l][f] + Amount(c, f)
        BY <3>1, <1>4, <1>5, <1>8, <2>1 DEF Summed
      <4>3. Amount(c, f) \in Nat  BY <1>1, <1>8 DEF Summed
      <4> QED BY <4>1, <4>2, <4>3, <1>1, <2>3
    <3>2. CASE ~(l = lane /\ f = k)
      <4>1. Owed(l, f)'[c] = Owed(l, f)[c]  BY <3>2, <1>6, <2>1 DEF Owed
      <4>2. shm'[l][f] = shm[l][f] /\ due'[l][f] = due[l][f]  BY <3>2, <1>1, <1>5, <2>1
      <4> QED BY <4>1, <4>2
    <3> QED BY <3>1, <3>2
  <2>5. SumInv(l, f)  BY DEF CountInv
  <2> QED BY <2>2, <2>4, <2>5, SumKept
<1>10. ASSUME NEW l \in Lane PROVE MaxInv(l)'
  <2>1. MaxInv(l) /\ "max" \in Touched  BY DEF CountInv, Touched
  <2>2. due[l]["max"] \in Nat /\ shm[l]["max"] \in Nat
    BY <2>1, CounterTypes DEF PoolInv, TypeOK
  <2>3. CASE l = lane /\ k = "max"
    <3>1. shm'[l]["max"] = IF shm[l]["max"] >= long THEN shm[l]["max"] ELSE long
      BY <2>1, <2>3, <1>4, <1>5
    <3>2. long <= due[l]["max"]
      BY <2>1, <2>3, <1>6 DEF MaxInv
    <3>3. shm'[l]["max"] <= due[l]["max"]  BY <3>1, <3>2, <2>1, <2>2, <1>1 DEF MaxInv
    <3>4. CASE shm[l]["max"] = due[l]["max"]
      <4>1. shm'[l]["max"] = due[l]["max"]  BY <3>1, <3>2, <3>4, <2>2, <1>1
      <4> QED BY <4>1, <3>3, <2>1, <1>1, <1>6, <1>7 DEF MaxInv
    <3>5. CASE shm[l]["max"] # due[l]["max"]
      <4>1. PICK d \in Ctx : Pending(d, l, "max") /\ stopping[d].dur = due[l]["max"]
        BY <3>5, <2>1 DEF MaxInv
      <4>2. CASE d = c
        <5>1. shm'[l]["max"] = due[l]["max"]
          BY <4>1, <4>2, <3>1, <3>3, <2>1, <2>2, <1>1 DEF MaxInv
        <5> QED BY <5>1, <3>3, <2>1, <1>1, <1>6, <1>7 DEF MaxInv
      <4>3. CASE d # c
        <5>1. Pending(d, l, "max")' /\ stopping'[d].dur = due[l]["max"]
          BY <4>1, <4>3, <2>1, <1>6, <1>7
        <5> QED BY <5>1, <3>3, <2>1, <1>1, <1>6, <1>7 DEF MaxInv
      <4> QED BY <4>2, <4>3
    <3> QED BY <3>4, <3>5
  <2>4. CASE ~(l = lane /\ k = "max")
    <3>1. shm'[l]["max"] = shm[l]["max"]  BY <2>1, <2>4, <1>5
    <3>2. \A d \in Ctx : /\ Pending(d, l, "max")' <=> Pending(d, l, "max")
                         /\ Pending(d, l, "max") => stopping'[d].dur = stopping[d].dur
      BY <2>1, <2>4, <1>6, <1>7
    <3> QED BY <3>1, <3>2, <2>1, <1>1 DEF MaxInv
  <2> QED BY <2>3, <2>4
<1> QED BY <1>9, <1>10 DEF CountInv

LEMMA ReleaseStepCounts ==
  ASSUME PoolInv, CountInv, NEW c \in Ctx, ReleaseStep(c)
  PROVE  CountInv'
<1>1. /\ stopping[c].todo = {} /\ stopping'[c] = Idle
      /\ \A d \in Ctx : d # c => stopping'[d] = stopping[d]
      /\ step' = step /\ shm' = shm /\ due' = due
  BY DEF ReleaseStep, PoolInv, Events
<1>2. \A d \in Ctx : \A l \in Lane : \A f \in Touched :
        /\ Pending(d, l, f)' <=> Pending(d, l, f)
        /\ Pending(d, l, f) => /\ Amount(d, f)' = Amount(d, f)
                               /\ stopping'[d].dur = stopping[d].dur
  <2> SUFFICES ASSUME NEW d \in Ctx, NEW l \in Lane, NEW f \in Touched
               PROVE  /\ Pending(d, l, f)' <=> Pending(d, l, f)
                      /\ Pending(d, l, f) => /\ Amount(d, f)' = Amount(d, f)
                                             /\ stopping'[d].dur = stopping[d].dur
    OBVIOUS
  <2>1. CASE d = c  BY <2>1, <1>1 DEF Pending
  <2>2. CASE d # c  BY <2>2, <1>1 DEF Pending, Amount
  <2> QED BY <2>1, <2>2
<1>3. ASSUME NEW l \in Lane, NEW f \in Summed PROVE SumInv(l, f)'
  <2>1. Owed(l, f)' = Owed(l, f)  BY <1>2, <1>3 DEF Owed, Touched, Summed
  <2>2. PICK g : IsSum(g, Owed(l, f)) /\ shm[l][f] + g[Ctx] = due[l][f]
    BY <1>3 DEF CountInv, SumInv
  <2>3. IsSum(g, Owed(l, f)') /\ shm'[l][f] + g[Ctx] = due'[l][f]  BY <1>1, <2>1, <2>2
  <2> QED BY <2>3 DEF SumInv, IsSum
<1>4. ASSUME NEW l \in Lane PROVE MaxInv(l)'
  BY <1>1, <1>2, <1>4 DEF CountInv, MaxInv, Touched
<1> QED BY <1>3, <1>4 DEF CountInv

LEMMA InitCounts == Init => CountInv
<1> SUFFICES ASSUME Init PROVE CountInv  OBVIOUS
<1>1. \A c \in Ctx : stopping[c] = Idle  BY DEF Init
<1>2. \A l \in Lane : \A f \in Touched : shm[l][f] = 0 /\ due[l][f] = 0
  BY DEF Init, Zero, Touched
<1>3. ASSUME NEW l \in Lane, NEW f \in Summed PROVE SumInv(l, f)
  <2> DEFINE g == [S \in SUBSET Ctx |-> 0]
  <2>1. \A c \in Ctx : Owed(l, f)[c] = 0  BY <1>1 DEF Owed, Pending
  <2>2. \A S \in SUBSET Ctx : g[S] = 0  OBVIOUS
  <2>3. g \in [SUBSET Ctx -> Int]  OBVIOUS
  <2> HIDE DEF g
  <2>4. IsSum(g, Owed(l, f))  BY <2>1, <2>2, <2>3 DEF IsSum
  <2>5. shm[l][f] + g[Ctx] = due[l][f]  BY <1>2, <1>3, <2>2 DEF Summed, Touched
  <2> QED BY <2>4, <2>5 DEF SumInv
<1>4. ASSUME NEW l \in Lane PROVE MaxInv(l)
  BY <1>1, <1>2, <1>4 DEF MaxInv, Pending, Touched
<1> QED BY <1>3, <1>4 DEF CountInv

LEMMA NextCounts == PoolInv /\ CountInv /\ [Next]_vars => CountInv'
<1> SUFFICES ASSUME PoolInv, CountInv, [Next]_vars PROVE CountInv'  OBVIOUS
<1>1. PoolInv'  BY NextPools
<1>2. CASE UNCHANGED vars  BY <1>2, QuietCounts DEF vars, pools
<1>3. ASSUME NEW c \in Ctx, Callback(c) PROVE CountInv'
  <2>1. CASE Open(c) \/ OpenWithoutShm(c) \/ Finalize(c)
    <3>1. UNCHANGED <<stopping, shm, due, step>>
      BY <2>1 DEF Open, OpenWithoutShm, Finalize, pools
    <3> QED BY <3>1, QuietCounts
  <2>2. CASE AddCounter(c)  BY <2>2, <1>1, AddCounterCounts
  <2>3. CASE ReleaseStep(c)  BY <2>3, ReleaseStepCounts
  <2>4. ASSUME NEW o \in OpId,
               \/ \E lane \in Lane : StartOp(c, o, lane)
               \/ StartForeignOp(c, o) \/ StopOp(c, o)
        PROVE CountInv'
    <3>1. UNCHANGED <<stopping, shm, due, step>>
      BY <2>4 DEF StartOp, StartForeignOp, StopOp, pools
    <3> QED BY <3>1, QuietCounts
  <2>5. ASSUME NEW o \in OpId, NEW i \in StepId, StartStep(c, i, o) PROVE CountInv'
    <3>1. UNCHANGED <<stopping, shm, due>> /\ stopping[c] = Idle
      BY <2>5 DEF StartStep, Calls
    <3>2. \A d \in Ctx : d # c => step'[d] = step[d]
      BY <2>5 DEF StartStep, PoolInv, TypeOK
    <3> QED BY <3>1, <3>2, QuietCounts
  <2>6. ASSUME NEW i \in StepId, RecordState(c, i) PROVE CountInv'
    <3>1. UNCHANGED <<stopping, shm, due>> /\ stopping[c] = Idle
      BY <2>6 DEF RecordState, Calls
    <3>2. \A d \in Ctx : d # c => step'[d] = step[d]
      BY <2>6 DEF RecordState, PoolInv, TypeOK
    <3> QED BY <3>1, <3>2, QuietCounts
  <2>7. ASSUME NEW i \in StepId, NEW dur \in Duration, StopStep(c, i, dur) PROVE CountInv'
    BY <2>7, <1>1, StopStepCounts
  <2> QED BY <1>3, <2>1, <2>2, <2>3, <2>4, <2>5, <2>6, <2>7 DEF Callback
<1> QED BY <1>2, <1>3 DEF Next

(* For any finite set of contexts: once no stopEvent is under way each lane  *)
(* has counted exactly its own steps, their bytes, durations and the longest.*)
THEOREM CountersAreDue == Spec => []CountersAddUp
<1>1. PoolInv /\ CountInv => CountersAddUp
  <2> SUFFICES ASSUME PoolInv, CountInv, \A c \in Ctx : stopping[c] = Idle
               PROVE  shm = due
    BY DEF CountersAddUp
  <2>1. ASSUME NEW l \in Lane PROVE \A f \in Touched : shm[l][f] = due[l][f]
    <3>1. shm[l]["max"] = due[l]["max"]  BY DEF CountInv, MaxInv, Pending
    <3>2. ASSUME NEW f \in Summed PROVE shm[l][f] = due[l][f]
      <4>1. PICK g : IsSum(g, Owed(l, f)) /\ shm[l][f] + g[Ctx] = due[l][f]
        BY DEF CountInv, SumInv
      <4>2. \A c \in Ctx : Owed(l, f)[c] = 0  BY DEF Owed, Pending
      <4>3. g[Ctx] = 0  BY <4>1, <4>2, SumOfNothing
      <4>4. shm[l][f] \in Nat  BY CounterTypes DEF PoolInv, TypeOK, Summed, Touched
      <4> QED BY <4>1, <4>3, <4>4
    <3> QED BY <3>1, <3>2 DEF Touched, Summed
  <2>2. ASSUME NEW l \in Lane PROVE shm[l] = due[l]
    BY <2>1 DEF PoolInv, TypeOK, CounterGroup, Touched
  <2> QED BY <2>2 DEF PoolInv, TypeOK
<1>2. Init => PoolInv /\ CountInv  BY InitPools, InitCounts
<1>3. PoolInv /\ CountInv /\ [Next]_vars => (PoolInv /\ CountInv)'
  BY NextPools, NextCounts
<1> QED BY <1>1, <1>2, <1>3, PTL DEF Spec

----------------------------------------------------------------------------
(* The maximum: AtomicMax, for any processes and values.                     *)

(* The types of the loop, and that what a process saw is not above the       *)
(* counter.                                                                  *)
LoopInv == LoopTypes /\ SeenBelow

(* The loop keeps them. *)
LEMMA LoopInvAlways == LoopSpec => []LoopInv
<1>1. LoopInit => LoopInv
  BY DEF LoopInit, LoopInv, LoopTypes, SeenBelow
<1>2. LoopInv /\ [LoopNext]_loopVars => LoopInv'
  <2>. SUFFICES ASSUME LoopInv, [LoopNext]_loopVars PROVE LoopInv'
    OBVIOUS
  <2>1. ASSUME NEW p \in Process, Begin(p) PROVE LoopInv'
    BY <2>1, AtomicMaxAssumption DEF LoopInv, LoopTypes, SeenBelow, Begin
  <2>2. ASSUME NEW p \in Process, Load(p) PROVE LoopInv'
    BY <2>2 DEF LoopInv, LoopTypes, SeenBelow, Load
  <2>3. ASSUME NEW p \in Process, NotAbove(p) PROVE LoopInv'
    BY <2>3 DEF LoopInv, LoopTypes, SeenBelow, NotAbove
  <2>4. ASSUME NEW p \in Process, Exchange(p) PROVE LoopInv'
    <3>1. a' > a /\ a' \in Nat
      BY <2>4 DEF LoopInv, LoopTypes, Exchange
    <3>. QED  BY <2>4, <3>1 DEF LoopInv, LoopTypes, SeenBelow, Exchange
  <2>5. ASSUME NEW p \in Process, ExchangeFails(p) PROVE LoopInv'
    BY <2>5 DEF LoopInv, LoopTypes, SeenBelow, ExchangeFails
  <2>6. CASE UNCHANGED loopVars
    BY <2>6 DEF LoopInv, LoopTypes, SeenBelow, loopVars
  <2>. QED  BY <2>1, <2>2, <2>3, <2>4, <2>5, <2>6 DEF LoopNext, Step
<1>. QED  BY <1>1, <1>2, PTL DEF LoopSpec

(* The compare-exchange loop implements the atomic maximum that AddCounter   *)
(* makes in one step (nccl_counters.h:66-75), for any processes and values.  *)
(* A call takes effect when its exchange succeeds, or when it sees that the  *)
(* counter is not below its value; every other step is invisible.            *)
THEOREM MaximumIsAtomic == LoopSpec => ImplementsMaxRegister
<1> DEFINE req == [p \in Process |-> IF pc[p] = "idle" THEN None ELSE val[p]]
<1>1. LoopInit => MR!Init
  BY DEF LoopInit, MR!Init
<1>2. LoopInv /\ [LoopNext]_loopVars => [MR!Next]_MR!vars
  <2>. SUFFICES ASSUME LoopInv, [LoopNext]_loopVars PROVE [MR!Next]_MR!vars
    OBVIOUS
  <2>0. \A p \in Process : /\ val[p] \in Nat /\ val[p] # None /\ a \in Nat
                           /\ pc[p] \in {"idle", "load", "loop"} /\ cur[p] \in Nat
                           /\ pc[p] = "loop" => cur[p] <= a
    BY AtomicMaxAssumption DEF LoopInv, LoopTypes, SeenBelow
  <2>1. ASSUME NEW p \in Process, Begin(p) PROVE MR!Call(p)
    <3>1. PICK v \in Value : val' = [val EXCEPT ![p] = v]
      BY <2>1 DEF Begin
    <3>2. req' = [req EXCEPT ![p] = v]
      BY <2>1, <3>1 DEF Begin, LoopInv, LoopTypes
    <3>. QED  BY <2>1, <3>2 DEF Begin, MR!Call
  <2>2. ASSUME NEW p \in Process, Load(p) PROVE UNCHANGED MR!vars
    BY <2>2 DEF Load, MR!vars, LoopInv, LoopTypes
  <2>3. ASSUME NEW p \in Process, NotAbove(p) PROVE MR!Raise(p)
    <3>1. req' = [req EXCEPT ![p] = None] /\ req[p] = val[p]
      BY <2>3 DEF NotAbove, LoopInv, LoopTypes
    <3>2. ~(val[p] > a) /\ val[p] # None /\ a' = a
      BY <2>0, <2>3 DEF NotAbove
    <3>. QED  BY <3>1, <3>2 DEF MR!Raise
  <2>4. ASSUME NEW p \in Process, Exchange(p) PROVE MR!Raise(p)
    <3>1. req' = [req EXCEPT ![p] = None] /\ req[p] = val[p]
      BY <2>4 DEF Exchange, LoopInv, LoopTypes
    <3>2. val[p] > a /\ val[p] # None /\ a' = val[p]
      BY <2>0, <2>4 DEF Exchange
    <3>. QED  BY <3>1, <3>2 DEF MR!Raise
  <2>5. ASSUME NEW p \in Process, ExchangeFails(p) PROVE UNCHANGED MR!vars
    BY <2>5 DEF ExchangeFails, MR!vars
  <2>6. CASE UNCHANGED loopVars
    BY <2>6 DEF loopVars, MR!vars
  <2>. QED  BY <2>1, <2>2, <2>3, <2>4, <2>5, <2>6 DEF LoopNext, Step, MR!Next
<1>. QED  BY <1>1, <1>2, LoopInvAlways, PTL DEF LoopSpec, ImplementsMaxRegister, MR!Spec
=============================================================================
