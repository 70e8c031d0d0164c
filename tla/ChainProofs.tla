----------------------------- MODULE ChainProofs -----------------------------
(***************************************************************************)
(* Proofs about Chain for every allocation size N, step size K, set of       *)
(* readings, set of faults and number of faults.                             *)
(***************************************************************************)
EXTENDS ChainInvariant, SequenceTheorems, TLAPS

LEMMA TaskFacts ==
  /\ N \in Nat \ {0} /\ K \in 1..N
  /\ Task \subseteq Nat
  /\ \A n \in Task : n \in 0..(K - 1) /\ n <= N - 1
  /\ 0 \in Task
BY ChainAssumption DEF Task

(* What a node contributed is never rewritten. *)
Frozen ==
  \A m \in Task : final[m] # NoReading =>
    UNCHANGED <<initial[m], final[m], nodeCount[m]>>

LEMMA CoveredStable ==
  ASSUME NEW n \in Nat, Frozen, Covered(n)
  PROVE  Covered(n)' /\ RowsFrom(n)' = RowsFrom(n)
<1>1. K = N  BY DEF Covered
<1>2. \A m \in n..(N - 1) : m \in Task  BY <1>1, TaskFacts DEF Task
<1>3. \A m \in n..(N - 1) : UNCHANGED <<initial[m], final[m], nodeCount[m]>>
  BY <1>2 DEF Covered, Frozen
<1>4. Covered(n)'  BY <1>1, <1>3 DEF Covered, Member
<1>5. \A i \in 1..(N - n) : N - i \in n..(N - 1)  BY TaskFacts
<1>6. \A i \in 1..(N - n) : TrueRow(N - i)' = TrueRow(N - i)
  BY <1>3, <1>5 DEF TrueRow
<1>7. RowsFrom(n)' = RowsFrom(n)  BY <1>6 DEF RowsFrom
<1> QED BY <1>4, <1>7

(* AggInv survives a step that leaves the aggregates alone. *)
LEMMA AggStable ==
  ASSUME IInv, Frozen, agg' = agg,
         \A m \in Task : agg[m] # <<>> =>
           pc'[m] \in {"publish", "linger", "done", "failed"},
         \A m \in Task : pc'[m] \in {"publish", "linger", "done"} => agg[m] # <<>>
  PROVE  AggInv'
<1> SUFFICES ASSUME NEW n \in Task, agg[n] # <<>>
             PROVE  /\ final'[n] # NoReading
                    /\ Member(n)' => Covered(n)' /\ agg[n] = RowsFrom(n)'
                    /\ Alone(n)' => agg[n] = <<AloneRow(n)'>>
  BY DEF AggInv
<1>1. UNCHANGED <<initial[n], final[n], nodeCount[n]>>
  BY DEF IInv, AggInv, Frozen
<1>2. AloneRow(n)' = AloneRow(n)  BY <1>1 DEF AloneRow
<1>3. CASE Member(n)
  BY <1>1, <1>3, CoveredStable, TaskFacts DEF IInv, AggInv, Member, Alone
<1>4. CASE ~Member(n)
  BY <1>1, <1>2, <1>4 DEF IInv, AggInv, Member, Alone
<1> QED BY <1>3, <1>4

(* A task that has not yet pushed a row moves, and touches no row and no      *)
(* message.                                                                  *)
QuietStep(n, q) ==
  /\ pc[n] \in {"start", "initial", "command", "final", "bind"}
  /\ q \in {"initial", "command", "final", "bind", "recv", "failed"}
  /\ pc' = [pc EXCEPT ![n] = q]
  /\ UNCHANGED <<agg, pipe, inbox, report>>
  /\ \A m \in Task \ {n} : UNCHANGED <<nodeCount[m], procid[m]>>

LEMMA QuietStepInv ==
  ASSUME NEW n \in Task, NEW q, IInv, QuietStep(n, q), Frozen
  PROVE  AggInv' /\ PipeInv' /\ InboxInv' /\ TakenInv' /\ ReportInv' /\ LeftInv'
<1> USE TaskFacts DEF IInv, QuietStep
<1>1. agg[n] = <<>> /\ inbox[n] = <<>> /\ pipe[n] = <<>> /\ report[n] = <<>>
  BY DEF AggInv, InboxInv, PipeInv, ReportInv
<1>2. \A m \in Task : pc'[m] = IF m = n THEN q ELSE pc[m]
  BY DEF TypeOK
<1>3. AggInv'
  <2>1. \A m \in Task : agg[m] # <<>> =>
           pc'[m] \in {"publish", "linger", "done", "failed"}
    BY <1>1, <1>2 DEF AggInv
  <2>2. \A m \in Task : pc'[m] \in {"publish", "linger", "done"} => agg[m] # <<>>
    BY <1>2 DEF AggInv
  <2> QED BY <2>1, <2>2, AggStable
<1>4. PipeInv'
  <2> SUFFICES ASSUME NEW m \in Task
               PROVE  /\ pc'[m] = "linger" => Member(m)' /\ m # 0
                      /\ pipe[m] # <<>> => pc'[m] = "linger" /\ pipe[m] = <<agg[m]>>
    BY DEF PipeInv
  <2>1. CASE m = n  BY <2>1, <1>1, <1>2
  <2>2. CASE m # n  BY <2>2, <1>2 DEF PipeInv, Member
  <2> QED BY <2>1, <2>2
<1>5. InboxInv'
  <2> SUFFICES ASSUME NEW m \in Task, inbox[m] # <<>>
               PROVE  /\ pc'[m] = "recv" /\ m + 1 \in Task /\ Member(m + 1)'
                      /\ pc'[m + 1] \in {"linger", "done", "failed"}
                      /\ pipe[m + 1] = <<>> /\ agg[m + 1] # <<>> /\ inbox[m] = <<agg[m + 1]>>
    BY DEF InboxInv
  <2>1. pc[m] = "recv" /\ m + 1 \in Task /\ m + 1 # n /\ m # n
    BY <1>1 DEF InboxInv
  <2> QED  BY <2>1, <1>2 DEF InboxInv, Member
<1>6. TakenInv'
  <2> SUFFICES ASSUME NEW m \in Task, Member(m)', m + 1 \in Task, agg[m] # <<>>
               PROVE  /\ pc'[m + 1] \in {"linger", "done", "failed"}
                      /\ pipe[m + 1] = <<>> /\ agg[m + 1] # <<>>
    BY DEF TakenInv
  <2>1. m # n /\ Member(m)  BY <1>1 DEF Member
  <2>2. m + 1 # n  BY <2>1, <1>1 DEF TakenInv
  <2> QED BY <2>1, <2>2, <1>2 DEF TakenInv
<1>7. ReportInv'
  <2> SUFFICES ASSUME NEW m \in Task, report[m] # <<>>
               PROVE  pc'[m] = "done" /\ procid'[m] = 0 /\ report[m] = agg[m]
    BY DEF ReportInv
  <2> QED BY <1>1, <1>2 DEF ReportInv
<1>8. LeftInv'
  <2> SUFFICES ASSUME NEW m \in Task, pc'[m] \in {"linger", "done"}, procid'[m] # 0
               PROVE  /\ pc'[m] = "done" => pipe[m] = <<>> /\ Member(m)'
                      /\ pipe[m] = <<>> =>
                           \/ pc'[m - 1] = "failed"
                           \/ inbox[m - 1] # <<>>
                           \/ Member(m - 1)' /\ agg[m - 1] # <<>>
    BY DEF LeftInv
  <2>1. m # n /\ pc[m] = pc'[m] /\ procid[m] # 0 /\ nodeCount'[m] = nodeCount[m]
    BY <1>2
  <2>2. m - 1 \in Task
    BY <2>1 DEF ViewInv, Task
  <2>3. pc[m - 1] = "failed" => pc'[m - 1] = "failed"
    BY <1>2, <2>2
  <2> QED BY <1>1, <2>1, <2>2, <2>3 DEF LeftInv, Member
<1> QED BY <1>3, <1>4, <1>5, <1>6, <1>7, <1>8

LEMMA EnterInv == ASSUME NEW n \in Task, IInv, Enter(n) PROVE IInv'
<1> USE TaskFacts DEF IInv, Enter, Goto
<1>1. TypeOK'  BY DEF TypeOK, PC
<1>2. ViewInv'  BY DEF TypeOK, ViewInv, Alone
<1>3. MeasureInv'  BY DEF TypeOK, MeasureInv
<1>4. WaitInv'  BY DEF TypeOK, WaitInv, ViewInv, Member
<1>5. Frozen  BY DEF TypeOK, Frozen, MeasureInv
<1>6. QuietStep(n, "initial")  BY DEF TypeOK, QuietStep
<1> QED BY <1>1, <1>2, <1>3, <1>4, <1>5, <1>6, QuietStepInv

LEMMA EnterStandaloneInv ==
  ASSUME NEW n \in Task, IInv, EnterStandalone(n) PROVE IInv'
<1> USE TaskFacts DEF IInv, EnterStandalone, Goto, Fault
<1>1. TypeOK'  BY SMTT(30), ChainAssumption DEF TypeOK, PC
<1>2. ViewInv'
  <2>1. N = 1 => n = 0  OBVIOUS
  <2> QED BY <2>1 DEF TypeOK, ViewInv, Alone
<1>3. MeasureInv'  BY DEF TypeOK, MeasureInv
<1>4. WaitInv'  BY DEF TypeOK, WaitInv, ViewInv, Member
<1>5. Frozen  BY DEF TypeOK, Frozen, MeasureInv
<1>6. QuietStep(n, "initial")  BY DEF TypeOK, QuietStep
<1> QED BY <1>1, <1>2, <1>3, <1>4, <1>5, <1>6, QuietStepInv

LEMMA ReadInitialInv ==
  ASSUME NEW n \in Task, IInv, ReadInitial(n) PROVE IInv'
<1> USE TaskFacts DEF IInv, ReadInitial, Goto
<1>1. TypeOK'  BY SMTT(30) DEF TypeOK, PC
<1>2. ViewInv'  BY DEF TypeOK, ViewInv, Alone
<1>3. MeasureInv'  BY ChainAssumption DEF TypeOK, MeasureInv
<1>4. WaitInv'  BY DEF TypeOK, WaitInv, Member
<1>5. Frozen  BY DEF TypeOK, Frozen, MeasureInv
<1>6. QuietStep(n, "command")  BY DEF TypeOK, QuietStep
<1> QED BY <1>1, <1>2, <1>3, <1>4, <1>5, <1>6, QuietStepInv

LEMMA RunCommandInv ==
  ASSUME NEW n \in Task, IInv, RunCommand(n) PROVE IInv'
<1> USE TaskFacts DEF IInv, RunCommand, Goto
<1>1. TypeOK'  BY DEF TypeOK, PC
<1>2. ViewInv'  BY DEF TypeOK, ViewInv, Alone
<1>3. MeasureInv'  BY DEF TypeOK, MeasureInv
<1>4. WaitInv'  BY DEF TypeOK, WaitInv, Member
<1>5. Frozen  BY DEF TypeOK, Frozen
<1>6. QuietStep(n, "final")  BY DEF TypeOK, QuietStep
<1> QED BY <1>1, <1>2, <1>3, <1>4, <1>5, <1>6, QuietStepInv

(* CommandFails and BindFails. *)
LEMMA ExitEarlyInv ==
  ASSUME NEW n \in Task, IInv, CommandFails(n) \/ BindFails(n) PROVE IInv'
<1> USE TaskFacts DEF IInv, CommandFails, BindFails, Goto, Fault
<1>1. TypeOK'
  <2>1. faults' \in 0..MaxFaults  BY ChainAssumption DEF TypeOK
  <2>2. pc' \in [Task -> PC]  BY DEF TypeOK, PC
  <2> QED BY <2>1, <2>2 DEF TypeOK
<1>2. ViewInv'  BY DEF TypeOK, ViewInv, Alone
<1>3. MeasureInv'  BY DEF TypeOK, MeasureInv
<1>4. WaitInv'  BY DEF TypeOK, WaitInv, Member
<1>5. Frozen  BY DEF TypeOK, Frozen
<1>6. QuietStep(n, "failed")  BY DEF TypeOK, QuietStep
<1> QED BY <1>1, <1>2, <1>3, <1>4, <1>5, <1>6, QuietStepInv

LEMMA BindInv == ASSUME NEW n \in Task, IInv, Bind(n) PROVE IInv'
<1> USE TaskFacts DEF IInv, Bind, Goto
<1>1. TypeOK'  BY DEF TypeOK, PC
<1>2. ViewInv'  BY DEF TypeOK, ViewInv, Alone
<1>3. MeasureInv'  BY DEF TypeOK, MeasureInv
<1>4. WaitInv'  BY DEF TypeOK, WaitInv, Member
<1>5. Frozen  BY DEF TypeOK, Frozen
<1>6. QuietStep(n, "recv")  BY DEF TypeOK, QuietStep
<1> QED BY <1>1, <1>2, <1>3, <1>4, <1>5, <1>6, QuietStepInv

(* The last node pushes the first row; any other node goes on to wait.       *)
LEMMA ReadFinalInv == ASSUME NEW n \in Task, IInv, ReadFinal(n) PROVE IInv'
<1> USE TaskFacts DEF IInv, Goto
<1>1. PICK r \in Reading : 
        /\ final' = [final EXCEPT ![n] = r]
        /\ \/ /\ IsLast(n)
              /\ Goto(n, "final", "publish")
              /\ agg' = [agg EXCEPT ![n] = <<OwnRow(n, r)>>]
           \/ /\ ~IsLast(n)
              /\ Goto(n, "final", "bind")
              /\ UNCHANGED agg
        /\ UNCHANGED <<procid, nodeCount, initial, pipe, inbox, report, faults>>
  BY DEF ReadFinal
<1>2. Frozen  BY <1>1 DEF TypeOK, Frozen, MeasureInv
<1>3. ViewInv'  BY <1>1 DEF TypeOK, ViewInv, Alone
<1>4. MeasureInv'
  <2>1. r # NoReading /\ pc[n] = "final"  BY <1>1, ChainAssumption
  <2>2. nodeCount[n] # 0 /\ initial[n] # NoReading
    BY <2>1 DEF ViewInv, MeasureInv
  <2>3. \A m \in Task : final'[m] = IF m = n THEN r ELSE final[m]
    BY <1>1 DEF TypeOK
  <2>4. PICK q \in {"publish", "bind"} : pc' = [pc EXCEPT ![n] = q]
    BY <1>1
  <2>5. \A m \in Task : pc'[m] = IF m = n THEN q ELSE pc[m]
    BY <2>4 DEF TypeOK
  <2>6. initial' = initial /\ nodeCount' = nodeCount  BY <1>1
  <2> QED BY <2>1, <2>2, <2>3, <2>5, <2>6 DEF MeasureInv
<1>5. nodeCount[n] # 0 /\ initial[n] \in Reading
  <2>1. pc[n] = "final"  BY <1>1
  <2>2. nodeCount[n] # 0  BY <2>1 DEF ViewInv
  <2>3. initial[n] # NoReading  BY <2>1 DEF MeasureInv
  <2> QED BY <2>2, <2>3 DEF TypeOK
<1>6. CASE ~IsLast(n)
  <2> USE <1>6
  <2>1. TypeOK'  BY <1>1 DEF TypeOK, PC
  <2>2. WaitInv'
    <3>1. Member(n) /\ n # N - 1
      BY <1>1, <1>5 DEF TypeOK, ViewInv, IsLast, Member, Alone
    <3> QED BY <1>1, <3>1 DEF TypeOK, WaitInv, Member
  <2>3. QuietStep(n, "bind")  BY <1>1 DEF TypeOK, QuietStep
  <2> QED BY <1>2, <1>3, <1>4, <2>1, <2>2, <2>3, QuietStepInv
<1>7. CASE IsLast(n)
  <2> USE <1>7
  <2>1. /\ pc' = [pc EXCEPT ![n] = "publish"] /\ pc[n] = "final"
        /\ agg' = [agg EXCEPT ![n] = <<OwnRow(n, r)>>]
    BY <1>1
  <2>2. OwnRow(n, r) \in Row
    BY <1>5 DEF OwnRow, Row, TypeOK
  <2>3. \A m \in Task : pc'[m] = IF m = n THEN "publish" ELSE pc[m]
    BY <2>1 DEF TypeOK
  <2>4. \A m \in Task : agg'[m] = IF m = n THEN <<OwnRow(n, r)>> ELSE agg[m]
    BY <2>1 DEF TypeOK
  <2>5. agg[n] = <<>> /\ inbox[n] = <<>> /\ pipe[n] = <<>> /\ report[n] = <<>>
    BY <2>1 DEF AggInv, InboxInv, PipeInv, ReportInv
  <2>6. TypeOK'
    <3>1. pc' \in [Task -> PC]  BY <2>1 DEF TypeOK, PC
    <3>2. agg' \in [Task -> Seq(Row)]  BY <2>1, <2>2 DEF TypeOK
    <3>3. final' \in [Task -> Reading \cup {NoReading}]  BY <1>1 DEF TypeOK
    <3> QED BY <3>1, <3>2, <3>3, <1>1 DEF TypeOK
  <2>7. WaitInv'  BY <1>1, <2>3 DEF WaitInv, Member
  <2>8. AggInv'
    <3> SUFFICES ASSUME NEW m \in Task
                 PROVE  /\ pc'[m] \in {"publish", "linger", "done"} => agg'[m] # <<>>
                        /\ agg'[m] # <<>> =>
                             /\ pc'[m] \in {"publish", "linger", "done", "failed"}
                             /\ final'[m] # NoReading
                             /\ Member(m)' => Covered(m)' /\ agg'[m] = RowsFrom(m)'
                             /\ Alone(m)' => agg'[m] = <<AloneRow(m)'>>
      BY DEF AggInv
    <3>1. CASE m # n
      <4>1. UNCHANGED <<nodeCount[m], initial[m], final[m]>>
        BY <1>1, <3>1 DEF TypeOK
      <4>2. AloneRow(m)' = AloneRow(m)  BY <4>1 DEF AloneRow
      <4>3. Covered(m) => Covered(m)' /\ RowsFrom(m)' = RowsFrom(m)
        BY <1>2, CoveredStable
      <4> QED BY <3>1, <4>1, <4>2, <4>3, <2>3, <2>4 DEF AggInv, Member, Alone
    <3>2. CASE m = n
      <4>1. agg'[n] = <<OwnRow(n, r)>> /\ agg'[n] # <<>> /\ pc'[n] = "publish"
        BY <2>3, <2>4
      <4>2. final'[n] = r /\ initial'[n] = initial[n] /\ r # NoReading
        BY <1>1, ChainAssumption DEF TypeOK
      <4>3. ASSUME Member(n)'
            PROVE  Covered(n)' /\ agg'[n] = RowsFrom(n)'
        <5>1. Member(n)  BY <1>1, <4>3 DEF Member
        <5>2. procid[n] = n  BY <5>1 DEF ViewInv, Alone, Member
        <5>3. n = N - 1 /\ K = N  BY <5>1, <5>2 DEF IsLast, Member
        <5>4. Covered(n)'
          BY <5>3, <4>2, <4>3, <1>5, ChainAssumption DEF Covered
        <5>5. TrueRow(n)' = OwnRow(n, r)
          BY <5>2, <4>2 DEF TrueRow, OwnRow
        <5>6. RowsFrom(n)' = [i \in 1..1 |-> TrueRow(N - i)']
          BY <5>3 DEF RowsFrom
        <5>7. [i \in 1..1 |-> TrueRow(N - i)'] = <<TrueRow(n)'>>
          BY <5>3
        <5> QED BY <5>4, <5>5, <5>6, <5>7, <4>1
      <4>4. ASSUME Alone(n)'
            PROVE  agg'[n] = <<AloneRow(n)'>>
        <5>1. procid[n] = 0  BY <1>1, <4>4 DEF ViewInv, Alone
        <5>2. AloneRow(n)' = OwnRow(n, r)  BY <5>1, <4>2 DEF AloneRow, OwnRow
        <5> QED BY <5>2, <4>1
      <4> QED BY <3>2, <4>1, <4>2, <4>3, <4>4
    <3> QED BY <3>1, <3>2
  <2>9. PipeInv'
    <3>1. \A m \in Task : pipe[m] # <<>> => m # n  BY <2>5
    <3> QED BY <1>1, <2>3, <2>4, <3>1 DEF PipeInv, Member
  <2>10. InboxInv'
    <3> SUFFICES ASSUME NEW m \in Task, inbox[m] # <<>>
                 PROVE  /\ pc'[m] = "recv" /\ m + 1 \in Task /\ Member(m + 1)'
                        /\ pc'[m + 1] \in {"linger", "done", "failed"}
                        /\ pipe[m + 1] = <<>> /\ agg'[m + 1] # <<>> /\ inbox[m] = <<agg'[m + 1]>>
      BY <1>1 DEF InboxInv
    <3>1. pc[m] = "recv" /\ m + 1 \in Task /\ m + 1 # n /\ m # n
      BY <2>1, <2>5 DEF InboxInv
    <3> QED BY <1>1, <3>1, <2>3, <2>4 DEF InboxInv, Member
  <2>11. TakenInv'
    <3> SUFFICES ASSUME NEW m \in Task, Member(m)', m + 1 \in Task, agg'[m] # <<>>
                 PROVE  /\ pc'[m + 1] \in {"linger", "done", "failed"}
                        /\ pipe[m + 1] = <<>> /\ agg'[m + 1] # <<>>
      BY <1>1 DEF TakenInv
    <3>1. Member(m)  BY <1>1 DEF Member
    <3>2. m # n
      BY <3>1 DEF IsLast, Member, ViewInv, Alone
    <3>3. m + 1 # n
      BY <3>1, <3>2, <2>1, <2>4 DEF TakenInv
    <3> QED BY <3>1, <3>2, <3>3, <2>3, <2>4 DEF TakenInv
  <2>12. ReportInv'
    <3>1. \A m \in Task : report[m] # <<>> => m # n  BY <2>5
    <3> QED BY <1>1, <2>3, <2>4, <3>1 DEF ReportInv
  <2>13. LeftInv'
    <3> SUFFICES ASSUME NEW m \in Task, pc'[m] \in {"linger", "done"}, procid[m] # 0
                 PROVE  /\ pc'[m] = "done" => pipe[m] = <<>> /\ Member(m)'
                        /\ pipe[m] = <<>> =>
                             \/ pc'[m - 1] = "failed"
                             \/ inbox[m - 1] # <<>>
                             \/ Member(m - 1)' /\ agg'[m - 1] # <<>>
      BY <1>1 DEF LeftInv
    <3>1. m # n /\ pc[m] = pc'[m]  BY <2>3
    <3>2. m - 1 \in Task  BY DEF ViewInv, Task
    <3>3. pc[m - 1] = "failed" => pc'[m - 1] = "failed"  BY <2>1, <2>3, <3>2
    <3>4. agg[m - 1] # <<>> => agg'[m - 1] # <<>>  BY <2>4, <3>2
    <3> QED BY <1>1, <3>1, <3>2, <3>3, <3>4 DEF LeftInv, Member
  <2> QED BY <1>3, <1>4, <2>6, <2>7, <2>8, <2>9, <2>10, <2>11, <2>12, <2>13
<1> QED BY <1>6, <1>7

LEMMA AppendRow ==
  ASSUME NEW n \in Nat, n < N
  PROVE  Append(RowsFrom(n + 1), TrueRow(n)) = RowsFrom(n)
<1> DEFINE S == {TrueRow(m) : m \in Nat}
           rows == RowsFrom(n + 1)
<1>1. \A i \in 1..(N - n) : N - i \in Nat /\ N - i >= n  BY TaskFacts
<1>2. rows \in Seq(S) /\ Len(rows) = N - n - 1
  <2>1. N - (n + 1) \in Nat  BY TaskFacts
  <2>2. \A i \in 1..(N - (n + 1)) : TrueRow(N - i) \in S  BY <1>1, TaskFacts
  <2>3. rows \in [1..(N - (n + 1)) -> S]  BY <2>2 DEF RowsFrom
  <2> QED BY <2>1, <2>3, TaskFacts
<1>3. RowsFrom(n) \in Seq(S) /\ Len(RowsFrom(n)) = N - n
  <2>1. N - n \in Nat  BY TaskFacts
  <2>2. \A i \in 1..(N - n) : TrueRow(N - i) \in S  BY <1>1
  <2>3. RowsFrom(n) \in [1..(N - n) -> S]  BY <2>2 DEF RowsFrom
  <2> QED BY <2>1, <2>3
<1>4. TrueRow(n) \in S  OBVIOUS
<1>5. /\ Append(rows, TrueRow(n)) \in Seq(S)
      /\ Len(Append(rows, TrueRow(n))) = N - n
  BY <1>2, <1>4, TaskFacts
<1>6. ASSUME NEW i \in 1..(N - n)
      PROVE  Append(rows, TrueRow(n))[i] = RowsFrom(n)[i]
  <2>1. RowsFrom(n)[i] = TrueRow(N - i)  BY DEF RowsFrom
  <2>2. CASE i = N - n
    <3>1. Append(rows, TrueRow(n))[i] = TrueRow(n)
      BY <2>2, <1>2, <1>4, TaskFacts
    <3>2. N - i = n  BY <2>2, TaskFacts
    <3> QED BY <2>1, <3>1, <3>2
  <2>3. CASE i # N - n
    <3>1. i \in 1..(N - (n + 1))  BY <2>3, TaskFacts
    <3>2. Append(rows, TrueRow(n))[i] = rows[i]  BY <3>1, <1>2, <1>4, TaskFacts
    <3>3. rows[i] = TrueRow(N - i)  BY <3>1 DEF RowsFrom
    <3> QED BY <2>1, <3>2, <3>3
  <2> QED BY <2>2, <2>3
<1> QED BY <1>3, <1>5, <1>6, SeqEqual

LEMMA ReceiveInv == ASSUME NEW n \in Task, IInv, Receive(n) PROVE IInv'
<1> USE TaskFacts DEF IInv, Goto
<1> DEFINE row == OwnRow(n, final[n])
<1>1. /\ pc[n] = "recv" /\ pc' = [pc EXCEPT ![n] = "publish"]
      /\ inbox[n] # <<>>
      /\ agg' = [agg EXCEPT ![n] = Append(Head(inbox[n]), row)]
      /\ inbox' = [inbox EXCEPT ![n] = <<>>]
      /\ UNCHANGED <<procid, nodeCount, initial, final, pipe, report, faults>>
  BY DEF Receive
<1>2. /\ n + 1 \in Task /\ Member(n + 1) /\ Member(n)
      /\ pc[n + 1] \in {"linger", "done", "failed"}
      /\ pipe[n + 1] = <<>> /\ agg[n + 1] # <<>> /\ inbox[n] = <<agg[n + 1]>>
  BY <1>1 DEF InboxInv, WaitInv
<1>3. Head(inbox[n]) = agg[n + 1] /\ agg[n + 1] \in Seq(Row)
  BY <1>2 DEF TypeOK
<1>4. procid[n] = n  BY <1>2 DEF ViewInv, Alone, Member
<1>5. initial[n] \in Reading /\ final[n] \in Reading
  BY <1>1 DEF TypeOK, MeasureInv
<1>6. row = TrueRow(n) /\ row \in Row
  BY <1>4, <1>5 DEF OwnRow, TrueRow, Row, TypeOK
<1>7. Covered(n + 1) /\ agg[n + 1] = RowsFrom(n + 1)
  BY <1>2 DEF AggInv
<1>8. Covered(n) /\ Append(Head(inbox[n]), row) = RowsFrom(n)
  <2>1. Covered(n)
    BY <1>2, <1>5, <1>7, ChainAssumption DEF Covered
  <2> QED BY <2>1, <1>3, <1>6, <1>7, AppendRow
<1>9. Append(Head(inbox[n]), row) \in Seq(Row) /\ Append(Head(inbox[n]), row) # <<>>
  BY <1>3, <1>6
<1>10. \A m \in Task : pc'[m] = IF m = n THEN "publish" ELSE pc[m]
  BY <1>1 DEF TypeOK
<1>11. \A m \in Task : agg'[m] = IF m = n THEN RowsFrom(n) ELSE agg[m]
  BY <1>1, <1>8 DEF TypeOK
<1>12. \A m \in Task : inbox'[m] = IF m = n THEN <<>> ELSE inbox[m]
  BY <1>1 DEF TypeOK
<1>13. agg[n] = <<>> /\ pipe[n] = <<>> /\ report[n] = <<>>
  BY <1>1 DEF AggInv, PipeInv, ReportInv
<1>14. Frozen  BY <1>1 DEF Frozen
<1>15. TypeOK'
  <2>1. pc' \in [Task -> PC]  BY <1>1 DEF TypeOK, PC
  <2>2. agg' \in [Task -> Seq(Row)]  BY <1>1, <1>9 DEF TypeOK
  <2>3. inbox' \in [Task -> Seq(Seq(Row))]  BY <1>1 DEF TypeOK
  <2> QED BY <2>1, <2>2, <2>3, <1>1 DEF TypeOK
<1>16. ViewInv'  BY <1>1, <1>10 DEF ViewInv, Alone
<1>17. MeasureInv'  BY <1>1, <1>10 DEF MeasureInv
<1>18. WaitInv'  BY <1>1, <1>10 DEF WaitInv, Member
<1>19. AggInv'
  <2> SUFFICES ASSUME NEW m \in Task
               PROVE  /\ pc'[m] \in {"publish", "linger", "done"} => agg'[m] # <<>>
                      /\ agg'[m] # <<>> =>
                           /\ pc'[m] \in {"publish", "linger", "done", "failed"}
                           /\ final'[m] # NoReading
                           /\ Member(m)' => Covered(m)' /\ agg'[m] = RowsFrom(m)'
                           /\ Alone(m)' => agg'[m] = <<AloneRow(m)'>>
    BY DEF AggInv
  <2>1. UNCHANGED <<nodeCount[m], initial[m], final[m]>>  BY <1>1
  <2>2. AloneRow(m)' = AloneRow(m)  BY <2>1 DEF AloneRow
  <2>3. Covered(m) => Covered(m)' /\ RowsFrom(m)' = RowsFrom(m)
    BY <1>14, CoveredStable
  <2>4. CASE m # n
    BY <2>1, <2>2, <2>3, <2>4, <1>10, <1>11 DEF AggInv, Member, Alone
  <2>5. CASE m = n
    <3>1. agg'[m] # <<>>  BY <2>5, <1>8, <1>9, <1>11
    <3>2. final'[m] # NoReading  BY <2>1, <2>5, <1>5, ChainAssumption
    <3>3. ~Alone(m)'  BY <2>1, <2>5, <1>2 DEF Alone, Member
    <3> QED BY <2>3, <2>5, <3>1, <3>2, <3>3, <1>8, <1>10, <1>11
  <2> QED BY <2>4, <2>5
<1>20. PipeInv'
  <2> SUFFICES ASSUME NEW m \in Task
               PROVE  /\ pc'[m] = "linger" => Member(m)' /\ m # 0
                      /\ pipe[m] # <<>> => pc'[m] = "linger" /\ pipe[m] = <<agg'[m]>>
    BY <1>1 DEF PipeInv
  <2>1. CASE m = n  BY <2>1, <1>10, <1>13
  <2>2. CASE m # n  BY <2>2, <1>1, <1>10, <1>11 DEF PipeInv, Member
  <2> QED BY <2>1, <2>2
<1>21. InboxInv'
  <2> SUFFICES ASSUME NEW m \in Task, inbox'[m] # <<>>
               PROVE  /\ pc'[m] = "recv" /\ m + 1 \in Task /\ Member(m + 1)'
                      /\ pc'[m + 1] \in {"linger", "done", "failed"}
                      /\ pipe[m + 1] = <<>> /\ agg'[m + 1] # <<>>
                      /\ inbox'[m] = <<agg'[m + 1]>>
    BY <1>1 DEF InboxInv
  <2>1. m # n /\ inbox'[m] = inbox[m]  BY <1>12
  <2>2. m + 1 # n  BY <2>1, <1>1 DEF InboxInv
  <2> QED BY <1>1, <2>1, <2>2, <1>10, <1>11 DEF InboxInv, Member
<1>22. TakenInv'
  <2> SUFFICES ASSUME NEW m \in Task, Member(m), m + 1 \in Task, agg'[m] # <<>>
               PROVE  /\ pc'[m + 1] \in {"linger", "done", "failed"}
                      /\ pipe[m + 1] = <<>> /\ agg'[m + 1] # <<>>
    BY <1>1 DEF TakenInv, Member
  <2>1. CASE m = n  BY <2>1, <1>2, <1>10, <1>11
  <2>2. CASE m # n
    <3>1. agg[m] # <<>>  BY <2>2, <1>11
    <3>2. m + 1 # n  BY <3>1, <1>1 DEF TakenInv
    <3> QED BY <3>1, <3>2, <1>10, <1>11 DEF TakenInv
  <2> QED BY <2>1, <2>2
<1>23. ReportInv'
  <2>1. \A m \in Task : report[m] # <<>> => m # n  BY <1>13
  <2> QED BY <1>1, <1>10, <1>11, <2>1 DEF ReportInv
<1>24. LeftInv'
  <2> SUFFICES ASSUME NEW m \in Task, pc'[m] \in {"linger", "done"}, procid[m] # 0
               PROVE  /\ pc'[m] = "done" => pipe[m] = <<>> /\ Member(m)'
                      /\ pipe[m] = <<>> =>
                           \/ pc'[m - 1] = "failed"
                           \/ inbox'[m - 1] # <<>>
                           \/ Member(m - 1)' /\ agg'[m - 1] # <<>>
    BY <1>1 DEF LeftInv
  <2>1. m # n /\ pc[m] = pc'[m]  BY <1>10
  <2>2. m - 1 \in Task  BY DEF ViewInv, Task
  <2>3. CASE m - 1 = n
    <3>1. agg'[m - 1] # <<>> /\ Member(m - 1)'
      BY <2>3, <1>1, <1>2, <1>8, <1>9, <1>11 DEF Member
    <3> QED BY <1>1, <2>1, <3>1 DEF LeftInv, Member
  <2>4. CASE m - 1 # n
    BY <1>1, <2>1, <2>2, <2>4, <1>10, <1>11, <1>12 DEF LeftInv, Member
  <2> QED BY <2>3, <2>4
<1> QED BY <1>15, <1>16, <1>17, <1>18, <1>19, <1>20, <1>21, <1>22, <1>23, <1>24

(* The steps below leave readings, views and aggregates alone and move a     *)
(* task that has published: what they can disturb is the traffic.            *)
AfterwardsStep(n, q) ==
  /\ pc[n] \in {"publish", "linger"}
  /\ q \in {"linger", "done", "failed"}
  /\ pc' = [pc EXCEPT ![n] = q]
  /\ UNCHANGED <<procid, nodeCount, initial, final, agg, inbox>>

LEMMA AfterwardsInv ==
  ASSUME NEW n \in Task, NEW q, IInv, AfterwardsStep(n, q)
  PROVE  ViewInv' /\ MeasureInv' /\ WaitInv' /\ AggInv'
<1> USE TaskFacts DEF IInv, AfterwardsStep
<1>1. \A m \in Task : pc'[m] = IF m = n THEN q ELSE pc[m]
  BY DEF TypeOK
<1>2. ViewInv'  BY <1>1 DEF ViewInv, Alone
<1>3. MeasureInv'  BY <1>1 DEF MeasureInv
<1>4. WaitInv'  BY <1>1 DEF WaitInv, Member
<1>5. AggInv'
  <2>1. Frozen  BY DEF Frozen
  <2>2. \A m \in Task : agg[m] # <<>> =>
           pc'[m] \in {"publish", "linger", "done", "failed"}
    BY <1>1 DEF AggInv
  <2>3. \A m \in Task : pc'[m] \in {"publish", "linger", "done"} => agg[m] # <<>>
    BY <1>1 DEF AggInv
  <2> QED BY <2>1, <2>2, <2>3, AggStable
<1> QED BY <1>2, <1>3, <1>4, <1>5

LEMMA PublishInv == ASSUME NEW n \in Task, IInv, Publish(n) PROVE IInv'
<1> USE TaskFacts DEF IInv
<1>1. /\ procid[n] = 0 /\ pc[n] = "publish" /\ pc' = [pc EXCEPT ![n] = "done"]
      /\ report' = [report EXCEPT ![n] = agg[n]]
      /\ UNCHANGED <<procid, nodeCount, initial, final, agg, pipe, inbox, faults>>
  BY DEF Publish, Goto, IsFirst
<1>2. \A m \in Task : pc'[m] = IF m = n THEN "done" ELSE pc[m]
  BY <1>1 DEF TypeOK
<1>3. ViewInv' /\ MeasureInv' /\ WaitInv' /\ AggInv'
  <2>1. AfterwardsStep(n, "done")  BY <1>1 DEF AfterwardsStep
  <2> QED BY <2>1, AfterwardsInv
<1>4. TypeOK'  BY <1>1 DEF TypeOK, PC
<1>5. pipe[n] = <<>> /\ inbox[n] = <<>>  BY <1>1 DEF PipeInv, InboxInv
<1>6. PipeInv'
  <2> SUFFICES ASSUME NEW m \in Task
               PROVE  /\ pc'[m] = "linger" => Member(m)' /\ m # 0
                      /\ pipe[m] # <<>> => pc'[m] = "linger" /\ pipe[m] = <<agg[m]>>
    BY <1>1 DEF PipeInv
  <2>1. CASE m = n  BY <2>1, <1>2, <1>5
  <2>2. CASE m # n  BY ZenonT(60), <2>2, <1>1, <1>2 DEF PipeInv, Member
  <2> QED BY <2>1, <2>2
<1>7. InboxInv'
  <2> SUFFICES ASSUME NEW m \in Task, inbox[m] # <<>>
               PROVE  /\ pc'[m] = "recv" /\ m + 1 \in Task /\ Member(m + 1)'
                      /\ pc'[m + 1] \in {"linger", "done", "failed"}
                      /\ pipe[m + 1] = <<>> /\ agg[m + 1] # <<>> /\ inbox[m] = <<agg[m + 1]>>
    BY <1>1 DEF InboxInv
  <2>1. m # n  BY <1>5
  <2> QED BY ZenonT(60), <2>1, <1>1, <1>2 DEF InboxInv, Member
<1>8. TakenInv'
  <2> SUFFICES ASSUME NEW m \in Task, Member(m), m + 1 \in Task, agg[m] # <<>>
               PROVE  /\ pc'[m + 1] \in {"linger", "done", "failed"}
                      /\ pipe[m + 1] = <<>> /\ agg[m + 1] # <<>>
    BY <1>1 DEF TakenInv, Member
  <2> QED BY <1>2 DEF TakenInv
<1>9. ReportInv'
  <2> SUFFICES ASSUME NEW m \in Task, report'[m] # <<>>
               PROVE  pc'[m] = "done" /\ procid[m] = 0 /\ report'[m] = agg[m]
    BY <1>1 DEF ReportInv
  <2>1. CASE m = n  BY <2>1, <1>1, <1>2 DEF TypeOK
  <2>2. CASE m # n  BY <2>2, <1>1, <1>2 DEF TypeOK, ReportInv
  <2> QED BY <2>1, <2>2
<1>10. LeftInv'
  <2> SUFFICES ASSUME NEW m \in Task, pc'[m] \in {"linger", "done"}, procid[m] # 0
               PROVE  /\ pc'[m] = "done" => pipe[m] = <<>> /\ Member(m)
                      /\ pipe[m] = <<>> =>
                           \/ pc'[m - 1] = "failed"
                           \/ inbox[m - 1] # <<>>
                           \/ Member(m - 1) /\ agg[m - 1] # <<>>
    BY <1>1 DEF LeftInv, Member
  <2>1. m # n /\ pc[m] = pc'[m]  BY <1>1, <1>2
  <2>2. m - 1 \in Task  BY DEF ViewInv, Task
  <2>3. pc[m - 1] = "failed" => pc'[m - 1] = "failed"  BY <1>1, <1>2, <2>2
  <2> QED BY <2>1, <2>3 DEF LeftInv
<1> QED BY <1>3, <1>4, <1>6, <1>7, <1>8, <1>9, <1>10

LEMMA SendInv == ASSUME NEW n \in Task, IInv, Send(n) PROVE IInv'
<1> USE TaskFacts DEF IInv
<1>1. /\ procid[n] # 0 /\ pc[n] = "publish" /\ pc' = [pc EXCEPT ![n] = "linger"]
      /\ pipe' = [pipe EXCEPT ![n] = Append(@, agg[n])]
      /\ UNCHANGED <<procid, nodeCount, initial, final, agg, inbox, report, faults>>
  BY DEF Send, Goto, IsFirst
<1>2. \A m \in Task : pc'[m] = IF m = n THEN "linger" ELSE pc[m]
  BY <1>1 DEF TypeOK
<1>3. ViewInv' /\ MeasureInv' /\ WaitInv' /\ AggInv'
  <2>1. AfterwardsStep(n, "linger")  BY <1>1 DEF AfterwardsStep
  <2> QED BY <2>1, AfterwardsInv
<1>4. pipe[n] = <<>> /\ inbox[n] = <<>> /\ report[n] = <<>> /\ agg[n] # <<>>
  BY <1>1 DEF PipeInv, InboxInv, ReportInv, AggInv
<1>5. Append(pipe[n], agg[n]) = <<agg[n]>> /\ <<agg[n]>> # <<>>  BY <1>4
<1>6. \A m \in Task : pipe'[m] = IF m = n THEN <<agg[n]>> ELSE pipe[m]
  BY <1>1, <1>5 DEF TypeOK
<1>7. Member(n) /\ n # 0
  <2>1. nodeCount[n] # 0  BY <1>1 DEF ViewInv
  <2> QED BY <1>1, <2>1 DEF ViewInv, Alone, Member
<1>8. TypeOK'
  <2>1. pc' \in [Task -> PC]  BY <1>1 DEF TypeOK, PC
  <2>2. <<agg[n]>> \in Seq(Seq(Row))  BY DEF TypeOK
  <2>3. pipe' \in [Task -> Seq(Seq(Row))]  BY <1>1, <1>5, <2>2 DEF TypeOK
  <2> QED BY <1>1, <2>1, <2>3 DEF TypeOK
<1>9. PipeInv'
  <2> SUFFICES ASSUME NEW m \in Task
               PROVE  /\ pc'[m] = "linger" => Member(m) /\ m # 0
                      /\ pipe'[m] # <<>> => pc'[m] = "linger" /\ pipe'[m] = <<agg[m]>>
    BY <1>1 DEF PipeInv, Member
  <2>1. CASE m = n  BY <2>1, <1>2, <1>6, <1>7
  <2>2. CASE m # n  BY <2>2, <1>1, <1>2, <1>6 DEF PipeInv
  <2> QED BY <2>1, <2>2
<1>10. InboxInv'
  <2> SUFFICES ASSUME NEW m \in Task, inbox[m] # <<>>
               PROVE  /\ pc'[m] = "recv" /\ m + 1 \in Task /\ Member(m + 1)
                      /\ pc'[m + 1] \in {"linger", "done", "failed"}
                      /\ pipe'[m + 1] = <<>> /\ agg[m + 1] # <<>> /\ inbox[m] = <<agg[m + 1]>>
    BY <1>1 DEF InboxInv, Member
  <2>1. m # n  BY <1>4
  <2>2. m + 1 \in Task /\ m + 1 # n  BY <1>1 DEF InboxInv
  <2> QED BY <2>1, <2>2, <1>2, <1>6 DEF InboxInv
<1>11. TakenInv'
  <2> SUFFICES ASSUME NEW m \in Task, Member(m), m + 1 \in Task, agg[m] # <<>>
               PROVE  /\ pc'[m + 1] \in {"linger", "done", "failed"}
                      /\ pipe'[m + 1] = <<>> /\ agg[m + 1] # <<>>
    BY <1>1 DEF TakenInv, Member
  <2>1. m + 1 # n  BY <1>1 DEF TakenInv
  <2> QED BY <2>1, <1>2, <1>6 DEF TakenInv
<1>12. ReportInv'
  <2>1. \A m \in Task : report[m] # <<>> => m # n  BY <1>4
  <2> QED BY <1>1, <1>2, <2>1 DEF ReportInv
<1>13. LeftInv'
  <2> SUFFICES ASSUME NEW m \in Task, pc'[m] \in {"linger", "done"}, procid[m] # 0
               PROVE  /\ pc'[m] = "done" => pipe'[m] = <<>> /\ Member(m)
                      /\ pipe'[m] = <<>> =>
                           \/ pc'[m - 1] = "failed"
                           \/ inbox[m - 1] # <<>>
                           \/ Member(m - 1) /\ agg[m - 1] # <<>>
    BY <1>1 DEF LeftInv, Member
  <2>1. CASE m = n
    <3>1. pc'[m] = "linger" /\ pipe'[m] # <<>>  BY <2>1, <1>2, <1>5, <1>6
    <3> QED BY <3>1
  <2>2. CASE m # n
    <3>1. m - 1 \in Task  BY DEF ViewInv, Task
    <3>2. pc[m - 1] = "failed" => pc'[m - 1] = "failed"  BY <1>1, <1>2, <3>1
    <3> QED BY <2>2, <3>2, <1>2, <1>6 DEF LeftInv
  <2> QED BY <2>1, <2>2
<1> QED BY <1>3, <1>8, <1>9, <1>10, <1>11, <1>12, <1>13

(* SendLookupFails and CloseContext: the task ends, its pipe is empty.       *)
LEMMA EndInv ==
  ASSUME NEW n \in Task, IInv, SendLookupFails(n) \/ CloseContext(n)
  PROVE  IInv'
<1> USE TaskFacts DEF IInv
<1>1. PICK q \in {"done", "failed"} :
        /\ pc' = [pc EXCEPT ![n] = q]
        /\ pc[n] \in {"publish", "linger"}
        /\ q = "done" => pc[n] = "linger" /\ pipe[n] = <<>>
  BY DEF SendLookupFails, CloseContext, Goto
<1>2. /\ UNCHANGED <<procid, nodeCount, initial, final, agg, pipe, inbox, report>>
      /\ faults' \in 0..MaxFaults
  BY ChainAssumption DEF SendLookupFails, CloseContext, Fault, TypeOK
<1>3. \A m \in Task : pc'[m] = IF m = n THEN q ELSE pc[m]
  BY <1>1 DEF TypeOK
<1>4. ViewInv' /\ MeasureInv' /\ WaitInv' /\ AggInv'
  <2>1. AfterwardsStep(n, q)  BY <1>1, <1>2 DEF AfterwardsStep
  <2> QED BY <2>1, AfterwardsInv
<1>5. TypeOK'
  <2>1. pc' \in [Task -> PC]  BY <1>1 DEF TypeOK, PC
  <2> QED BY <2>1, <1>2 DEF TypeOK
<1>6. inbox[n] = <<>> /\ report[n] = <<>> /\ pipe[n] = <<>>
  <2>1. pc[n] = "publish" => pipe[n] = <<>>  BY DEF PipeInv
  <2>2. pc[n] = "linger" => pipe[n] = <<>>
    BY DEF SendLookupFails, CloseContext, Goto
  <2> QED BY <1>1, <2>1, <2>2 DEF InboxInv, ReportInv
<1>7. PipeInv'
  <2> SUFFICES ASSUME NEW m \in Task
               PROVE  /\ pc'[m] = "linger" => Member(m) /\ m # 0
                      /\ pipe[m] # <<>> => pc'[m] = "linger" /\ pipe[m] = <<agg[m]>>
    BY <1>2 DEF PipeInv, Member
  <2>1. CASE m = n  BY <2>1, <1>3, <1>6
  <2>2. CASE m # n  BY <2>2, <1>3 DEF PipeInv
  <2> QED BY <2>1, <2>2
<1>8. InboxInv'
  <2> SUFFICES ASSUME NEW m \in Task, inbox[m] # <<>>
               PROVE  /\ pc'[m] = "recv" /\ m + 1 \in Task /\ Member(m + 1)
                      /\ pc'[m + 1] \in {"linger", "done", "failed"}
                      /\ pipe[m + 1] = <<>> /\ agg[m + 1] # <<>> /\ inbox[m] = <<agg[m + 1]>>
    BY <1>2 DEF InboxInv, Member
  <2>1. m # n  BY <1>6
  <2> QED BY <2>1, <1>3 DEF InboxInv
<1>9. TakenInv'
  <2> SUFFICES ASSUME NEW m \in Task, Member(m), m + 1 \in Task, agg[m] # <<>>
               PROVE  /\ pc'[m + 1] \in {"linger", "done", "failed"}
                      /\ pipe[m + 1] = <<>> /\ agg[m + 1] # <<>>
    BY <1>2 DEF TakenInv, Member
  <2> QED BY <1>3 DEF TakenInv
<1>10. ReportInv'
  <2>1. \A m \in Task : report[m] # <<>> => m # n  BY <1>6
  <2> QED BY <1>2, <1>3, <2>1 DEF ReportInv
<1>11. LeftInv'
  <2> SUFFICES ASSUME NEW m \in Task, pc'[m] \in {"linger", "done"}, procid[m] # 0
               PROVE  /\ pc'[m] = "done" => pipe[m] = <<>> /\ Member(m)
                      /\ pipe[m] = <<>> =>
                           \/ pc'[m - 1] = "failed"
                           \/ inbox[m - 1] # <<>>
                           \/ Member(m - 1) /\ agg[m - 1] # <<>>
    BY <1>2 DEF LeftInv, Member
  <2>1. m - 1 \in Task  BY DEF ViewInv, Task
  <2>2. pc[m - 1] = "failed" => pc'[m - 1] = "failed"  BY <1>1, <1>3, <2>1
  <2>3. CASE m = n
    <3>1. pc[n] = "linger"  BY <2>3, <1>1, <1>3
    <3>2. Member(n)  BY <3>1 DEF PipeInv
    <3> QED BY <2>2, <2>3, <3>1, <3>2, <1>6 DEF LeftInv
  <2>4. CASE m # n  BY <2>2, <2>4, <1>3 DEF LeftInv
  <2> QED BY <2>3, <2>4
<1> QED BY <1>4, <1>5, <1>7, <1>8, <1>9, <1>10, <1>11

LEMMA TransmitInv == ASSUME NEW n \in Task, IInv, Transmit(n) PROVE IInv'
<1> USE TaskFacts DEF IInv
<1>1. /\ pipe[n] # <<>> /\ pc[n] = "linger" /\ pipe[n] = <<agg[n]>>
      /\ Member(n) /\ n # 0
  BY DEF Transmit, PipeInv
<1>2. n - 1 \in Task /\ Prev(n) = n - 1
  BY <1>1 DEF Prev, ViewInv, Alone, Member, Task
<1>3. inbox[n - 1] = <<>> /\ pc[n - 1] = "recv"
  BY <1>1, <1>2 DEF InboxInv, Transmit
<1>4. Append(inbox[n - 1], Head(pipe[n])) = <<agg[n]>> /\ Tail(pipe[n]) = <<>>
  BY <1>1, <1>3
<1>5. /\ inbox' = [inbox EXCEPT ![n - 1] = <<agg[n]>>]
      /\ pipe' = [pipe EXCEPT ![n] = <<>>]
      /\ UNCHANGED <<pc, procid, nodeCount, initial, final, agg, report, faults>>
  BY <1>2, <1>4 DEF Transmit
<1>6. \A m \in Task : inbox'[m] = IF m = n - 1 THEN <<agg[n]>> ELSE inbox[m]
  BY <1>5, <1>2 DEF TypeOK
<1>7. \A m \in Task : pipe'[m] = IF m = n THEN <<>> ELSE pipe[m]
  BY <1>5 DEF TypeOK
<1>8. TypeOK'
  <2>1. <<agg[n]>> \in Seq(Seq(Row))  BY DEF TypeOK
  <2>2. inbox' \in [Task -> Seq(Seq(Row))]  BY <1>5, <1>2, <2>1 DEF TypeOK
  <2>3. pipe' \in [Task -> Seq(Seq(Row))]  BY <1>5 DEF TypeOK
  <2> QED BY <1>5, <2>2, <2>3 DEF TypeOK
<1>9. ViewInv' /\ MeasureInv' /\ WaitInv' /\ ReportInv'
  BY <1>5 DEF ViewInv, MeasureInv, WaitInv, ReportInv, Member, Alone
<1>10. AggInv'
  <2>1. Frozen  BY <1>5 DEF Frozen
  <2> QED BY <1>5, <2>1, AggStable DEF AggInv
<1>11. PipeInv'  BY <1>5, <1>7 DEF PipeInv, Member
<1>12. InboxInv'
  <2> SUFFICES ASSUME NEW m \in Task, inbox'[m] # <<>>
               PROVE  /\ pc[m] = "recv" /\ m + 1 \in Task /\ Member(m + 1)
                      /\ pc[m + 1] \in {"linger", "done", "failed"}
                      /\ pipe'[m + 1] = <<>> /\ agg[m + 1] # <<>> /\ inbox'[m] = <<agg[m + 1]>>
    BY <1>5 DEF InboxInv, Member
  <2>1. CASE m = n - 1
    <3>1. m + 1 = n /\ agg[n] # <<>>  BY <2>1, <1>1 DEF AggInv
    <3> QED BY <2>1, <3>1, <1>1, <1>3, <1>6, <1>7
  <2>2. CASE m # n - 1
    <3>1. m + 1 # n  BY <2>2
    <3> QED BY <2>2, <3>1, <1>6, <1>7 DEF InboxInv
  <2> QED BY <2>1, <2>2
<1>13. TakenInv'
  <2> SUFFICES ASSUME NEW m \in Task, Member(m), m + 1 \in Task, agg[m] # <<>>
               PROVE  /\ pc[m + 1] \in {"linger", "done", "failed"}
                      /\ pipe'[m + 1] = <<>> /\ agg[m + 1] # <<>>
    BY <1>5 DEF TakenInv, Member
  <2> QED BY <1>7 DEF TakenInv
<1>14. LeftInv'
  <2> SUFFICES ASSUME NEW m \in Task, pc[m] \in {"linger", "done"}, procid[m] # 0
               PROVE  /\ pc[m] = "done" => pipe'[m] = <<>> /\ Member(m)
                      /\ pipe'[m] = <<>> =>
                           \/ pc[m - 1] = "failed"
                           \/ inbox'[m - 1] # <<>>
                           \/ Member(m - 1) /\ agg[m - 1] # <<>>
    BY <1>5 DEF LeftInv, Member
  <2>1. m - 1 \in Task  BY DEF ViewInv, Task
  <2>2. CASE m = n  BY <2>2, <1>1, <1>2, <1>6
  <2>3. CASE m # n  BY <2>1, <2>3, <1>6, <1>7 DEF LeftInv
  <2> QED BY <2>2, <2>3
<1> QED BY <1>8, <1>9, <1>10, <1>11, <1>12, <1>13, <1>14

LEMMA CrashInv == ASSUME NEW n \in Task, IInv, Crash(n) PROVE IInv'
<1> USE TaskFacts DEF IInv
<1>1. /\ pc[n] \notin {"done", "failed"} /\ pc' = [pc EXCEPT ![n] = "failed"]
      /\ pipe' = [pipe EXCEPT ![n] = <<>>]
      /\ inbox' = [inbox EXCEPT ![n] = <<>>]
      /\ UNCHANGED <<procid, nodeCount, initial, final, agg, report>>
      /\ faults' \in 0..MaxFaults
  BY ChainAssumption DEF Crash, Fault, TypeOK
<1>2. \A m \in Task : pc'[m] = IF m = n THEN "failed" ELSE pc[m]
  BY <1>1 DEF TypeOK
<1>3. \A m \in Task : pipe'[m] = IF m = n THEN <<>> ELSE pipe[m]
  BY <1>1 DEF TypeOK
<1>4. \A m \in Task : inbox'[m] = IF m = n THEN <<>> ELSE inbox[m]
  BY <1>1 DEF TypeOK
<1>5. TypeOK'
  <2>1. pc' \in [Task -> PC]  BY <1>1 DEF TypeOK, PC
  <2>2. pipe' \in [Task -> Seq(Seq(Row))] /\ inbox' \in [Task -> Seq(Seq(Row))]
    BY <1>1 DEF TypeOK
  <2> QED BY <1>1, <2>1, <2>2 DEF TypeOK
<1>6. ViewInv'  BY <1>1, <1>2 DEF ViewInv, Alone
<1>7. MeasureInv'  BY <1>1, <1>2 DEF MeasureInv
<1>8. WaitInv'  BY <1>1, <1>2 DEF WaitInv, Member
<1>9. AggInv'
  <2>1. Frozen  BY <1>1 DEF Frozen
  <2>2. \A m \in Task : agg[m] # <<>> =>
           pc'[m] \in {"publish", "linger", "done", "failed"}
    BY <1>2 DEF AggInv
  <2>3. \A m \in Task : pc'[m] \in {"publish", "linger", "done"} => agg[m] # <<>>
    BY <1>2 DEF AggInv
  <2> QED BY <1>1, <2>1, <2>2, <2>3, AggStable
<1>10. PipeInv'  BY <1>1, <1>2, <1>3 DEF PipeInv, Member
<1>11. InboxInv'
  <2> SUFFICES ASSUME NEW m \in Task, inbox'[m] # <<>>
               PROVE  /\ pc'[m] = "recv" /\ m + 1 \in Task /\ Member(m + 1)
                      /\ pc'[m + 1] \in {"linger", "done", "failed"}
                      /\ pipe'[m + 1] = <<>> /\ agg[m + 1] # <<>> /\ inbox'[m] = <<agg[m + 1]>>
    BY <1>1 DEF InboxInv, Member
  <2>1. m # n /\ inbox'[m] = inbox[m]  BY <1>4
  <2> QED BY <2>1, <1>2, <1>3 DEF InboxInv
<1>12. TakenInv'
  <2> SUFFICES ASSUME NEW m \in Task, Member(m), m + 1 \in Task, agg[m] # <<>>
               PROVE  /\ pc'[m + 1] \in {"linger", "done", "failed"}
                      /\ pipe'[m + 1] = <<>> /\ agg[m + 1] # <<>>
    BY <1>1 DEF TakenInv, Member
  <2> QED BY <1>2, <1>3 DEF TakenInv
<1>13. ReportInv'
  <2>1. \A m \in Task : report[m] # <<>> => m # n  BY <1>1 DEF ReportInv
  <2> QED BY <1>1, <1>2, <2>1 DEF ReportInv
<1>14. LeftInv'
  <2> SUFFICES ASSUME NEW m \in Task, pc'[m] \in {"linger", "done"}, procid[m] # 0
               PROVE  /\ pc'[m] = "done" => pipe'[m] = <<>> /\ Member(m)
                      /\ pipe'[m] = <<>> =>
                           \/ pc'[m - 1] = "failed"
                           \/ inbox'[m - 1] # <<>>
                           \/ Member(m - 1) /\ agg[m - 1] # <<>>
    BY <1>1 DEF LeftInv, Member
  <2>1. m # n  BY <1>2
  <2>2. m - 1 \in Task  BY DEF ViewInv, Task
  <2>3. CASE m - 1 = n
    <3>1. pc'[m - 1] = "failed"  BY <2>3, <1>2
    <3> QED BY <2>1, <3>1, <1>2, <1>3 DEF LeftInv
  <2>4. CASE m - 1 # n  BY <2>1, <2>2, <2>4, <1>2, <1>3, <1>4 DEF LeftInv
  <2> QED BY <2>3, <2>4
<1> QED BY <1>5, <1>6, <1>7, <1>8, <1>9, <1>10, <1>11, <1>12, <1>13, <1>14

LEMMA InitInv == Init => IInv
<1> SUFFICES ASSUME Init PROVE IInv  OBVIOUS
<1> USE TaskFacts DEF Init
<1>1. TypeOK  BY ChainAssumption DEF TypeOK, PC
<1>2. ViewInv  BY DEF ViewInv, Alone
<1>3. MeasureInv  BY DEF MeasureInv
<1>4. WaitInv /\ AggInv /\ PipeInv /\ InboxInv /\ TakenInv /\ ReportInv /\ LeftInv
  BY DEF WaitInv, AggInv, PipeInv, InboxInv, TakenInv, ReportInv, LeftInv
<1> QED BY <1>1, <1>2, <1>3, <1>4 DEF IInv

LEMMA StutterInv == IInv /\ UNCHANGED vars => IInv'
<1> SUFFICES ASSUME IInv, UNCHANGED vars PROVE IInv'  OBVIOUS
<1> USE DEF vars, IInv
<1>1. TypeOK'  BY DEF TypeOK
<1>2. ViewInv' /\ MeasureInv' /\ WaitInv'
  BY DEF ViewInv, MeasureInv, WaitInv, Member, Alone
<1>3. AggInv'
  <2>1. Frozen  BY DEF Frozen
  <2> QED BY <2>1, AggStable DEF AggInv
<1>4. PipeInv' /\ InboxInv' /\ TakenInv' /\ ReportInv' /\ LeftInv'
  BY DEF PipeInv, InboxInv, TakenInv, ReportInv, LeftInv, Member
<1> QED BY <1>1, <1>2, <1>3, <1>4

LEMMA NextInv == IInv /\ [Next]_vars => IInv'
<1> SUFFICES ASSUME IInv, [Next]_vars PROVE IInv'  OBVIOUS
<1>1. CASE UNCHANGED vars  BY <1>1, StutterInv
<1>2. CASE Finished  BY <1>2, StutterInv DEF Finished
<1>3. ASSUME NEW n \in Task, Progress(n) PROVE IInv'
  BY <1>3, EnterInv, ReadInitialInv, RunCommandInv, ReadFinalInv, BindInv,
     ReceiveInv, PublishInv, SendInv, TransmitInv, EndInv DEF Progress
<1>4. ASSUME NEW n \in Task, Disturb(n) PROVE IInv'
  BY <1>4, EnterStandaloneInv, ExitEarlyInv, EndInv, CrashInv DEF Disturb
<1> QED BY <1>1, <1>2, <1>3, <1>4 DEF Next

(* The inductive invariant holds in every run of the chain, whatever the     *)
(* allocation, the step, the readings and the faults                         *)
(* (node_handler, receive_aggregated_stats, send_to_previous).               *)
THEOREM Invariance == Spec => []IInv
BY InitInv, NextInv, PTL DEF Spec

(* Every variable keeps its type; in particular a row in an aggregate, a     *)
(* message or a report never holds a reading that was not taken              *)
(* (counter_aggregation.cpp:2098-2108).                                      *)
THEOREM TypeCorrectness == Spec => []TypeOK
<1>1. IInv => TypeOK  BY DEF IInv
<1> QED BY <1>1, Invariance, PTL

(* A summary printed by a member of the chain has exactly the rows of all    *)
(* nodes, in chain order, with their own readings, and only node 0 prints    *)
(* one (counter_aggregation.cpp:2094-2178).                                  *)
THEOREM Completeness == Spec => []ReportComplete
<1>1. IInv => ReportComplete
  <2> SUFFICES ASSUME IInv, NEW n \in Task, Member(n), report[n] # <<>>
               PROVE  n = 0 /\ K = N /\ report[n] = RowsFrom(0)
    BY DEF ReportComplete
  <2>1. procid[n] = 0 /\ report[n] = agg[n]  BY DEF IInv, ReportInv
  <2>2. n = 0  BY <2>1 DEF IInv, ViewInv, Alone, Member
  <2>3. Covered(n) /\ agg[n] = RowsFrom(n)  BY <2>1 DEF IInv, AggInv
  <2> QED BY <2>1, <2>2, <2>3 DEF Covered
<1> QED BY <1>1, Invariance, PTL

(* A standalone task reports itself and nothing else, and a report of the    *)
(* whole run excludes every other report (main.cpp:115-123, 180-188).        *)
THEOREM SingleReport == Spec => []OneReportOfTheRun
<1>1. IInv => OneReportOfTheRun
  <2> SUFFICES ASSUME IInv, NEW m \in Task, NEW n \in Task, report[m] # <<>>
               PROVE  /\ Alone(m) => report[m] = <<AloneRow(m)>>
                      /\ ~Alone(m) /\ report[n] # <<>> => n = m
    BY DEF OneReportOfTheRun
  <2>1. /\ pc[m] = "done" /\ report[m] = agg[m] /\ agg[m] # <<>> /\ procid[m] = 0
        /\ nodeCount[m] # 0
    BY DEF IInv, ReportInv, ViewInv
  <2>2. Alone(m) => report[m] = <<AloneRow(m)>>
    BY <2>1 DEF IInv, AggInv
  <2>3. ASSUME ~Alone(m), report[n] # <<>> PROVE n = m
    <3>1. Member(m) /\ m = 0
      BY <2>1, <2>3 DEF Alone, Member, IInv, ViewInv
    <3>2. Covered(0)  BY <2>1, <3>1 DEF IInv, AggInv
    <3>3. n \in 0..(N - 1)  BY <3>2, TaskFacts
    <3>4. Member(n)  BY <3>2, <3>3 DEF Covered
    <3>5. procid[n] = 0  BY <2>3 DEF IInv, ReportInv
    <3> QED BY <3>1, <3>4, <3>5, TaskFacts DEF IInv, ViewInv, Alone, Member
  <2> QED BY <2>2, <2>3
<1> QED BY <1>1, Invariance, PTL

(* context.close() lets a sender exit only once its rows are with the node   *)
(* below, or that node failed (zmq_transfer.cpp:305-325).                    *)
THEOREM NothingLeftBehind == Spec => []ExitOnlyWhenTaken
<1>1. IInv => ExitOnlyWhenTaken
  <2> SUFFICES ASSUME IInv, NEW n \in Task, pc[n] = "done", procid[n] # 0
               PROVE  \/ pc[n - 1] = "failed"
                      \/ inbox[n - 1] = <<agg[n]>>
                      \/ agg[n - 1] = Append(agg[n], TrueRow(n - 1))
    BY DEF ExitOnlyWhenTaken, IsFirst
  <2>1. n # 0 /\ n - 1 \in Task /\ n - 1 \in Nat /\ (n - 1) + 1 = n
    BY TaskFacts DEF IInv, ViewInv, Task
  <2>2. Member(n) /\ pipe[n] = <<>>  BY DEF IInv, LeftInv
  <2>3. CASE inbox[n - 1] # <<>>
    BY <2>1, <2>3 DEF IInv, InboxInv
  <2>4. CASE Member(n - 1) /\ agg[n - 1] # <<>>
    <3>1. agg[n - 1] = RowsFrom(n - 1)  BY <2>1, <2>4 DEF IInv, AggInv
    <3>2. agg[n] # <<>>  BY DEF IInv, AggInv
    <3>3. agg[n] = RowsFrom(n)  BY <2>2, <3>2 DEF IInv, AggInv
    <3>4. n - 1 < N  BY <2>1, TaskFacts
    <3>5. Append(RowsFrom(n), TrueRow(n - 1)) = RowsFrom(n - 1)
      BY <2>1, <3>4, AppendRow
    <3> QED BY <3>1, <3>3, <3>5
  <2> QED BY <2>2, <2>3, <2>4 DEF IInv, LeftInv
<1> QED BY <1>1, Invariance, PTL

(* AboveInv survives a step after which the tasks that were settled still    *)
(* are, and no new member has rows.                                          *)
LEMMA AboveStable ==
  ASSUME AboveInv,
         \A m \in Task : Settled(m) => Settled(m)',
         \A n \in Task : Member(n)' /\ agg'[n] # <<>> => Member(n) /\ agg[n] # <<>>
  PROVE  AboveInv'
BY DEF AboveInv

LEMMA AboveNext == IInv /\ AboveInv /\ [Next]_vars => AboveInv'
<1> SUFFICES ASSUME IInv, AboveInv, [Next]_vars PROVE AboveInv'  OBVIOUS
<1> USE TaskFacts
<1>1. CASE UNCHANGED vars \/ Finished
  BY <1>1 DEF vars, Finished, AboveInv, Settled, Member
<1>2. ASSUME NEW n \in Task,
             \/ Enter(n) \/ EnterStandalone(n) \/ ReadInitial(n) \/ RunCommand(n)
             \/ CommandFails(n) \/ Bind(n) \/ BindFails(n)
      PROVE  AboveInv'
  <2>1. PICK q \in {"initial", "command", "final", "recv", "failed"} :
          /\ pc[n] \in {"start", "initial", "command", "final", "bind"}
          /\ pc' = [pc EXCEPT ![n] = q]
          /\ UNCHANGED <<agg, pipe>>
    BY <1>2 DEF Enter, EnterStandalone, ReadInitial, RunCommand, CommandFails,
                Bind, BindFails, Goto
  <2>2. \A m \in Task \ {n} : nodeCount'[m] = nodeCount[m]
    BY <1>2 DEF Enter, EnterStandalone, ReadInitial, RunCommand, CommandFails,
                Bind, BindFails, IInv, TypeOK
  <2>3. agg[n] = <<>>  BY <2>1 DEF IInv, AggInv
  <2>4. \A m \in Task : Settled(m) => Settled(m)'
    BY <2>1 DEF Settled, IInv, TypeOK
  <2> QED BY <2>1, <2>2, <2>3, <2>4, AboveStable DEF Member
<1>3. ASSUME NEW n \in Task,
             Publish(n) \/ Send(n) \/ SendLookupFails(n) \/ CloseContext(n) \/ Crash(n)
      PROVE  AboveInv'
  <2>1. UNCHANGED <<agg, nodeCount>>
    BY <1>3 DEF Publish, Send, SendLookupFails, CloseContext, Crash
  <2>2. \A m \in Task : Settled(m) => Settled(m)'
    BY <1>3, <2>1 DEF Publish, Send, SendLookupFails, CloseContext, Crash, Goto,
                      Settled, IInv, TypeOK
  <2> QED BY <2>1, <2>2, AboveStable DEF Member
<1>4. ASSUME NEW n \in Task, Transmit(n) PROVE AboveInv'
  <2>1. \A m \in Task : Settled(m) => Settled(m)'
    BY <1>4 DEF Transmit, Settled, IInv, TypeOK
  <2> QED BY <1>4, <2>1, AboveStable DEF Transmit, Member
<1>5. ASSUME NEW n \in Task, ReadFinal(n) PROVE AboveInv'
  <2>1. pc[n] = "final" /\ agg[n] = <<>> /\ UNCHANGED <<nodeCount, pipe, procid>>
    BY <1>5 DEF ReadFinal, Goto, IInv, AggInv
  <2>2. PICK q \in {"publish", "bind"} : pc' = [pc EXCEPT ![n] = q]
    BY <1>5 DEF ReadFinal, Goto
  <2>3. \A m \in Task \ {n} : agg'[m] = agg[m]
    BY <1>5 DEF ReadFinal, IInv, TypeOK
  <2>4. \A m \in Task : Settled(m) => Settled(m)'
    BY <2>1, <2>2, <2>3 DEF Settled, IInv, TypeOK
  <2>5. CASE ~IsLast(n)
    <3>1. agg' = agg  BY <1>5, <2>5 DEF ReadFinal
    <3> QED BY <2>1, <2>4, <3>1, AboveStable DEF Member
  <2>6. CASE IsLast(n)
    <3>1. ASSUME Member(n) PROVE \A m \in Task : ~(n < m)
      <4>1. n = N - 1  BY <2>6, <3>1 DEF IsLast, Member, IInv, ViewInv, Alone
      <4> QED BY <4>1
    <3> QED BY <2>1, <2>3, <2>4, <3>1 DEF AboveInv, Member
  <2> QED BY <2>5, <2>6
<1>6. ASSUME NEW n \in Task, Receive(n) PROVE AboveInv'
  <2>1. /\ inbox[n] # <<>> /\ pc[n] = "recv" /\ UNCHANGED <<nodeCount, pipe>>
        /\ pc' = [pc EXCEPT ![n] = "publish"]
    BY <1>6 DEF Receive, Goto
  <2>2. \A m \in Task \ {n} : agg'[m] = agg[m] /\ pc'[m] = pc[m]
    BY <1>6, <2>1 DEF Receive, IInv, TypeOK
  <2>3. Member(n + 1) /\ n + 1 \in Task /\ Settled(n + 1)
    BY <2>1 DEF IInv, InboxInv, Settled
  <2>4. ASSUME NEW m \in Task, n < m PROVE Settled(m)
    <3>1. CASE m = n + 1  BY <2>3, <3>1
    <3>2. CASE m # n + 1
      <4>1. n + 1 < m  BY <2>4, <3>2
      <4>2. agg[n + 1] # <<>>  BY <2>3 DEF Settled
      <4> QED BY <2>3, <4>1, <4>2 DEF AboveInv
    <3> QED BY <3>1, <3>2
  <2>5. ~Settled(n)  BY <2>1 DEF Settled
  <2>6. \A m \in Task : Settled(m) => Settled(m)'
    BY <2>1, <2>2, <2>5 DEF Settled
  <2> QED BY <2>1, <2>2, <2>4, <2>6 DEF AboveInv, Member
<1> QED BY <1>1, <1>2, <1>3, <1>4, <1>5, <1>6 DEF Next, Progress, Disturb

(* However tasks fail, the rows of the run are held by one task, wait in one *)
(* pipe or lie in one socket: nothing is sent twice, and no two tasks think  *)
(* they are the last (counter_aggregation.cpp:2094-2178, zmq_transfer.cpp).  *)
THEOREM OneCopy == Spec => []OneCopyUnderWay
<1>1. Init => AboveInv  BY DEF Init, AboveInv
<1>2. IInv /\ AboveInv => OneCopyUnderWay
  <2> SUFFICES ASSUME IInv, AboveInv PROVE OneCopyUnderWay  OBVIOUS
  <2> USE TaskFacts
  <2> DEFINE Held(n) == Member(n) /\ pc[n] = "publish"
             Sent(n) == pipe[n] # <<>>
             Came(n) == inbox[n] # <<>>
  <2>1. \A n \in Task : Sent(n) => pipe[n] = <<agg[n]>>
    BY DEF IInv, PipeInv
  <2>2. \A n \in Task : Came(n) => inbox[n] = <<agg[n + 1]>>
    BY DEF IInv, InboxInv
  <2>3. \A n \in Task : \A i \in DOMAIN pipe[n] : i = 1 /\ Sent(n)
    BY <2>1
  <2>4. \A n \in Task : \A i \in DOMAIN inbox[n] : i = 1 /\ Came(n)
    BY <2>2
  <2>5. ASSUME NEW c \in Copies
        PROVE  \E n \in Task :
                 \/ c = <<n, "task", 1>> /\ Held(n)
                 \/ c = <<n, "pipe", 1>> /\ Sent(n)
                 \/ c = <<n, "inbox", 1>> /\ Came(n)
    <3> DEFINE A == {<<n, "task", 1>> : n \in {m \in Task : Member(m) /\ pc[m] = "publish"}}
               B == UNION {{<<n, "pipe", i>> : i \in DOMAIN pipe[n]} : n \in Task}
               C == UNION {{<<n, "inbox", i>> : i \in DOMAIN inbox[n]} : n \in Task}
    <3>1. ASSUME c \in A PROVE \E n \in Task : c = <<n, "task", 1>> /\ Held(n)
      BY <3>1
    <3>2. ASSUME c \in B PROVE \E n \in Task : c = <<n, "pipe", 1>> /\ Sent(n)
      BY <2>3, <3>2
    <3>3. ASSUME c \in C PROVE \E n \in Task : c = <<n, "inbox", 1>> /\ Came(n)
      BY <2>4, <3>3
    <3>4. Copies = A \cup B \cup C  BY Zenon DEF Copies
    <3> HIDE DEF A, B, C, Held, Sent, Came
    <3> QED BY <3>1, <3>2, <3>3, <3>4
  <2>6. \A n \in Task : Held(n) \/ Sent(n) => Member(n) /\ agg[n] # <<>>
    BY DEF IInv, AggInv, PipeInv
  <2>7. \A n \in Task : Came(n) => pc[n] = "recv" /\ n + 1 \in Task
                          /\ Member(n + 1) /\ agg[n + 1] # <<>> /\ Settled(n + 1)
    BY DEF IInv, InboxInv, Settled
  <2>8. \A n \in Task : Settled(n) => ~Held(n) /\ ~Sent(n) /\ ~Came(n)
    BY <2>7 DEF Settled
  <2>9. ASSUME NEW n \in Task, NEW m \in Task, n < m,
               Held(n) \/ Sent(n) \/ Came(n)
        PROVE  Settled(m)
    <3>1. CASE Held(n) \/ Sent(n)  BY <2>6, <2>9, <3>1 DEF AboveInv
    <3>2. CASE Came(n) /\ m = n + 1  BY <2>7, <3>2
    <3>3. CASE Came(n) /\ m # n + 1  BY <2>7, <2>9, <3>3 DEF AboveInv
    <3> QED BY <2>9, <3>1, <3>2, <3>3
  <2>10. \A n \in Task : Sent(n) => pc[n] = "linger"  BY DEF IInv, PipeInv
  <2>11. \A n \in Task : ~(Held(n) /\ Sent(n)) /\ ~(Held(n) /\ Came(n)) /\ ~(Sent(n) /\ Came(n))
    BY <2>7, <2>10
  <2> HIDE DEF Held, Sent, Came
  <2>12. ASSUME NEW n \in Task, NEW m \in Task,
                Held(n) \/ Sent(n) \/ Came(n), Held(m) \/ Sent(m) \/ Came(m)
         PROVE  n = m
    <3>1. ~(n < m) /\ ~(m < n)  BY <2>8, <2>9, <2>12
    <3> QED BY <3>1
  <2> QED BY <2>5, <2>11, <2>12 DEF OneCopyUnderWay
<1>3. Spec => []AboveInv  BY <1>1, AboveNext, Invariance, PTL DEF Spec
<1> QED BY <1>2, <1>3, Invariance, PTL
----------------------------------------------------------------------------
(* The chain implements Gather, for every allocation, step, set of readings  *)
(* and set of faults: the refinement Chain states as ImplementsGather and    *)
(* the run `chain` checks on three nodes.                                    *)

(* The refinement mapping, under names of its own.                           *)
Contribution ==
  [n \in Task |-> IF final[n] = NoReading THEN <<>> ELSE <<initial[n], final[n]>>]
AloneSet == {n \in Task : Alone(n)}
Summaries == [n \in Task |-> Summary(report[n])]

LEMMA EmptySummary == Summary(<<>>) = <<>>
BY DEF Summary

(* Summary without its LET: At(rows, h) is where the row of host h stands.   *)
At(rows, h) == CHOOSE j \in DOMAIN rows : rows[j].hostname = h

LEMMA SummaryAt ==
  ASSUME NEW rows, NEW Hosts, {rows[i].hostname : i \in DOMAIN rows} = Hosts
  PROVE  Summary(rows)
           = [h \in Hosts |-> <<rows[At(rows, h)].initial, rows[At(rows, h)].final>>]
BY Zenon DEF Summary, At

(* What a standalone task prints. *)
LEMMA OwnSummary ==
  ASSUME NEW n \in Task
  PROVE  Summary(<<AloneRow(n)>>) = [m \in {n} |-> <<initial[n], final[n]>>]
<1> DEFINE rows == <<AloneRow(n)>>
<1>1. DOMAIN rows = {1} /\ rows[1] = AloneRow(n)  OBVIOUS
<1>2. {rows[i].hostname : i \in DOMAIN rows} = {n}
  BY <1>1 DEF AloneRow
<1>3. At(rows, n) = 1
  BY <1>1 DEF AloneRow, At
<1>4. /\ rows[1].initial = initial[n] /\ rows[1].final = final[n]
  BY <1>1 DEF AloneRow
<1> HIDE DEF rows
<1>5. Summary(rows) = [m \in {n} |-> <<initial[n], final[n]>>]
  <2>1. [m \in {n} |-> <<initial[n], final[n]>>]
          = [h \in {n} |-> <<rows[At(rows, h)].initial, rows[At(rows, h)].final>>]
    BY <1>3, <1>4
  <2>2. Summary(rows)
          = [h \in {n} |-> <<rows[At(rows, h)].initial, rows[At(rows, h)].final>>]
    BY <1>2, SummaryAt, Zenon
  <2> QED BY <2>1, <2>2
<1> QED BY <1>5 DEF rows

(* What the first node prints when it has the rows of the whole run.         *)
LEMMA WholeSummary ==
  ASSUME Covered(0)
  PROVE  Summary(RowsFrom(0)) = Contribution
<1> DEFINE rows == RowsFrom(0)
<1>1. K = N /\ N \in Nat /\ Task = 0..(N - 1)  BY TaskFacts DEF Covered, Task
<1>2. DOMAIN rows = 1..N  BY <1>1 DEF RowsFrom
<1>3. \A i \in 1..N :
        /\ rows[i].hostname = N - i
        /\ rows[i].initial = initial[N - i]
        /\ rows[i].final = final[N - i]
  BY <1>1 DEF RowsFrom, TrueRow
<1> HIDE DEF rows
<1>4. {rows[i].hostname : i \in DOMAIN rows} = Task
  <2>1. \A i \in 1..N : N - i \in Task  BY <1>1
  <2>2. \A h \in Task : N - h \in 1..N /\ N - (N - h) = h  BY <1>1
  <2> QED BY <1>2, <1>3, <2>1, <2>2
<1>5. ASSUME NEW h \in Task
      PROVE  At(rows, h) = N - h
  <2>1. N - h \in 1..N /\ N - (N - h) = h  BY <1>1
  <2>2. \A j \in 1..N : rows[j].hostname = h => j = N - h
    BY <1>1, <1>3
  <2> QED BY <1>2, <1>3, <2>1, <2>2 DEF At
<1>6. ASSUME NEW h \in Task
      PROVE  /\ rows[N - h].initial = initial[h] /\ rows[N - h].final = final[h]
             /\ final[h] # NoReading
  <2>1. N - h \in 1..N /\ N - (N - h) = h  BY <1>1
  <2> QED BY <1>1, <1>3, <2>1 DEF Covered
<1>7. Summary(rows) = [h \in Task |-> <<initial[h], final[h]>>]
  <2>1. [h \in Task |-> <<initial[h], final[h]>>]
          = [h \in Task |-> <<rows[At(rows, h)].initial, rows[At(rows, h)].final>>]
    BY <1>5, <1>6
  <2>2. Summary(rows)
          = [h \in Task |-> <<rows[At(rows, h)].initial, rows[At(rows, h)].final>>]
    BY <1>4, SummaryAt, Zenon
  <2> QED BY <2>1, <2>2
<1> QED BY <1>6, <1>7 DEF rows, Contribution

LEMMA Mapping ==
  /\ G!Init <=> /\ Contribution = [n \in Task |-> <<>>]
                /\ AloneSet = {}
                /\ Summaries = [n \in Task |-> <<>>]
  /\ UNCHANGED G!vars <=> UNCHANGED <<Contribution, AloneSet, Summaries>>
BY DEF G!Init, G!vars, Contribution, AloneSet, Summaries

LEMMA InitRefines == ASSUME Init PROVE G!Init
<1>1. Contribution = [n \in Task |-> <<>>]  BY DEF Init, Contribution
<1>2. AloneSet = {}  BY DEF Init, AloneSet, Alone
<1>3. Summaries = [n \in Task |-> <<>>]
  <2>1. \A n \in Task : Summary(report[n]) = <<>>  BY EmptySummary DEF Init
  <2> QED BY <2>1 DEF Summaries
<1> QED BY <1>1, <1>2, <1>3, Mapping

(* A step that takes no final reading, prints nothing and strands nobody     *)
(* changes nothing a user of Gather sees.                                    *)
LEMMA HiddenStep ==
  ASSUME UNCHANGED <<final, report>>,
         \A n \in Task : final[n] # NoReading => initial'[n] = initial[n],
         \A n \in Task : Alone(n)' <=> Alone(n)
  PROVE  UNCHANGED G!vars
<1>1. Contribution' = Contribution  BY DEF Contribution
<1>2. AloneSet' = AloneSet  BY DEF AloneSet
<1>3. Summaries' = Summaries  BY DEF Summaries
<1> QED BY <1>1, <1>2, <1>3, Mapping

LEMMA EnterRefines == ASSUME NEW n \in Task, IInv, Enter(n) PROVE UNCHANGED G!vars
<1>1. nodeCount[n] = 0  BY DEF IInv, ViewInv, Enter, Goto
<1>2. \A m \in Task : Alone(m)' <=> Alone(m)
  BY <1>1, TaskFacts DEF IInv, TypeOK, Enter, Alone
<1> QED BY <1>2, HiddenStep DEF Enter

LEMMA ReadInitialRefines ==
  ASSUME NEW n \in Task, IInv, ReadInitial(n) PROVE UNCHANGED G!vars
<1>1. final[n] = NoReading  BY DEF IInv, MeasureInv, ReadInitial, Goto
<1>2. \A m \in Task : m # n => initial'[m] = initial[m]
  BY DEF IInv, TypeOK, ReadInitial
<1> QED BY <1>1, <1>2, HiddenStep DEF ReadInitial, Alone

(* The final reading is the node's contribution. *)
LEMMA ReadFinalRefines ==
  ASSUME NEW n \in Task, IInv, ReadFinal(n) PROVE G!Measure(n)
<1>1. PICK r \in Reading :
        /\ final' = [final EXCEPT ![n] = r]
        /\ UNCHANGED <<procid, nodeCount, initial, pipe, inbox, report, faults>>
  BY DEF ReadFinal
<1>2. pc[n] = "final"  BY DEF ReadFinal, Goto
<1>3. final[n] = NoReading /\ initial[n] \in Reading /\ r # NoReading
  BY <1>1, <1>2, ChainAssumption DEF IInv, MeasureInv, TypeOK
<1>4. Contribution[n] = <<>>  BY <1>3 DEF Contribution
<1>5. Contribution' = [Contribution EXCEPT ![n] = <<initial[n], r>>]
  BY <1>1, <1>3 DEF Contribution, IInv, TypeOK
<1>6. AloneSet' = AloneSet /\ Summaries' = Summaries
  BY <1>1 DEF AloneSet, Alone, Summaries
<1> QED BY <1>1, <1>3, <1>4, <1>5, <1>6 DEF G!Measure, Contribution, AloneSet, Summaries

(* A task that gets no node list is left to itself, unless the allocation    *)
(* has one node, which is all it would have learned.                         *)
LEMMA EnterStandaloneRefines ==
  ASSUME NEW n \in Task, IInv, EnterStandalone(n) PROVE [G!GoAlone(n)]_(G!vars)
<1>1. /\ nodeCount' = [nodeCount EXCEPT ![n] = 1]
      /\ UNCHANGED <<initial, final, report>>
  BY DEF EnterStandalone
<1>2. final[n] = NoReading /\ nodeCount[n] = 0
  BY DEF EnterStandalone, Goto, IInv, MeasureInv, ViewInv
<1>3. \A m \in Task \ {n} : Alone(m)' <=> Alone(m)
  BY <1>1 DEF Alone, IInv, TypeOK
<1>4. CASE N = 1
  <2>1. Alone(n)' <=> Alone(n)  BY <1>1, <1>2, <1>4 DEF Alone, IInv, TypeOK
  <2> QED BY <1>1, <1>3, <2>1, HiddenStep
<1>5. CASE N # 1
  <2>1. Alone(n)'  BY <1>1, <1>5 DEF Alone, IInv, TypeOK
  <2>2. AloneSet' = AloneSet \cup {n}  BY <1>3, <2>1 DEF AloneSet
  <2>3. Contribution[n] = <<>>  BY <1>2 DEF Contribution
  <2>4. UNCHANGED <<Contribution, Summaries>>  BY <1>1 DEF Contribution, Summaries
  <2> QED BY <2>2, <2>3, <2>4 DEF G!GoAlone, Contribution, AloneSet, Summaries
<1> QED BY <1>4, <1>5

(* The one report: of all nodes by node 0, or of itself by a task alone.     *)
LEMMA PublishRefines ==
  ASSUME NEW n \in Task, IInv, Publish(n) PROVE G!PublishAll \/ G!PublishOwn(n)
<1>1. /\ pc[n] = "publish" /\ procid[n] = 0
      /\ report' = [report EXCEPT ![n] = agg[n]]
      /\ UNCHANGED <<procid, nodeCount, initial, final, agg, pipe, inbox, faults>>
  BY DEF Publish, Goto, IsFirst
<1>2. /\ agg[n] # <<>> /\ final[n] # NoReading /\ nodeCount[n] # 0
      /\ report[n] = <<>>
  BY <1>1 DEF IInv, AggInv, ViewInv, ReportInv
<1>3. UNCHANGED <<Contribution, AloneSet>>
  BY <1>1 DEF Contribution, AloneSet, Alone
<1>4. Summaries[n] = <<>>  BY <1>2, EmptySummary DEF Summaries
<1>5. Summaries' = [Summaries EXCEPT ![n] = Summary(agg[n])]
  BY <1>1 DEF Summaries, IInv, TypeOK
<1>6. CASE Member(n)
  <2>1. n = 0  BY <1>1, <1>6 DEF IInv, ViewInv, Alone, Member
  <2>2. Covered(0) /\ agg[0] = RowsFrom(0)  BY <1>2, <1>6, <2>1 DEF IInv, AggInv
  <2>3. \A m \in Task : m \in 0..(N - 1)  BY <2>2, TaskFacts
  <2>4. AloneSet = {}  BY <2>2, <2>3 DEF Covered, AloneSet, Alone, Member
  <2>5. \A m \in Task : Contribution[m] # <<>>
    BY <2>2, <2>3 DEF Covered, Contribution
  <2>6. Summary(agg[0]) = Contribution  BY <2>2, WholeSummary
  <2> QED BY <1>3, <1>4, <1>5, <2>1, <2>4, <2>5, <2>6
          DEF G!PublishAll, Contribution, AloneSet, Summaries
<1>7. CASE Alone(n)
  <2>1. agg[n] = <<AloneRow(n)>>  BY <1>2, <1>7 DEF IInv, AggInv
  <2>2. Summary(agg[n]) = [m \in {n} |-> Contribution[n]]
    BY <1>2, <2>1, OwnSummary DEF Contribution
  <2>3. n \in AloneSet /\ Contribution[n] # <<>>
    BY <1>2, <1>7 DEF AloneSet, Contribution
  <2> QED BY <1>3, <1>4, <1>5, <2>2, <2>3
          DEF G!PublishOwn, Contribution, AloneSet, Summaries
<1> QED BY <1>2, <1>6, <1>7 DEF Member, Alone

LEMMA NextRefines == IInv /\ [Next]_vars => [G!Next]_(G!vars)
<1> SUFFICES ASSUME IInv, [Next]_vars PROVE [G!Next]_(G!vars)  OBVIOUS
<1>1. CASE UNCHANGED vars \/ Finished
  BY <1>1, HiddenStep DEF vars, Finished, Alone
<1>2. ASSUME NEW n \in Task, Progress(n) PROVE [G!Next]_(G!vars)
  <2>1. CASE Enter(n)  BY <2>1, EnterRefines
  <2>2. CASE ReadInitial(n)  BY <2>2, ReadInitialRefines
  <2>3. CASE ReadFinal(n)  BY <2>3, ReadFinalRefines DEF G!Next
  <2>4. CASE Publish(n)  BY <2>4, PublishRefines DEF G!Next
  <2>5. CASE RunCommand(n)  BY <2>5, HiddenStep DEF RunCommand, Alone
  <2>6. CASE Bind(n)  BY <2>6, HiddenStep DEF Bind, Alone
  <2>7. CASE Receive(n)  BY <2>7, HiddenStep DEF Receive, Alone
  <2>8. CASE Send(n)  BY <2>8, HiddenStep DEF Send, Alone
  <2>9. CASE Transmit(n)  BY <2>9, HiddenStep DEF Transmit, Alone
  <2>10. CASE CloseContext(n)  BY <2>10, HiddenStep DEF CloseContext, Alone
  <2> QED BY <1>2, <2>1, <2>2, <2>3, <2>4, <2>5, <2>6, <2>7, <2>8, <2>9, <2>10
          DEF Progress
<1>3. ASSUME NEW n \in Task, Disturb(n) PROVE [G!Next]_(G!vars)
  <2>1. CASE EnterStandalone(n)  BY <2>1, EnterStandaloneRefines DEF G!Next
  <2>2. CASE CommandFails(n)  BY <2>2, HiddenStep DEF CommandFails, Alone
  <2>3. CASE BindFails(n)  BY <2>3, HiddenStep DEF BindFails, Alone
  <2>4. CASE SendLookupFails(n)  BY <2>4, HiddenStep DEF SendLookupFails, Alone
  <2>5. CASE Crash(n)  BY <2>5, HiddenStep DEF Crash, Alone
  <2> QED BY <1>3, <2>1, <2>2, <2>3, <2>4, <2>5 DEF Disturb
<1> QED BY <1>1, <1>2, <1>3 DEF Next

(* Every behaviour of the chain, with whatever faults, is one of Gather: all *)
(* readings are published once by the first node, or a task left to itself   *)
(* publishes its own (main.cpp:115-188, counter_aggregation.cpp:1980-2178).   *)
THEOREM Refinement == Spec => ImplementsGather
<1>1. Init => G!Init  BY InitRefines
<1> QED BY <1>1, NextRefines, Invariance, PTL DEF Spec, ImplementsGather, G!Spec
=============================================================================
