----------------------------- MODULE StepsProofs -----------------------------
(***************************************************************************)
(* Proofs about Steps, for any number of steps, hosts and faults: reports    *)
(* are whole and share no row, and those of a script that waits for its      *)
(* steps hold no row of another step.                                        *)
(***************************************************************************)
EXTENDS Steps, TLAPS

Places == {"away", "run", "bind", "recv", "publish", "linger", "done", "failed"}

Types ==
  /\ pc \in [Task -> Places]
  /\ agg \in [Task -> Seq(Task)]
  /\ pipe \in [Task -> Seq(Seq(Task))]
  /\ inbox \in [Task -> Seq(Seq(Task))]
  /\ report \in [Step -> Seq(Task)]
  /\ cancelled \subseteq Step

(* One row of each host, from the last down to h. *)
RowsDownTo(m, h) ==
  /\ Len(m) = N - h
  /\ \A i \in 1..(N - h) : m[i][2] = N - i

(* A task that is past the point where it pushed its own row. *)
Pushed == {"publish", "linger", "done", "failed"}

(* What a task, its sockets and its report hold for where the task stands.   *)
Custody ==
  /\ \A t \in Task :
       /\ pc[t] \in {"publish", "linger"} => RowsDownTo(agg[t], t[2])
       /\ pc[t] = "linger" => t[2] # 0
       /\ pc[t] \in {"bind", "recv"} => t[2] # N - 1
       /\ pipe[t] # <<>> => pc[t] = "linger" /\ pipe[t] = <<agg[t]>>
       /\ inbox[t] # <<>> => pc[t] = "recv"
       /\ \A i \in DOMAIN inbox[t] : RowsDownTo(inbox[t][i], t[2] + 1)
  /\ \A s \in Step : report[s] # <<>> =>
       /\ pc[<<s, 0>>] = "done"
       /\ report[s] = agg[<<s, 0>>]
       /\ RowsDownTo(report[s], 0)

(* The rows a task has in hand, in its pipe or in its report.                *)
Live(t) ==
  \/ pc[t] = "publish"
  \/ pipe[t] # <<>>
  \/ t[2] = 0 /\ report[t[1]] # <<>>

(* A row is in the hands of one task or in one message, and its own task     *)
(* pushed it.                                                                *)
LiveApart ==
  \A t, u \in Task : t # u /\ Live(t) /\ Live(u) =>
    ToSet(agg[t]) \cap ToSet(agg[u]) = {}
LiveAndSent ==
  \A t, u \in Task : Live(t) => \A i \in DOMAIN inbox[u] :
    ToSet(agg[t]) \cap ToSet(inbox[u][i]) = {}
SentApart ==
  \A t, u \in Task : \A i \in DOMAIN inbox[t], j \in DOMAIN inbox[u] :
    <<t, i>> # <<u, j>> => ToSet(inbox[t][i]) \cap ToSet(inbox[u][j]) = {}
RowsPushed ==
  /\ \A t \in Task : Live(t) => \A r \in ToSet(agg[t]) : pc[r] \in Pushed
  /\ \A t \in Task : \A i \in DOMAIN inbox[t] :
       \A r \in ToSet(inbox[t][i]) : pc[r] \in Pushed

Apart == LiveApart /\ LiveAndSent /\ SentApart /\ RowsPushed

(* A script that waits: a step with a task that has started, or that is      *)
(* being cancelled, has only steps before it that are over; and every row    *)
(* stays in its step.                                                        *)
InOrder ==
  ~overlap =>
    /\ \A t \in Task : pc[t] # "away" => \A q \in 1..(t[1] - 1) : StepOver(q)
    /\ \A s \in cancelled : \A q \in 1..(s - 1) : StepOver(q)
OwnRows ==
  ~overlap => \A t \in Task :
    /\ \A r \in ToSet(agg[t]) : r[1] = t[1]
    /\ \A i \in DOMAIN inbox[t] : \A r \in ToSet(inbox[t][i]) : r[1] = t[1]

IInv == Types /\ Custody /\ Apart /\ InOrder /\ OwnRows

----------------------------------------------------------------------------
LEMMA TaskFacts ==
  /\ N \in Nat /\ N > 1 /\ Count \in Nat
  /\ \A t \in Task : t = <<t[1], t[2]>> /\ t[1] \in Step /\ t[2] \in Host
  /\ \A s \in Step, h \in Host : <<s, h>> \in Task
  /\ \A s \in Step, h \in Host : <<s, h>>[1] = s /\ <<s, h>>[2] = h
  /\ 0 \in Host
BY StepsAssumption DEF Task, Step, Host

LEMMA RowsOfAppend ==
  ASSUME NEW m \in Seq(Task), NEW t \in Task
  PROVE  ToSet(Append(m, t)) = ToSet(m) \cup {t}
<1>1. DOMAIN m = 1..Len(m) /\ Len(m) \in Nat  OBVIOUS
<1>2. DOMAIN Append(m, t) = 1..(Len(m) + 1)  OBVIOUS
<1>3. \A i \in 1..Len(m) : Append(m, t)[i] = m[i]  OBVIOUS
<1>4. Append(m, t)[Len(m) + 1] = t  OBVIOUS
<1> QED BY <1>1, <1>2, <1>3, <1>4 DEF ToSet

LEMMA RowsOfOne == ASSUME NEW t \in Task PROVE ToSet(<<t>>) = {t}
BY DEF ToSet

(* A message that a host appends its row to reaches down to that host.       *)
LEMMA RowsOfNext ==
  ASSUME NEW t \in Task, NEW m \in Seq(Task), t[2] # N - 1, RowsDownTo(m, t[2] + 1)
  PROVE  RowsDownTo(Append(m, t), t[2])
<1> USE TaskFacts
<1>1. t[2] \in Nat /\ t[2] < N - 1 /\ Len(m) = N - t[2] - 1
  BY DEF Host, RowsDownTo
<1>2. Len(Append(m, t)) = N - t[2]  BY <1>1
<1>3. ASSUME NEW i \in 1..(N - t[2]) PROVE Append(m, t)[i][2] = N - i
  <2>1. CASE i = N - t[2]
    <3>1. Append(m, t)[i] = t  BY <1>1, <2>1
    <3> QED BY <1>1, <2>1, <3>1
  <2>2. CASE i # N - t[2]
    <3>1. i \in 1..(N - (t[2] + 1)) /\ i \in 1..Len(m)  BY <1>1, <2>2
    <3>2. Append(m, t)[i] = m[i]  BY <3>1
    <3> QED BY <3>1, <3>2 DEF RowsDownTo
  <2> QED BY <2>1, <2>2
<1> QED BY <1>2, <1>3 DEF RowsDownTo

----------------------------------------------------------------------------
(* Rows stay apart in a step that brings none into new hands.                *)
LEMMA ApartShrinks ==
  ASSUME Apart,
         \A t \in Task : Live(t)' => Live(t) /\ agg'[t] = agg[t],
         \A t \in Task : inbox'[t] = inbox[t] \/ inbox'[t] = <<>>,
         \A t \in Task : pc[t] \in Pushed => pc'[t] \in Pushed,
         Types
  PROVE  Apart'
<1>1. LiveApart'  BY DEF Apart, LiveApart
<1>2. \A t \in Task : \A i \in DOMAIN inbox'[t] :
        i \in DOMAIN inbox[t] /\ inbox'[t][i] = inbox[t][i]
  OBVIOUS
<1>3. LiveAndSent'  BY <1>2 DEF Apart, LiveAndSent
<1>4. SentApart'  BY <1>2 DEF Apart, SentApart
<1>5. RowsPushed'
  <2>1. \A t \in Task : Live(t) => \A r \in ToSet(agg[t]) : r \in Task
    BY DEF Types, ToSet
  <2>2. \A t \in Task : \A i \in DOMAIN inbox[t] :
          \A r \in ToSet(inbox[t][i]) : r \in Task
    BY DEF Types, ToSet
  <2> QED BY <1>2, <2>1, <2>2 DEF Apart, RowsPushed
<1> QED BY <1>1, <1>3, <1>4, <1>5 DEF Apart

(* A task comes into hands of rows that were in its socket, if any, and of   *)
(* its own.                                                                  *)
LEMMA ApartTakes ==
  ASSUME Apart, Types, NEW t \in Task, pc[t] \notin Pushed, pc'[t] \in Pushed,
         NEW rows, ToSet(agg'[t]) = rows \cup {t},
         rows # {} => \E i \in DOMAIN inbox[t] : rows = ToSet(inbox[t][i]),
         inbox'[t] = <<>>,
         \A u \in Task \ {t} : /\ Live(u)' <=> Live(u)
                               /\ agg'[u] = agg[u] /\ inbox'[u] = inbox[u]
                               /\ pc'[u] = pc[u]
  PROVE  Apart'
<1>1. \A r \in rows : r \in Task /\ pc[r] \in Pushed
  BY DEF Apart, RowsPushed, Types, ToSet
<1>2. ASSUME NEW u \in Task \ {t}, Live(u)
      PROVE  ToSet(agg'[t]) \cap ToSet(agg[u]) = {}
  <2>1. rows \cap ToSet(agg[u]) = {}  BY <1>2 DEF Apart, LiveAndSent
  <2>2. t \notin ToSet(agg[u])  BY <1>2 DEF Apart, RowsPushed
  <2> QED BY <2>1, <2>2
<1>3. ASSUME NEW u \in Task \ {t}, NEW i \in DOMAIN inbox[u]
      PROVE  ToSet(agg'[t]) \cap ToSet(inbox[u][i]) = {}
  <2>1. rows \cap ToSet(inbox[u][i]) = {}  BY DEF Apart, SentApart
  <2>2. t \notin ToSet(inbox[u][i])  BY DEF Apart, RowsPushed
  <2> QED BY <2>1, <2>2
<1>4. LiveApart'  BY <1>2 DEF Apart, LiveApart
<1>5. DOMAIN inbox'[t] = {}  OBVIOUS
<1>6. LiveAndSent'  BY <1>3, <1>5 DEF Apart, LiveAndSent
<1>7. SentApart'  BY ZenonT(60), <1>5 DEF Apart, SentApart
<1>8. RowsPushed'
  <2>1. \A u \in Task : pc[u] \in Pushed => pc'[u] \in Pushed  OBVIOUS
  <2>2. \A r \in ToSet(agg'[t]) : pc'[r] \in Pushed  BY <1>1, <2>1
  <2>3. \A u \in Task \ {t} : Live(u) => \A r \in ToSet(agg[u]) : pc'[r] \in Pushed
    BY SMTT(30), <2>1 DEF Apart, RowsPushed, Types, ToSet
  <2>4. \A u \in Task \ {t} : \A i \in DOMAIN inbox[u] :
          \A r \in ToSet(inbox[u][i]) : pc'[r] \in Pushed
    BY SMTT(30), <2>1 DEF Apart, RowsPushed, Types, ToSet
  <2> QED BY <1>5, <2>2, <2>3, <2>4 DEF RowsPushed
<1> QED BY <1>4, <1>6, <1>7, <1>8 DEF Apart

(* A message leaves a pipe for a socket. *)
LEMMA ApartMoves ==
  ASSUME Apart, Types, NEW t \in Task, NEW u \in Task, Live(t),
         inbox'[u] = Append(inbox[u], agg[t]), ~Live(t)',
         \A v \in Task : Live(v)' => Live(v),
         \A v \in Task \ {u} : inbox'[v] = inbox[v],
         UNCHANGED <<agg, pc>>
  PROVE  Apart'
<1> DEFINE new == Len(inbox[u]) + 1
<1>1. /\ new \notin DOMAIN inbox[u] /\ inbox'[u][new] = agg[t]
      /\ DOMAIN inbox'[u] = DOMAIN inbox[u] \cup {new}
      /\ \A i \in DOMAIN inbox[u] : inbox'[u][i] = inbox[u][i]
  BY DEF Types
<1> HIDE DEF new
<1>2. \A v \in Task : \A i \in DOMAIN inbox'[v] :
        \/ v = u /\ i = new /\ inbox'[v][i] = agg[t]
        \/ <<v, i>> # <<u, new>> /\ i \in DOMAIN inbox[v] /\ inbox'[v][i] = inbox[v][i]
  BY <1>1
<1>3. LiveApart'  BY DEF Apart, LiveApart
<1>4. LiveAndSent'  BY ZenonT(60), <1>2 DEF Apart, LiveApart, LiveAndSent
<1>5. SentApart'
  <2> SUFFICES ASSUME NEW v \in Task, NEW w \in Task,
                      NEW i \in DOMAIN inbox'[v], NEW j \in DOMAIN inbox'[w],
                      <<v, i>> # <<w, j>>
               PROVE  ToSet(inbox'[v][i]) \cap ToSet(inbox'[w][j]) = {}
    BY DEF SentApart
  <2>1. CASE v = u /\ i = new
    <3>1. j \in DOMAIN inbox[w] /\ inbox'[w][j] = inbox[w][j]  BY <1>2, <2>1
    <3> QED BY <1>1, <2>1, <3>1 DEF Apart, LiveAndSent
  <2>2. CASE w = u /\ j = new
    <3>1. i \in DOMAIN inbox[v] /\ inbox'[v][i] = inbox[v][i]  BY <1>2, <2>2
    <3> QED BY <1>1, <2>2, <3>1 DEF Apart, LiveAndSent
  <2>3. CASE ~(v = u /\ i = new) /\ ~(w = u /\ j = new)
    <3>1. /\ i \in DOMAIN inbox[v] /\ inbox'[v][i] = inbox[v][i]
          /\ j \in DOMAIN inbox[w] /\ inbox'[w][j] = inbox[w][j]
      BY <1>2, <2>3
    <3> QED BY <3>1 DEF Apart, SentApart
  <2> QED BY <2>1, <2>2, <2>3
<1>6. RowsPushed'  BY <1>2 DEF Apart, RowsPushed
<1> QED BY <1>3, <1>4, <1>5, <1>6 DEF Apart

----------------------------------------------------------------------------
(* Nothing but the order of the steps is lost in a step in which no task     *)
(* that was away moves and nobody is cancelled.                              *)
LEMMA OrderKept ==
  ASSUME InOrder, overlap' = overlap, cancelled' = cancelled, Types,
         \A t \in Task : Over(t) => Over(t)',
         \A t \in Task : pc'[t] # "away" => pc[t] # "away"
  PROVE  InOrder'
<1>1. \A q \in Step : StepOver(q) => StepOver(q)'  BY TaskFacts DEF StepOver
<1>2. \A s \in Step : 1..(s - 1) \subseteq Step  BY TaskFacts DEF Step
<1> QED BY <1>1, <1>2, TaskFacts DEF InOrder, Types

LEMMA OwnKept ==
  ASSUME OwnRows, overlap' = overlap, agg' = agg,
         \A t \in Task : inbox'[t] = inbox[t] \/ inbox'[t] = <<>>
  PROVE  OwnRows'
<1>1. \A t \in Task : \A i \in DOMAIN inbox'[t] :
        i \in DOMAIN inbox[t] /\ inbox'[t][i] = inbox[t][i]
  OBVIOUS
<1> QED BY <1>1 DEF OwnRows

LEMMA InitInv == Init => IInv
<1> SUFFICES ASSUME Init PROVE IInv  OBVIOUS
<1> USE TaskFacts DEF Init
<1>1. Types  BY DEF Types, Places
<1>2. Custody  BY DEF Custody
<1>3. Apart  BY DEF Apart, LiveApart, LiveAndSent, SentApart, RowsPushed, Live
<1>4. InOrder /\ OwnRows  BY DEF InOrder, OwnRows, ToSet
<1> QED BY <1>1, <1>2, <1>3, <1>4 DEF IInv

(* Start, Bind and BindClash: a task moves, and nothing else.                *)
LEMMA MovesInv ==
  ASSUME NEW t \in Task, IInv, Start(t) \/ Bind(t) \/ BindClash(t) PROVE IInv'
<1> USE TaskFacts DEF IInv
<1>1. PICK q \in {"run", "recv", "failed"} :
        /\ pc' = [pc EXCEPT ![t] = q]
        /\ pc[t] \in {"away", "bind"} /\ (q = "recv" => pc[t] = "bind")
        /\ UNCHANGED <<overlap, agg, pipe, inbox, report, cancelled, faults>>
  BY DEF Start, Bind, BindClash, Goto
<1>2. \A u \in Task : pc'[u] = IF u = t THEN q ELSE pc[u]
  BY <1>1 DEF Types
<1>3. Types'  BY <1>1 DEF Types, Places
<1>4. Custody'  BY <1>1, <1>2 DEF Custody
<1>5. Apart'
  <2>1. \A u \in Task : Live(u)' => Live(u)  BY <1>1, <1>2 DEF Live
  <2> QED BY <1>1, <1>2, <2>1, ApartShrinks DEF Pushed
<1>6. InOrder'
  <2>1. \A u \in Task : Over(u) => Over(u)'  BY <1>1, <1>2 DEF Over
  <2>2. CASE pc[t] # "away"  BY <1>1, <1>2, <2>1, <2>2, OrderKept
  <2>3. CASE pc[t] = "away"
    <3>1. Start(t)  BY <2>3 DEF Bind, BindClash, Goto
    <3>2. \A s \in Step : StepOver(s) => StepOver(s)'  BY <2>1 DEF StepOver
    <3>3. \A s \in Step : 1..(s - 1) \subseteq Step  BY DEF Step
    <3> QED BY <1>1, <1>2, <3>1, <3>2, <3>3 DEF InOrder, Start, Types
  <2> QED BY <2>2, <2>3
<1>7. OwnRows'  BY <1>1, OwnKept
<1> QED BY <1>3, <1>4, <1>5, <1>6, <1>7

LEMMA MeasureInv == ASSUME NEW t \in Task, IInv, Measure(t) PROVE IInv'
<1> USE TaskFacts DEF IInv
<1> DEFINE last == t[2] = N - 1
<1>1. /\ pc[t] = "run"
      /\ pc' = [pc EXCEPT ![t] = IF last THEN "publish" ELSE "bind"]
      /\ agg' = [agg EXCEPT ![t] = IF last THEN <<t>> ELSE <<>>]
      /\ UNCHANGED <<overlap, pipe, inbox, report, cancelled, faults>>
  BY DEF Measure, Goto
<1>2. \A u \in Task : /\ pc'[u] = IF u = t THEN IF last THEN "publish" ELSE "bind" ELSE pc[u]
                      /\ agg'[u] = IF u = t THEN IF last THEN <<t>> ELSE <<>> ELSE agg[u]
  BY <1>1 DEF Types
<1>3. pipe[t] = <<>> /\ inbox[t] = <<>>  BY <1>1 DEF Custody
<1>4. \A s \in Step : report[s] # <<>> => <<s, 0>> # t  BY <1>1 DEF Custody
<1>5. Types'
  <2>1. pc' \in [Task -> Places]  BY <1>1 DEF Types, Places
  <2>2. agg' \in [Task -> Seq(Task)]  BY <1>1 DEF Types
  <2> QED BY <1>1, <2>1, <2>2 DEF Types
<1>6. Custody'
  <2>1. last => RowsDownTo(<<t>>, t[2])  BY DEF RowsDownTo
  <2> HIDE DEF last
  <2>2. \A u \in Task : pipe[u] # <<>> => u # t  BY <1>3
  <2> QED BY <1>1, <1>2, <1>3, <1>4, <2>1, <2>2 DEF Custody, last
<1>7. ~Live(t)
  <2>1. t[2] = 0 => report[t[1]] = <<>>  BY <1>4
  <2> QED BY <1>1, <1>3, <2>1 DEF Live
<1>8. \A u \in Task \ {t} : Live(u)' <=> Live(u)  BY <1>1, <1>2 DEF Live
<1>9. Apart'
  <2>1. CASE last
    <3>1. ToSet(agg'[t]) = {} \cup {t}  BY <1>2, <2>1, RowsOfOne
    <3>2. pc[t] \notin Pushed /\ pc'[t] \in Pushed  BY <1>1, <1>2, <2>1 DEF Pushed
    <3>3. inbox'[t] = <<>>  BY <1>1, <1>3
    <3>4. \A u \in Task \ {t} : /\ Live(u)' <=> Live(u)
                                /\ agg'[u] = agg[u] /\ inbox'[u] = inbox[u]
                                /\ pc'[u] = pc[u]
      BY <1>1, <1>2, <1>8
    <3>5. Apart /\ Types  OBVIOUS
    <3> HIDE DEF last, IInv
    <3> QED BY <3>1, <3>2, <3>3, <3>4, <3>5, ApartTakes
  <2>2. CASE ~last
    <3>1. ~Live(t)'
      <4>1. t[2] = 0 => report[t[1]] = <<>>  BY <1>4
      <4> QED BY <1>1, <1>2, <1>3, <2>2, <4>1 DEF Live
    <3> QED BY <1>1, <1>2, <1>8, <2>2, <3>1, ApartShrinks DEF Pushed
  <2> QED BY <2>1, <2>2
<1>10. InOrder'
  <2>1. \A u \in Task : Over(u) => Over(u)'  BY <1>1, <1>2 DEF Over
  <2> QED BY <1>1, <1>2, <2>1, OrderKept
<1>11. OwnRows'
  <2>1. \A r \in ToSet(agg'[t]) : r = t
    BY <1>2, RowsOfOne DEF ToSet
  <2> QED BY <1>1, <1>2, <2>1 DEF OwnRows
<1> QED BY <1>5, <1>6, <1>9, <1>10, <1>11

LEMMA ReceiveInv == ASSUME NEW t \in Task, IInv, Receive(t) PROVE IInv'
<1> USE TaskFacts DEF IInv
<1> DEFINE m == Head(inbox[t])
<1>1. /\ pc[t] = "recv" /\ pc' = [pc EXCEPT ![t] = "publish"]
      /\ inbox[t] # <<>>
      /\ agg' = [agg EXCEPT ![t] = Append(m, t)]
      /\ inbox' = [inbox EXCEPT ![t] = <<>>]
      /\ UNCHANGED <<overlap, pipe, report, cancelled, faults>>
  BY DEF Receive, Goto
<1>2. 1 \in DOMAIN inbox[t] /\ m = inbox[t][1] /\ m \in Seq(Task)
  BY <1>1 DEF Types
<1>3. RowsDownTo(m, t[2] + 1) /\ t[2] # N - 1  BY <1>1, <1>2 DEF Custody
<1>4. Append(m, t) \in Seq(Task) /\ ToSet(Append(m, t)) = ToSet(m) \cup {t}
  BY <1>2, RowsOfAppend
<1>5. RowsDownTo(Append(m, t), t[2])  BY <1>2, <1>3, RowsOfNext
<1> HIDE DEF m
<1>6. \A u \in Task : /\ pc'[u] = IF u = t THEN "publish" ELSE pc[u]
                      /\ agg'[u] = IF u = t THEN Append(m, t) ELSE agg[u]
                      /\ inbox'[u] = IF u = t THEN <<>> ELSE inbox[u]
  BY <1>1 DEF Types
<1>7. pipe[t] = <<>>  BY <1>1 DEF Custody
<1>8. \A s \in Step : report[s] # <<>> => <<s, 0>> # t  BY <1>1 DEF Custody
<1>9. Types'
  <2>1. pc' \in [Task -> Places]  BY <1>1 DEF Types, Places
  <2>2. agg' \in [Task -> Seq(Task)]  BY <1>1, <1>4 DEF Types
  <2>3. inbox' \in [Task -> Seq(Seq(Task))]  BY <1>1 DEF Types
  <2> QED BY <1>1, <2>1, <2>2, <2>3 DEF Types
<1>10. Custody'
  <2>1. \A u \in Task : pipe[u] # <<>> => u # t  BY <1>7
  <2> QED BY <1>1, <1>5, <1>6, <1>7, <1>8, <2>1 DEF Custody
<1>11. Apart'
  <2>1. \A u \in Task \ {t} : /\ Live(u)' <=> Live(u)
                              /\ agg'[u] = agg[u] /\ inbox'[u] = inbox[u]
                              /\ pc'[u] = pc[u]
    BY <1>1, <1>6 DEF Live
  <2>2. pc[t] \notin Pushed /\ pc'[t] \in Pushed  BY <1>1, <1>6 DEF Pushed
  <2>3. ToSet(agg'[t]) = ToSet(m) \cup {t}  BY <1>4, <1>6
  <2>4. \E i \in DOMAIN inbox[t] : ToSet(m) = ToSet(inbox[t][i])  BY <1>2
  <2>5. inbox'[t] = <<>>  BY <1>6
  <2>6. Apart /\ Types  OBVIOUS
  <2> HIDE DEF IInv
  <2> QED BY <2>1, <2>2, <2>3, <2>4, <2>5, <2>6, ApartTakes
<1>12. InOrder'
  <2>1. \A u \in Task : Over(u) => Over(u)'  BY <1>1, <1>6 DEF Over
  <2> QED BY <1>1, <1>6, <2>1, OrderKept
<1>13. OwnRows'
  <2>1. ~overlap => \A r \in ToSet(agg'[t]) : r[1] = t[1]
    BY <1>2, <1>4, <1>6 DEF OwnRows
  <2> QED BY <1>1, <1>6, <2>1 DEF OwnRows
<1> QED BY <1>9, <1>10, <1>11, <1>12, <1>13

LEMMA PublishInv == ASSUME NEW t \in Task, IInv, Publish(t) PROVE IInv'
<1> USE TaskFacts DEF IInv
<1>1. /\ t[2] = 0 /\ pc[t] = "publish" /\ pc' = [pc EXCEPT ![t] = "done"]
      /\ report' = [report EXCEPT ![t[1]] = agg[t]]
      /\ UNCHANGED <<overlap, agg, pipe, inbox, cancelled, faults>>
  BY DEF Publish, Goto
<1>2. \A u \in Task : pc'[u] = IF u = t THEN "done" ELSE pc[u]
  BY <1>1 DEF Types
<1>3. t = <<t[1], 0>>  BY <1>1
<1>4. \A s \in Step : report'[s] = IF s = t[1] THEN agg[t] ELSE report[s]
  BY <1>1 DEF Types
<1>5. Types'
  <2>1. pc' \in [Task -> Places]  BY <1>1 DEF Types, Places
  <2>2. report' \in [Step -> Seq(Task)]  BY <1>1 DEF Types
  <2> QED BY <1>1, <2>1, <2>2 DEF Types
<1>6. pipe[t] = <<>> /\ inbox[t] = <<>> /\ RowsDownTo(agg[t], 0)
  BY <1>1 DEF Custody
<1>7. Custody'
  <2>1. \A u \in Task : pipe[u] # <<>> => u # t  BY <1>6
  <2>2. \A u \in Task : inbox[u] # <<>> => u # t  BY <1>6
  <2>3. \A s \in Step : report'[s] # <<>> =>
          pc'[<<s, 0>>] = "done" /\ report'[s] = agg[<<s, 0>>] /\ RowsDownTo(report'[s], 0)
    <3> TAKE s \in Step
    <3> HAVE report'[s] # <<>>
    <3>1. CASE s = t[1]  BY <1>2, <1>3, <1>4, <1>6, <3>1
    <3>2. CASE s # t[1]
      <4>1. <<s, 0>> # t /\ <<s, 0>> \in Task  BY <3>2
      <4> QED BY <1>2, <1>4, <3>2, <4>1 DEF Custody
    <3> QED BY <3>1, <3>2
  <2> QED BY <1>1, <1>2, <2>1, <2>2, <2>3 DEF Custody
<1>8. Apart'
  <2>1. \A u \in Task : Live(u)' => Live(u)
    <3> TAKE u \in Task
    <3> HAVE Live(u)'
    <3>1. CASE u = t  BY <1>1, <3>1 DEF Live
    <3>2. CASE u # t
      <4>1. u[2] = 0 => u[1] # t[1]  BY <1>1, <3>2
      <4> QED BY <1>1, <1>2, <1>4, <3>2, <4>1 DEF Live
    <3> QED BY <3>1, <3>2
  <2> QED BY <1>1, <1>2, <2>1, ApartShrinks DEF Pushed
<1>9. InOrder'
  <2>1. \A u \in Task : Over(u) => Over(u)'  BY <1>1, <1>2 DEF Over
  <2> QED BY <1>1, <1>2, <2>1, OrderKept
<1>10. OwnRows'  BY <1>1, OwnKept
<1> QED BY <1>5, <1>7, <1>8, <1>9, <1>10

LEMMA SendInv == ASSUME NEW t \in Task, IInv, Send(t) PROVE IInv'
<1> USE TaskFacts DEF IInv
<1>1. /\ t[2] # 0 /\ pc[t] = "publish" /\ pc' = [pc EXCEPT ![t] = "linger"]
      /\ pipe' = [pipe EXCEPT ![t] = <<agg[t]>>]
      /\ UNCHANGED <<overlap, agg, inbox, report, cancelled, faults>>
  BY DEF Send, Goto
<1>2. \A u \in Task : /\ pc'[u] = IF u = t THEN "linger" ELSE pc[u]
                      /\ pipe'[u] = IF u = t THEN <<agg[t]>> ELSE pipe[u]
  BY <1>1 DEF Types
<1>3. Types'
  <2>1. pc' \in [Task -> Places]  BY <1>1 DEF Types, Places
  <2>2. pipe' \in [Task -> Seq(Seq(Task))]  BY <1>1 DEF Types
  <2> QED BY <1>1, <2>1, <2>2 DEF Types
<1>4. Custody'
  <2>1. \A s \in Step : <<s, 0>> # t  BY <1>1
  <2>2. inbox[t] = <<>>  BY <1>1 DEF Custody
  <2>3. \A u \in Task : inbox[u] # <<>> => u # t  BY <2>2
  <2> QED BY <1>1, <1>2, <2>1, <2>3 DEF Custody
<1>5. Apart'
  <2>1. \A u \in Task : Live(u)' => Live(u)  BY <1>1, <1>2 DEF Live
  <2> QED BY <1>1, <1>2, <2>1, ApartShrinks DEF Pushed
<1>6. InOrder'
  <2>1. \A u \in Task : Over(u) => Over(u)'  BY <1>1, <1>2 DEF Over
  <2> QED BY <1>1, <1>2, <2>1, OrderKept
<1>7. OwnRows'  BY <1>1, OwnKept
<1> QED BY <1>3, <1>4, <1>5, <1>6, <1>7

LEMMA TransmitInv ==
  ASSUME NEW t \in Task, NEW s \in Step, IInv, Transmit(t, s) PROVE IInv'
<1> USE TaskFacts DEF IInv
<1> DEFINE u == <<s, Prev(t[2])>>
<1>1. pipe[t] # <<>> /\ pc[t] = "linger" /\ pipe[t] = <<agg[t]>> /\ t[2] # 0
  BY DEF Transmit, Custody
<1>2. t[2] - 1 \in Host /\ Prev(t[2]) = t[2] - 1 /\ t[2] \in Nat
  BY <1>1 DEF Host, Prev
<1>3. u \in Task /\ u[1] = s /\ u[2] + 1 = t[2]  BY <1>2
<1>4. /\ pc[u] = "recv"
      /\ inbox' = [inbox EXCEPT ![u] = Append(inbox[u], agg[t])]
      /\ pipe' = [pipe EXCEPT ![t] = <<>>]
      /\ UNCHANGED <<overlap, pc, agg, report, cancelled, faults>>
  BY <1>1 DEF Transmit
<1> HIDE DEF u
<1>5. \A v \in Task : /\ inbox'[v] = IF v = u THEN Append(inbox[u], agg[t]) ELSE inbox[v]
                      /\ pipe'[v] = IF v = t THEN <<>> ELSE pipe[v]
  BY <1>3, <1>4 DEF Types
<1>6. inbox[u] \in Seq(Seq(Task)) /\ agg[t] \in Seq(Task)  BY <1>3 DEF Types
<1>7. Types'
  <2>1. inbox' \in [Task -> Seq(Seq(Task))]  BY <1>3, <1>4, <1>6 DEF Types
  <2>2. pipe' \in [Task -> Seq(Seq(Task))]  BY <1>4 DEF Types
  <2> QED BY <1>4, <2>1, <2>2 DEF Types
<1>8. \A i \in DOMAIN inbox'[u] :
        \/ inbox'[u][i] = agg[t]
        \/ i \in DOMAIN inbox[u] /\ inbox'[u][i] = inbox[u][i]
  <2>1. inbox'[u] = Append(inbox[u], agg[t])  BY <1>3, <1>5
  <2> QED BY <1>6, <2>1
<1>9. Custody'
  <2>1. RowsDownTo(agg[t], u[2] + 1)  BY <1>1, <1>3 DEF Custody
  <2>2. \A i \in DOMAIN inbox'[u] : RowsDownTo(inbox'[u][i], u[2] + 1)
    BY <1>3, <1>8, <2>1 DEF Custody
  <2>3. \A v \in Task : inbox'[v] # <<>> => pc[v] = "recv"
    BY <1>4, <1>5 DEF Custody
  <2>4. \A v \in Task : \A i \in DOMAIN inbox'[v] : RowsDownTo(inbox'[v][i], v[2] + 1)
    BY <1>5, <2>2 DEF Custody
  <2> QED BY <1>4, <1>5, <2>3, <2>4 DEF Custody
<1>10. Apart'
  <2>1. Live(t)  BY <1>1 DEF Live
  <2>2. ~Live(t)'  BY <1>1, <1>4, <1>5 DEF Live
  <2>3. \A v \in Task : Live(v)' => Live(v)  BY <1>4, <1>5 DEF Live
  <2>4. inbox'[u] = Append(inbox[u], agg[t])  BY <1>3, <1>5
  <2>5. \A v \in Task \ {u} : inbox'[v] = inbox[v]  BY <1>5
  <2>6. Apart /\ Types /\ UNCHANGED <<agg, pc>>  BY <1>4
  <2> HIDE DEF IInv
  <2> QED BY <1>3, <2>1, <2>2, <2>3, <2>4, <2>5, <2>6, ApartMoves
<1>11. InOrder'
  <2>1. \A v \in Task : Over(v) => Over(v)'  BY <1>4 DEF Over
  <2> QED BY <1>4, <2>1, OrderKept
<1>12. OwnRows'
  <2>1. ASSUME ~overlap PROVE s = t[1]
    <3>1. ~Over(t) /\ ~Over(u) /\ pc[t] # "away" /\ pc[u] # "away"
      BY <1>1, <1>4 DEF Over
    <3>2. ~StepOver(t[1])
      <4>1. <<t[1], t[2]>> = t  OBVIOUS
      <4> QED BY <3>1, <4>1 DEF StepOver
    <3>3. ~StepOver(s)  BY <1>2, <1>3, <3>1 DEF StepOver, u
    <3>4. s \notin 1..(t[1] - 1) /\ t[1] \notin 1..(s - 1)
      BY <1>3, <2>1, <3>1, <3>2, <3>3 DEF InOrder
    <3> QED BY <3>4 DEF Step
  <2>2. ~overlap => \A i \in DOMAIN inbox'[u] : \A r \in ToSet(inbox'[u][i]) : r[1] = u[1]
    BY <1>3, <1>8, <2>1 DEF OwnRows
  <2> QED BY <1>4, <1>5, <2>2 DEF OwnRows
<1> QED BY <1>7, <1>9, <1>10, <1>11, <1>12

LEMMA CloseContextInv == ASSUME NEW t \in Task, IInv, CloseContext(t) PROVE IInv'
<1> USE TaskFacts DEF IInv
<1>1. /\ pc[t] = "linger" /\ pc' = [pc EXCEPT ![t] = "done"] /\ pipe[t] = <<>>
      /\ UNCHANGED <<overlap, agg, pipe, inbox, report, cancelled, faults>>
  BY DEF CloseContext, Goto
<1>2. \A u \in Task : pc'[u] = IF u = t THEN "done" ELSE pc[u]
  BY <1>1 DEF Types
<1>3. Types'
  <2>1. pc' \in [Task -> Places]  BY <1>1 DEF Types, Places
  <2> QED BY <1>1, <2>1 DEF Types
<1>4. Custody'
  <2>1. \A u \in Task : inbox[u] # <<>> => u # t  BY <1>1 DEF Custody
  <2>2. \A u \in Task : pipe[u] # <<>> => u # t  BY <1>1
  <2> QED BY <1>1, <1>2, <2>1, <2>2 DEF Custody
<1>5. Apart'
  <2>1. \A u \in Task : Live(u)' => Live(u)  BY <1>1, <1>2 DEF Live
  <2> QED BY <1>1, <1>2, <2>1, ApartShrinks DEF Pushed
<1>6. InOrder'
  <2>1. \A u \in Task : Over(u) => Over(u)'  BY <1>1, <1>2 DEF Over
  <2> QED BY <1>1, <1>2, <2>1, OrderKept
<1>7. OwnRows'  BY <1>1, OwnKept
<1> QED BY <1>3, <1>4, <1>5, <1>6, <1>7

(* A task dies of itself, or because its step is cancelled: then it may not  *)
(* even have started.                                                        *)
LEMMA DiesInv ==
  ASSUME NEW t \in Task, IInv, Crash(t) \/ Killed(t) PROVE IInv'
<1> USE TaskFacts DEF IInv
<1>1. /\ ~Over(t) /\ pc' = [pc EXCEPT ![t] = "failed"]
      /\ pipe' = [pipe EXCEPT ![t] = <<>>]
      /\ inbox' = [inbox EXCEPT ![t] = <<>>]
      /\ UNCHANGED <<overlap, agg, report, cancelled>>
      /\ pc[t] # "away" \/ t[1] \in cancelled
  BY DEF Crash, Killed, Dies
<1>2. \A u \in Task : /\ pc'[u] = IF u = t THEN "failed" ELSE pc[u]
                      /\ pipe'[u] = IF u = t THEN <<>> ELSE pipe[u]
                      /\ inbox'[u] = IF u = t THEN <<>> ELSE inbox[u]
  BY <1>1 DEF Types
<1>3. Types'
  <2>1. pc' \in [Task -> Places]  BY <1>1 DEF Types, Places
  <2>2. pipe' \in [Task -> Seq(Seq(Task))]  BY <1>1 DEF Types
  <2>3. inbox' \in [Task -> Seq(Seq(Task))]  BY <1>1 DEF Types
  <2> QED BY <1>1, <2>1, <2>2, <2>3 DEF Types
<1>4. Custody'
  <2>1. \A s \in Step : report[s] # <<>> => <<s, 0>> # t
    BY <1>1 DEF Custody, Over
  <2> QED BY <1>1, <1>2, <2>1 DEF Custody
<1>5. Apart'
  <2>1. \A u \in Task : Live(u)' => Live(u)  BY <1>1, <1>2 DEF Live
  <2> QED BY <1>1, <1>2, <2>1, ApartShrinks DEF Pushed
<1>6. InOrder'
  <2>1. \A u \in Task : Over(u) => Over(u)'  BY <1>1, <1>2 DEF Over
  <2>2. \A s \in Step : StepOver(s) => StepOver(s)'  BY <2>1 DEF StepOver
  <2>3. \A s \in Step : 1..(s - 1) \subseteq Step  BY DEF Step
  <2>4. ~overlap => \A q \in 1..(t[1] - 1) : StepOver(q)  BY <1>1 DEF InOrder
  <2> QED BY <1>1, <1>2, <2>2, <2>3, <2>4 DEF InOrder, Types
<1>7. OwnRows'  BY <1>1, <1>2, OwnKept
<1> QED BY <1>3, <1>4, <1>5, <1>6, <1>7

LEMMA CancelInv == ASSUME NEW s \in Step, IInv, Cancel(s) PROVE IInv'
<1> USE TaskFacts DEF IInv
<1>1. /\ cancelled' = cancelled \cup {s}
      /\ UNCHANGED <<overlap, pc, agg, pipe, inbox, report>>
  BY DEF Cancel
<1>2. PICK h \in Host : pc[<<s, h>>] # "away"  BY DEF Cancel
<1>3. Types'  BY <1>1 DEF Types
<1>4. Custody'  BY <1>1 DEF Custody
<1>5. Apart'
  <2>1. \A u \in Task : Live(u)' => Live(u)  BY <1>1 DEF Live
  <2> QED BY <1>1, <2>1, ApartShrinks
<1>6. InOrder'
  <2>1. ~overlap => \A q \in 1..(s - 1) : StepOver(q)  BY <1>2 DEF InOrder
  <2> QED BY <1>1, <2>1 DEF InOrder, StepOver, Over
<1>7. OwnRows'  BY <1>1 DEF OwnRows
<1> QED BY <1>3, <1>4, <1>5, <1>6, <1>7

LEMMA NextInv == IInv /\ [Next]_vars => IInv'
<1> SUFFICES ASSUME IInv, [Next]_vars PROVE IInv'  OBVIOUS
<1>1. CASE UNCHANGED vars
  <2> USE <1>1 DEF vars, IInv
  <2>1. Types' /\ Custody'  BY DEF Types, Custody
  <2>2. Apart'  BY ZenonT(60) DEF Apart, LiveApart, LiveAndSent, SentApart, RowsPushed, Live
  <2>3. InOrder' /\ OwnRows'  BY DEF InOrder, OwnRows, StepOver, Over
  <2> QED BY <2>1, <2>2, <2>3
<1>2. ASSUME NEW t \in Task, Progress(t) \/ Crash(t) PROVE IInv'
  <2>1. CASE Start(t) \/ Bind(t) \/ BindClash(t)  BY <2>1, MovesInv
  <2>2. CASE Measure(t)  BY <2>2, MeasureInv
  <2>3. CASE Receive(t)  BY <2>3, ReceiveInv
  <2>4. CASE Publish(t)  BY <2>4, PublishInv
  <2>5. CASE Send(t)  BY <2>5, SendInv
  <2>6. CASE CloseContext(t)  BY <2>6, CloseContextInv
  <2>7. CASE Killed(t) \/ Crash(t)  BY <2>7, DiesInv
  <2>8. ASSUME NEW s \in Step, Transmit(t, s) PROVE IInv'  BY <2>8, TransmitInv
  <2> QED BY <1>2, <2>1, <2>2, <2>3, <2>4, <2>5, <2>6, <2>7, <2>8 DEF Progress
<1>3. ASSUME NEW s \in Step, Cancel(s) PROVE IInv'  BY <1>3, CancelInv
<1> QED BY <1>1, <1>2, <1>3 DEF Next

----------------------------------------------------------------------------
(* The inductive invariant: a row is in the hands of one task or in one      *)
(* message, and a message reaches down to the host above the one it is for   *)
(* (zmq_transfer.cpp:281-325).                                               *)
THEOREM Invariance == Spec => []IInv
BY InitInv, NextInv, PTL DEF Spec

(* However many steps overlap on however many hosts, and whoever dies or is  *)
(* cancelled: a report has one row of each host, from the last to the first, *)
(* and no row is in two reports (zmq_transfer.cpp:281-325).                  *)
THEOREM Wholeness == Spec => []ReportsWhole
<1>1. IInv => ReportsWhole
  <2> SUFFICES ASSUME IInv, NEW s \in Step, report[s] # <<>>
               PROVE  /\ Len(report[s]) = N
                      /\ \A i \in 1..N : report[s][i][2] = N - i
                      /\ \A q \in Step \ {s} : ToSet(report[q]) \cap ToSet(report[s]) = {}
    BY DEF ReportsWhole
  <2> USE TaskFacts DEF IInv
  <2>1. RowsDownTo(report[s], 0)  BY DEF Custody
  <2>2. Len(report[s]) = N /\ \A i \in 1..N : report[s][i][2] = N - i
    BY <2>1 DEF RowsDownTo
  <2>3. ASSUME NEW q \in Step \ {s} PROVE ToSet(report[q]) \cap ToSet(report[s]) = {}
    <3>1. CASE report[q] = <<>>  BY <3>1 DEF ToSet
    <3>2. CASE report[q] # <<>>
      <4>1. Live(<<q, 0>>) /\ Live(<<s, 0>>)  BY <3>2 DEF Live
      <4>2. report[q] = agg[<<q, 0>>] /\ report[s] = agg[<<s, 0>>]
        BY <3>2 DEF Custody
      <4>3. <<q, 0>> # <<s, 0>>  OBVIOUS
      <4> QED BY <4>1, <4>2, <4>3 DEF Apart, LiveApart
    <3> QED BY <3>1, <3>2
  <2> QED BY <2>2, <2>3
<1> QED BY <1>1, Invariance, PTL

(* Nothing of a step survives its tasks: if the script waits for each step,  *)
(* whatever became of it, a report has rows of its own step only             *)
(* (zmq_transfer.cpp:284, 309-312).                                          *)
THEOREM Separation == Spec => []StepsApart
<1>1. IInv => StepsApart
  <2> SUFFICES ASSUME IInv, ~overlap, NEW s \in Step, NEW row \in ToSet(report[s])
               PROVE  row[1] = s
    BY DEF StepsApart
  <2>1. report[s] # <<>>  BY DEF ToSet
  <2>2. report[s] = agg[<<s, 0>>] /\ <<s, 0>> \in Task /\ <<s, 0>>[1] = s
    BY <2>1, TaskFacts DEF IInv, Custody
  <2> QED BY <2>2 DEF IInv, OwnRows
<1> QED BY <1>1, Invariance, PTL
=============================================================================
