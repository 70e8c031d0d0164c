------------------------------- MODULE CsvRows -------------------------------
(***************************************************************************)
(* The rows of the two CSV printers, print_csv_tall() and print_csv_wide():  *)
(* which buckets of time become rows, which latency and which repeat number  *)
(* each row carries, which host's and NIC's counters it holds and what the   *)
(* ratio columns divide.  Both read the same aggregate and neither calls the *)
(* other.  The values of the counters are in Buckets; here a row has them or *)
(* not, and the two that are divided by may be 0 in it or not.               *)
(*                                                                           *)
(* Each node captures the latencies its command prints and, in detailed      *)
(* mode, samples.  The time of a latency is what the command prints in its   *)
(* line, that of a sample the system clock's; neither is kept from going     *)
(* back.  A state is the aggregate of a run that ends there, and the         *)
(* printers are functions of it.  Without detailed mode no sample is taken.  *)
(* Every node has the same NICs, and has one.                                *)
(***************************************************************************)
EXTENDS Integers, SequencesExt, FiniteSetsExt

CONSTANTS
  Hosts,       \* the nodes are 1..Hosts, in the order of their names
  Nic,         \* the NICs of a node
  Micros,      \* the latencies a command prints
  Selections,  \* the lists of counters that may be selected
  MaxBucket,   \* bound: the last bucket of time
  MaxLines,    \* bound: the latencies a command prints
  None         \* an empty field

Host == 1..Hosts
Bucket == 0..MaxBucket

ASSUME CsvAssumption ==
  /\ Hosts \in Nat \ {0} /\ MaxBucket \in Nat /\ MaxLines \in Nat
  /\ Nic # {} /\ None \notin Host
  /\ Micros \subseteq Nat \ {0}
  /\ \A s \in Selections :
       s \in Seq(STRING) /\ s # <<>> /\ \A i, j \in DOMAIN s : None # <<s[i], s[j]>>

VARIABLES
  series,     \* the nodes in the order of agg.time_series, the last node first
  selection,  \* counter_names
  sampled,    \* the buckets and hosts that have a sample
  lines       \* host -> its latency_timestamps: bucket and latency

vars == <<series, selection, sampled, lines>>

(* The nodes are in the order of the node list, which need not be that of    *)
(* their names.                                                              *)
Init ==
  /\ series \in {s \in [Host -> Host] : \A h \in Host : \E i \in Host : s[i] = h}
  /\ selection \in Selections
  /\ sampled = {}
  /\ lines = [h \in Host |-> <<>>]

Sample(h, b) ==
  /\ sampled' = sampled \cup {<<b, h>>}
  /\ UNCHANGED <<series, selection, lines>>

(* run_command() captures a line; its last token is the time, and the number *)
(* of lines so far is its repeat.                                            *)
Line(h, b, us) ==
  /\ Len(lines[h]) < MaxLines
  /\ lines' = [lines EXCEPT ![h] = Append(@, [bucket |-> b, us |-> us])]
  /\ UNCHANGED <<series, selection, sampled>>

Next ==
  \E h \in Host, b \in Bucket : Sample(h, b) \/ \E us \in Micros : Line(h, b, us)

Spec == Init /\ [][Next]_vars

----------------------------------------------------------------------------
(* Latencies of a bucket: of one node, and of all.  A vector of latencies is *)
(* a function from the lines, of a host and by number, that had them: what   *)
(* is made of it does not depend on its order.                               *)

LinesIn(hosts, b) ==
  {l \in hosts \X (1..MaxLines) :
     l[2] \in DOMAIN lines[l[1]] /\ lines[l[1]][l[2]].bucket = b}
LatenciesOf(hosts, b) == [l \in LinesIn(hosts, b) |-> lines[l[1]][l[2]].us]

Average(f) == <<SumFunction(f), Cardinality(DOMAIN f)>>   \* as a fraction
Highest(f) == Max({0} \cup Range(f))

NodeLatencies(h, b) == LatenciesOf({h}, b)
GlobalLatencies(b) == LatenciesOf(Host, b)
HasLatency(h, b) == LinesIn({h}, b) # {}

LatencyBuckets == {b \in Bucket : LinesIn(Host, b) # {}}

(* The repeat numbers of a bucket, in the order of the series.               *)
(* RepeatsPerBucket starts counting anew in each bucket.                     *)
RepeatsPerBucket(b) ==
  FlattenSeq([i \in Host |->
    [k \in 1..Cardinality(LinesIn({series[i]}, b)) |-> k]])
Numbers(h, b) ==
  FlattenSeq([i \in DOMAIN lines[h] |->
    IF lines[h][i].bucket = b THEN <<i>> ELSE <<>>])
Repeats(b) == FlattenSeq([i \in Host |-> Numbers(series[i], b)])

----------------------------------------------------------------------------
(* print_csv_tall(). *)

TallRepeat(b) == IF Repeats(b) = <<>> THEN 0 ELSE Head(Repeats(b))

(* The latency is one for all nodes; TallLatencyLast keeps only that of the  *)
(* last node with a latency in the bucket.                                   *)
TallLatencyLast(b) ==
  IF b \in LatencyBuckets
  THEN Average(NodeLatencies(Max({h \in Host : HasLatency(h, b)}), b)) ELSE None
TallLatency(b) ==
  IF b \in LatencyBuckets THEN Average(GlobalLatencies(b)) ELSE None
TallMax(b) ==
  IF b \in LatencyBuckets THEN Highest(GlobalLatencies(b)) ELSE None

(* The rows: bucket, host and NIC.  Once there are latencies only their      *)
(* buckets are printed; a row without host and NIC stands for a latency when *)
(* none of them has a sample.                                                *)
SampleRows == {row \in Bucket \X Host \X Nic : <<row[1], row[2]>> \in sampled}
Filtered ==
  IF LatencyBuckets = {} THEN SampleRows
  ELSE {row \in SampleRows : row[1] \in LatencyBuckets}
TallRows ==
  IF Filtered = {} THEN {<<b, None, None>> : b \in LatencyBuckets} ELSE Filtered

(* Position i of the counters, from 0 as in the code, and a quotient.  The   *)
(* values at the positions of "zero" are 0 in the row, which matters for 6   *)
(* and 9, those that are divided by.                                         *)
At(i) == IF i < Len(selection) THEN selection[i + 1] ELSE "beyond the end"
Quotient(i, j) == <<At(i), At(j)>>

(* posted_blocked_ratio and nonposted_blocked_ratio: "Empty for NA", as in a *)
(* row that stands for a latency and has no counters.                        *)
TallRatios(row, zero) ==
  LET enough == row[2] # None /\ Len(selection) >= 10
  IN  << IF enough /\ 6 \notin zero THEN Quotient(7, 6) ELSE None,
         IF enough /\ 9 \notin zero THEN Quotient(8, 9) ELSE None >>

----------------------------------------------------------------------------
(* print_csv_wide(). *)

(* ts_first_repeat_map; WideRepeatLast keeps the last number of a bucket.    *)
WideRepeatLast(b) == FoldLeft(LAMBDA old, r : r, 0, Repeats(b))
WideRepeat(b) ==
  FoldLeft(LAMBDA old, r : IF old = 0 THEN r ELSE old, 0, Repeats(b))

(* The first node, by name, with a latency in the bucket. *)
WideHost(b) == Min({h \in Host : HasLatency(h, b)})
WideLatency(b) ==
  IF b \in LatencyBuckets THEN Average(NodeLatencies(WideHost(b), b)) ELSE None
WideMax(b) ==
  IF b \in LatencyBuckets THEN Highest(NodeLatencies(WideHost(b), b)) ELSE None

(* filtered_timestamps. *)
WideRows ==
  IF LatencyBuckets # {} THEN LatencyBuckets
  ELSE {b \in Bucket : \E h \in Host : <<b, h>> \in sampled}

(* The columns of a counter, and those of a row that are not empty. *)
WideColumns == {column \in Host \X Nic : \E b \in Bucket : <<b, column[1]>> \in sampled}
WideCells(b) == {column \in WideColumns : <<b, column[1]>> \in sampled}

Zero == <<"0.0">>

(* The ratios of a column in a row: 0.0, which "ensures numeric type", also  *)
(* where the column is empty.  The first divides as of seven counters, the   *)
(* last of which is before the position it divides.                          *)
WideRatios(b, column, zero) ==
  LET shown == column \in WideCells(b)
  IN  << IF shown /\ Len(selection) >= 7 /\ 6 \notin zero
         THEN Quotient(7, 6) ELSE Zero,
         IF shown /\ Len(selection) >= 10 /\ 9 \notin zero
         THEN Quotient(8, 9) ELSE Zero >>

----------------------------------------------------------------------------
(* Properties. *)

(* At most one node's command prints latencies, the usual case: "latency is  *)
(* the same for all nodes; only one node typically reports it"               *)
(* (counter_aggregation.cpp:816).                                            *)
OneReporter == \A g, h \in Host : <<>> \in {lines[g], lines[h]} \/ g = h

(* What the wide table may show as ratio k where the tall one shows "tall".  *)
WideRatiosFor(k, tall) ==
  IF tall # None THEN {tall}
  ELSE {Zero} \cup (IF k = 1 /\ Len(selection) \in 7..9 THEN {Quotient(7, 6)} ELSE {})

(* The two printers tell the same story: every tall row has its wide row,    *)
(* with the same repeat number and, if one node reports, the same latencies; *)
(* the counters of a bucket are printed for the same hosts and NICs; and the *)
(* wide printer has a row more only for a latency in a bucket without a      *)
(* sample.  What the ratio columns show is not the same: a quotient of the   *)
(* tall table is in the wide one, but an empty field is 0.0 there or, of     *)
(* seven to nine counters, a quotient (counter_aggregation.cpp:788-1299,     *)
(* 1379-1973).                                                               *)
PrintersAgree ==
  /\ \A row \in TallRows :
       LET b == row[1] IN
         /\ b \in WideRows
         /\ TallRepeat(b) = WideRepeat(b)
         /\ OneReporter => TallLatency(b) = WideLatency(b) /\ TallMax(b) = WideMax(b)
         /\ \A zero \in SUBSET {6, 9}, k \in {1, 2} :
              WideRatios(b, <<row[2], row[3]>>, zero)[k] \in
                WideRatiosFor(k, TallRatios(row, zero)[k])
  /\ \A b \in WideRows :
       /\ b \in LatencyBuckets \/ WideCells(b) # {}
       /\ {row \in TallRows : row[1] = b} =
            IF WideCells(b) = {} /\ Filtered # {} THEN {}
            ELSE IF WideCells(b) = {} THEN {<<b, None, None>>}
            ELSE {<<b, column[1], column[2]>> : column \in WideCells(b)}

(* No latency is dropped from the averages of the buckets or enters them     *)
(* twice, whichever nodes report: weighted with their counts they add up to  *)
(* everything that was measured (counter_aggregation.cpp:806-835).           *)
LatenciesConserved ==
  LET all == UNION {{<<h, i>> : i \in DOMAIN lines[h]} : h \in Host}
      summed(i) == SumFunction([b \in LatencyBuckets |-> TallLatency(b)[i]])
  IN  /\ summed(1) = SumFunction([l \in all |-> lines[l[1]][l[2]].us])
      /\ summed(2) = Cardinality(all)

(* The times that a command prints do not go back. *)
InOrder ==
  \A h \in Host : \A i \in DOMAIN lines[h] : \A j \in 1..i :
    lines[h][j].bucket <= lines[h][i].bucket

(* If one node reports, no repeat number is 0, which stands for the time     *)
(* "before any allreduce calls" (counter_aggregation.h:20), and no two rows  *)
(* have the same, whatever times the command prints; if those do not go      *)
(* back, the numbers rise from row to row.                                   *)
RepeatsRise ==
  OneReporter =>
    \A b, c \in LatencyBuckets :
      /\ WideRepeat(b) > 0
      /\ b # c => WideRepeat(b) # WideRepeat(c)
      /\ InOrder /\ b < c => WideRepeat(b) < WideRepeat(c)

(* "Index 6: parbs_tarb_pi_posted_pkts" and so on                            *)
(* (counter_aggregation.cpp:1206-1209): the ratio columns divide the         *)
(* counters they are named after.                                            *)
RatiosOfNamedCounters ==
  \A row \in TallRows, zero \in SUBSET {6, 9} :
    /\ TallRatios(row, zero)[1] \in {None, <<"posted_blocked", "posted_pkts">>}
    /\ TallRatios(row, zero)[2] \in {None, <<"nonposted_blocked", "nonposted_pkts">>}
=============================================================================
