------------------------------- MODULE Buckets -------------------------------
(***************************************************************************)
(* From cumulative readings to the rows of the CSV: what print_csv_tall()    *)
(* and print_csv_wide() compute from the time series of one host and NIC.    *)
(* Timestamps are aligned to buckets of the sampling interval; a row holds   *)
(* what a counter moved in its bucket.  There are three streams: the NIC     *)
(* counters (56 bits wide), the perf events and the NCCL profiler counters.  *)
(*                                                                           *)
(* The code folds over the samples after the run.  The fold looks only at    *)
(* the sample it is at and at what it kept of the one before, so here it     *)
(* advances with the sampling, one step per sample.                          *)
(***************************************************************************)
EXTENDS Integers

CONSTANTS
  Streams,     \* which streams are sampled
  Starts,      \* what the NIC counter may be at when the run starts
  Modulus,     \* the width of a NIC counter, 2^56 in the code
  MaxBucket,   \* bound: the last bucket
  MaxCount,    \* bound: stream -> events
  Failing,     \* the streams whose readings may fail: "nic", "perf"
  MaxFailures, \* bound: failed readings of the NIC counter
  ClockSteps   \* the system clock may be set back

ASSUME BucketsAssumption ==
  /\ Streams \subseteq {"nic", "perf", "nccl"}
  /\ Starts \subseteq Nat
  /\ Modulus \in Nat \ {0}
  /\ MaxBucket \in Nat /\ MaxFailures \in Nat /\ MaxCount \in [Streams -> Nat]
  /\ Failing \subseteq Streams \ {"nccl"}
  /\ ClockSteps \in BOOLEAN

Bucket == 0..MaxBucket

(* Markers, below every difference of an instance. *)
NoRow == -11    \* the map has no entry for the bucket
NA == -12       \* UINT64_MAX, the sentinel of the perf source
Absent == -13   \* no reading: of this source in this sample, or none so far

VARIABLES
  clock,  \* the bucket the system clock is in
  count,  \* stream -> events that happened
  prev,   \* stream -> the previous reading, in prev_counters and the like
  prevBucket,  \* stream -> its bucket, in prev_aligned_ts and the like
  row,    \* stream -> bucket -> what the row says
  last,   \* history: stream -> events at the last sample
  moved,  \* history: stream -> bucket -> the events between each sample of
          \* the bucket and the sample before it
  failures, \* failed readings of the NIC counter so far
  spoiled, \* history: the buckets a wrong NIC reading has to do with
  forward \* history: the clock was never set back

vars == <<clock, count, prev, prevBucket, row, last, moved, failures, spoiled,
          forward>>

(* The NIC has been counting; perf and NCCL counters start at zero. *)
Init ==
  /\ clock = 0
  /\ \E n \in Starts : count = [s \in Streams |-> IF s = "nic" THEN n ELSE 0]
  /\ prev = [s \in Streams |-> Absent]
  /\ prevBucket = [s \in Streams |-> Absent]
  /\ row = [s \in Streams |-> [b \in Bucket |-> NoRow]]
  /\ last = [s \in Streams |-> Absent]
  /\ moved = [s \in Streams |-> [b \in Bucket |-> 0]]
  /\ failures = 0
  /\ spoiled = {}
  /\ forward = TRUE

----------------------------------------------------------------------------
(* subtract_56_bit_integers; Subtract64 is the plain subtraction. *)
Subtract64(final, initial) == final - initial
Subtract56(final, initial) ==
  IF final >= initial THEN final - initial ELSE Modulus + final - initial

(* A sample's reading of each stream; failed are the streams whose reading   *)
(* fails.  read_counter_fd returns 0 then, read_event_value the sentinel.    *)
(* The NCCL source has no entity for a NIC none of whose channels was used.  *)
NicReading(failed) == IF "nic" \in failed THEN 0 ELSE count["nic"] % Modulus
PerfReading(failed) == IF "perf" \in failed THEN NA ELSE count["perf"]
NcclReading == IF count["nccl"] = 0 THEN Absent ELSE count["nccl"]

Reading(s, failed) ==
  CASE s = "nic"  -> NicReading(failed)
    [] s = "perf" -> PerfReading(failed)
    [] s = "nccl" -> NcclReading

(* A reading r against the previous one p.  DeltaBlind knows no sentinel.    *)
PerfDelta(r, p) == IF NA \in {r, p} THEN NA ELSE r - p
NcclDelta(r, p) == r - p

DeltaBlind(s, r, p) == IF s = "nic" THEN Subtract56(r, p) ELSE NcclDelta(r, p)
Delta(s, r, p) ==
  CASE s = "nic"  -> Subtract56(r, p)
    [] s = "perf" -> PerfDelta(r, p)
    [] s = "nccl" -> NcclDelta(r, p)

(* The accumulation of a delta in a row. *)
Plus(x, d) == IF NA \in {x, d} THEN NA ELSE x + d

(* What a reading makes of the row at the clock.  NewRowStored stores every  *)
(* delta as that of a new bucket, NewRowRaw takes the first reading for one. *)
NewRowRaw(s, r) == IF prev[s] = Absent THEN r ELSE Delta(s, r, prev[s])
NewRowStored(s, r) == IF prev[s] = Absent THEN 0 ELSE Delta(s, r, prev[s])
NewRow(s, r) ==
  CASE prev[s] = Absent -> 0
    [] prev[s] # Absent /\ prevBucket[s] = clock ->
         Plus(row[s][clock], Delta(s, r, prev[s]))
    [] prev[s] # Absent /\ prevBucket[s] # clock -> Delta(s, r, prev[s])

Moved(s) == IF last[s] = Absent THEN 0 ELSE count[s] - last[s]

(* The NIC's difference is between readings one of which is not what the     *)
(* counter was at.                                                           *)
Spoils(failed) ==
  /\ "nic" \in Streams /\ last["nic"] # Absent
  /\ \/ Reading("nic", failed) # count["nic"] % Modulus
     \/ prev["nic"] # last["nic"] % Modulus

(* One sample of every stream, at the clock; the readings of the streams in  *)
(* failed fail.                                                              *)
Sample ==
  \E failed \in SUBSET Failing :
    LET r(s) == Reading(s, failed)
    IN  /\ "nic" \in failed => failures < MaxFailures
        /\ prev' = [s \in Streams |-> IF r(s) = Absent THEN prev[s] ELSE r(s)]
        /\ prevBucket' =
             [s \in Streams |-> IF r(s) = Absent THEN prevBucket[s] ELSE clock]
        /\ row' = [s \in Streams |-> [b \in Bucket |->
             IF b = clock /\ r(s) # Absent THEN NewRow(s, r(s)) ELSE row[s][b]]]
        /\ moved' = [s \in Streams |-> [b \in Bucket |->
             IF b = clock THEN moved[s][b] + Moved(s) ELSE moved[s][b]]]
        /\ last' = count
        /\ failures' = IF "nic" \in failed THEN failures + 1 ELSE failures
        /\ spoiled' = IF Spoils(failed) THEN spoiled \cup {clock} ELSE spoiled
        /\ UNCHANGED <<clock, count, forward>>

(* The workload.  It starts after the first sample, and no NIC counter goes  *)
(* all the way round between two samples.                                    *)
Event(s) ==
  /\ count[s] < MaxCount[s]
  /\ s = "nic" /\ last[s] # Absent => count[s] + 1 - last[s] < Modulus
  /\ s # "nic" => last[s] # Absent
  /\ count' = [count EXCEPT ![s] = @ + 1]
  /\ UNCHANGED <<clock, prev, prevBucket, row, last, moved, failures, spoiled,
                 forward>>

Tick ==
  /\ clock < MaxBucket
  /\ clock' = clock + 1
  /\ UNCHANGED <<count, prev, prevBucket, row, last, moved, failures, spoiled,
                 forward>>

SetBack ==
  /\ ClockSteps
  /\ clock > 0
  /\ clock' = clock - 1
  /\ forward' = FALSE
  /\ UNCHANGED <<count, prev, prevBucket, row, last, moved, failures, spoiled>>

Next == Sample \/ Tick \/ SetBack \/ \E s \in Streams : Event(s)

Spec == Init /\ [][Next]_vars

----------------------------------------------------------------------------
(* Properties. *)

(* Types; no reading, delta or row is ever negative. *)
TypeOK ==
  /\ clock \in Bucket
  /\ count \in [Streams -> Nat]
  /\ prev \in [Streams -> Nat \cup {NA, Absent}]
  /\ prevBucket \in [Streams -> Bucket \cup {Absent}]
  /\ row \in [Streams -> [Bucket -> Nat \cup {NoRow, NA}]]
  /\ last \in [Streams -> Nat \cup {Absent}]
  /\ moved \in [Streams -> [Bucket -> Nat]]
  /\ failures \in 0..MaxFailures
  /\ spoiled \subseteq Bucket
  /\ forward \in BOOLEAN

(* The rows of a stream that no wrong reading has to do with.                *)
Sound(s) == IF s = "nic" THEN Bucket \ spoiled ELSE Bucket

(* What these rows say is what moved: no row, no movement.                   *)
RowsExact(s) ==
  \A b \in Sound(s) : row[s][b] # NA =>
    (IF row[s][b] = NoRow THEN 0 ELSE row[s][b]) = moved[s][b]

(* As long as the clock goes forward a NIC row is exactly what the counter   *)
(* moved up to the samples of its bucket, however often it wrapped around    *)
(* and whatever buckets were skipped, and nothing moved elsewhere.  A read   *)
(* that fails is taken for the reading 0, which passes for a wrap-around,    *)
(* but it spoils no other row than those of its own sample and of the next   *)
(* (counter_aggregation.cpp:882-925, 1490-1531, counter_collection.cpp:997). *)
NicRowsExact == "nic" \in Streams /\ forward => RowsExact("nic")

(* A perf row is exact or empty (NA), whichever readings failed: a sentinel  *)
(* is never differenced or added (counter_aggregation.cpp:1073-1102).        *)
PerfRowsExact == "perf" \in Streams /\ forward => RowsExact("perf")

(* Whatever the clock does, rows lose at most, they never invent: no row is  *)
(* more than what moved.  A clock that is set back loses: the fold compares  *)
(* a sample's bucket with the previous one only and overwrites the row of a  *)
(* bucket it comes back to (counter_aggregation.cpp:901-914); and what an    *)
(* NCCL counter moved up to the first sample that has it is in no row        *)
(* (1156-1157).                                                              *)
RowsInventNothing ==
  \A s \in Streams : \A b \in Sound(s) : row[s][b] <= moved[s][b]
=============================================================================
