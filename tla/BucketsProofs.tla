---------------------------- MODULE BucketsProofs ----------------------------
(***************************************************************************)
(* Proofs about Buckets, for every width of the counters, any number of      *)
(* buckets, samples and events: the types, that no row says more than what   *)
(* moved, and that the NIC and perf rows are exact as long as the clock goes *)
(* forward, but for the NIC rows that a failed read has to do with.          *)
(***************************************************************************)
EXTENDS Buckets, TLAPS

(* What is left of a reading after a sample, whatever failed and whatever    *)
(* the clock did: enough for every delta to be a number of events.           *)
Shape ==
  /\ TypeOK
  /\ \A s \in Streams :
       /\ prev[s] = Absent <=> prevBucket[s] = Absent
       /\ prev[s] # Absent => row[s][prevBucket[s]] # NoRow
       /\ s = "nic" /\ prev[s] # Absent => prev[s] \in 0..(Modulus - 1)
       /\ s # "nic" => prev[s] \in {Absent, NA} \/ prev[s] <= count[s]
       /\ s # "perf" => prev[s] # NA
       /\ last[s] = Absent \/ last[s] <= count[s]

(* Arithmetic of a counter that is Modulus wide. *)
LEMMA Remainder == \A n \in Nat : n % Modulus \in 0..(Modulus - 1)
  BY BucketsAssumption

LEMMA RemainderUnique ==
  ASSUME NEW n \in Nat, NEW q \in Int, NEW r \in 0..(Modulus - 1), n = Modulus * q + r
  PROVE  n % Modulus = r
  BY BucketsAssumption

(* The difference of two readings of the counter is what it moved, wrapped   *)
(* around or not, if that is less than its width.                            *)
LEMMA SubtractExact ==
  ASSUME NEW n \in Nat, NEW d \in 0..(Modulus - 1)
  PROVE  Subtract56((n + d) % Modulus, n % Modulus) = d
<1> DEFINE q == n \div Modulus
           r == n % Modulus
<1>1. n = Modulus * q + r /\ q \in Int /\ r \in 0..(Modulus - 1)
  BY BucketsAssumption
<1>. HIDE DEF q, r
<1>2. CASE r + d < Modulus
  <2>1. n + d = Modulus * q + (r + d) /\ r + d \in 0..(Modulus - 1)
    BY <1>1, <1>2, BucketsAssumption
  <2>2. (n + d) % Modulus = r + d
    BY <2>1, <1>1, RemainderUnique
  <2>. QED  BY <2>2, <1>1, BucketsAssumption DEF Subtract56, r
<1>3. CASE r + d >= Modulus
  <2>1. n + d = Modulus * (q + 1) + (r + d - Modulus) /\ r + d - Modulus \in 0..(Modulus - 1)
    BY <1>1, <1>3, BucketsAssumption
  <2>2. (n + d) % Modulus = r + d - Modulus
    BY <2>1, <1>1, RemainderUnique
  <2>. QED  BY <2>2, <1>1, <1>3, BucketsAssumption DEF Subtract56, r
<1>. QED  BY <1>1, <1>2, <1>3, BucketsAssumption

(* A NIC reading is always one, and its delta too. *)
LEMMA SubtractType ==
  ASSUME NEW f \in 0..(Modulus - 1), NEW i \in 0..(Modulus - 1)
  PROVE  Subtract56(f, i) \in 0..(Modulus - 1)
  BY BucketsAssumption DEF Subtract56

----------------------------------------------------------------------------
(* What a reading can be. *)
LEMMA ReadingType ==
  ASSUME TypeOK, NEW s \in Streams, NEW failed \in SUBSET Failing
  PROVE  /\ s = "nic" => /\ Reading(s, failed) \in 0..(Modulus - 1)
                         /\ s \notin failed => Reading(s, failed) = count[s] % Modulus
         /\ s = "perf" => Reading(s, failed) \in {NA, count[s]}
         /\ s = "nccl" => Reading(s, failed) \in {Absent, count[s]}
<1>1. s \in {"nic", "perf", "nccl"} /\ count[s] \in Nat
  BY BucketsAssumption DEF TypeOK
<1>2. count[s] % Modulus \in 0..(Modulus - 1) /\ 0 \in 0..(Modulus - 1)
  BY <1>1, Remainder, BucketsAssumption
<1>3. CASE s = "nic"
  BY <1>2, <1>3 DEF Reading, NicReading, PerfReading, NcclReading
<1>4. CASE s = "perf"
  BY <1>4 DEF Reading, NicReading, PerfReading, NcclReading
<1>5. CASE s = "nccl"
  BY <1>5 DEF Reading, NicReading, PerfReading, NcclReading
<1>. QED  BY <1>1, <1>3, <1>4, <1>5

(* A row that is written is a number of events, or NA. *)
LEMMA NewRowType ==
  ASSUME Shape, NEW s \in Streams, NEW failed \in SUBSET Failing,
         Reading(s, failed) # Absent
  PROVE  NewRow(s, Reading(s, failed)) \in Nat \cup {NA}
<1> DEFINE r == Reading(s, failed)
<1>1. /\ s \in {"nic", "perf", "nccl"} /\ count[s] \in Nat /\ clock \in Bucket
      /\ prev[s] \in Nat \cup {NA, Absent} /\ prevBucket[s] \in Bucket \cup {Absent}
      /\ row[s][clock] \in Nat \cup {NoRow, NA}
  BY BucketsAssumption DEF Shape, TypeOK
<1>2. /\ s = "nic" => r \in 0..(Modulus - 1)
      /\ s = "perf" => r \in {NA, count[s]}
      /\ s = "nccl" => r \in {Absent, count[s]}
  BY ReadingType DEF Shape
<1>3. r # Absent
  OBVIOUS
<1>. HIDE DEF r
<1>4. ASSUME prev[s] # Absent
      PROVE  Delta(s, r, prev[s]) \in Nat \cup {NA}
  <2>1. CASE s = "nic"
    <3>1. prev[s] \in 0..(Modulus - 1)
      BY <1>4, <2>1 DEF Shape
    <3>2. Subtract56(r, prev[s]) \in 0..(Modulus - 1)
      BY <3>1, <1>2, <2>1, SubtractType
    <3>. QED  BY <3>2, <2>1, BucketsAssumption DEF Delta, PerfDelta, NcclDelta
  <2>2. CASE s = "perf"
    <3>1. prev[s] \in {Absent, NA} \/ prev[s] <= count[s]
      BY <2>2 DEF Shape
    <3>. QED  BY <3>1, <1>1, <1>2, <1>4, <2>2 DEF Delta, PerfDelta, NcclDelta, NA, Absent
  <2>3. CASE s = "nccl"
    <3>1. (prev[s] \in {Absent, NA} \/ prev[s] <= count[s]) /\ prev[s] # NA
      BY <2>3 DEF Shape
    <3>. QED  BY <3>1, <1>1, <1>2, <1>3, <1>4, <2>3 DEF Delta, PerfDelta, NcclDelta, NA, Absent
  <2>. QED  BY <1>1, <2>1, <2>2, <2>3
<1>5. CASE prev[s] = Absent
  BY <1>5 DEF NewRow, r
<1>6. CASE prev[s] # Absent /\ prevBucket[s] = clock
  <2>1. row[s][clock] # NoRow
    BY <1>6 DEF Shape
  <2>2. NewRow(s, r) = Plus(row[s][clock], Delta(s, r, prev[s]))
    BY <1>6 DEF NewRow
  <2>3. \A x, d \in Nat \cup {NA} : Plus(x, d) \in Nat \cup {NA}
    BY DEF Plus, NA
  <2>. QED  BY <1>1, <1>4, <1>6, <2>1, <2>2, <2>3 DEF r
<1>7. CASE prev[s] # Absent /\ prevBucket[s] # clock
  <2>1. NewRow(s, r) = Delta(s, r, prev[s])
    BY <1>7 DEF NewRow
  <2>. QED  BY <1>4, <1>7, <2>1 DEF r
<1>. QED  BY <1>5, <1>6, <1>7

LEMMA InitShape == Init => Shape
  BY BucketsAssumption DEF Init, Shape, TypeOK, Bucket, Absent, NA, NoRow

(* A sample, stream by stream. *)
SampleOf(s, failed) ==
  LET r == Reading(s, failed)
  IN  /\ prev'[s] = IF r = Absent THEN prev[s] ELSE r
      /\ prevBucket'[s] = IF r = Absent THEN prevBucket[s] ELSE clock
      /\ \A b \in Bucket :
           /\ row'[s][b] = IF b = clock /\ r # Absent THEN NewRow(s, r) ELSE row[s][b]
           /\ moved'[s][b] = IF b = clock THEN moved[s][b] + Moved(s) ELSE moved[s][b]
      /\ last'[s] = count[s]
      /\ spoiled' = IF Spoils(failed) THEN spoiled \cup {clock} ELSE spoiled
      /\ clock' = clock /\ count' = count

LEMMA SampleSteps ==
  ASSUME Sample
  PROVE  \E failed \in SUBSET Failing : \A s \in Streams : SampleOf(s, failed)
<1>1. PICK failed \in SUBSET Failing :
        /\ prev' = [s \in Streams |-> IF Reading(s, failed) = Absent
                                      THEN prev[s] ELSE Reading(s, failed)]
        /\ prevBucket' = [s \in Streams |-> IF Reading(s, failed) = Absent
                                            THEN prevBucket[s] ELSE clock]
        /\ row' = [s \in Streams |-> [b \in Bucket |->
             IF b = clock /\ Reading(s, failed) # Absent
             THEN NewRow(s, Reading(s, failed)) ELSE row[s][b]]]
        /\ moved' = [s \in Streams |-> [b \in Bucket |->
             IF b = clock THEN moved[s][b] + Moved(s) ELSE moved[s][b]]]
        /\ last' = count
        /\ spoiled' = IF Spoils(failed) THEN spoiled \cup {clock} ELSE spoiled
        /\ UNCHANGED <<clock, count, forward>>
  BY DEF Sample
<1>2. \A s \in Streams : SampleOf(s, failed)
  BY <1>1 DEF SampleOf
<1>. QED  BY <1>2

LEMMA SampleKeepsTypes == Shape /\ Sample => TypeOK'
<1>. SUFFICES ASSUME Shape, Sample PROVE TypeOK'
  OBVIOUS
<1>1. TypeOK /\ clock' = clock /\ count' = count /\ last' = count /\ forward' = forward
  BY DEF Shape, Sample
<1>2. PICK failed \in SUBSET Failing :
        /\ prev' = [s \in Streams |-> IF Reading(s, failed) = Absent
                                      THEN prev[s] ELSE Reading(s, failed)]
        /\ prevBucket' = [s \in Streams |-> IF Reading(s, failed) = Absent
                                            THEN prevBucket[s] ELSE clock]
        /\ row' = [s \in Streams |-> [b \in Bucket |->
             IF b = clock /\ Reading(s, failed) # Absent
             THEN NewRow(s, Reading(s, failed)) ELSE row[s][b]]]
        /\ moved' = [s \in Streams |-> [b \in Bucket |->
             IF b = clock THEN moved[s][b] + Moved(s) ELSE moved[s][b]]]
        /\ "nic" \in failed => failures < MaxFailures
        /\ failures' = IF "nic" \in failed THEN failures + 1 ELSE failures
        /\ spoiled' = IF Spoils(failed) THEN spoiled \cup {clock} ELSE spoiled
  BY DEF Sample
<1>3. \A s \in Streams : Reading(s, failed) \in Nat \cup {NA, Absent}
  <2>. TAKE s \in Streams
  <2>1. s \in {"nic", "perf", "nccl"} /\ count[s] \in Nat
    BY <1>1, BucketsAssumption DEF TypeOK
  <2>. QED  BY <1>1, <2>1, ReadingType, BucketsAssumption
<1>4. \A s \in Streams : Moved(s) \in Nat
  <2>. TAKE s \in Streams
  <2>1. /\ count[s] \in Nat
        /\ last[s] \in Nat \cup {Absent}
        /\ last[s] = Absent \/ last[s] <= count[s]
    BY <1>1, BucketsAssumption DEF Shape, TypeOK
  <2>. QED  BY <2>1 DEF Moved
<1>5. clock \in Bucket /\ count \in [Streams -> Nat]
  BY <1>1 DEF TypeOK
<1>6. prev' \in [Streams -> Nat \cup {NA, Absent}]
  BY <1>1, <1>2, <1>3 DEF TypeOK
<1>7. prevBucket' \in [Streams -> Bucket \cup {Absent}]
  BY <1>1, <1>2, <1>5 DEF TypeOK
<1>8. row' \in [Streams -> [Bucket -> Nat \cup {NoRow, NA}]]
  <2>1. \A s \in Streams : Reading(s, failed) # Absent =>
          NewRow(s, Reading(s, failed)) \in Nat \cup {NA}
    BY NewRowType
  <2>. QED  BY <1>1, <1>2, <2>1 DEF TypeOK
<1>9. moved' \in [Streams -> [Bucket -> Nat]]
  BY <1>1, <1>2, <1>4 DEF TypeOK
<1>10. failures' \in 0..MaxFailures
  BY <1>1, <1>2, BucketsAssumption DEF TypeOK
<1>11. spoiled' \subseteq Bucket
  BY <1>1, <1>2, <1>5 DEF TypeOK
<1>. QED  BY <1>1, <1>5, <1>6, <1>7, <1>8, <1>9, <1>10, <1>11 DEF TypeOK

LEMMA SampleKeepsShape == Shape /\ Sample => Shape'
<1>. SUFFICES ASSUME Shape, Sample PROVE Shape'
  OBVIOUS
<1>1. TypeOK /\ TypeOK'
  BY SampleKeepsTypes DEF Shape
<1>2. PICK failed \in SUBSET Failing : \A s \in Streams :
           SampleOf(s, failed)
  BY SampleSteps
<1>3. SUFFICES ASSUME NEW s \in Streams
      PROVE  /\ prev'[s] = Absent <=> prevBucket'[s] = Absent
             /\ prev'[s] # Absent => row'[s][prevBucket'[s]] # NoRow
             /\ s = "nic" /\ prev'[s] # Absent => prev'[s] \in 0..(Modulus - 1)
             /\ s # "nic" => prev'[s] \in {Absent, NA} \/ prev'[s] <= count'[s]
             /\ s # "perf" => prev'[s] # NA
             /\ last'[s] = Absent \/ last'[s] <= count'[s]
  BY <1>1 DEF Shape
<1> DEFINE r == Reading(s, failed)
<1>4. /\ s = "nic" => r \in 0..(Modulus - 1)
      /\ s = "perf" => r \in {NA, count[s]}
      /\ s = "nccl" => r \in {Absent, count[s]}
      /\ s \in {"nic", "perf", "nccl"}
      /\ count[s] \in Nat /\ clock \in Bucket /\ clock # Absent
  <2>1. /\ s = "nic" => r \in 0..(Modulus - 1)
        /\ s = "perf" => r \in {NA, count[s]}
        /\ s = "nccl" => r \in {Absent, count[s]}
    BY <1>1, ReadingType
  <2>. QED  BY <1>1, <2>1, BucketsAssumption DEF TypeOK, Bucket, Absent
<1>5. r # Absent => NewRow(s, r) # NoRow
  <2>1. r # Absent => NewRow(s, r) \in Nat \cup {NA}
    BY NewRowType
  <2>. QED  BY <2>1 DEF NA, NoRow
<1>6. /\ prev'[s] = IF r = Absent THEN prev[s] ELSE r
      /\ prevBucket'[s] = IF r = Absent THEN prevBucket[s] ELSE clock
      /\ \A b \in Bucket : row'[s][b] =
           IF b = clock /\ r # Absent THEN NewRow(s, r) ELSE row[s][b]
      /\ last'[s] = count[s] /\ count' = count
  BY <1>2 DEF SampleOf
<1>. HIDE DEF r
<1>7. prevBucket[s] \in Bucket \cup {Absent}
  BY <1>1 DEF TypeOK
<1>8. CASE r = Absent
  BY <1>4, <1>6, <1>7, <1>8 DEF Shape
<1>9. CASE r # Absent
  BY <1>4, <1>5, <1>6, <1>9, BucketsAssumption DEF NA, Absent
<1>. QED  BY <1>8, <1>9

LEMMA EventKeepsShape ==
  ASSUME Shape, NEW e \in Streams, Event(e)
  PROVE  Shape'
<1>1. /\ \A s \in Streams : count'[s] = IF s = e THEN count[s] + 1 ELSE count[s]
      /\ \A s \in Streams : count[s] \in Nat /\ prev[s] \in Nat \cup {NA, Absent}
                            /\ last[s] \in Nat \cup {Absent}
      /\ count[e] < MaxCount[e]
      /\ UNCHANGED <<clock, prev, prevBucket, row, last, moved, failures, spoiled, forward>>
  BY DEF Shape, TypeOK, Event
<1>2. TypeOK'
  BY <1>1, BucketsAssumption DEF Shape, TypeOK, Event
<1>3. \A s \in Streams : count[s] <= count'[s] /\ count'[s] \in Nat /\ count[s] \in Nat
  BY <1>1, BucketsAssumption
<1>. QED  BY <1>1, <1>2, <1>3 DEF Shape, NA, Absent

LEMMA NextKeepsShape == Shape /\ [Next]_vars => Shape'
<1>. SUFFICES ASSUME Shape, [Next]_vars PROVE Shape'
  OBVIOUS
<1>1. CASE Sample
  BY <1>1, SampleKeepsShape
<1>2. CASE Tick
  BY <1>2, BucketsAssumption DEF Shape, TypeOK, Tick, Bucket
<1>3. CASE SetBack
  <2>1. clock' \in Bucket /\ UNCHANGED <<count, prev, prevBucket, row, last, moved, failures, spoiled>>
    BY <1>3, BucketsAssumption DEF Shape, TypeOK, SetBack, Bucket
  <2>2. forward' \in BOOLEAN
    BY <1>3 DEF SetBack
  <2>. QED  BY <2>1, <2>2 DEF Shape, TypeOK
<1>4. CASE \E s \in Streams : Event(s)
  BY <1>4, EventKeepsShape
<1>5. CASE UNCHANGED vars
  BY <1>5 DEF Shape, TypeOK, vars
<1>. QED  BY <1>1, <1>2, <1>3, <1>4, <1>5 DEF Next

(* Types hold whatever fails and whatever the clock does.                    *)
THEOREM Types == Spec => []TypeOK
<1>1. Shape => TypeOK
  BY DEF Shape
<1>. QED  BY <1>1, InitShape, NextKeepsShape, PTL DEF Spec

----------------------------------------------------------------------------
(* The previous reading is the count at the last sample, unless it failed or  *)
(* there was none; and less than a full turn of the NIC counter is still to  *)
(* be accounted for.  Both hold whatever the clock does.                     *)
Linked ==
  \A s \in Streams :
    /\ s = "nic" => (last[s] = Absent <=> prev[s] = Absent)
    /\ s = "nic" /\ last[s] # Absent => count[s] - last[s] < Modulus
    /\ s = "perf" => (last[s] = Absent <=> prev[s] = Absent)
    /\ s # "nic" => prev[s] \in {Absent, NA, last[s]}

(* Between two samples the delta is what a stream moved, unless one of the   *)
(* two readings is wrong.                                                    *)
LEMMA DeltaExact ==
  ASSUME Shape, Linked, NEW s \in Streams, NEW failed \in SUBSET Failing,
         prev[s] # Absent, Reading(s, failed) # Absent, s = "nic" => ~Spoils(failed)
  PROVE  Delta(s, Reading(s, failed), prev[s]) \in {NA, Moved(s)}
<1>1. /\ last[s] \in Nat \cup {Absent} /\ count[s] \in Nat
      /\ last[s] = Absent \/ last[s] <= count[s]
      /\ s \in {"nic", "perf", "nccl"}
  BY BucketsAssumption DEF Shape, TypeOK
<1>2. CASE s = "nic"
  <2> DEFINE d == count[s] - last[s]
  <2>1. /\ last[s] \in Nat /\ last[s] # Absent /\ Moved(s) = d
        /\ d \in 0..(Modulus - 1) /\ last[s] + d = count[s]
    BY <1>1, <1>2, BucketsAssumption DEF Linked, Moved
  <2>2. Reading(s, failed) = count[s] % Modulus /\ prev[s] = last[s] % Modulus
    BY <1>2, <2>1 DEF Spoils
  <2>. HIDE DEF d
  <2>3. Subtract56((last[s] + d) % Modulus, last[s] % Modulus) = d
    BY <2>1, SubtractExact
  <2>. QED  BY <1>2, <2>1, <2>2, <2>3 DEF Delta, PerfDelta, NcclDelta
<1>3. CASE s # "nic"
  <2>1. /\ s = "perf" => Reading(s, failed) \in {NA, count[s]}
        /\ s = "nccl" => Reading(s, failed) = count[s]
        /\ prev[s] \in {NA, last[s]} /\ (s = "nccl" => prev[s] # NA)
    BY <1>1, <1>3 DEF Reading, NicReading, PerfReading, NcclReading, Linked, Shape
  <2>2. Moved(s) = count[s] - last[s] \/ prev[s] = NA
    BY <2>1 DEF Moved
  <2>. QED  BY <1>1, <1>3, <2>1, <2>2 DEF Delta, PerfDelta, NcclDelta, NA
<1>. QED  BY <1>2, <1>3

LEMMA NextKeepsLinked == Shape /\ Linked /\ [Next]_vars => Linked'
<1>. SUFFICES ASSUME Shape, Linked, [Next]_vars PROVE Linked'
  OBVIOUS
<1>1. CASE Sample
  <2>1. PICK failed \in SUBSET Failing : \A s \in Streams : SampleOf(s, failed)
    BY <1>1, SampleSteps
  <2>. SUFFICES ASSUME NEW s \in Streams
       PROVE  /\ s = "nic" => (last'[s] = Absent <=> prev'[s] = Absent)
              /\ s = "nic" /\ last'[s] # Absent => count'[s] - last'[s] < Modulus
              /\ s = "perf" => (last'[s] = Absent <=> prev'[s] = Absent)
              /\ s # "nic" => prev'[s] \in {Absent, NA, last'[s]}
    BY DEF Linked
  <2> DEFINE r == Reading(s, failed)
  <2>2. /\ s = "nic" => r \in 0..(Modulus - 1)
        /\ s = "perf" => r \in {NA, count[s]}
        /\ s = "nccl" => r \in {Absent, count[s]}
        /\ s \in {"nic", "perf", "nccl"} /\ count[s] \in Nat
    BY ReadingType, BucketsAssumption DEF Shape, TypeOK
  <2>3. s = "nccl" /\ r = Absent => prev[s] \in {Absent, 0}
    <3>. SUFFICES ASSUME s = "nccl", r = Absent PROVE prev[s] \in {Absent, 0}
      OBVIOUS
    <3>1. count[s] = 0
      BY <2>2 DEF Reading, NcclReading, Absent
    <3>2. prev[s] = Absent \/ prev[s] <= count[s]
      BY DEF Shape
    <3>3. prev[s] \in Nat \cup {Absent}
      BY DEF Shape, TypeOK
    <3>. QED  BY <3>1, <3>2, <3>3
  <2>4. /\ prev'[s] = IF r = Absent THEN prev[s] ELSE r
        /\ last'[s] = count[s] /\ count'[s] = count[s]
    BY <2>1 DEF SampleOf
  <2>5. s = "nccl" /\ r = Absent => count[s] = 0
    BY <2>2 DEF Reading, NcclReading, Absent
  <2>. HIDE DEF r
  <2>. QED  BY <2>2, <2>3, <2>4, <2>5, BucketsAssumption DEF NA, Absent
<1>2. CASE Tick \/ SetBack
  BY <1>2 DEF Tick, SetBack, Linked
<1>3. ASSUME NEW e \in Streams, Event(e) PROVE Linked'
  <2>1. /\ \A s \in Streams : count'[s] = IF s = e THEN count[s] + 1 ELSE count[s]
        /\ e = "nic" /\ last[e] # Absent => count[e] + 1 - last[e] < Modulus
        /\ prev' = prev /\ last' = last
    BY <1>3 DEF Shape, TypeOK, Event
  <2>2. \A s \in Streams : s = "nic" /\ last'[s] # Absent => count'[s] - last'[s] < Modulus
    <3>. SUFFICES ASSUME NEW s \in Streams, s = "nic", last'[s] # Absent
         PROVE  count'[s] - last'[s] < Modulus
      OBVIOUS
    <3>1. /\ count[s] - last[s] < Modulus /\ last[s] # Absent
          /\ count[s] \in Nat /\ last[s] \in Nat
      BY <2>1 DEF Linked, Shape, TypeOK
    <3>2. CASE s = e
      BY <2>1, <3>1, <3>2
    <3>3. CASE s # e
      BY <2>1, <3>1, <3>3
    <3>. QED  BY <3>2, <3>3
  <2>. QED  BY <2>1, <2>2 DEF Linked
<1>4. CASE UNCHANGED vars
  BY <1>4 DEF Linked, vars
<1>. QED  BY <1>1, <1>2, <1>3, <1>4 DEF Next

LEMMA Linkage == Spec => [](Shape /\ Linked)
<1>1. Init => Shape /\ Linked
  BY InitShape, BucketsAssumption DEF Init, Linked, Absent, NA
<1>2. Shape /\ Linked /\ [Next]_vars => Shape' /\ Linked'
  BY NextKeepsShape, NextKeepsLinked
<1>. QED  BY <1>1, <1>2, PTL DEF Spec

----------------------------------------------------------------------------
(* Nothing invented.                                                         *)
LEMMA InitInventsNothing == Init => RowsInventNothing
  BY BucketsAssumption DEF Init, RowsInventNothing, Sound, NoRow

LEMMA NextInventsNothing ==
  Shape /\ Linked /\ RowsInventNothing /\ [Next]_vars => RowsInventNothing'
<1>. SUFFICES ASSUME Shape, Linked, RowsInventNothing, [Next]_vars
     PROVE  RowsInventNothing'
  OBVIOUS
<1>1. CASE Sample
  <2>1. PICK failed \in SUBSET Failing : \A s \in Streams : SampleOf(s, failed)
    BY <1>1, SampleSteps
  <2>. SUFFICES ASSUME NEW s \in Streams, NEW b \in Sound(s)'
       PROVE  row'[s][b] <= moved'[s][b]
    BY DEF RowsInventNothing
  <2> DEFINE r == Reading(s, failed)
             new == NewRow(s, r)
  <2>2. /\ row'[s][b] = IF b = clock /\ r # Absent THEN new ELSE row[s][b]
        /\ moved'[s][b] = IF b = clock THEN moved[s][b] + Moved(s) ELSE moved[s][b]
        /\ b \in Bucket /\ b \in Sound(s) /\ row[s][b] <= moved[s][b]
        /\ moved[s][b] \in Nat /\ row[s][b] \in Nat \cup {NoRow, NA}
        /\ s = "nic" /\ b = clock => ~Spoils(failed)
    <3>1. b \in Bucket /\ b \in Sound(s) /\ (s = "nic" /\ b = clock => ~Spoils(failed))
      BY <2>1 DEF SampleOf, Sound
    <3>. QED  BY <2>1, <3>1 DEF SampleOf, RowsInventNothing, Shape, TypeOK
  <2>3. Moved(s) \in Nat
    BY DEF Moved, Shape, TypeOK
  <2>4. ASSUME b = clock, r # Absent, prev[s] # Absent
        PROVE  Delta(s, r, prev[s]) \in {NA, Moved(s)}
    BY <2>2, <2>4, DeltaExact
  <2>. HIDE DEF r
  <2>5. b = clock /\ r # Absent => new <= moved[s][b] + Moved(s)
    BY <2>2, <2>3, <2>4 DEF NewRow, Plus, NA, NoRow
  <2>. HIDE DEF new
  <2>. QED  BY <2>2, <2>3, <2>5, BucketsAssumption DEF NoRow, NA
<1>2. CASE Tick \/ SetBack \/ (\E s \in Streams : Event(s)) \/ UNCHANGED vars
  <2>1. UNCHANGED <<row, moved, spoiled>>
    BY <1>2 DEF Tick, SetBack, Event, vars
  <2>. QED  BY <2>1 DEF RowsInventNothing, Sound
<1>. QED  BY <1>1, <1>2 DEF Next

(* No row of any stream says more than what moved, however the clock is set  *)
(* and whatever reads fail: but for the rows those reads have to do with.    *)
THEOREM NothingInvented == Spec => []RowsInventNothing
<1>. QED  BY Linkage, InitInventsNothing, NextInventsNothing, PTL DEF Spec

----------------------------------------------------------------------------
(* Exact rows, while the clock goes forward: buckets beyond the previous one *)
(* are untouched.                                                            *)
Tracked == {"nic", "perf"} \cap Streams

Exact ==
  \A s \in Tracked :
    /\ prevBucket[s] # Absent => prevBucket[s] <= clock
    /\ \A b \in Bucket : prevBucket[s] = Absent \/ prevBucket[s] < b =>
         row[s][b] = NoRow /\ moved[s][b] = 0
    /\ RowsExact(s)

LEMMA InitExact == Init => Exact
<1>. SUFFICES ASSUME Init, NEW s \in Tracked
     PROVE  /\ prevBucket[s] = Absent
            /\ \A b \in Bucket : row[s][b] = NoRow /\ moved[s][b] = 0
  BY DEF Exact, RowsExact, Sound
<1>. QED  BY DEF Init, Tracked

LEMMA SampleKeepsExact ==
  ASSUME Shape, Linked, Exact, Sample
  PROVE  Exact'
<1>1. PICK failed \in SUBSET Failing : \A s \in Streams : SampleOf(s, failed)
  BY SampleSteps
<1>2. SUFFICES ASSUME NEW s \in Tracked
      PROVE  /\ prevBucket'[s] # Absent => prevBucket'[s] <= clock'
             /\ \A b \in Bucket : prevBucket'[s] = Absent \/ prevBucket'[s] < b =>
                  row'[s][b] = NoRow /\ moved'[s][b] = 0
             /\ \A b \in Sound(s)' : row'[s][b] # NA =>
                  (IF row'[s][b] = NoRow THEN 0 ELSE row'[s][b]) = moved'[s][b]
  BY DEF Exact, RowsExact
<1> DEFINE r == Reading(s, failed)
           new == NewRow(s, r)
<1>3. /\ s \in Streams /\ s \in {"nic", "perf"} /\ count[s] \in Nat
      /\ clock \in Bucket /\ clock \in Nat
      /\ prevBucket[s] \in Bucket \cup {Absent} /\ Bucket \subseteq Nat
      /\ \A b \in Bucket : moved[s][b] \in Nat /\ row[s][b] \in Nat \cup {NoRow, NA}
      /\ last[s] = Absent \/ last[s] <= count[s]
      /\ last[s] \in Nat \cup {Absent}
  BY BucketsAssumption DEF Shape, TypeOK, Tracked, Bucket
<1>4. /\ s = "nic" => r \in 0..(Modulus - 1)
      /\ s = "perf" => r \in {NA, count[s]}
  BY <1>3, ReadingType DEF Shape
<1>5. r # Absent
  BY <1>3, <1>4, BucketsAssumption DEF NA, Absent
<1>6. /\ prev'[s] = r /\ prevBucket'[s] = clock
      /\ \A b \in Bucket :
           /\ row'[s][b] = IF b = clock THEN new ELSE row[s][b]
           /\ moved'[s][b] = IF b = clock THEN moved[s][b] + Moved(s) ELSE moved[s][b]
      /\ last'[s] = count[s] /\ clock' = clock /\ count' = count
      /\ spoiled' = IF Spoils(failed) THEN spoiled \cup {clock} ELSE spoiled
  BY <1>1, <1>3, <1>5 DEF SampleOf
<1>7. /\ prevBucket[s] = Absent <=> prev[s] = Absent
      /\ prevBucket[s] = Absent \/ (prevBucket[s] \in Nat /\ prevBucket[s] <= clock)
  <2>1. prevBucket[s] # Absent => prevBucket[s] <= clock
    BY DEF Exact
  <2>. QED  BY <1>3, <2>1 DEF Shape
<1>8. clock \in Sound(s)' =>
        /\ clock \in Sound(s)
        /\ prev[s] # Absent => Delta(s, r, prev[s]) \in {NA, Moved(s)}
  <2>. SUFFICES ASSUME clock \in Sound(s)'
       PROVE  /\ clock \in Sound(s)
              /\ prev[s] # Absent => Delta(s, r, prev[s]) \in {NA, Moved(s)}
    OBVIOUS
  <2>1. clock \in Sound(s) /\ (s = "nic" => ~Spoils(failed))
    BY <1>3, <1>6 DEF Sound
  <2>. QED  BY <1>3, <1>5, <2>1, DeltaExact
<1>. HIDE DEF r
<1>9. ASSUME clock \in Sound(s)'
      PROVE  new \in {NA, moved[s][clock] + Moved(s)}
  <2>1. CASE prev[s] = Absent
    <3>1. moved[s][clock] = 0 /\ Moved(s) = 0
      BY <1>3, <1>7, <2>1 DEF Exact, Linked, Moved
    <3>. QED  BY <2>1, <3>1 DEF NewRow
  <2>2. CASE prev[s] # Absent /\ prevBucket[s] = clock
    <3>1. row[s][clock] # NoRow
      BY <1>3, <2>2 DEF Shape
    <3>2. row[s][clock] \in {NA, moved[s][clock]}
      BY <1>3, <1>8, <1>9, <3>1 DEF Exact, RowsExact
    <3>3. new = Plus(row[s][clock], Delta(s, r, prev[s]))
      BY <2>2 DEF NewRow
    <3>. QED  BY <1>3, <1>8, <1>9, <2>2, <3>2, <3>3 DEF Plus
  <2>3. CASE prev[s] # Absent /\ prevBucket[s] # clock
    <3>1. prevBucket[s] < clock
      BY <1>3, <1>7, <2>3
    <3>2. moved[s][clock] = 0
      BY <1>3, <3>1 DEF Exact
    <3>3. Moved(s) \in Int
      BY <1>3 DEF Moved
    <3>4. new = Delta(s, r, prev[s])
      BY <2>3 DEF NewRow
    <3>. QED  BY <1>8, <1>9, <2>3, <3>2, <3>3, <3>4
  <2>. QED  BY <2>1, <2>2, <2>3
<1>10. Moved(s) \in Nat
  BY <1>3 DEF Moved
<1>. HIDE DEF new
<1>11. \A b \in Bucket : clock < b => row'[s][b] = NoRow /\ moved'[s][b] = 0
  <2>. SUFFICES ASSUME NEW b \in Bucket, clock < b
       PROVE  row'[s][b] = NoRow /\ moved'[s][b] = 0
    OBVIOUS
  <2>1. b # clock /\ (prevBucket[s] = Absent \/ prevBucket[s] < b)
    BY <1>3, <1>7
  <2>. QED  BY <1>6, <2>1 DEF Exact
<1>12. \A b \in Sound(s)' : row'[s][b] # NA =>
         (IF row'[s][b] = NoRow THEN 0 ELSE row'[s][b]) = moved'[s][b]
  <2>. TAKE b \in Sound(s)'
  <2>1. b \in Bucket /\ (b # clock => b \in Sound(s))
    BY <1>6 DEF Sound, Bucket
  <2>2. CASE b = clock
    BY <1>3, <1>6, <1>9, <1>10, <2>1, <2>2 DEF NoRow
  <2>3. CASE b # clock
    BY <1>6, <2>1, <2>3 DEF Exact, RowsExact
  <2>. QED  BY <2>2, <2>3
<1>13. prevBucket'[s] = clock /\ clock <= clock' /\ prevBucket'[s] # Absent
  BY <1>3, <1>6 DEF Absent
<1>. QED  BY <1>11, <1>12, <1>13

(* Once the clock was set back nothing is left to keep.                      *)
LEMMA NextKeepsExact ==
  ASSUME Shape, Linked, forward => Exact, [Next]_vars, forward'
  PROVE  Exact'
<1>1. CASE Sample
  BY <1>1, SampleKeepsExact DEF Sample
<1>2. CASE Tick
  <2>1. clock' = clock + 1 /\ UNCHANGED <<count, prev, prevBucket, row, last, moved, failures, spoiled>>
        /\ clock \in Nat /\ \A s \in Tracked : prevBucket[s] \in Nat \cup {Absent}
    BY <1>2, BucketsAssumption DEF Tick, Shape, TypeOK, Bucket, Tracked
  <2>2. Exact
    BY <1>2 DEF Tick
  <2>. QED  BY <2>1, <2>2 DEF Exact, RowsExact, Sound
<1>3. CASE SetBack
  BY <1>3 DEF SetBack
<1>4. CASE (\E s \in Streams : Event(s)) \/ UNCHANGED vars
  <2>1. UNCHANGED <<clock, prevBucket, row, moved, spoiled, forward>>
    BY <1>4 DEF Event, vars
  <2>. QED  BY <2>1 DEF Exact, RowsExact, Sound
<1>. QED  BY <1>1, <1>2, <1>3, <1>4 DEF Next

LEMMA ExactWhileForward == Spec => [](forward => Exact)
<1>1. Init => (forward => Exact)
  BY InitExact
<1>2. Shape /\ Linked /\ (forward => Exact) /\ [Next]_vars => (forward => Exact)'
  BY NextKeepsExact
<1>. QED  BY <1>1, <1>2, Linkage, PTL DEF Spec

(* The NIC rows of the CSV are exact for a counter of any width, with any    *)
(* number of wraps, samples per bucket and buckets without a sample, and     *)
(* whichever reads fail: but for the rows those reads have to do with.       *)
THEOREM NicExactness == Spec => []NicRowsExact
<1>1. (forward => Exact) => NicRowsExact
  BY DEF Exact, Tracked, NicRowsExact
<1>. QED  BY <1>1, ExactWhileForward, PTL

(* The perf rows are exact or empty, whichever readings fail.                *)
THEOREM PerfExactness == Spec => []PerfRowsExact
<1>1. (forward => Exact) => PerfRowsExact
  BY DEF Exact, Tracked, PerfRowsExact
<1>. QED  BY <1>1, ExactWhileForward, PTL
=============================================================================
