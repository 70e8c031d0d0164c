----------------------------- MODULE MCBuckets -----------------------------
(* Instances of Buckets for TLC. *)
EXTENDS Buckets

MayFail == {"nic", "perf"}
AllStreams == {"nic", "perf", "nccl"}
Counts == [nic |-> 3, perf |-> 2, nccl |-> 2]
JustOne == {1}

(* The streams are computed apart from each other and share only the clock:  *)
(* in each behavior events come to one of them.                              *)
OneStreamMoves ==
  \E s \in Streams : \A t \in Streams \ {s} :
    count[t] = IF t = "nic" THEN 1 ELSE 0
=============================================================================
