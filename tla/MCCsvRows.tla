------------------------------ MODULE MCCsvRows ------------------------------
(* Instances of CsvRows for TLC. *)
EXTENDS CsvRows

OneNic == {"hsn0"}
TwoLatencies == {1, 3}

(* A list of ten counters, in the order the printers expect, and the default *)
(* selection; what matters is where the four counters of the ratios are      *)
(* (counter_collection.cpp:827-863).                                         *)
Expected ==
  [i \in 1..10 |-> CASE i = 7  -> "posted_pkts"
                     [] i = 8  -> "posted_blocked"
                     [] i = 9  -> "nonposted_blocked"
                     [] i = 10 -> "nonposted_pkts"
                     [] OTHER -> "other"]
Default ==
  [i \in 1..35 |-> CASE i = 18 -> "posted_pkts"
                     [] i = 19 -> "posted_blocked"
                     [] i = 20 -> "nonposted_pkts"
                     [] i = 21 -> "nonposted_blocked"
                     [] OTHER -> "other"]
Short(n) == [i \in 1..n |-> Expected[i]]
Lengths == {Short(6), Short(7), Expected}
OnlyDefault == {Default}
=============================================================================
