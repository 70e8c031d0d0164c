------------------------------ MODULE MCReport ------------------------------
(* An instance of Report for TLC.                                            *)
EXTENDS Report

TwoNics == <<"hsn0", "hsn1">>

(* A counter, a level and a timeout counter.  As in the code, the full list  *)
(* names a counter twice and lacks one of the timeout counters,              *)
(* rh:spt_timeouts_o (counter_collection.cpp:821, 830, 868).                 *)
Full == <<"packets", "packets">>
Defaults == <<"timeouts_o", "in_use">>
InUse == {"in_use"}
OneTimeout == <<"timeouts_o">>

(* Not set; the levels that select or print something of their own; 9, and 3 *)
(* with something after it, which only main() takes for what they are.       *)
LevelTexts ==
  {Unset} \cup {[number |-> n, trailing |-> FALSE] : n \in {1, 3, 4, 5, 9}}
          \cup {[number |-> 3, trailing |-> TRUE]}
NameLists == {Unset, <<"all">>, <<"packets", "unknown", "packets">>, <<"unknown">>}
SomeFormats == {Unset, "json", "csv"}

(* The second node's second NIC lacks a file; events that no kernel counts,  *)
(* that one does, and, on nodes without traffic of NCCL, no entity.          *)
OneFile == <<{}, {<<"hsn1", "timeouts_o">>}, {}>>
RatioOfPackets == [blocked_ratio |-> "packets"]
Events == {"faults", "node-load-misses"}
SomePerf == <<[faults |-> 4], <<>>, [faults |-> 3]>>
SomeLatencies == <<1, 0, 2>>
Channel(n) == [count |-> n, bytes |-> 8 * n, max |-> n]
SomeChannels ==
  <<[ch \in {} |-> Channel(ch)], [ch \in 0..2 |-> Channel(IF ch = 1 THEN 2 ELSE 0)],
    [ch \in 0..2 |-> Channel(ch)]>>

(* Node 1: both NICs about to wrap around, node 2: one, node 3: none.        *)
FullAndFresh ==
  << [n \in ToSet(TwoNics) |-> 2], [n \in ToSet(TwoNics) |-> IF n = "hsn0" THEN 2 ELSE 0],
     [n \in ToSet(TwoNics) |-> 0] >>
=============================================================================
