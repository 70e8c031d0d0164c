------------------------------- MODULE Report -------------------------------
(***************************************************************************)
(* From the counters of the NICs to the summary: main() selects counters,    *)
(* each node takes its total readings, in detailed mode its samples          *)
(* (Readings), and the latencies its command prints, and appends them to     *)
(* what it received; the aggregate goes to the next node as a message        *)
(* (Wire), and the first node prints (Summary).                              *)
(*                                                                           *)
(* The nodes share nothing but the message, so here one is measured after    *)
(* the other, in the order of the chain; Chain has their interleavings.      *)
(***************************************************************************)
EXTENDS Wire, Readings, Summary

CONSTANTS
  Hosts,      \* the number of nodes; node h has the procid h - 1
  NicOrder,   \* the NICs of a node, as they are sorted
  Starts,     \* node -> NIC -> what its counters are at when it starts
  Missing,    \* node -> the counters, of a NIC, whose files it cannot open
  Perf,       \* node -> the perf events its kernel counts, and how often
  Lines,      \* node -> how many latencies its command prints
  Channels,   \* node -> NCCL channel -> what its profiler counted
  Levels,     \* counters that are levels: they fall as well (rh:sct_in_use)
  Texts,      \* what GATHER_CXI_COUNTERS_LEVEL may be
  Lists,      \* what GATHER_CXI_COUNTERS may be
  Formats,    \* what GATHER_CXI_OUTPUT_FORMAT may be
  MaxEvents,  \* bound: events that move a counter, and readings that fail
  MaxSamples, \* bound: samples of the sampling thread
  MaxFailures \* bound: readings of a counter that fail

Host == 1..Hosts
Nic == ToSet(NicOrder)
Counter == ToSet(AllNames) \cup ToSet(DefaultNames) \cup ToSet(TimeoutNames)

ASSUME ReportAssumption ==
  /\ Hosts \in Nat \ {0}
  /\ MaxEvents \in Nat /\ MaxSamples \in Nat
  /\ MaxFailures \in Nat
  /\ MaxEvents < Modulus
  /\ Levels \subseteq Counter
  /\ IsFiniteSet(Nic)
  /\ Starts \in [Host -> [Nic -> Nat]] /\ Lines \in [Host -> Nat]
  /\ Missing \in [Host -> SUBSET (Nic \X Counter)]
  /\ {AllNames, DefaultNames, TimeoutNames} \subseteq Seq(Counter) \ {<<>>}
  /\ \A list \in Lists \ {Unset} : list \in Seq(ToSet(list))
  /\ IsFiniteSet(DOMAIN Copies) /\ DOMAIN Copies \cap Counter = {}
  /\ IsFiniteSet(PerfEvents) /\ PerfEvents # {}
  /\ \A h \in Host : IsFiniteSet(DOMAIN Channels[h])

VARIABLES
  host,      \* the node that is measured
  pc,        \* where it is in node_handler()
  detailed,  \* GATHER_CXI_DETAILED
  names,     \* counter_names
  count,     \* NIC -> counter -> events since the counter was 0
  start,     \* the same at the total initial reading (history)
  initial,   \* its total initial reading
  series,    \* its node_ts
  agg,       \* the aggregate it holds
  message,   \* the message on its way to the next node
  pushed,    \* history: what the nodes appended
  moved,     \* history: node -> NIC -> counter -> how far it moved between
             \* the total readings, if it can be read
  sampled,   \* history: the same between the first and the last sample
  failed,    \* history: the readings that failed
  events     \* events so far

vars == <<host, pc, detailed, names, count, start, initial, series, agg,
          message, pushed, moved, sampled, failed, events>>

Nothing == [rows |-> <<>>, series |-> <<>>]
NewSeries(h) ==
  [hostname |-> h, procid |-> h - 1, time |-> 0, samples |-> <<>>,
   latencies |-> <<>>, repeats |-> <<>>]
Untouched == [n \in Nic |-> [c \in Counter |-> 0]]

(* The counters of a node, selected or not, which have been counting for     *)
(* long.                                                                     *)
Counting(h) == [n \in Nic |-> [c \in Counter |-> Starts[h][n]]]

Init ==
  /\ host = Hosts /\ pc = "start"
  /\ detailed \in BOOLEAN
  /\ names = AllNames
  /\ count = Counting(Hosts)
  /\ start = Untouched /\ initial = <<>>
  /\ series = NewSeries(Hosts)
  /\ agg = Nothing /\ message = <<>>
  /\ pushed = Nothing
  /\ moved = [h \in Host |-> Untouched]
  /\ sampled = [h \in Host |-> Untouched]
  /\ failed = {}
  /\ events = 0

Goes(from, to) == pc = from /\ pc' = to

(* main(): at level 0 nothing is run.  The environment of all nodes is one.  *)
Start ==
  /\ pc = "start"
  /\ \E text \in Texts, list \in Lists :
       IF MainLevel(text) <= 0
       THEN pc' = "refused" /\ UNCHANGED names
       ELSE pc' = "initial" /\ names' = CounterFilter(MainLevel(text), list)
  /\ UNCHANGED <<host, detailed, count, start, initial, series, agg, message,
                 pushed, moved, sampled, failed, events>>

(* What a reading of the node's NICs gets, if it fails at the NICs and       *)
(* places of failing.                                                        *)
Failures ==
  {failing \in SUBSET (Nic \X DOMAIN names) :
     /\ Cardinality(failed) + Cardinality(failing) <= MaxFailures
     /\ events + Cardinality(failed) + Cardinality(failing) <= MaxEvents}
Failed(reading, failing) == {<<reading, host, f[1], names[f[2]]>> : f \in failing}
Readable(n) == {c \in Counter : <<n, c>> \notin Missing[host]}
Files(failing) ==
  [n \in Nic |->
     [i \in {j \in DOMAIN names : names[j] \in Readable(n) /\ <<n, j>> \notin failing} |->
        count[n][names[i]] % Modulus]]
OfSources(failing) ==
  Present([nic |-> NicSource(Files(failing), names), perf |-> PerfSource(host, Perf[host]),
           nccl |-> NcclSource(Channels[host], NicOrder)])

(* How far the counters moved since from. *)
Since(from) ==
  [n \in Nic |-> [c \in Counter |->
     IF c \in Readable(n) THEN count[n][c] - from[n][c] ELSE 0]]

ReadInitial ==
  /\ Goes("initial", IF detailed THEN "first" ELSE "command")
  /\ \E failing \in Failures :
       /\ initial' = Total(Files(failing), names)
       /\ failed' = failed \cup Failed("initial", failing)
  /\ start' = count
  /\ UNCHANGED <<host, detailed, names, count, series, agg, message, pushed,
                 moved, sampled, events>>

(* The main thread reads the NICs apart from the sources, the sampling       *)
(* thread takes their counters from the nic source, if it left a trace.      *)
NicsOf(sources) == IF "nic" \in DOMAIN sources THEN sources["nic"] ELSE <<>>
Sampled(nics, sources) ==
  series' = [series EXCEPT !.samples =
    Append(@, [timestamp |-> Len(@), nics |-> nics, sources |-> sources])]

FirstSample ==
  /\ Goes("first", "command")
  /\ \E failing, missed \in Failures :
       /\ Sampled(PerNic(Files(failing), names), OfSources(missed))
       /\ failed' = failed \cup Failed("first", failing) \cup Failed("sources", missed)
  /\ sampled' = [sampled EXCEPT ![host] = count]
  /\ UNCHANGED <<host, detailed, names, count, start, initial, agg, message,
                 pushed, moved, events>>

(* While the command runs. *)
Sample ==
  /\ pc = "command" /\ detailed
  /\ Len(series.samples) <= MaxSamples
  /\ \E failing \in Failures :
       LET sources == OfSources(failing)
       IN  /\ Sampled(CountersByName(NicsOf(sources), names), sources)
           /\ failed' = failed \cup Failed("sample", failing)
  /\ UNCHANGED <<host, pc, detailed, names, count, start, initial, agg,
                 message, pushed, moved, sampled, events>>

(* The latencies in the command's output come with its end. *)
CommandEnds ==
  /\ Goes("command", IF detailed THEN "last" ELSE "final")
  /\ series' = [series EXCEPT !.time = host,
                              !.latencies = [i \in 1..Lines[host] |-> <<i, host>>],
                              !.repeats = [i \in 1..Lines[host] |-> i]]
  /\ UNCHANGED <<host, detailed, names, count, start, initial, agg, message,
                 pushed, moved, sampled, failed, events>>

LastSample ==
  /\ Goes("last", "final")
  /\ \E failing, missed \in Failures :
       /\ Sampled(PerNic(Files(failing), names), OfSources(missed))
       /\ failed' = failed \cup Failed("last", failing) \cup Failed("sources", missed)
  /\ sampled' = [sampled EXCEPT ![host] = Since(@)]
  /\ UNCHANGED <<host, detailed, names, count, start, initial, agg, message,
                 pushed, moved, events>>

(* The final reading, and the pushes onto the aggregate.  PushRowOnly leaves *)
(* out the series, as if it had none without samples.                        *)
Row(final) ==
  [hostname |-> host, procid |-> host - 1, initial |-> initial, final |-> final,
   time |-> series.time]
PushRowOnly(a, final) ==
  [rows |-> Append(a.rows, Row(final)),
   series |-> IF detailed THEN Append(a.series, series) ELSE a.series]
Push(a, final) == [rows |-> Append(a.rows, Row(final)), series |-> Append(a.series, series)]

ReadFinal ==
  /\ Goes("final", IF host = 1 THEN "publish" ELSE "send")
  /\ \E failing \in Failures :
       LET final == Total(Files(failing), names)
       IN  /\ agg' = Push(agg, final) /\ pushed' = Push(pushed, final)
           /\ failed' = failed \cup Failed("final", failing)
  /\ moved' = [moved EXCEPT ![host] = Since(start)]
  /\ UNCHANGED <<host, detailed, names, count, start, initial, series, message,
                 sampled, events>>

Send ==
  /\ Goes("send", "sent")
  /\ message' = Serialize(agg)
  /\ UNCHANGED <<host, detailed, names, count, start, initial, series, agg,
                 pushed, moved, sampled, failed, events>>

(* The next node, from its start on. *)
Receive ==
  /\ Goes("sent", "initial")
  /\ host' = host - 1
  /\ count' = Counting(host - 1)
  /\ agg' = Deserialize(message, Len(names))
  /\ start' = Untouched /\ initial' = <<>> /\ series' = NewSeries(host - 1)
  /\ message' = <<>>
  /\ UNCHANGED <<detailed, names, pushed, moved, sampled, failed, events>>

(* A NIC counts, all the time; what it counts before the first and after the *)
(* last reading nobody sees.                                                 *)
Running ==
  /\ pc \in {"first", "command", "last", "final"}
  /\ events + Cardinality(failed) < MaxEvents
Event(n, c) ==
  /\ Running
  /\ count' = [count EXCEPT ![n][c] = @ + 1]
  /\ events' = events + 1
  /\ UNCHANGED <<host, pc, detailed, names, start, initial, series, agg,
                 message, pushed, moved, sampled, failed>>
Fall(n, c) ==
  /\ Running /\ count[n][c] > 0
  /\ count' = [count EXCEPT ![n][c] = @ - 1]
  /\ events' = events + 1
  /\ UNCHANGED <<host, pc, detailed, names, start, initial, series, agg,
                 message, pushed, moved, sampled, failed>>

Next ==
  \/ Start \/ ReadInitial \/ FirstSample \/ Sample \/ CommandEnds \/ LastSample
  \/ ReadFinal \/ Send \/ Receive
  \/ \E n \in Nic, c \in Counter : Event(n, c)
  \/ \E n \in Nic, c \in Levels : Fall(n, c)

Spec == Init /\ [][Next]_vars

----------------------------------------------------------------------------
(* Properties. *)

(* Types; every row has one value for each selected counter.                 *)
TypeOK ==
  /\ host \in Host
  /\ pc \in {"start", "refused", "initial", "first", "command", "last", "final",
             "send", "sent", "publish"}
  /\ detailed \in BOOLEAN
  /\ names # <<>> /\ ToSet(names) \subseteq Counter
  /\ count \in [Nic -> [Counter -> Nat]]
  /\ Len(agg.rows) = Len(agg.series)
  /\ \A i \in DOMAIN agg.rows :
       {agg.rows[i].initial, agg.rows[i].final} \subseteq [DOMAIN names -> Nat]
  /\ events \in 0..MaxEvents

(* What a node holds is what the nodes appended, in their order: readings,   *)
(* samples with all their NICs and sources, latencies and repeats survive    *)
(* every hop, although the message does not say how long a vector of         *)
(* counters is (zmq_transfer.cpp:13-279).                                    *)
RowsArriveIntact == agg = pushed

(* A counter of a NIC that rises only, and that these readings got. *)
Sound(readings, h, n, c) ==
  c \notin Levels /\ \A reading \in readings : <<reading, h, n, c>> \notin failed

(* In any format the summary has, of the counters of which no reading        *)
(* failed, those that moved on any node, each with the statistics of what    *)
(* the NICs of each node counted together between its two readings, although *)
(* the readings are sums over NICs, each of which may have wrapped around,   *)
(* while others lack the file, a counter may be selected twice, and readings *)
(* of other counters fail (counter_aggregation.cpp:27-135, 405-431,          *)
(* counter_collection.cpp:996-1092).                                         *)
SummaryExact ==
  pc = "publish" =>
    LET sound == {c \in ToSet(names) :
                    \A h \in Host, n \in Nic : Sound({"initial", "final"}, h, n, c)}
        node(c) == [h \in Host |-> SumFunction([n \in Nic |-> moved[h][n][c]])]
        counted(c) == [min |-> Min(Values(node(c))), max |-> Max(Values(node(c))),
                       sum |-> SumFunction(node(c)), count |-> Hosts]
        expected == {<<c, counted(c)>> : c \in {d \in sound : Max(Values(node(d))) > 0}}
    IN  \A format \in Formats, json \in BOOLEAN :
          {line \in Printed(format, json, names, agg.rows) : line[1] \in sound} = expected

(* The levels these counters may have been selected at. *)
LevelsOf(selected) ==
  {CounterLevel(text) : text \in {text \in Texts :
     /\ MainLevel(text) > 0
     /\ \E list \in Lists : selected = CounterFilter(MainLevel(text), list)}}

(* The NICs on which a selected timeout counter moved between the first and  *)
(* the last sample get a table at level on_error, and no NIC else but those  *)
(* of which a reading of such a counter failed; all_on_error prints all      *)
(* tables if there is a NIC of the one kind, and none if there is one of     *)
(* neither; all prints all; the other levels and a run without samples have  *)
(* none (counter_aggregation.cpp:146-285, 2150-2171;                         *)
(* counter_collection.cpp:879, 996-1013).                                    *)
TimeoutsNamed ==
  pc = "publish" => \A level \in LevelsOf(names) :
    LET all == IF detailed THEN Host \X Nic ELSE {}
        timeouts == ToSet(names) \cap ToSet(TimeoutNames)
        sound(nic, c) == Sound({"first", "last"}, nic[1], nic[2], c)
        timedOut == {nic \in all : \E c \in timeouts :
                       sound(nic, c) /\ sampled[nic[1]][nic[2]][c] > 0}
        doubtful == {nic \in all : \E c \in timeouts : ~sound(nic, c)}
        tables == Tables(level, names, agg.series)
    IN  CASE level = "all" -> tables = all
          [] level = "on_error" -> timedOut \subseteq tables /\ tables \subseteq timedOut \cup doubtful
          [] level = "all_on_error" ->
               /\ tables \in {{}, all}
               /\ timedOut # {} => tables = all
               /\ timedOut \cup doubtful = {} => tables = {}
          [] OTHER -> tables = {}

(* The JSON document has each node, and of each NIC that was sampled what it *)
(* counted from the first to the last sample, unless one of the two readings *)
(* failed; unless a reading between them failed too, its intervals add up to *)
(* that, whichever way a sample got the counters; and the NICs of a node     *)
(* together never moved more than the node did, since the series lies        *)
(* between the total readings (counter_aggregation.cpp:27-56, 330-372,       *)
(* 1333-1345, 1993-2089; counter_collection.cpp:996-1013).                   *)
Interval(t, nic, c, i) ==
  Subtract(t.samples[i + 1].nics[nic][c], t.samples[i].nics[nic][c])
SeriesExact ==
  pc = "publish" => \A i \in DOMAIN agg.series :
    LET t == agg.series[i]
        sound(readings, n, c) == Sound(readings, t.hostname, n, c)
        told(n) == {c \in ToSet(names) : sound({"first", "last"}, n, c)}
        counted(n) == {<<c, sampled[t.hostname][n][c]>> : c \in
                         {d \in told(n) : sampled[t.hostname][n][d] > 0}}
    IN  /\ JsonNics(t) = IF detailed THEN Nic ELSE {}
        /\ \A n \in JsonNics(t) : LET deltas == JsonDeltas(names, t, n)
             IN {<<c, deltas[c]>> : c \in DOMAIN deltas \cap told(n)} = counted(n)
        /\ \A c \in DOMAIN names :
             /\ \A n \in Nics(t) : sound({"first", "sample", "last"}, n, names[c]) =>
                  Difference(t, n, c) =
                    SumFunction([j \in 1..(Len(t.samples) - 1) |-> Interval(t, n, c, j)])
             /\ (\A n \in Nic : sound({"initial", "first", "last", "final"}, n, names[c])) =>
                  SumFunction([n \in Nics(t) |-> Difference(t, n, c)])
                    <= Differences(agg.rows, c)[t.procid]

=============================================================================
