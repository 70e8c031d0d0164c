------------------------------ MODULE Readings ------------------------------
(***************************************************************************)
(* What a task reads: the counter files of the NICs through the descriptors  *)
(* it opened at its start, and the metric sources "nic", "perf" and "nccl"   *)
(* of the registry, from which samples are made.                             *)
(*                                                                           *)
(* files is what a reading gets: NIC -> place of a counter among those that  *)
(* are selected -> what is in its file.  A place is not there if its file    *)
(* could not be opened, then it never is, or if this reading of it fails.    *)
(***************************************************************************)
EXTENDS Integers, SequencesExt, FiniteSetsExt

CONSTANTS
  Copies,      \* metrics of a NIC beside its counters -> the counter they copy
  PerfEvents,  \* configs_ of the perf source
  NotCounted   \* UINT64_MAX: an event the kernel does not count

(* read_counter_fd(): 0 for a file that could not be opened, and where seek  *)
(* or read fail.                                                             *)
ReadCounter(file, i) == IF i \in DOMAIN file THEN file[i] ELSE 0

(* read_all_counters_per_nic(), and read_all_counters(), which adds the NICs *)
(* up.                                                                       *)
PerNic(files, names) ==
  [n \in DOMAIN files |-> [i \in DOMAIN names |-> ReadCounter(files[n], i)]]
Total(files, names) ==
  [i \in DOMAIN names |->
     SumFunction([n \in DOMAIN files |-> ReadCounter(files[n], i)])]

(* NicMetricSource::read(): by name, where the last of two that are the same *)
(* stays; a metric that copies a counter takes the first, or 0 if it is not  *)
(* selected.                                                                 *)
Places(name, names) == {i \in DOMAIN names : names[i] = name}
NicSource(files, names) ==
  [n \in DOMAIN files |-> [metric \in ToSet(names) \cup DOMAIN Copies |->
     IF metric \notin DOMAIN Copies
     THEN ReadCounter(files[n], Max(Places(metric, names)))
     ELSE IF Copies[metric] \in ToSet(names)
          THEN ReadCounter(files[n], Min(Places(Copies[metric], names)))
          ELSE 0]]

(* PerfMetricSource::read(): one entity, the host, with all the events.      *)
PerfSource(hostname, counted) ==
  [h \in {hostname} |-> [event \in PerfEvents |->
     IF event \in DOMAIN counted THEN counted[event] ELSE NotCounted]]

(* NcclMetricSource::read(), for one direction: the channels that were used, *)
(* by the NIC that RCCL gives them to, round robin over nics, the sorted     *)
(* list.  Without NICs a channel is an entity of its own.                    *)
NicForChannel(ch, nics) == IF nics = <<>> THEN ch ELSE nics[(ch % Len(nics)) + 1]
NcclSource(channels, nics) ==
  LET used == {ch \in DOMAIN channels : channels[ch].count # 0}
      of(n) == {ch \in used : NicForChannel(ch, nics) = n}
  IN  [n \in {NicForChannel(ch, nics) : ch \in used} |->
         [count |-> SumFunction([ch \in of(n) |-> channels[ch].count]),
          bytes |-> SumFunction([ch \in of(n) |-> channels[ch].bytes]),
          max |-> Max({channels[ch].max : ch \in of(n)})]]

(* The sources of a sample: one that has no entity leaves no trace.          *)
Present(sources) ==
  [s \in {r \in DOMAIN sources : DOMAIN sources[r] # {}} |-> sources[s]]

(* The counters of a sample of the sampling thread, looked up by name in its *)
(* nic source; CountersByOrder takes the metrics as the map has them.        *)
CountersByOrder(nics, names) ==
  [n \in DOMAIN nics |-> LET metrics == SetToSeq(DOMAIN nics[n])
                         IN  [i \in DOMAIN names |-> nics[n][metrics[i]]]]
CountersByName(nics, names) ==
  [n \in DOMAIN nics |-> [i \in DOMAIN names |->
     IF names[i] \in DOMAIN nics[n] THEN nics[n][names[i]] ELSE 0]]
=============================================================================
