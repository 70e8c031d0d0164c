------------------------------ MODULE Summary ------------------------------
(***************************************************************************)
(* What is counted and what the first node makes of it apart from the CSV:   *)
(* the selection of counters and of the format, the statistics over the      *)
(* nodes as the tables and the JSON documents show them, the differences per *)
(* NIC, and the per-NIC tables of the levels on_error, all_on_error and all. *)
(***************************************************************************)
EXTENDS Integers, SequencesExt, FiniteSetsExt

CONSTANTS
  AllNames,      \* all_counter_names
  DefaultNames,  \* default_counter_names
  TimeoutNames,  \* timeout_counter_names
  Unset,         \* an environment variable that is not set
  Modulus        \* the width of a NIC counter, 2^56 in the code

ASSUME SummaryAssumption == Modulus \in Nat \ {0}

(* GATHER_CXI_COUNTERS_LEVEL, the number it starts with and whether anything *)
(* follows it: as main() reads it, with atoi(), and as the printers do, with *)
(* strtol().                                                                 *)
MainLevel(text) == IF text = Unset THEN 0 ELSE text.number
Level == <<"default", "summary", "on_error", "all_on_error", "all">>
CounterLevel(text) ==
  IF text = Unset \/ text.trailing \/ text.number \notin 0..5 THEN "default"
  ELSE IF text.number = 0 THEN "quiet"
  ELSE Level[text.number]

(* init_counter_filter(), with GATHER_CXI_COUNTERS unset or a list of words. *)
Filtered(kept, word) == IF word \in ToSet(AllNames) THEN Append(kept, word) ELSE kept
KnownNames(list) ==
  LET known[i \in 0..Len(list)] ==
        IF i = 0 THEN <<>> ELSE Filtered(known[i - 1], list[i])
  IN  known[Len(list)]
CounterFilter(level, list) ==
  IF level = 1 THEN TimeoutNames
  ELSE IF list = Unset THEN DefaultNames
  ELSE IF list = <<"all">> THEN AllNames
  ELSE IF KnownNames(list) = <<>> THEN DefaultNames
  ELSE KnownNames(list)

(* get_output_format(): GATHER_CXI_OUTPUT_FORMAT, and GATHER_CXI_JSON where  *)
(* that is not set.                                                          *)
OutputFormat(format, json) ==
  CASE format \in {"csv_wide", "csv_tall", "json"} -> format
    [] format = "csv" -> "csv_wide"
    [] format = Unset /\ json -> "json"
    [] OTHER -> "text"

(* subtract_56_bit_integers; SubtractUnmasked takes its arguments as they    *)
(* are, which a sum over NICs may not be.                                    *)
SubtractUnmasked(final, initial) ==
  IF final >= initial THEN final - initial ELSE Modulus + final - initial
Subtract(final, initial) ==
  LET f == final % Modulus
      i == initial % Modulus
  IN  IF f >= i THEN f - i ELSE Modulus + f - i

(* get_counter_stats(): the difference of each node, by its procid, and over *)
(* them; the mean is sum by count.                                          *)
Differences(rows, c) ==
  LET row(p) == CHOOSE r \in ToSet(rows) : r.procid = p
  IN  [p \in {r.procid : r \in ToSet(rows)} |->
         Subtract(row(p).final[c], row(p).initial[c])]
Values(f) == {f[p] : p \in DOMAIN f}
Stats(rows, c) ==
  LET d == Differences(rows, c)
  IN  [min |-> Min(Values(d)), max |-> Max(Values(d)),
       sum |-> SumFunction(d), count |-> Cardinality(DOMAIN d)]

(* The rows of the text table, print_human_summary(), and of the Markdown    *)
(* file that comes with a CSV; and the members of the JSON object of         *)
(* print_json_summary(), and of aggregate in the JSON document, where a name *)
(* that is selected twice has the value that was assigned last.              *)
Shown(names, rows) == {c \in DOMAIN names : Stats(rows, c).sum > 0}
TableRows(names, rows) == {<<names[c], Stats(rows, c)>> : c \in Shown(names, rows)}
JsonCounters(names, rows) ==
  LET shown == Shown(names, rows)
  IN  [name \in {names[c] : c \in shown} |->
         Stats(rows, Max({c \in shown : names[c] = name}))]

(* The statistics in what is printed.  Text is JSON as well if asked to.     *)
Printed(format, json, names, rows) ==
  LET object == JsonCounters(names, rows)
  IN  IF \/ OutputFormat(format, json) = "json"
         \/ OutputFormat(format, json) = "text" /\ json
      THEN {<<name, object[name]>> : name \in DOMAIN object}
      ELSE TableRows(names, rows)

----------------------------------------------------------------------------
(* A NIC of a series: in its first sample and in its last. *)

Nics(t) ==
  IF Len(t.samples) < 2 THEN {}
  ELSE DOMAIN t.samples[1].nics \cap DOMAIN Last(t.samples).nics

Difference(t, nic, c) ==
  Subtract(Last(t.samples).nics[nic][c], t.samples[1].nics[nic][c])

(* print_detailed_json_summary(): the NICs of a node, and of each the        *)
(* counters that moved between the first and the last sample that has it.    *)
JsonNics(t) == UNION {DOMAIN sample.nics : sample \in ToSet(t.samples)}
JsonDeltas(names, t, nic) ==
  LET has == {i \in DOMAIN t.samples : nic \in DOMAIN t.samples[i].nics}
      delta(c) == Subtract(t.samples[Max(has)].nics[nic][c], t.samples[Min(has)].nics[nic][c])
      moving == IF Cardinality(has) < 2 THEN {} ELSE {c \in DOMAIN names : delta(c) > 0}
  IN  [name \in {names[c] : c \in moving} |->
         delta(Max({c \in moving : names[c] = name}))]

TimeoutIndices(names) == {c \in DOMAIN names : names[c] \in ToSet(TimeoutNames)}

(* nic_timeout_changed(); TimeoutRose misses a counter that wrapped around.  *)
TimeoutRose(names, t, nic) ==
  \E c \in TimeoutIndices(names) :
    Last(t.samples).nics[nic][c] > t.samples[1].nics[nic][c]
TimeoutChanged(names, t, nic) ==
  \E c \in TimeoutIndices(names) : Difference(t, nic, c) # 0

(* print_all_nic_counters(), print_timeout_nics_only() and                   *)
(* print_all_nics_on_timeout(): the hosts and NICs with a table.  The last   *)
(* two do nothing if no timeout counter is selected.                         *)
AllTables(series) ==
  UNION {{<<t.hostname, nic>> : nic \in Nics(t)} : t \in ToSet(series)}
TimeoutTables(names, series) ==
  UNION {{<<t.hostname, nic>> : nic \in {n \in Nics(t) : TimeoutChanged(names, t, n)}} :
           t \in ToSet(series)}
TablesOnTimeout(names, series) ==
  IF TimeoutTables(names, series) = {} THEN {} ELSE AllTables(series)

(* What the first node appends to the summary in text format, by level.      *)
Tables(level, names, series) ==
  CASE level = "on_error" -> TimeoutTables(names, series)
    [] level = "all_on_error" -> TablesOnTimeout(names, series)
    [] level = "all" -> AllTables(series)
    [] OTHER -> {}
=============================================================================
