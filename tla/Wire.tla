-------------------------------- MODULE Wire --------------------------------
(***************************************************************************)
(* serialize() and deserialize(): the message that carries an aggregate      *)
(* down the chain.  It has no field names and no delimiters, and the lengths *)
(* of the counter vectors are not in it: the receiver takes the length of    *)
(* its own counter_names.  A field is an element of a sequence here, because *)
(* the two functions give it the same width.                                 *)
(*                                                                           *)
(* An aggregate is a record of two sequences, as the parallel vectors of     *)
(* AggregatedStats always have the same length (TypeOK of Report):           *)
(*   rows    [hostname, procid, initial, final, time]                        *)
(*   series  [hostname, procid, time, samples, latencies, repeats]           *)
(* with samples of [timestamp, nics, sources].                               *)
(***************************************************************************)
EXTENDS Integers, SequencesExt

----------------------------------------------------------------------------
(* serialize(): the fields of what it writes. *)

WriteList(written) == <<Len(written)>> \o FlattenSeq(written)
WriteFields(s) == <<Len(s)>> \o s

(* A std::map: its size, then the key and what is written of each entry.     *)
WriteMap(written) ==
  LET keys == SetToSeq(DOMAIN written)
  IN  WriteList([i \in DOMAIN keys |-> <<keys[i]>> \o written[keys[i]]])

WriteRow(r) == <<r.hostname, r.procid>> \o r.initial \o r.final

WriteMetrics(m) == WriteMap([metric \in DOMAIN m |-> <<m[metric]>>])
WriteEntities(m) == WriteMap([entity \in DOMAIN m |-> WriteMetrics(m[entity])])
WriteSources(m) == WriteMap([source \in DOMAIN m |-> WriteEntities(m[source])])
WriteSample(s) == <<s.timestamp>> \o WriteMap(s.nics) \o WriteSources(s.sources)
WriteSamples(t) == WriteList([i \in DOMAIN t.samples |-> WriteSample(t.samples[i])])

(* WriteSeriesNoRepeats forgets the repeat numbers.                          *)
WriteSeriesNoRepeats(t) ==
  <<t.hostname, t.procid, t.time>>
    \o WriteSamples(t) \o WriteList(t.latencies) \o <<0>>
WriteSeries(t) ==
  <<t.hostname, t.procid, t.time>>
    \o WriteSamples(t) \o WriteList(t.latencies) \o WriteFields(t.repeats)

(* The times follow all the rows. *)
Serialize(agg) ==
  WriteList([i \in DOMAIN agg.rows |-> WriteRow(agg.rows[i])])
    \o [i \in DOMAIN agg.rows |-> agg.rows[i].time]
    \o WriteList([i \in DOMAIN agg.series |-> WriteSeries(agg.series[i])])

----------------------------------------------------------------------------
(* deserialize(): a reader is a function, from a position in the fields to   *)
(* the value it reads there and the position after it.  width is the number  *)
(* of counters the receiver selected.  The checks of the position against    *)
(* the end of the message never fail on a message of serialize().            *)

At(value, pos) == [value |-> value, pos |-> pos]

(* Several values one after the other, as a tuple. *)
Then(done, read) ==
  LET next == read[done.pos] IN At(Append(done.value, next.value), next.pos)

Field(fields) == [pos \in Nat |-> At(fields[pos], pos + 1)]

Times(read, count, pos) ==
  LET got[i \in 0..count] == IF i = 0 THEN At(<<>>, pos) ELSE Then(got[i - 1], read)
  IN  got[count]
ReadAll(read, count) == [pos \in Nat |-> Times(read, count, pos)]
ReadList(fields, read) == [pos \in Nat |-> Times(read, fields[pos], pos + 1)]

Entry(fields, read) ==
  [pos \in Nat |-> Then(Then(At(<<>>, pos), Field(fields)), read)]
MapOf(entries) ==
  [k \in {e[1] : e \in ToSet(entries)} |->
     (CHOOSE e \in ToSet(entries) : e[1] = k)[2]]
ReadMap(fields, read) ==
  [pos \in Nat |-> LET entries == ReadList(fields, Entry(fields, read))[pos]
                   IN  At(MapOf(entries.value), entries.pos)]

ReadCounters(fields, width) == ReadAll(Field(fields), width)

RowOf(v) == [hostname |-> v[1], procid |-> v[2], initial |-> v[3], final |-> v[4]]
ReadRow(fields, width) ==
  [pos \in Nat |->
     LET field == Field(fields)
         counters == ReadCounters(fields, width)
         v == Then(Then(Then(Then(At(<<>>, pos), field), field), counters), counters)
     IN  At(RowOf(v.value), v.pos)]

(* An entity without metrics leaves no trace, nor a source without entities, *)
(* as the entries of ts.sources are created with the first metric.           *)
NonEmpty(m) == [k \in {j \in DOMAIN m : DOMAIN m[j] # {}} |-> m[k]]
WithoutEmpty(read) ==
  [pos \in Nat |-> At(NonEmpty(read[pos].value), read[pos].pos)]
ReadMetrics(fields) == ReadMap(fields, Field(fields))
ReadEntities(fields) == WithoutEmpty(ReadMap(fields, ReadMetrics(fields)))
ReadSources(fields) == WithoutEmpty(ReadMap(fields, ReadEntities(fields)))

SampleOf(v) == [timestamp |-> v[1], nics |-> v[2], sources |-> v[3]]
ReadNics(fields, width) == ReadMap(fields, ReadCounters(fields, width))
ReadSample(fields, width) ==
  [pos \in Nat |->
     LET v == Then(Then(Then(At(<<>>, pos), Field(fields)), ReadNics(fields, width)),
                   ReadSources(fields))
     IN  At(SampleOf(v.value), v.pos)]

ReadSamples(fields, width) == ReadList(fields, ReadSample(fields, width))
ReadLatency(fields) == ReadAll(Field(fields), 2)
ReadLatencies(fields) == ReadList(fields, ReadLatency(fields))
ReadRepeats(fields) == ReadList(fields, Field(fields))

ReadHead(fields) == ReadAll(Field(fields), 3)
SeriesOf(v) ==
  [hostname |-> v[1][1], procid |-> v[1][2], time |-> v[1][3],
   samples |-> v[2], latencies |-> v[3], repeats |-> v[4]]
ReadSeries(fields, width) ==
  [pos \in Nat |->
     LET v == Then(Then(Then(Then(At(<<>>, pos), ReadHead(fields)),
                ReadSamples(fields, width)), ReadLatencies(fields)), ReadRepeats(fields))
     IN  At(SeriesOf(v.value), v.pos)]

ReadRows(fields, width) == ReadList(fields, ReadRow(fields, width))
(* The times, one for each of the rows read before them. *)
ReadTimes(fields, rows) == ReadAll(Field(fields), Len(rows))
ReadAllSeries(fields, width) == ReadList(fields, ReadSeries(fields, width))

Timed(row, time) ==
  [hostname |-> row.hostname, procid |-> row.procid,
   initial |-> row.initial, final |-> row.final, time |-> time]
Deserialize(fields, width) ==
  LET rows == ReadRows(fields, width)[1]
      times == ReadTimes(fields, rows.value)[rows.pos]
      series == ReadAllSeries(fields, width)[times.pos]
  IN  [rows |-> [i \in DOMAIN rows.value |-> Timed(rows.value[i], times.value[i])],
       series |-> series.value]
=============================================================================
