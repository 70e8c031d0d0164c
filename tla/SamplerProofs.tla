---------------------------- MODULE SamplerProofs ----------------------------
(***************************************************************************)
(* Proofs about Sampler, for any number of lines, size of the pipe, counter  *)
(* values, samples and faults: the two threads never share the series, the   *)
(* readings span the command, and run_command goes on only when every line   *)
(* was read.                                                                 *)
(***************************************************************************)
EXTENDS Sampler, TLAPS

BeforeThread == {"initial", "firstSample", "spawn"}
BeforeFork == BeforeThread \cup {"fork"}
Exiting == {"exit", "dying", "gone"}
Reading == {"fdopen", "read"}
AfterOutput == {"wait", "stop", "join", "lastSample", "final", "over"}
AfterCommand == {"stop", "join", "lastSample", "final", "over"}

(* The flag is up from the start of the sampling thread until Stop, and the  *)
(* main thread passes Join only when the sampling thread returned.           *)
Threads ==
  /\ main \in BeforeThread => sampler = "none" /\ ~running
  /\ main \in {"firstSample", "spawn", "stop", "join", "lastSample"} => detailed
  /\ main \in {"fork", "fdopen", "read", "wait"} =>
       (running <=> detailed) /\ (detailed <=> sampler # "none")
  /\ main = "stop" => running
  /\ main \in {"join", "lastSample", "final", "over"} => ~running
  /\ main = "lastSample" => sampler = "returned"
  /\ main \in {"final", "over"} => sampler = IF detailed THEN "returned" ELSE "none"
  /\ main \in {"stop", "join"} => sampler # "none"
  /\ sampler = "returned" => ~running
  /\ sampler # "none" => detailed

(* How long the series can be for each place of the two threads.             *)
Lengths ==
  /\ main \in {"initial", "firstSample"} => samples = <<>>
  /\ main \notin {"final", "over"} => Len(samples) <= MaxSamples + 1
  /\ sampler \in {"read", "push"} => Len(samples) < MaxSamples
  /\ detailed /\ main \notin {"initial", "firstSample"} => Len(samples) > 0

(* The command, what it left behind, and the pipe.                           *)
Output ==
  /\ child = "none" <=> main \in BeforeFork \cup Exiting
  /\ orphan => child = "exited"
  /\ child = "silent" => toWrite = 0
  /\ main \in Reading => readEnd /\ (~Writers => toWrite = 0)
  /\ main \in BeforeFork \cup {"fdopen"} => ~stream
  /\ main \in AfterOutput /\ stream => pipe = 0 /\ toWrite = 0 /\ ~Writers
  /\ main \in AfterCommand => child = "exited"
  /\ main \in AfterOutput => ~readEnd

(* The samples never go back, and the series and the readings are in the     *)
(* order they were taken in.                                                 *)
Order ==
  /\ \A m \in Moments : reading[m] <= counter
  /\ reading["initial"] = Unread <=> main = "initial"
  /\ reading["started"] = Unread <=> child = "none"
  /\ reading["ended"] = Unread <=> child # "exited"
  /\ child # "none" => reading["initial"] <= reading["started"]
  /\ main = "over" => reading["ended"] <= reading["final"]
Series ==
  /\ \A i \in 1..Len(samples) : samples[i] <= counter
  /\ \A i, j \in 1..Len(samples) : i <= j => samples[i] <= samples[j]
  /\ sampler = "push" => /\ sampled \in 0..counter
                         /\ \A i \in 1..Len(samples) : samples[i] <= sampled
  /\ Len(samples) > 0 => reading["initial"] <= samples[1]
  /\ Len(samples) > 0 /\ detailed /\ child # "none" => samples[1] <= reading["started"]
  /\ detailed /\ main \in {"final", "over"} => reading["ended"] <= samples[Len(samples)]
  /\ detailed /\ main = "over" => samples[Len(samples)] <= reading["final"]

IInv == TypeOK /\ Threads /\ Lengths /\ Output /\ Order /\ Series

LEMMA InitInv == Init => IInv
<1> SUFFICES ASSUME Init PROVE IInv  OBVIOUS
<1> USE SamplerAssumption DEF Init
<1>1. TypeOK
  <2>1. samples \in Seq(0..MaxCount) /\ Len(samples) = 0  OBVIOUS
  <2>2. reading \in [Moments -> (0..MaxCount) \cup {Unread}]  OBVIOUS
  <2>3. main \in MainPC /\ sampler \in SamplerPC  BY DEF MainPC, SamplerPC
  <2>4. MaxSamples + 2 >= 0  OBVIOUS
  <2>5. {detailed, running, orphan, readEnd, stream} \subseteq BOOLEAN  OBVIOUS
  <2>6. sampled \in (0..MaxCount) \cup {Unread} /\ counter \in 0..MaxCount  OBVIOUS
  <2>7. toWrite \in 0..MaxLines /\ pipe \in 0..PipeCapacity  OBVIOUS
  <2>8. child \in {"none", "running", "silent", "exited"}  OBVIOUS
  <2> HIDE DEF Init
  <2>9. Len(samples) <= MaxSamples + 2  BY <2>1, <2>4
  <2> QED BY <2>1, <2>2, <2>3, <2>5, <2>6, <2>7, <2>8, <2>9 DEF TypeOK
<1>2. Threads /\ Lengths  BY DEF Threads, Lengths, BeforeThread
<1>3. Output
  BY DEF Output, BeforeFork, BeforeThread, Exiting, Reading, AfterOutput, AfterCommand
<1>4. Order  BY DEF Order, Unread, Moments, BeforeFork, BeforeThread
<1>5. Series  BY DEF Series
<1> QED BY <1>1, <1>2, <1>3, <1>4, <1>5 DEF IInv

LEMMA ThreadsNext == IInv /\ Next => Threads'
<1> SUFFICES ASSUME IInv, Next PROVE Threads'  OBVIOUS
<1> USE DEF IInv, TypeOK, Threads, BeforeThread, threads
<1>1. CASE MainStep
  <2>1. CASE ReadInitial \/ FirstSample \/ StartSampler \/ Fork
    BY <2>1 DEF Goto, ReadInitial, FirstSample, StartSampler, Fork
  <2>2. CASE Fdopen \/ ReadLine \/ ReadEof \/ DestroyStatics \/ ProcessGone
    BY <2>2 DEF Goto, Fdopen, ReadLine, ReadEof, DestroyStatics, ProcessGone
  <2>3. CASE Wait \/ Stop
    BY <2>3 DEF Goto, Wait, Stop
  <2>4. CASE Join \/ LastSample \/ ReadFinal
    BY <2>4 DEF Goto, Join, LastSample, ReadFinal
  <2> QED BY <1>1, <2>1, <2>2, <2>3, <2>4 DEF MainStep
<1>2. CASE SamplerStep
  BY <1>2 DEF SamplerStep, SGoto, SamplerRound, SamplerReturns, SamplerRead,
     SamplerPush, SamplerWakes
<1>3. CASE ChildStep \/ ClosesStdout \/ LeavesProcess \/ Traffic \/ Finished
  BY <1>3 DEF ChildStep, WriteLine, ChildExits, OrphanExits, ClosesStdout,
     LeavesProcess, Traffic, Finished, vars
<1>4. CASE SpawnFails \/ FdopenFails
  BY <1>4 DEF SpawnFails, FdopenFails, Goto
<1> QED BY <1>1, <1>2, <1>3, <1>4 DEF Next

LEMMA OutputNext == IInv /\ Next => Output'
<1> SUFFICES ASSUME IInv, Next PROVE Output'  OBVIOUS
<1> USE DEF IInv, TypeOK, Output, Writers, BeforeFork, BeforeThread, Exiting, Reading,
        AfterOutput, AfterCommand, threads, command, io
<1>1. CASE MainStep
  BY <1>1 DEF MainStep, Goto, ReadInitial, FirstSample, StartSampler, Fork, Fdopen,
     ReadLine, ReadEof, Wait, Stop, Join, LastSample, ReadFinal, DestroyStatics, ProcessGone
<1>2. CASE SamplerStep
  BY <1>2 DEF SamplerStep, SGoto, SamplerRound, SamplerReturns, SamplerRead,
     SamplerPush, SamplerWakes
<1>3. CASE ChildStep \/ ClosesStdout \/ LeavesProcess \/ Traffic \/ Finished
  BY <1>3 DEF ChildStep, WriteLine, ChildExits, OrphanExits, ClosesStdout,
     LeavesProcess, Traffic, Finished, vars
<1>4. CASE SpawnFails \/ FdopenFails
  BY <1>4 DEF SpawnFails, FdopenFails, Goto
<1> QED BY <1>1, <1>2, <1>3, <1>4 DEF Next

(* What a step does to the series: nothing, or it appends a count.           *)
Appends(x) == x \in 0..MaxCount /\ samples' = Append(samples, x)

LEMMA SeriesStep ==
  ASSUME IInv, Next
  PROVE  \/ UNCHANGED samples
         \/ main = "firstSample" /\ Appends(counter)
         \/ main = "lastSample" /\ Appends(counter)
         \/ sampler = "push" /\ sampler' = "sleep" /\ main' = main /\ Appends(sampled)
<1> USE DEF IInv, TypeOK, Series, series, Appends, vars
<1>1. CASE MainStep
  BY <1>1 DEF MainStep, Goto, ReadInitial, FirstSample, StartSampler, Fork, Fdopen,
     ReadLine, ReadEof, Wait, Stop, Join, LastSample, ReadFinal, DestroyStatics, ProcessGone
<1>2. CASE SamplerStep
  <2>1. CASE SamplerPush
    <3>1. sampled \in 0..MaxCount  BY <2>1, SamplerAssumption DEF SamplerPush, SGoto
    <3> QED BY <2>1, <3>1 DEF SamplerPush, SGoto
  <2>2. CASE SamplerRound \/ SamplerReturns \/ SamplerRead \/ SamplerWakes
    BY <2>2 DEF SamplerRound, SamplerReturns, SamplerRead, SamplerWakes
  <2> QED BY <1>2, <2>1, <2>2 DEF SamplerStep
<1>3. CASE ChildStep \/ ClosesStdout \/ LeavesProcess \/ Traffic \/ Finished
  BY <1>3 DEF ChildStep, WriteLine, ChildExits, OrphanExits, ClosesStdout,
     LeavesProcess, Traffic, Finished
<1>4. CASE SpawnFails \/ FdopenFails
  BY <1>4 DEF SpawnFails, FdopenFails
<1> QED BY <1>1, <1>2, <1>3, <1>4 DEF Next

(* What a step does to the readings: nothing, or it records the count.       *)
LEMMA ReadingStep ==
  ASSUME IInv, Next
  PROVE  /\ counter \in 0..MaxCount /\ counter' \in 0..MaxCount /\ counter <= counter'
         /\ \/ UNCHANGED reading
            \/ counter' = counter /\ \E m \in Moments : Record(m)
<1> USE DEF IInv, TypeOK, vars, Moments
<1>1. CASE MainStep
  BY <1>1 DEF MainStep, ReadInitial, FirstSample, StartSampler, Fork, Fdopen,
     ReadLine, ReadEof, Wait, Stop, Join, LastSample, ReadFinal, DestroyStatics, ProcessGone
<1>2. CASE SamplerStep
  BY <1>2 DEF SamplerStep, SamplerRound, SamplerReturns, SamplerRead, SamplerPush,
     SamplerWakes
<1>3. CASE ChildStep \/ ClosesStdout \/ LeavesProcess \/ Traffic \/ Finished
  BY <1>3, SamplerAssumption DEF ChildStep, WriteLine, ChildExits, OrphanExits,
     ClosesStdout, LeavesProcess, Traffic, Finished
<1>4. CASE SpawnFails \/ FdopenFails
  BY <1>4 DEF SpawnFails, FdopenFails
<1> QED BY <1>1, <1>2, <1>3, <1>4 DEF Next

LEMMA LengthsNext == IInv /\ Next => Lengths' /\ Len(samples') <= MaxSamples + 2
<1> SUFFICES ASSUME IInv, Next PROVE Lengths' /\ Len(samples') <= MaxSamples + 2
  OBVIOUS
<1> USE SamplerAssumption DEF IInv, TypeOK
<1>1. CASE ReadInitial \/ StartSampler \/ Fork
  BY <1>1 DEF Lengths, Threads, BeforeThread, Goto, ReadInitial, StartSampler, Fork, series
<1>2. CASE Fdopen \/ ReadLine \/ ReadEof \/ DestroyStatics \/ ProcessGone
  BY <1>2 DEF Lengths, Goto, Fdopen, ReadLine, ReadEof, DestroyStatics, ProcessGone,
     threads, series
<1>3. CASE Wait \/ Stop \/ Join \/ ReadFinal
  BY <1>3 DEF Lengths, Threads, Goto, Wait, Stop, Join, ReadFinal, series
<1>4. CASE SamplerRound \/ SamplerReturns \/ SamplerRead \/ SamplerWakes
  BY <1>4 DEF Lengths, SGoto, SamplerRound, SamplerReturns, SamplerRead, SamplerWakes, series
<1>5. CASE ChildStep \/ ClosesStdout \/ LeavesProcess \/ Traffic \/ Finished
  BY <1>5 DEF Lengths, ChildStep, WriteLine, ChildExits, OrphanExits, ClosesStdout,
     LeavesProcess, Traffic, Finished, vars, threads, series
<1>6. CASE SpawnFails \/ FdopenFails
  BY <1>6 DEF Lengths, SpawnFails, FdopenFails, Goto, series
<1>7. CASE FirstSample
  <2>1. samples = <<>> /\ samples' = Append(samples, counter)
    BY <1>7 DEF FirstSample, Goto, Lengths
  <2>2. Len(samples') = 1  BY <2>1
  <2>3. main' = "spawn" /\ sampler' = "none"
    BY <1>7 DEF FirstSample, Goto, Threads, BeforeThread
  <2> QED BY <2>2, <2>3 DEF Lengths
<1>8. CASE LastSample
  <2>1. Len(samples) <= MaxSamples + 1 /\ samples' = Append(samples, counter)
    BY <1>8 DEF LastSample, Goto, Lengths
  <2>2. Len(samples') <= MaxSamples + 2 /\ Len(samples') > 0  BY <2>1
  <2>3. main' = "final" /\ sampler' = "returned"
    BY <1>8 DEF LastSample, Goto, Threads
  <2> QED BY <2>2, <2>3 DEF Lengths
<1>9. CASE SamplerPush
  <2>1. Len(samples) < MaxSamples /\ samples' = Append(samples, sampled)
    BY <1>9 DEF SamplerPush, SGoto, Lengths
  <2>2. Len(samples') <= MaxSamples /\ Len(samples') > 0  BY <2>1
  <2>3. main' = main /\ sampler' = "sleep" /\ main \notin {"initial", "firstSample"}
    BY <1>9 DEF SamplerPush, SGoto, Threads, BeforeThread
  <2> QED BY <2>2, <2>3 DEF Lengths
<1> QED BY <1>1, <1>2, <1>3, <1>4, <1>5, <1>6, <1>7, <1>8, <1>9
        DEF Next, MainStep, SamplerStep

LEMMA TypesNext == IInv /\ Next => TypeOK'
<1> SUFFICES ASSUME IInv, Next PROVE TypeOK'  OBVIOUS
<1> DEFINE Flags == /\ detailed \in BOOLEAN /\ running \in BOOLEAN
                    /\ orphan \in BOOLEAN /\ readEnd \in BOOLEAN /\ stream \in BOOLEAN
           Places == main \in MainPC /\ sampler \in SamplerPC
           Lines == /\ child \in {"none", "running", "silent", "exited"}
                    /\ toWrite \in 0..MaxLines /\ pipe \in 0..PipeCapacity
<1>1. Flags'
  <2> USE DEF IInv, TypeOK, threads, command, io
  <2>1. CASE MainStep
    BY <2>1, Zenon DEF Goto, ReadInitial, FirstSample, StartSampler, Fork, Fdopen, ReadLine,
       ReadEof, Wait, Stop, Join, LastSample, ReadFinal, DestroyStatics, ProcessGone, MainStep
  <2>2. CASE SamplerStep
    BY <2>2, Zenon DEF SamplerStep, SGoto, SamplerRound, SamplerReturns, SamplerRead,
       SamplerPush, SamplerWakes
  <2>3. CASE ChildStep \/ ClosesStdout \/ LeavesProcess \/ Traffic \/ Finished
    BY <2>3, Zenon DEF ChildStep, WriteLine, ChildExits, OrphanExits, ClosesStdout,
       LeavesProcess, Traffic, Finished, vars
  <2>4. CASE SpawnFails \/ FdopenFails
    BY <2>4, Zenon DEF SpawnFails, FdopenFails, Goto
  <2> QED BY <2>1, <2>2, <2>3, <2>4 DEF Next
<1>2. Places'
  <2> USE DEF IInv, TypeOK, MainPC, SamplerPC, threads
  <2>1. CASE MainStep
    BY <2>1 DEF Goto, ReadInitial, FirstSample, StartSampler, Fork, Fdopen, ReadLine,
       ReadEof, Wait, Stop, Join, LastSample, ReadFinal, DestroyStatics, ProcessGone, MainStep
  <2>2. CASE SamplerStep
    BY <2>2 DEF SamplerStep, SGoto, SamplerRound, SamplerReturns, SamplerRead,
       SamplerPush, SamplerWakes
  <2>3. CASE ChildStep \/ ClosesStdout \/ LeavesProcess \/ Traffic \/ Finished
    BY <2>3 DEF ChildStep, WriteLine, ChildExits, OrphanExits, ClosesStdout,
       LeavesProcess, Traffic, Finished, vars
  <2>4. CASE SpawnFails \/ FdopenFails
    BY <2>4 DEF SpawnFails, FdopenFails, Goto
  <2> QED BY <2>1, <2>2, <2>3, <2>4 DEF Next
<1>3. Lines'
  <2> USE SamplerAssumption DEF IInv, TypeOK, command, io
  <2>1. CASE MainStep
    BY <2>1 DEF ReadInitial, FirstSample, StartSampler, Fork, Fdopen, ReadLine, ReadEof,
       Wait, Stop, Join, LastSample, ReadFinal, DestroyStatics, ProcessGone, MainStep
  <2>2. CASE SamplerStep
    BY <2>2 DEF SamplerStep, SamplerRound, SamplerReturns, SamplerRead, SamplerPush,
       SamplerWakes
  <2>3. CASE ChildStep \/ ClosesStdout \/ LeavesProcess \/ Traffic \/ Finished
    BY <2>3 DEF ChildStep, WriteLine, ChildExits, OrphanExits, ClosesStdout,
       LeavesProcess, Traffic, Finished, vars
  <2>4. CASE SpawnFails \/ FdopenFails
    BY <2>4 DEF SpawnFails, FdopenFails
  <2> QED BY <2>1, <2>2, <2>3, <2>4 DEF Next
<1>4. samples' \in Seq(0..MaxCount)
  <2>1. samples \in Seq(0..MaxCount)  BY DEF IInv, TypeOK
  <2>2. \A x \in 0..MaxCount : Append(samples, x) \in Seq(0..MaxCount)  BY <2>1
  <2> QED BY <2>1, <2>2, SeriesStep DEF Appends
<1>5. Len(samples') <= MaxSamples + 2  BY LengthsNext
<1>6. counter' \in 0..MaxCount  BY ReadingStep
<1>7. reading' \in [Moments -> (0..MaxCount) \cup {Unread}]
  BY ReadingStep DEF Record, IInv, TypeOK
<1>8. sampled' \in (0..MaxCount) \cup {Unread}
  <2> USE DEF IInv, TypeOK, series
  <2>1. CASE MainStep
    BY <2>1 DEF ReadInitial, FirstSample, StartSampler, Fork, Fdopen, ReadLine, ReadEof,
       Wait, Stop, Join, LastSample, ReadFinal, DestroyStatics, ProcessGone, MainStep
  <2>2. CASE SamplerStep
    BY <2>2 DEF SamplerStep, SamplerRound, SamplerReturns, SamplerRead, SamplerPush,
       SamplerWakes
  <2>3. CASE ChildStep \/ ClosesStdout \/ LeavesProcess \/ Traffic \/ Finished
    BY <2>3 DEF ChildStep, WriteLine, ChildExits, OrphanExits, ClosesStdout,
       LeavesProcess, Traffic, Finished, vars
  <2>4. CASE SpawnFails \/ FdopenFails
    BY <2>4 DEF SpawnFails, FdopenFails
  <2> QED BY <2>1, <2>2, <2>3, <2>4 DEF Next
<1> QED BY <1>1, <1>2, <1>3, <1>4, <1>5, <1>6, <1>7, <1>8 DEF TypeOK

LEMMA OrderNext == IInv /\ Next => Order'
<1> SUFFICES ASSUME IInv, Next PROVE Order'  OBVIOUS
<1> USE SamplerAssumption DEF IInv, TypeOK, Moments, Unread
<1>1. \A m \in Moments : reading'[m] <= counter'
  <2>1. /\ counter \in 0..MaxCount /\ counter' \in 0..MaxCount /\ counter <= counter'
        /\ \/ UNCHANGED reading
           \/ counter' = counter /\ \E m \in Moments : Record(m)
    BY ReadingStep
  <2>2. \A m \in Moments : reading[m] <= counter /\ reading[m] \in Int
    BY DEF Order
  <2>3. CASE UNCHANGED reading  BY <2>1, <2>2, <2>3
  <2>4. ASSUME NEW m \in Moments, Record(m), counter' = counter
        PROVE  \A k \in Moments : reading'[k] <= counter'
    <3>1. \A k \in Moments : reading'[k] = IF k = m THEN counter ELSE reading[k]
      BY <2>4 DEF Record
    <3> QED BY <2>1, <2>2, <2>4, <3>1
  <2> QED BY <2>1, <2>3, <2>4
<1> USE DEF Order, Output, Record, BeforeFork, BeforeThread, Exiting, AfterCommand
<1>2. CASE ReadInitial
  BY <1>1, <1>2 DEF ReadInitial, Goto, command
<1>3. CASE Fork
  BY <1>1, <1>3 DEF Fork, Goto
<1>4. CASE ReadFinal
  BY <1>1, <1>4 DEF ReadFinal, Goto, command
<1>5. CASE ChildExits \/ LeavesProcess
  BY <1>1, <1>5 DEF ChildExits, LeavesProcess, threads
<1>6. CASE FirstSample \/ StartSampler \/ Fdopen \/ ReadLine \/ ReadEof
  BY <1>1, <1>6 DEF Goto, FirstSample, StartSampler, Fdopen, ReadLine, ReadEof,
     threads, command
<1>7. CASE Wait \/ Stop \/ Join \/ LastSample \/ DestroyStatics \/ ProcessGone
  BY <1>1, <1>7 DEF Goto, Wait, Stop, Join, LastSample, DestroyStatics, ProcessGone, command
<1>8. CASE SamplerStep
  BY <1>1, <1>8 DEF SamplerStep, SGoto, SamplerRound, SamplerReturns, SamplerRead,
     SamplerPush, SamplerWakes, command
<1>9. CASE WriteLine \/ OrphanExits \/ ClosesStdout \/ Traffic \/ Finished
  BY <1>1, <1>9 DEF WriteLine, OrphanExits, ClosesStdout, Traffic, Finished, vars,
     threads, command
<1>10. CASE SpawnFails \/ FdopenFails
  BY <1>1, <1>10 DEF SpawnFails, FdopenFails, Goto, command
<1> QED BY <1>2, <1>3, <1>4, <1>5, <1>6, <1>7, <1>8, <1>9, <1>10
        DEF Next, MainStep, ChildStep

(* Which reading a step may take, by where the main thread and the command   *)
(* stand; and the count is the one a sample under way was read from, or more. *)
LEMMA ReadingKept ==
  ASSUME IInv, Next
  PROVE  /\ main # "initial" => reading'["initial"] = reading["initial"]
         /\ child # "none" => reading'["started"] = reading["started"]
         /\ child = "exited" => reading'["ended"] = reading["ended"]
         /\ main = "over" => reading'["final"] = reading["final"]
<1> USE DEF IInv, TypeOK, Moments, Record, Output, BeforeFork, BeforeThread
<1>1. CASE MainStep
  BY <1>1 DEF MainStep, Goto, ReadInitial, FirstSample, StartSampler, Fork, Fdopen,
     ReadLine, ReadEof, Wait, Stop, Join, LastSample, ReadFinal, DestroyStatics, ProcessGone
<1>2. CASE SamplerStep
  BY <1>2 DEF SamplerStep, SamplerRound, SamplerReturns, SamplerRead, SamplerPush,
     SamplerWakes
<1>3. CASE ChildStep \/ ClosesStdout \/ LeavesProcess \/ Traffic \/ Finished
  BY <1>3 DEF ChildStep, WriteLine, ChildExits, OrphanExits, ClosesStdout,
     LeavesProcess, Traffic, Finished, vars
<1>4. CASE SpawnFails \/ FdopenFails
  BY <1>4 DEF SpawnFails, FdopenFails
<1> QED BY <1>1, <1>2, <1>3, <1>4 DEF Next

(* How a step comes to these places, or takes these readings.                *)
LEMMA Arrivals ==
  ASSUME IInv, Next
  PROVE  /\ main = "initial" => samples' = <<>>
         /\ child' # "none" /\ child = "none" =>
              main = "fork" /\ UNCHANGED samples /\ reading'["started"] = counter
         /\ main' = "over" /\ main # "over" =>
              main = "final" /\ UNCHANGED samples /\ reading'["final"] = counter
         /\ main' = "final" /\ main # "final" /\ detailed => LastSample
         /\ sampler' = "push" =>
              SamplerRead \/ (sampler = "push" /\ UNCHANGED <<sampled, samples>>)
         /\ detailed' = detailed
<1> USE DEF IInv, TypeOK, Moments, Record, series, threads, command, Threads,
        BeforeThread, Lengths
<1>1. CASE MainStep
  <2>1. CASE ReadInitial \/ FirstSample \/ StartSampler \/ Fork
    BY <2>1 DEF Goto, ReadInitial, FirstSample, StartSampler, Fork
  <2>2. CASE Fdopen \/ ReadLine \/ ReadEof \/ DestroyStatics \/ ProcessGone
    BY <2>2 DEF Goto, Fdopen, ReadLine, ReadEof, DestroyStatics, ProcessGone
  <2>3. CASE Wait \/ Stop \/ Join \/ ReadFinal
    BY <2>3 DEF Goto, Wait, Stop, Join, ReadFinal
  <2>4. CASE LastSample
    <3>1. main = "lastSample" /\ main' = "final" /\ sampler' = sampler
          /\ UNCHANGED <<child, detailed>> /\ sampler = "returned"
      BY <2>4 DEF LastSample, Goto
    <3> QED BY <2>4, <3>1
  <2> QED BY <1>1, <2>1, <2>2, <2>3, <2>4 DEF MainStep
<1>2. CASE SamplerStep
  <2>1. main # "initial" /\ main' = main /\ child' = child /\ detailed' = detailed
    BY <1>2 DEF SamplerStep, SGoto, SamplerRound, SamplerReturns, SamplerRead,
       SamplerPush, SamplerWakes
  <2>2. sampler' = "push" => SamplerRead
    BY <1>2 DEF SamplerStep, SGoto, SamplerRound, SamplerReturns, SamplerPush, SamplerWakes
  <2> HIDE DEF IInv, TypeOK, Threads, Lengths
  <2> QED BY <2>1, <2>2
<1>3. CASE ChildStep \/ ClosesStdout \/ LeavesProcess \/ Traffic \/ Finished
  BY <1>3 DEF ChildStep, WriteLine, ChildExits, OrphanExits, ClosesStdout,
     LeavesProcess, Traffic, Finished, vars
<1>4. CASE SpawnFails \/ FdopenFails
  BY <1>4 DEF SpawnFails, FdopenFails, Goto
<1> QED BY <1>1, <1>2, <1>3, <1>4 DEF Next

LEMMA SeriesNext == IInv /\ Next => Series'
<1> SUFFICES ASSUME IInv, Next PROVE Series'  OBVIOUS
<1>1. /\ counter \in Int /\ counter' \in Int /\ 0 <= counter /\ counter <= counter'
      /\ \A m \in Moments : reading[m] \in Int /\ reading'[m] \in Int /\ reading[m] <= counter
      /\ samples \in Seq(Int) /\ \A i \in 1..Len(samples) : samples[i] \in Int
      /\ Len(samples) \in Nat
  <2>1. TypeOK /\ TypeOK' /\ Order  BY TypesNext DEF IInv
  <2>2. MaxCount \in Nat  BY SamplerAssumption
  <2>3. samples \in Seq(Int)  BY <2>1, <2>2 DEF TypeOK
  <2>4. \A i \in 1..Len(samples) : samples[i] \in Int  BY <2>3
  <2> QED BY <2>1, <2>2, <2>3, <2>4, ReadingStep DEF TypeOK, Order, Unread
<1>2. CASE UNCHANGED samples
  <2>1. \A i \in 1..Len(samples) : samples[i] <= counter'
    BY <1>1 DEF IInv, Series
  <2>2. sampler' = "push" => /\ sampled' \in 0..counter'
                             /\ \A i \in 1..Len(samples) : samples[i] <= sampled'
    <3>1. CASE SamplerRead
      BY <1>1, <3>1 DEF SamplerRead, SGoto, IInv, Series
    <3>2. CASE sampler = "push" /\ sampled' = sampled
      BY <1>1, <3>2 DEF IInv, Series
    <3> QED BY <3>1, <3>2, Arrivals
  <2>3. Len(samples) > 0 => reading'["initial"] <= samples[1]
    <3>1. Len(samples) > 0 => main # "initial"  BY DEF IInv, Lengths
    <3> QED BY <3>1, ReadingKept DEF IInv, Series
  <2>4. Len(samples) > 0 /\ detailed /\ child' # "none" =>
          samples[1] <= reading'["started"]
    <3>1. CASE child # "none"  BY <3>1, ReadingKept DEF IInv, Series
    <3>2. CASE child = "none"
      <4>1. child' # "none" => reading'["started"] = counter  BY <3>2, Arrivals
      <4>2. Len(samples) > 0 => 1 \in 1..Len(samples)  BY <1>1
      <4> QED BY <4>1, <4>2 DEF IInv, Series
    <3> QED BY <3>1, <3>2
  <2>5. detailed /\ main' \in {"final", "over"} =>
          reading'["ended"] <= samples[Len(samples)]
    <3> HAVE detailed /\ main' \in {"final", "over"}
    <3>1. main \in {"final", "over"}
      <4>1. ~LastSample
        <5>1. LastSample => Len(samples') = Len(samples) + 1
          BY <1>1 DEF LastSample
        <5> QED BY <1>1, <1>2, <5>1
      <4> QED BY <4>1, Arrivals
    <3>2. child = "exited"  BY <3>1 DEF IInv, Output, AfterCommand
    <3> QED BY <3>1, <3>2, ReadingKept DEF IInv, Series
  <2>6. detailed /\ main' = "over" => samples[Len(samples)] <= reading'["final"]
    <3> HAVE detailed /\ main' = "over"
    <3>1. CASE main = "over"  BY <3>1, ReadingKept DEF IInv, Series
    <3>2. CASE main # "over"
      <4>1. main = "final" /\ reading'["final"] = counter  BY <3>2, Arrivals
      <4>2. Len(samples) \in 1..Len(samples)  BY <1>1, <4>1 DEF IInv, Lengths
      <4> QED BY <4>1, <4>2 DEF IInv, Series
    <3> QED BY <3>1, <3>2
  <2>7. detailed' = detailed  BY Arrivals
  <2>8. \A i, j \in 1..Len(samples) : i <= j => samples[i] <= samples[j]
    BY DEF IInv, Series
  <2> QED BY <1>2, <2>1, <2>2, <2>3, <2>4, <2>5, <2>6, <2>7, <2>8 DEF Series
<1>3. ASSUME NEW x \in 0..counter, samples' = Append(samples, x),
             \A i \in 1..Len(samples) : samples[i] <= x,
             UNCHANGED <<counter, reading, child>>,
             reading["initial"] <= x,
             Len(samples) = 0 => child = "none",
             sampler' # "push",
             main' = "final" => x = counter,
             main' # "over"
      PROVE  Series'
  <2>1. /\ Len(samples') = Len(samples) + 1 /\ samples'[Len(samples) + 1] = x
        /\ \A i \in 1..Len(samples) : samples'[i] = samples[i]
    BY <1>1, <1>3
  <2>2. \A i \in 1..Len(samples') : samples'[i] <= counter'
    BY <1>1, <1>3, <2>1 DEF IInv, Series
  <2>3. \A i, j \in 1..Len(samples') : i <= j => samples'[i] <= samples'[j]
    BY <1>1, <1>3, <2>1 DEF IInv, Series
  <2>4. reading'["initial"] <= samples'[1]
    <3>1. CASE Len(samples) = 0  BY <1>3, <2>1, <3>1
    <3>2. CASE Len(samples) > 0  BY <1>1, <1>3, <2>1, <3>2 DEF IInv, Series
    <3> QED BY <1>1, <3>1, <3>2
  <2>5. detailed /\ child' # "none" => samples'[1] <= reading'["started"]
    <3>1. child # "none" => Len(samples) > 0  BY <1>1, <1>3
    <3> QED BY <1>1, <1>3, <2>1, <3>1 DEF IInv, Series
  <2>6. main' = "final" => reading'["ended"] <= samples'[Len(samples')]
    BY <1>1, <1>3, <2>1 DEF Moments
  <2>7. detailed' = detailed  BY Arrivals
  <2> QED BY <1>3, <2>2, <2>3, <2>4, <2>5, <2>6, <2>7 DEF Series
<1>4. CASE FirstSample
  <2>1. /\ main = "firstSample" /\ main' = "spawn" /\ sampler' = sampler
        /\ samples' = Append(samples, counter)
        /\ UNCHANGED <<counter, reading, child>>
    BY <1>4 DEF FirstSample, Goto, command
  <2>2. Len(samples) = 0 /\ child = "none" /\ sampler = "none"
    BY <2>1 DEF IInv, Lengths, Output, BeforeFork, BeforeThread, Threads
  <2>3. reading["initial"] <= counter /\ \A i \in 1..Len(samples) : samples[i] <= counter
    BY <1>1 DEF Moments, IInv, Series
  <2> QED BY <1>1, <1>3, <2>1, <2>2, <2>3
<1>5. CASE LastSample
  <2>1. /\ main = "lastSample" /\ main' = "final" /\ sampler' = sampler
        /\ samples' = Append(samples, counter)
        /\ UNCHANGED <<counter, reading, child>>
    BY <1>5 DEF LastSample, Goto, command
  <2>2. Len(samples) > 0 /\ sampler = "returned"
    BY <2>1 DEF IInv, Lengths, Threads
  <2>3. reading["initial"] <= counter /\ \A i \in 1..Len(samples) : samples[i] <= counter
    BY <1>1 DEF Moments, IInv, Series
  <2> QED BY <1>1, <1>3, <2>1, <2>2, <2>3
<1>6. CASE SamplerPush
  <2>1. /\ sampler = "push" /\ sampler' = "sleep" /\ main' = main
        /\ samples' = Append(samples, sampled)
        /\ UNCHANGED <<counter, reading, child>>
    BY <1>6 DEF SamplerPush, SGoto, command
  <2>2. /\ sampled \in 0..counter /\ \A i \in 1..Len(samples) : samples[i] <= sampled
    BY <2>1 DEF IInv, Series
  <2>3. main \notin {"initial", "firstSample", "final", "over"} /\ Len(samples) > 0
    BY <2>1 DEF IInv, Threads, BeforeThread, Lengths
  <2>4. reading["initial"] <= sampled
    <3>1. reading["initial"] <= samples[1]  BY <2>3 DEF IInv, Series
    <3>2. 1 \in 1..Len(samples) /\ samples[1] <= sampled  BY <1>1, <2>2, <2>3
    <3> QED BY <1>1, <2>2, <3>1, <3>2 DEF Moments
  <2> QED BY <1>1, <1>3, <2>1, <2>2, <2>3, <2>4
<1>7. UNCHANGED samples \/ FirstSample \/ LastSample \/ SamplerPush
  BY DEF Next, MainStep, ReadInitial, StartSampler, Fork, Fdopen, ReadLine, ReadEof, Wait,
     Stop, Join, ReadFinal, DestroyStatics, ProcessGone, SamplerStep, SamplerRound,
     SamplerReturns, SamplerRead, SamplerWakes, ChildStep, WriteLine, ChildExits,
     OrphanExits, ClosesStdout, LeavesProcess, Traffic, Finished, SpawnFails, FdopenFails,
     series, vars
<1> QED BY <1>2, <1>4, <1>5, <1>6, <1>7

LEMMA StutterInv == IInv /\ UNCHANGED vars => IInv'
<1> SUFFICES ASSUME IInv, UNCHANGED vars PROVE IInv'  OBVIOUS
<1> USE DEF IInv, vars, threads, series, command, io
<1>1. TypeOK'  BY DEF TypeOK
<1>2. Threads' /\ Lengths'  BY DEF Threads, Lengths
<1>3. Output'  BY DEF Output, Writers
<1>4. Order' /\ Series'  BY DEF Order, Series
<1> QED BY <1>1, <1>2, <1>3, <1>4

(* The inductive invariant: where each thread can be while the other is      *)
(* where it is, what is left to read, and the order of the readings          *)
(* (counter_aggregation.cpp:1980-2108, utils.cpp:142-208).                   *)
THEOREM Invariance == Spec => []IInv
<1>1. IInv /\ [Next]_vars => IInv'
  BY TypesNext, ThreadsNext, LengthsNext, OutputNext, OrderNext, SeriesNext, StutterInv
     DEF IInv
<1> QED BY <1>1, InitInv, PTL DEF Spec

(* Every variable keeps its type and the series its bound.                   *)
THEOREM TypeCorrectness == Spec => []TypeOK
<1>1. IInv => TypeOK  BY DEF IInv
<1> QED BY <1>1, Invariance, PTL

(* node_ts.samples is never touched by both threads: the main thread does so *)
(* before the sampling thread starts or after it returned                    *)
(* (counter_aggregation.cpp:2033, 2040, 2054, 2086 against 1347).            *)
THEOREM NoSharing == Spec => []SamplesNotShared
<1>1. IInv => SamplesNotShared
  BY DEF IInv, SamplesNotShared, Threads, BeforeThread
<1> QED BY <1>1, Invariance, PTL

(* The readings span the command, and the time series lies between them,     *)
(* never goes back and spans it too, whenever the traffic comes              *)
(* (counter_aggregation.cpp:1996, 2007-2034, 2060-2089).                     *)
THEOREM ReadingsSpan == Spec => []ReadingsSpanCommand
<1>1. IInv => ReadingsSpanCommand
  <2> SUFFICES ASSUME IInv, main = "over" PROVE ReadingsSpanCommand
    BY DEF ReadingsSpanCommand
  <2>1. child = "exited"  BY DEF IInv, Output, AfterCommand
  <2>2. Len(samples) \in Nat  BY DEF IInv, TypeOK
  <2>3. detailed => Len(samples) > 0  BY DEF IInv, Lengths
  <2>4. \A i \in 1..(Len(samples) - 1) : samples[i] <= samples[i + 1]
    <3> TAKE i \in 1..(Len(samples) - 1)
    <3>1. i \in 1..Len(samples) /\ i + 1 \in 1..Len(samples) /\ i <= i + 1  BY <2>2
    <3> QED BY <3>1 DEF IInv, Series
  <2> QED BY <2>1, <2>3, <2>4 DEF ReadingsSpanCommand, IInv, Order, Series
<1> QED BY <1>1, Invariance, PTL

(* run_command goes on only when the command is over, every line was read    *)
(* and nobody it left behind can write another one, unless its output could  *)
(* not be opened (utils.cpp:142-208).                                        *)
THEOREM NothingUnread == Spec => []EveryLineCaptured
<1>1. IInv => EveryLineCaptured
  BY DEF IInv, EveryLineCaptured, Output, AfterOutput, AfterCommand, Writers
<1> QED BY <1>1, Invariance, PTL
=============================================================================
