--------------------------- MODULE PipelineProofs ---------------------------
(***************************************************************************)
(* Proofs about Pipeline, for any number of CPUs, runs, iterations and     *)
(* foreign events.  What the reader has found is related to what the       *)
(* module has traced: of a complete recording the two agree at every step, *)
(* of a lossy one the reader has found no more.  The reader's side is      *)
(* taken from TraceStoreProofs.                                            *)
(***************************************************************************)
EXTENDS Pipeline, TraceStoreProofs, InductionLemmas

MeasurementEvents == ({"cpu_info", "cpu_freq"} \X CPUs) \cup {<<"ina231", 0>>}

\* The measurements the current iteration has still to trace.
Waiting == {todo[i] : i \in 1 .. Len(todo)}

ProducerOK ==
    /\ Runs!TypeOK
    /\ todo \in Seq(MeasurementEvents)
    /\ lossy \in BOOLEAN
    /\ emitted \in Seq(Nat)
    /\ iterations \in Nat
    /\ run # "closed" => emitted # <<>>

\* The reader of a complete recording is where the module is.
Synced ==
    ~lossy =>
        /\ run = "closed" => state = "INIT"
        /\ run = "opened" => state = "START"
        /\ run = "measured" => state = "ITERATION"
        /\ Len(runs) = Len(emitted)
        /\ \A i \in 1 .. Len(runs) : Len(runs[i].measurements) = emitted[i]

\* In a complete recording all samples but the last have the counters of all
\* CPUs, and those the last one has not are still to come.
Counted ==
    ~lossy =>
        /\ failed = "none"
        /\ state = "START" => Len(LastRun.measurements) = 0
        /\ state = "ITERATION" =>
               /\ \A i \in 1 .. Len(LastRun.measurements) - 1 :
                      CPUs \subseteq LastRun.measurements[i].counters
               /\ \A c \in CPUs : \/ c \in LastRun.measurements[Len(LastRun.measurements)].counters
                                  \/ <<"cpu_info", c>> \in Waiting

Merged ==
    /\ Len(runs) <= Len(emitted)
    /\ IsFiniteSet(Filed)
    /\ Cardinality(Filed) <= iterations

\* The numbers of the frames drawn in run r: the first of all has none.
DrawnIn(d, r) == {k \in 1 .. Len(d) - 1 : d[k + 1] = r}

\* The frames and Chrome events the reader has filed are those traced inside
\* runs, and its counter of frames has followed.
Told ==
    ~lossy =>
        /\ drawn \in Seq(Nat) /\ told \in Seq(Nat) /\ Len(told) = Len(emitted)
        /\ \A k \in 1 .. Len(drawn) : drawn[k] \in 1 .. Len(emitted)
        /\ seenFirst <=> drawn # <<>>
        /\ frameId = IF drawn = <<>> THEN 0 ELSE Len(drawn) - 1
        /\ \A r \in 1 .. Len(runs) :
               /\ Ids(runs[r].frames) = DrawnIn(drawn, r)
               /\ runs[r].chrome_events = told[r]

PInv == SInv /\ Links /\ ProducerOK /\ Synced /\ Counted /\ Merged /\ Told

-----------------------------------------------------------------------------
(* The measurements of an iteration.                                       *)

\* An iteration measures the counters of every CPU (module.c:187-201).
LEMMA MeasurementsCover ==
  /\ Measurements \in Seq(MeasurementEvents)
  /\ \A c \in CPUs : \E i \in 1 .. Len(Measurements) : Measurements[i] = <<"cpu_info", c>>
<1>. DEFINE a == Ascending(CPUs)
            b == Ascending(FreqCPUs)
            u == [i \in DOMAIN a |-> <<"cpu_info", a[i]>>]
            v == [i \in DOMAIN b |-> <<"cpu_freq", b[i]>>]
            w == <<<<"ina231", 0>>>>
<1>0. /\ CPUs \subseteq Nat /\ IsFiniteSet(CPUs)
      /\ FreqCPUs \subseteq Nat /\ IsFiniteSet(FreqCPUs) /\ FreqCPUs \subseteq CPUs
  BY CPUsAssumption, PipelineAssumption, FS_Subset
<1>1. a \in Seq(CPUs) /\ \A c \in CPUs : \E i \in 1 .. Len(a) : a[i] = c
  BY <1>0, AscendingLists
<1>2. b \in Seq(CPUs)
  BY <1>0, AscendingLists
<1>3. Measurements = u \o v \o w
  BY DEF Measurements
<1>. HIDE DEF a, b
<1>4. u \in Seq(MeasurementEvents) /\ Len(u) = Len(a)
  BY <1>1 DEF MeasurementEvents
<1>5. v \in Seq(MeasurementEvents)
  BY <1>0, <1>2 DEF MeasurementEvents
<1>6. w \in Seq(MeasurementEvents)
  BY DEF MeasurementEvents
<1>7. \A i \in 1 .. Len(a) : u[i] = <<"cpu_info", a[i]>>
  BY <1>1
<1>. HIDE DEF u, v, w
<1>8. /\ u \o v \o w \in Seq(MeasurementEvents)
      /\ \A i \in 1 .. Len(u) : i \in 1 .. Len(u \o v \o w) /\ (u \o v \o w)[i] = u[i]
  BY <1>4, <1>5, <1>6
<1>9. ASSUME NEW c \in CPUs
      PROVE  \E i \in 1 .. Len(Measurements) : Measurements[i] = <<"cpu_info", c>>
  <2>1. PICK i \in 1 .. Len(a) : a[i] = c
    BY <1>1
  <2>. QED
    BY <1>3, <1>4, <1>7, <1>8, <2>1
<1>. QED
  BY <1>3, <1>8, <1>9

-----------------------------------------------------------------------------
(* What an event does to the reader.                                       *)

SameLens ==
    /\ Len(runs') = Len(runs)
    /\ \A i \in 1 .. Len(runs) : Len(runs'[i].measurements) = Len(runs[i].measurements)

NoFewerCounters ==
    /\ Len(LastRun'.measurements) = Len(LastRun.measurements)
    /\ \A i \in 1 .. Len(LastRun.measurements) :
           LastRun.measurements[i].counters \subseteq LastRun'.measurements[i].counters

\* The last run replaced.
LEMMA Replaced ==
  ASSUME runs \in Seq(RunInfo), runs # <<>>, NEW r \in RunInfo, runs' = WithRun(r)
  PROVE  /\ Len(runs) \in Nat \ {0}
         /\ Len(runs') = Len(runs)
         /\ LastRun' = r
         /\ \A i \in 1 .. Len(runs) : runs'[i] = IF i = Len(runs) THEN r ELSE runs[i]
  BY DEF WithRun, LastRun

\* A measurement, a frame or a Chrome event leaves the reader in its state and
\* the runs with as many measurements as they had, and takes no counters away.
LEMMA MeasurementKeeps ==
  ASSUME SInv, \/ \E c \in CPUs : CpuInfo(c) \/ CpuFreq(c)
               \/ Ina231 \/ OpenglFrame \/ ChromeEvent
  PROVE  /\ state' = state
         /\ SameLens
         /\ state = "ITERATION" => NoFewerCounters
<1>1. CASE UNCHANGED <<state, runs>>
  BY <1>1, Taking DEF SameLens, NoFewerCounters, LastRun
<1>2. ASSUME KeepsRuns(FALSE), state' = state
      PROVE  SameLens /\ (state = "ITERATION" => NoFewerCounters)
  <2>1. CASE runs' = runs
    BY <1>1, <1>2, <2>1
  <2>2. CASE runs' # runs
    <3>1. runs # <<>> /\ runs \in Seq(RunInfo)
      BY <1>2, <2>2 DEF KeepsRuns, SInv, TypeOK
    <3>2. PICK r \in RunInfo : /\ runs' = WithRun(r)
                               /\ SameLinks(LastRun, r)
                               /\ Len(r.measurements) = Len(LastRun.measurements) + 0
      BY <1>2, <2>2 DEF KeepsRuns
    <3>3. LastRun = runs[Len(runs)] /\ Len(LastRun.measurements) \in Nat
      BY <3>1, LastRunType DEF LastRun, RunInfo
    <3>. QED
      BY <3>1, <3>2, <3>3, Replaced DEF SameLens, NoFewerCounters, SameLinks
  <2>. QED
    BY <2>1, <2>2
<1>3. CASE ChromeEvent
  BY <1>2, <1>3, ChromeKeeps
<1>4. CASE state # "ITERATION" /\ ~ChromeEvent
  BY <1>1, <1>4 DEF CpuInfo, CpuFreq, Ina231, OpenglFrame, InMeasurement, Drop, vars
<1>5. ASSUME NEW c \in CPUs, CpuInfo(c) \/ CpuFreq(c), state = "ITERATION"
      PROVE  state' = state /\ SameLens /\ NoFewerCounters
  BY <1>2, <1>5, SampleKeeps
<1>6. CASE Ina231 /\ state = "ITERATION"
  BY <1>2, <1>6, Ina231Keeps
<1>7. CASE OpenglFrame /\ state = "ITERATION"
  <2>1. CASE UNCHANGED runs
    BY <1>1, <1>7, <2>1, FrameAdds
  <2>2. CASE ~UNCHANGED runs
    <3>1. PICK r \in RunInfo : runs' = WithRun(r) /\ AddsFrame(LastRun, r, frameId')
      BY <1>7, <2>2, FrameAdds
    <3>2. PICK m \in Measurement :
            /\ m.counters = LastRun.measurements[Len(LastRun.measurements)].counters
            /\ r.measurements = [LastRun.measurements EXCEPT ![Len(LastRun.measurements)] = m]
      BY <3>1 DEF AddsFrame
    <3>3. runs \in Seq(RunInfo) /\ runs # <<>> /\ LastRun.measurements \in Seq(Measurement)
      BY <1>7, Taking
    <3>4. /\ Len(r.measurements) = Len(LastRun.measurements)
          /\ \A i \in 1 .. Len(LastRun.measurements) :
                 LastRun.measurements[i].counters \subseteq r.measurements[i].counters
      BY <3>2, <3>3
    <3>5. state' = state
      BY <1>7, FrameAdds
    <3>6. LastRun = runs[Len(runs)]
      BY DEF LastRun
    <3>. QED
      BY <3>1, <3>3, <3>4, <3>5, <3>6, Replaced DEF SameLens, NoFewerCounters
  <2>. QED
    BY <2>1, <2>2
<1>. QED
  BY <1>3, <1>4, <1>5, <1>6, <1>7

\* Of these, only the counters of a CPU can end the program.
LEMMA OthersPass ==
  ASSUME SInv, \/ \E c \in CPUs : CpuFreq(c)
               \/ Ina231 \/ OpenglFrame \/ ChromeEvent
  PROVE  failed' = failed
<1>1. CASE state = "ITERATION"
  BY <1>1, Taking DEF CpuFreq, Ina231, OpenglFrame, ChromeEvent, InMeasurement
<1>2. CASE state # "ITERATION"
  BY <1>2 DEF CpuFreq, Ina231, OpenglFrame, ChromeEvent, InMeasurement, Drop, vars,
              SInv, Opened
<1>. QED
  BY <1>1, <1>2

\* Where all earlier samples have the counters of a CPU its event is read, and
\* the last sample has them too.
LEMMA CountersRead ==
  ASSUME SInv, NEW c \in CPUs, CpuInfo(c), state = "ITERATION",
         \A i \in 1 .. Len(LastRun.measurements) - 1 : c \in LastRun.measurements[i].counters
  PROVE  /\ failed' = failed
         /\ c \in LastRun'.measurements[Len(LastRun.measurements)].counters
<1>. DEFINE m == [LastMeasurement EXCEPT !.counters = @ \cup {c}]
<1>1. runs' = WithRun(WithMeasurement(m)) /\ failed' = failed
  BY Taking DEF CpuInfo, InMeasurement
<1>2. /\ m \in Measurement /\ m.opengl_id = LastMeasurement.opengl_id
      /\ LastMeasurement.counters \subseteq m.counters
      /\ c \in m.counters
  BY Taking DEF Measurement
<1>3. WithMeasurement(m) \in RunInfo
  BY <1>2, WithMeasurementLinks
<1>4. WithMeasurement(m).measurements
          = [LastRun.measurements EXCEPT ![Len(LastRun.measurements)] = m]
  BY Taking DEF WithMeasurement, RunInfo
<1>5. LastRun' = WithMeasurement(m)
  BY <1>1, <1>3, Taking, Replaced
<1>6. Len(LastRun.measurements) \in 1 .. Len(LastRun.measurements)
  BY Taking
<1>. HIDE DEF m
<1>7. WithMeasurement(m).measurements[Len(LastRun.measurements)] = m
  BY <1>4, <1>6, Taking
<1>. QED
  BY <1>1, <1>2, <1>5, <1>7

-----------------------------------------------------------------------------
(* The runs and iterations filed.                                          *)

\* Runs of the same lengths hold the same iterations.
LEMMA FiledSame ==
  ASSUME SameLens
  PROVE  Filed' = Filed
<1>. DEFINE part(r) == {r} \X (1 .. Len(runs[r].measurements))
            partNext(r) == {r} \X (1 .. Len(runs'[r].measurements))
<1>1. \A r \in 1 .. Len(runs) : partNext(r) = part(r)
  BY DEF SameLens
<1>2. {part(r) : r \in 1 .. Len(runs)} = {partNext(r) : r \in 1 .. Len(runs)}
  BY <1>1
<1>3. Len(runs') = Len(runs)
  BY DEF SameLens
<1>. QED
  BY <1>2, <1>3 DEF Filed

\* What is filed, before a step and after it.
LEMMA FiledMembers ==
  /\ \A p : p \in Filed <=> \E r \in 1 .. Len(runs) :
                \E i \in 1 .. Len(runs[r].measurements) : p = <<r, i>>
  /\ \A p : p \in Filed' <=> \E r \in 1 .. Len(runs') :
                \E i \in 1 .. Len(runs'[r].measurements) : p = <<r, i>>
  BY DEF Filed

\* A new run holds no iteration.
LEMMA FiledStart ==
  ASSUME runs \in Seq(RunInfo), runs' = Append(runs, NewRun)
  PROVE  Filed' = Filed
<1>. DEFINE n == Len(runs)
<1>1. n \in Nat /\ Len(runs') = n + 1 /\ runs'[n + 1] = NewRun
      /\ \A i \in 1 .. n : runs'[i] = runs[i]
  OBVIOUS
<1>2. Len(NewRun.measurements) = 0
  BY DEF NewRun
<1>. HIDE DEF n
<1>3. \A p : p \in Filed <=> \E r \in 1 .. n :
             \E i \in 1 .. Len(runs[r].measurements) : p = <<r, i>>
  BY FiledMembers DEF n
<1>4. \A p : p \in Filed' <=> \E r \in 1 .. n + 1 :
             \E i \in 1 .. Len(runs'[r].measurements) : p = <<r, i>>
  BY <1>1, FiledMembers
<1>5. \A r \in 1 .. n + 1 : r = n + 1 \/ r \in 1 .. n
  BY <1>1
<1>6. \A r \in 1 .. n : r \in 1 .. n + 1
  BY <1>1
<1>7. 1 .. Len(runs'[n + 1].measurements) = {}
  BY <1>1, <1>2
<1>8. ASSUME NEW p, p \in Filed'
      PROVE  p \in Filed
  <2>1. PICK r \in 1 .. n + 1 : \E i \in 1 .. Len(runs'[r].measurements) : p = <<r, i>>
    BY <1>4, <1>8
  <2>2. PICK i \in 1 .. Len(runs'[r].measurements) : p = <<r, i>>
    BY <2>1
  <2>3. r \in 1 .. n
    BY <1>5, <1>7, <2>2
  <2>4. runs'[r] = runs[r]
    BY <1>1, <2>3
  <2>. QED
    BY <1>3, <2>2, <2>3, <2>4
<1>9. ASSUME NEW p, p \in Filed
      PROVE  p \in Filed'
  <2>1. PICK r \in 1 .. n : \E i \in 1 .. Len(runs[r].measurements) : p = <<r, i>>
    BY <1>3, <1>9
  <2>2. PICK i \in 1 .. Len(runs[r].measurements) : p = <<r, i>>
    BY <2>1
  <2>3. runs'[r] = runs[r] /\ r \in 1 .. n + 1
    BY <1>1, <1>6
  <2>. QED
    BY <1>4, <2>2, <2>3
<1>10. Filed' \subseteq Filed /\ Filed \subseteq Filed'
  BY <1>8, <1>9
<1>. QED
  BY <1>10

\* An iteration is filed once.
LEMMA FiledIteration ==
  ASSUME SInv, IterationMarker, IsFiniteSet(Filed)
  PROVE  IsFiniteSet(Filed') /\ Cardinality(Filed') <= Cardinality(Filed) + 1
<1>1. Cardinality(Filed) \in Nat
  BY FS_CardinalityType
<1>2. CASE state = "INIT"
  <2>1. SameLens
    BY <1>2, IterationAdds DEF SameLens
  <2>. QED
    BY <1>1, <2>1, FiledSame
<1>3. CASE state # "INIT"
  <2>1. runs # <<>> /\ runs \in Seq(RunInfo)
    BY <1>3 DEF SInv, TypeOK, Opened
  <2>. DEFINE n == Len(runs)
              k == Len(LastRun.measurements)
  <2>2. LastRun = runs[n] /\ k \in Nat /\ n \in Nat \ {0}
    BY <2>1, LastRunType DEF LastRun, RunInfo
  <2>3. PICK r \in RunInfo : runs' = WithRun(r) /\ Len(r.measurements) = k + 1
    BY <1>3, IterationAdds DEF KeepsRuns
  <2>4. Len(runs') = n /\ \A i \in 1 .. n : runs'[i] = IF i = n THEN r ELSE runs[i]
    BY <2>1, <2>3, Replaced
  <2>. HIDE DEF n
  <2>5. ASSUME NEW i \in 1 .. n, NEW j \in 1 .. Len(runs'[i].measurements)
        PROVE  <<i, j>> \in Filed \cup {<<n, k + 1>>}
    <3>1. CASE i # n
      BY <2>4, <2>5, <3>1, FiledMembers DEF n
    <3>2. CASE i = n /\ j = k + 1
      BY <3>2
    <3>3. CASE i = n /\ j # k + 1
      <4>1. j \in 1 .. Len(runs[i].measurements)
        BY <2>2, <2>3, <2>4, <2>5, <3>3
      <4>. QED
        BY <2>5, <4>1, FiledMembers DEF n
    <3>. QED
      BY <3>1, <3>2, <3>3
  <2>6. \A p \in Filed' : \E i \in 1 .. n : \E j \in 1 .. Len(runs'[i].measurements) : p = <<i, j>>
    BY <2>4, FiledMembers
  <2>7. Filed' \subseteq Filed \cup {<<n, k + 1>>}
    BY <2>5, <2>6
  <2>8. /\ IsFiniteSet(Filed \cup {<<n, k + 1>>})
        /\ Cardinality(Filed \cup {<<n, k + 1>>}) <= Cardinality(Filed) + 1
    <3>. DEFINE x == <<n, k + 1>>
    <3>. HIDE DEF x
    <3>1. /\ IsFiniteSet(Filed \cup {x})
          /\ Cardinality(Filed \cup {x}) =
                 IF x \in Filed THEN Cardinality(Filed) ELSE Cardinality(Filed) + 1
      BY FS_AddElement
    <3>2. Cardinality(Filed \cup {x}) <= Cardinality(Filed) + 1
      BY <1>1, <3>1
    <3>. QED
      BY <3>1, <3>2 DEF x
  <2>9. /\ IsFiniteSet(Filed')
        /\ Cardinality(Filed') <= Cardinality(Filed \cup {<<n, k + 1>>})
    BY <2>7, <2>8, FS_Subset
  <2>10. Cardinality(Filed') \in Nat /\ Cardinality(Filed \cup {<<n, k + 1>>}) \in Nat
    BY <2>8, <2>9, FS_CardinalityType
  <2>. QED
    BY <1>1, <2>8, <2>9, <2>10
<1>. QED
  BY <1>2, <1>3

-----------------------------------------------------------------------------
(* Every step keeps the invariant.                                         *)

\* A step of the composition is a step of the reader or none.
LEMMA ReaderStep ==
  ASSUME ProducerOK, [PipeNext]_pipe
  PROVE  [Next]_vars
<1>1. CASE UNCHANGED pipe
  BY <1>1 DEF pipe, store, vars
<1>2. CASE Requests
  BY <1>2 DEF Requests, store, vars
<1>3. CASE TraceStart /\ failed = "none"
  BY <1>3 DEF TraceStart, Deliver, store, vars, Next
<1>4. CASE TraceEnd /\ failed = "none"
  BY <1>4 DEF TraceEnd, Deliver, store, vars, Next
<1>5. CASE TraceIteration /\ failed = "none"
  BY <1>5 DEF TraceIteration, Deliver, store, vars, Next
<1>6. CASE TraceMeasurement /\ failed = "none"
  <2>1. Head(todo) \in MeasurementEvents
    BY <1>6 DEF TraceMeasurement, ProducerOK
  <2>2. Head(todo)[1] # "ina231" => Head(todo)[2] \in CPUs
    BY <2>1 DEF MeasurementEvents
  <2>. QED
    BY <1>6, <2>2 DEF TraceMeasurement, Deliver, store, vars, Next
<1>7. CASE TraceForeign /\ failed = "none"
  BY <1>7 DEF TraceForeign, TraceFrame, TraceChrome, Deliver, store, vars, Next
<1>. QED
  BY <1>1, <1>2, <1>3, <1>4, <1>5, <1>6, <1>7 DEF PipeNext

\* The module's side of the invariant.
LEMMA ProducerStep == ProducerOK /\ [PipeNext]_pipe => ProducerOK'
<1>1. SUFFICES ASSUME ProducerOK, [PipeNext]_pipe PROVE ProducerOK'
  OBVIOUS
<1>. USE DEF ProducerOK, Runs!TypeOK
<1>2. CASE UNCHANGED pipe
  BY <1>1, <1>2 DEF pipe, producer
<1>3. CASE Requests
  BY <1>1, <1>3 DEF Requests, Runs!RequestMeasure, Runs!RequestCease
<1>4. CASE TraceStart
  <2>1. emitted' = Append(emitted, 0) /\ emitted \in Seq(Nat)
    BY <1>1, <1>4 DEF TraceStart
  <2>2. emitted' \in Seq(Nat) /\ emitted' # <<>>
    BY <2>1
  <2>. QED
    BY <1>1, <1>4, <2>2 DEF TraceStart, Runs!StartMarker, Deliver
<1>5. CASE TraceEnd
  BY <1>1, <1>5 DEF TraceEnd, Runs!EndMarker, Deliver
<1>6. CASE TraceIteration
  <2>1. todo' \in Seq(MeasurementEvents)
    BY <1>6, MeasurementsCover DEF TraceIteration
  <2>2. emitted' \in Seq(Nat) /\ (run # "closed" => emitted' # <<>>)
    BY <1>1, <1>6 DEF TraceIteration
  <2>3. run' \in {"closed", "opened", "measured"} /\ (run = "closed" => run' = "closed")
        /\ UNCHANGED <<asked, ceased>>
    BY <1>1, <1>6 DEF TraceIteration, Runs!Iteration
  <2>4. iterations' \in Nat /\ UNCHANGED lossy
    BY <1>1, <1>6 DEF TraceIteration, Deliver
  <2>. QED
    BY <1>1, <2>1, <2>2, <2>3, <2>4
<1>7. CASE TraceMeasurement
  <2>1. todo' \in Seq(MeasurementEvents)
    BY <1>1, <1>7 DEF TraceMeasurement
  <2>. QED
    BY <1>1, <1>7, <2>1 DEF TraceMeasurement, Deliver
<1>8. CASE TraceForeign
  BY <1>1, <1>8 DEF TraceForeign, TraceFrame, TraceChrome, Deliver
<1>. QED
  BY <1>1, <1>2, <1>3, <1>4, <1>5, <1>6, <1>7, <1>8 DEF PipeNext
\* What a step does to the reader, and which of its markers it delivers.
LEMMA StoreSteps ==
  ASSUME SInv, ProducerOK, [PipeNext]_pipe
  PROVE  \/ UNCHANGED store
         \/ TraceStart /\ StartMarker
         \/ TraceEnd /\ EndMarker
         \/ TraceIteration /\ IterationMarker
         \/ TraceMeasurement /\ \E c \in CPUs : Head(todo) = <<"cpu_info", c>> /\ CpuInfo(c)
         \/ TraceMeasurement /\ \E c \in CPUs : Head(todo) = <<"cpu_freq", c>> /\ CpuFreq(c)
         \/ TraceMeasurement /\ Head(todo) = <<"ina231", 0>> /\ Ina231
         \/ TraceForeign /\ (OpenglFrame \/ ChromeEvent)
<1>1. CASE UNCHANGED pipe \/ Requests
  BY <1>1 DEF pipe, Requests, store
<1>2. CASE TraceStart \/ TraceEnd \/ TraceIteration \/ TraceForeign
  BY <1>2 DEF TraceStart, TraceEnd, TraceIteration, TraceForeign, TraceFrame, TraceChrome, Deliver
<1>3. CASE TraceMeasurement
  <2>1. Head(todo) \in MeasurementEvents
    BY <1>3 DEF TraceMeasurement, ProducerOK
  <2>2. \/ \E c \in CPUs : Head(todo) = <<"cpu_info", c>>
        \/ \E c \in CPUs : Head(todo) = <<"cpu_freq", c>>
        \/ Head(todo) = <<"ina231", 0>>
    BY <2>1 DEF MeasurementEvents
  <2>. DEFINE e == Head(todo)
  <2>3. \/ UNCHANGED store
        \/ e[1] = "cpu_info" /\ CpuInfo(e[2])
        \/ e[1] = "cpu_freq" /\ CpuFreq(e[2])
        \/ e[1] = "ina231" /\ Ina231
    BY <1>3 DEF TraceMeasurement, Deliver
  <2>. HIDE DEF e
  <2>4. ASSUME NEW c \in CPUs, e = <<"cpu_info", c>>
        PROVE  UNCHANGED store \/ CpuInfo(c)
    BY <2>3, <2>4
  <2>5. ASSUME NEW c \in CPUs, e = <<"cpu_freq", c>>
        PROVE  UNCHANGED store \/ CpuFreq(c)
    BY <2>3, <2>5
  <2>6. ASSUME e = <<"ina231", 0>>
        PROVE  UNCHANGED store \/ Ina231
    BY <2>3, <2>6
  <2>. QED
    BY <1>3, <2>2, <2>4, <2>5, <2>6 DEF e
<1>. QED
  BY <1>1, <1>2, <1>3 DEF PipeNext

\* Lost or not, the reader finds no more runs and iterations than were traced.
LEMMA MergedStep ==
  ASSUME SInv, ProducerOK, Merged, [PipeNext]_pipe
  PROVE  Merged'
<1>1. /\ Len(emitted') \in {Len(emitted), Len(emitted) + 1}
      /\ TraceStart => Len(emitted') = Len(emitted) + 1
      /\ iterations' \in {iterations, iterations + 1}
      /\ TraceIteration => iterations' = iterations + 1
  <2>1. CASE TraceStart
    <3>1. emitted' = Append(emitted, 0) /\ emitted \in Seq(Nat)
      BY <2>1 DEF TraceStart, ProducerOK
    <3>2. Len(emitted') = Len(emitted) + 1
      BY <3>1
    <3>3. iterations' = iterations /\ iterations + 1 # iterations /\ todo' = todo
          /\ (TraceIteration => iterations' = iterations + 1)
      BY <2>1 DEF TraceStart, TraceIteration, ProducerOK
    <3>. QED
      BY <3>2, <3>3
  <2>2. CASE TraceIteration
    <3>1. emitted' = emitted \/ emitted' = [emitted EXCEPT ![Len(emitted)] = @ + 1]
      BY <2>2 DEF TraceIteration
    <3>2. Len(emitted') = Len(emitted)
      BY <3>1 DEF ProducerOK
    <3>3. iterations' = iterations + 1 /\ ~TraceStart
      BY <2>2 DEF TraceIteration, TraceStart, ProducerOK
    <3>. QED
      BY <3>2, <3>3
  <2>3. CASE ~TraceStart /\ ~TraceIteration
    BY <2>3 DEF PipeNext, pipe, producer, Requests, TraceEnd, TraceMeasurement, TraceForeign, TraceFrame, TraceChrome
  <2>. QED
    BY <2>1, <2>2, <2>3
<1>2. /\ Len(runs) \in Nat /\ Len(emitted) \in Nat /\ iterations \in Nat
      /\ runs \in Seq(RunInfo) /\ Cardinality(Filed) \in Nat
  BY FS_CardinalityType DEF SInv, TypeOK, ProducerOK, Merged
<1>3. ASSUME SameLens PROVE Merged'
  BY <1>1, <1>2, <1>3, FiledSame DEF Merged, SameLens
<1>4. CASE UNCHANGED runs
  BY <1>3, <1>4 DEF SameLens
<1>5. CASE UNCHANGED store \/ EndMarker
  BY <1>4, <1>5 DEF store, EndMarker
<1>6. CASE TraceStart /\ StartMarker
  <2>1. CASE runs' = Append(runs, NewRun)
    <3>1. Len(runs') = Len(runs) + 1
      BY <1>2, <2>1
    <3>. QED
      BY <1>1, <1>2, <1>6, <2>1, <3>1, FiledStart DEF Merged
  <2>. QED
    BY <1>4, <1>6, <2>1 DEF StartMarker
<1>7. CASE TraceIteration /\ IterationMarker
  <2>1. Len(runs') = Len(runs)
    <3>1. CASE state = "INIT"
      BY <1>7, <3>1, IterationAdds
    <3>2. CASE state # "INIT"
      <4>1. runs # <<>>
        BY <3>2 DEF SInv, Opened
      <4>. QED
        BY <1>2, <1>7, <3>2, <4>1, IterationAdds, Replaced DEF KeepsRuns
    <3>. QED
      BY <3>1, <3>2
  <2>2. IsFiniteSet(Filed') /\ Cardinality(Filed') <= Cardinality(Filed) + 1
    BY <1>7, FiledIteration DEF Merged
  <2>3. Cardinality(Filed') \in Nat
    BY <2>2, FS_CardinalityType
  <2>. QED
    BY <1>1, <1>2, <1>7, <2>1, <2>2, <2>3 DEF Merged
<1>. QED
  BY <1>3, <1>5, <1>6, <1>7, StoreSteps, MeasurementKeeps

\* The reader of a complete recording follows the module.
LEMMA SyncedStep ==
  ASSUME SInv, ProducerOK, Synced, [PipeNext]_pipe
  PROVE  Synced'
<1>1. lossy' = lossy
  BY DEF PipeNext, pipe, Requests, TraceStart, TraceEnd, TraceIteration, TraceMeasurement,
         TraceForeign, TraceFrame, TraceChrome, Deliver
<1>2. SUFFICES ASSUME ~lossy PROVE Synced'
  BY <1>1 DEF Synced
<1>3. /\ Len(runs) = Len(emitted) /\ Len(runs) \in Nat /\ runs \in Seq(RunInfo)
      /\ emitted \in Seq(Nat)
      /\ \A i \in 1 .. Len(runs) : Len(runs[i].measurements) = emitted[i]
  BY <1>2 DEF Synced, SInv, TypeOK, ProducerOK
<1>4. ASSUME UNCHANGED <<run, emitted, state>>, SameLens PROVE Synced'
  BY <1>1, <1>2, <1>3, <1>4 DEF Synced, SameLens
<1>5. CASE UNCHANGED pipe \/ Requests
  <2>1. UNCHANGED <<run, emitted, state>> /\ SameLens
    BY <1>5 DEF pipe, store, producer, Requests, Runs!RequestMeasure, Runs!RequestCease,
                SameLens
  <2>. QED
    BY <1>4, <2>1
<1>6. CASE TraceStart
  <2>1. /\ run = "closed" /\ run' = "opened"
        /\ emitted' = Append(emitted, 0) /\ StartMarker
    BY <1>2, <1>6 DEF TraceStart, Runs!StartMarker, Deliver
  <2>2. state' = "START" /\ runs' = Append(runs, NewRun)
    BY <1>2, <2>1 DEF Synced, StartMarker
  <2>3. Len(NewRun.measurements) = 0
    BY DEF NewRun
  <2>4. \A i \in 1 .. Len(runs') : Len(runs'[i].measurements) = emitted'[i]
    BY <1>3, <2>1, <2>2, <2>3
  <2>5. Len(runs') = Len(emitted')
    BY <1>3, <2>1, <2>2
  <2>. QED
    BY <2>1, <2>2, <2>4, <2>5 DEF Synced
<1>7. CASE TraceEnd
  <2>1. run' = "closed" /\ emitted' = emitted /\ EndMarker
    BY <1>2, <1>7 DEF TraceEnd, Runs!EndMarker, Deliver
  <2>. QED
    BY <1>3, <2>1 DEF Synced, EndMarker
<1>8. CASE TraceIteration
  <2>1. IterationMarker
    BY <1>2, <1>8 DEF TraceIteration, Deliver
  <2>2. CASE run = "closed"
    <3>1. UNCHANGED <<run, emitted>> /\ UNCHANGED <<state, runs>>
      BY <1>2, <1>8, <2>1, <2>2, IterationAdds DEF TraceIteration, Synced
    <3>. QED
      BY <1>4, <3>1 DEF SameLens
  <2>3. CASE run # "closed"
    <3>. DEFINE n == Len(runs)
    <3>1. state # "INIT" /\ run' = "measured" /\ emitted' = [emitted EXCEPT ![Len(emitted)] = @ + 1]
      BY <1>2, <1>8, <2>3 DEF TraceIteration, Runs!Iteration, Synced, ProducerOK, Runs!TypeOK
    <3>2. state' = "ITERATION" /\ KeepsRuns(TRUE)
      BY <2>1, <3>1, IterationAdds
    <3>3. PICK r \in RunInfo : /\ runs' = WithRun(r)
                               /\ Len(r.measurements) = Len(LastRun.measurements) + 1
      BY <3>2 DEF KeepsRuns
    <3>4. runs # <<>> /\ LastRun = runs[n]
      BY <3>1 DEF SInv, Opened, LastRun
    <3>5. /\ n \in Nat \ {0} /\ Len(runs') = n
          /\ \A i \in 1 .. n : runs'[i] = IF i = n THEN r ELSE runs[i]
      BY <1>3, <3>3, <3>4, Replaced
    <3>6. \A i \in 1 .. n : emitted'[i] = IF i = n THEN emitted[n] + 1 ELSE emitted[i]
      BY <1>3, <3>1
    <3>7. Len(emitted') = n
      BY <1>3, <3>1
    <3>. HIDE DEF n
    <3>8. \A i \in 1 .. n : Len(runs'[i].measurements) = emitted'[i]
      BY <1>3, <3>3, <3>4, <3>5, <3>6 DEF n
    <3>. QED
      BY <3>1, <3>2, <3>5, <3>7, <3>8 DEF Synced
  <2>. QED
    BY <2>2, <2>3
<1>9. CASE TraceMeasurement \/ TraceForeign
  <2>1. UNCHANGED <<run, emitted>>
    BY <1>9 DEF TraceMeasurement, TraceForeign, TraceFrame, TraceChrome
  <2>2. \/ \E c \in CPUs : CpuInfo(c) \/ CpuFreq(c)
        \/ Ina231 \/ OpenglFrame \/ ChromeEvent
    <3>1. CASE TraceForeign
      BY <1>2, <3>1 DEF TraceForeign, TraceFrame, TraceChrome, Deliver
    <3>2. CASE TraceMeasurement
      <4>1. Head(todo) \in MeasurementEvents
        BY <3>2 DEF TraceMeasurement, ProducerOK
      <4>2. Head(todo)[1] # "ina231" => Head(todo)[2] \in CPUs
        BY <4>1 DEF MeasurementEvents
      <4>. QED
        BY <1>2, <3>2, <4>2 DEF TraceMeasurement, Deliver
    <3>. QED
      BY <1>9, <3>1, <3>2
  <2>. QED
    BY <1>4, <2>1, <2>2, MeasurementKeeps
<1>. QED
  BY <1>5, <1>6, <1>7, <1>8, <1>9 DEF PipeNext
\* No sample a load is computed from lacks the counters of its CPU.
LEMMA CountedStep ==
  ASSUME SInv, SInv', ProducerOK, Synced, Counted, [PipeNext]_pipe
  PROVE  Counted'
<1>1. lossy' = lossy
  BY DEF PipeNext, pipe, Requests, TraceStart, TraceEnd, TraceIteration, TraceMeasurement,
         TraceForeign, TraceFrame, TraceChrome, Deliver
<1>2. SUFFICES ASSUME ~lossy PROVE Counted'
  BY <1>1 DEF Counted
<1>. DEFINE ms == LastRun.measurements
            n == Len(ms)
            ms1 == LastRun'.measurements
<1>3. /\ failed = "none"
      /\ state = "START" => n = 0
      /\ state = "ITERATION" =>
             /\ \A i \in 1 .. n - 1 : CPUs \subseteq ms[i].counters
             /\ \A c \in CPUs : c \in ms[n].counters \/ <<"cpu_info", c>> \in Waiting
  BY <1>2 DEF Counted
<1>4. CASE UNCHANGED pipe \/ Requests
  <2>1. UNCHANGED <<state, runs, failed, todo>>
    BY <1>4 DEF pipe, store, producer, Requests
  <2>. QED
    BY <1>2, <1>3, <2>1 DEF Counted, LastRun, Waiting
<1>5. CASE TraceStart
  <2>1. run = "closed" /\ StartMarker /\ failed' = failed
    BY <1>2, <1>5 DEF TraceStart, Runs!StartMarker, Deliver, StartMarker
  <2>2. state' = "START" /\ runs' = Append(runs, NewRun) /\ runs \in Seq(RunInfo)
    BY <1>2, <2>1 DEF Synced, StartMarker, SInv, TypeOK
  <2>3. LastRun' = NewRun
    BY <2>2 DEF LastRun
  <2>. QED
    BY <1>3, <2>1, <2>2, <2>3 DEF Counted, NewRun
<1>6. CASE TraceEnd
  <2>1. state' = "INIT" /\ failed' = failed
    BY <1>2, <1>6 DEF TraceEnd, Deliver, EndMarker
  <2>. QED
    BY <1>3, <2>1 DEF Counted
<1>7. CASE TraceIteration
  <2>1. IterationMarker /\ todo = <<>> /\ todo' = Measurements
    BY <1>2, <1>7 DEF TraceIteration, Deliver
  <2>2. failed' = "none"
    BY <1>3, <2>1, IterationAdds
  <2>3. CASE state = "INIT"
    BY <2>1, <2>2, <2>3, IterationAdds DEF Counted
  <2>4. CASE state # "INIT"
    <3>. DEFINE ns == Append(ms, NewMeasurement)
                r == [LastRun EXCEPT !.measurements = ns]
    <3>1. runs \in Seq(RunInfo) /\ runs # <<>> /\ LastRun \in RunInfo
      BY <2>4, LastRunType DEF SInv, TypeOK, Opened
    <3>2. ms \in Seq(Measurement) /\ n \in Nat
      BY <3>1 DEF RunInfo
    <3>3. /\ ns \in Seq(Measurement) /\ Len(ns) = n + 1
          /\ \A i \in 1 .. n : ns[i] = ms[i]
      BY <3>2, NewTypes
    <3>4. r \in RunInfo /\ r.measurements = ns
      BY <3>1, <3>3, RunMeasurements
    <3>5. runs' = WithRun(r) /\ state' = "ITERATION"
      BY <2>1, <2>4, IterationAdds
    <3>6. ms1 = ns
      BY <3>1, <3>4, <3>5, Replaced
    <3>7. Waiting = {}
      BY <2>1 DEF Waiting
    <3>8. \A i \in 1 .. n : CPUs \subseteq ms[i].counters
      <4>1. SUFFICES ASSUME NEW i \in 1 .. n, state = "ITERATION"
                     PROVE  CPUs \subseteq ms[i].counters
        <5>1. state \in {"START", "ITERATION"}
          BY <2>4 DEF SInv, TypeOK
        <5>. QED
          BY <1>3, <5>1
      <4>2. CASE i = n
        BY <1>3, <3>7, <4>1, <4>2
      <4>3. CASE i # n
        <5>1. i \in 1 .. n - 1
          BY <3>2, <4>3
        <5>. QED
          BY <1>3, <4>1, <5>1
      <4>. QED
        BY <4>2, <4>3
    <3>9. \A c \in CPUs : <<"cpu_info", c>> \in Waiting'
      BY <2>1, MeasurementsCover DEF Waiting
    <3>. HIDE DEF ms, n, ns
    <3>10. \A i \in 1 .. Len(ms1) - 1 : CPUs \subseteq ms1[i].counters
      <4>1. \A i \in 1 .. Len(ns) - 1 : i \in 1 .. n
        BY <3>2, <3>3 DEF n
      <4>. QED
        BY <3>3, <3>6, <3>8, <4>1 DEF ns, ms
    <3>. QED
      BY <2>2, <3>5, <3>9, <3>10 DEF Counted
  <2>. QED
    BY <2>3, <2>4
<1>8. CASE TraceMeasurement
  <2>1. /\ todo \in Seq(MeasurementEvents) /\ todo # <<>> /\ todo' = Tail(todo)
        /\ Head(todo) \in MeasurementEvents
    BY <1>8 DEF TraceMeasurement, ProducerOK
  <2>2. Waiting \subseteq Waiting' \cup {Head(todo)}
    <3>1. SUFFICES ASSUME NEW i \in 1 .. Len(todo), i # 1 PROVE todo[i] \in Waiting'
      BY <2>1 DEF Waiting
    <3>2. i - 1 \in 1 .. Len(Tail(todo)) /\ Tail(todo)[i - 1] = todo[i]
      BY <2>1, <3>1
    <3>. QED
      BY <2>1, <3>2 DEF Waiting
  <2>. DEFINE e == Head(todo)
  <2>3. /\ \/ e[1] = "cpu_info" /\ CpuInfo(e[2])
           \/ e[1] = "cpu_freq" /\ CpuFreq(e[2])
           \/ e[1] = "ina231" /\ Ina231
        /\ e[1] # "ina231" => e[2] \in CPUs
    BY <1>2, <1>8, <2>1 DEF TraceMeasurement, Deliver, MeasurementEvents
  <2>. HIDE DEF e
  <2>4. state' = state /\ SameLens /\ (state = "ITERATION" => NoFewerCounters)
    BY <2>3, MeasurementKeeps
  <2>5. ASSUME state = "ITERATION", e[1] = "cpu_info", CpuInfo(e[2])
        PROVE  failed' = "none" /\ e[2] \in ms1[n].counters
    <3>1. e[2] \in CPUs
      BY <2>3, <2>5
    <3>2. \A i \in 1 .. n - 1 : e[2] \in ms[i].counters
      BY <1>3, <2>5, <3>1
    <3>. QED
      BY <1>3, <2>5, <3>1, <3>2, CountersRead
  <2>6. failed' = "none"
    <3>1. CASE ~(e[1] = "cpu_info" /\ CpuInfo(e[2]))
      BY <1>3, <2>3, <3>1, OthersPass
    <3>2. CASE state # "ITERATION" /\ CpuInfo(e[2])
      BY <1>3, <3>2 DEF CpuInfo, InMeasurement, Drop, vars
    <3>. QED
      BY <2>5, <3>1, <3>2
  <2>7. CASE state = "ITERATION"
    <3>1. Len(ms1) = n /\ \A i \in 1 .. n : ms[i].counters \subseteq ms1[i].counters
      BY <2>4, <2>7 DEF NoFewerCounters
    <3>2. n \in Nat \ {0}
      BY <2>7, Taking
    <3>. HIDE DEF ms, ms1, n
    <3>3. \A i \in 1 .. n - 1 : CPUs \subseteq ms1[i].counters
      BY <1>3, <2>7, <3>1, <3>2
    <3>4. ASSUME NEW c \in CPUs PROVE c \in ms1[n].counters \/ <<"cpu_info", c>> \in Waiting'
      <4>1. CASE c \in ms[n].counters
        BY <3>1, <3>2, <4>1
      <4>2. CASE <<"cpu_info", c>> = e
        BY <2>3, <2>5, <2>7, <4>2
      <4>. QED
        BY <1>3, <2>2, <2>7, <4>1, <4>2 DEF e
    <3>. QED
      BY <2>4, <2>6, <2>7, <3>1, <3>3, <3>4 DEF Counted, ms1
  <2>8. CASE state = "START"
    <3>1. runs # <<>> /\ runs \in Seq(RunInfo)
      BY <2>8 DEF SInv, TypeOK, Opened
    <3>2. Len(runs') = Len(runs) /\ Len(ms1) = n
      BY <2>4, <3>1 DEF SameLens, LastRun
    <3>. QED
      BY <1>3, <2>4, <2>6, <2>8, <3>2 DEF Counted
  <2>9. CASE state = "INIT"
    BY <2>4, <2>6, <2>9 DEF Counted
  <2>. QED
    BY <2>7, <2>8, <2>9 DEF SInv, TypeOK
<1>9. CASE TraceForeign
  <2>1. (OpenglFrame \/ ChromeEvent) /\ todo' = todo
    BY <1>2, <1>9 DEF TraceForeign, TraceFrame, TraceChrome, Deliver
  <2>2. /\ state' = state /\ SameLens /\ (state = "ITERATION" => NoFewerCounters)
        /\ failed' = "none" /\ Waiting' = Waiting
    BY <1>3, <2>1, MeasurementKeeps, OthersPass DEF Waiting
  <2>3. CASE state = "ITERATION"
    <3>1. Len(ms1) = n /\ \A i \in 1 .. n : ms[i].counters \subseteq ms1[i].counters
      BY <2>2, <2>3 DEF NoFewerCounters
    <3>2. n \in Nat \ {0}
      BY <2>3, Taking
    <3>. HIDE DEF ms, ms1, n
    <3>3. \A i \in 1 .. n - 1 : CPUs \subseteq ms1[i].counters
      BY <1>3, <2>3, <3>1, <3>2
    <3>4. \A c \in CPUs : c \in ms1[n].counters \/ <<"cpu_info", c>> \in Waiting'
      <4>1. TAKE c \in CPUs
      <4>2. CASE c \in ms[n].counters
        BY <3>1, <3>2, <4>2
      <4>3. CASE <<"cpu_info", c>> \in Waiting
        BY <2>2, <4>3
      <4>. QED
        BY <1>3, <2>3, <4>2, <4>3
    <3>. QED
      BY <2>2, <2>3, <3>1, <3>3, <3>4 DEF Counted, ms1
  <2>4. CASE state = "START"
    <3>1. runs # <<>> /\ runs \in Seq(RunInfo)
      BY <2>4 DEF SInv, TypeOK, Opened
    <3>2. Len(runs') = Len(runs) /\ Len(ms1) = n
      BY <2>2, <3>1 DEF SameLens, LastRun
    <3>. QED
      BY <1>3, <2>2, <2>4, <3>2 DEF Counted
  <2>5. CASE state = "INIT"
    BY <2>2, <2>5 DEF Counted
  <2>. QED
    BY <2>3, <2>4, <2>5 DEF SInv, TypeOK
<1>. QED
  BY <1>4, <1>5, <1>6, <1>7, <1>8, <1>9 DEF PipeNext

-----------------------------------------------------------------------------
(* Frames and Chrome events.                                               *)

SameForeign(q, r) ==
    /\ Ids(r.frames) = Ids(q.frames)
    /\ r.chrome_events = q.chrome_events

ForeignSame ==
    /\ Len(runs') = Len(runs)
    /\ \A i \in 1 .. Len(runs) : SameForeign(runs[i], runs'[i])

\* The last run replaced by one with the same frames and Chrome events.
LEMMA ForeignReplaced ==
  ASSUME runs \in Seq(RunInfo), runs # <<>>, NEW r \in RunInfo, runs' = WithRun(r),
         SameForeign(LastRun, r)
  PROVE  ForeignSame
<1>1. LastRun = runs[Len(runs)]
  BY DEF LastRun
<1>. QED
  BY <1>1, Replaced DEF ForeignSame, SameForeign

\* The module's own measurements file neither.
LEMMA SampleForeign ==
  ASSUME SInv, (\E c \in CPUs : CpuInfo(c) \/ CpuFreq(c)) \/ Ina231
  PROVE  ForeignSame /\ UNCHANGED <<seenFirst, frameId>>
<1>1. CASE UNCHANGED <<runs, seenFirst, frameId>>
  BY <1>1 DEF ForeignSame, SameForeign
<1>2. CASE state # "ITERATION"
  BY <1>1, <1>2 DEF CpuInfo, CpuFreq, Ina231, InMeasurement, Drop, vars
<1>3. ASSUME state = "ITERATION", NEW m \in Measurement, runs' = WithRun(WithMeasurement(m)),
             UNCHANGED <<seenFirst, frameId>>
      PROVE  ForeignSame
  <2>1. WithMeasurement(m) \in RunInfo /\ WithMeasurement(m).frames = LastRun.frames
    BY <1>3, Taking, WithMeasurementType
  <2>2. WithMeasurement(m).chrome_events = LastRun.chrome_events
    BY <1>3, Taking DEF WithMeasurement, RunInfo
  <2>. QED
    BY <1>3, <2>1, <2>2, Taking, ForeignReplaced DEF SameForeign
<1>4. ASSUME state = "ITERATION", NEW c \in CPUs, CpuInfo(c)
      PROVE  ForeignSame /\ UNCHANGED <<seenFirst, frameId>>
  <2>. DEFINE m == [LastMeasurement EXCEPT !.counters = @ \cup {c}]
  <2>1. m \in Measurement
    BY <1>4, Taking DEF Measurement
  <2>2. /\ runs' = WithRun(WithMeasurement(m)) \/ runs' = runs
        /\ UNCHANGED <<seenFirst, frameId>>
    BY Taking, <1>4 DEF CpuInfo, InMeasurement, Fail
  <2>. HIDE DEF m
  <2>. QED
    BY <1>1, <1>3, <1>4, <2>1, <2>2
<1>5. ASSUME state = "ITERATION", NEW c \in CPUs, CpuFreq(c)
      PROVE  ForeignSame /\ UNCHANGED <<seenFirst, frameId>>
  <2>. DEFINE m == [LastMeasurement EXCEPT !.freq = @ \cup {c}]
  <2>1. m \in Measurement
    BY <1>5, Taking DEF Measurement
  <2>2. runs' = WithRun(WithMeasurement(m)) /\ UNCHANGED <<seenFirst, frameId>>
    BY Taking, <1>5 DEF CpuFreq, InMeasurement
  <2>. HIDE DEF m
  <2>. QED
    BY <1>3, <1>5, <2>1, <2>2
<1>6. ASSUME state = "ITERATION", Ina231
      PROVE  ForeignSame /\ UNCHANGED <<seenFirst, frameId>>
  <2>1. UNCHANGED <<seenFirst, frameId>>
    BY <1>6, Ina231Keeps
  <2>2. CASE LastRun.frames = <<>>
    BY <1>1, <1>6, <2>1, <2>2, Taking DEF Ina231, InMeasurement
  <2>3. CASE LastRun.frames # <<>>
    <3>. DEFINE fs == LastRun.frames
                n == Len(fs)
                r == [LastRun EXCEPT !.frames = AddPowerValue(fs)]
    <3>1. fs \in Seq(Frame) /\ n \in 1 .. n /\ fs[n] \in Frame
      BY Taking, <1>6, <2>3
    <3>2. \A f \in Frame : /\ [f EXCEPT !.power_value_count = @ + 1] \in Frame
                           /\ [f EXCEPT !.power_value_count = @ + 1].id = f.id
      BY DEF Frame
    <3>. HIDE DEF fs
    <3>3. /\ AddPowerValue(fs) \in Seq(Frame) /\ Len(AddPowerValue(fs)) = n
          /\ \A i \in 1 .. n : AddPowerValue(fs)[i].id = fs[i].id
      BY <3>1, <3>2 DEF AddPowerValue
    <3>. USE DEF fs
    <3>4. Ids(AddPowerValue(fs)) = Ids(fs)
      BY <3>3 DEF Ids
    <3>5. r \in RunInfo /\ r.frames = AddPowerValue(fs) /\ r.chrome_events = LastRun.chrome_events
      BY Taking, <1>6, <3>3 DEF RunInfo
    <3>6. runs' = WithRun(r)
      BY Taking, <1>6, <2>3 DEF Ina231, InMeasurement
    <3>. QED
      BY <1>6, <2>1, <3>4, <3>5, <3>6, Taking, ForeignReplaced DEF SameForeign
  <2>. QED
    BY <2>2, <2>3
<1>. QED
  BY <1>2, <1>4, <1>5, <1>6

\* Nor does an iteration marker.
LEMMA IterationForeign ==
  ASSUME SInv, IterationMarker
  PROVE  ForeignSame /\ UNCHANGED <<seenFirst, frameId>>
<1>1. UNCHANGED <<seenFirst, frameId>>
  BY IterationAdds
<1>2. CASE state = "INIT"
  BY <1>1, <1>2, IterationAdds DEF ForeignSame, SameForeign
<1>3. CASE state # "INIT"
  <2>. DEFINE ns == Append(LastRun.measurements, NewMeasurement)
              r == [LastRun EXCEPT !.measurements = ns]
  <2>1. runs \in Seq(RunInfo) /\ runs # <<>> /\ LastRun \in RunInfo
    BY <1>3, LastRunType DEF SInv, TypeOK, Opened
  <2>2. ns \in Seq(Measurement)
    BY <2>1, NewTypes DEF RunInfo
  <2>3. r \in RunInfo /\ r.frames = LastRun.frames /\ r.chrome_events = LastRun.chrome_events
    BY <2>1, <2>2 DEF RunInfo
  <2>4. runs' = WithRun(r)
    BY <1>3, IterationAdds
  <2>. QED
    BY <1>1, <2>1, <2>3, <2>4, ForeignReplaced DEF SameForeign
<1>. QED
  BY <1>2, <1>3

\* A frame but the first of all is filed under the next number.
LEMMA FrameFiled ==
  ASSUME SInv, state = "ITERATION", OpenglFrame, seenFirst
  PROVE  \E q \in RunInfo :
             /\ runs' = WithRun(q)
             /\ Ids(q.frames) = Ids(LastRun.frames) \cup {frameId'}
             /\ q.chrome_events = LastRun.chrome_events
<1>. DEFINE m == [LastMeasurement EXCEPT !.opengl_id = frameId']
            f == [id |-> frameId', power_value_count |-> 1]
            w == WithMeasurement(m)
            fs == LastRun.frames
            q == [w EXCEPT !.frames = Append(@, f)]
<1>1. frameId' = frameId + 1 /\ runs' = WithRun(q)
  BY Taking DEF OpenglFrame, InMeasurement
<1>2. m \in Measurement /\ f \in Frame /\ f.id = frameId'
  <2>1. frameId' \in Nat
    BY <1>1 DEF SInv, TypeOK
  <2>. QED
    BY <2>1, Taking DEF Measurement, Frame
<1>3. w \in RunInfo /\ w.frames = fs /\ fs \in Seq(Frame)
  BY <1>2, Taking, WithMeasurementType
<1>4. w.chrome_events = LastRun.chrome_events
  BY Taking DEF WithMeasurement, RunInfo
<1>. HIDE DEF w, m, f
<1>5. Append(fs, f) \in Seq(Frame)
  BY <1>2, <1>3
<1>6. q \in RunInfo /\ q.frames = Append(fs, f) /\ q.chrome_events = LastRun.chrome_events
  BY <1>3, <1>4, <1>5 DEF RunInfo
<1>7. Ids(Append(fs, f)) = Ids(fs) \cup {f.id}
  <2>. HIDE DEF fs
  <2>1. /\ Len(fs) \in Nat /\ Len(Append(fs, f)) = Len(fs) + 1
        /\ Append(fs, f)[Len(fs) + 1] = f
        /\ \A i \in 1 .. Len(fs) : Append(fs, f)[i] = fs[i]
    BY <1>3
  <2>2. 1 .. Len(fs) + 1 = (1 .. Len(fs)) \cup {Len(fs) + 1}
    BY <2>1
  <2>. QED
    BY <2>1, <2>2 DEF Ids
<1>. QED
  BY <1>1, <1>2, <1>6, <1>7

\* A list grown by one element, and a list with its last element replaced.
LEMMA Grown ==
  ASSUME NEW d \in Seq(Nat), NEW x \in Nat
  PROVE  /\ Append(d, x) \in Seq(Nat) /\ Len(Append(d, x)) = Len(d) + 1 /\ Append(d, x) # <<>>
         /\ Append(d, x)[Len(d) + 1] = x
         /\ \A i \in 1 .. Len(d) : Append(d, x)[i] = d[i]
  OBVIOUS

LEMMA LastChanged ==
  ASSUME NEW d \in Seq(Nat), d # <<>>, NEW x \in Nat, NEW e, e = [d EXCEPT ![Len(d)] = x]
  PROVE  /\ e \in Seq(Nat) /\ Len(e) = Len(d)
         /\ \A i \in 1 .. Len(d) : e[i] = IF i = Len(d) THEN x ELSE d[i]
  OBVIOUS

\* A frame drawn in run x is numbered with that run alone.
LEMMA DrawnGrows ==
  ASSUME NEW d \in Seq(Nat), d # <<>>, NEW x \in Nat, NEW r \in Nat
  PROVE  DrawnIn(Append(d, x), r) = DrawnIn(d, r) \cup (IF r = x THEN {Len(d)} ELSE {})
<1>. DEFINE m == Len(d)
            e == Append(d, x)
<1>1. m \in Nat \ {0} /\ Len(e) = m + 1 /\ e[m + 1] = x /\ \A i \in 1 .. m : e[i] = d[i]
  BY Grown
<1>2. DrawnIn(e, r) = {k \in 1 .. m : e[k + 1] = r}
  BY <1>1 DEF DrawnIn
<1>. HIDE DEF e
<1>3. DrawnIn(d, r) = {k \in 1 .. m - 1 : e[k + 1] = r}
  BY <1>1, SMTT(30) DEF DrawnIn
<1>4. 1 .. m = (1 .. m - 1) \cup {m}
  BY <1>1
<1>5. e[m + 1] = x
  BY <1>1
<1>. HIDE DEF m
<1>6. {k \in 1 .. m : e[k + 1] = r} = {k \in 1 .. m - 1 : e[k + 1] = r} \cup (IF r = x THEN {m} ELSE {})
  BY <1>4, <1>5
<1>. QED
  BY <1>2, <1>3, <1>6 DEF e, m

\* The reader of a complete recording files what other threads trace where the
\* module's markers put it.
LEMMA ToldStep ==
  ASSUME SInv, ProducerOK, Synced, Told, [PipeNext]_pipe
  PROVE  Told'
<1>1. lossy' = lossy
  BY DEF PipeNext, pipe, Requests, TraceStart, TraceEnd, TraceIteration, TraceMeasurement,
         TraceForeign, TraceFrame, TraceChrome, Deliver
<1>2. SUFFICES ASSUME ~lossy PROVE Told'
  BY <1>1 DEF Told
<1>. DEFINE n == Len(runs)
<1>3. /\ drawn \in Seq(Nat) /\ told \in Seq(Nat) /\ Len(told) = n
      /\ Len(emitted) = n /\ n \in Nat /\ runs \in Seq(RunInfo) /\ emitted \in Seq(Nat)
  BY <1>2 DEF Told, Synced, SInv, TypeOK, ProducerOK
<1>11. \A k \in 1 .. Len(drawn) : drawn[k] \in 1 .. n
  BY <1>2 DEF Told, Synced
<1>12. /\ seenFirst <=> drawn # <<>>
       /\ frameId = IF drawn = <<>> THEN 0 ELSE Len(drawn) - 1
  BY <1>2 DEF Told
<1>13. \A r \in 1 .. n : /\ Ids(runs[r].frames) = DrawnIn(drawn, r)
                        /\ runs[r].chrome_events = told[r]
  BY <1>2 DEF Told
<1>14. /\ run = "closed" <=> state = "INIT"
       /\ run = "measured" <=> state = "ITERATION"
  BY <1>2 DEF Synced, ProducerOK, Runs!TypeOK
<1>4. ASSUME ForeignSame, UNCHANGED <<seenFirst, frameId, drawn, told>>, Len(emitted') = Len(emitted)
      PROVE  Told'
  BY <1>1, <1>2, <1>3, <1>4, <1>11, <1>12, <1>13 DEF Told, ForeignSame, SameForeign
<1>5. CASE UNCHANGED pipe \/ Requests \/ TraceEnd
  <2>1. UNCHANGED <<runs, seenFirst, frameId, drawn, told, emitted>>
    BY <1>2, <1>5 DEF pipe, store, producer, Requests, TraceEnd, Deliver, EndMarker
  <2>. QED
    BY <1>4, <2>1 DEF ForeignSame, SameForeign
<1>6. CASE TraceStart
  <2>1. /\ run = "closed" /\ emitted' = Append(emitted, 0) /\ told' = Append(told, 0)
        /\ drawn' = drawn /\ StartMarker
    BY <1>2, <1>6 DEF TraceStart, Runs!StartMarker, Deliver
  <2>2. runs' = Append(runs, NewRun) /\ UNCHANGED <<seenFirst, frameId>>
    BY <1>14, <2>1 DEF StartMarker
  <2>3. Ids(NewRun.frames) = {} /\ NewRun.chrome_events = 0
    BY DEF Ids, NewRun
  <2>4. ASSUME NEW k \in 1 .. Len(drawn) - 1 PROVE drawn[k + 1] # n + 1
    <3>1. k + 1 \in 1 .. Len(drawn)
      BY <1>3, <2>4
    <3>. QED
      BY <1>3, <1>11, <3>1
  <2>5. DrawnIn(drawn, n + 1) = {}
    BY <2>4 DEF DrawnIn
  <2>6. /\ Len(runs') = n + 1 /\ runs'[n + 1] = NewRun
        /\ \A i \in 1 .. n : runs'[i] = runs[i]
    BY <1>3, <2>2
  <2>9. /\ told' \in Seq(Nat) /\ Len(told') = n + 1 /\ told'[n + 1] = 0
        /\ \A i \in 1 .. n : told'[i] = told[i]
        /\ Len(emitted') = n + 1
    BY <1>3, <2>1, Grown
  <2>. HIDE DEF n
  <2>7. \A r \in 1 .. n + 1 : Ids(runs'[r].frames) = DrawnIn(drawn', r) /\ runs'[r].chrome_events = told'[r]
    <3>1. \A r \in 1 .. n + 1 : r = n + 1 \/ r \in 1 .. n
      BY <1>3
    <3>. QED
      BY <1>13, <2>1, <2>3, <2>5, <2>6, <2>9, <3>1, ZenonT(30)
  <2>8. \A k \in 1 .. Len(drawn) : drawn[k] \in 1 .. n + 1
    BY <1>3, <1>11
  <2>. QED
    BY <1>1, <1>2, <1>3, <1>12, <2>1, <2>2, <2>6, <2>7, <2>8, <2>9 DEF Told
<1>7. CASE TraceIteration
  <2>1. /\ IterationMarker /\ UNCHANGED <<drawn, told>>
        /\ emitted' = emitted \/ emitted' = [emitted EXCEPT ![Len(emitted)] = @ + 1]
    BY <1>2, <1>7 DEF TraceIteration, Deliver
  <2>2. Len(emitted') = Len(emitted)
    BY <1>3, <2>1
  <2>. QED
    BY <1>4, <2>1, <2>2, IterationForeign
<1>8. CASE TraceMeasurement
  <2>1. Head(todo) \in MeasurementEvents
    BY <1>8 DEF TraceMeasurement, ProducerOK
  <2>2. Head(todo)[1] # "ina231" => Head(todo)[2] \in CPUs
    BY <2>1 DEF MeasurementEvents
  <2>3. (\E c \in CPUs : CpuInfo(c) \/ CpuFreq(c)) \/ Ina231
    BY <1>2, <1>8, <2>2 DEF TraceMeasurement, Deliver
  <2>4. UNCHANGED <<drawn, told, emitted>>
    BY <1>8 DEF TraceMeasurement
  <2>. QED
    BY <1>4, <2>3, <2>4, SampleForeign
<1>9. CASE TraceChrome
  <2>1. ChromeEvent /\ UNCHANGED <<drawn, emitted>>
        /\ told' = IF run = "closed" THEN told ELSE [told EXCEPT ![Len(told)] = @ + 1]
    BY <1>2, <1>9 DEF TraceChrome, Deliver
  <2>2. CASE run = "closed"
    <3>1. UNCHANGED <<runs, seenFirst, frameId, told>>
      BY <1>14, <2>1, <2>2 DEF ChromeEvent, Drop, vars
    <3>. QED
      BY <1>4, <2>1, <3>1 DEF ForeignSame, SameForeign
  <2>3. CASE run # "closed"
    <3>. DEFINE q == [LastRun EXCEPT !.chrome_events = @ + 1]
    <3>1. runs # <<>> /\ LastRun \in RunInfo /\ LastRun = runs[n]
      BY <1>14, <2>3, LastRunType DEF SInv, TypeOK, Opened, LastRun
    <3>2. /\ q \in RunInfo /\ q.frames = LastRun.frames
          /\ q.chrome_events = LastRun.chrome_events + 1
      BY <3>1 DEF RunInfo
    <3>3. runs' = WithRun(q) /\ UNCHANGED <<seenFirst, frameId>>
      BY <1>14, <2>1, <2>3, <3>1 DEF ChromeEvent
    <3>. HIDE DEF q
    <3>4. /\ n \in Nat \ {0} /\ Len(runs') = n
          /\ \A i \in 1 .. n : runs'[i] = IF i = n THEN q ELSE runs[i]
      BY <1>3, <3>1, <3>2, <3>3, Replaced
    <3>5. /\ told' \in Seq(Nat) /\ Len(told') = n
          /\ \A i \in 1 .. n : told'[i] = IF i = n THEN told[n] + 1 ELSE told[i]
      <4>1. /\ told # <<>> /\ Len(told) = n /\ told \in Seq(Nat)
            /\ told' = [told EXCEPT ![Len(told)] = told[Len(told)] + 1]
            /\ told[Len(told)] + 1 \in Nat
        BY <1>3, <2>1, <2>3, <3>4
      <4>. HIDE DEF n
      <4>. QED
        BY <4>1, LastChanged
    <3>. HIDE DEF n
    <3>6. \A r \in 1 .. n : Ids(runs'[r].frames) = DrawnIn(drawn, r) /\ runs'[r].chrome_events = told'[r]
      <4>. SUFFICES ASSUME NEW r \in 1 .. n
                    PROVE  Ids(runs'[r].frames) = DrawnIn(drawn, r) /\ runs'[r].chrome_events = told'[r]
        OBVIOUS
      <4>1. CASE r = n
        BY <1>13, <3>1, <3>2, <3>4, <3>5, <4>1
      <4>2. CASE r # n
        BY <1>13, <3>4, <3>5, <4>2
      <4>. QED
        BY <4>1, <4>2
    <3>7. Len(emitted') = n /\ drawn' = drawn
      BY <1>3, <2>1
    <3>. QED
      BY <1>1, <1>2, <1>3, <1>11, <1>12, <3>3, <3>4, <3>5, <3>6, <3>7 DEF Told
  <2>. QED
    BY <2>2, <2>3
<1>10. CASE TraceFrame
  <2>1. OpenglFrame /\ UNCHANGED <<told, emitted>>
        /\ drawn' = IF run = "measured" THEN Append(drawn, n) ELSE drawn
    BY <1>2, <1>3, <1>10 DEF TraceFrame, Deliver
  <2>2. CASE run # "measured"
    <3>1. UNCHANGED <<runs, seenFirst, frameId, drawn>>
      BY <1>14, <2>1, <2>2 DEF OpenglFrame, InMeasurement, Drop, vars
    <3>. QED
      BY <1>4, <2>1, <3>1 DEF ForeignSame, SameForeign
  <2>3. CASE run = "measured" /\ ~seenFirst
    <3>1. seenFirst' = TRUE /\ UNCHANGED <<runs, frameId>>
      BY <1>14, <2>1, <2>3, Taking DEF OpenglFrame, InMeasurement
    <3>2. drawn = <<>> /\ drawn' = <<n>> /\ frameId = 0 /\ n \in 1 .. n
      <4>1. runs # <<>> /\ drawn = <<>>
        BY <1>12, <1>14, <2>3, Taking
      <4>2. n \in 1 .. n
        BY <1>3, <4>1
      <4>. HIDE DEF n
      <4>. QED
        BY <1>12, <2>1, <2>3, <4>1, <4>2
    <3>3. \A r \in 1 .. n : DrawnIn(drawn, r) = {} /\ DrawnIn(drawn', r) = {}
      BY <3>2 DEF DrawnIn
    <3>4. \A k \in 1 .. Len(drawn') : drawn'[k] \in 1 .. n
      BY <3>2
    <3>5. drawn' # <<>> /\ drawn' \in Seq(Nat) /\ Len(drawn') - 1 = 0
      BY <1>3, <3>2
    <3>7. Len(runs') = n /\ Len(emitted') = n /\ told' = told
      BY <1>3, <2>1, <3>1
    <3>. HIDE DEF n
    <3>6. \A r \in 1 .. n : Ids(runs'[r].frames) = DrawnIn(drawn', r) /\ runs'[r].chrome_events = told'[r]
      BY <1>13, <2>1, <3>1, <3>3
    <3>8. frameId' = IF drawn' = <<>> THEN 0 ELSE Len(drawn') - 1
      BY <3>1, <3>2, <3>5
    <3>. QED
      BY <1>1, <1>2, <1>3, <3>1, <3>4, <3>5, <3>6, <3>7, <3>8 DEF Told
  <2>4. CASE run = "measured" /\ seenFirst
    <3>. DEFINE m == Len(drawn)
    <3>1. /\ runs # <<>> /\ LastRun \in RunInfo /\ LastRun = runs[n] /\ state = "ITERATION"
          /\ LastRun.frames \in Seq(Frame)
      BY <1>14, <2>4, Taking DEF LastRun
    <3>2. frameId' = frameId + 1 /\ seenFirst' = seenFirst
      BY <2>1, <2>4, <3>1, Taking DEF OpenglFrame, InMeasurement
    <3>3. PICK q \in RunInfo : /\ runs' = WithRun(q)
                              /\ Ids(q.frames) = Ids(LastRun.frames) \cup {frameId'}
                              /\ q.chrome_events = LastRun.chrome_events
      BY <2>1, <2>4, <3>1, FrameFiled
    <3>4. /\ n \in Nat \ {0} /\ Len(runs') = n
          /\ \A i \in 1 .. n : runs'[i] = IF i = n THEN q ELSE runs[i]
      BY <1>3, <3>1, <3>3, Replaced
    <3>5. m \in Nat \ {0} /\ frameId' = m
      BY <1>3, <1>12, <2>4, <3>2
    <3>11. drawn' = Append(drawn, n) /\ drawn \in Seq(Nat) /\ drawn # <<>>
      BY <1>3, <1>12, <2>1, <2>4
    <3>12. n \in Nat
      BY <1>3
    <3>. HIDE DEF n
    <3>6. /\ drawn' \in Seq(Nat) /\ Len(drawn') = m + 1 /\ drawn'[m + 1] = n /\ drawn' # <<>>
          /\ \A k \in 1 .. m : drawn'[k] = drawn[k]
      BY <3>11, <3>12, Grown
    <3>7. ASSUME NEW r \in 1 .. n
          PROVE  DrawnIn(drawn', r) = DrawnIn(drawn, r) \cup (IF r = n THEN {m} ELSE {})
      <4>1. r \in Nat
        BY <3>12, <3>7
      <4>. QED
        BY <3>11, <3>12, <4>1, DrawnGrows
    <3>13. \A k \in 1 .. m : drawn[k] \in 1 .. n
      BY <1>11
    <3>. HIDE DEF m
    <3>8. \A r \in 1 .. n : Ids(runs'[r].frames) = DrawnIn(drawn', r) /\ runs'[r].chrome_events = told'[r]
      <4>. SUFFICES ASSUME NEW r \in 1 .. n
                    PROVE  Ids(runs'[r].frames) = DrawnIn(drawn', r) /\ runs'[r].chrome_events = told'[r]
        OBVIOUS
      <4>1. Ids(runs[r].frames) = DrawnIn(drawn, r) /\ runs[r].chrome_events = told[r] /\ told' = told
        BY <1>13, <2>1
      <4>2. runs'[r] = IF r = n THEN q ELSE runs[r]
        BY <3>4
      <4>3. DrawnIn(drawn', r) = DrawnIn(drawn, r) \cup (IF r = n THEN {m} ELSE {})
        BY <3>7
      <4>4. CASE r = n
        BY <3>1, <3>3, <3>5, <4>1, <4>2, <4>3, <4>4
      <4>5. CASE r # n
        BY <4>1, <4>2, <4>3, <4>5
      <4>. QED
        BY <4>4, <4>5
    <3>9. \A k \in 1 .. m + 1 : drawn'[k] \in 1 .. n
      <4>1. \A k \in 1 .. m + 1 : k = m + 1 \/ k \in 1 .. m
        BY <3>5
      <4>. QED
        BY <3>4, <3>6, <3>13, <4>1
    <3>10. frameId' = Len(drawn') - 1
      BY <3>5, <3>6
    <3>14. Len(emitted') = n /\ told' = told /\ Len(told) = n /\ told \in Seq(Nat) /\ seenFirst'
      BY <1>3, <2>1, <2>4, <3>2
    <3>. QED
      BY <1>1, <1>2, <3>4, <3>6, <3>8, <3>9, <3>10, <3>14 DEF Told
  <2>. QED
    BY <2>2, <2>3, <2>4
<1>. QED
  BY <1>5, <1>6, <1>7, <1>8, <1>9, <1>10 DEF PipeNext, TraceForeign

\* The invariant holds before the first event.
LEMMA PInvInit == PipeInit => PInv
<1>1. SUFFICES ASSUME PipeInit PROVE PInv
  OBVIOUS
<1>. USE <1>1 DEF PipeInit
<1>2. SInv
  BY SInvInit
<1>3. Links
  BY DEF Links, Init
<1>4. ProducerOK
  <2>1. todo \in Seq(MeasurementEvents)
    OBVIOUS
  <2>2. emitted \in Seq(Nat) /\ iterations \in Nat /\ lossy \in BOOLEAN
    OBVIOUS
  <2>. QED
    BY <2>1, <2>2 DEF ProducerOK, Runs!Init, Runs!TypeOK
<1>5. Synced /\ Counted
  BY DEF Synced, Counted, Init, Runs!Init
<1>6. Filed = {} /\ iterations = 0 /\ Len(runs) = 0 /\ Len(emitted) = 0
  BY DEF Filed, Init
<1>7. Merged
  BY <1>6, FS_EmptySet DEF Merged
<1>8. Told
  <2>1. Len(runs) = 0 /\ Len(told) = 0 /\ Len(emitted) = 0 /\ Len(drawn) = 0
    BY DEF Init
  <2>. QED
    BY <2>1 DEF Told, Init
<1>. QED
  BY <1>2, <1>3, <1>4, <1>5, <1>7, <1>8 DEF PInv

\* Every step keeps the invariant.
LEMMA PInvStep == PInv /\ [PipeNext]_pipe => PInv'
<1>1. SUFFICES ASSUME PInv, [PipeNext]_pipe PROVE PInv'
  OBVIOUS
<1>. USE DEF PInv
<1>2. [Next]_vars
  BY <1>1, ReaderStep
<1>3. SInv' /\ Links'
  BY <1>1, <1>2, SInvStep, LinksStep
<1>4. ProducerOK'
  BY <1>1, ProducerStep
<1>5. Merged' /\ Synced' /\ Counted' /\ Told'
  BY <1>1, <1>3, MergedStep, SyncedStep, CountedStep, ToldStep
<1>. QED
  BY <1>3, <1>4, <1>5

\* A complete recording is read to its end (trace_conv.py:313-318).
THEOREM CompleteRecordingRead == PipeSpec => []CompleteIsRead
<1>1. PInv => CompleteIsRead
  BY DEF PInv, Counted, CompleteIsRead
<1>. QED
  BY <1>1, PInvInit, PInvStep, PTL DEF PipeSpec

\* The reader of a complete recording finds the runs the module traced, each
\* with its iterations (trace_conv.py:541-575, module.c:422-460).
THEOREM RunsFound == PipeSpec => []RunsMatch
<1>1. PInv => RunsMatch
  BY DEF PInv, Synced, RunsMatch
<1>. QED
  BY <1>1, PInvInit, PInvStep, PTL DEF PipeSpec

\* The reader of a complete recording files every frame but the first, and
\* every Chrome event, with the run it was traced in (trace_conv.py:85-88,
\* 543-575).
THEOREM ForeignFound == PipeSpec => []ForeignMatch
<1>1. PInv => ForeignMatch
  BY DEF PInv, Synced, Told, DrawnIn, ForeignMatch
<1>. QED
  BY <1>1, PInvInit, PInvStep, PTL DEF PipeSpec

\* Lost events never split or invent a run, and no iteration is filed twice.
THEOREM NothingInvented == PipeSpec => []LossOnlyMerges
<1>1. PInv => LossOnlyMerges
  BY DEF PInv, Merged, LossOnlyMerges
<1>. QED
  BY <1>1, PInvInit, PInvStep, PTL DEF PipeSpec

\* The composition of module and reader implements its reader: whatever events
\* are missed, each step is one of TraceStore or none, so what is proved of
\* TraceStore for events in any order holds here (trace_conv.py:541-575).
THEOREM ImplementsStore == PipeSpec => Spec
<1>1. PipeInit => Init
  BY DEF PipeInit
<1>2. PInv /\ [PipeNext]_pipe => [Next]_vars
  BY ReaderStep DEF PInv
<1>. QED
  BY <1>1, <1>2, PInvInit, PInvStep, PTL DEF PipeSpec, Spec

\* And it implements its module: the producer traces runs as MeasurementRuns
\* allows, which is what SysLogger is proved to do (module.c:422-460).
THEOREM ImplementsRuns == PipeSpec => Runs!Spec
<1>1. PipeInit => Runs!Init
  BY DEF PipeInit
<1>2. [PipeNext]_pipe => [Runs!Next]_<<run, asked, ceased>>
  <2>1. SUFFICES ASSUME [PipeNext]_pipe
                 PROVE  Runs!Next \/ UNCHANGED <<run, asked, ceased>>
    OBVIOUS
  <2>2. CASE Requests \/ TraceStart \/ TraceEnd
    BY <2>2 DEF Requests, TraceStart, TraceEnd, Runs!Next
  <2>3. CASE TraceIteration
    BY <2>3 DEF TraceIteration, Runs!Next
  <2>4. CASE TraceMeasurement \/ TraceForeign
    BY <2>4 DEF TraceMeasurement, TraceForeign, TraceFrame, TraceChrome
  <2>5. CASE UNCHANGED pipe
    BY <2>5 DEF pipe, producer
  <2>. QED
    BY <2>1, <2>2, <2>3, <2>4, <2>5 DEF PipeNext
<1>. QED
  BY <1>1, <1>2, PTL DEF PipeSpec, Runs!Spec, Runs!vars

\* The reader of any recording of the module, complete or not, keeps its types,
\* finds every list entry it looks up, and links frames and measurements of one
\* run (trace_conv.py:270-374, 543-575).
THEOREM RecordingReadSafely == PipeSpec => [](TypeOK /\ NoIndexError /\ FrameLinks)
  BY ImplementsStore, StoreTypeCorrect, LookupsSafe, FramesLinked, PTL
=============================================================================
