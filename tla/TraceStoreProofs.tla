-------------------------- MODULE TraceStoreProofs --------------------------
(***************************************************************************)
(* Proofs about TraceStore for any set of CPUs and any events: a reader    *)
(* that is not in state INIT has a run, one in state ITERATION has a       *)
(* measurement, so that runs[-1] and measurements[-1] never fail.          *)
(***************************************************************************)
EXTENDS TraceStore, TLAPS

Opened ==
    /\ state # "INIT" => runs # <<>>
    /\ state = "ITERATION" => LastRun.measurements # <<>>

SInv == TypeOK /\ Opened /\ NoIndexError

\* A replaced run leaves the others, and the types, alone.
LEMMA WithRunType ==
  ASSUME runs \in Seq(RunInfo), runs # <<>>, NEW r \in RunInfo
  PROVE  /\ WithRun(r) \in Seq(RunInfo)
         /\ Len(WithRun(r)) = Len(runs)
         /\ WithRun(r) # <<>>
         /\ WithRun(r)[Len(runs)] = r
  BY DEF WithRun

\* Where there is a run, runs[-1] is one.
LEMMA LastRunType ==
  ASSUME runs \in Seq(RunInfo), runs # <<>>
  PROVE  LastRun \in RunInfo
  BY DEF LastRun

\* A measurement replaced in the last run.
LEMMA WithMeasurementType ==
  ASSUME runs \in Seq(RunInfo), runs # <<>>, LastRun.measurements # <<>>,
         NEW m \in Measurement
  PROVE  /\ WithMeasurement(m) \in RunInfo
         /\ WithMeasurement(m).measurements # <<>>
         /\ WithMeasurement(m).frames = LastRun.frames
<1>1. LastRun \in RunInfo
  BY LastRunType
<1>2. [LastRun.measurements EXCEPT ![Len(LastRun.measurements)] = m] \in Seq(Measurement) \ {<<>>}
  BY <1>1 DEF RunInfo
<1>. QED
  BY <1>1, <1>2 DEF WithMeasurement, RunInfo

\* Where the last run has a measurement, measurements[-1] is one.
LEMMA LastMeasurementType ==
  ASSUME runs \in Seq(RunInfo), runs # <<>>, LastRun.measurements # <<>>
  PROVE  LastMeasurement \in Measurement
  BY LastRunType DEF LastMeasurement, RunInfo

\* Fresh runs and measurements have their types.
LEMMA NewTypes == NewRun \in RunInfo /\ NewMeasurement \in Measurement
  BY DEF NewRun, RunInfo, NewMeasurement, Measurement

\* A step that fills the last run and changes none of the states.
LEMMA FillStep ==
  ASSUME SInv, state # "INIT", NEW r \in RunInfo, runs' = WithRun(r),
         state = "ITERATION" => r.measurements # <<>>,
         UNCHANGED <<state, failed>>, seenFirst' \in BOOLEAN, frameId' \in Nat
  PROVE  SInv'
<1>1. runs \in Seq(RunInfo) /\ runs # <<>>
  BY DEF SInv, TypeOK, Opened
<1>2. /\ runs' \in Seq(RunInfo)
      /\ Len(runs') = Len(runs)
      /\ runs' # <<>>
      /\ runs'[Len(runs')] = r
  BY <1>1, WithRunType
<1>. QED
  BY <1>2 DEF SInv, TypeOK, Opened, NoIndexError, LastRun

\* The lists of a run, replaced one at a time.
LEMMA RunMeasurements ==
  ASSUME NEW q \in RunInfo, NEW ms \in Seq(Measurement)
  PROVE  /\ [q EXCEPT !.measurements = ms] \in RunInfo
         /\ [q EXCEPT !.measurements = ms].measurements = ms
  BY DEF RunInfo

\* The frames of a run replaced.
LEMMA RunFrames ==
  ASSUME NEW q \in RunInfo, NEW fs \in Seq(Frame)
  PROVE  /\ [q EXCEPT !.frames = fs] \in RunInfo
         /\ [q EXCEPT !.frames = fs].measurements = q.measurements
  BY DEF RunInfo

\* The Chrome events of a run replaced.
LEMMA RunChromeEvents ==
  ASSUME NEW q \in RunInfo, NEW n \in Nat
  PROVE  /\ [q EXCEPT !.chrome_events = n] \in RunInfo
         /\ [q EXCEPT !.chrome_events = n].measurements = q.measurements
  BY DEF RunInfo

\* The invariant holds of an empty store.
LEMMA SInvInit == Init => SInv
<1>1. SUFFICES ASSUME Init PROVE SInv
  OBVIOUS
<1>2. runs \in Seq(RunInfo)
  BY <1>1 DEF Init
<1>3. seenFirst \in BOOLEAN /\ frameId \in Nat
  BY <1>1 DEF Init
<1>. QED
  BY <1>1, <1>2, <1>3 DEF Init, SInv, TypeOK, Opened, NoIndexError

\* Every event keeps the invariant.
LEMMA SInvStep == SInv /\ [Next]_vars => SInv'
<1>1. SUFFICES ASSUME SInv, [Next]_vars PROVE SInv'
  OBVIOUS
<1>2. /\ state # "INIT" => runs \in Seq(RunInfo) /\ runs # <<>> /\ LastRun \in RunInfo
      /\ seenFirst \in BOOLEAN /\ frameId \in Nat
  BY <1>1, LastRunType DEF SInv, TypeOK, Opened
<1>3. state = "ITERATION" =>
          /\ LastRun.measurements # <<>>
          /\ LastRun.measurements \in Seq(Measurement)
          /\ LastMeasurement \in Measurement
  BY <1>1, <1>2, LastMeasurementType DEF SInv, Opened, RunInfo
<1>4. CASE StartMarker
  BY <1>1, <1>4, NewTypes
     DEF StartMarker, SInv, TypeOK, Opened, NoIndexError, LastRun
<1>5. CASE EndMarker
  BY <1>1, <1>5 DEF EndMarker, SInv, TypeOK, Opened, NoIndexError, LastRun
<1>6. CASE IterationMarker
  <2>1. CASE state = "INIT"
    BY <1>1, <1>6, <2>1
       DEF IterationMarker, Drop, vars, SInv, TypeOK, Opened, NoIndexError, LastRun
  <2>2. CASE state # "INIT"
    <3>. DEFINE r == [LastRun EXCEPT !.measurements = Append(@, NewMeasurement)]
    <3>. DEFINE ms == Append(LastRun.measurements, NewMeasurement)
    <3>0. LastRun \in RunInfo /\ LastRun.measurements \in Seq(Measurement)
      BY <1>2, <2>2 DEF RunInfo
    <3>5. ms \in Seq(Measurement) /\ ms # <<>>
      BY <3>0, NewTypes
    <3>1. r \in RunInfo /\ r.measurements # <<>>
      BY <3>0, <3>5, RunMeasurements
    <3>2. runs' = WithRun(r) /\ state' = "ITERATION" /\ UNCHANGED <<seenFirst, frameId, failed>>
      BY <1>6, <2>2 DEF IterationMarker
    <3>. HIDE DEF r
    <3>3. /\ runs' \in Seq(RunInfo)
          /\ runs' # <<>>
          /\ runs'[Len(runs')] = r
      BY <1>2, <2>2, <3>1, <3>2, WithRunType
    <3>. QED
      BY <1>1, <3>1, <3>2, <3>3 DEF SInv, TypeOK, Opened, NoIndexError, LastRun
  <2>. QED
    BY <2>1, <2>2
<1>7. CASE ChromeEvent
  <2>1. CASE state = "INIT"
    BY <1>1, <1>7, <2>1
       DEF ChromeEvent, Drop, vars, SInv, TypeOK, Opened, NoIndexError, LastRun
  <2>2. CASE state # "INIT"
    <3>. DEFINE r == [LastRun EXCEPT !.chrome_events = @ + 1]
    <3>0. LastRun \in RunInfo /\ LastRun.chrome_events + 1 \in Nat
      BY <1>2, <2>2 DEF RunInfo
    <3>1. r \in RunInfo /\ (state = "ITERATION" => r.measurements # <<>>)
      BY <1>3, <3>0, RunChromeEvents
    <3>2. runs' = WithRun(r) /\ UNCHANGED <<state, seenFirst, frameId, failed>>
      BY <1>2, <1>7, <2>2 DEF ChromeEvent
    <3>. QED
      BY <1>1, <1>2, <2>2, <3>1, <3>2, FillStep
  <2>. QED
    BY <2>1, <2>2
<1>8. ASSUME NEW c \in CPUs, CpuInfo(c), state = "ITERATION" PROVE SInv'
  <2>. DEFINE m == [LastMeasurement EXCEPT !.counters = @ \cup {c}]
  <2>1. m \in Measurement
    BY <1>3, <1>8 DEF Measurement
  <2>2. CASE runs' = WithRun(WithMeasurement(m)) /\ UNCHANGED <<state, seenFirst, frameId, failed>>
    BY <1>1, <1>2, <1>3, <1>8, <2>1, <2>2, WithMeasurementType, FillStep
  <2>3. CASE Fail("AttributeError")
    BY <1>1, <2>3 DEF Fail, SInv, TypeOK, Opened, NoIndexError, LastRun
  <2>. QED
    BY <1>2, <1>3, <1>8, <2>2, <2>3 DEF CpuInfo, InMeasurement
<1>9. ASSUME NEW c \in CPUs, CpuFreq(c), state = "ITERATION" PROVE SInv'
  <2>. DEFINE m == [LastMeasurement EXCEPT !.freq = @ \cup {c}]
  <2>1. m \in Measurement
    BY <1>3, <1>9 DEF Measurement
  <2>2. runs' = WithRun(WithMeasurement(m)) /\ UNCHANGED <<state, seenFirst, frameId, failed>>
    BY <1>2, <1>3, <1>9 DEF CpuFreq, InMeasurement
  <2>. QED
    BY <1>1, <1>2, <1>3, <1>9, <2>1, <2>2, WithMeasurementType, FillStep
<1>10. ASSUME Ina231, state = "ITERATION" PROVE SInv'
  <2>1. UNCHANGED <<state, seenFirst, frameId, failed>>
    BY <1>2, <1>3, <1>10 DEF Ina231, InMeasurement
  <2>2. CASE LastRun.frames = <<>>
    BY <1>1, <1>2, <1>3, <1>10, <2>1, <2>2
       DEF Ina231, InMeasurement, SInv, TypeOK, Opened, NoIndexError, LastRun
  <2>3. CASE LastRun.frames # <<>>
    <3>. DEFINE fs == [LastRun.frames EXCEPT
                          ![Len(LastRun.frames)].power_value_count = @ + 1]
                r == [LastRun EXCEPT !.frames = fs]
    <3>1. LastRun.frames \in Seq(Frame)
      BY <1>2, <1>10 DEF RunInfo
    <3>0. /\ LastRun.frames[Len(LastRun.frames)] \in Frame
          /\ Len(LastRun.frames) \in 1 .. Len(LastRun.frames)
      BY <2>3, <3>1
    <3>5. [LastRun.frames[Len(LastRun.frames)] EXCEPT !.power_value_count = @ + 1] \in Frame
      BY <3>0 DEF Frame
    <3>2. fs \in Seq(Frame)
      BY <3>0, <3>1, <3>5
    <3>3. r \in RunInfo /\ r.measurements # <<>>
      BY <1>2, <1>3, <1>10, <3>2 DEF RunInfo
    <3>4. runs' = WithRun(r)
      BY <1>2, <1>3, <1>10, <2>3 DEF Ina231, InMeasurement, AddPowerValue
    <3>. QED
      BY <1>1, <1>2, <1>10, <2>1, <3>3, <3>4, FillStep
  <2>. QED
    BY <2>2, <2>3
<1>11. ASSUME OpenglFrame, state = "ITERATION" PROVE SInv'
  <2>1. CASE ~seenFirst
    BY <1>1, <1>2, <1>3, <1>11, <2>1
       DEF OpenglFrame, InMeasurement, SInv, TypeOK, Opened, NoIndexError, LastRun
  <2>2. CASE seenFirst
    <3>. DEFINE m == [LastMeasurement EXCEPT !.opengl_id = frameId']
                f == [id |-> frameId', power_value_count |-> 1]
                r == [WithMeasurement(m) EXCEPT !.frames = Append(@, f)]
    <3>1. frameId' = frameId + 1 /\ UNCHANGED <<state, seenFirst, failed>>
      BY <1>2, <1>3, <1>11, <2>2 DEF OpenglFrame, InMeasurement
    <3>2. m \in Measurement /\ f \in Frame
      BY <1>2, <1>3, <1>11, <3>1, SMTT(30) DEF Measurement, Frame
    <3>3. WithMeasurement(m) \in RunInfo /\ WithMeasurement(m).measurements # <<>>
      BY <1>2, <1>3, <1>11, <3>2, WithMeasurementType
    <3>. DEFINE w == WithMeasurement(m)
    <3>6. w.frames \in Seq(Frame)
      BY <3>3 DEF RunInfo
    <3>7. Append(w.frames, f) \in Seq(Frame)
      BY <3>2, <3>6
    <3>4. r \in RunInfo /\ r.measurements # <<>>
      BY <3>3, <3>7, RunFrames
    <3>8. seenFirst' \in BOOLEAN /\ frameId' \in Nat
      BY <1>2, <3>1
    <3>5. runs' = WithRun(r)
      BY <1>2, <1>3, <1>11, <2>2 DEF OpenglFrame, InMeasurement
    <3>. QED
      BY <1>1, <1>2, <1>11, <3>1, <3>4, <3>5, <3>8, FillStep
  <2>. QED
    BY <1>2, <1>11, <2>1, <2>2
<1>12. CASE UNCHANGED vars
  BY <1>1, <1>12 DEF vars, SInv, TypeOK, Opened, NoIndexError, LastRun
<1>13. ASSUME NEW c \in CPUs, CpuInfo(c) \/ CpuFreq(c), state # "ITERATION"
       PROVE  UNCHANGED vars
  BY <1>13 DEF CpuInfo, CpuFreq, InMeasurement, Drop
<1>14. ASSUME Ina231 \/ OpenglFrame, state # "ITERATION"
       PROVE  UNCHANGED vars
  BY <1>14 DEF Ina231, OpenglFrame, InMeasurement, Drop
<1>. QED
  BY <1>1, <1>4, <1>5, <1>6, <1>7, <1>8, <1>9, <1>10, <1>11, <1>12, <1>13, <1>14
     DEF Next

\* Every variable keeps its type, whatever the trace holds.
THEOREM StoreTypeCorrect == Spec => []TypeOK
<1>1. SInv => TypeOK
  BY DEF SInv
<1>. QED
  BY <1>1, SInvInit, SInvStep, PTL DEF Spec

\* runs[-1] and measurements[-1] never fail, whatever the trace holds
\* (trace_conv.py:270-374, 543-575).
THEOREM LookupsSafe == Spec => []NoIndexError
<1>1. SInv => NoIndexError
  BY DEF SInv
<1>. QED
  BY <1>1, SInvInit, SInvStep, PTL DEF Spec

-----------------------------------------------------------------------------
(* Frames and measurements.                                                *)

\* Within a run: measurements name frames of the run, the last frame is named,
\* ids increase.
RunLinks(q) ==
    /\ \A i \in 1 .. Len(q.measurements) : q.measurements[i].opengl_id \in Ids(q.frames) \cup {0}
    /\ q.frames # <<>> =>
           \E i \in 1 .. Len(q.measurements) :
               q.measurements[i].opengl_id = q.frames[Len(q.frames)].id
    /\ \A i, j \in 1 .. Len(q.frames) : i < j => q.frames[i].id < q.frames[j].id

\* Across runs: ids increase, and the counter has reached each of them.
Links ==
    /\ \A r \in 1 .. Len(runs) : RunLinks(runs[r])
    /\ \A r \in 1 .. Len(runs) : \A a \in Ids(runs[r].frames) : a <= frameId
    /\ \A q, r \in 1 .. Len(runs) :
           q < r => \A a \in Ids(runs[q].frames), b \in Ids(runs[r].frames) : a < b

\* What a step that is no frame does to a run: at most one measurement more,
\* with no frame, and otherwise the same ids and no counters lost.
SameLinks(q, r) ==
    /\ Len(r.frames) = Len(q.frames)
    /\ \A i \in 1 .. Len(q.frames) : r.frames[i].id = q.frames[i].id
    /\ Len(r.measurements) \in {Len(q.measurements), Len(q.measurements) + 1}
    /\ \A i \in 1 .. Len(q.measurements) :
           /\ r.measurements[i].opengl_id = q.measurements[i].opengl_id
           /\ q.measurements[i].counters \subseteq r.measurements[i].counters
    /\ Len(r.measurements) > Len(q.measurements) =>
           r.measurements[Len(r.measurements)].opengl_id = 0

\* What a frame does to a run: it is appended, and the last measurement names it.
AddsFrame(q, r, id) ==
    \E f \in Frame, m \in Measurement :
        /\ f.id = id /\ m.opengl_id = id
        /\ m.counters = q.measurements[Len(q.measurements)].counters
        /\ r.frames = Append(q.frames, f)
        /\ r.measurements = [q.measurements EXCEPT ![Len(q.measurements)] = m]

\* Ids are natural numbers.
LEMMA IdsNat == \A q \in RunInfo : Ids(q.frames) \subseteq Nat
<1>1. SUFFICES ASSUME NEW q \in RunInfo, NEW i \in 1 .. Len(q.frames)
               PROVE  q.frames[i].id \in Nat
  BY DEF Ids
<1>2. q.frames \in Seq(Frame)
  BY DEF RunInfo
<1>3. q.frames[i] \in Frame
  BY <1>2
<1>. QED
  BY <1>3 DEF Frame

\* The frames of two runs with the same links have the same ids.
LEMMA SameIds ==
  ASSUME NEW q \in RunInfo, NEW r \in RunInfo, SameLinks(q, r)
  PROVE  Ids(r.frames) = Ids(q.frames)
  BY DEF SameLinks, Ids

\* A step that is no frame keeps the links within a run.
LEMMA SameLinksKeep ==
  ASSUME NEW q \in RunInfo, NEW r \in RunInfo, SameLinks(q, r), RunLinks(q)
  PROVE  RunLinks(r)
<1>1. Ids(r.frames) = Ids(q.frames)
  BY SameIds
<1>2. /\ q.measurements \in Seq(Measurement) /\ r.measurements \in Seq(Measurement)
      /\ q.frames \in Seq(Frame) /\ r.frames \in Seq(Frame)
      /\ Len(q.measurements) \in Nat /\ Len(r.measurements) \in Nat
      /\ Len(q.frames) \in Nat /\ Len(r.frames) \in Nat
  BY DEF RunInfo
<1>3. \A i \in 1 .. Len(r.measurements) :
          r.measurements[i].opengl_id \in Ids(r.frames) \cup {0}
  <2>1. TAKE i \in 1 .. Len(r.measurements)
  <2>2. CASE i <= Len(q.measurements)
    <3>1. i \in 1 .. Len(q.measurements)
      BY <1>2, <2>2
    <3>2. q.measurements[i].opengl_id \in Ids(q.frames) \cup {0}
      BY <3>1 DEF RunLinks
    <3>. QED
      BY <1>1, <3>1, <3>2 DEF SameLinks
  <2>3. CASE i > Len(q.measurements)
    <3>1. i = Len(r.measurements) /\ Len(r.measurements) > Len(q.measurements)
      BY <1>2, <2>3 DEF SameLinks
    <3>. QED
      BY <3>1 DEF SameLinks
  <2>. QED
    BY <1>2, <2>2, <2>3
<1>4. ASSUME r.frames # <<>>
      PROVE  \E i \in 1 .. Len(r.measurements) :
                 r.measurements[i].opengl_id = r.frames[Len(r.frames)].id
  <2>1. q.frames # <<>> /\ Len(q.frames) \in 1 .. Len(q.frames)
    BY <1>2, <1>4 DEF SameLinks
  <2>2. PICK i \in 1 .. Len(q.measurements) :
                 q.measurements[i].opengl_id = q.frames[Len(q.frames)].id
    BY <2>1 DEF RunLinks
  <2>3. i \in 1 .. Len(r.measurements)
    BY <1>2 DEF SameLinks
  <2>. QED
    BY <2>1, <2>2, <2>3 DEF SameLinks
<1>5. \A i, j \in 1 .. Len(r.frames) : i < j => r.frames[i].id < r.frames[j].id
  BY <1>2 DEF SameLinks, RunLinks
<1>. QED
  BY <1>3, <1>4, <1>5 DEF RunLinks

\* A frame with an id above those of the run keeps the links within it.
LEMMA AddsFrameKeep ==
  ASSUME NEW q \in RunInfo, NEW r \in RunInfo, NEW id \in Nat, AddsFrame(q, r, id),
         q.measurements # <<>>, RunLinks(q), \A a \in Ids(q.frames) : a < id
  PROVE  RunLinks(r) /\ Ids(r.frames) = Ids(q.frames) \cup {id}
<1>1. PICK f \in Frame, m \in Measurement :
        /\ f.id = id /\ m.opengl_id = id
        /\ m.counters = q.measurements[Len(q.measurements)].counters
        /\ r.frames = Append(q.frames, f)
        /\ r.measurements = [q.measurements EXCEPT ![Len(q.measurements)] = m]
  BY DEF AddsFrame
<1>2. q.measurements \in Seq(Measurement) /\ q.frames \in Seq(Frame)
  BY DEF RunInfo
<1>. DEFINE n == Len(q.measurements)
            k == Len(q.frames)
<1>3. n \in Nat \ {0} /\ k \in Nat
  BY <1>2
<1>4. /\ Len(r.measurements) = n
      /\ r.measurements[n] = m
      /\ \A i \in 1 .. n : i # n => r.measurements[i] = q.measurements[i]
  BY <1>1, <1>2, <1>3
<1>5. /\ Len(r.frames) = k + 1
      /\ r.frames[k + 1] = f
      /\ \A i \in 1 .. k : r.frames[i] = q.frames[i]
  BY <1>1, <1>2
<1>. HIDE DEF n, k
<1>6. Ids(r.frames) = Ids(q.frames) \cup {id}
  <2>1. Ids(r.frames) \subseteq Ids(q.frames) \cup {id}
    <3>1. SUFFICES ASSUME NEW i \in 1 .. Len(r.frames)
                   PROVE  r.frames[i].id \in Ids(q.frames) \cup {id}
      BY DEF Ids
    <3>2. CASE i = k + 1
      BY <1>1, <1>5, <3>2
    <3>3. CASE i # k + 1
      <4>1. i \in 1 .. k
        BY <1>3, <1>5, <3>3
      <4>. QED
        BY <1>5, <4>1 DEF Ids, k
    <3>. QED
      BY <3>2, <3>3
  <2>2. id \in Ids(r.frames)
    <3>1. k + 1 \in 1 .. Len(r.frames)
      BY <1>3, <1>5
    <3>. QED
      BY <1>1, <1>5, <3>1 DEF Ids
  <2>3. Ids(q.frames) \subseteq Ids(r.frames)
    <3>1. SUFFICES ASSUME NEW i \in 1 .. k PROVE q.frames[i].id \in Ids(r.frames)
      BY DEF Ids, k
    <3>2. i \in 1 .. Len(r.frames)
      BY <1>3, <1>5
    <3>. QED
      BY <1>5, <3>2 DEF Ids
  <2>. QED
    BY <2>1, <2>2, <2>3
<1>7. \A i \in 1 .. Len(r.measurements) :
          r.measurements[i].opengl_id \in Ids(r.frames) \cup {0}
  <2>1. TAKE i \in 1 .. Len(r.measurements)
  <2>2. CASE i = n
    BY <1>1, <1>4, <1>6, <2>2
  <2>3. CASE i # n
    BY <1>4, <1>6, <2>3 DEF RunLinks, n
  <2>. QED
    BY <2>2, <2>3
<1>8. \E i \in 1 .. Len(r.measurements) :
          r.measurements[i].opengl_id = r.frames[Len(r.frames)].id
  <2>1. n \in 1 .. Len(r.measurements)
    BY <1>3, <1>4
  <2>. QED
    BY <1>1, <1>4, <1>5, <2>1
<1>9. \A i, j \in 1 .. Len(r.frames) : i < j => r.frames[i].id < r.frames[j].id
  <2>1. SUFFICES ASSUME NEW i \in 1 .. Len(r.frames), NEW j \in 1 .. Len(r.frames), i < j
                 PROVE  r.frames[i].id < r.frames[j].id
    OBVIOUS
  <2>2. i \in 1 .. k /\ q.frames[i].id \in Ids(q.frames) /\ r.frames[i] = q.frames[i]
    <3>1. i \in 1 .. k
      BY <1>3, <1>5, <2>1
    <3>. QED
      BY <1>5, <3>1 DEF Ids, k
  <2>3. CASE j = k + 1
    BY <1>1, <1>5, <2>2, <2>3
  <2>4. CASE j # k + 1
    <3>1. j \in 1 .. k
      BY <1>3, <1>5, <2>4
    <3>. QED
      BY <1>5, <2>1, <2>2, <3>1 DEF RunLinks, k
  <2>. QED
    BY <2>3, <2>4
<1>. QED
  BY <1>6, <1>7, <1>8, <1>9 DEF RunLinks

\* The last run replaced by one whose ids are its own or new.
LEMMA LinkStep ==
  ASSUME runs \in Seq(RunInfo), runs # <<>>, Links, frameId \in Nat, frameId' \in Nat,
         frameId <= frameId', NEW r \in RunInfo, runs' = WithRun(r), RunLinks(r),
         Ids(LastRun.frames) \subseteq Ids(r.frames),
         \A b \in Ids(r.frames) :
             (b \in Ids(LastRun.frames) \/ b > frameId) /\ b \in Nat /\ b <= frameId'
  PROVE  Links'
<1>. DEFINE n == Len(runs)
<1>1. /\ n \in Nat \ {0}
      /\ Len(runs') = n
      /\ runs'[n] = r
      /\ \A i \in 1 .. n : i # n => runs'[i] = runs[i]
      /\ LastRun = runs[n]
      /\ \A i \in 1 .. n : runs[i] \in RunInfo
  BY DEF WithRun, LastRun
<1>2. \A i \in 1 .. n : \A a \in Ids(runs[i].frames) : a \in Nat
  <2>1. TAKE i \in 1 .. n
  <2>2. runs[i] \in RunInfo
    BY <1>1
  <2>. QED
    BY <2>2, IdsNat
<1>. HIDE DEF n
<1>3. \A i \in 1 .. n : RunLinks(runs'[i])
  BY <1>1 DEF Links, n
<1>4. \A i \in 1 .. n : \A a \in Ids(runs'[i].frames) : a <= frameId'
  <2>1. TAKE i \in 1 .. n
  <2>2. CASE i = n
    BY <1>1, <2>2
  <2>3. CASE i # n
    <3>1. TAKE a \in Ids(runs'[i].frames)
    <3>2. a \in Nat /\ a <= frameId
      BY <1>1, <1>2, <2>3, <3>1 DEF Links, n
    <3>. QED
      BY <3>2
  <2>. QED
    BY <2>2, <2>3
<1>5. ASSUME NEW p \in 1 .. n, NEW q \in 1 .. n, p < q,
             NEW a \in Ids(runs'[p].frames), NEW b \in Ids(runs'[q].frames)
      PROVE  a < b
  <2>1. p # n /\ a \in Ids(runs[p].frames) /\ a \in Nat /\ a <= frameId
    BY <1>1, <1>2, <1>5 DEF Links, n
  <2>2. CASE q = n
    <3>1. b \in Nat /\ (b \in Ids(runs[n].frames) \/ b > frameId)
      BY <1>1, <1>5, <2>2
    <3>2. CASE b > frameId
      BY <2>1, <3>1, <3>2
    <3>3. CASE b \in Ids(runs[n].frames)
      BY <1>5, <2>1, <2>2, <3>3 DEF Links, n
    <3>. QED
      BY <3>1, <3>2, <3>3
  <2>3. CASE q # n
    <3>1. b \in Ids(runs[q].frames)
      BY <1>1, <1>5, <2>3
    <3>. QED
      BY <1>5, <2>1, <3>1 DEF Links, n
  <2>. QED
    BY <2>2, <2>3
<1>. QED
  BY <1>1, <1>3, <1>4, <1>5 DEF Links, RunLinks

\* A run that keeps its links.
KeepsRuns(grows) ==
    \/ ~grows /\ runs' = runs
    \/ /\ runs # <<>>
       /\ \E r \in RunInfo :
              /\ runs' = WithRun(r)
              /\ SameLinks(LastRun, r)
              /\ Len(r.measurements) = Len(LastRun.measurements) + (IF grows THEN 1 ELSE 0)

\* What is known where measurements are taken.
LEMMA Taking ==
  ASSUME SInv, state = "ITERATION"
  PROVE  /\ runs \in Seq(RunInfo) /\ runs # <<>> /\ LastRun \in RunInfo
         /\ LastRun.measurements # <<>> /\ LastRun.measurements \in Seq(Measurement)
         /\ LastRun.frames \in Seq(Frame)
         /\ LastMeasurement \in Measurement
         /\ Len(LastRun.measurements) \in Nat \ {0}
<1>1. runs \in Seq(RunInfo) /\ runs # <<>> /\ LastRun.measurements # <<>>
  BY DEF SInv, TypeOK, Opened
<1>2. LastRun \in RunInfo /\ LastMeasurement \in Measurement
  BY <1>1, LastRunType, LastMeasurementType
<1>3. LastRun.measurements \in Seq(Measurement) /\ LastRun.frames \in Seq(Frame)
  BY <1>2 DEF RunInfo
<1>. QED
  BY <1>1, <1>2, <1>3

\* A measurement replaced by one with the same frame keeps the links.
LEMMA WithMeasurementLinks ==
  ASSUME SInv, state = "ITERATION", NEW m \in Measurement,
         m.opengl_id = LastMeasurement.opengl_id,
         LastMeasurement.counters \subseteq m.counters
  PROVE  /\ WithMeasurement(m) \in RunInfo
         /\ SameLinks(LastRun, WithMeasurement(m))
         /\ Len(WithMeasurement(m).measurements) = Len(LastRun.measurements)
<1>. DEFINE ms == LastRun.measurements
            n == Len(ms)
<1>1. /\ ms \in Seq(Measurement) /\ n \in Nat \ {0} /\ LastRun \in RunInfo
      /\ LastMeasurement = ms[n]
  BY Taking DEF LastMeasurement
<1>2. WithMeasurement(m) \in RunInfo /\ WithMeasurement(m).frames = LastRun.frames
  BY Taking, WithMeasurementType
<1>3. WithMeasurement(m).measurements = [ms EXCEPT ![n] = m]
  BY <1>1 DEF WithMeasurement, RunInfo
<1>4. /\ Len(WithMeasurement(m).measurements) = n
      /\ \A i \in 1 .. n : WithMeasurement(m).measurements[i] = IF i = n THEN m ELSE ms[i]
  BY <1>1, <1>3
<1>. QED
  BY <1>1, <1>2, <1>4 DEF SameLinks

\* Measurements other than frames keep the links and the number of measurements.
LEMMA SampleKeeps ==
  ASSUME SInv, state = "ITERATION", NEW c \in CPUs, CpuInfo(c) \/ CpuFreq(c)
  PROVE  KeepsRuns(FALSE) /\ UNCHANGED <<state, seenFirst, frameId>>
<1>0. Len(LastRun.measurements) + 0 = Len(LastRun.measurements)
  BY Taking
<1>1. CASE CpuInfo(c) /\ ~Fail("AttributeError")
  <2>. DEFINE m == [LastMeasurement EXCEPT !.counters = @ \cup {c}]
  <2>1. /\ m \in Measurement /\ m.opengl_id = LastMeasurement.opengl_id
        /\ LastMeasurement.counters \subseteq m.counters
    BY Taking DEF Measurement
  <2>2. runs' = WithRun(WithMeasurement(m)) /\ UNCHANGED <<state, seenFirst, frameId>>
    BY Taking, <1>1 DEF CpuInfo, InMeasurement
  <2>. QED
    BY <1>0, <2>1, <2>2, Taking, WithMeasurementLinks DEF KeepsRuns
<1>2. CASE CpuFreq(c)
  <2>. DEFINE m == [LastMeasurement EXCEPT !.freq = @ \cup {c}]
  <2>1. /\ m \in Measurement /\ m.opengl_id = LastMeasurement.opengl_id
        /\ LastMeasurement.counters \subseteq m.counters
    BY Taking DEF Measurement
  <2>2. runs' = WithRun(WithMeasurement(m)) /\ UNCHANGED <<state, seenFirst, frameId>>
    BY Taking, <1>2 DEF CpuFreq, InMeasurement
  <2>. QED
    BY <1>0, <2>1, <2>2, Taking, WithMeasurementLinks DEF KeepsRuns
<1>4. CASE Fail("AttributeError")
  BY <1>4 DEF Fail, KeepsRuns
<1>. QED
  BY <1>1, <1>2, <1>4

\* So do the power sensors.
LEMMA Ina231Keeps ==
  ASSUME SInv, state = "ITERATION", Ina231
  PROVE  KeepsRuns(FALSE) /\ UNCHANGED <<state, seenFirst, frameId>>
<1>0. Len(LastRun.measurements) + 0 = Len(LastRun.measurements)
  BY Taking
<1>. DEFINE fs == LastRun.frames
            n == Len(fs)
            r == [LastRun EXCEPT !.frames = AddPowerValue(fs)]
<1>1. UNCHANGED <<state, seenFirst, frameId>>
  BY Taking DEF Ina231, InMeasurement
<1>2. CASE fs = <<>>
  BY Taking, <1>1, <1>2 DEF Ina231, InMeasurement, KeepsRuns
<1>3. CASE fs # <<>>
  <2>1. fs \in Seq(Frame) /\ n \in 1 .. n /\ fs[n] \in Frame
    BY Taking, <1>3
  <2>2. /\ [fs[n] EXCEPT !.power_value_count = @ + 1] \in Frame
        /\ [fs[n] EXCEPT !.power_value_count = @ + 1].id = fs[n].id
    BY <2>1, SMTT(30) DEF Frame
  <2>3. /\ AddPowerValue(fs) \in Seq(Frame) /\ Len(AddPowerValue(fs)) = n
        /\ \A i \in 1 .. n : AddPowerValue(fs)[i].id = fs[i].id
    BY <2>1, <2>2 DEF AddPowerValue
  <2>4. r \in RunInfo /\ r.frames = AddPowerValue(fs) /\ r.measurements = LastRun.measurements
    BY Taking, <2>3 DEF RunInfo
  <2>5. SameLinks(LastRun, r)
    BY Taking, <2>3, <2>4 DEF SameLinks
  <2>6. runs' = WithRun(r)
    BY Taking, <1>3 DEF Ina231, InMeasurement
  <2>. QED
    BY <1>0, <1>1, <2>4, <2>5, <2>6, Taking DEF KeepsRuns
<1>. QED
  BY <1>2, <1>3

\* So does a Chrome event.
LEMMA ChromeKeeps ==
  ASSUME SInv, ChromeEvent
  PROVE  KeepsRuns(FALSE) /\ UNCHANGED <<state, seenFirst, frameId>>
<1>1. CASE state = "INIT"
  BY <1>1 DEF ChromeEvent, Drop, vars, KeepsRuns
<1>2. CASE state # "INIT"
  <2>. DEFINE r == [LastRun EXCEPT !.chrome_events = @ + 1]
  <2>1. runs # <<>> /\ LastRun \in RunInfo
    BY <1>2, LastRunType DEF SInv, TypeOK, Opened
  <2>2. r \in RunInfo /\ r.frames = LastRun.frames /\ r.measurements = LastRun.measurements
    BY <2>1 DEF RunInfo
  <2>3. Len(LastRun.measurements) \in Nat
    BY <2>1 DEF RunInfo
  <2>4. SameLinks(LastRun, r) /\ Len(r.measurements) = Len(LastRun.measurements) + 0
    BY <2>2, <2>3 DEF SameLinks
  <2>5. runs' = WithRun(r) /\ UNCHANGED <<state, seenFirst, frameId>>
    BY <1>2, <2>1 DEF ChromeEvent
  <2>. QED
    BY <2>1, <2>2, <2>4, <2>5 DEF KeepsRuns
<1>. QED
  BY <1>1, <1>2

\* An iteration marker adds a measurement to the last run, or is dropped.
LEMMA IterationAdds ==
  ASSUME SInv, IterationMarker
  PROVE  /\ UNCHANGED <<seenFirst, frameId, failed>>
         /\ state = "INIT" => UNCHANGED <<state, runs>>
         /\ state # "INIT" =>
                /\ KeepsRuns(TRUE)
                /\ runs' = WithRun([LastRun EXCEPT !.measurements = Append(@, NewMeasurement)])
                /\ state' = "ITERATION"
<1>1. UNCHANGED <<seenFirst, frameId, failed>> /\ (state = "INIT" => UNCHANGED <<state, runs>>)
  BY DEF IterationMarker, Drop, vars
<1>2. ASSUME state # "INIT"
      PROVE  /\ KeepsRuns(TRUE)
             /\ runs' = WithRun([LastRun EXCEPT !.measurements = Append(@, NewMeasurement)])
             /\ state' = "ITERATION"
  <2>. DEFINE ms == LastRun.measurements
              ns == Append(ms, NewMeasurement)
              r == [LastRun EXCEPT !.measurements = ns]
  <2>1. runs # <<>> /\ LastRun \in RunInfo
    BY <1>2, LastRunType DEF SInv, TypeOK, Opened
  <2>2. ms \in Seq(Measurement) /\ Len(ms) \in Nat
    BY <2>1 DEF RunInfo
  <2>3. /\ ns \in Seq(Measurement) /\ Len(ns) = Len(ms) + 1
        /\ \A i \in 1 .. Len(ms) : ns[i] = ms[i]
        /\ ns[Len(ns)].opengl_id = 0
    BY <2>2, NewTypes DEF NewMeasurement
  <2>4. r \in RunInfo /\ r.measurements = ns /\ r.frames = LastRun.frames
    BY <2>1, <2>3 DEF RunInfo
  <2>5. SameLinks(LastRun, r)
    BY <2>2, <2>3, <2>4 DEF SameLinks
  <2>6. runs' = WithRun(r) /\ state' = "ITERATION"
    BY <1>2 DEF IterationMarker
  <2>. QED
    BY <2>1, <2>3, <2>4, <2>5, <2>6 DEF KeepsRuns
<1>. QED
  BY <1>1, <1>2

\* A frame, but for the first of all, is appended to the last run and noted in
\* its last measurement.
LEMMA FrameAdds ==
  ASSUME SInv, state = "ITERATION", OpenglFrame
  PROVE  /\ UNCHANGED <<state, failed>>
         /\ \/ UNCHANGED <<runs, frameId>>
            \/ /\ frameId' = frameId + 1
               /\ \E r \in RunInfo :
                      /\ runs' = WithRun(r)
                      /\ AddsFrame(LastRun, r, frameId')
<1>1. CASE ~seenFirst
  BY Taking, <1>1 DEF OpenglFrame, InMeasurement
<1>2. CASE seenFirst
  <2>. DEFINE m == [LastMeasurement EXCEPT !.opengl_id = frameId']
              f == [id |-> frameId', power_value_count |-> 1]
              w == WithMeasurement(m)
              r == [w EXCEPT !.frames = Append(@, f)]
  <2>1. frameId' = frameId + 1 /\ UNCHANGED <<state, failed>> /\ runs' = WithRun(r)
    BY Taking, <1>2 DEF OpenglFrame, InMeasurement
  <2>2. /\ m \in Measurement /\ m.opengl_id = frameId' /\ f \in Frame /\ f.id = frameId'
        /\ m.counters = LastMeasurement.counters
    <3>1. frameId' \in Nat
      BY <2>1 DEF SInv, TypeOK
    <3>2. m \in Measurement /\ m.opengl_id = frameId' /\ m.counters = LastMeasurement.counters
      BY <3>1, Taking DEF Measurement
    <3>. QED
      BY <3>1, <3>2 DEF Frame
  <2>3. /\ w \in RunInfo /\ w.frames = LastRun.frames
        /\ w.measurements = [LastRun.measurements EXCEPT ![Len(LastRun.measurements)] = m]
    <3>1. w \in RunInfo /\ w.frames = LastRun.frames
      BY <2>2, Taking, WithMeasurementType
    <3>2. w.measurements = [LastRun.measurements EXCEPT ![Len(LastRun.measurements)] = m]
      BY Taking DEF WithMeasurement, RunInfo
    <3>. QED
      BY <3>1, <3>2
  <2>. HIDE DEF w, m, f
  <2>4. Append(w.frames, f) \in Seq(Frame)
    BY <2>2, <2>3, Taking
  <2>5. r \in RunInfo /\ r.frames = Append(w.frames, f) /\ r.measurements = w.measurements
    BY <2>3, <2>4 DEF RunInfo
  <2>6. AddsFrame(LastRun, r, frameId')
    BY <2>2, <2>3, <2>5 DEF AddsFrame, LastMeasurement
  <2>. QED
    BY <2>1, <2>5, <2>6
<1>. QED
  BY <1>1, <1>2

\* Steps that keep the runs keep the links.
LEMMA KeepsLinks ==
  ASSUME SInv, Links, NEW g \in BOOLEAN, KeepsRuns(g), UNCHANGED frameId
  PROVE  Links'
<1>1. CASE runs' = runs
  BY <1>1 DEF Links, RunLinks
<1>2. CASE runs' # runs
  <2>1. runs # <<>>
    BY <1>2 DEF KeepsRuns
  <2>2. PICK r \in RunInfo : runs' = WithRun(r) /\ SameLinks(LastRun, r)
    BY <1>2 DEF KeepsRuns
  <2>3. LastRun \in RunInfo /\ runs \in Seq(RunInfo) /\ frameId \in Nat
    BY <2>1, LastRunType DEF SInv, TypeOK
  <2>4. Len(runs) \in 1 .. Len(runs)
    BY <2>1, <2>3
  <2>5. RunLinks(r) /\ Ids(r.frames) = Ids(LastRun.frames)
    BY <2>2, <2>3, <2>4, SameIds, SameLinksKeep DEF Links, LastRun
  <2>6. \A b \in Ids(LastRun.frames) : b \in Nat /\ b <= frameId
    BY <2>3, <2>4, IdsNat DEF Links, LastRun
  <2>. QED
    BY <2>1, <2>2, <2>3, <2>5, <2>6, LinkStep
<1>. QED
  BY <1>1, <1>2

\* A new run has no frames yet.
LEMMA StartLinks ==
  ASSUME SInv, Links, StartMarker
  PROVE  Links'
<1>1. CASE state # "INIT"
  BY <1>1 DEF StartMarker, Links, RunLinks
<1>2. CASE state = "INIT"
  <2>. DEFINE n == Len(runs)
  <2>1. runs' = Append(runs, NewRun) /\ frameId' = frameId /\ runs \in Seq(RunInfo)
    BY <1>2 DEF StartMarker, SInv, TypeOK
  <2>2. /\ n \in Nat /\ Len(runs') = n + 1 /\ runs'[n + 1] = NewRun
        /\ \A i \in 1 .. n : runs'[i] = runs[i]
    BY <2>1
  <2>3. RunLinks(NewRun) /\ Ids(NewRun.frames) = {}
    BY DEF NewRun, RunLinks, Ids
  <2>. HIDE DEF n
  <2>4. \A i \in 1 .. n + 1 : i = n + 1 \/ i \in 1 .. n
    BY <2>2
  <2>5. \A i \in 1 .. n + 1 : RunLinks(runs'[i])
    BY <2>2, <2>3, <2>4 DEF Links, n
  <2>6. \A i \in 1 .. n + 1 : \A a \in Ids(runs'[i].frames) : a <= frameId'
    BY <2>1, <2>2, <2>3, <2>4 DEF Links, n
  <2>7. \A p, q \in 1 .. n + 1 :
           p < q => \A a \in Ids(runs'[p].frames), b \in Ids(runs'[q].frames) : a < b
    BY <2>2, <2>3, <2>4 DEF Links, n
  <2>. QED
    BY <2>2, <2>5, <2>6, <2>7 DEF Links, RunLinks
<1>. QED
  BY <1>1, <1>2

\* A frame keeps the links: its id is new.
LEMMA FrameLinksStep ==
  ASSUME SInv, Links, OpenglFrame
  PROVE  Links'
<1>1. CASE state # "ITERATION"
  BY <1>1 DEF OpenglFrame, InMeasurement, Drop, vars, Links, RunLinks
<1>2. CASE state = "ITERATION" /\ UNCHANGED <<runs, frameId>>
  BY <1>2 DEF Links, RunLinks
<1>3. CASE state = "ITERATION" /\ ~UNCHANGED <<runs, frameId>>
  <2>1. frameId' = frameId + 1 /\ frameId \in Nat
    BY <1>3, FrameAdds DEF SInv, TypeOK
  <2>2. PICK r \in RunInfo : runs' = WithRun(r) /\ AddsFrame(LastRun, r, frameId')
    BY <1>3, FrameAdds
  <2>3. /\ runs # <<>> /\ LastRun \in RunInfo /\ runs \in Seq(RunInfo)
        /\ LastRun.measurements # <<>>
    BY <1>3, Taking
  <2>4. Len(runs) \in 1 .. Len(runs)
    BY <2>3
  <2>5. RunLinks(LastRun) /\ \A b \in Ids(LastRun.frames) : b \in Nat /\ b <= frameId
    BY <2>3, <2>4, IdsNat DEF Links, LastRun
  <2>6. frameId' \in Nat /\ \A b \in Ids(LastRun.frames) : b < frameId'
    BY <2>1, <2>5
  <2>7. RunLinks(r) /\ Ids(r.frames) = Ids(LastRun.frames) \cup {frameId'}
    BY <2>2, <2>3, <2>5, <2>6, AddsFrameKeep
  <2>8. /\ Ids(LastRun.frames) \subseteq Ids(r.frames)
        /\ \A b \in Ids(r.frames) :
               (b \in Ids(LastRun.frames) \/ b > frameId) /\ b \in Nat /\ b <= frameId'
    BY <2>1, <2>5, <2>7
  <2>. QED
    BY <2>1, <2>2, <2>3, <2>6, <2>7, <2>8, LinkStep
<1>. QED
  BY <1>1, <1>2, <1>3

\* Every event keeps the links.
LEMMA LinksStep == SInv /\ Links /\ [Next]_vars => Links'
<1>1. SUFFICES ASSUME SInv, Links, [Next]_vars PROVE Links'
  OBVIOUS
<1>2. CASE UNCHANGED vars
  BY <1>1, <1>2 DEF vars, Links, RunLinks
<1>3. CASE StartMarker
  BY <1>1, <1>3, StartLinks
<1>4. CASE EndMarker
  BY <1>1, <1>4 DEF EndMarker, Links, RunLinks
<1>5. CASE IterationMarker
  <2>1. CASE state = "INIT"
    BY <1>1, <1>5, <2>1, IterationAdds DEF Links, RunLinks
  <2>2. CASE state # "INIT"
    BY <1>1, <1>5, <2>2, IterationAdds, KeepsLinks
  <2>. QED
    BY <2>1, <2>2
<1>6. CASE ChromeEvent
  BY <1>1, <1>6, ChromeKeeps, KeepsLinks
<1>7. ASSUME NEW c \in CPUs, CpuInfo(c) \/ CpuFreq(c) PROVE Links'
  <2>1. CASE state = "ITERATION"
    BY <1>1, <1>7, <2>1, SampleKeeps, KeepsLinks
  <2>2. CASE state # "ITERATION"
    BY <1>1, <1>7, <2>2 DEF CpuInfo, CpuFreq, InMeasurement, Drop, vars, Links, RunLinks
  <2>. QED
    BY <2>1, <2>2
<1>8. CASE Ina231
  <2>1. CASE state = "ITERATION"
    BY <1>1, <1>8, <2>1, Ina231Keeps, KeepsLinks
  <2>2. CASE state # "ITERATION"
    BY <1>1, <1>8, <2>2 DEF Ina231, InMeasurement, Drop, vars, Links, RunLinks
  <2>. QED
    BY <2>1, <2>2
<1>9. CASE OpenglFrame
  BY <1>1, <1>9, FrameLinksStep
<1>. QED
  BY <1>1, <1>2, <1>3, <1>4, <1>5, <1>6, <1>7, <1>8, <1>9 DEF Next

\* A frame is filed with its run and noted in one of the run's measurements, and
\* ids increase over the trace (trace_conv.py:85-88, 287-292).
THEOREM FramesLinked == Spec => []FrameLinks
<1>1. Init => Links
  BY DEF Init, Links
<1>2. SInv /\ Links => FrameLinks
  <2>1. SUFFICES ASSUME SInv, Links, NEW r \in 1 .. Len(runs)
                 PROVE  LET fs == runs[r].frames
                            ms == runs[r].measurements
                        IN /\ \A i \in 1 .. Len(ms) : ms[i].opengl_id \in Ids(fs) \cup {0}
                           /\ fs # <<>> => \E i \in 1 .. Len(ms) : ms[i].opengl_id = fs[Len(fs)].id
                           /\ \A i, j \in 1 .. Len(fs) : i < j => fs[i].id < fs[j].id
                           /\ \A q \in 1 .. r - 1 : \A a \in Ids(runs[q].frames), b \in Ids(fs) : a < b
    BY DEF FrameLinks
  <2>2. Len(runs) \in Nat
    BY <2>1 DEF SInv, TypeOK
  <2>3. \A q \in 1 .. r - 1 : q \in 1 .. Len(runs) /\ q < r
    BY <2>2
  <2>. QED
    BY <2>1, <2>3 DEF Links, RunLinks
<1>. QED
  BY <1>1, <1>2, SInvInit, SInvStep, LinksStep, PTL DEF Spec
=============================================================================
