----------------------------- MODULE TraceStore -----------------------------
(***************************************************************************)
(* The reader of a recorded trace, class TraceStore of                     *)
(* src/trace_conv/trace_conv.py.  It sees the events in the order of their *)
(* time stamps and files them into measurement runs.  The events can come  *)
(* in any order here: a recording can begin anywhere and miss events.      *)
(*                                                                         *)
(* Kept of an event is which list it goes to and what it lets the reader   *)
(* look up; the recorded quantities are left out.  A step after which the  *)
(* program has ended with an exception leaves `failed' at its name.        *)
(***************************************************************************)
EXTENDS Naturals, Sequences

CONSTANT CPUs       \* the numbers of the CPUs

ASSUME CPUsAssumption == CPUs \subseteq Nat

VARIABLES
    state,          \* TraceStoreState: "INIT", "START", "ITERATION"
    runs,           \* the sequence of RunInfo
    seenFirst,      \* FrameInfo._seen_first_frame, a class attribute
    frameId,        \* FrameInfo.frame_id, a class attribute
    failed          \* "none", "IndexError" or "AttributeError"

vars == <<state, runs, seenFirst, frameId, failed>>

\* MeasurementInfo: the CPUs with counters and with a frequency, and the
\* frame noted last (0: none).
Measurement == [counters : SUBSET CPUs, freq : SUBSET CPUs, opengl_id : Nat]
NewMeasurement == [counters |-> {}, freq |-> {}, opengl_id |-> 0]

\* FrameInfo: its id and the number of power values in its average.
Frame == [id : Nat, power_value_count : Nat]

RunInfo == [measurements : Seq(Measurement), frames : Seq(Frame), chrome_events : Nat]
NewRun == [measurements |-> <<>>, frames |-> <<>>, chrome_events |-> 0]

TypeOK ==
    /\ state \in {"INIT", "START", "ITERATION"}
    /\ runs \in Seq(RunInfo)
    /\ seenFirst \in BOOLEAN
    /\ frameId \in Nat
    /\ failed \in {"none", "IndexError", "AttributeError"}

Init ==
    /\ state = "INIT"
    /\ runs = <<>>
    /\ seenFirst = FALSE
    /\ frameId = 0
    /\ failed = "none"

LastRun == runs[Len(runs)]
LastMeasurement == LastRun.measurements[Len(LastRun.measurements)]

\* runs[-1] and measurements[-1] replaced.
WithRun(r) == [runs EXCEPT ![Len(runs)] = r]
WithMeasurement(m) ==
    [LastRun EXCEPT !.measurements = [@ EXCEPT ![Len(@)] = m]]

Drop == UNCHANGED vars

Fail(e) ==
    /\ failed' = e
    /\ UNCHANGED <<state, runs, seenFirst, frameId>>

-----------------------------------------------------------------------------
(* _process_event, one operator for each kind of event.                    *)

\* A start marker inside a run is dropped with a warning.
StartMarker ==
    /\ IF state = "INIT"
       THEN state' = "START" /\ runs' = Append(runs, NewRun)
       ELSE UNCHANGED <<state, runs>>
    /\ UNCHANGED <<seenFirst, frameId, failed>>

EndMarker ==
    /\ state' = "INIT"
    /\ UNCHANGED <<runs, seenFirst, frameId, failed>>

\* Faults the runs must notice: the first iteration marker of a run opens no
\* measurement; an iteration marker outside a run opens a run.
IterationMarkerLate ==
    IF state = "INIT"
    THEN Drop
    ELSE /\ state' = "ITERATION"
         /\ runs' = IF state = "START" THEN runs
                    ELSE WithRun([LastRun EXCEPT !.measurements = Append(@, NewMeasurement)])
         /\ UNCHANGED <<seenFirst, frameId, failed>>

IterationMarkerOpens ==
    /\ state' = "ITERATION"
    /\ runs' = IF state = "INIT"
               THEN Append(runs, [NewRun EXCEPT !.measurements = <<NewMeasurement>>])
               ELSE WithRun([LastRun EXCEPT !.measurements = Append(@, NewMeasurement)])
    /\ UNCHANGED <<seenFirst, frameId, failed>>

\* new_iteration
IterationMarker ==
    IF state = "INIT"
    THEN Drop
    ELSE /\ state' = "ITERATION"
         /\ runs' = WithRun([LastRun EXCEPT !.measurements = Append(@, NewMeasurement)])
         /\ UNCHANGED <<seenFirst, frameId, failed>>

\* Chrome events count from the start marker on.
ChromeEvent ==
    IF state = "INIT"
    THEN Drop
    ELSE IF runs = <<>> THEN Fail("IndexError")
    ELSE /\ runs' = WithRun([LastRun EXCEPT !.chrome_events = @ + 1])
         /\ UNCHANGED <<state, seenFirst, frameId, failed>>

\* A fault: measurements are taken from the start marker on.
InMeasurementOrStart(Body) ==
    IF state = "INIT" THEN Drop
    ELSE IF runs = <<>> THEN Fail("IndexError")
    ELSE IF LastRun.measurements = <<>> THEN Fail("IndexError")
    ELSE Body

\* new_measurement is called in an iteration only; its first use of
\* measurements[-1] needs one.
InMeasurement(Body) ==
    IF state # "ITERATION" THEN Drop
    ELSE IF runs = <<>> THEN Fail("IndexError")
    ELSE IF LastRun.measurements = <<>> THEN Fail("IndexError")
    ELSE Body

\* A fault: the sample searched for may be the one being filled.
CpuInfoSelf(c) ==
    InMeasurement(
        \E i \in 1 .. Len(LastRun.measurements) :
            IF c \in LastRun.measurements[i].counters \/ Len(LastRun.measurements) = 1
            THEN /\ runs' = WithRun(WithMeasurement([LastMeasurement EXCEPT !.counters = @ \cup {c}]))
                 /\ UNCHANGED <<state, seenFirst, frameId, failed>>
            ELSE Fail("AttributeError"))

\* A fault: the counters are filed under the number of the next CPU.
CpuInfoFromOne(c) ==
    InMeasurement(
        /\ runs' = WithRun(WithMeasurement([LastMeasurement EXCEPT !.counters = @ \cup {c + 1}]))
        /\ UNCHANGED <<state, seenFirst, frameId, failed>>)

\* cpu_info: the load since some earlier sample of the run.  Which one is a
\* matter of time stamps (20 ms back, or the first).  A sample that holds no
\* counters of this CPU ends the program.
CpuInfo(c) ==
    InMeasurement(
        LET n == Len(LastRun.measurements)
            Note == /\ runs' = WithRun(WithMeasurement([LastMeasurement EXCEPT !.counters = @ \cup {c}]))
                    /\ UNCHANGED <<state, seenFirst, frameId, failed>>
        IN \/ n = 1 /\ Note
           \/ \E i \in 1 .. n - 1 :
                  IF c \in LastRun.measurements[i].counters
                  THEN Note
                  ELSE Fail("AttributeError"))

\* cpu_freq: the loop over range(cpu, cpu + 4) writes the entry of cpu, four
\* times.
CpuFreq(c) ==
    InMeasurement(
        /\ runs' = WithRun(WithMeasurement([LastMeasurement EXCEPT !.freq = @ \cup {c}]))
        /\ UNCHANGED <<state, seenFirst, frameId, failed>>)

\* frames[-1].add_power_value
AddPowerValue(fs) == [fs EXCEPT ![Len(fs)].power_value_count = @ + 1]

\* ina231: the values also enter the average of the last frame.
Ina231 ==
    InMeasurement(
        /\ runs' = IF LastRun.frames = <<>>
                   THEN runs
                   ELSE WithRun([LastRun EXCEPT !.frames = AddPowerValue(LastRun.frames)])
        /\ UNCHANGED <<state, seenFirst, frameId, failed>>)

\* A fault: the measurement notes the id of the frame before.
OpenglFrameOffByOne ==
    InMeasurement(
        IF ~seenFirst
        THEN seenFirst' = TRUE /\ UNCHANGED <<state, runs, frameId, failed>>
        ELSE /\ frameId' = frameId + 1
             /\ runs' = WithRun([WithMeasurement([LastMeasurement EXCEPT !.opengl_id = frameId])
                            EXCEPT !.frames = Append(@, [id |-> frameId', power_value_count |-> 1])])
             /\ UNCHANGED <<state, seenFirst, failed>>)

\* A fault: the first frame of all is filed like any other.
OpenglFrameFirstKept ==
    InMeasurement(
        /\ seenFirst' = TRUE
        /\ frameId' = frameId + 1
        /\ runs' = WithRun([WithMeasurement([LastMeasurement EXCEPT !.opengl_id = frameId'])
                       EXCEPT !.frames = Append(@, [id |-> frameId', power_value_count |-> 1])])
        /\ UNCHANGED <<state, failed>>)

\* opengl_frame: the first frame of all is ignored.
OpenglFrame ==
    InMeasurement(
        IF ~seenFirst
        THEN seenFirst' = TRUE /\ UNCHANGED <<state, runs, frameId, failed>>
        ELSE /\ frameId' = frameId + 1
             /\ runs' = WithRun([WithMeasurement([LastMeasurement EXCEPT !.opengl_id = frameId'])
                            EXCEPT !.frames = Append(@, [id |-> frameId', power_value_count |-> 1])])
             /\ UNCHANGED <<state, seenFirst, failed>>)

Next ==
    /\ failed = "none"
    /\ \/ StartMarker \/ EndMarker \/ IterationMarker \/ ChromeEvent
       \/ \E c \in CPUs : CpuInfo(c) \/ CpuFreq(c)
       \/ Ina231 \/ OpenglFrame

Spec == Init /\ [][Next]_vars

-----------------------------------------------------------------------------
(* Properties, whatever the events and their order.                        *)

\* runs[-1] and measurements[-1] exist whenever they are used
\* (trace_conv.py:270-374, 543-575).
NoIndexError == failed # "IndexError"

\* Within each run of the reader: the frame id a measurement notes is that of
\* a frame of the same run, and the run's last frame is noted in one of its
\* measurements.  Ids increase within a run and from run to run, though the
\* counter is a class attribute that outlives both (trace_conv.py:68,
\* 85-88, 287-292).  Which run a frame was drawn in is asked in Pipeline.
Ids(fs) == {fs[i].id : i \in 1 .. Len(fs)}
FrameLinks ==
    \A r \in 1 .. Len(runs) :
        LET fs == runs[r].frames
            ms == runs[r].measurements
        IN /\ \A i \in 1 .. Len(ms) : ms[i].opengl_id \in Ids(fs) \cup {0}
           /\ fs # <<>> => \E i \in 1 .. Len(ms) : ms[i].opengl_id = fs[Len(fs)].id
           /\ \A i, j \in 1 .. Len(fs) : i < j => fs[i].id < fs[j].id
           /\ \A q \in 1 .. r - 1 : \A a \in Ids(runs[q].frames), b \in Ids(fs) : a < b
=============================================================================
