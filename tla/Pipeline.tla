------------------------------ MODULE Pipeline ------------------------------
(***************************************************************************)
(* From the logging module to the reader of its trace.  The module traces  *)
(* as MeasurementRuns promises (SysLogger implements it); an iteration is  *)
(* its marker followed by the measurements of log_func, src/module.c.      *)
(* Frames and Chrome events are traced by other threads, at any time.  The *)
(* reader is TraceStore.  A recording may miss events: trace-cmd overwrites *)
(* its buffers and starts late; `lossy' tells whether this one does.       *)
(***************************************************************************)
EXTENDS TraceStore, FiniteSets, SortedSets

CONSTANTS
    FreqCPUs,           \* CPUs whose frequency is traced: the first of each policy
    MaxRuns,            \* bound on start markers
    MaxIterations,      \* bound on iteration markers
    MaxForeign          \* bound on frames and on Chrome events

ASSUME PipelineAssumption ==
    /\ IsFiniteSet(CPUs)
    /\ FreqCPUs \subseteq CPUs
    /\ {MaxRuns, MaxIterations, MaxForeign} \subseteq Nat

VARIABLES
    run, asked, ceased, \* of MeasurementRuns
    todo,               \* measurements the iteration has still to trace
    lossy,              \* the recording misses events
    emitted,            \* the number of iterations of each run traced
    iterations,         \* iteration markers traced
    foreign,            \* frames and Chrome events traced
    drawn,              \* history, if not lossy: the run each frame was drawn in
    told                \* history, if not lossy: the Chrome events of each run

Runs == INSTANCE MeasurementRuns

store == <<state, runs, seenFirst, frameId, failed>>
producer == <<run, asked, ceased, todo, emitted, iterations, foreign, drawn, told>>
pipe == <<store, producer, lossy>>

\* What one iteration traces after its marker.
Measurements ==
    LET cpus == Ascending(CPUs)
        freqs == Ascending(FreqCPUs)
    IN [i \in DOMAIN cpus |-> <<"cpu_info", cpus[i]>>]
       \o [i \in DOMAIN freqs |-> <<"cpu_freq", freqs[i]>>]
       \o <<<<"ina231", 0>>>>

PipeInit ==
    /\ Init
    /\ Runs!Init
    /\ todo = <<>>
    /\ lossy \in BOOLEAN
    /\ emitted = <<>>
    /\ iterations = 0
    /\ foreign = 0
    /\ drawn = <<>>
    /\ told = <<>>

\* The reader sees the event, or the recording has missed it.
Deliver(Event) ==
    /\ \/ Event
       \/ lossy /\ UNCHANGED store
    /\ UNCHANGED lossy

Requests ==
    /\ Runs!RequestMeasure \/ Runs!RequestCease
    /\ UNCHANGED <<store, todo, lossy, emitted, iterations, foreign, drawn, told>>

TraceStart ==
    /\ todo = <<>>
    /\ Len(emitted) < MaxRuns
    /\ Runs!StartMarker
    /\ emitted' = Append(emitted, 0)
    /\ told' = IF lossy THEN told ELSE Append(told, 0)
    /\ UNCHANGED <<todo, iterations, foreign, drawn>>
    /\ Deliver(StartMarker)

TraceEnd ==
    /\ todo = <<>>
    /\ Runs!EndMarker
    /\ UNCHANGED <<todo, emitted, iterations, foreign, drawn, told>>
    /\ Deliver(EndMarker)

\* Inside a run or, after a late wake-up, outside.
TraceIteration ==
    /\ todo = <<>>
    /\ iterations < MaxIterations
    /\ iterations' = iterations + 1
    /\ IF run = "opened" THEN Runs!Iteration ELSE UNCHANGED <<run, asked, ceased>>
    /\ todo' = Measurements
    /\ emitted' = IF run = "closed" THEN emitted
                  ELSE [emitted EXCEPT ![Len(emitted)] = @ + 1]
    /\ UNCHANGED <<foreign, drawn, told>>
    /\ Deliver(IterationMarker)

TraceMeasurement ==
    /\ todo # <<>>
    /\ todo' = Tail(todo)
    /\ UNCHANGED <<run, asked, ceased, emitted, iterations, foreign, drawn, told>>
    /\ LET e == Head(todo)
       IN Deliver(\/ e[1] = "cpu_info" /\ CpuInfo(e[2])
                  \/ e[1] = "cpu_freq" /\ CpuFreq(e[2])
                  \/ e[1] = "ina231" /\ Ina231)

\* A thread that draws traces its frame, whatever the module is doing.  What
\* the reader can use are the frames between the first iteration of a run and
\* its end.
TraceFrame ==
    /\ foreign < MaxForeign
    /\ foreign' = foreign + 1
    /\ drawn' = IF run = "measured" /\ ~lossy THEN Append(drawn, Len(emitted)) ELSE drawn
    /\ UNCHANGED <<run, asked, ceased, todo, emitted, iterations, told>>
    /\ Deliver(OpenglFrame)

\* Chrome's own tracepoints; of use from the start marker on.
TraceChrome ==
    /\ foreign < MaxForeign
    /\ foreign' = foreign + 1
    /\ told' = IF run = "closed" \/ lossy THEN told ELSE [told EXCEPT ![Len(told)] = @ + 1]
    /\ UNCHANGED <<run, asked, ceased, todo, emitted, iterations, drawn>>
    /\ Deliver(ChromeEvent)

TraceForeign == TraceFrame \/ TraceChrome

PipeNext ==
    /\ failed = "none"
    /\ \/ Requests \/ TraceStart \/ TraceEnd \/ TraceIteration
       \/ TraceMeasurement \/ TraceForeign

PipeSpec == PipeInit /\ [][PipeNext]_pipe

-----------------------------------------------------------------------------
(* Properties.                                                             *)

\* A complete recording is read to its end: every sample the load of a CPU is
\* computed from has that CPU's counters (trace_conv.py:313-318).
CompleteIsRead == ~lossy => failed = "none"

\* Of a complete recording the reader finds the runs the module traced, each
\* with its iterations; iterations traced outside a run belong to none
\* (trace_conv.py:541-575 against module.c:422-460).
RunsMatch ==
    ~lossy =>
        /\ Len(runs) = Len(emitted)
        /\ \A i \in 1 .. Len(runs) : Len(runs[i].measurements) = emitted[i]

\* Of a complete recording every frame and every Chrome event is filed with
\* the run it was traced in: those between two runs and after the end marker
\* with none, and but for the first frame of all, which has no period, none
\* is left out (trace_conv.py:85-88, 543-575).
ForeignMatch ==
    ~lossy =>
        \A r \in 1 .. Len(runs) :
            /\ Ids(runs[r].frames) = {k \in 1 .. Len(drawn) - 1 : drawn[k + 1] = r}
            /\ runs[r].chrome_events = told[r]

\* Lost events can merge runs and lose them, never split or invent one, and
\* no iteration is filed twice.
Filed == UNION {{r} \X (1 .. Len(runs[r].measurements)) : r \in 1 .. Len(runs)}
LossOnlyMerges ==
    /\ Len(runs) <= Len(emitted)
    /\ Cardinality(Filed) <= iterations

\* After a complete iteration the frequency of every CPU is known: "0 and 4
\* are traced, let's expand it to the others" (trace_conv.py:339).
FreqExpanded ==
    ~lossy /\ state = "ITERATION" /\ todo = <<>> => LastMeasurement.freq = CPUs
=============================================================================
