--------------------------- MODULE CpuAccounting ---------------------------
(***************************************************************************)
(* From scheduler events to the load of a CPU in each measurement          *)
(* interval: trace_conv.py collects the runs of threads (CpuActivity), and *)
(* writes those of one measurement run to a file, clipped to its first and *)
(* last measurement (write_cpu_activity_csv); evaluate_data.py reads the   *)
(* files CPU by CPU and adds each line to the intervals it overlaps        *)
(* (add_cpu_activity), remembering where it was (last_index).              *)
(***************************************************************************)
EXTENDS CpuActivity, FiniteSets, FiniteSetsExt, SortedSets

CONSTANTS
    MaxTime,        \* bound on time stamps
    MaxEvents,      \* bound on sched_stat_runtime events
    TailInterval    \* length given to the last interval

ASSUME AccountingAssumption ==
    /\ CPUs \subseteq Nat
    /\ IsFiniteSet(CPUs)
    /\ {MaxTime, MaxEvents} \subseteq Nat
    /\ TailInterval \in Nat \ {0}

VARIABLES
    events,         \* sched_stat_runtime events so far
    starts,         \* start of each measurement, increasing
    files,          \* CPUs whose file is still to read
    file,           \* the CPU whose file is read; Cpu0 before
    pending,        \* lines of that file still to read
    index_cpu,      \* RunInfo.last_cpu
    last_index,     \* RunInfo.last_index
    running,        \* running_ns of each CPU in each measurement
    failed          \* an assertion of add_cpu_activity has failed

readVars == <<files, file, pending, index_cpu, last_index, running, failed>>
vars == <<actVars, events, starts, readVars>>

N == Len(starts)

\* stop and interval_ns of a measurement, fixed up by its successor
\* (add_measurement).
StopOf(i) == IF i < N THEN starts[i + 1] - 1 ELSE starts[i] + TailInterval - 1
IntervalNs(i) == StopOf(i) - starts[i] + 1

Line == [start : 0 .. MaxTime, stop : 0 .. MaxTime]

TypeOK ==
    /\ ActTypeOK
    /\ events \in 0 .. MaxEvents
    /\ starts \in Seq(0 .. MaxTime)
    /\ files \subseteq CPUs
    /\ file \in CPUs
    /\ pending \in Seq(Line)
    /\ index_cpu \in CPUs
    /\ last_index \in 0 .. N
    /\ running \in [CPUs -> [1 .. N -> Nat]]
    /\ failed \in BOOLEAN

Init ==
    /\ ActInit
    /\ \E S \in SUBSET (0 .. MaxTime) :
           Cardinality(S) >= 2 /\ starts = Ascending(S)
    /\ events = 0
    /\ files = CPUs
    /\ file = Cpu0
    /\ pending = <<>>
    /\ index_cpu = Cpu0
    /\ last_index = 0
    /\ running = [c \in CPUs |-> [i \in 1 .. N |-> 0]]
    /\ failed = FALSE

Recording == files = CPUs
Evaluated == files = {} /\ pending = <<>>

RecordSwitch ==
    /\ Recording
    /\ \E t \in Threads : Fork(t) \/ \E c \in CPUs : Wakeup(t, c)
    /\ UNCHANGED <<events, starts, readVars>>

\* The trace goes on after the last measurement.
RecordRuntime ==
    /\ Recording
    /\ events < MaxEvents
    /\ events' = events + 1
    /\ \E t \in Threads, ts \in 1 .. MaxTime + 1, runtime \in 1 .. MaxTime :
           StatRuntime(t, ts, runtime)
    /\ UNCHANGED <<starts, readVars>>

\* The runs up to the first that begins after the last measurement, but for
\* those that end before the first.
Written(c) ==
    {i \in 1 .. Len(activity[c]) :
        /\ activity[c][i].stop >= starts[1]
        /\ \A j \in 1 .. i : activity[c][j].start <= starts[N]}

\* A fault: a run that goes on after the last measurement is not cut there.
ClippedLeft(c) ==
    LET kept == Ascending(Written(c))
    IN [k \in DOMAIN kept |->
           [start |-> Max({activity[c][kept[k]].start, starts[1]}),
            stop  |-> activity[c][kept[k]].stop]]

\* write_cpu_activity_csv: a line for each of these runs, clipped.
Clipped(c) ==
    LET kept == Ascending(Written(c))
    IN [k \in DOMAIN kept |->
           [start |-> Max({activity[c][kept[k]].start, starts[1]}),
            stop  |-> Min({activity[c][kept[k]].stop, starts[N]})]]

\* The files are read in the order of the CPUs.
OpenFile ==
    /\ ~failed
    /\ files # {} /\ pending = <<>>
    /\ file' = Min(files)
    /\ files' = files \ {file'}
    /\ pending' = Clipped(file')
    /\ UNCHANGED <<actVars, events, starts, index_cpu, last_index, running, failed>>

\* Faults: the index steps back one interval too few; another CPU's lines are
\* searched from where the last CPU's ended.
StepBackShort(end) == Max({0, end - 1})
FirstIndexKept == last_index

\* The lines of another CPU are searched from the start.
FirstIndex == IF index_cpu # file THEN 0 ELSE last_index

StepBack(end) == Max({0, end - 2})

\* add_cpu_activity: go through the intervals after the first last_index ones,
\* up to the one that begins after the line's stop, and add what overlaps;
\* then step back by two.
AddCpuActivity ==
    /\ ~failed
    /\ pending # <<>>
    /\ LET l == Head(pending)
           searched == FirstIndex + 1 .. N
           Past(i) == starts[i] > l.stop
           Hit(i) == ~Past(i) /\ StopOf(i) >= l.start
           past == {i \in searched : Past(i)}
           end == IF past = {} THEN N ELSE Min(past)
           hit == {i \in FirstIndex + 1 .. end : Hit(i)}
           Ns(i) == Min({l.stop, StopOf(i)}) - Max({l.start, starts[i]}) + 1
       IN /\ running' = [running EXCEPT ![file] =
                            [i \in 1 .. N |-> IF i \in hit THEN @[i] + Ns(i) ELSE @[i]]]
          /\ failed' = ~\E i \in hit : l.stop <= StopOf(i)
          /\ last_index' = IF failed' THEN end ELSE StepBack(end)
    /\ index_cpu' = file
    /\ pending' = Tail(pending)
    /\ UNCHANGED <<actVars, events, starts, files, file>>

Next == RecordSwitch \/ RecordRuntime \/ OpenFile \/ AddCpuActivity

Spec == Init /\ [][Next]_vars

-----------------------------------------------------------------------------
(* Properties.                                                             *)

\* The first two runs of a CPU are not checked for overlap.
Disjoint(c) ==
    Len(activity[c]) >= 2 => activity[c][1].stop < activity[c][2].start

\* What of interval i the CPU's lines cover.
Covered(c, i) ==
    {x \in starts[i] .. StopOf(i) :
        \E k \in DOMAIN Clipped(c) : Clipped(c)[k].start <= x /\ x <= Clipped(c)[k].stop}

\* Each nanosecond a CPU is recorded as running is accounted once, to the
\* interval it lies in: stepping back by two intervals is enough, and a line
\* that spans intervals is cut right (evaluate_data.py:148-179).
AccountingExact ==
    Evaluated =>
        \A c \in CPUs : Disjoint(c) =>
            \A i \in 1 .. N : running[c][i] = Cardinality(Covered(c, i))

\* "assert(handled == True)" (evaluate_data.py:178): the interval in which a
\* line ends is always among those searched.
HandledAssertion == ~failed

\* "assert(m.interval_ns >= cpu.running_ns)" (evaluate_data.py:251): no CPU
\* ran longer in an interval than the interval is.
RunningFits ==
    \A c \in CPUs : \A i \in 1 .. N : running[c][i] <= IntervalNs(i)

\* The assertion holds wherever the first two runs of the CPU are disjoint.
RunningFitsDisjoint ==
    \A c \in CPUs : Disjoint(c) =>
        \A i \in 1 .. N : running[c][i] <= IntervalNs(i)
=============================================================================
