----------------------------- MODULE Evaluation -----------------------------
(***************************************************************************)
(* From a recorded trace to the energy of each phase.  trace_conv.py       *)
(* collects the events of a measurement run (RunInfo) and the threads      *)
(* (ThreadTree), and writes a folder of files; evaluate_data.py reads the  *)
(* files of the run (process_run_csvs), spreads the phases over the        *)
(* measurements and sums up the power (output_files).  The two programs    *)
(* share nothing but the files.                                            *)
(*                                                                         *)
(* One run and one power rail are followed.  Of the runs of threads it     *)
(* matters here whose reach into the measurements and whether they fit;    *)
(* that their time is accounted exactly is shown in CpuAccounting.  The    *)
(* clock of the scheduler and Chrome events is taken to be that of the     *)
(* measurements, as both programs do.                                      *)
(***************************************************************************)
EXTENDS ThreadTree, ThreadRuns, SequencesExt, FiniteSetsExt, Functions, SortedSets

CONSTANTS
    CPUs,           \* the CPUs the evaluation opens a file for
    TimeColumn,     \* powerlogger.csv: the heading of the time stamps
    Phases,         \* phase numbers
    Powers,         \* values of a power sensor
    TailInterval,   \* length given to the last measurement
    Budgets,        \* bounds: the events of each kind in a recording, the
                    \* nanoseconds it lasts, those in which threads run, and
                    \* the longest run
    MaxTime         \* bound on time stamps

ASSUME EvaluationAssumption ==
    /\ CPUs \cup Phases \cup Powers \subseteq Nat /\ 0 \in Phases
    /\ TailInterval \in Nat \ {0} /\ MaxTime \in Nat
    /\ Budgets \subseteq [names : Nat, forks : Nat, runtimes : Nat, chrome : Nat,
                          iterations : Nat, ticks : 0 .. MaxTime, busy : Nat, longest : Nat]

VARIABLES
    stage,          \* "recording", "converted", "read", "done"
    failed,         \* the exception that ended a program, or "none"
    now,            \* time stamp of the last event
    budget,         \* events that may still be recorded
    cpu_activity,   \* for each CPU a thread ran on, the ThreadRunInfo
    chrome_events,  \* RunInfo.chrome_events
    recorded,       \* RunInfo.measurements: start and power, -1 if unknown
    folder,         \* the files written
    measurements,   \* evaluate_data.py: start, stop and twice the mean power
    phases          \* evaluate_data.py: start, stop and number

recordVars == <<now, budget, cpu_activity, chrome_events, recorded>>
fileVars == <<stage, failed, folder, measurements, phases>>
vars == <<treeVars, recordVars, fileVars>>

\* The Chrome events; those other than phase_change are alike here.
ChromeNames == {"phase_change", "touch_start_notifier"}

ThreadRunInfo == [pid : Pids, start : Int, stop : 0 .. MaxTime]

\* A line of a cpu_activity file.
Line == [pid : Pids, start : 0 .. MaxTime, stop : 0 .. MaxTime]

NoFolder == [powerlogger |-> <<>>, cg_events |-> <<>>, task_load |-> <<>>, cpu_activity |-> <<>>]

TypeOK ==
    /\ TreeTypeOK
    /\ stage \in {"recording", "converted", "read", "done"}
    /\ failed \in {"none", "KeyError", "FileNotFoundError", "AssertionError", "IndexError",
                   "RecursionError"}
    /\ now \in 0 .. MaxTime
    /\ DOMAIN cpu_activity \subseteq CPUs
    /\ \A cpu \in DOMAIN cpu_activity : cpu_activity[cpu] \in Seq(ThreadRunInfo)
    /\ chrome_events \in Seq([name : ChromeNames, ts : 0 .. MaxTime, data : Phases])
    /\ recorded \in Seq([start : 0 .. MaxTime, power : Powers \cup {-1}])
    /\ DOMAIN folder.cpu_activity \subseteq CPUs
    /\ \A cpu \in DOMAIN folder.cpu_activity : folder.cpu_activity[cpu] \in Seq(Line)
    /\ measurements \in Seq([start : Nat, stop : Nat, power2 : Nat])
    /\ phases \in Seq([start : Nat, stop : Int, phase : Phases \cup {-1}])

Init ==
    /\ TreeInit
    /\ stage = "recording" /\ failed = "none"
    /\ now = 0
    /\ budget \in Budgets
    /\ cpu_activity = <<>>
    /\ chrome_events = <<>>
    /\ recorded = <<>>
    /\ folder = NoFolder
    /\ measurements = <<>>
    /\ phases = <<>>

-----------------------------------------------------------------------------
(* The recording, as trace_conv.py collects it.                            *)

Spend(kind) ==
    /\ stage = "recording"
    /\ budget[kind] > 0
    /\ budget' = [budget EXCEPT ![kind] = @ - 1]
    /\ UNCHANGED fileVars

TimePasses ==
    /\ Spend("ticks")
    /\ now' = now + 1
    /\ UNCHANGED <<treeVars, cpu_activity, chrome_events, recorded>>

TraceFork ==
    /\ Spend("forks")
    /\ \E p, c \in Pids, name \in Names \ {""} : Fork(p, c, name)
    /\ UNCHANGED <<now, cpu_activity, chrome_events, recorded>>

\* A wake-up that tells a new name.
TraceName ==
    /\ Spend("names")
    /\ \E p \in Pids, name \in Names \ {""} : Heard(p, name)
    /\ UNCHANGED <<now, cpu_activity, chrome_events, recorded>>

Runs(cpu) == IF cpu \in DOMAIN cpu_activity THEN cpu_activity[cpu] ELSE <<>>

\* sched_stat_runtime: p ran for runtime up to now, on the CPU of its last
\* wake-up; a run that is not left any time is dropped.  A new name is left to
\* TraceName.
TraceRuntime ==
    /\ Spend("runtimes")
    /\ now <= budget.busy
    /\ \E p \in Pids, cpu \in CPUs, name \in Names \ {""}, runtime \in 1 .. budget.longest :
           LET start == FixedStart(Runs(cpu), now, runtime)
               run == [pid |-> p, start |-> start, stop |-> now]
           IN /\ p \in threads /\ comm[p] # "" => name = comm[p]
              /\ Heard(p, name)
              /\ cpu_activity' = [c \in DOMAIN cpu_activity \cup {cpu} |->
                                     IF c = cpu /\ start < now THEN Append(Runs(c), run)
                                     ELSE Runs(c)]
    /\ UNCHANGED <<now, chrome_events, recorded>>

\* new_chrome_event; a phase event repeats the phase when something else in
\* it changed.
TraceChrome ==
    /\ Spend("chrome")
    /\ \E name \in ChromeNames, data \in Phases :
           /\ name # "phase_change" => data = 0
           /\ chrome_events' = Append(chrome_events, [name |-> name, ts |-> now, data |-> data])
    /\ UNCHANGED <<treeVars, now, cpu_activity, recorded>>

\* new_iteration, and the ina231 event if it is not lost.
TraceIteration ==
    /\ Spend("iterations")
    /\ \A m \in ToSet(recorded) : m.start < now
    /\ \E power \in Powers \cup {-1} :
           recorded' = Append(recorded, [start |-> now, power |-> power])
    /\ UNCHANGED <<treeVars, now, cpu_activity, chrome_events>>

-----------------------------------------------------------------------------
(* The files.                                                              *)

\* The number of a kind of event in cg_events.csv: new_chrome_event makes a
\* touch_start_notifier a TouchStartEvent, and its number that of touch_start.
CgType == [phase_change |-> 11, touch_start_notifier |-> 14]

PhaseChanges == {i \in DOMAIN chrome_events : chrome_events[i].name = "phase_change"}

\* A phase event is left out if the phase is that of the phase event before.
IsNews(i) ==
    LET before == {j \in PhaseChanges : j < i}
    IN \/ i \notin PhaseChanges
       \/ before = {}
       \/ chrome_events[Max(before)].data # chrome_events[i].data

\* write_cg_event_csv
CgRows ==
    LET kept == ElementsAt(chrome_events, {i \in DOMAIN chrome_events : IsNews(i)})
    IN [k \in DOMAIN kept |->
           [ts |-> kept[k].ts, event |-> CgType[kept[k].name], value |-> kept[k].data]]

\* A fault: the unknown power is written as it is.
PowerRowsRaw ==
    [i \in DOMAIN recorded |-> [time |-> recorded[i].start, power |-> recorded[i].power]]

\* write_powerlogger_csv: an unknown power is written as 0.
PowerRows ==
    [i \in DOMAIN recorded |->
        [time |-> recorded[i].start,
         power |-> IF recorded[i].power # -1 THEN recorded[i].power ELSE 0]]

\* write_cpu_activity_csv: the runs up to the first that begins after the last
\* measurement, but for those that end before the first, clipped; none unless
\* there are two measurements.
Lines(cpu) ==
    LET runs == cpu_activity[cpu]
        first == recorded[1].start
        last == recorded[Len(recorded)].start
        kept == ElementsAt(runs, {i \in DOMAIN runs :
                                     /\ runs[i].stop >= first
                                     /\ \A j \in 1 .. i : runs[j].start <= last})
    IN IF Len(recorded) < 2 THEN <<>>
       ELSE [k \in DOMAIN kept |-> [pid |-> kept[k].pid,
                                    start |-> Max({kept[k].start, first}),
                                    stop |-> Min({kept[k].stop, last})]]

\* trace_conv.py writes all files, those of the CPUs only of the ones a thread
\* ran on.
Convert ==
    /\ stage = "recording"
    /\ stage' = "converted"
    /\ folder' = [powerlogger |-> PowerRows,
                  cg_events |-> CgRows,
                  task_load |-> ElementsAt(chrome_events, PhaseChanges),
                  cpu_activity |-> [cpu \in DOMAIN cpu_activity |-> Lines(cpu)]]
    /\ UNCHANGED <<treeVars, recordVars, failed, measurements, phases>>

-----------------------------------------------------------------------------
(* The evaluation.                                                         *)

\* add_measurement: the next measurement ends the one before, and its power
\* is the other end of the mean.
MeasurementsRead ==
    LET rows == folder.powerlogger
    IN [i \in DOMAIN rows |->
           IF i < Len(rows)
           THEN [start |-> rows[i].time, stop |-> rows[i + 1].time - 1,
                 power2 |-> rows[i].power + rows[i + 1].power]
           ELSE [start |-> rows[i].time, stop |-> rows[i].time + TailInterval - 1,
                 power2 |-> 2 * rows[i].power]]

\* add_cg_event
PhasesRead ==
    LET rows == ElementsAt(folder.cg_events,
                           {i \in DOMAIN folder.cg_events : folder.cg_events[i].event = 11})
    IN [i \in DOMAIN rows |-> [start |-> rows[i].ts, stop |-> -1, phase |-> rows[i].value]]

\* add_cpu_activity: line l counts for the measurements of ms it overlaps, from
\* the one at which the line before left off; held tells of the assertions.
AddCpuActivity(ms, a, l) ==
    LET searched == a.last_index + 1 .. Len(ms)
        end == Min({i \in searched : ms[i].start > l.stop} \cup {Len(ms)})
        hit == {i \in searched : ms[i].start <= l.stop /\ ms[i].stop >= l.start}
        Ns(i) == Min({l.stop, ms[i].stop}) - Max({l.start, ms[i].start}) + 1
    IN [last_index |-> Max({0, end - 2}),
        running_ns |-> [i \in DOMAIN ms |->
                           a.running_ns[i] + IF i \in hit THEN Ns(i) ELSE 0],
        held |-> a.held /\ (\A i \in hit : Ns(i) > 0) /\ \E i \in hit : l.stop <= ms[i].stop]

\* What the lines of a CPU come to.
Account(ms, lines) ==
    LET account[k \in 0 .. Len(lines)] ==
            IF k = 0 THEN [last_index |-> 0, running_ns |-> [i \in DOMAIN ms |-> 0], held |-> TRUE]
            ELSE AddCpuActivity(ms, account[k - 1], lines[k])
    IN account[Len(lines)]

\* The CPUs whose file is missing or fails an assertion.
Unread ==
    {cpu \in CPUs : \/ cpu \notin DOMAIN folder.cpu_activity
                    \/ ~Account(MeasurementsRead, folder.cpu_activity[cpu]).held}

\* process_run_csvs: phases, measurements, then the file of one CPU after the
\* other.
ReadRun ==
    /\ stage = "converted"
    /\ LET failure == IF folder.powerlogger # <<>> /\ TimeColumn # "Time [ns]" THEN "KeyError"
                      ELSE IF Unread = {} THEN "none"
                      ELSE IF Min(Unread) \notin DOMAIN folder.cpu_activity THEN "FileNotFoundError"
                      ELSE "AssertionError"
       IN /\ failed' = failure
          /\ IF failure = "none"
             THEN /\ stage' = "read"
                  /\ measurements' = MeasurementsRead
                  /\ phases' = PhasesRead
             ELSE stage' = "done" /\ UNCHANGED <<measurements, phases>>
    /\ UNCHANGED <<treeVars, recordVars, folder>>

\* A fault: a phase ends where the next one begins.
PhaseStopShared(s, i) ==
    IF i < Len(s) THEN s[i + 1].start ELSE measurements[Len(measurements)].stop

\* Unless the first phase starts with the measurements, one without number is
\* put before it -- also before a phase that starts earlier.
FromTheStart(read) ==
    IF read = <<>> \/ read[1].start # measurements[1].start
    THEN <<[start |-> measurements[1].start, stop |-> -1, phase |-> -1]>> \o read
    ELSE read

PhaseStop(s, i) ==
    IF i < Len(s) THEN s[i + 1].start - 1 ELSE measurements[Len(measurements)].stop

\* No CPU is accounted more time in a measurement than that has; a thread of
\* it then is not either.
RunningFits ==
    \A cpu \in CPUs : \A i \in DOMAIN measurements :
        Account(measurements, folder.cpu_activity[cpu]).running_ns[i]
            <= measurements[i].stop - measurements[i].start + 1

\* The threads with time in some measurement, as every line has.
Ran == UNION {{l.pid : l \in ToSet(folder.cpu_activity[cpu])} : cpu \in CPUs}

SearchErrors == (UNION {{Search(kind, p) : kind \in Kinds} : p \in Ran}) \ {"yes", "no"}

\* output_files: unless a CPU ran too long, the phases get their ends, then
\* each thread that ran is searched for the kinds it belongs to.
OutputFiles ==
    /\ stage = "read"
    /\ stage' = "done"
    /\ IF ~RunningFits
       THEN failed' = "AssertionError" /\ UNCHANGED phases
       ELSE IF measurements = <<>>
       THEN failed' = "IndexError" /\ UNCHANGED phases
       ELSE /\ phases' = LET s == FromTheStart(phases)
                         IN [i \in DOMAIN s |-> [s[i] EXCEPT !.stop = PhaseStop(s, i)]]
            /\ failed' \in IF SearchErrors = {} THEN {"none"} ELSE SearchErrors
    /\ UNCHANGED <<treeVars, recordVars, folder, measurements>>

\* _output_consumption_csv: what of measurement i belongs to phase ph; the
\* loop ends at the first measurement behind the phase.
PhaseNs(ph, i) ==
    LET m == measurements[i]
    IN IF (\E j \in 1 .. i : measurements[j].start > ph.stop) \/ m.stop < ph.start
       THEN 0
       ELSE Min({m.stop, ph.stop}) - Max({m.start, ph.start}) + 1

\* Twice the energy a phase is reported with.
Ws(ph) == SumFunction([i \in DOMAIN measurements |-> PhaseNs(ph, i) * measurements[i].power2])

Next ==
    \/ TimePasses \/ TraceFork \/ TraceName \/ TraceRuntime
    \/ TraceChrome \/ TraceIteration
    \/ Convert \/ ReadRun \/ OutputFiles

Spec == Init /\ [][Next]_vars

-----------------------------------------------------------------------------
(* Properties.                                                             *)

\* The phase in force at time t by task_load.log, which lists every phase
\* event; -1 before the first.
InForce(t) ==
    LET before == {i \in DOMAIN folder.task_load : folder.task_load[i].ts <= t}
    IN IF before = {} THEN -1 ELSE folder.task_load[Max(before)].data

\* Every nanosecond of the measurements counts, with the power of the
\* measurement it lies in, for the phase in force then, and for no other:
\* leaving out repeated phases, putting one before the first, phases that
\* begin before the first or after the last measurement or have no length lose
\* nothing and count nothing twice (evaluate_data.py:219-233 and 257-265,
\* trace_conv.py:855-860).
EnergyPerPhase ==
    stage = "done" /\ failed = "none" =>
        \A v \in Phases \cup {-1} :
            LET Time(i) == {t \in measurements[i].start .. measurements[i].stop : InForce(t) = v}
            IN SumFunctionOnSet([k \in DOMAIN phases |-> Ws(phases[k])],
                                {k \in DOMAIN phases : phases[k].phase = v})
                   = SumFunction([i \in DOMAIN measurements |->
                                     Cardinality(Time(i)) * measurements[i].power2])

\* The first two runs of a CPU, which are not checked for overlap.
FirstRunsOverlap(cpu) == Len(Runs(cpu)) >= 2 /\ Runs(cpu)[2].start <= Runs(cpu)[1].stop

\* What trace_conv.py writes, evaluate_data.py evaluates, and each error it may
\* end with has one cause: a heading it does not know, a CPU that never ran
\* anything, a run without measurement, the id of an ancestor that was used
\* again, or, for its assertions, two overlapping runs at the beginning of a
\* CPU's (evaluate_data.py:37-66, 91, 168-178, 249-259 and 541-569,
\* trace_conv.py:494-517 and 768-802).
EvaluationReads ==
    /\ failed = "KeyError" => recorded # <<>> /\ TimeColumn # "Time [ns]"
    /\ failed = "FileNotFoundError" => \E cpu \in CPUs : cpu \notin DOMAIN cpu_activity
    /\ failed = "AssertionError" => \E cpu \in CPUs : FirstRunsOverlap(cpu)
    /\ failed = "IndexError" => recorded = <<>>
    /\ failed = "RecursionError" => \E p \in threads : ~Current(p)

\* The evaluation knows the headings of the files it is given
\* (evaluate_data.py:91).
HeadingsKnown == failed # "KeyError"
=============================================================================
