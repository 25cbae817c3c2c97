---------------------------- MODULE CpuActivity ----------------------------
(***************************************************************************)
(* How src/trace_conv/trace_conv.py reconstructs, from scheduler events,   *)
(* which thread ran when on which CPU (_process_sched_event).  The events  *)
(* come in the order of their time stamps.  A sched_stat_runtime event     *)
(* tells the time a thread has run up to it; the CPU is taken from the     *)
(* thread's last wake-up.  The event is written a little after the time    *)
(* was measured, so the intervals of two events may overlap.               *)
(***************************************************************************)
EXTENDS ThreadRuns

CONSTANTS
    Threads,        \* process ids
    CPUs,           \* CPU numbers
    Cpu0            \* the CPU of a thread not woken yet, number 0

ASSUME Cpu0Assumption == Cpu0 \in CPUs

VARIABLES
    now,            \* time stamp of the last event
    last_cpu,       \* ThreadInfo.last_cpu of each thread
    activity        \* cpu_activity: for each CPU a sequence of ThreadRunInfo

actVars == <<now, last_cpu, activity>>

ThreadRunInfo == [thread : Threads, start : Int, stop : Int]

ActTypeOK ==
    /\ now \in Nat
    /\ last_cpu \in [Threads -> CPUs]
    /\ activity \in [CPUs -> Seq(ThreadRunInfo)]

ActInit ==
    /\ now = 0
    /\ last_cpu = [t \in Threads |-> Cpu0]
    /\ activity = [c \in CPUs |-> <<>>]

\* sched_process_fork: a new entry for the child; its pid may have been
\* another thread's.
Fork(t) ==
    /\ last_cpu' = [last_cpu EXCEPT ![t] = Cpu0]
    /\ UNCHANGED <<now, activity>>

\* sched_wakeup and sched_wakeup_new
Wakeup(t, c) ==
    /\ last_cpu' = [last_cpu EXCEPT ![t] = c]
    /\ UNCHANGED <<now, activity>>

\* sched_stat_runtime at time stamp ts.
StatRuntime(t, ts, runtime) ==
    LET c == last_cpu[t]
        start == FixedStart(activity[c], ts, runtime)
    IN /\ now <= ts
       /\ now' = ts
       /\ activity' = IF start >= ts THEN activity      \* dropped
                      ELSE [activity EXCEPT ![c] =
                               Append(@, [thread |-> t, start |-> start, stop |-> ts])]
       /\ UNCHANGED last_cpu

ActNext ==
    \E t \in Threads :
        \/ Fork(t)
        \/ \E c \in CPUs : Wakeup(t, c)
        \/ \E ts \in Nat, runtime \in Nat : StatRuntime(t, ts, runtime)

ActSpec == ActInit /\ [][ActNext]_actVars

-----------------------------------------------------------------------------
\* From the third on, a run on a CPU begins after all runs before it ended:
\* there is no time at which the CPU ran two of them (trace_conv.py:499-519).
ActivityOrdered ==
    \A c \in CPUs :
        \A i, j \in 1 .. Len(activity[c]) :
            i < j /\ j >= 3 => activity[c][i].stop < activity[c][j].start

\* Runs are not empty, and end in the order of the trace.
ActivityForward ==
    \A c \in CPUs :
        /\ \A i \in 1 .. Len(activity[c]) :
               activity[c][i].start < activity[c][i].stop /\ activity[c][i].stop <= now
        /\ \A i \in 2 .. Len(activity[c]) :
               activity[c][i - 1].stop <= activity[c][i].stop
=============================================================================
