----------------------------- MODULE ThreadRuns -----------------------------
(***************************************************************************)
(* How src/trace_conv/trace_conv.py works out when a run of a thread on a  *)
(* CPU began (_process_sched_event).                                       *)
(***************************************************************************)
EXTENDS Integers, Sequences

LastOf(s) == s[Len(s)]

\* Faults the runs must notice: the overlap is left, or moved one short.
FixedStartNever(runs, stop, runtime) == stop - runtime
FixedStartShort(runs, stop, runtime) ==
    IF Len(runs) > 1 /\ LastOf(runs).stop > stop - runtime
    THEN LastOf(runs).stop + 1
    ELSE stop - runtime

\* The start of a run of length runtime up to stop, moved behind the run
\* before it if they overlap -- from the third run of a CPU on.
FixedStart(runs, stop, runtime) ==
    IF Len(runs) > 1 /\ LastOf(runs).stop >= stop - runtime
    THEN LastOf(runs).stop + 1
    ELSE stop - runtime
=============================================================================
