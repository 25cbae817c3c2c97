-------------------------- MODULE MeasurementRuns --------------------------
(***************************************************************************)
(* What the logging module promises to whoever reads the trace: the trace  *)
(* is a succession of measurement runs.  A run is opened by a start marker *)
(* (the tracepoint "enabled" with value 1), holds one iteration or more    *)
(* and is closed by an end marker ("enabled" with value 0).  Each start    *)
(* answers a request to measure made since the previous start, each end a  *)
(* request to cease (a disabling write, or the unloading of the module)    *)
(* made since the previous end.  Iterations outside a run may occur, they  *)
(* change nothing here.                                                    *)
(***************************************************************************)
VARIABLES
    run,        \* "closed", "opened" (no iteration yet) or "measured"
    asked,      \* a request to measure was made since the last start marker
    ceased      \* a request to cease was made since the last end marker

vars == <<run, asked, ceased>>

TypeOK ==
    /\ run \in {"closed", "opened", "measured"}
    /\ asked \in BOOLEAN
    /\ ceased \in BOOLEAN

Init ==
    /\ run = "closed"
    /\ asked = FALSE
    /\ ceased = FALSE

RequestMeasure ==
    /\ asked' = TRUE
    /\ UNCHANGED <<run, ceased>>

RequestCease ==
    /\ ceased' = TRUE
    /\ UNCHANGED <<run, asked>>

StartMarker ==
    /\ run = "closed"
    /\ asked
    /\ run' = "opened"
    /\ asked' = FALSE
    /\ UNCHANGED ceased

Iteration ==
    /\ run = "opened"
    /\ run' = "measured"
    /\ UNCHANGED <<asked, ceased>>

EndMarker ==
    /\ run = "measured"
    /\ ceased
    /\ run' = "closed"
    /\ ceased' = FALSE
    /\ UNCHANGED asked

\* A new instance of the module: it finds no open run.
NewInstance ==
    /\ run = "closed"
    /\ asked' = FALSE
    /\ ceased' = FALSE
    /\ UNCHANGED run

Next ==
    \/ RequestMeasure
    \/ RequestCease
    \/ StartMarker
    \/ Iteration
    \/ EndMarker
    \/ NewInstance

Spec == Init /\ [][Next]_vars
=============================================================================
