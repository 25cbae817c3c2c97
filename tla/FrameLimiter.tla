---------------------------- MODULE FrameLimiter ----------------------------
(***************************************************************************)
(* The frame limiter that src/opengl_mods/native_frameworks.patch puts     *)
(* into eglSwapBuffers: a frame that came early is delayed by a sleep.     *)
(* The static variables of the function exist once in each process that    *)
(* draws.  The time of a frame is taken before its sleep, so the sleep     *)
(* counts as part of the next frame's period.  Times are in nanoseconds.   *)
(***************************************************************************)
EXTENDS Integers

CONSTANTS
    Apps,           \* processes that draw, each from one thread
    Target,         \* target_frame_period
    MicroSec        \* nanoseconds in a microsecond, the unit of usleep

ASSUME LimiterAssumption == Target \in Nat /\ MicroSec \in Nat \ {0}

VARIABLES
    first_run,      \* a frame time was taken already, despite the name
    prev_frame_dur, \* period that ended with the last frame
    req_sleep_dur,  \* sleep after the last frame
    older,          \* history: the period before prev_frame_dur
    periods         \* history: periods measured since a sleep was cut short,
                    \* counted up to two

limiterVars == <<first_run, prev_frame_dur, req_sleep_dur, older, periods>>

LimiterTypeOK ==
    /\ first_run \in [Apps -> BOOLEAN]
    /\ prev_frame_dur \in [Apps -> Nat]
    /\ req_sleep_dur \in [Apps -> Nat]
    /\ older \in [Apps -> Nat]
    /\ periods \in [Apps -> 0 .. 2]

LimiterInit ==
    /\ first_run = [a \in Apps |-> FALSE]
    /\ prev_frame_dur = [a \in Apps |-> 0]
    /\ req_sleep_dur = [a \in Apps |-> 0]
    /\ older = [a \in Apps |-> 0]
    /\ periods = [a \in Apps |-> 0]

\* What is left of the target, in whole microseconds.
Sleep(dur) == IF dur < Target
              THEN (Target - dur) - ((Target - dur) % MicroSec)
              ELSE 0

\* The time of the first frame is all that is noted of it.
FirstFrame(a) ==
    /\ ~first_run[a]
    /\ first_run' = [first_run EXCEPT ![a] = TRUE]
    /\ UNCHANGED <<prev_frame_dur, req_sleep_dur, older, periods>>

\* Faults the runs must notice: the time of a frame is taken after its sleep;
\* the sleep is taken off the period, though it was not counted.
ElapsedAwake(a, slept, work) == work
ElapsedCorrected(a, slept, work) == work - req_sleep_dur[a]

\* From one frame time to the next: the sleep between them and the work of
\* drawing, in which a sleep that took longer than asked for is included.
Elapsed(a, slept, work) == slept + work

\* A signal may end the sleep early: the result of usleep is not looked at.
LaterFrame(a, slept, work) ==
    /\ first_run[a]
    /\ slept \in 0 .. req_sleep_dur[a]
    /\ prev_frame_dur' = [prev_frame_dur EXCEPT ![a] = Elapsed(a, slept, work)]
    /\ req_sleep_dur' = [req_sleep_dur EXCEPT ![a] = Sleep(Elapsed(a, slept, work))]
    /\ older' = [older EXCEPT ![a] = prev_frame_dur[a]]
    /\ periods' = [periods EXCEPT ![a] = CASE slept < req_sleep_dur[a] -> 1
                                          [] slept = req_sleep_dur[a] -> IF @ < 2 THEN @ + 1 ELSE 2]
    /\ UNCHANGED first_run

LimiterNext ==
    \E a \in Apps : FirstFrame(a) \/ \E slept, work \in Nat : LaterFrame(a, slept, work)

LimiterSpec == LimiterInit /\ [][LimiterNext]_limiterVars

-----------------------------------------------------------------------------
\* Two periods in a row take the target together, up to the rounding of one
\* sleep, unless a signal has cut the sleep between them short.  This is all
\* the limiter holds: a period alone can be as short as the drawing, since a
\* frame that follows a sleep finds its time used up ("Need to delay frame to
\* limit to target", native_frameworks.patch:114).
LimiterPairs ==
    \A a \in Apps :
        periods[a] = 2 => older[a] + prev_frame_dur[a] + MicroSec > Target
=============================================================================
