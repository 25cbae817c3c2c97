----------------------------- MODULE SysLogger -----------------------------
(***************************************************************************)
(* The kernel module src/module.c as the processes that run its code:      *)
(*   - writers of the parameter "enabled" (param_set_enabled), one at a    *)
(*     time under the kernel's lock of module parameters;                  *)
(*   - the hrtimer and its callback logger_wakeup, in interrupt context;   *)
(*   - the logging thread log_func, which sleeps between iterations;       *)
(*   - insmod and rmmod, which run init and cleanup.                       *)
(* They share the flag `enabled', the timer and the thread's scheduler     *)
(* state.  An action is a piece of code between two accesses to shared     *)
(* state.  The data an iteration records is left to the module             *)
(* TraceStore; here it is the order of markers and iterations that counts. *)
(***************************************************************************)
EXTENDS Naturals

CONSTANTS
    Writers,        \* processes that write /sys/module/sys_logger/parameters/enabled
    NoWriter,       \* the parameter lock is free
    Junk            \* a value written that is no truth value

ASSUME WritersAssumption == NoWriter \notin Writers
ASSUME JunkAssumption == Junk \notin {"on", "off"}

VARIABLES
    \* the module and its parameter
    mod,            \* life cycle, and where cleanup stands
    enabled,        \* the parameter
    lock,           \* holder of the kernel's parameter lock
    wpc, wval, old, \* a writer: where it stands, value given, flag it found
    \* the timer
    armed,          \* the timer is enqueued
    cb,             \* where the callback stands
    here,           \* the timer is pinned on the logging thread's CPU
    \* the logging thread
    pc,             \* where the thread stands
    awake,          \* its state is TASK_RUNNING
    shouldStop,     \* kthread_stop was called
    wasEnabled,     \* static bool was_enabled
    \* history of the trace
    run,            \* "closed", "opened" or "measured": the run last marked
    asked,          \* enabled went up since the last start marker
    ceased,         \* enabled went down, or the thread was told to stop,
                    \* since the last end marker
    late,           \* iterations begun since enabled last went down
    lateInRun,      \* those of them inside a run
    \* history of the writers
    rearmed         \* one started the timer after hrtimer_cancel returned

modVars    == <<mod, enabled>>
writerVars == <<lock, wpc, wval, old, rearmed>>
timerVars  == <<armed, cb, here>>
threadVars == <<pc, awake, shouldStop, wasEnabled>>
history    == <<run, asked, ceased, late, lateInRun>>
vars == <<modVars, writerVars, timerVars, threadVars, history>>

Unloading == mod \in {"cancel", "stop", "join", "close", "free"}
Values == {"on", "off", Junk}

TypeOK ==
    /\ mod \in {"absent", "coming", "live", "cancel", "stop", "join", "close", "free", "oops"}
    /\ enabled \in BOOLEAN
    /\ lock \in Writers \cup {NoWriter}
    /\ wpc \in [Writers -> {"idle", "check", "set", "arm"}]
    /\ wval \in [Writers -> Values]
    /\ old \in [Writers -> BOOLEAN]
    /\ armed \in BOOLEAN
    /\ cb \in {"idle", "wake", "decide", "restart"}
    /\ here \in BOOLEAN
    /\ pc \in {"none", "parked", "top", "check", "end", "should_stop", "schedule",
               "woken", "start", "iterate", "measure", "exited"}
    /\ awake \in BOOLEAN
    /\ shouldStop \in BOOLEAN
    /\ wasEnabled \in BOOLEAN
    /\ run \in {"closed", "opened", "measured"}
    /\ asked \in BOOLEAN
    /\ ceased \in BOOLEAN
    /\ late \in Nat
    /\ lateInRun \in Nat
    /\ rearmed \in BOOLEAN

Init ==
    /\ mod = "absent"
    /\ enabled = FALSE
    /\ lock = NoWriter
    /\ wpc = [w \in Writers |-> "idle"]
    /\ wval = [w \in Writers |-> "off"]
    /\ old = [w \in Writers |-> FALSE]
    /\ armed = FALSE
    /\ cb = "idle"
    /\ here \in BOOLEAN
    /\ pc = "none"
    /\ awake = FALSE
    /\ shouldStop = FALSE
    /\ wasEnabled = FALSE
    /\ run = "closed"
    /\ asked = FALSE
    /\ ceased = FALSE
    /\ late = 0
    /\ lateInRun = 0
    /\ rearmed = FALSE

-----------------------------------------------------------------------------
(* Writers: param_set_enabled.  sysfs calls it with the parameter lock.    *)

\* A fault the runs must notice: the handler runs without the lock.
WriteUnlocked(w) ==
    /\ mod \notin {"absent", "free", "oops"}
    /\ wpc[w] = "idle"
    /\ lock' = w
    /\ wpc' = [wpc EXCEPT ![w] = "check"]
    /\ \E v \in Values : wval' = [wval EXCEPT ![w] = v]
    /\ UNCHANGED <<modVars, old, rearmed, timerVars, threadVars, history>>

\* The write enters the handler.  The kernel takes the file away before it
\* frees the module.
Write(w) ==
    /\ mod \notin {"absent", "free", "oops"}
    /\ lock = NoWriter
    /\ lock' = w
    /\ wpc' = [wpc EXCEPT ![w] = "check"]
    /\ \E v \in Values : wval' = [wval EXCEPT ![w] = v]
    /\ UNCHANGED <<modVars, old, rearmed, timerVars, threadVars, history>>

\* The call returns and its locals are gone.
Return(w) ==
    /\ lock' = NoWriter
    /\ wpc' = [wpc EXCEPT ![w] = "idle"]
    /\ wval' = [wval EXCEPT ![w] = "off"]
    /\ old' = [old EXCEPT ![w] = FALSE]

\* Remember the old value; refuse unless the module is live.
CheckLive(w) ==
    /\ wpc[w] = "check"
    /\ IF mod = "live"
       THEN /\ wpc' = [wpc EXCEPT ![w] = "set"]
            /\ old' = [old EXCEPT ![w] = enabled]
            /\ UNCHANGED <<lock, wval>>
       ELSE Return(w)
    /\ UNCHANGED <<modVars, rearmed, timerVars, threadVars, history>>

RejectValue(w) ==
    /\ wpc[w] = "set"
    /\ wval[w] = Junk
    /\ Return(w)
    /\ UNCHANGED <<modVars, rearmed, timerVars, threadVars, history>>

\* A fault: the value is read as a number (param_set_int) and stored as it is.
SetEnabledAsNumber(w) ==
    /\ wpc[w] = "set"
    /\ enabled' = IF wval[w] = Junk THEN Junk ELSE wval[w] = "on"
    /\ Return(w)
    /\ UNCHANGED <<mod, rearmed, timerVars, threadVars, history>>

\* param_set_bool, and the choice of what follows it.
SetEnabled(w) ==
    /\ wpc[w] = "set"
    /\ wval[w] # Junk
    /\ enabled' = (wval[w] = "on")
    /\ IF wval[w] = "on" /\ ~old[w]
       THEN wpc' = [wpc EXCEPT ![w] = "arm"] /\ UNCHANGED <<lock, wval, old>>
       ELSE Return(w)
    /\ asked' = (asked \/ (~enabled /\ enabled'))
    /\ ceased' = (ceased \/ (enabled /\ ~enabled'))
    /\ IF enabled /\ ~enabled'
       THEN late' = 0 /\ lateInRun' = 0
       ELSE UNCHANGED <<late, lateInRun>>
    /\ UNCHANGED <<mod, rearmed, timerVars, threadVars, run>>

\* hrtimer_start (re)enqueues the timer, whatever its callback is doing, on
\* the writer's CPU; a timer whose callback runs stays where it is.
StartTimer(w) ==
    /\ wpc[w] = "arm"
    /\ armed' = TRUE
    /\ here' \in IF cb = "idle" THEN BOOLEAN ELSE {here}
    /\ rearmed' = (rearmed \/ mod \in {"stop", "join", "close", "free"})
    /\ Return(w)
    /\ UNCHANGED <<modVars, cb, threadVars, history>>

WriterStep(w) ==
    CheckLive(w) \/ RejectValue(w) \/ SetEnabled(w) \/ StartTimer(w)

-----------------------------------------------------------------------------
(* The timer and its callback logger_wakeup.                               *)

\* The timer expires: dequeued, and its callback runs.
Expire ==
    /\ armed
    /\ cb = "idle"
    /\ armed' = FALSE
    /\ cb' = "wake"
    /\ UNCHANGED <<modVars, writerVars, here, threadVars, history>>

\* A fault: a disabled tick does not wake the thread.
WakeThreadIfEnabled ==
    /\ cb = "wake"
    /\ cb' = "decide"
    /\ awake' = (awake \/ enabled)
    /\ UNCHANGED <<modVars, writerVars, armed, here, pc, shouldStop, wasEnabled, history>>

\* wake_up_process: no effect on a running thread; a thread that exited may
\* have been freed, anything can follow.
WakeThread ==
    /\ cb = "wake"
    /\ cb' = "decide"
    /\ IF pc \in {"none", "exited"}
       THEN mod' = "oops" /\ UNCHANGED awake
       ELSE awake' = TRUE /\ UNCHANGED mod
    /\ UNCHANGED <<enabled, writerVars, armed, here, pc, shouldStop, wasEnabled, history>>

\* Faults: the callback restarts the timer whatever the flag says, or never.
DecideAlways ==
    /\ cb = "decide"
    /\ cb' = "restart"
    /\ UNCHANGED <<modVars, writerVars, armed, here, threadVars, history>>

DecideNever ==
    /\ cb = "decide"
    /\ cb' = "idle"
    /\ UNCHANGED <<modVars, writerVars, armed, here, threadVars, history>>

\* HRTIMER_NORESTART unless enabled.
DecideRestart ==
    /\ cb = "decide"
    /\ cb' = IF enabled THEN "restart" ELSE "idle"
    /\ UNCHANGED <<modVars, writerVars, armed, here, threadVars, history>>

\* hrtimer_forward and HRTIMER_RESTART: the kernel enqueues the timer again.
Restart ==
    /\ cb = "restart"
    /\ cb' = "idle"
    /\ armed' = TRUE
    /\ UNCHANGED <<modVars, writerVars, here, threadVars, history>>

TimerStep == Expire \/ WakeThread \/ DecideRestart \/ Restart

-----------------------------------------------------------------------------
(* The logging thread: log_func.                                           *)

\* The interrupt handler keeps a thread on its own CPU from running.
OnCPU == here => cb = "idle"

\* kthread_create leaves the thread asleep; once woken it calls log_func,
\* unless it was told to stop.
Begin ==
    /\ pc = "parked" /\ awake
    /\ pc' = IF shouldStop THEN "exited" ELSE "top"
    /\ UNCHANGED <<modVars, writerVars, timerVars, awake, shouldStop, wasEnabled, history>>

PrepareToSleep ==
    /\ pc = "top"
    /\ pc' = "check"
    /\ awake' = FALSE
    /\ UNCHANGED <<modVars, writerVars, timerVars, shouldStop, wasEnabled, history>>

\* A fault: the end marker does not depend on was_enabled.
CheckDisabledOnly ==
    /\ pc = "check"
    /\ pc' = IF ~enabled THEN "end" ELSE "should_stop"
    /\ UNCHANGED <<modVars, writerVars, timerVars, awake, shouldStop, wasEnabled, history>>

CheckDisabled ==
    /\ pc = "check"
    /\ pc' = IF ~enabled /\ wasEnabled THEN "end" ELSE "should_stop"
    /\ UNCHANGED <<modVars, writerVars, timerVars, awake, shouldStop, wasEnabled, history>>

\* The tracepoint enabled(0).
MarkEnd ==
    /\ run' = "closed"
    /\ ceased' = FALSE
    /\ UNCHANGED <<asked, late, lateInRun>>

EndRun ==
    /\ pc = "end"
    /\ pc' = "should_stop"
    /\ wasEnabled' = FALSE
    /\ MarkEnd
    /\ UNCHANGED <<modVars, writerVars, timerVars, awake, shouldStop>>

\* A fault: the thread leaves its loop without closing the run.
CheckStopNoMarker ==
    /\ pc = "should_stop"
    /\ pc' = IF shouldStop THEN "exited" ELSE "schedule"
    /\ UNCHANGED <<modVars, writerVars, timerVars, awake, shouldStop, wasEnabled, history>>

CheckStop ==
    /\ pc = "should_stop"
    /\ pc' = IF shouldStop THEN "exited" ELSE "schedule"
    /\ IF shouldStop /\ wasEnabled THEN MarkEnd ELSE UNCHANGED history
    /\ UNCHANGED <<modVars, writerVars, timerVars, awake, shouldStop, wasEnabled>>

\* schedule() returns once the thread is in TASK_RUNNING.
WakeUp ==
    /\ pc = "schedule" /\ awake
    /\ pc' = "woken"
    /\ UNCHANGED <<modVars, writerVars, timerVars, awake, shouldStop, wasEnabled, history>>

CheckEnabled ==
    /\ pc = "woken"
    /\ pc' = IF enabled /\ ~wasEnabled THEN "start" ELSE "iterate"
    /\ UNCHANGED <<modVars, writerVars, timerVars, awake, shouldStop, wasEnabled, history>>

\* The tracepoint enabled(1).
StartRun ==
    /\ pc = "start"
    /\ pc' = "iterate"
    /\ wasEnabled' = TRUE
    /\ run' = "opened"
    /\ asked' = FALSE
    /\ UNCHANGED <<modVars, writerVars, timerVars, awake, shouldStop, ceased, late, lateInRun>>

\* The tracepoint iteration.
BeginIteration ==
    /\ pc = "iterate"
    /\ pc' = "measure"
    /\ run' = IF run = "opened" THEN "measured" ELSE run
    /\ late' = IF enabled THEN late ELSE late + 1
    /\ lateInRun' = IF enabled \/ run = "closed" THEN lateInRun ELSE lateInRun + 1
    /\ UNCHANGED <<modVars, writerVars, timerVars, awake, shouldStop, wasEnabled, asked, ceased>>

\* The measurements are traced and the loop starts over.
FinishIteration ==
    /\ pc = "measure"
    /\ pc' = "top"
    /\ UNCHANGED <<modVars, writerVars, timerVars, awake, shouldStop, wasEnabled, history>>

ThreadStep ==
    /\ OnCPU
    /\ \/ Begin \/ PrepareToSleep \/ CheckDisabled \/ EndRun \/ CheckStop
       \/ WakeUp \/ CheckEnabled \/ StartRun \/ BeginIteration \/ FinishIteration

-----------------------------------------------------------------------------
(* insmod and rmmod: init and cleanup.                                     *)

\* A new instance: its static data is initialised, its parameters appear.
Insmod ==
    /\ mod = "absent"
    /\ mod' = "coming"
    /\ enabled' = FALSE
    /\ wasEnabled' = FALSE
    /\ shouldStop' = FALSE
    /\ asked' = FALSE
    /\ ceased' = FALSE
    /\ late' = 0
    /\ lateInRun' = 0
    /\ rearmed' = FALSE
    /\ UNCHANGED <<lock, wpc, wval, old, timerVars, pc, awake, run>>

\* cpu_online(cpu) fails: the kernel drops the module again.
InitFails ==
    /\ mod = "coming"
    /\ mod' = "free"
    /\ UNCHANGED <<enabled, writerVars, timerVars, threadVars, history>>

InitModule ==
    /\ mod = "coming"
    /\ mod' = "live"
    /\ pc' = "parked"
    /\ awake' = FALSE
    /\ armed' = enabled
    /\ here' \in IF enabled THEN BOOLEAN ELSE {here}
    /\ UNCHANGED <<enabled, writerVars, cb, shouldStop, wasEnabled, history>>

\* The kernel marks the module as going and calls cleanup.
Rmmod ==
    /\ mod = "live"
    /\ mod' = "cancel"
    /\ UNCHANGED <<enabled, writerVars, timerVars, threadVars, history>>

\* A fault: hrtimer_try_to_cancel in place of hrtimer_cancel.
TryToCancelTimer ==
    /\ mod = "cancel"
    /\ armed' = FALSE
    /\ mod' = "stop"
    /\ UNCHANGED <<enabled, writerVars, cb, here, threadVars, history>>

\* hrtimer_cancel waits for a running callback, then dequeues the timer.
CancelTimer ==
    /\ mod = "cancel"
    /\ cb = "idle"
    /\ armed' = FALSE
    /\ mod' = "stop"
    /\ UNCHANGED <<enabled, writerVars, cb, here, threadVars, history>>

\* A fault: the thread is told to stop and not woken.
StopThreadNoWake ==
    /\ mod = "stop"
    /\ mod' = "join"
    /\ shouldStop' = TRUE
    /\ ceased' = TRUE
    /\ UNCHANGED <<enabled, writerVars, timerVars, pc, awake, wasEnabled, run, asked, late, lateInRun>>

\* kthread_stop: ask, wake, and wait.
StopThread ==
    /\ mod = "stop"
    /\ mod' = "join"
    /\ shouldStop' = TRUE
    /\ awake' = TRUE
    /\ ceased' = TRUE
    /\ UNCHANGED <<enabled, writerVars, timerVars, pc, wasEnabled, run, asked, late, lateInRun>>

JoinThread ==
    /\ mod = "join"
    /\ pc = "exited"
    /\ mod' = "close"
    /\ UNCHANGED <<enabled, writerVars, timerVars, threadVars, history>>

\* The rest of cleanup: sensor files, network device, averages, IOctlExit.
CloseFiles ==
    /\ mod = "close"
    /\ mod' = "free"
    /\ UNCHANGED <<enabled, writerVars, timerVars, threadVars, history>>

\* The kernel waits for the users of the parameter files and frees the
\* module.  A timer still enqueued would run freed code.
FreeModule ==
    /\ mod = "free"
    /\ \A w \in Writers : wpc[w] = "idle"
    /\ mod' = IF armed \/ cb # "idle" THEN "oops" ELSE "absent"
    /\ pc' = "none"
    /\ UNCHANGED <<enabled, writerVars, timerVars, awake, shouldStop, wasEnabled, history>>

UnloadStep == CancelTimer \/ StopThread \/ JoinThread \/ CloseFiles \/ FreeModule

-----------------------------------------------------------------------------
Environment ==
    \/ Insmod \/ InitFails \/ InitModule \/ Rmmod
    \/ \E w \in Writers : Write(w)

Next ==
    /\ mod # "oops"
    /\ \/ Environment
       \/ UnloadStep
       \/ TimerStep
       \/ ThreadStep
       \/ \E w \in Writers : WriterStep(w)

Spec == Init /\ [][Next]_vars

\* A timer expires and its callback returns, a system call in progress goes
\* on.  The thread and hrtimer_cancel get their turn between two callbacks of
\* the timer, which are an interval apart (strong fairness: each callback
\* disables them).  Nobody has to write the parameter, load or unload.
Fairness ==
    /\ SF_vars(mod # "oops" /\ ThreadStep)
    /\ WF_vars(mod # "oops" /\ TimerStep)
    /\ SF_vars(mod # "oops" /\ UnloadStep)
    /\ \A w \in Writers : WF_vars(mod # "oops" /\ WriterStep(w))

FairSpec == Spec /\ Fairness
-----------------------------------------------------------------------------
(* Properties.                                                             *)

\* The trace is a succession of measurement runs as MeasurementRuns states
\* it: markers alternate, none without a request of its own, no run without
\* an iteration, no run left open by an instance of the module.
Runs == INSTANCE MeasurementRuns
RunProtocol == Runs!Spec

\* While the flag is up the timer does not die: it is enqueued, or its
\* callback has still to read the flag or to restart it, or the writer that
\* raised the flag has still to start it (module.c:150-161 and 469-474 read
\* and write the flag without a common lock).
TimerAlive ==
    mod = "live" /\ enabled =>
        \/ armed
        \/ cb # "idle"
        \/ \E w \in Writers : wpc[w] = "arm"

\* After the flag went down the module logs at most three iterations more,
\* and at most one of them inside a run: one wake-up can be pending, one being
\* delivered and one armed (module.c:425-474).  kthread_stop's own wake-up
\* adds one.
LateBound ==
    /\ late <= IF shouldStop THEN 4 ELSE 3
    /\ lateInRun <= 1

\* A thread that ended, by kthread_stop or with its module, leaves no run
\* open (module.c:429-433).
NoOpenRunLeft == pc \in {"none", "parked", "exited"} => run = "closed"

\* From the return of hrtimer_cancel on (module.c:549) the timer stays off
\* and its callback does not run: no code of the module runs once it is
\* freed, no ended thread is woken.  The one way out is a writer that passed
\* the check of module.c:149 before rmmod began and starts the timer
\* (module.c:161) after that return.
QuietAfterCancel ==
    ~rearmed =>
        /\ mod \in {"absent", "coming", "stop", "join", "close", "free"} =>
               ~armed /\ cb = "idle"
        /\ mod # "oops"

\* The unloading of android/sys_logger.sh:283-285, "unload the module" and
\* then "module unloaded", never ends in freed code.
UnloadedCleanly == mod # "oops"

\* Cleanup comes to its end: neither the wait for the callback nor the join
\* of the thread (module.c:549-550) blocks for ever, not even when a writer
\* starts the timer again meanwhile.
UnloadEnds == Unloading ~> mod \in {"absent", "oops"}

\* While the flag stays up, iterations go on inside a run.
MeasuresWhileEnabled ==
    mod = "live" /\ enabled ~>
        ~enabled \/ mod # "live" \/ (pc = "measure" /\ run = "measured")

\* A run does not outlive the request it answers: no iteration is added to a
\* run for which the flag has been down and is up again.  android/sys_logger.sh
\* raises the flag to "start a new measurement run" (line 195).
OneRunPerRequest ==
    [][BeginIteration => ~(run = "measured" /\ enabled /\ ceased /\ ~shouldStop)]_vars

\* A run is closed once the flag is down, unless it goes up again, when the
\* callback and the thread share a CPU (module.c:425, 469-472).
StopEndsRun == ~enabled /\ run # "closed" ~> enabled \/ run = "closed" \/ ~here

\* The same for a timer on any CPU, as android/sys_logger.sh:216 has it,
\* "stop the measurement run".
StopAlwaysEndsRun == ~enabled /\ run # "closed" ~> enabled \/ run = "closed"
=============================================================================
