-------------------------- MODULE SysLoggerProofs --------------------------
(***************************************************************************)
(* Proofs about SysLogger for any set of writers, on one CPU or several.   *)
(* The inductive invariant IInv has one part per shared resource:          *)
(*   WriterInv   the parameter lock, and what a writer knows;              *)
(*   TimerAlive  the timer of an enabled module;                           *)
(*   LifeInv     the module's life cycle against the thread's;             *)
(*   RunInv      the markers already traced against the thread's position; *)
(*   CountInv    the wake-ups still to come against the late iterations.   *)
(* QuietInv adds the timer of a module that is being unloaded.             *)
(***************************************************************************)
EXTENDS SysLogger, TLAPS

\* The thread is in its loop.
Looping == pc \notin {"none", "parked", "exited"}

\* A writer in the handler holds the lock, knows the flag, and is gone
\* before the module is.
WriterInv ==
    \A w \in Writers :
        /\ wpc[w] # "idle" => lock = w
        /\ wpc[w] = "set" => old[w] = enabled
        /\ wpc[w] = "arm" => enabled
        /\ wpc[w] \in {"set", "arm"} => mod \notin {"absent", "coming"}

\* The thread exists from init to the join, and is asked to stop only there.
LifeInv ==
    /\ mod \in {"absent", "coming"} => pc = "none"
    /\ mod = "coming" => ~enabled /\ ~wasEnabled
    /\ mod \in {"coming", "live", "cancel", "stop"} => ~shouldStop /\ pc # "exited"
    /\ mod \in {"live", "cancel", "stop", "join"} => pc # "none"
    /\ mod = "close" => pc = "exited"
    /\ mod = "free" => pc \in {"none", "exited"}

\* Where the thread can be, given the marker traced last, was_enabled and the
\* requests still open.
RunInv ==
    /\ ~Looping => run = "closed"
    /\ Looping => (wasEnabled <=> run # "closed")
    /\ pc = "parked" => ~wasEnabled
    /\ run = "opened" => pc = "iterate"
    /\ pc = "start" => ~wasEnabled /\ asked /\ (enabled \/ ceased)
    /\ pc = "end" => wasEnabled /\ ceased /\ (enabled => asked)
    /\ Looping \/ pc = "parked" =>
           /\ enabled /\ ~wasEnabled => asked
           /\ ~enabled /\ wasEnabled => ceased
           /\ shouldStop => ceased \/ (pc = "should_stop" /\ ~wasEnabled) \/ pc = "parked"

\* Iterations the thread can begin before the timer, if the flag stays down,
\* has nothing left to wake it with.
One(b) == IF b THEN 1 ELSE 0
ThreadDue == \/ pc \in {"woken", "start", "iterate"}
             \/ awake /\ pc \in {"check", "end", "should_stop", "schedule"}
Due == One(ThreadDue) + One(cb = "wake") + One(armed \/ cb = "restart")

\* Late iterations already begun and those still due are bounded together.
CountInv ==
    /\ late + (IF enabled THEN 0 ELSE Due) <= 3 + One(shouldStop)
    /\ lateInRun <= 1
    /\ ~enabled /\ lateInRun = 1 =>
           \/ run = "closed" /\ pc # "start"
           \/ pc \in {"measure", "top", "check", "end"}

IInv == TypeOK /\ WriterInv /\ TimerAlive /\ LifeInv /\ RunInv /\ CountInv

\* No module, no timer: whatever happened in an earlier instance, the module
\* is only freed for good with its timer off.
QuietInv ==
    /\ QuietAfterCancel
    /\ mod \in {"absent", "coming"} => ~armed /\ cb = "idle"

-----------------------------------------------------------------------------
\* The type invariant is inductive; its two halves are proved apart.
WriterTypes ==
    /\ lock \in Writers \cup {NoWriter}
    /\ wpc \in [Writers -> {"idle", "check", "set", "arm"}]
    /\ wval \in [Writers -> Values]
    /\ old \in [Writers -> BOOLEAN]
    /\ rearmed \in BOOLEAN

\* The places of the other processes, and the markers of the trace.
ModPlaces == {"absent", "coming", "live", "cancel", "stop", "join", "close", "free", "oops"}
CallbackPlaces == {"idle", "wake", "decide", "restart"}
ThreadPlaces ==
    {"none", "parked", "top", "check", "end", "should_stop", "schedule", "woken", "start",
     "iterate", "measure", "exited"}
Markers == {"closed", "opened", "measured"}

ScalarTypes ==
    /\ mod \in ModPlaces
    /\ enabled \in BOOLEAN
    /\ armed \in BOOLEAN
    /\ cb \in CallbackPlaces
    /\ here \in BOOLEAN
    /\ pc \in ThreadPlaces
    /\ awake \in BOOLEAN
    /\ shouldStop \in BOOLEAN
    /\ wasEnabled \in BOOLEAN
    /\ run \in Markers
    /\ asked \in BOOLEAN
    /\ ceased \in BOOLEAN
    /\ late \in Nat
    /\ lateInRun \in Nat

\* The type invariant is that of the writers and that of everything else.
LEMMA TypeHalves == TypeOK <=> WriterTypes /\ ScalarTypes
  BY DEF TypeOK, WriterTypes, ScalarTypes, ModPlaces, CallbackPlaces, ThreadPlaces, Markers

\* The members of the four sets.
LEMMA Places ==
    /\ "absent" \in ModPlaces /\ "coming" \in ModPlaces /\ "live" \in ModPlaces
    /\ "cancel" \in ModPlaces /\ "stop" \in ModPlaces /\ "join" \in ModPlaces
    /\ "close" \in ModPlaces /\ "free" \in ModPlaces /\ "oops" \in ModPlaces
    /\ "idle" \in CallbackPlaces /\ "wake" \in CallbackPlaces
    /\ "decide" \in CallbackPlaces /\ "restart" \in CallbackPlaces
    /\ "none" \in ThreadPlaces /\ "parked" \in ThreadPlaces /\ "top" \in ThreadPlaces
    /\ "check" \in ThreadPlaces /\ "end" \in ThreadPlaces /\ "should_stop" \in ThreadPlaces
    /\ "schedule" \in ThreadPlaces /\ "woken" \in ThreadPlaces /\ "start" \in ThreadPlaces
    /\ "iterate" \in ThreadPlaces /\ "measure" \in ThreadPlaces /\ "exited" \in ThreadPlaces
    /\ "closed" \in Markers /\ "opened" \in Markers /\ "measured" \in Markers
  BY DEF ModPlaces, CallbackPlaces, ThreadPlaces, Markers

\* Every step keeps the types of the writers' variables.
LEMMA WriterTypeStep == TypeOK /\ [Next]_vars => WriterTypes'
<1>1. SUFFICES ASSUME TypeOK, [Next]_vars PROVE WriterTypes'
  OBVIOUS
<1>2. CASE \E w \in Writers : Write(w) \/ WriterStep(w)
  <2>1. PICK w \in Writers : Write(w) \/ WriterStep(w)
    BY <1>2
  <2>2. CASE Write(w)
    BY <1>1, <2>2 DEF Write, TypeOK, WriterTypes, Values, modVars, writerVars,
       timerVars, threadVars, history
  <2>3. CASE CheckLive(w)
    BY <1>1, <2>3 DEF CheckLive, Return, TypeOK, WriterTypes, Values, modVars,
       writerVars, timerVars, threadVars, history
  <2>4. CASE RejectValue(w)
    BY <1>1, <2>4 DEF RejectValue, Return, TypeOK, WriterTypes, Values,
       modVars, writerVars, timerVars, threadVars, history
  <2>5. CASE SetEnabled(w)
    BY <1>1, <2>5 DEF SetEnabled, Return, TypeOK, WriterTypes, Values,
       modVars, writerVars, timerVars, threadVars, history
  <2>6. CASE StartTimer(w)
    BY <1>1, <2>6 DEF StartTimer, Return, TypeOK, WriterTypes, Values,
       modVars, writerVars, timerVars, threadVars, history
  <2>. QED
    BY <2>1, <2>2, <2>3, <2>4, <2>5, <2>6 DEF WriterStep
<1>3. CASE TimerStep
  BY <1>1, <1>3 DEF TimerStep, Expire, WakeThread, DecideRestart, Restart,
     TypeOK, WriterTypes, Values, modVars, writerVars, timerVars,
     threadVars, history
<1>4. CASE ThreadStep
  BY <1>1, <1>4 DEF ThreadStep, Begin, PrepareToSleep, CheckDisabled,
     EndRun, MarkEnd, CheckStop, WakeUp, CheckEnabled, StartRun,
     BeginIteration, FinishIteration, TypeOK, WriterTypes, Values, modVars,
     writerVars, timerVars, threadVars, history
<1>5. CASE Insmod \/ InitFails \/ InitModule \/ Rmmod
  BY <1>1, <1>5 DEF Insmod, InitFails, InitModule, Rmmod, TypeOK,
     WriterTypes, Values, modVars, writerVars, timerVars, threadVars,
     history
<1>6. CASE UnloadStep
  BY <1>1, <1>6 DEF UnloadStep, CancelTimer, StopThread, JoinThread,
     CloseFiles, FreeModule, TypeOK, WriterTypes, Values, modVars,
     writerVars, timerVars, threadVars, history
<1>7. CASE UNCHANGED vars
  BY <1>1, <1>7 DEF vars, TypeOK, WriterTypes, Values, modVars, writerVars,
     timerVars, threadVars, history
<1>. QED
  BY <1>1, <1>2, <1>3, <1>4, <1>5, <1>6, <1>7 DEF Next, Environment

\* Every step keeps the types of the other variables.
LEMMA ScalarTypeStep == ScalarTypes /\ [Next]_vars => ScalarTypes'
<1>1. SUFFICES ASSUME ScalarTypes, [Next]_vars PROVE ScalarTypes'
  OBVIOUS
<1>2. CASE \E w \in Writers : Write(w) \/ WriterStep(w)
  <2>1. PICK w \in Writers : Write(w) \/ WriterStep(w)
    BY <1>2
  <2>2. CASE Write(w)
    BY <1>1, <2>2, Places DEF Write, ScalarTypes, modVars, writerVars, timerVars,
       threadVars, history
  <2>3. CASE CheckLive(w)
    BY <1>1, <2>3, Places DEF CheckLive, Return, ScalarTypes, modVars, writerVars,
       timerVars, threadVars, history
  <2>4. CASE RejectValue(w)
    BY <1>1, <2>4, Places DEF RejectValue, Return, ScalarTypes, modVars, writerVars,
       timerVars, threadVars, history
  <2>5. CASE SetEnabled(w)
    BY <1>1, <2>5, Places DEF SetEnabled, Return, ScalarTypes, modVars, writerVars,
       timerVars, threadVars, history
  <2>6. CASE StartTimer(w)
    BY <1>1, <2>6, Places DEF StartTimer, Return, ScalarTypes, modVars, writerVars,
       timerVars, threadVars, history
  <2>. QED
    BY <2>1, <2>2, <2>3, <2>4, <2>5, <2>6 DEF WriterStep
<1>3. CASE TimerStep
  <2>1. CASE Expire
    BY <1>1, <2>1, Places DEF Expire, ScalarTypes, modVars, writerVars,
       timerVars, threadVars, history
  <2>2. CASE WakeThread
    BY <1>1, <2>2, Places DEF WakeThread, ScalarTypes, modVars, writerVars,
       timerVars, threadVars, history
  <2>3. CASE DecideRestart
    BY <1>1, <2>3, Places DEF DecideRestart, ScalarTypes, modVars, writerVars,
       timerVars, threadVars, history
  <2>4. CASE Restart
    BY <1>1, <2>4, Places DEF Restart, ScalarTypes, modVars, writerVars, timerVars,
       threadVars, history
  <2>. QED
    BY <1>3, <2>1, <2>2, <2>3, <2>4 DEF TimerStep
<1>4. CASE ThreadStep
  <2>1. CASE Begin
    BY <1>1, <2>1, Places DEF Begin, ScalarTypes, modVars, writerVars, timerVars,
       threadVars, history
  <2>2. CASE PrepareToSleep
    BY <1>1, <2>2, Places DEF PrepareToSleep, ScalarTypes, modVars,
       writerVars, timerVars, threadVars, history
  <2>3. CASE CheckDisabled
    BY <1>1, <2>3, Places DEF CheckDisabled, ScalarTypes, modVars, writerVars,
       timerVars, threadVars, history
  <2>4. CASE EndRun
    BY <1>1, <2>4, Places DEF EndRun, MarkEnd, ScalarTypes, modVars, writerVars,
       timerVars, threadVars, history
  <2>5. CASE CheckStop
    BY <1>1, <2>5, Places DEF CheckStop, MarkEnd, ScalarTypes, modVars,
       writerVars, timerVars, threadVars, history
  <2>6. CASE WakeUp
    BY <1>1, <2>6, Places DEF WakeUp, ScalarTypes, modVars, writerVars, timerVars,
       threadVars, history
  <2>7. CASE CheckEnabled
    BY <1>1, <2>7, Places DEF CheckEnabled, ScalarTypes, modVars, writerVars,
       timerVars, threadVars, history
  <2>8. CASE StartRun
    BY <1>1, <2>8, Places DEF StartRun, ScalarTypes, modVars, writerVars, timerVars,
       threadVars, history
  <2>9. CASE BeginIteration
    BY <1>1, <2>9, Places DEF BeginIteration, ScalarTypes, modVars, writerVars,
       timerVars, threadVars, history
  <2>10. CASE FinishIteration
    BY <1>1, <2>10, Places DEF FinishIteration, ScalarTypes, modVars, writerVars,
       timerVars, threadVars, history
  <2>. QED
    BY <1>4, <2>1, <2>2, <2>3, <2>4, <2>5, <2>6, <2>7, <2>8, <2>9, <2>10 DEF
       ThreadStep
<1>5. CASE Insmod \/ InitFails \/ InitModule \/ Rmmod
  <2>1. CASE Insmod
    BY <1>1, <2>1, Places DEF Insmod, ScalarTypes, modVars, writerVars, timerVars,
       threadVars, history
  <2>2. CASE InitFails
    BY <1>1, <2>2, Places DEF InitFails, ScalarTypes, modVars, writerVars, timerVars,
       threadVars, history
  <2>3. CASE InitModule
    BY <1>1, <2>3, Places DEF InitModule, ScalarTypes, modVars, writerVars, timerVars,
       threadVars, history
  <2>4. CASE Rmmod
    BY <1>1, <2>4, Places DEF Rmmod, ScalarTypes, modVars, writerVars, timerVars,
       threadVars, history
  <2>. QED
    BY <1>5, <2>1, <2>2, <2>3, <2>4
<1>6. CASE UnloadStep
  <2>1. CASE CancelTimer
    BY <1>1, <2>1, Places DEF CancelTimer, ScalarTypes, modVars, writerVars,
       timerVars, threadVars, history
  <2>2. CASE StopThread
    BY <1>1, <2>2, Places DEF StopThread, ScalarTypes, modVars, writerVars, timerVars,
       threadVars, history
  <2>3. CASE JoinThread
    BY <1>1, <2>3, Places DEF JoinThread, ScalarTypes, modVars, writerVars, timerVars,
       threadVars, history
  <2>4. CASE CloseFiles
    BY <1>1, <2>4, Places DEF CloseFiles, ScalarTypes, modVars, writerVars, timerVars,
       threadVars, history
  <2>5. CASE FreeModule
    BY <1>1, <2>5, Places DEF FreeModule, ScalarTypes, modVars, writerVars, timerVars,
       threadVars, history
  <2>. QED
    BY <1>6, <2>1, <2>2, <2>3, <2>4, <2>5 DEF UnloadStep
<1>7. CASE UNCHANGED vars
  BY <1>1, <1>7 DEF vars, ScalarTypes, modVars, writerVars, timerVars,
     threadVars, history
<1>. QED
  BY <1>1, <1>2, <1>3, <1>4, <1>5, <1>6, <1>7 DEF Next, Environment

\* The lock keeps a second writer out of the handler.
LEMMA WriterInvStep == WriterTypes /\ WriterInv /\ [Next]_vars => WriterInv'
<1>1. SUFFICES ASSUME WriterTypes, WriterInv, [Next]_vars PROVE WriterInv'
  OBVIOUS
<1>2. CASE \E w \in Writers : Write(w) \/ WriterStep(w)
  <2>1. PICK w \in Writers : Write(w) \/ WriterStep(w)
    BY <1>2
  <2>2. CASE Write(w)
    <3>1. \A v \in Writers : wpc[v] = "idle"
      BY <1>1, <2>2, WritersAssumption DEF Write, WriterInv
    <3>. QED
      BY <1>1, <2>2, <3>1 DEF Write, WriterTypes, WriterInv, modVars, writerVars,
         timerVars, threadVars, history
  <2>3. CASE CheckLive(w)
    BY <1>1, <2>3 DEF CheckLive, Return, WriterTypes, WriterInv, modVars,
       writerVars, timerVars, threadVars, history
  <2>4. CASE RejectValue(w)
    BY <1>1, <2>4 DEF RejectValue, Return, WriterTypes, WriterInv, modVars,
       writerVars, timerVars, threadVars, history
  <2>5. CASE SetEnabled(w)
    BY <1>1, <2>5, ZenonT(30) DEF SetEnabled, Return, WriterTypes, WriterInv, modVars,
       writerVars, timerVars, threadVars, history
  <2>6. CASE StartTimer(w)
    BY <1>1, <2>6 DEF StartTimer, Return, WriterTypes, WriterInv, modVars,
       writerVars, timerVars, threadVars, history
  <2>. QED
    BY <2>1, <2>2, <2>3, <2>4, <2>5, <2>6 DEF WriterStep
<1>3. CASE TimerStep
  <2>1. CASE Expire
    BY <1>1, <2>1 DEF Expire, WriterTypes, WriterInv, modVars, writerVars,
       timerVars, threadVars, history
  <2>2. CASE WakeThread
    BY <1>1, <2>2 DEF WakeThread, WriterTypes, WriterInv, modVars, writerVars,
       timerVars, threadVars, history
  <2>3. CASE DecideRestart
    BY <1>1, <2>3 DEF DecideRestart, WriterTypes, WriterInv, modVars,
       writerVars, timerVars, threadVars, history
  <2>4. CASE Restart
    BY <1>1, <2>4 DEF Restart, WriterTypes, WriterInv, modVars, writerVars,
       timerVars, threadVars, history
  <2>. QED
    BY <1>3, <2>1, <2>2, <2>3, <2>4 DEF TimerStep
<1>4. CASE ThreadStep
  <2>1. CASE Begin
    BY <1>1, <2>1 DEF Begin, WriterTypes, WriterInv, modVars, writerVars,
       timerVars, threadVars, history
  <2>2. CASE PrepareToSleep
    BY <1>1, <2>2 DEF PrepareToSleep, WriterTypes, WriterInv, modVars,
       writerVars, timerVars, threadVars, history
  <2>3. CASE CheckDisabled
    BY <1>1, <2>3 DEF CheckDisabled, WriterTypes, WriterInv, modVars,
       writerVars, timerVars, threadVars, history
  <2>4. CASE EndRun
    BY <1>1, <2>4 DEF EndRun, MarkEnd, WriterTypes, WriterInv, modVars,
       writerVars, timerVars, threadVars, history
  <2>5. CASE CheckStop
    BY <1>1, <2>5 DEF CheckStop, MarkEnd, WriterTypes, WriterInv, modVars,
       writerVars, timerVars, threadVars, history
  <2>6. CASE WakeUp
    BY <1>1, <2>6 DEF WakeUp, WriterTypes, WriterInv, modVars, writerVars,
       timerVars, threadVars, history
  <2>7. CASE CheckEnabled
    BY <1>1, <2>7 DEF CheckEnabled, WriterTypes, WriterInv, modVars,
       writerVars, timerVars, threadVars, history
  <2>8. CASE StartRun
    BY <1>1, <2>8 DEF StartRun, WriterTypes, WriterInv, modVars, writerVars,
       timerVars, threadVars, history
  <2>9. CASE BeginIteration
    BY <1>1, <2>9 DEF BeginIteration, WriterTypes, WriterInv, modVars,
       writerVars, timerVars, threadVars, history
  <2>10. CASE FinishIteration
    BY <1>1, <2>10 DEF FinishIteration, WriterTypes, WriterInv, modVars,
       writerVars, timerVars, threadVars, history
  <2>. QED
    BY <1>4, <2>1, <2>2, <2>3, <2>4, <2>5, <2>6, <2>7, <2>8, <2>9, <2>10 DEF
       ThreadStep
<1>5. CASE Insmod \/ InitFails \/ InitModule \/ Rmmod
  <2>1. CASE Insmod
    BY <1>1, <2>1 DEF Insmod, WriterTypes, WriterInv, modVars, writerVars,
       timerVars, threadVars, history
  <2>2. CASE InitFails
    BY <1>1, <2>2 DEF InitFails, WriterTypes, WriterInv, modVars, writerVars,
       timerVars, threadVars, history
  <2>3. CASE InitModule
    BY <1>1, <2>3 DEF InitModule, WriterTypes, WriterInv, modVars, writerVars,
       timerVars, threadVars, history
  <2>4. CASE Rmmod
    BY <1>1, <2>4 DEF Rmmod, WriterTypes, WriterInv, modVars, writerVars,
       timerVars, threadVars, history
  <2>. QED
    BY <1>5, <2>1, <2>2, <2>3, <2>4
<1>6. CASE UnloadStep
  <2>1. CASE CancelTimer
    BY <1>1, <2>1 DEF CancelTimer, WriterTypes, WriterInv, modVars,
       writerVars, timerVars, threadVars, history
  <2>2. CASE StopThread
    BY <1>1, <2>2 DEF StopThread, WriterTypes, WriterInv, modVars, writerVars,
       timerVars, threadVars, history
  <2>3. CASE JoinThread
    BY <1>1, <2>3 DEF JoinThread, WriterTypes, WriterInv, modVars, writerVars,
       timerVars, threadVars, history
  <2>4. CASE CloseFiles
    BY <1>1, <2>4 DEF CloseFiles, WriterTypes, WriterInv, modVars, writerVars,
       timerVars, threadVars, history
  <2>5. CASE FreeModule
    BY <1>1, <2>5 DEF FreeModule, WriterTypes, WriterInv, modVars, writerVars,
       timerVars, threadVars, history
  <2>. QED
    BY <1>6, <2>1, <2>2, <2>3, <2>4, <2>5 DEF UnloadStep
<1>7. CASE UNCHANGED vars
  BY <1>1, <1>7 DEF vars, WriterTypes, WriterInv, modVars, writerVars,
     timerVars, threadVars, history
<1>. QED
  BY <1>1, <1>2, <1>3, <1>4, <1>5, <1>6, <1>7 DEF Next, Environment

\* Whoever takes the timer down leaves somebody who restarts it.
LEMMA TimerAliveStep == TypeOK /\ WriterInv /\ TimerAlive /\ [Next]_vars => TimerAlive'
<1>1. SUFFICES ASSUME TypeOK, WriterInv, TimerAlive, [Next]_vars PROVE TimerAlive'
  OBVIOUS
<1>2. CASE \E w \in Writers : Write(w) \/ WriterStep(w)
  <2>1. PICK w \in Writers : Write(w) \/ WriterStep(w)
    BY <1>2
  <2>2. CASE Write(w)
    <3>1. \A v \in Writers : wpc[v] = "idle"
      BY <1>1, <2>2, WritersAssumption DEF Write, WriterInv
    <3>. QED
      BY <1>1, <2>2, <3>1 DEF Write, TypeOK, WriterInv, TimerAlive, modVars,
         writerVars, timerVars, threadVars, history
  <2>3. CASE CheckLive(w)
    BY <1>1, <2>3 DEF CheckLive, Return, TypeOK, WriterInv, TimerAlive,
       modVars, writerVars, timerVars, threadVars, history
  <2>4. CASE RejectValue(w)
    BY <1>1, <2>4 DEF RejectValue, Return, TypeOK, WriterInv, TimerAlive,
       modVars, writerVars, timerVars, threadVars, history
  <2>5. CASE SetEnabled(w)
    BY <1>1, <2>5 DEF SetEnabled, Return, TypeOK, WriterInv, TimerAlive,
       modVars, writerVars, timerVars, threadVars, history
  <2>6. CASE StartTimer(w)
    BY <1>1, <2>6 DEF StartTimer, Return, TypeOK, WriterInv, TimerAlive,
       modVars, writerVars, timerVars, threadVars, history
  <2>. QED
    BY <2>1, <2>2, <2>3, <2>4, <2>5, <2>6 DEF WriterStep
<1>3. CASE TimerStep
  <2>1. CASE Expire
    BY <1>1, <2>1 DEF Expire, TypeOK, WriterInv, TimerAlive, modVars,
       writerVars, timerVars, threadVars, history
  <2>2. CASE WakeThread
    BY <1>1, <2>2 DEF WakeThread, TypeOK, WriterInv, TimerAlive, modVars,
       writerVars, timerVars, threadVars, history
  <2>3. CASE DecideRestart
    BY <1>1, <2>3 DEF DecideRestart, TypeOK, WriterInv, TimerAlive, modVars,
       writerVars, timerVars, threadVars, history
  <2>4. CASE Restart
    BY <1>1, <2>4 DEF Restart, TypeOK, WriterInv, TimerAlive, modVars,
       writerVars, timerVars, threadVars, history
  <2>. QED
    BY <1>3, <2>1, <2>2, <2>3, <2>4 DEF TimerStep
<1>4. CASE ThreadStep
  <2>1. CASE Begin
    BY <1>1, <2>1 DEF Begin, TypeOK, WriterInv, TimerAlive, modVars,
       writerVars, timerVars, threadVars, history
  <2>2. CASE PrepareToSleep
    BY <1>1, <2>2 DEF PrepareToSleep, TypeOK, WriterInv, TimerAlive, modVars,
       writerVars, timerVars, threadVars, history
  <2>3. CASE CheckDisabled
    BY <1>1, <2>3 DEF CheckDisabled, TypeOK, WriterInv, TimerAlive, modVars,
       writerVars, timerVars, threadVars, history
  <2>4. CASE EndRun
    BY <1>1, <2>4 DEF EndRun, MarkEnd, TypeOK, WriterInv, TimerAlive, modVars,
       writerVars, timerVars, threadVars, history
  <2>5. CASE CheckStop
    BY <1>1, <2>5 DEF CheckStop, MarkEnd, TypeOK, WriterInv, TimerAlive,
       modVars, writerVars, timerVars, threadVars, history
  <2>6. CASE WakeUp
    BY <1>1, <2>6 DEF WakeUp, TypeOK, WriterInv, TimerAlive, modVars,
       writerVars, timerVars, threadVars, history
  <2>7. CASE CheckEnabled
    BY <1>1, <2>7 DEF CheckEnabled, TypeOK, WriterInv, TimerAlive, modVars,
       writerVars, timerVars, threadVars, history
  <2>8. CASE StartRun
    BY <1>1, <2>8 DEF StartRun, TypeOK, WriterInv, TimerAlive, modVars,
       writerVars, timerVars, threadVars, history
  <2>9. CASE BeginIteration
    BY <1>1, <2>9 DEF BeginIteration, TypeOK, WriterInv, TimerAlive, modVars,
       writerVars, timerVars, threadVars, history
  <2>10. CASE FinishIteration
    BY <1>1, <2>10 DEF FinishIteration, TypeOK, WriterInv, TimerAlive,
       modVars, writerVars, timerVars, threadVars, history
  <2>. QED
    BY <1>4, <2>1, <2>2, <2>3, <2>4, <2>5, <2>6, <2>7, <2>8, <2>9, <2>10 DEF
       ThreadStep
<1>5. CASE Insmod \/ InitFails \/ InitModule \/ Rmmod
  <2>1. CASE Insmod
    BY <1>1, <2>1 DEF Insmod, TypeOK, WriterInv, TimerAlive, modVars,
       writerVars, timerVars, threadVars, history
  <2>2. CASE InitFails
    BY <1>1, <2>2 DEF InitFails, TypeOK, WriterInv, TimerAlive, modVars,
       writerVars, timerVars, threadVars, history
  <2>3. CASE InitModule
    BY <1>1, <2>3 DEF InitModule, TypeOK, WriterInv, TimerAlive, modVars,
       writerVars, timerVars, threadVars, history
  <2>4. CASE Rmmod
    BY <1>1, <2>4 DEF Rmmod, TypeOK, WriterInv, TimerAlive, modVars,
       writerVars, timerVars, threadVars, history
  <2>. QED
    BY <1>5, <2>1, <2>2, <2>3, <2>4
<1>6. CASE UnloadStep
  <2>1. CASE CancelTimer
    BY <1>1, <2>1 DEF CancelTimer, TypeOK, WriterInv, TimerAlive, modVars,
       writerVars, timerVars, threadVars, history
  <2>2. CASE StopThread
    BY <1>1, <2>2 DEF StopThread, TypeOK, WriterInv, TimerAlive, modVars,
       writerVars, timerVars, threadVars, history
  <2>3. CASE JoinThread
    BY <1>1, <2>3 DEF JoinThread, TypeOK, WriterInv, TimerAlive, modVars,
       writerVars, timerVars, threadVars, history
  <2>4. CASE CloseFiles
    BY <1>1, <2>4 DEF CloseFiles, TypeOK, WriterInv, TimerAlive, modVars,
       writerVars, timerVars, threadVars, history
  <2>5. CASE FreeModule
    BY <1>1, <2>5 DEF FreeModule, TypeOK, WriterInv, TimerAlive, modVars,
       writerVars, timerVars, threadVars, history
  <2>. QED
    BY <1>6, <2>1, <2>2, <2>3, <2>4, <2>5 DEF UnloadStep
<1>7. CASE UNCHANGED vars
  BY <1>1, <1>7 DEF vars, TypeOK, WriterInv, TimerAlive, modVars,
     writerVars, timerVars, threadVars, history
<1>. QED
  BY <1>1, <1>2, <1>3, <1>4, <1>5, <1>6, <1>7 DEF Next, Environment

\* The thread lives from init to the join in cleanup.
LEMMA LifeInvStep == TypeOK /\ WriterInv /\ LifeInv /\ [Next]_vars => LifeInv'
<1>1. SUFFICES ASSUME TypeOK, WriterInv, LifeInv, [Next]_vars PROVE LifeInv'
  OBVIOUS
<1>2. CASE \E w \in Writers : Write(w) \/ WriterStep(w)
  <2>1. PICK w \in Writers : Write(w) \/ WriterStep(w)
    BY <1>2
  <2>2. CASE Write(w)
    BY <1>1, <2>2 DEF Write, TypeOK, WriterInv, LifeInv, modVars, writerVars,
       timerVars, threadVars, history
  <2>3. CASE CheckLive(w)
    BY <1>1, <2>3 DEF CheckLive, Return, TypeOK, WriterInv, LifeInv, modVars,
       writerVars, timerVars, threadVars, history
  <2>4. CASE RejectValue(w)
    BY <1>1, <2>4 DEF RejectValue, Return, TypeOK, WriterInv, LifeInv,
       modVars, writerVars, timerVars, threadVars, history
  <2>5. CASE SetEnabled(w)
    BY <1>1, <2>5 DEF SetEnabled, Return, TypeOK, WriterInv, LifeInv, modVars,
       writerVars, timerVars, threadVars, history
  <2>6. CASE StartTimer(w)
    BY <1>1, <2>6 DEF StartTimer, Return, TypeOK, WriterInv, LifeInv, modVars,
       writerVars, timerVars, threadVars, history
  <2>. QED
    BY <2>1, <2>2, <2>3, <2>4, <2>5, <2>6 DEF WriterStep
<1>3. CASE TimerStep
  <2>1. CASE Expire
    BY <1>1, <2>1 DEF Expire, TypeOK, WriterInv, LifeInv, modVars, writerVars,
       timerVars, threadVars, history
  <2>2. CASE WakeThread
    BY <1>1, <2>2 DEF WakeThread, TypeOK, WriterInv, LifeInv, modVars,
       writerVars, timerVars, threadVars, history
  <2>3. CASE DecideRestart
    BY <1>1, <2>3 DEF DecideRestart, TypeOK, WriterInv, LifeInv, modVars,
       writerVars, timerVars, threadVars, history
  <2>4. CASE Restart
    BY <1>1, <2>4 DEF Restart, TypeOK, WriterInv, LifeInv, modVars,
       writerVars, timerVars, threadVars, history
  <2>. QED
    BY <1>3, <2>1, <2>2, <2>3, <2>4 DEF TimerStep
<1>4. CASE ThreadStep
  <2>1. CASE Begin
    BY <1>1, <2>1 DEF Begin, TypeOK, WriterInv, LifeInv, modVars, writerVars,
       timerVars, threadVars, history
  <2>2. CASE PrepareToSleep
    BY <1>1, <2>2 DEF PrepareToSleep, TypeOK, WriterInv, LifeInv, modVars,
       writerVars, timerVars, threadVars, history
  <2>3. CASE CheckDisabled
    BY <1>1, <2>3 DEF CheckDisabled, TypeOK, WriterInv, LifeInv, modVars,
       writerVars, timerVars, threadVars, history
  <2>4. CASE EndRun
    BY <1>1, <2>4 DEF EndRun, MarkEnd, TypeOK, WriterInv, LifeInv, modVars,
       writerVars, timerVars, threadVars, history
  <2>5. CASE CheckStop
    BY <1>1, <2>5 DEF CheckStop, MarkEnd, TypeOK, WriterInv, LifeInv, modVars,
       writerVars, timerVars, threadVars, history
  <2>6. CASE WakeUp
    BY <1>1, <2>6 DEF WakeUp, TypeOK, WriterInv, LifeInv, modVars, writerVars,
       timerVars, threadVars, history
  <2>7. CASE CheckEnabled
    BY <1>1, <2>7 DEF CheckEnabled, TypeOK, WriterInv, LifeInv, modVars,
       writerVars, timerVars, threadVars, history
  <2>8. CASE StartRun
    BY <1>1, <2>8 DEF StartRun, TypeOK, WriterInv, LifeInv, modVars,
       writerVars, timerVars, threadVars, history
  <2>9. CASE BeginIteration
    BY <1>1, <2>9 DEF BeginIteration, TypeOK, WriterInv, LifeInv, modVars,
       writerVars, timerVars, threadVars, history
  <2>10. CASE FinishIteration
    BY <1>1, <2>10 DEF FinishIteration, TypeOK, WriterInv, LifeInv, modVars,
       writerVars, timerVars, threadVars, history
  <2>. QED
    BY <1>4, <2>1, <2>2, <2>3, <2>4, <2>5, <2>6, <2>7, <2>8, <2>9, <2>10 DEF
       ThreadStep
<1>5. CASE Insmod \/ InitFails \/ InitModule \/ Rmmod
  <2>1. CASE Insmod
    BY <1>1, <2>1 DEF Insmod, TypeOK, WriterInv, LifeInv, modVars, writerVars,
       timerVars, threadVars, history
  <2>2. CASE InitFails
    BY <1>1, <2>2 DEF InitFails, TypeOK, WriterInv, LifeInv, modVars,
       writerVars, timerVars, threadVars, history
  <2>3. CASE InitModule
    BY <1>1, <2>3 DEF InitModule, TypeOK, WriterInv, LifeInv, modVars,
       writerVars, timerVars, threadVars, history
  <2>4. CASE Rmmod
    BY <1>1, <2>4 DEF Rmmod, TypeOK, WriterInv, LifeInv, modVars, writerVars,
       timerVars, threadVars, history
  <2>. QED
    BY <1>5, <2>1, <2>2, <2>3, <2>4
<1>6. CASE UnloadStep
  <2>1. CASE CancelTimer
    BY <1>1, <2>1 DEF CancelTimer, TypeOK, WriterInv, LifeInv, modVars,
       writerVars, timerVars, threadVars, history
  <2>2. CASE StopThread
    BY <1>1, <2>2 DEF StopThread, TypeOK, WriterInv, LifeInv, modVars,
       writerVars, timerVars, threadVars, history
  <2>3. CASE JoinThread
    BY <1>1, <2>3 DEF JoinThread, TypeOK, WriterInv, LifeInv, modVars,
       writerVars, timerVars, threadVars, history
  <2>4. CASE CloseFiles
    BY <1>1, <2>4 DEF CloseFiles, TypeOK, WriterInv, LifeInv, modVars,
       writerVars, timerVars, threadVars, history
  <2>5. CASE FreeModule
    BY <1>1, <2>5 DEF FreeModule, TypeOK, WriterInv, LifeInv, modVars,
       writerVars, timerVars, threadVars, history
  <2>. QED
    BY <1>6, <2>1, <2>2, <2>3, <2>4, <2>5 DEF UnloadStep
<1>7. CASE UNCHANGED vars
  BY <1>1, <1>7 DEF vars, TypeOK, WriterInv, LifeInv, modVars, writerVars,
     timerVars, threadVars, history
<1>. QED
  BY <1>1, <1>2, <1>3, <1>4, <1>5, <1>6, <1>7 DEF Next, Environment

\* The marker traced last tells where the thread can be.
LEMMA RunInvStep == TypeOK /\ LifeInv /\ RunInv /\ [Next]_vars => RunInv'
<1>1. SUFFICES ASSUME TypeOK, LifeInv, RunInv, [Next]_vars PROVE RunInv'
  OBVIOUS
<1>2. CASE \E w \in Writers : Write(w) \/ WriterStep(w)
  <2>1. PICK w \in Writers : Write(w) \/ WriterStep(w)
    BY <1>2
  <2>2. CASE Write(w)
    BY <1>1, <2>2 DEF Write, TypeOK, LifeInv, RunInv, Looping, modVars,
       writerVars, timerVars, threadVars, history
  <2>3. CASE CheckLive(w)
    BY <1>1, <2>3 DEF CheckLive, Return, TypeOK, LifeInv, RunInv, Looping,
       modVars, writerVars, timerVars, threadVars, history
  <2>4. CASE RejectValue(w)
    BY <1>1, <2>4 DEF RejectValue, Return, TypeOK, LifeInv, RunInv, Looping,
       modVars, writerVars, timerVars, threadVars, history
  <2>5. CASE SetEnabled(w)
    BY <1>1, <2>5 DEF SetEnabled, Return, TypeOK, LifeInv, RunInv, Looping,
       modVars, writerVars, timerVars, threadVars, history
  <2>6. CASE StartTimer(w)
    BY <1>1, <2>6 DEF StartTimer, Return, TypeOK, LifeInv, RunInv, Looping,
       modVars, writerVars, timerVars, threadVars, history
  <2>. QED
    BY <2>1, <2>2, <2>3, <2>4, <2>5, <2>6 DEF WriterStep
<1>3. CASE TimerStep
  <2>1. CASE Expire
    BY <1>1, <2>1 DEF Expire, TypeOK, LifeInv, RunInv, Looping, modVars,
       writerVars, timerVars, threadVars, history
  <2>2. CASE WakeThread
    BY <1>1, <2>2 DEF WakeThread, TypeOK, LifeInv, RunInv, Looping, modVars,
       writerVars, timerVars, threadVars, history
  <2>3. CASE DecideRestart
    BY <1>1, <2>3 DEF DecideRestart, TypeOK, LifeInv, RunInv, Looping,
       modVars, writerVars, timerVars, threadVars, history
  <2>4. CASE Restart
    BY <1>1, <2>4 DEF Restart, TypeOK, LifeInv, RunInv, Looping, modVars,
       writerVars, timerVars, threadVars, history
  <2>. QED
    BY <1>3, <2>1, <2>2, <2>3, <2>4 DEF TimerStep
<1>4. CASE ThreadStep
  <2>1. CASE Begin
    BY <1>1, <2>1 DEF Begin, TypeOK, LifeInv, RunInv, Looping, modVars,
       writerVars, timerVars, threadVars, history
  <2>2. CASE PrepareToSleep
    BY <1>1, <2>2 DEF PrepareToSleep, TypeOK, LifeInv, RunInv, Looping,
       modVars, writerVars, timerVars, threadVars, history
  <2>3. CASE CheckDisabled
    BY <1>1, <2>3 DEF CheckDisabled, TypeOK, LifeInv, RunInv, Looping,
       modVars, writerVars, timerVars, threadVars, history
  <2>4. CASE EndRun
    BY <1>1, <2>4 DEF EndRun, MarkEnd, TypeOK, LifeInv, RunInv, Looping,
       modVars, writerVars, timerVars, threadVars, history
  <2>5. CASE CheckStop
    BY <1>1, <2>5 DEF CheckStop, MarkEnd, TypeOK, LifeInv, RunInv, Looping,
       modVars, writerVars, timerVars, threadVars, history
  <2>6. CASE WakeUp
    BY <1>1, <2>6 DEF WakeUp, TypeOK, LifeInv, RunInv, Looping, modVars,
       writerVars, timerVars, threadVars, history
  <2>7. CASE CheckEnabled
    BY <1>1, <2>7 DEF CheckEnabled, TypeOK, LifeInv, RunInv, Looping, modVars,
       writerVars, timerVars, threadVars, history
  <2>8. CASE StartRun
    BY <1>1, <2>8 DEF StartRun, TypeOK, LifeInv, RunInv, Looping, modVars,
       writerVars, timerVars, threadVars, history
  <2>9. CASE BeginIteration
    BY <1>1, <2>9 DEF BeginIteration, TypeOK, LifeInv, RunInv, Looping,
       modVars, writerVars, timerVars, threadVars, history
  <2>10. CASE FinishIteration
    BY <1>1, <2>10 DEF FinishIteration, TypeOK, LifeInv, RunInv, Looping,
       modVars, writerVars, timerVars, threadVars, history
  <2>. QED
    BY <1>4, <2>1, <2>2, <2>3, <2>4, <2>5, <2>6, <2>7, <2>8, <2>9, <2>10 DEF
       ThreadStep
<1>5. CASE Insmod \/ InitFails \/ InitModule \/ Rmmod
  <2>1. CASE Insmod
    BY <1>1, <2>1 DEF Insmod, TypeOK, LifeInv, RunInv, Looping, modVars,
       writerVars, timerVars, threadVars, history
  <2>2. CASE InitFails
    BY <1>1, <2>2 DEF InitFails, TypeOK, LifeInv, RunInv, Looping, modVars,
       writerVars, timerVars, threadVars, history
  <2>3. CASE InitModule
    BY <1>1, <2>3 DEF InitModule, TypeOK, LifeInv, RunInv, Looping, modVars,
       writerVars, timerVars, threadVars, history
  <2>4. CASE Rmmod
    BY <1>1, <2>4 DEF Rmmod, TypeOK, LifeInv, RunInv, Looping, modVars,
       writerVars, timerVars, threadVars, history
  <2>. QED
    BY <1>5, <2>1, <2>2, <2>3, <2>4
<1>6. CASE UnloadStep
  <2>1. CASE CancelTimer
    BY <1>1, <2>1 DEF CancelTimer, TypeOK, LifeInv, RunInv, Looping, modVars,
       writerVars, timerVars, threadVars, history
  <2>2. CASE StopThread
    BY <1>1, <2>2 DEF StopThread, TypeOK, LifeInv, RunInv, Looping, modVars,
       writerVars, timerVars, threadVars, history
  <2>3. CASE JoinThread
    BY <1>1, <2>3 DEF JoinThread, TypeOK, LifeInv, RunInv, Looping, modVars,
       writerVars, timerVars, threadVars, history
  <2>4. CASE CloseFiles
    BY <1>1, <2>4 DEF CloseFiles, TypeOK, LifeInv, RunInv, Looping, modVars,
       writerVars, timerVars, threadVars, history
  <2>5. CASE FreeModule
    BY <1>1, <2>5 DEF FreeModule, TypeOK, LifeInv, RunInv, Looping, modVars,
       writerVars, timerVars, threadVars, history
  <2>. QED
    BY <1>6, <2>1, <2>2, <2>3, <2>4, <2>5 DEF UnloadStep
<1>7. CASE UNCHANGED vars
  BY <1>1, <1>7 DEF vars, TypeOK, LifeInv, RunInv, Looping, modVars,
     writerVars, timerVars, threadVars, history
<1>. QED
  BY <1>1, <1>2, <1>3, <1>4, <1>5, <1>6, <1>7 DEF Next, Environment

\* A late iteration uses up a wake-up that was due when the flag went down.
LEMMA CountInvStep == TypeOK /\ WriterInv /\ LifeInv /\ RunInv /\ CountInv /\ [Next]_vars => CountInv'
<1>1. SUFFICES ASSUME TypeOK, WriterInv, LifeInv, RunInv, CountInv, [Next]_vars PROVE CountInv'
  OBVIOUS
<1>2. CASE \E w \in Writers : Write(w) \/ WriterStep(w)
  <2>1. PICK w \in Writers : Write(w) \/ WriterStep(w)
    BY <1>2
  <2>2. CASE Write(w)
    BY <1>1, <2>2 DEF Write, TypeOK, WriterInv, LifeInv, RunInv, Looping,
       CountInv, Due, ThreadDue, One, modVars, writerVars, timerVars,
       threadVars, history
  <2>3. CASE CheckLive(w)
    BY <1>1, <2>3 DEF CheckLive, Return, TypeOK, WriterInv, LifeInv, RunInv,
       Looping, CountInv, Due, ThreadDue, One, modVars, writerVars, timerVars,
       threadVars, history
  <2>4. CASE RejectValue(w)
    BY <1>1, <2>4 DEF RejectValue, Return, TypeOK, WriterInv, LifeInv, RunInv,
       Looping, CountInv, Due, ThreadDue, One, modVars, writerVars, timerVars,
       threadVars, history
  <2>5. CASE SetEnabled(w)
    BY <1>1, <2>5 DEF SetEnabled, Return, TypeOK, WriterInv, LifeInv, RunInv,
       Looping, CountInv, Due, ThreadDue, One, modVars, writerVars, timerVars,
       threadVars, history
  <2>6. CASE StartTimer(w)
    BY <1>1, <2>6 DEF StartTimer, Return, TypeOK, WriterInv, LifeInv, RunInv,
       Looping, CountInv, Due, ThreadDue, One, modVars, writerVars, timerVars,
       threadVars, history
  <2>. QED
    BY <2>1, <2>2, <2>3, <2>4, <2>5, <2>6 DEF WriterStep
<1>3. CASE TimerStep
  <2>1. CASE Expire
    BY <1>1, <2>1 DEF Expire, TypeOK, WriterInv, LifeInv, RunInv, Looping,
       CountInv, Due, ThreadDue, One, modVars, writerVars, timerVars,
       threadVars, history
  <2>2. CASE WakeThread
    BY <1>1, <2>2 DEF WakeThread, TypeOK, WriterInv, LifeInv, RunInv, Looping,
       CountInv, Due, ThreadDue, One, modVars, writerVars, timerVars,
       threadVars, history
  <2>3. CASE DecideRestart
    BY <1>1, <2>3 DEF DecideRestart, TypeOK, WriterInv, LifeInv, RunInv,
       Looping, CountInv, Due, ThreadDue, One, modVars, writerVars, timerVars,
       threadVars, history
  <2>4. CASE Restart
    BY <1>1, <2>4 DEF Restart, TypeOK, WriterInv, LifeInv, RunInv, Looping,
       CountInv, Due, ThreadDue, One, modVars, writerVars, timerVars,
       threadVars, history
  <2>. QED
    BY <1>3, <2>1, <2>2, <2>3, <2>4 DEF TimerStep
<1>4. CASE ThreadStep
  <2>1. CASE Begin
    BY <1>1, <2>1 DEF Begin, TypeOK, WriterInv, LifeInv, RunInv, Looping,
       CountInv, Due, ThreadDue, One, modVars, writerVars, timerVars,
       threadVars, history
  <2>2. CASE PrepareToSleep
    BY <1>1, <2>2 DEF PrepareToSleep, TypeOK, WriterInv, LifeInv, RunInv,
       Looping, CountInv, Due, ThreadDue, One, modVars, writerVars, timerVars,
       threadVars, history
  <2>3. CASE CheckDisabled
    BY <1>1, <2>3 DEF CheckDisabled, TypeOK, WriterInv, LifeInv, RunInv,
       Looping, CountInv, Due, ThreadDue, One, modVars, writerVars, timerVars,
       threadVars, history
  <2>4. CASE EndRun
    BY <1>1, <2>4 DEF EndRun, MarkEnd, TypeOK, WriterInv, LifeInv, RunInv,
       Looping, CountInv, Due, ThreadDue, One, modVars, writerVars, timerVars,
       threadVars, history
  <2>5. CASE CheckStop
    BY <1>1, <2>5 DEF CheckStop, MarkEnd, TypeOK, WriterInv, LifeInv, RunInv,
       Looping, CountInv, Due, ThreadDue, One, modVars, writerVars, timerVars,
       threadVars, history
  <2>6. CASE WakeUp
    BY <1>1, <2>6 DEF WakeUp, TypeOK, WriterInv, LifeInv, RunInv, Looping,
       CountInv, Due, ThreadDue, One, modVars, writerVars, timerVars,
       threadVars, history
  <2>7. CASE CheckEnabled
    BY <1>1, <2>7 DEF CheckEnabled, TypeOK, WriterInv, LifeInv, RunInv,
       Looping, CountInv, Due, ThreadDue, One, modVars, writerVars, timerVars,
       threadVars, history
  <2>8. CASE StartRun
    BY <1>1, <2>8 DEF StartRun, TypeOK, WriterInv, LifeInv, RunInv, Looping,
       CountInv, Due, ThreadDue, One, modVars, writerVars, timerVars,
       threadVars, history
  <2>9. CASE BeginIteration
    BY <1>1, <2>9 DEF BeginIteration, TypeOK, WriterInv, LifeInv, RunInv,
       Looping, CountInv, Due, ThreadDue, One, modVars, writerVars, timerVars,
       threadVars, history
  <2>10. CASE FinishIteration
    BY <1>1, <2>10 DEF FinishIteration, TypeOK, WriterInv, LifeInv, RunInv,
       Looping, CountInv, Due, ThreadDue, One, modVars, writerVars, timerVars,
       threadVars, history
  <2>. QED
    BY <1>4, <2>1, <2>2, <2>3, <2>4, <2>5, <2>6, <2>7, <2>8, <2>9, <2>10 DEF
       ThreadStep
<1>5. CASE Insmod \/ InitFails \/ InitModule \/ Rmmod
  <2>1. CASE Insmod
    BY <1>1, <2>1 DEF Insmod, TypeOK, WriterInv, LifeInv, RunInv, Looping,
       CountInv, Due, ThreadDue, One, modVars, writerVars, timerVars,
       threadVars, history
  <2>2. CASE InitFails
    BY <1>1, <2>2 DEF InitFails, TypeOK, WriterInv, LifeInv, RunInv, Looping,
       CountInv, Due, ThreadDue, One, modVars, writerVars, timerVars,
       threadVars, history
  <2>3. CASE InitModule
    BY <1>1, <2>3 DEF InitModule, TypeOK, WriterInv, LifeInv, RunInv, Looping,
       CountInv, Due, ThreadDue, One, modVars, writerVars, timerVars,
       threadVars, history
  <2>4. CASE Rmmod
    BY <1>1, <2>4 DEF Rmmod, TypeOK, WriterInv, LifeInv, RunInv, Looping,
       CountInv, Due, ThreadDue, One, modVars, writerVars, timerVars,
       threadVars, history
  <2>. QED
    BY <1>5, <2>1, <2>2, <2>3, <2>4
<1>6. CASE UnloadStep
  <2>1. CASE CancelTimer
    BY <1>1, <2>1 DEF CancelTimer, TypeOK, WriterInv, LifeInv, RunInv,
       Looping, CountInv, Due, ThreadDue, One, modVars, writerVars, timerVars,
       threadVars, history
  <2>2. CASE StopThread
    BY <1>1, <2>2 DEF StopThread, TypeOK, WriterInv, LifeInv, RunInv, Looping,
       CountInv, Due, ThreadDue, One, modVars, writerVars, timerVars,
       threadVars, history
  <2>3. CASE JoinThread
    BY <1>1, <2>3 DEF JoinThread, TypeOK, WriterInv, LifeInv, RunInv, Looping,
       CountInv, Due, ThreadDue, One, modVars, writerVars, timerVars,
       threadVars, history
  <2>4. CASE CloseFiles
    BY <1>1, <2>4 DEF CloseFiles, TypeOK, WriterInv, LifeInv, RunInv, Looping,
       CountInv, Due, ThreadDue, One, modVars, writerVars, timerVars,
       threadVars, history
  <2>5. CASE FreeModule
    BY <1>1, <2>5 DEF FreeModule, TypeOK, WriterInv, LifeInv, RunInv, Looping,
       CountInv, Due, ThreadDue, One, modVars, writerVars, timerVars,
       threadVars, history
  <2>. QED
    BY <1>6, <2>1, <2>2, <2>3, <2>4, <2>5 DEF UnloadStep
<1>7. CASE UNCHANGED vars
  BY <1>1, <1>7 DEF vars, TypeOK, WriterInv, LifeInv, RunInv, Looping,
     CountInv, Due, ThreadDue, One, modVars, writerVars, timerVars,
     threadVars, history
<1>. QED
  BY <1>1, <1>2, <1>3, <1>4, <1>5, <1>6, <1>7 DEF Next, Environment

-----------------------------------------------------------------------------
\* The inductive invariant holds of an absent module.
LEMMA IInvInit == Init => IInv
<1>1. SUFFICES ASSUME Init PROVE IInv
  OBVIOUS
<1>2. WriterTypes
  BY <1>1 DEF Init, WriterTypes, Values
<1>3. ScalarTypes
  BY <1>1, Places DEF Init, ScalarTypes
<1>4. WriterInv /\ TimerAlive /\ LifeInv /\ RunInv
  BY <1>1 DEF Init, WriterInv, TimerAlive, LifeInv, RunInv, Looping
<1>5. CountInv
  BY <1>1 DEF Init, CountInv, Due, ThreadDue, One
<1>. QED
  BY <1>2, <1>3, <1>4, <1>5, TypeHalves DEF IInv

\* Every step keeps the inductive invariant.
LEMMA IInvStep == IInv /\ [Next]_vars => IInv'
<1>1. SUFFICES ASSUME IInv, [Next]_vars PROVE IInv'
  OBVIOUS
<1>2. TypeOK'
  BY <1>1, TypeHalves, WriterTypeStep, ScalarTypeStep DEF IInv, TypeOK,
     WriterTypes, ScalarTypes, ModPlaces, CallbackPlaces, ThreadPlaces, Markers
<1>3. WriterInv' /\ TimerAlive'
  BY <1>1, TypeHalves, WriterInvStep, TimerAliveStep DEF IInv
<1>4. LifeInv' /\ RunInv' /\ CountInv'
  BY <1>1, LifeInvStep, RunInvStep, CountInvStep DEF IInv
<1>. QED
  BY <1>2, <1>3, <1>4 DEF IInv

\* The inductive invariant holds in every reachable state.
THEOREM Invariance == Spec => []IInv
  BY IInvInit, IInvStep, PTL DEF Spec

\* Every variable keeps its type, whatever the number of writers.
THEOREM TypeCorrect == Spec => []TypeOK
<1>1. IInv => TypeOK
  BY DEF IInv
<1>. QED
  BY <1>1, Invariance, PTL

\* An enabled module always has its timer enqueued, or somebody about to
\* enqueue it (module.c:150-161, 465-475).
THEOREM TimerNeverLost == Spec => []TimerAlive
<1>1. IInv => TimerAlive
  BY DEF IInv
<1>. QED
  BY <1>1, Invariance, PTL

\* At most three iterations, one of them in a run, begin after the flag went
\* down; one more if the thread is stopped (module.c:425-474).
THEOREM LateIterationsBounded == Spec => []LateBound
<1>1. IInv => LateBound
  BY DEF IInv, TypeOK, CountInv, LateBound, Due, One
<1>. QED
  BY <1>1, Invariance, PTL

\* No thread ends with its run open (module.c:429-433).
THEOREM ThreadClosesRun == Spec => []NoOpenRunLeft
<1>1. IInv => NoOpenRunLeft
  BY DEF IInv, RunInv, Looping, NoOpenRunLeft
<1>. QED
  BY <1>1, Invariance, PTL

\* Only a writer enqueues a cancelled timer, and it is then rearmed.
LEMMA QuietStep == IInv /\ QuietInv /\ [Next]_vars => QuietInv'
<1>1. SUFFICES ASSUME IInv, QuietInv, [Next]_vars PROVE QuietInv'
  OBVIOUS
<1>2. CASE \E w \in Writers : Write(w) \/ WriterStep(w)
  <2>1. PICK w \in Writers : Write(w) \/ WriterStep(w)
    BY <1>2
  <2>2. CASE Write(w)
    BY <1>1, <2>2 DEF Write, IInv, TypeOK, WriterInv, LifeInv, QuietInv,
       QuietAfterCancel, modVars, writerVars, timerVars, threadVars, history
  <2>3. CASE CheckLive(w)
    BY <1>1, <2>3 DEF CheckLive, Return, IInv, TypeOK, WriterInv, LifeInv,
       QuietInv, QuietAfterCancel, modVars, writerVars, timerVars, threadVars,
       history
  <2>4. CASE RejectValue(w)
    BY <1>1, <2>4 DEF RejectValue, Return, IInv, TypeOK, WriterInv, LifeInv,
       QuietInv, QuietAfterCancel, modVars, writerVars, timerVars, threadVars,
       history
  <2>5. CASE SetEnabled(w)
    BY <1>1, <2>5 DEF SetEnabled, Return, IInv, TypeOK, WriterInv, LifeInv,
       QuietInv, QuietAfterCancel, modVars, writerVars, timerVars, threadVars,
       history
  <2>6. CASE StartTimer(w)
    BY <1>1, <2>6 DEF StartTimer, Return, IInv, TypeOK, WriterInv, LifeInv,
       QuietInv, QuietAfterCancel, modVars, writerVars, timerVars, threadVars,
       history
  <2>. QED
    BY <2>1, <2>2, <2>3, <2>4, <2>5, <2>6 DEF WriterStep
<1>3. CASE TimerStep
  <2>1. CASE Expire
    BY <1>1, <2>1 DEF Expire, IInv, TypeOK, WriterInv, LifeInv, QuietInv,
       QuietAfterCancel, modVars, writerVars, timerVars, threadVars, history
  <2>2. CASE WakeThread
    BY <1>1, <2>2 DEF WakeThread, IInv, TypeOK, WriterInv, LifeInv, QuietInv,
       QuietAfterCancel, modVars, writerVars, timerVars, threadVars, history
  <2>3. CASE DecideRestart
    BY <1>1, <2>3 DEF DecideRestart, IInv, TypeOK, WriterInv, LifeInv,
       QuietInv, QuietAfterCancel, modVars, writerVars, timerVars, threadVars,
       history
  <2>4. CASE Restart
    BY <1>1, <2>4 DEF Restart, IInv, TypeOK, WriterInv, LifeInv, QuietInv,
       QuietAfterCancel, modVars, writerVars, timerVars, threadVars, history
  <2>. QED
    BY <1>3, <2>1, <2>2, <2>3, <2>4 DEF TimerStep
<1>4. CASE ThreadStep
  <2>1. CASE Begin
    BY <1>1, <2>1 DEF Begin, IInv, TypeOK, WriterInv, LifeInv, QuietInv,
       QuietAfterCancel, modVars, writerVars, timerVars, threadVars, history
  <2>2. CASE PrepareToSleep
    BY <1>1, <2>2 DEF PrepareToSleep, IInv, TypeOK, WriterInv, LifeInv,
       QuietInv, QuietAfterCancel, modVars, writerVars, timerVars, threadVars,
       history
  <2>3. CASE CheckDisabled
    BY <1>1, <2>3 DEF CheckDisabled, IInv, TypeOK, WriterInv, LifeInv,
       QuietInv, QuietAfterCancel, modVars, writerVars, timerVars, threadVars,
       history
  <2>4. CASE EndRun
    BY <1>1, <2>4 DEF EndRun, MarkEnd, IInv, TypeOK, WriterInv, LifeInv,
       QuietInv, QuietAfterCancel, modVars, writerVars, timerVars, threadVars,
       history
  <2>5. CASE CheckStop
    BY <1>1, <2>5 DEF CheckStop, MarkEnd, IInv, TypeOK, WriterInv, LifeInv,
       QuietInv, QuietAfterCancel, modVars, writerVars, timerVars, threadVars,
       history
  <2>6. CASE WakeUp
    BY <1>1, <2>6 DEF WakeUp, IInv, TypeOK, WriterInv, LifeInv, QuietInv,
       QuietAfterCancel, modVars, writerVars, timerVars, threadVars, history
  <2>7. CASE CheckEnabled
    BY <1>1, <2>7 DEF CheckEnabled, IInv, TypeOK, WriterInv, LifeInv,
       QuietInv, QuietAfterCancel, modVars, writerVars, timerVars, threadVars,
       history
  <2>8. CASE StartRun
    BY <1>1, <2>8 DEF StartRun, IInv, TypeOK, WriterInv, LifeInv, QuietInv,
       QuietAfterCancel, modVars, writerVars, timerVars, threadVars, history
  <2>9. CASE BeginIteration
    BY <1>1, <2>9 DEF BeginIteration, IInv, TypeOK, WriterInv, LifeInv,
       QuietInv, QuietAfterCancel, modVars, writerVars, timerVars, threadVars,
       history
  <2>10. CASE FinishIteration
    BY <1>1, <2>10 DEF FinishIteration, IInv, TypeOK, WriterInv, LifeInv,
       QuietInv, QuietAfterCancel, modVars, writerVars, timerVars, threadVars,
       history
  <2>. QED
    BY <1>4, <2>1, <2>2, <2>3, <2>4, <2>5, <2>6, <2>7, <2>8, <2>9, <2>10 DEF
       ThreadStep
<1>5. CASE Insmod \/ InitFails \/ InitModule \/ Rmmod
  <2>1. CASE Insmod
    BY <1>1, <2>1 DEF Insmod, IInv, TypeOK, WriterInv, LifeInv, QuietInv,
       QuietAfterCancel, modVars, writerVars, timerVars, threadVars, history
  <2>2. CASE InitFails
    BY <1>1, <2>2 DEF InitFails, IInv, TypeOK, WriterInv, LifeInv, QuietInv,
       QuietAfterCancel, modVars, writerVars, timerVars, threadVars, history
  <2>3. CASE InitModule
    BY <1>1, <2>3 DEF InitModule, IInv, TypeOK, WriterInv, LifeInv, QuietInv,
       QuietAfterCancel, modVars, writerVars, timerVars, threadVars, history
  <2>4. CASE Rmmod
    BY <1>1, <2>4 DEF Rmmod, IInv, TypeOK, WriterInv, LifeInv, QuietInv,
       QuietAfterCancel, modVars, writerVars, timerVars, threadVars, history
  <2>. QED
    BY <1>5, <2>1, <2>2, <2>3, <2>4
<1>6. CASE UnloadStep
  <2>1. CASE CancelTimer
    BY <1>1, <2>1 DEF CancelTimer, IInv, TypeOK, WriterInv, LifeInv, QuietInv,
       QuietAfterCancel, modVars, writerVars, timerVars, threadVars, history
  <2>2. CASE StopThread
    BY <1>1, <2>2 DEF StopThread, IInv, TypeOK, WriterInv, LifeInv, QuietInv,
       QuietAfterCancel, modVars, writerVars, timerVars, threadVars, history
  <2>3. CASE JoinThread
    BY <1>1, <2>3 DEF JoinThread, IInv, TypeOK, WriterInv, LifeInv, QuietInv,
       QuietAfterCancel, modVars, writerVars, timerVars, threadVars, history
  <2>4. CASE CloseFiles
    BY <1>1, <2>4 DEF CloseFiles, IInv, TypeOK, WriterInv, LifeInv, QuietInv,
       QuietAfterCancel, modVars, writerVars, timerVars, threadVars, history
  <2>5. CASE FreeModule
    BY <1>1, <2>5 DEF FreeModule, IInv, TypeOK, WriterInv, LifeInv, QuietInv,
       QuietAfterCancel, modVars, writerVars, timerVars, threadVars, history
  <2>. QED
    BY <1>6, <2>1, <2>2, <2>3, <2>4, <2>5 DEF UnloadStep
<1>7. CASE UNCHANGED vars
  BY <1>1, <1>7 DEF vars, IInv, TypeOK, WriterInv, LifeInv, QuietInv,
     QuietAfterCancel, modVars, writerVars, timerVars, threadVars, history
<1>. QED
  BY <1>1, <1>2, <1>3, <1>4, <1>5, <1>6, <1>7 DEF Next, Environment

\* The timer stays off once it has been cancelled, no freed code runs and no
\* ended thread is woken, unless a writer past the check of module.c:149
\* starts the timer after the return of hrtimer_cancel (module.c:547-550).
THEOREM QuietUnload == Spec => []QuietAfterCancel
<1>1. Init => QuietInv
  BY DEF Init, QuietInv, QuietAfterCancel
<1>2. IInv /\ QuietInv /\ [Next]_vars => QuietInv'
  BY QuietStep
<1>3. QuietInv => QuietAfterCancel
  BY DEF QuietInv
<1>. QED
  BY <1>1, <1>2, <1>3, Invariance, PTL DEF Spec

-----------------------------------------------------------------------------
(* The detailed module implements the promise of MeasurementRuns.          *)

\* An absent module has traced nothing.
LEMMA RunsInit == Init => Runs!Init
  BY DEF Init, Runs!Init

\* Every step is one of MeasurementRuns, or changes no marker and no request.
LEMMA RunsStep == IInv /\ [Next]_vars => [Runs!Next]_(Runs!vars)
<1>. DEFINE Same == UNCHANGED <<run, asked, ceased>>
<1>1. SUFFICES ASSUME IInv, [Next]_vars PROVE Runs!Next \/ Same
  BY DEF Runs!vars
<1>2. ASSUME NEW w \in Writers, SetEnabled(w)
      PROVE  Runs!Next \/ Same
  <2>1. CASE ~enabled /\ enabled'
    BY <1>1, <1>2, <2>1 DEF SetEnabled, Runs!Next, Runs!RequestMeasure,
       IInv, TypeOK
  <2>2. CASE enabled /\ ~enabled'
    BY <1>1, <1>2, <2>2 DEF SetEnabled, Runs!Next, Runs!RequestCease,
       IInv, TypeOK
  <2>3. CASE enabled = enabled'
    BY <1>1, <1>2, <2>3 DEF SetEnabled, IInv, TypeOK
  <2>. QED
    BY <1>1, <1>2, <2>1, <2>2, <2>3 DEF SetEnabled, IInv, TypeOK
<1>3. ASSUME EndRun PROVE Runs!EndMarker
  BY <1>1, <1>3 DEF EndRun, MarkEnd, Runs!EndMarker, IInv, TypeOK, RunInv,
     Looping
<1>4. ASSUME CheckStop PROVE Runs!EndMarker \/ Same
  <2>1. CASE shouldStop /\ wasEnabled
    BY <1>1, <1>4, <2>1 DEF CheckStop, MarkEnd, Runs!EndMarker, IInv, TypeOK,
       RunInv, Looping
  <2>2. CASE ~(shouldStop /\ wasEnabled)
    BY <1>4, <2>2 DEF CheckStop, history
  <2>. QED
    BY <2>1, <2>2
<1>5. ASSUME StartRun PROVE Runs!StartMarker
  BY <1>1, <1>5 DEF StartRun, Runs!StartMarker, IInv, TypeOK, RunInv, Looping
<1>6. ASSUME BeginIteration PROVE Runs!Iteration \/ Same
  BY <1>1, <1>6 DEF BeginIteration, Runs!Iteration, IInv, TypeOK
<1>7. ASSUME Insmod PROVE Runs!NewInstance
  BY <1>1, <1>7 DEF Insmod, Runs!NewInstance, IInv, LifeInv, RunInv, Looping
<1>8. ASSUME StopThread PROVE Runs!RequestCease
  BY <1>1, <1>8 DEF StopThread, Runs!RequestCease
<1>9. ASSUME NEW w \in Writers, Write(w) \/ CheckLive(w) \/ RejectValue(w)
                                  \/ StartTimer(w)
      PROVE  Same
  BY <1>9 DEF Write, CheckLive, RejectValue, StartTimer, history
<1>10. ASSUME TimerStep PROVE Same
  BY <1>10 DEF TimerStep, Expire, WakeThread, DecideRestart, Restart, history
<1>11. ASSUME Begin \/ PrepareToSleep \/ CheckDisabled \/ WakeUp
              \/ CheckEnabled \/ FinishIteration
       PROVE  Same
  BY <1>11 DEF Begin, PrepareToSleep, CheckDisabled, WakeUp, CheckEnabled,
     FinishIteration, history
<1>12. ASSUME InitFails \/ InitModule \/ Rmmod \/ CancelTimer \/ JoinThread
              \/ CloseFiles \/ FreeModule
       PROVE  Same
  BY <1>12 DEF InitFails, InitModule, Rmmod, CancelTimer, JoinThread,
     CloseFiles, FreeModule, history
<1>13. CASE UNCHANGED vars
  BY <1>13 DEF vars, history
<1>. QED
  BY <1>1, <1>2, <1>3, <1>4, <1>5, <1>6, <1>7, <1>8, <1>9, <1>10, <1>11,
     <1>12, <1>13
     DEF Next, Environment, WriterStep, ThreadStep, UnloadStep, Runs!Next

\* The trace of the module is a succession of measurement runs: the markers
\* alternate, each answers a request of its own, no run is empty and none is
\* left open when the module goes (module.c:418-463).
THEOREM ImplementsRuns == Spec => RunProtocol
  BY RunsInit, RunsStep, Invariance, PTL DEF Spec, RunProtocol, Runs!Spec
=============================================================================
