--------------------------- MODULE FrameLogProofs ---------------------------
(***************************************************************************)
(* Proofs about the frame limiter, for any target, any work between frames *)
(* and any number of processes, and about the ioctl that traces frames,    *)
(* for any number of threads in it.                                        *)
(***************************************************************************)
EXTENDS FrameLog, InductionLemmas

\* Rounding down to whole microseconds takes less than one off.
LEMMA SleepBounds ==
    ASSUME NEW dur \in Nat
    PROVE  /\ Sleep(dur) \in Nat
           /\ Sleep(dur) + dur + MicroSec > Target
<1>1. CASE dur < Target
  <2> DEFINE d == Target - dur
  <2>1. d \in Nat /\ d % MicroSec \in 0 .. (MicroSec - 1) /\ d % MicroSec <= d
    BY <1>1, LimiterAssumption
  <2>2. Sleep(dur) = d - (d % MicroSec)
    BY <1>1 DEF Sleep
  <2> QED
    BY <2>1, <2>2, LimiterAssumption
<1>2. CASE ~(dur < Target)
  BY <1>2, LimiterAssumption DEF Sleep
<1> QED
  BY <1>1, <1>2

\* The sleep in force is the one the last period asked for.
LimiterInv ==
    /\ LimiterTypeOK
    /\ \A a \in Apps : periods[a] > 0 => req_sleep_dur[a] = Sleep(prev_frame_dur[a])
    /\ LimiterPairs

LEMMA LimiterInitInv == LimiterInit => LimiterInv
BY DEF LimiterInit, LimiterInv, LimiterTypeOK, LimiterPairs

LEMMA LimiterStepInv == LimiterInv /\ [LimiterNext]_limiterVars => LimiterInv'
<1> SUFFICES ASSUME LimiterInv, [LimiterNext]_limiterVars
             PROVE  LimiterInv'
  OBVIOUS
<1>1. ASSUME NEW a \in Apps, FirstFrame(a)
      PROVE  LimiterInv'
  BY <1>1 DEF LimiterInv, LimiterTypeOK, LimiterPairs, FirstFrame
<1>2. ASSUME NEW a \in Apps, NEW slept \in Nat, NEW work \in Nat, LaterFrame(a, slept, work)
      PROVE  LimiterInv'
  <2> DEFINE dur == Elapsed(a, slept, work)
             whole == slept = req_sleep_dur[a]
  <2>1. dur \in Nat /\ (whole => dur >= req_sleep_dur[a])
    BY DEF LimiterInv, LimiterTypeOK, Elapsed
  <2>2. Sleep(dur) \in Nat
    BY <2>1, SleepBounds
  <2>3. periods' = [periods EXCEPT ![a] = IF whole THEN IF @ < 2 THEN @ + 1 ELSE 2 ELSE 1]
    <3>1. slept < req_sleep_dur[a] <=> ~whole
      BY <1>2 DEF LimiterInv, LimiterTypeOK, LaterFrame
    <3>2. CASE whole
      BY <1>2, <3>1, <3>2 DEF LaterFrame
    <3>3. CASE ~whole
      BY <1>2, <3>1, <3>3 DEF LaterFrame
    <3> QED
      BY <3>2, <3>3
  <2>4. LimiterTypeOK'
    BY <1>2, <2>1, <2>2, <2>3 DEF LimiterInv, LimiterTypeOK, LaterFrame
  <2>5. \A b \in Apps : periods'[b] > 0 => req_sleep_dur'[b] = Sleep(prev_frame_dur'[b])
    BY <1>2, <2>3 DEF LimiterInv, LimiterTypeOK, LaterFrame
  <2>6. whole /\ periods[a] > 0 => prev_frame_dur[a] + dur + MicroSec > Target
    <3>1. prev_frame_dur[a] \in Nat
      BY DEF LimiterInv, LimiterTypeOK
    <3>2. Sleep(prev_frame_dur[a]) + prev_frame_dur[a] + MicroSec > Target
      BY <3>1, SleepBounds
    <3>3. Sleep(prev_frame_dur[a]) \in Nat
      BY <3>1, SleepBounds
    <3> QED
      BY <2>1, <3>1, <3>2, <3>3, LimiterAssumption DEF LimiterInv
  <2>7. LimiterPairs'
    <3>1. periods'[a] = 2 => whole /\ periods[a] > 0
      BY <2>3 DEF LimiterInv, LimiterTypeOK
    <3> QED
      BY <1>2, <2>3, <2>6, <3>1 DEF LimiterInv, LimiterTypeOK, LimiterPairs, LaterFrame
  <2> QED
    BY <2>4, <2>5, <2>7 DEF LimiterInv
<1>3. CASE UNCHANGED limiterVars
  BY <1>3 DEF limiterVars, LimiterInv, LimiterTypeOK, LimiterPairs
<1> QED
  BY <1>1, <1>2, <1>3 DEF LimiterNext

\* Every step of the frame log is a step of the limiter or leaves it alone.
LEMMA LogStepIsLimiterStep == [Next]_vars => [LimiterNext]_limiterVars
<1>1. ASSUME NEW a \in Apps, SwapBuffers(a)
      PROVE  LimiterNext
  <2>1. CASE FirstFrame(a)
    BY <2>1 DEF LimiterNext
  <2>2. ASSUME NEW work \in Works, NEW slept, LaterFrame(a, slept, work)
        PROVE  LimiterNext
    <3>1. slept \in Nat /\ work \in Nat
      BY <2>2, FrameLogAssumption DEF LaterFrame
    <3> QED
      BY <2>2, <3>1 DEF LimiterNext
  <2> QED
    BY <1>1, <2>1, <2>2 DEF SwapBuffers
<1>2. \A f \in Frames : LogFrame(f) => UNCHANGED limiterVars
  BY DEF LogFrame, Open, Store, Ioctl, CopyTs, CopyPeriod, ReadPeriod, Trace, Close
<1> QED
  BY <1>1, <1>2 DEF Next, Load, Unload, vars

\* Any two frame periods in a row, but those with a sleep between them that a
\* signal cut short, are together no shorter than the target less a
\* microsecond, for every target and however long frames take.
THEOREM LimiterHolds == Spec => []LimiterPairs
<1>1. Init => LimiterInv
  BY LimiterInitInv DEF Init
<1>2. LimiterInv /\ [Next]_vars => LimiterInv'
  BY LogStepIsLimiterStep, LimiterStepInv
<1>3. LimiterInv => LimiterPairs
  BY DEF LimiterInv
<1> QED
  BY <1>1, <1>2, <1>3, PTL DEF Spec

\* The frames drawn, logged or not, are those of the limiter: neither a thread
\* that logs nor the module's device has a part in the time of a frame.
THEOREM ImplementsLimiter == Spec => LimiterSpec
<1>1. Init => LimiterInit
  BY DEF Init
<1> QED
  BY <1>1, LogStepIsLimiterStep, PTL DEF Spec, LimiterSpec

-----------------------------------------------------------------------------
(* The ioctl.                                                              *)

\* Descriptors, without the reason why there is always a free one.
Fds == Nat \cup {Min(S) : S \in SUBSET (1 .. MaxFrames)}

Lines == {"open", "store", "ioctl", "close", "done"} \cup InKernel
Thread == [app : Apps, pc : Lines, fd : Fds, period : Nat, shared : BOOLEAN, raced : BOOLEAN]
AnyWords == [ts : Nat, period : Nat]

\* Lines before the ioctl, after it, and those at which the frame's time is in
\* the static buffer or should be.
Before == {"open", "store", "ioctl"}
After == {"close", "done"}
Copied == {"copy_period", "read_period", "trace"}

LogType ==
    /\ loggers \in Seq(Thread)
    /\ IOctl_fd \in [Apps -> Fds]
    /\ table \in [Apps -> SUBSET Fds]
    /\ lf \in AnyWords
    /\ trace \in Seq(AnyWords)
    /\ device \in BOOLEAN

\* Without the module nothing is open and nobody is in the ioctl.
DeviceInv ==
    ~device =>
        /\ \A a \in Apps : table[a] = {}
        /\ \A f \in Frames : loggers[f].pc \notin InKernel

\* Frames that are in the ioctl together know it, others were never there.
RacedInv ==
    /\ \A f, g \in Frames :
           f # g /\ loggers[f].pc \in InKernel /\ loggers[g].pc \in InKernel => loggers[f].raced
    /\ \A f \in Frames : loggers[f].pc \in Before => ~loggers[f].raced

\* Word w that the thread of f is about to read is that of f, or of a frame
\* with which f shared the ioctl.
FromShared(f, w) ==
    /\ w \in Frames
    /\ w # f => loggers[f].raced /\ loggers[w].raced

BufferInv ==
    \A f \in Frames :
        /\ loggers[f].pc \in Copied => FromShared(f, lf.ts)
        /\ loggers[f].pc = "read_period" => FromShared(f, lf.period)
        /\ loggers[f].pc = "trace" => FromShared(f, loggers[f].period)

\* A record of a frame whose own thread has yet to trace it is another's.
TraceInv ==
    /\ MixedOnlyByRace
    /\ \A i \in 1 .. Len(trace) :
           loggers[trace[i].ts].pc \notin After => loggers[trace[i].ts].raced

RaceInv == LogType /\ DeviceInv /\ RacedInv /\ BufferInv /\ TraceInv

LEMMA RaceInit == Init => RaceInv
BY DEF Init, RaceInv, LogType, DeviceInv, RacedInv, BufferInv, TraceInv, MixedOnlyByRace,
       AnyWords, Fds, Frames

LEMMA ThreadType ==
    ASSUME LogType, NEW f \in Frames
    PROVE  loggers[f] \in Thread /\ loggers[f].app \in Apps /\ loggers[f].pc \in Lines
<1>1. loggers[f] \in Thread
  BY DEF LogType, Frames
<1> QED
  BY <1>1 DEF Thread

\* A thread that goes on one line changes nothing else of its own.
LEMMA GotoFacts ==
    ASSUME LogType, NEW f \in Frames, NEW from, NEW to \in Lines, Goto(f, from, to)
    PROVE  /\ loggers[f].pc = from
           /\ loggers' \in Seq(Thread)
           /\ Frames' = Frames
           /\ \A g \in Frames : g # f => loggers'[g] = loggers[g]
           /\ loggers'[f].pc = to
           /\ loggers'[f].raced = loggers[f].raced
           /\ loggers'[f].period = loggers[f].period
<1>1. loggers[f] \in Thread
  BY ThreadType
<1>2. [loggers[f] EXCEPT !.pc = to] \in Thread
  BY <1>1 DEF Thread
<1>3. loggers' = [loggers EXCEPT ![f] = [loggers[f] EXCEPT !.pc = to]]
  BY DEF Goto
<1>4. loggers' \in Seq(Thread) /\ Len(loggers') = Len(loggers)
  BY <1>2, <1>3 DEF LogType, Frames
<1>5. loggers'[f] = [loggers[f] EXCEPT !.pc = to] /\ \A g \in Frames : g # f => loggers'[g] = loggers[g]
  BY <1>3 DEF LogType, Frames
<1>6. /\ loggers'[f].pc = to
      /\ loggers'[f].raced = loggers[f].raced
      /\ loggers'[f].period = loggers[f].period
  BY <1>1, <1>5 DEF Thread
<1> QED
  BY <1>4, <1>5, <1>6 DEF Goto, Frames

\* Outside the ioctl a thread may go anywhere but back.
LEMMA OutsideKeeps ==
    ASSUME RaceInv, NEW f \in Frames, NEW to \in Lines \ InKernel,
           UNCHANGED <<lf, trace>>,
           Frames' = Frames,
           \A g \in Frames : g # f => loggers'[g] = loggers[g],
           loggers'[f].pc = to, loggers'[f].raced = loggers[f].raced,
           loggers[f].pc \notin InKernel \cup After,
           to \in Before \/ to \in After
    PROVE  (RacedInv /\ BufferInv /\ TraceInv)'
<1>1. \A g \in Frames : loggers'[g].raced = loggers[g].raced
  OBVIOUS
<1>2. \A g \in Frames : loggers'[g].pc \in InKernel => g # f /\ loggers'[g] = loggers[g]
  OBVIOUS
<1>3. RacedInv'
  <2>1. loggers[f].pc \in Before
    BY ThreadType DEF RaceInv, Lines, Before, After
  <2> QED
    BY <1>1, <1>2, <2>1 DEF RaceInv, RacedInv
<1>4. BufferInv'
  BY <1>1, <1>2 DEF RaceInv, BufferInv, FromShared, Copied, InKernel
<1>5. TraceInv'
  <2>1. MixedOnlyByRace'
    BY <1>1 DEF RaceInv, TraceInv, MixedOnlyByRace
  <2>2. ASSUME NEW i \in 1 .. Len(trace), loggers'[trace[i].ts].pc \notin After
        PROVE  loggers'[trace[i].ts].raced
    <3>1. trace[i].ts \in Frames
      BY DEF RaceInv, TraceInv, MixedOnlyByRace
    <3>2. loggers[trace[i].ts].pc \notin After
      BY <2>2, <3>1
    <3> QED
      BY <1>1, <3>1, <3>2 DEF RaceInv, TraceInv
  <2> QED
    BY <2>1, <2>2 DEF TraceInv
<1> QED
  BY <1>3, <1>4, <1>5

LEMMA OpenKeeps ==
    ASSUME RaceInv, NEW f \in Frames, Open(f)
    PROVE  RaceInv'
<1> DEFINE a == loggers[f].app
           fd == IF device THEN Min((1 .. MaxFrames) \ table[a]) ELSE 0
           l == [loggers[f] EXCEPT !.pc = "store", !.fd = fd]
<1>1. loggers[f] \in Thread /\ a \in Apps
  BY ThreadType DEF RaceInv
<1>2. fd \in Fds
  <2>1. (1 .. MaxFrames) \ table[a] \in SUBSET (1 .. MaxFrames)
    OBVIOUS
  <2> QED
    BY <2>1 DEF Fds
<1> HIDE DEF fd
<1>3. l \in Thread /\ l.pc = "store" /\ l.raced = loggers[f].raced
  BY <1>1, <1>2 DEF Thread, Lines
<1>4. loggers' = [loggers EXCEPT ![f] = l]
  BY DEF Open, fd
<1> HIDE DEF l
<1>5. loggers' \in Seq(Thread) /\ Frames' = Frames
  BY <1>3, <1>4 DEF RaceInv, LogType, Frames
<1>6. loggers'[f] = l /\ \A g \in Frames : g # f => loggers'[g] = loggers[g]
  BY <1>4 DEF RaceInv, LogType, Frames
<1>7. table' = [table EXCEPT ![a] = @ \cup ({fd} \ {0})]
  BY DEF Open, fd
<1>8. LogType'
  BY <1>1, <1>2, <1>5, <1>7 DEF Open, RaceInv, LogType
<1>9. DeviceInv'
  <2>1. ASSUME ~device
        PROVE  \A b \in Apps : table'[b] = {}
    <3>1. fd = 0
      BY <2>1 DEF fd
    <3> QED
      BY <1>1, <1>7, <2>1, <3>1 DEF RaceInv, LogType, DeviceInv
  <2>2. \A g \in Frames : loggers'[g].pc \in InKernel => loggers[g].pc \in InKernel
    BY <1>3, <1>6 DEF InKernel
  <2> QED
    BY <1>5, <2>1, <2>2 DEF Open, RaceInv, DeviceInv
<1>10. (RacedInv /\ BufferInv /\ TraceInv)'
  BY <1>3, <1>5, <1>6, OutsideKeeps DEF Open, Lines, InKernel, Before, After
<1> QED
  BY <1>8, <1>9, <1>10 DEF RaceInv

LEMMA StoreKeeps ==
    ASSUME RaceInv, NEW f \in Frames, Store(f)
    PROVE  RaceInv'
<1>1. LogType /\ Goto(f, "store", "ioctl") /\ "ioctl" \in Lines
  BY DEF RaceInv, Store, Lines
<1>2. loggers[f] \in Thread
  BY <1>1, ThreadType
<1>3. LogType'
  BY <1>1, <1>2, GotoFacts DEF Store, LogType, Thread
<1>4. DeviceInv'
  BY <1>1, GotoFacts DEF Store, RaceInv, DeviceInv, InKernel
<1>5. (RacedInv /\ BufferInv /\ TraceInv)'
  BY <1>1, GotoFacts, OutsideKeeps DEF Store, InKernel, Before, After
<1> QED
  BY <1>3, <1>4, <1>5 DEF RaceInv

LEMMA CloseKeeps ==
    ASSUME RaceInv, NEW f \in Frames, Close(f)
    PROVE  RaceInv'
<1>1. LogType /\ Goto(f, "close", "done") /\ "done" \in Lines
  BY DEF RaceInv, Close, Lines
<1>2. loggers[f].app \in Apps
  BY <1>1, ThreadType
<1>3. LogType'
  BY <1>1, <1>2, GotoFacts DEF Close, LogType
<1>4. DeviceInv'
  BY <1>1, <1>2, GotoFacts DEF Close, RaceInv, LogType, DeviceInv, InKernel
<1>5. \A g \in Frames : loggers'[g].raced = loggers[g].raced
  BY <1>1, GotoFacts
<1>6. \A g \in Frames : loggers'[g].pc \in InKernel \cup Before => g # f /\ loggers'[g] = loggers[g]
  BY <1>1, GotoFacts DEF InKernel, Before
<1>7. RacedInv'
  BY <1>1, <1>5, <1>6, GotoFacts DEF RaceInv, RacedInv
<1>8. BufferInv'
  BY <1>1, <1>5, <1>6, GotoFacts DEF Close, RaceInv, BufferInv, FromShared, Copied, InKernel
<1>9. TraceInv'
  BY <1>1, <1>5, GotoFacts, SMTT(30) DEF Close, RaceInv, TraceInv, MixedOnlyByRace, After
<1> QED
  BY <1>3, <1>4, <1>7, <1>8, <1>9 DEF RaceInv

\* A thread that enters the ioctl marks those it meets there, and itself.
LEMMA EnterKeeps ==
    ASSUME RaceInv, NEW f \in Frames, loggers[f].pc = "ioctl", Enter(f),
           table[loggers[f].app] # {},
           UNCHANGED <<IOctl_fd, lf, table, trace, device>>
    PROVE  RaceInv'
<1> DEFINE to(g) == IF g = f THEN "copy_ts" ELSE loggers[g].pc
           met(g) == loggers[g].raced \/ (g \in InIoctl \cup {f} /\ InIoctl # {})
           l(g) == [loggers[g] EXCEPT !.pc = to(g), !.raced = met(g)]
<1>1. ASSUME NEW g \in Frames
      PROVE  l(g) \in Thread /\ l(g).pc = to(g) /\ l(g).period = loggers[g].period
             /\ l(g).raced = met(g)
  <2>1. loggers[g] \in Thread /\ loggers[g].pc \in Lines
    BY ThreadType DEF RaceInv
  <2>2. to(g) \in Lines
    BY <2>1 DEF Lines, InKernel
  <2>3. met(g) \in BOOLEAN
    BY <2>1 DEF Thread
  <2> HIDE DEF to, met
  <2> QED
    BY <2>1, <2>2, <2>3 DEF Thread
<1>2. loggers' = [g \in Frames |-> l(g)]
  BY DEF Enter
<1> HIDE DEF l
<1>3. loggers' \in Seq(Thread) /\ Len(loggers') = Len(loggers)
  <2>1. Len(loggers) \in Nat
    BY DEF RaceInv, LogType
  <2>2. loggers' = [g \in 1 .. Len(loggers) |-> l(g)]
    BY <1>2 DEF Frames
  <2>3. \A g \in 1 .. Len(loggers) : l(g) \in Thread
    BY <1>1 DEF Frames
  <2> HIDE DEF RaceInv
  <2> QED
    BY <2>1, <2>2, <2>3
<1>4. Frames' = Frames /\ \A g \in Frames : loggers'[g] = l(g)
  BY <1>2, <1>3 DEF Frames
<1>5. \A g \in Frames :
          /\ loggers'[g].pc = to(g)
          /\ loggers'[g].period = loggers[g].period
          /\ loggers'[g].raced = met(g)
  BY <1>1, <1>4
<1>6. LogType'
  BY <1>3 DEF RaceInv, LogType
<1>7. device
  <2>1. loggers[f].app \in Apps
    BY ThreadType DEF RaceInv
  <2> QED
    BY <2>1 DEF RaceInv, DeviceInv
<1>8. DeviceInv'
  BY <1>7 DEF DeviceInv
<1>9. ~loggers[f].raced
  BY DEF RaceInv, RacedInv, Before
<1>10. RacedInv'
  <2>1. ASSUME NEW g \in Frames, NEW h \in Frames, g # h,
               loggers'[g].pc \in InKernel, loggers'[h].pc \in InKernel
        PROVE  loggers'[g].raced
    <3>1. CASE g = f
      <4>1. h \in InIoctl
        BY <1>5, <2>1, <3>1 DEF InIoctl
      <4> QED
        BY <1>5, <3>1, <4>1
    <3>2. CASE g # f
      <4>1. g \in InIoctl
        BY <1>5, <2>1, <3>2 DEF InIoctl
      <4> QED
        BY <1>5, <4>1
    <3> QED
      BY <3>1, <3>2
  <2>2. ASSUME NEW g \in Frames, loggers'[g].pc \in Before
        PROVE  ~loggers'[g].raced
    <3>1. g # f
      BY <1>5, <2>2 DEF Before
    <3>2. loggers[g].pc \in Before
      BY <1>5, <2>2, <3>1
    <3>3. g \notin InIoctl
      BY <3>2 DEF Before, InKernel, InIoctl
    <3> QED
      BY <1>5, <3>1, <3>2, <3>3 DEF RaceInv, RacedInv
  <2> QED
    BY <1>4, <2>1, <2>2 DEF RacedInv
<1>11. \A g \in Frames : loggers[g].raced => loggers'[g].raced
  BY <1>5
<1>12. BufferInv'
  <2>1. ASSUME NEW g \in Frames, NEW w, FromShared(g, w)
        PROVE  FromShared(g, w)'
    BY <1>4, <1>11, <2>1 DEF FromShared
  <2>2. \A g \in Frames : loggers'[g].pc \in Copied => loggers'[g].pc = loggers[g].pc
    BY <1>5 DEF Copied
  <2>3. ASSUME NEW g \in Frames
        PROVE  /\ loggers'[g].pc \in Copied => FromShared(g, lf.ts)'
               /\ loggers'[g].pc = "read_period" => FromShared(g, lf.period)'
               /\ loggers'[g].pc = "trace" => FromShared(g, loggers[g].period)'
    <3>1. CASE loggers'[g].pc \in Copied
      <4>1. loggers'[g].pc = loggers[g].pc /\ loggers'[g].period = loggers[g].period
        BY <1>5, <2>2, <3>1
      <4> QED
        BY <1>4, <1>11, <3>1, <4>1 DEF RaceInv, BufferInv, FromShared
    <3>2. CASE loggers'[g].pc \notin Copied
      BY <3>2 DEF Copied
    <3> QED
      BY <3>1, <3>2
  <2> QED
    BY <1>4, <2>3 DEF BufferInv
<1>13. TraceInv'
  <2>1. MixedOnlyByRace'
    BY <1>4, <1>11 DEF RaceInv, TraceInv, MixedOnlyByRace
  <2>2. ASSUME NEW i \in 1 .. Len(trace), loggers'[trace[i].ts].pc \notin After
        PROVE  loggers'[trace[i].ts].raced
    <3>1. trace[i].ts \in Frames
      BY DEF RaceInv, TraceInv, MixedOnlyByRace
    <3>2. loggers[trace[i].ts].pc \notin After
      BY <1>5, <2>2, <3>1 DEF After
    <3> QED
      BY <1>11, <3>1, <3>2 DEF RaceInv, TraceInv
  <2> QED
    BY <2>1, <2>2 DEF TraceInv
<1> QED
  BY <1>6, <1>8, <1>10, <1>12, <1>13 DEF RaceInv

LEMMA IoctlKeeps ==
    ASSUME RaceInv, NEW f \in Frames, Ioctl(f)
    PROVE  RaceInv'
<1>1. PICK fd \in {loggers[f].fd, IOctl_fd[loggers[f].app]} :
           IF Usable(fd) /\ fd \in table[loggers[f].app]
           THEN Enter(f) ELSE Goto(f, "ioctl", "close")
  BY DEF Ioctl
<1>2. loggers[f].pc = "ioctl" /\ UNCHANGED <<IOctl_fd, lf, table, trace, device>>
  BY DEF Ioctl
<1>3. CASE Usable(fd) /\ fd \in table[loggers[f].app]
  BY <1>1, <1>2, <1>3, EnterKeeps
<1>4. CASE ~(Usable(fd) /\ fd \in table[loggers[f].app])
  <2>1. LogType /\ Goto(f, "ioctl", "close") /\ "close" \in Lines
    BY <1>1, <1>4 DEF RaceInv, Lines
  <2>2. LogType'
    BY <1>2, <2>1, GotoFacts DEF LogType
  <2>3. DeviceInv'
    BY <1>2, <2>1, GotoFacts DEF RaceInv, DeviceInv, InKernel
  <2>4. (RacedInv /\ BufferInv /\ TraceInv)'
    BY <1>2, <2>1, GotoFacts, OutsideKeeps DEF InKernel, Before, After
  <2> QED
    BY <2>2, <2>3, <2>4 DEF RaceInv
<1> QED
  BY <1>3, <1>4

\* A step inside the ioctl, or out of it: what is left to see to is the buffer
\* and the trace.
LEMMA InsideKeeps ==
    ASSUME RaceInv, NEW f \in Frames, loggers[f].pc \in InKernel,
           NEW to \in InKernel \cup After,
           loggers' \in Seq(Thread), Frames' = Frames,
           \A g \in Frames : g # f => loggers'[g] = loggers[g],
           loggers'[f].pc = to, loggers'[f].raced = loggers[f].raced,
           lf' \in AnyWords, trace' \in Seq(AnyWords),
           UNCHANGED <<IOctl_fd, table, device>>
    PROVE  (LogType /\ DeviceInv /\ RacedInv)'
<1>1. LogType'
  BY DEF RaceInv, LogType
<1>2. device
  BY DEF RaceInv, DeviceInv
<1>3. DeviceInv'
  BY <1>2 DEF DeviceInv
<1>4. \A g \in Frames : loggers'[g].raced = loggers[g].raced
  OBVIOUS
<1>5. \A g \in Frames : loggers'[g].pc \in InKernel => loggers[g].pc \in InKernel
  OBVIOUS
<1>6. \A g \in Frames : loggers'[g].pc \in Before => g # f
  BY DEF InKernel, Before, After
<1>7. RacedInv'
  BY <1>4, <1>5, <1>6 DEF RaceInv, RacedInv
<1> QED
  BY <1>1, <1>3, <1>7

\* With every frame still marked as it was, so are those in the trace.
LEMMA TraceKept ==
    ASSUME RaceInv, NEW f \in Frames, Frames' = Frames, trace' = trace,
           \A g \in Frames : g # f => loggers'[g] = loggers[g],
           loggers'[f].raced = loggers[f].raced,
           loggers[f].pc \notin After
    PROVE  TraceInv'
<1>1. \A g \in Frames : loggers'[g].raced = loggers[g].raced
  OBVIOUS
<1>2. MixedOnlyByRace'
  BY <1>1 DEF RaceInv, TraceInv, MixedOnlyByRace
<1>3. ASSUME NEW i \in 1 .. Len(trace), loggers'[trace[i].ts].pc \notin After
      PROVE  loggers'[trace[i].ts].raced
  <2>1. trace[i].ts \in Frames
    BY DEF RaceInv, TraceInv, MixedOnlyByRace
  <2>2. loggers[trace[i].ts].pc \notin After
    BY <1>3, <2>1
  <2> QED
    BY <1>1, <2>1, <2>2 DEF RaceInv, TraceInv
<1> QED
  BY <1>2, <1>3 DEF TraceInv

LEMMA CopyTsKeeps ==
    ASSUME RaceInv, NEW f \in Frames, CopyTs(f)
    PROVE  RaceInv'
<1>1. LogType /\ Goto(f, "copy_ts", "copy_period") /\ "copy_period" \in Lines /\ f \in Nat
  BY DEF RaceInv, CopyTs, Lines, InKernel, Frames
<1>2. lf' = [lf EXCEPT !.ts = f] /\ UNCHANGED <<IOctl_fd, table, trace, device>>
  BY DEF CopyTs
<1>3. lf' \in AnyWords /\ lf'.ts = f /\ lf'.period = lf.period
  BY <1>1, <1>2 DEF LogType, AnyWords
<1>4. trace' \in Seq(AnyWords)
  BY <1>1, <1>2 DEF LogType
<1>5. (LogType /\ DeviceInv /\ RacedInv)'
  BY <1>1, <1>2, <1>3, <1>4, GotoFacts, InsideKeeps DEF InKernel
<1>6. \A g \in Frames : loggers'[g].raced = loggers[g].raced
  BY <1>1, GotoFacts
<1>7. BufferInv'
  <2>1. ASSUME NEW g \in Frames, g # f, loggers[g].pc \in Copied
        PROVE  loggers[g].raced /\ loggers[f].raced
    BY <1>1, <2>1 DEF RaceInv, RacedInv, Goto, Copied, InKernel
  <2>2. \A g \in Frames : loggers'[g].pc \in Copied => FromShared(g, lf.ts)'
    BY <1>1, <1>3, <1>6, <2>1, GotoFacts DEF FromShared
  <2>3. \A g \in Frames : loggers'[g].pc \in {"read_period", "trace"} => g # f /\ loggers'[g] = loggers[g]
    BY <1>1, GotoFacts
  <2>4. Frames' = Frames
    BY <1>1, GotoFacts
  <2>5. \A g \in Frames : loggers'[g].pc = "read_period" => FromShared(g, lf.period)'
    BY <1>3, <1>6, <2>3, <2>4 DEF RaceInv, BufferInv, FromShared
  <2>6. \A g \in Frames : loggers'[g].pc = "trace" => FromShared(g, loggers[g].period)'
    BY <1>6, <2>3, <2>4 DEF RaceInv, BufferInv, FromShared
  <2> QED
    BY <2>2, <2>4, <2>5, <2>6 DEF BufferInv
<1>8. TraceInv'
  BY <1>1, <1>2, GotoFacts, TraceKept DEF After
<1> QED
  BY <1>5, <1>7, <1>8 DEF RaceInv

LEMMA CopyPeriodKeeps ==
    ASSUME RaceInv, NEW f \in Frames, CopyPeriod(f)
    PROVE  RaceInv'
<1>1. LogType /\ Goto(f, "copy_period", "read_period") /\ "read_period" \in Lines /\ f \in Nat
  BY DEF RaceInv, CopyPeriod, Lines, InKernel, Frames
<1>2. lf' = [lf EXCEPT !.period = f] /\ UNCHANGED <<IOctl_fd, table, trace, device>>
  BY DEF CopyPeriod
<1>3. lf' \in AnyWords /\ lf'.period = f /\ lf'.ts = lf.ts
  BY <1>1, <1>2 DEF LogType, AnyWords
<1>4. trace' \in Seq(AnyWords)
  BY <1>1, <1>2 DEF LogType
<1>5. (LogType /\ DeviceInv /\ RacedInv)'
  BY <1>1, <1>2, <1>3, <1>4, GotoFacts, InsideKeeps DEF InKernel
<1>6. \A g \in Frames : loggers'[g].raced = loggers[g].raced
  BY <1>1, GotoFacts
<1>7. BufferInv'
  <2>1. ASSUME NEW g \in Frames, g # f, loggers[g].pc = "read_period"
        PROVE  loggers[g].raced /\ loggers[f].raced
    BY <1>1, <2>1 DEF RaceInv, RacedInv, Goto, InKernel
  <2>2. \A g \in Frames : loggers'[g].pc = "read_period" => FromShared(g, lf.period)'
    BY <1>1, <1>3, <1>6, <2>1, GotoFacts DEF FromShared
  <2>3. \A g \in Frames : loggers'[g].pc \in Copied => loggers[g].pc \in Copied
    BY <1>1, GotoFacts DEF Goto, Copied
  <2>4. \A g \in Frames : loggers'[g].pc = "trace" => loggers'[g] = loggers[g]
    BY <1>1, GotoFacts, ZenonT(30)
  <2>5. Frames' = Frames
    BY <1>1, GotoFacts
  <2>6. \A g \in Frames : loggers'[g].pc \in Copied => FromShared(g, lf.ts)'
    BY <1>3, <1>6, <2>3, <2>5 DEF RaceInv, BufferInv, FromShared
  <2>7. \A g \in Frames : loggers'[g].pc = "trace" => FromShared(g, loggers[g].period)'
    BY <1>6, <2>4, <2>5 DEF RaceInv, BufferInv, FromShared
  <2> QED
    BY <2>2, <2>5, <2>6, <2>7 DEF BufferInv
<1>8. TraceInv'
  BY <1>1, <1>2, GotoFacts, TraceKept DEF After
<1> QED
  BY <1>5, <1>7, <1>8 DEF RaceInv

LEMMA ReadPeriodKeeps ==
    ASSUME RaceInv, NEW f \in Frames, ReadPeriod(f)
    PROVE  RaceInv'
<1> DEFINE l == [loggers[f] EXCEPT !.pc = "trace", !.period = lf.period]
<1>1. LogType /\ loggers[f] \in Thread /\ lf.period \in Nat
  BY ThreadType DEF RaceInv, LogType, AnyWords
<1>2. l \in Thread /\ l.pc = "trace" /\ l.period = lf.period /\ l.raced = loggers[f].raced
  BY <1>1 DEF Thread, Lines, InKernel
<1>3. /\ loggers[f].pc = "read_period" /\ loggers' = [loggers EXCEPT ![f] = l]
      /\ UNCHANGED <<IOctl_fd, lf, table, trace, device>>
  BY DEF ReadPeriod
<1> HIDE DEF l
<1>4. loggers' \in Seq(Thread) /\ Frames' = Frames
  BY <1>1, <1>2, <1>3 DEF LogType, Frames
<1>5. loggers'[f] = l /\ \A g \in Frames : g # f => loggers'[g] = loggers[g]
  BY <1>1, <1>3 DEF LogType, Frames
<1>6. (LogType /\ DeviceInv /\ RacedInv)'
  BY <1>1, <1>2, <1>3, <1>4, <1>5, InsideKeeps DEF LogType, InKernel
<1>7. \A g \in Frames : loggers'[g].raced = loggers[g].raced
  BY <1>2, <1>5
<1>8. BufferInv'
  <2>1. FromShared(f, lf.ts) /\ FromShared(f, lf.period)
    BY <1>3 DEF RaceInv, BufferInv, Copied
  <2> QED
    BY <1>2, <1>3, <1>4, <1>5, <1>7, <2>1 DEF RaceInv, BufferInv, FromShared
<1>9. TraceInv'
  BY <1>2, <1>3, <1>4, <1>5, TraceKept DEF After
<1> QED
  BY <1>6, <1>8, <1>9 DEF RaceInv

LEMMA TraceKeeps ==
    ASSUME RaceInv, NEW f \in Frames, Trace(f)
    PROVE  RaceInv'
<1> DEFINE r == [ts |-> lf.ts, period |-> loggers[f].period]
<1>1. LogType /\ Goto(f, "trace", "close") /\ "close" \in Lines
  BY DEF RaceInv, Trace, Lines
<1>2. trace' = Append(trace, r) /\ UNCHANGED <<IOctl_fd, lf, table, device>>
  BY DEF Trace
<1>3. r \in AnyWords
  <2>1. loggers[f] \in Thread
    BY <1>1, ThreadType
  <2> QED
    BY <1>1, <2>1 DEF LogType, Thread, AnyWords
<1>4. FromShared(f, r.ts) /\ FromShared(f, r.period)
  BY <1>1 DEF RaceInv, BufferInv, Copied, Goto
<1> HIDE DEF r
<1>5. trace' \in Seq(AnyWords) /\ Len(trace') = Len(trace) + 1 /\ trace'[Len(trace) + 1] = r
      /\ \A i \in 1 .. Len(trace) : trace'[i] = trace[i]
  BY <1>1, <1>2, <1>3 DEF LogType
<1>6. (LogType /\ DeviceInv /\ RacedInv)'
  BY <1>1, <1>2, <1>5, GotoFacts, InsideKeeps, SMTT(30) DEF LogType, InKernel, After
<1>7. \A g \in Frames : loggers'[g].raced = loggers[g].raced
  BY <1>1, GotoFacts
<1>8. BufferInv'
  <2>1. \A g \in Frames : loggers'[g].pc \in Copied => loggers'[g] = loggers[g]
    BY <1>1, GotoFacts DEF Copied
  <2> QED
    BY <1>1, <1>2, <1>7, <2>1, GotoFacts DEF RaceInv, BufferInv, FromShared, Copied
<1>9. TraceInv'
  <2>1. Len(trace) \in Nat
    BY <1>1 DEF LogType
  <2>2. ASSUME NEW i \in 1 .. Len(trace')
        PROVE  /\ trace'[i].ts \in Frames /\ trace'[i].period \in Frames
               /\ trace'[i].ts # trace'[i].period =>
                      loggers[trace'[i].ts].raced /\ loggers[trace'[i].period].raced
    <3>1. CASE i = Len(trace) + 1
      BY <1>4, <1>5, <3>1 DEF FromShared
    <3>2. CASE i \in 1 .. Len(trace)
      BY <1>5, <3>2 DEF RaceInv, TraceInv, MixedOnlyByRace
    <3> QED
      BY <1>5, <2>1, <3>1, <3>2
  <2>3. ASSUME NEW i \in 1 .. Len(trace'), NEW j \in 1 .. i - 1, trace'[j].ts = trace'[i].ts
        PROVE  loggers[trace'[i].ts].raced
    <3>1. j \in 1 .. Len(trace) /\ trace'[j] = trace[j]
      BY <1>5, <2>1
    <3>2. CASE i = Len(trace) + 1
      <4>1. CASE r.ts = f
        BY <1>1, <1>5, <2>3, <3>1, <3>2, <4>1 DEF RaceInv, TraceInv, Goto, After
      <4>2. CASE r.ts # f
        BY <1>4, <1>5, <3>2, <4>2 DEF FromShared
      <4> QED
        BY <4>1, <4>2
    <3>3. CASE i \in 1 .. Len(trace)
      BY <1>5, <2>3, <3>1, <3>3 DEF RaceInv, TraceInv, MixedOnlyByRace
    <3> QED
      BY <1>5, <2>1, <3>2, <3>3
  <2>4. ASSUME NEW i \in 1 .. Len(trace'), loggers'[trace'[i].ts].pc \notin After
        PROVE  loggers'[trace'[i].ts].raced
    <3>1. trace'[i].ts \in Frames /\ trace'[i].ts # f
      BY <1>1, <2>2, <2>4, GotoFacts DEF After
    <3>2. CASE i = Len(trace) + 1
      BY <1>4, <1>5, <1>7, <3>1, <3>2 DEF FromShared
    <3>3. CASE i \in 1 .. Len(trace)
      <4>1. loggers[trace[i].ts].pc \notin After
        BY <1>1, <1>5, <2>4, <3>1, <3>3, GotoFacts
      <4> QED
        BY <1>5, <1>7, <3>1, <3>3, <4>1 DEF RaceInv, TraceInv
    <3> QED
      BY <1>5, <2>1, <3>2, <3>3
  <2>5. Frames' = Frames
    BY <1>1, GotoFacts
  <2>6. MixedOnlyByRace'
    BY <1>7, <2>2, <2>3, <2>5 DEF MixedOnlyByRace
  <2> QED
    BY <2>4, <2>6 DEF TraceInv
<1> QED
  BY <1>6, <1>8, <1>9 DEF RaceInv

\* A new thread is known to nobody.
LEMMA StartKeeps ==
    ASSUME RaceInv, NEW a \in Apps, StartThread(a),
           UNCHANGED <<IOctl_fd, table, lf, trace, device>>
    PROVE  RaceInv'
<1> DEFINE n == Len(loggers) + 1
           kept(f) == IF f \in Live(a) THEN [loggers[f] EXCEPT !.shared = TRUE] ELSE loggers[f]
<1>1. Len(loggers) \in Nat
  BY DEF RaceInv, LogType
<1>2. \A f \in Frames :
          /\ kept(f) \in Thread /\ kept(f).pc = loggers[f].pc
          /\ kept(f).raced = loggers[f].raced /\ kept(f).period = loggers[f].period
  <2>1. ASSUME NEW f \in Frames
        PROVE  /\ kept(f) \in Thread /\ kept(f).pc = loggers[f].pc
               /\ kept(f).raced = loggers[f].raced /\ kept(f).period = loggers[f].period
    <3>1. loggers[f] \in Thread
      BY ThreadType DEF RaceInv
    <3> QED
      BY <3>1 DEF Thread
  <2> QED
    BY <2>1
<1>3. PICK line \in {"open", "done"} :
          \/ loggers' = Append([f \in Frames |-> kept(f)], NewLogger(a, line))
          \/ loggers' = Append(loggers, NewLogger(a, line))
  BY DEF StartThread
<1>4. /\ NewLogger(a, line) \in Thread
      /\ NewLogger(a, line).pc = line /\ ~NewLogger(a, line).raced
  BY DEF NewLogger, Thread, Lines, Fds
<1> HIDE DEF kept
<1>5. [f \in Frames |-> kept(f)] \in Seq(Thread) /\ Len([f \in Frames |-> kept(f)]) = Len(loggers)
  <2>1. [f \in Frames |-> kept(f)] = [f \in 1 .. Len(loggers) |-> kept(f)]
    BY DEF Frames
  <2>2. \A f \in 1 .. Len(loggers) : kept(f) \in Thread
    BY <1>2 DEF Frames
  <2> QED
    BY <1>1, <2>1, <2>2
<1>6. loggers \in Seq(Thread)
  BY DEF RaceInv, LogType
<1>7. /\ loggers' \in Seq(Thread) /\ Len(loggers') = n /\ loggers'[n] = NewLogger(a, line)
      /\ \A f \in Frames : loggers'[f] \in {kept(f), loggers[f]}
  <2>1. CASE loggers' = Append([f \in Frames |-> kept(f)], NewLogger(a, line))
    BY <1>1, <1>4, <1>5, <2>1 DEF Frames
  <2>2. CASE loggers' = Append(loggers, NewLogger(a, line))
    BY <1>1, <1>4, <1>6, <2>2 DEF Frames
  <2> QED
    BY <1>3, <2>1, <2>2
<1>8. /\ Frames' = Frames \cup {n} /\ n \notin Frames
      /\ loggers'[n].pc = line /\ ~loggers'[n].raced
      /\ \A f \in Frames : /\ loggers'[f].pc = loggers[f].pc
                           /\ loggers'[f].raced = loggers[f].raced
                           /\ loggers'[f].period = loggers[f].period
  BY <1>1, <1>2, <1>4, <1>7 DEF Frames
<1>9. line \notin InKernel /\ line \notin Copied
  BY DEF InKernel, Copied
<1>10. LogType'
  BY <1>7 DEF RaceInv, LogType
<1>11. DeviceInv'
  BY <1>8, <1>9 DEF RaceInv, DeviceInv
<1>12. RacedInv'
  BY <1>8, <1>9 DEF RaceInv, RacedInv
<1>13. BufferInv'
  <2>1. ASSUME NEW f \in Frames', loggers'[f].pc \in Copied
        PROVE  f \in Frames /\ loggers'[f].period = loggers[f].period
    BY <1>8, <1>9, <2>1
  <2> QED
    BY <1>8, <2>1 DEF RaceInv, BufferInv, FromShared, Copied
<1>14. TraceInv'
  BY <1>8 DEF RaceInv, TraceInv, MixedOnlyByRace
<1> QED
  BY <1>10, <1>11, <1>12, <1>13, <1>14 DEF RaceInv

LEMMA SameKeeps ==
    ASSUME RaceInv, UNCHANGED <<loggers, IOctl_fd, table, lf, trace, device>>
    PROVE  RaceInv'
BY DEF RaceInv, LogType, DeviceInv, RacedInv, BufferInv, TraceInv, MixedOnlyByRace,
       FromShared, Frames

LEMMA LoadKeeps == RaceInv /\ Load => RaceInv'
<1> SUFFICES ASSUME RaceInv, Load
             PROVE  RaceInv'
  OBVIOUS
<1>1. \A f \in Frames : loggers[f].pc \notin InKernel
  BY DEF RaceInv, DeviceInv, Load
<1>2. LogType' /\ DeviceInv' /\ RacedInv' /\ TraceInv'
  BY DEF RaceInv, Load, LogType, AnyWords, DeviceInv, RacedInv, TraceInv, MixedOnlyByRace, Frames
<1>3. BufferInv'
  BY <1>1 DEF Load, BufferInv, Frames, Copied, InKernel
<1> QED
  BY <1>2, <1>3 DEF RaceInv

LEMMA UnloadKeeps == RaceInv /\ Unload => RaceInv'
BY ZenonT(30) DEF RaceInv, Unload, LogType, DeviceInv, RacedInv, BufferInv, TraceInv, MixedOnlyByRace,
       FromShared, Frames

LEMMA RaceStep == RaceInv /\ [Next]_vars => RaceInv'
<1> SUFFICES ASSUME RaceInv, [Next]_vars
             PROVE  RaceInv'
  OBVIOUS
<1>1. ASSUME NEW a \in Apps, SwapBuffers(a)
      PROVE  RaceInv'
  BY <1>1, StartKeeps, SameKeeps DEF SwapBuffers
<1>2. ASSUME NEW f \in Frames, LogFrame(f)
      PROVE  RaceInv'
  BY <1>2, OpenKeeps, StoreKeeps, IoctlKeeps, CopyTsKeeps, CopyPeriodKeeps,
     ReadPeriodKeeps, TraceKeeps, CloseKeeps DEF LogFrame
<1>3. CASE UNCHANGED vars
  BY <1>3, SameKeeps DEF vars
<1> QED
  BY <1>1, <1>2, <1>3, LoadKeeps, UnloadKeeps DEF Next

\* Frames are mixed up or doubled in the trace by threads that were in the
\* ioctl together, and by nothing else: for any number of processes and
\* frames, and however their threads share descriptors.
THEOREM FramesMixOnlyByRace == Spec => []MixedOnlyByRace
<1>1. RaceInv => MixedOnlyByRace
  BY DEF RaceInv, TraceInv
<1> QED
  BY <1>1, RaceInit, RaceStep, PTL DEF Spec

-----------------------------------------------------------------------------
(* The descriptors.                                                        *)

\* From the store on the static variable was written in the life of a thread.
Storing == {"ioctl", "close"} \cup InKernel

\* A thread of a that got descriptor d, and is alive or was disturbed.
Holder(f, a, d) ==
    /\ loggers[f].app = a /\ loggers[f].pc # "open" /\ loggers[f].fd = d
    /\ loggers[f].shared \/ loggers[f].pc # "done"

\* Two threads of a process that are alive know of it.
Together ==
    \A f, g \in Frames :
        /\ f # g /\ loggers[f].app = loggers[g].app
        /\ loggers[f].pc # "done" /\ loggers[g].pc # "done"
        => loggers[f].shared

\* Every open descriptor was opened by a thread that is alive or shared.
Opened == \A a \in Apps : \A d \in table[a] : \E f \in Frames : Holder(f, a, d)

\* The static variable holds a thread's own descriptor, or that of another
\* with which it shared the process.
Stored ==
    \A f \in Frames : loggers[f].pc \in Storing =>
        \E g \in Frames :
            /\ loggers[g].app = loggers[f].app /\ loggers[g].pc # "open"
            /\ loggers[g].fd = IOctl_fd[loggers[f].app]
            /\ g = f \/ (loggers[g].shared /\ loggers[f].shared)

\* The descriptor of an undisturbed thread stays open.
Own ==
    \A f \in Frames :
        /\ ~loggers[f].shared /\ loggers[f].pc \notin {"open", "done"} /\ loggers[f].fd # 0
        => loggers[f].fd \in table[loggers[f].app]

\* The descriptor of g is closed, or counts for another thread as well.
Spent(g, a) ==
    /\ loggers[g].app = a /\ loggers[g].shared /\ loggers[g].pc # "open"
    /\ \/ loggers[g].fd \notin table[a]
       \/ \E h \in Frames \ {g} : Holder(h, a, loggers[g].fd)

\* When the threads that shared a process have ended, one of them has left
\* nothing open.
Wasted ==
    \A s \in Frames : loggers[s].shared =>
        \/ \E f \in Frames : /\ loggers[f].app = loggers[s].app
                             /\ loggers[f].shared /\ loggers[f].pc # "done"
        \/ \E g \in Frames : Spent(g, loggers[s].app)

\* An undisturbed thread traces its frame if and only if it has opened the
\* device.
Traced ==
    \A f \in Frames : ~loggers[f].shared =>
        /\ loggers[f].pc \in InKernel => loggers[f].fd # 0
        /\ loggers[f].pc \in After /\ ~loggers[f].raced =>
               (loggers[f].fd # 0 <=> Records("ts", f) # {})

LogInv ==
    /\ RaceInv
    /\ LimiterInv
    /\ TypeOK
    /\ Len(loggers) <= MaxFrames
    /\ Together
    /\ Opened
    /\ Stored
    /\ Own
    /\ Wasted
    /\ Traced

\* What is known of a thread, and of its number.
LEMMA ThreadView ==
    ASSUME TypeOK, Len(loggers) <= MaxFrames
    PROVE  /\ Len(loggers) \in Nat /\ MaxFrames \in Nat
           /\ \A f \in Frames :
                  /\ loggers[f] \in Logger
                  /\ loggers[f].app \in Apps /\ loggers[f].pc \in Lines
                  /\ loggers[f].fd \in Nat /\ loggers[f].period \in 0 .. MaxFrames
                  /\ loggers[f].shared \in BOOLEAN /\ loggers[f].raced \in BOOLEAN
                  /\ f \in 0 .. MaxFrames
<1>1. Len(loggers) \in Nat /\ MaxFrames \in Nat
  BY FrameLogAssumption DEF TypeOK
<1>2. \A f \in Frames : loggers[f] \in Logger
  BY DEF TypeOK, Frames
<1>3. \A f \in Frames : f \in 0 .. MaxFrames
  BY <1>1 DEF Frames
<1> QED
  BY <1>1, <1>2, <1>3 DEF Logger, Lines

\* A thread that goes on one line: the rest of it stays, and so do the others.
LEMMA GotoView ==
    ASSUME TypeOK, NEW f \in Frames, NEW from, NEW to \in Lines, Goto(f, from, to)
    PROVE  /\ loggers' \in Seq(Logger) /\ Len(loggers') = Len(loggers) /\ Frames' = Frames
           /\ loggers[f].pc = from /\ loggers'[f].pc = to
           /\ \A g \in Frames :
                  /\ loggers'[g].app = loggers[g].app /\ loggers'[g].fd = loggers[g].fd
                  /\ loggers'[g].shared = loggers[g].shared
                  /\ loggers'[g].raced = loggers[g].raced
                  /\ g # f => loggers'[g] = loggers[g]
<1>1. loggers[f] \in Logger
  BY DEF TypeOK, Frames
<1> DEFINE l == [loggers[f] EXCEPT !.pc = to]
<1>2. /\ l \in Logger /\ l.pc = to /\ l.app = loggers[f].app /\ l.fd = loggers[f].fd
      /\ l.shared = loggers[f].shared /\ l.raced = loggers[f].raced
  BY <1>1 DEF Logger, Lines
<1>3. loggers' = [loggers EXCEPT ![f] = l]
  BY DEF Goto
<1> HIDE DEF l
<1>4. loggers' \in Seq(Logger) /\ Len(loggers') = Len(loggers) /\ Frames' = Frames
  BY <1>2, <1>3 DEF TypeOK, Frames
<1>5. loggers'[f] = l /\ \A g \in Frames : g # f => loggers'[g] = loggers[g]
  BY <1>3 DEF TypeOK, Frames
<1>6. loggers[f].pc = from
  BY DEF Goto
<1> QED
  BY <1>2, <1>4, <1>5, <1>6

\* A thread that sees neither open nor close, nor the static variable change,
\* leaves the descriptors as they were.
LEMMA DescriptorsSame ==
    ASSUME LogInv, Frames' = Frames, UNCHANGED <<IOctl_fd, table>>,
           \A g \in Frames :
               /\ loggers'[g].app = loggers[g].app /\ loggers'[g].fd = loggers[g].fd
               /\ loggers'[g].shared = loggers[g].shared
               /\ \/ loggers'[g].pc = loggers[g].pc
                  \/ loggers'[g].pc \in Storing /\ loggers[g].pc \in Storing
    PROVE  (Together /\ Opened /\ Stored /\ Own /\ Wasted)'
<1>1. /\ "open" \notin Storing /\ "done" \notin Storing
  BY DEF Storing, InKernel
<1>2. \A g \in Frames :
          /\ loggers'[g].pc = "open" <=> loggers[g].pc = "open"
          /\ loggers'[g].pc = "done" <=> loggers[g].pc = "done"
          /\ loggers'[g].pc \in Storing <=> loggers[g].pc \in Storing
  BY <1>1
<1>3. \A f \in Frames : \A a, d : Holder(f, a, d)' <=> Holder(f, a, d)
  BY <1>2 DEF Holder
<1>4. Together'
  BY <1>2 DEF LogInv, Together
<1>5. Opened'
  BY <1>3 DEF LogInv, Opened
<1>6. Stored'
  <2> SUFFICES ASSUME NEW f \in Frames, loggers'[f].pc \in Storing
               PROVE  \E g \in Frames :
                          /\ loggers'[g].app = loggers'[f].app /\ loggers'[g].pc # "open"
                          /\ loggers'[g].fd = IOctl_fd[loggers'[f].app]
                          /\ g = f \/ (loggers'[g].shared /\ loggers'[f].shared)
    BY DEF Stored
  <2>1. PICK g \in Frames :
            /\ loggers[g].app = loggers[f].app /\ loggers[g].pc # "open"
            /\ loggers[g].fd = IOctl_fd[loggers[f].app]
            /\ g = f \/ (loggers[g].shared /\ loggers[f].shared)
    BY <1>2 DEF LogInv, Stored
  <2> QED
    BY <1>2, <2>1
<1>7. Own'
  BY <1>2 DEF LogInv, Own
<1>8. \A g \in Frames : \A a : Spent(g, a)' <=> Spent(g, a)
  <2>1. TAKE g \in Frames
  <2>2. TAKE a
  <2>3. \A h \in Frames : Holder(h, a, loggers[g].fd)' <=> Holder(h, a, loggers[g].fd)
    BY <1>3
  <2>4. loggers'[g].fd = loggers[g].fd
    OBVIOUS
  <2>5. \A h \in Frames : loggers'[h].app = loggers[h].app /\ loggers'[h].fd = loggers[h].fd
                          /\ loggers'[h].shared = loggers[h].shared
    OBVIOUS
  <2> QED
    BY <1>2, <2>3, <2>4, <2>5 DEF Spent, Holder
<1>9. Wasted'
  BY <1>2, <1>8 DEF LogInv, Wasted
<1> QED
  BY <1>4, <1>5, <1>6, <1>7, <1>9

\* What the invariant becomes, but for the parts proved already.
LogRest ==
    /\ TypeOK
    /\ Len(loggers) <= MaxFrames
    /\ Together /\ Opened /\ Stored /\ Own /\ Wasted
    /\ Traced

\* An undisturbed frame is not in the trace before its thread has traced it.
LEMMA NotYetTraced ==
    ASSUME RaceInv, NEW f \in Frames, loggers[f].pc \notin After, ~loggers[f].raced
    PROVE  Records("ts", f) = {}
<1>1. \A i \in 1 .. Len(trace) : trace[i].ts # f
  BY DEF RaceInv, TraceInv
<1> QED
  BY <1>1 DEF Records

\* If the trace stays, so does what it has of the frames.
LEMMA TracedSame ==
    ASSUME LogInv, Frames' = Frames, trace' = trace,
           \A g \in Frames :
               /\ loggers'[g].fd = loggers[g].fd /\ loggers'[g].shared = loggers[g].shared
               /\ loggers[g].raced => loggers'[g].raced
               /\ \/ loggers'[g].pc = loggers[g].pc
                  \/ loggers'[g].pc \notin InKernel \cup After
                  \/ loggers'[g].pc \in InKernel /\ loggers[g].pc \in InKernel
                  \/ loggers'[g].pc \in After /\ loggers[g].pc \in After
    PROVE  Traced'
<1>1. \A g \in Frames : Records("ts", g)' = Records("ts", g)
  BY DEF Records
<1>2. InKernel \cap After = {}
  BY DEF InKernel, After
<1>3. ASSUME NEW f \in Frames, ~loggers'[f].shared
      PROVE  /\ loggers'[f].pc \in InKernel => loggers'[f].fd # 0
             /\ loggers'[f].pc \in After /\ ~loggers'[f].raced =>
                    (loggers'[f].fd # 0 <=> Records("ts", f)' # {})
  <2>1. /\ loggers[f].pc \in InKernel => loggers[f].fd # 0
        /\ loggers[f].pc \in After /\ ~loggers[f].raced =>
               (loggers[f].fd # 0 <=> Records("ts", f) # {})
    BY <1>3 DEF LogInv, Traced
  <2>2. /\ loggers'[f].pc \in InKernel => loggers[f].pc \in InKernel
        /\ loggers'[f].pc \in After => loggers[f].pc \in After
    BY <1>2
  <2>3. loggers'[f].fd = loggers[f].fd /\ (loggers[f].raced => loggers'[f].raced)
    OBVIOUS
  <2> QED
    BY <1>1, <2>1, <2>2, <2>3
<1> QED
  BY <1>3 DEF Traced

\* Copying the time of a frame.
LEMMA CopyTsRest ==
    ASSUME LogInv, NEW f \in Frames, CopyTs(f)
    PROVE  LogRest'
<1>1. /\ TypeOK /\ Len(loggers) <= MaxFrames
      /\ Goto(f, "copy_ts", "copy_period") /\ "copy_period" \in Lines
      /\ lf' = [lf EXCEPT !.ts = f] /\ UNCHANGED <<limiterVars, IOctl_fd, table, trace, device>>
  BY DEF LogInv, CopyTs, Lines, InKernel
<1>2. /\ loggers' \in Seq(Logger) /\ Len(loggers') = Len(loggers) /\ Frames' = Frames
      /\ loggers[f].pc = "copy_ts" /\ loggers'[f].pc = "copy_period"
      /\ \A g \in Frames :
             /\ loggers'[g].app = loggers[g].app /\ loggers'[g].fd = loggers[g].fd
             /\ loggers'[g].shared = loggers[g].shared
             /\ loggers'[g].raced = loggers[g].raced
             /\ g # f => loggers'[g] = loggers[g]
  BY <1>1, GotoView
<1>3. TypeOK'
  <2>1. lf' \in Words
    BY <1>1, ThreadView DEF TypeOK, Words
  <2> QED
    BY <1>1, <1>2, <2>1 DEF TypeOK, LimiterTypeOK, limiterVars
<1>4. (Together /\ Opened /\ Stored /\ Own /\ Wasted)'
  BY <1>1, <1>2, DescriptorsSame DEF Storing, InKernel
<1>5. Traced'
  BY <1>1, <1>2, TracedSame DEF InKernel
<1> QED
  BY <1>1, <1>2, <1>3, <1>4, <1>5 DEF LogRest

\* Copying its period.
LEMMA CopyPeriodRest ==
    ASSUME LogInv, NEW f \in Frames, CopyPeriod(f)
    PROVE  LogRest'
<1>1. /\ TypeOK /\ Len(loggers) <= MaxFrames
      /\ Goto(f, "copy_period", "read_period") /\ "read_period" \in Lines
      /\ lf' = [lf EXCEPT !.period = f] /\ UNCHANGED <<limiterVars, IOctl_fd, table, trace, device>>
  BY DEF LogInv, CopyPeriod, Lines, InKernel
<1>2. /\ loggers' \in Seq(Logger) /\ Len(loggers') = Len(loggers) /\ Frames' = Frames
      /\ loggers[f].pc = "copy_period" /\ loggers'[f].pc = "read_period"
      /\ \A g \in Frames :
             /\ loggers'[g].app = loggers[g].app /\ loggers'[g].fd = loggers[g].fd
             /\ loggers'[g].shared = loggers[g].shared
             /\ loggers'[g].raced = loggers[g].raced
             /\ g # f => loggers'[g] = loggers[g]
  BY <1>1, GotoView
<1>3. TypeOK'
  <2>1. lf' \in Words
    BY <1>1, ThreadView DEF TypeOK, Words
  <2> QED
    BY <1>1, <1>2, <2>1 DEF TypeOK, LimiterTypeOK, limiterVars
<1>4. (Together /\ Opened /\ Stored /\ Own /\ Wasted)'
  BY <1>1, <1>2, DescriptorsSame DEF Storing, InKernel
<1>5. Traced'
  BY <1>1, <1>2, TracedSame DEF InKernel
<1> QED
  BY <1>1, <1>2, <1>3, <1>4, <1>5 DEF LogRest

\* Reading the period for the record.
LEMMA ReadPeriodRest ==
    ASSUME LogInv, NEW f \in Frames, ReadPeriod(f)
    PROVE  LogRest'
<1> DEFINE l == [loggers[f] EXCEPT !.pc = "trace", !.period = lf.period]
<1>1. /\ TypeOK /\ Len(loggers) <= MaxFrames /\ loggers[f] \in Logger /\ lf.period \in 0 .. MaxFrames
      /\ loggers[f].pc = "read_period" /\ loggers' = [loggers EXCEPT ![f] = l]
      /\ UNCHANGED <<limiterVars, IOctl_fd, lf, table, trace, device>>
  BY ThreadView DEF LogInv, ReadPeriod, TypeOK, Words
<1>2. /\ l \in Logger /\ l.pc = "trace" /\ l.app = loggers[f].app /\ l.fd = loggers[f].fd
      /\ l.shared = loggers[f].shared /\ l.raced = loggers[f].raced
  BY <1>1 DEF Logger, InKernel
<1> HIDE DEF l
<1>3. loggers' \in Seq(Logger) /\ Len(loggers') = Len(loggers) /\ Frames' = Frames
  BY <1>1, <1>2 DEF TypeOK, Frames
<1>4. loggers'[f] = l /\ \A g \in Frames : g # f => loggers'[g] = loggers[g]
  BY <1>1 DEF TypeOK, Frames
<1>5. TypeOK'
  BY <1>1, <1>3 DEF TypeOK, LimiterTypeOK, limiterVars
<1>6. (Together /\ Opened /\ Stored /\ Own /\ Wasted)'
  BY <1>1, <1>2, <1>3, <1>4, DescriptorsSame DEF Storing, InKernel
<1>7. Traced'
  BY <1>1, <1>2, <1>3, <1>4, TracedSame DEF InKernel
<1> QED
  BY <1>1, <1>3, <1>5, <1>6, <1>7 DEF LogRest

\* Tracing the record: a frame whose thread had the ioctl for itself is the
\* one in the buffer.
LEMMA TraceRest ==
    ASSUME LogInv, NEW f \in Frames, Trace(f)
    PROVE  LogRest'
<1> DEFINE r == [ts |-> lf.ts, period |-> loggers[f].period]
<1>1. /\ TypeOK /\ Len(loggers) <= MaxFrames /\ RaceInv
      /\ Goto(f, "trace", "close") /\ "close" \in Lines
      /\ trace' = Append(trace, r) /\ UNCHANGED <<limiterVars, IOctl_fd, table, lf, device>>
  BY DEF LogInv, Trace, Lines
<1>2. /\ loggers' \in Seq(Logger) /\ Len(loggers') = Len(loggers) /\ Frames' = Frames
      /\ loggers[f].pc = "trace" /\ loggers'[f].pc = "close"
      /\ \A g \in Frames :
             /\ loggers'[g].app = loggers[g].app /\ loggers'[g].fd = loggers[g].fd
             /\ loggers'[g].shared = loggers[g].shared
             /\ loggers'[g].raced = loggers[g].raced
             /\ g # f => loggers'[g] = loggers[g]
  BY <1>1, GotoView
<1>3. r \in Words
  BY <1>1, ThreadView DEF TypeOK, Words
<1>4. FromShared(f, r.ts)
  BY <1>1, <1>2 DEF RaceInv, BufferInv, Copied
<1>5. trace \in Seq(Words)
  BY <1>1 DEF TypeOK
<1> HIDE DEF r
<1>6. /\ trace' \in Seq(Words) /\ Len(trace') = Len(trace) + 1 /\ Len(trace) \in Nat
      /\ trace'[Len(trace) + 1] = r
      /\ \A i \in 1 .. Len(trace) : trace'[i] = trace[i]
  BY <1>1, <1>3, <1>5
<1>7. TypeOK'
  BY <1>1, <1>2, <1>6 DEF TypeOK, LimiterTypeOK, limiterVars
<1>8. (Together /\ Opened /\ Stored /\ Own /\ Wasted)'
  BY <1>1, <1>2, DescriptorsSame DEF Storing, InKernel
<1>9. ASSUME NEW g \in Frames, ~loggers'[g].shared
      PROVE  /\ loggers'[g].pc \in InKernel => loggers'[g].fd # 0
             /\ loggers'[g].pc \in After /\ ~loggers'[g].raced =>
                    (loggers'[g].fd # 0 <=> Records("ts", g)' # {})
  <2>1. CASE g = f
    <3>1. loggers[f].fd # 0
      BY <1>2, <1>9, <2>1 DEF LogInv, Traced, InKernel
    <3>2. ASSUME ~loggers[f].raced
          PROVE  Records("ts", f)' # {}
      <4>1. r.ts = f
        BY <1>4, <3>2 DEF FromShared
      <4>2. Len(trace) + 1 \in Records("ts", f)'
        BY <1>6, <4>1 DEF Records
      <4> QED
        BY <4>2
    <3> QED
      BY <1>2, <2>1, <3>1, <3>2
  <2>2. CASE g # f
    <3>1. loggers'[g] = loggers[g]
      BY <1>2, <2>2
    <3>2. ASSUME ~loggers[g].raced
          PROVE  Records("ts", g)' = Records("ts", g)
      <4>1. r.ts # g
        BY <1>4, <2>2, <3>2 DEF FromShared
      <4>2. \A i : i \in Records("ts", g)' <=> i \in Records("ts", g)
        BY <1>6, <4>1 DEF Records
      <4> QED
        BY <4>2 DEF Records
    <3> QED
      BY <1>9, <3>1, <3>2 DEF LogInv, Traced
  <2> QED
    BY <2>1, <2>2
<1>10. Traced'
  BY <1>2, <1>9 DEF Traced
<1> QED
  BY <1>1, <1>2, <1>7, <1>8, <1>10 DEF LogRest

\* The ioctl: the descriptor of an undisturbed thread is its own and open, if
\* it got one.
LEMMA IoctlRest ==
    ASSUME LogInv, NEW f \in Frames, Ioctl(f)
    PROVE  LogRest'
<1>1. PICK fd \in {loggers[f].fd, IOctl_fd[loggers[f].app]} :
           IF Usable(fd) /\ fd \in table[loggers[f].app]
           THEN Enter(f) ELSE Goto(f, "ioctl", "close")
  BY DEF Ioctl
<1>2. /\ TypeOK /\ Len(loggers) <= MaxFrames /\ RaceInv /\ loggers[f].pc = "ioctl"
      /\ UNCHANGED <<limiterVars, IOctl_fd, lf, table, trace, device>>
  BY DEF LogInv, Ioctl
<1>3. ASSUME ~loggers[f].shared
      PROVE  /\ fd = loggers[f].fd
             /\ fd # 0 => fd \in table[loggers[f].app] /\ Usable(fd)
  <2>1. IOctl_fd[loggers[f].app] = loggers[f].fd
    BY <1>2, <1>3 DEF LogInv, Stored, Storing
  <2>2. fd # 0 => fd \in table[loggers[f].app]
    BY <1>1, <1>2, <1>3, <2>1 DEF LogInv, Own
  <2>3. loggers[f].fd \in Nat
    BY <1>2, ThreadView
  <2> QED
    BY <1>1, <2>1, <2>2, <2>3 DEF Usable
<1>4. CASE Usable(fd) /\ fd \in table[loggers[f].app]
  <2> DEFINE to(g) == IF g = f THEN "copy_ts" ELSE loggers[g].pc
             met(g) == loggers[g].raced \/ (g \in InIoctl \cup {f} /\ InIoctl # {})
             l(g) == [loggers[g] EXCEPT !.pc = to(g), !.raced = met(g)]
  <2>1. ASSUME NEW g \in Frames
        PROVE  /\ l(g) \in Logger /\ l(g).pc = to(g) /\ l(g).app = loggers[g].app
               /\ l(g).fd = loggers[g].fd /\ l(g).shared = loggers[g].shared
               /\ l(g).raced = met(g)
    <3>1. loggers[g] \in Logger /\ loggers[g].pc \in Lines /\ loggers[g].raced \in BOOLEAN
      BY <1>2, ThreadView
    <3>2. to(g) \in Lines
      BY <3>1 DEF Lines, InKernel
    <3>3. met(g) \in BOOLEAN
      BY <3>1
    <3> HIDE DEF to, met
    <3> QED
      BY <3>1, <3>2, <3>3 DEF Logger, Lines
  <2>2. loggers' = [g \in Frames |-> l(g)]
    BY <1>1, <1>4 DEF Enter
  <2> HIDE DEF l
  <2>3. loggers' \in Seq(Logger) /\ Len(loggers') = Len(loggers)
    <3>1. Len(loggers) \in Nat
      BY <1>2, ThreadView
    <3>2. loggers' = [g \in 1 .. Len(loggers) |-> l(g)]
      BY <2>2 DEF Frames
    <3>3. \A g \in 1 .. Len(loggers) : l(g) \in Logger
      BY <2>1 DEF Frames
    <3> QED
      BY <3>1, <3>2, <3>3
  <2>4. Frames' = Frames /\ \A g \in Frames : loggers'[g] = l(g)
    BY <2>2, <2>3 DEF Frames
  <2>5. TypeOK'
    BY <1>2, <2>3 DEF TypeOK, LimiterTypeOK, limiterVars
  <2>6. (Together /\ Opened /\ Stored /\ Own /\ Wasted)'
    BY <1>2, <2>1, <2>4, DescriptorsSame DEF Storing, InKernel
  <2>7. ASSUME NEW g \in Frames, ~loggers'[g].shared
        PROVE  /\ loggers'[g].pc \in InKernel => loggers'[g].fd # 0
               /\ loggers'[g].pc \in After /\ ~loggers'[g].raced =>
                      (loggers'[g].fd # 0 <=> Records("ts", g)' # {})
    <3>1. CASE g = f
      <4>1. loggers'[f].pc = "copy_ts" /\ loggers'[f].fd = loggers[f].fd /\ ~loggers[f].shared
        BY <2>1, <2>4, <2>7, <3>1
      <4>2. loggers[f].fd \in Nat /\ fd > 0
        BY <1>2, <1>4, ThreadView DEF Usable
      <4>3. loggers[f].fd # 0
        BY <1>3, <4>1, <4>2
      <4> QED
        BY <3>1, <4>1, <4>3 DEF After
    <3>2. CASE g # f
      <4>1. /\ loggers'[g].pc = loggers[g].pc /\ loggers'[g].fd = loggers[g].fd
            /\ loggers'[g].shared = loggers[g].shared
            /\ loggers[g].raced => loggers'[g].raced
        BY <2>1, <2>4, <3>2
      <4>2. Records("ts", g)' = Records("ts", g)
        BY <1>2 DEF Records
      <4> QED
        BY <2>7, <4>1, <4>2 DEF LogInv, Traced
    <3> QED
      BY <3>1, <3>2
  <2>8. Traced'
    BY <2>4, <2>7 DEF Traced
  <2> QED
    BY <1>2, <2>3, <2>5, <2>6, <2>8 DEF LogRest
<1>5. CASE ~(Usable(fd) /\ fd \in table[loggers[f].app])
  <2>1. /\ loggers' \in Seq(Logger) /\ Len(loggers') = Len(loggers) /\ Frames' = Frames
        /\ loggers'[f].pc = "close"
        /\ \A g \in Frames :
               /\ loggers'[g].app = loggers[g].app /\ loggers'[g].fd = loggers[g].fd
               /\ loggers'[g].shared = loggers[g].shared
               /\ loggers'[g].raced = loggers[g].raced
               /\ g # f => loggers'[g] = loggers[g]
    BY <1>1, <1>2, <1>5, GotoView DEF Lines
  <2>2. TypeOK'
    BY <1>2, <2>1 DEF TypeOK, LimiterTypeOK, limiterVars
  <2>3. (Together /\ Opened /\ Stored /\ Own /\ Wasted)'
    BY <1>2, <2>1, DescriptorsSame DEF Storing, InKernel
  <2>4. ASSUME NEW g \in Frames, ~loggers'[g].shared
        PROVE  /\ loggers'[g].pc \in InKernel => loggers'[g].fd # 0
               /\ loggers'[g].pc \in After /\ ~loggers'[g].raced =>
                      (loggers'[g].fd # 0 <=> Records("ts", g)' # {})
    <3>1. Records("ts", g)' = Records("ts", g)
      BY <1>2 DEF Records
    <3>2. CASE g = f
      <4>1. loggers[f].fd = 0
        BY <1>3, <1>5, <2>1, <2>4, <3>2
      <4>2. ~loggers[f].raced
        BY <1>2 DEF RaceInv, RacedInv, Before
      <4>3. Records("ts", f) = {}
        BY <1>2, <4>2, NotYetTraced DEF After
      <4> QED
        BY <2>1, <3>1, <3>2, <4>1, <4>3 DEF InKernel
    <3>3. CASE g # f
      BY <2>1, <2>4, <3>1, <3>3 DEF LogInv, Traced
    <3> QED
      BY <3>2, <3>3
  <2>5. Traced'
    BY <2>1, <2>4 DEF Traced
  <2> QED
    BY <1>2, <2>1, <2>2, <2>3, <2>5 DEF LogRest
<1> QED
  BY <1>4, <1>5

\* The module comes and goes; no thread sees it.
LEMMA DeviceRest ==
    ASSUME LogInv, Load \/ Unload
    PROVE  LogRest'
<1>1. /\ TypeOK /\ Len(loggers) <= MaxFrames
      /\ UNCHANGED <<limiterVars, loggers, IOctl_fd, table, trace>>
      /\ lf' \in Words /\ device' \in BOOLEAN
  <2>1. TypeOK /\ Len(loggers) <= MaxFrames /\ lf \in Words /\ 0 \in 0 .. MaxFrames
    BY FrameLogAssumption DEF LogInv, TypeOK
  <2>2. CASE Load
    BY <2>1, <2>2 DEF Load, Words
  <2>3. CASE Unload
    BY <2>1, <2>3 DEF Unload
  <2> QED
    BY <2>2, <2>3
<1>2. Frames' = Frames
  BY <1>1 DEF Frames
<1>3. TypeOK'
  BY <1>1 DEF TypeOK, LimiterTypeOK, limiterVars
<1>4. (Together /\ Opened /\ Stored /\ Own /\ Wasted)'
  BY <1>1, <1>2, DescriptorsSame
<1>5. Traced'
  BY <1>1, <1>2, TracedSame
<1> QED
  BY <1>1, <1>3, <1>4, <1>5 DEF LogRest

\* Nothing but the limiter moves.
LEMMA LimiterRest ==
    ASSUME LogInv, UNCHANGED <<loggers, IOctl_fd, table, lf, trace, device>>, LimiterTypeOK'
    PROVE  LogRest'
<1>1. TypeOK /\ Len(loggers) <= MaxFrames
  BY DEF LogInv
<1>2. Frames' = Frames
  BY DEF Frames
<1>3. TypeOK'
  BY <1>1 DEF TypeOK
<1>4. (Together /\ Opened /\ Stored /\ Own /\ Wasted)'
  BY <1>2, DescriptorsSame
<1>5. Traced'
  BY <1>2, TracedSame
<1> QED
  BY <1>1, <1>3, <1>4, <1>5 DEF LogRest

\* There is a descriptor for a thread that opens the device: each open one is
\* held by another thread, and there are no more threads than descriptors.
LEMMA FreeDescriptor ==
    ASSUME LogInv, NEW f \in Frames, loggers[f].pc = "open"
    PROVE  Min((1 .. MaxFrames) \ table[loggers[f].app]) \in (1 .. MaxFrames) \ table[loggers[f].app]
<1> DEFINE a == loggers[f].app
           others == Frames \ {f}
           Fd(g) == loggers[g].fd
<1>1. /\ TypeOK /\ Len(loggers) <= MaxFrames /\ Len(loggers) \in Nat /\ MaxFrames \in Nat
      /\ a \in Apps
  BY ThreadView DEF LogInv
<1>2. table[a] \subseteq {Fd(g) : g \in others}
  <2> SUFFICES ASSUME NEW d \in table[a]
               PROVE  \E g \in others : Fd(g) = d
    OBVIOUS
  <2>1. PICK g \in Frames : Holder(g, a, d)
    BY <1>1 DEF LogInv, Opened
  <2> QED
    BY <2>1 DEF Holder
<1>3. IsFiniteSet(Frames) /\ Cardinality(Frames) = Len(loggers)
  <2> DEFINE n == Len(loggers)
             o == 1
  <2>1. n \in Int /\ o \in Int /\ n \in Nat /\ o = 1
    BY <1>1
  <2>2. Frames = o .. n
    BY DEF Frames
  <2> HIDE DEF n, o
  <2>3. IsFiniteSet(o .. n) /\ Cardinality(o .. n) = IF o > n THEN 0 ELSE n - o + 1
    BY <2>1, FS_Interval
  <2>4. Cardinality(o .. n) = n
    BY <2>1, <2>3
  <2> QED
    BY <2>2, <2>3, <2>4 DEF n
<1>4. IsFiniteSet(others) /\ Cardinality(others) = Len(loggers) - 1
  BY <1>3, FS_RemoveElement
<1> HIDE DEF Fd, others, a
<1>5. IsFiniteSet({Fd(g) : g \in others}) /\ Cardinality({Fd(g) : g \in others}) <= Cardinality(others)
  <2> DEFINE image == {Fd(g) : g \in others}
             w == [g \in others |-> Fd(g)]
  <2>1. w \in Surjection(others, image)
    BY DEF Surjection
  <2> HIDE DEF image, w
  <2>2. IsFiniteSet(image) /\ Cardinality(image) <= Cardinality(others)
    BY <1>4, <2>1, FS_Surjection
  <2> QED
    BY <2>2 DEF image
<1>6. IsFiniteSet(table[a]) /\ Cardinality(table[a]) <= Cardinality({Fd(g) : g \in others})
  BY <1>2, <1>5, FS_Subset
<1> DEFINE all == 1 .. MaxFrames
<1>7. Cardinality(all) = MaxFrames
  <2> DEFINE n == MaxFrames
             o == 1
  <2>1. n \in Int /\ o \in Int /\ n \in Nat /\ o = 1
    BY <1>1
  <2> HIDE DEF n, o
  <2>2. IsFiniteSet(o .. n) /\ Cardinality(o .. n) = IF o > n THEN 0 ELSE n - o + 1
    BY <2>1, FS_Interval
  <2>3. Cardinality(o .. n) = n
    BY <2>1, <2>2
  <2> QED
    BY <2>3 DEF n, o
<1>8. Cardinality(table[a]) \in Nat /\ Cardinality({Fd(g) : g \in others}) \in Nat
  BY <1>5, <1>6, FS_CardinalityType
<1>9. ~(all \subseteq table[a])
  <2>1. SUFFICES ASSUME all \subseteq table[a] PROVE FALSE
    OBVIOUS
  <2>2. Cardinality(all) <= Cardinality(table[a])
    BY <1>6, <2>1, FS_Subset
  <2> HIDE DEF all
  <2> QED
    BY <1>1, <1>4, <1>5, <1>6, <1>7, <1>8, <2>2
<1>10. all \ table[a] # {} /\ all \ table[a] \subseteq Nat
  BY <1>9
<1> HIDE DEF all
<1>11. Min(all \ table[a]) \in all \ table[a]
  BY <1>10, MinIs
<1> QED
  BY <1>11 DEF all, a

\* Opening the device.
LEMMA OpenRest ==
    ASSUME LogInv, NEW f \in Frames, Open(f)
    PROVE  LogRest'
<1> DEFINE a == loggers[f].app
           fd == IF device THEN Min((1 .. MaxFrames) \ table[a]) ELSE 0
           l == [loggers[f] EXCEPT !.pc = "store", !.fd = fd]
<1>1. /\ TypeOK /\ Len(loggers) <= MaxFrames /\ loggers[f] \in Logger /\ a \in Apps
      /\ loggers[f].pc = "open" /\ loggers' = [loggers EXCEPT ![f] = l]
      /\ table' = [table EXCEPT ![a] = @ \cup ({fd} \ {0})]
      /\ UNCHANGED <<limiterVars, IOctl_fd, lf, trace, device>>
  BY ThreadView DEF LogInv, Open
<1>2. fd \in Nat /\ (fd # 0 => fd \in 1 .. MaxFrames)
  BY <1>1, FreeDescriptor
<1> HIDE DEF fd
<1>3. /\ l \in Logger /\ l.pc = "store" /\ l.app = a /\ l.fd = fd
      /\ l.shared = loggers[f].shared /\ l.raced = loggers[f].raced
  BY <1>1, <1>2 DEF Logger
<1> HIDE DEF l
<1>4. loggers' \in Seq(Logger) /\ Len(loggers') = Len(loggers) /\ Frames' = Frames
  BY <1>1, <1>3 DEF TypeOK, Frames
<1>5. loggers'[f] = l /\ \A g \in Frames : g # f => loggers'[g] = loggers[g]
  BY <1>1 DEF TypeOK, Frames
<1>6. /\ table' \in [Apps -> SUBSET (1 .. MaxFrames)]
      /\ table'[a] = table[a] \cup ({fd} \ {0})
      /\ \A b \in Apps : b # a => table'[b] = table[b]
  BY <1>1, <1>2 DEF TypeOK
<1> HIDE DEF a
<1>7. TypeOK'
  BY <1>1, <1>4, <1>6 DEF TypeOK, LimiterTypeOK, limiterVars
<1>8. \A h \in Frames : \A b, d : Holder(h, b, d) => h # f /\ Holder(h, b, d)'
  BY <1>1, <1>5 DEF Holder
<1>9. \A b, d : b = a /\ d = fd => Holder(f, b, d)'
  BY <1>3, <1>5 DEF Holder
<1>10. Together'
  BY <1>1, <1>3, <1>4, <1>5 DEF LogInv, Together, a
<1>11. Opened'
  <2> SUFFICES ASSUME NEW b \in Apps, NEW d \in table'[b]
               PROVE  \E h \in Frames : Holder(h, b, d)'
    BY <1>4 DEF Opened
  <2>1. CASE d \in table[b]
    BY <1>8, <2>1 DEF LogInv, Opened
  <2>2. CASE d \notin table[b]
    BY <1>6, <1>9, <2>2
  <2> QED
    BY <2>1, <2>2
<1>12. Stored'
  <2> SUFFICES ASSUME NEW h \in Frames, loggers'[h].pc \in Storing
               PROVE  \E g \in Frames :
                          /\ loggers'[g].app = loggers'[h].app /\ loggers'[g].pc # "open"
                          /\ loggers'[g].fd = IOctl_fd[loggers'[h].app]
                          /\ g = h \/ (loggers'[g].shared /\ loggers'[h].shared)
    BY <1>1, <1>4 DEF Stored
  <2>1. h # f /\ loggers'[h] = loggers[h]
    BY <1>3, <1>5 DEF Storing, InKernel
  <2>2. PICK g \in Frames :
            /\ loggers[g].app = loggers[h].app /\ loggers[g].pc # "open"
            /\ loggers[g].fd = IOctl_fd[loggers[h].app]
            /\ g = h \/ (loggers[g].shared /\ loggers[h].shared)
    BY <2>1 DEF LogInv, Stored
  <2>3. g # f /\ loggers'[g] = loggers[g]
    BY <1>1, <1>5, <2>2
  <2> QED
    BY <2>1, <2>2, <2>3
<1>13. Own'
  <2> SUFFICES ASSUME NEW g \in Frames, ~loggers'[g].shared,
                      loggers'[g].pc \notin {"open", "done"}, loggers'[g].fd # 0
               PROVE  loggers'[g].fd \in table'[loggers'[g].app]
    BY <1>4 DEF Own
  <2>1. CASE g = f
    BY <1>3, <1>5, <1>6, <2>1
  <2>2. CASE g # f
    <3>1. loggers'[g] = loggers[g] /\ loggers[g].app \in Apps
      BY <1>1, <1>5, <2>2, ThreadView
    <3>2. loggers[g].fd \in table[loggers[g].app]
      BY <3>1 DEF LogInv, Own
    <3> QED
      BY <1>6, <3>1, <3>2
  <2> QED
    BY <2>1, <2>2
<1>14. ASSUME NEW g \in Frames, NEW b \in Apps, Spent(g, b)
       PROVE  Spent(g, b)'
  <2>1. g # f /\ loggers'[g] = loggers[g]
    BY <1>1, <1>5, <1>14 DEF Spent
  <2>2. /\ loggers[g].app = b /\ loggers[g].shared /\ loggers[g].pc # "open"
        /\ \/ loggers[g].fd \notin table[b]
           \/ \E h \in Frames \ {g} : Holder(h, b, loggers[g].fd)
    BY <1>14 DEF Spent
  <2>3. CASE \E h \in Frames \ {g} : Holder(h, b, loggers[g].fd)
    <3>1. PICK h \in Frames \ {g} : Holder(h, b, loggers[g].fd)
      BY <2>3
    <3>2. loggers'[h].app = b /\ loggers'[h].pc # "open" /\ loggers'[h].fd = loggers'[g].fd
          /\ (loggers'[h].shared \/ loggers'[h].pc # "done")
      BY <1>1, <1>5, <2>1, <3>1 DEF Holder
    <3> QED
      BY <1>4, <2>1, <2>2, <3>2 DEF Spent, Holder
  <2>4. CASE loggers[g].fd \notin table[b]
    <3>1. CASE b = a /\ loggers[g].fd = fd
      <4>1. loggers'[f].app = b /\ loggers'[f].pc # "open" /\ loggers'[f].fd = loggers'[g].fd
            /\ loggers'[f].pc # "done"
        BY <1>3, <1>5, <2>1, <3>1
      <4> QED
        BY <1>4, <2>1, <2>2, <4>1 DEF Spent, Holder
    <3>2. CASE ~(b = a /\ loggers[g].fd = fd)
      <4>1. loggers'[g].fd \notin table'[b]
        BY <1>6, <2>1, <2>4, <3>2
      <4> QED
        BY <2>1, <2>2, <4>1 DEF Spent
    <3> QED
      BY <3>1, <3>2
  <2> QED
    BY <2>2, <2>3, <2>4
<1>15. Wasted'
  <2> SUFFICES ASSUME NEW s \in Frames, loggers'[s].shared
               PROVE  \/ \E g \in Frames : /\ loggers'[g].app = loggers'[s].app
                                           /\ loggers'[g].shared /\ loggers'[g].pc # "done"
                      \/ \E g \in Frames : Spent(g, loggers[s].app)'
    <3>1. \A s \in Frames : loggers'[s].app = loggers[s].app
      BY <1>3, <1>5 DEF a
    <3> QED
      BY <1>4, <3>1 DEF Wasted, Spent, Holder
  <2>1. loggers[s].shared /\ loggers'[s].app = loggers[s].app /\ loggers[s].app \in Apps
    BY <1>1, <1>3, <1>5, ThreadView DEF a
  <2>2. CASE \E g \in Frames : /\ loggers[g].app = loggers[s].app
                               /\ loggers[g].shared /\ loggers[g].pc # "done"
    BY <1>3, <1>5, <2>1, <2>2 DEF a
  <2>3. CASE \E g \in Frames : Spent(g, loggers[s].app)
    BY <1>14, <2>1, <2>3
  <2> QED
    BY <2>1, <2>2, <2>3 DEF LogInv, Wasted
<1>16. Traced'
  <2>1. \A g \in Frames : Records("ts", g)' = Records("ts", g)
    BY <1>1 DEF Records
  <2>2. l.pc \notin InKernel /\ l.pc \notin After
    BY <1>3 DEF InKernel, After
  <2> QED
    BY <1>4, <1>5, <2>1, <2>2 DEF LogInv, Traced
<1> QED
  BY <1>1, <1>4, <1>7, <1>10, <1>11, <1>12, <1>13, <1>15, <1>16 DEF LogRest

\* Storing a descriptor in the static variable.
LEMMA StoreRest ==
    ASSUME LogInv, NEW f \in Frames, Store(f)
    PROVE  LogRest'
<1> DEFINE a == loggers[f].app
<1>1. /\ TypeOK /\ Len(loggers) <= MaxFrames /\ a \in Apps /\ loggers[f].fd \in Nat
      /\ Goto(f, "store", "ioctl") /\ "ioctl" \in Lines
      /\ IOctl_fd' = [IOctl_fd EXCEPT ![a] = loggers[f].fd]
      /\ UNCHANGED <<limiterVars, table, lf, trace, device>>
  BY ThreadView DEF LogInv, Store, Lines
<1>2. /\ loggers' \in Seq(Logger) /\ Len(loggers') = Len(loggers) /\ Frames' = Frames
      /\ loggers[f].pc = "store" /\ loggers'[f].pc = "ioctl"
      /\ \A g \in Frames :
             /\ loggers'[g].app = loggers[g].app /\ loggers'[g].fd = loggers[g].fd
             /\ loggers'[g].shared = loggers[g].shared
             /\ loggers'[g].raced = loggers[g].raced
             /\ g # f => loggers'[g] = loggers[g]
  BY <1>1, GotoView
<1>3. /\ IOctl_fd' \in [Apps -> Nat] /\ IOctl_fd'[a] = loggers[f].fd
      /\ \A b \in Apps : b # a => IOctl_fd'[b] = IOctl_fd[b]
  BY <1>1 DEF TypeOK
<1>4. TypeOK'
  BY <1>1, <1>2, <1>3 DEF TypeOK, LimiterTypeOK, limiterVars
<1>5. \A g \in Frames :
          /\ loggers'[g].pc = "open" <=> loggers[g].pc = "open"
          /\ loggers'[g].pc = "done" <=> loggers[g].pc = "done"
          /\ g = f \/ loggers'[g].pc = loggers[g].pc
  BY <1>2
<1>6. \A h \in Frames : \A b, d : Holder(h, b, d)' <=> Holder(h, b, d)
  BY <1>2, <1>5 DEF Holder
<1>7. Together'
  BY <1>2, <1>5 DEF LogInv, Together
<1>8. Opened'
  BY <1>1, <1>2, <1>6 DEF LogInv, Opened
<1>9. Stored'
  <2> SUFFICES ASSUME NEW h \in Frames, loggers'[h].pc \in Storing
               PROVE  \E g \in Frames :
                          /\ loggers'[g].app = loggers'[h].app /\ loggers'[g].pc # "open"
                          /\ loggers'[g].fd = IOctl_fd'[loggers'[h].app]
                          /\ g = h \/ (loggers'[g].shared /\ loggers'[h].shared)
    BY <1>2 DEF Stored
  <2>1. loggers'[h].app = loggers[h].app /\ loggers[h].app \in Apps
    BY <1>1, <1>2, ThreadView
  <2>2. CASE loggers[h].app = a
    <3>1. h # f => loggers[h].shared /\ loggers[f].shared
      <4>1. loggers[h].pc # "done" /\ loggers[f].pc # "done"
        BY <1>2, <1>5 DEF Storing, InKernel
      <4> QED
        BY <2>2, <4>1 DEF LogInv, Together
    <3>2. f \in Frames /\ loggers'[f].app = loggers'[h].app /\ loggers'[f].pc # "open"
          /\ loggers'[f].fd = IOctl_fd'[loggers'[h].app]
      BY <1>2, <1>3, <2>1, <2>2
    <3> QED
      BY <1>2, <3>1, <3>2
  <2>3. CASE loggers[h].app # a
    <3>1. h # f /\ loggers[h].pc \in Storing
      BY <1>2, <2>3
    <3>2. PICK g \in Frames :
              /\ loggers[g].app = loggers[h].app /\ loggers[g].pc # "open"
              /\ loggers[g].fd = IOctl_fd[loggers[h].app]
              /\ g = h \/ (loggers[g].shared /\ loggers[h].shared)
      BY <3>1 DEF LogInv, Stored
    <3> QED
      BY <1>2, <1>3, <1>5, <2>1, <2>3, <3>2
  <2> QED
    BY <2>2, <2>3
<1>10. Own'
  <2> SUFFICES ASSUME NEW g \in Frames, ~loggers[g].shared,
                      loggers[g].pc \notin {"open", "done"}, loggers[g].fd # 0
               PROVE  loggers[g].fd \in table[loggers[g].app]
    BY <1>1, <1>2, <1>5 DEF Own
  <2> QED
    BY DEF LogInv, Own
<1>11. \A g \in Frames : \A b : Spent(g, b) => Spent(g, b)'
  <2> SUFFICES ASSUME NEW g \in Frames, NEW b, Spent(g, b)
               PROVE  Spent(g, b)'
    OBVIOUS
  <2>1. \A h \in Frames : Holder(h, b, loggers[g].fd) <=> Holder(h, b, loggers[g].fd)'
    BY <1>2, <1>5 DEF Holder
  <2> QED
    BY <1>1, <1>2, <1>5, <2>1 DEF Spent
<1>12. Wasted'
  BY <1>1, <1>2, <1>5, <1>11 DEF LogInv, Wasted
<1>13. Traced'
  <2>1. "ioctl" \notin InKernel \cup After
    BY DEF InKernel, After
  <2> QED
    BY <1>1, <1>2, <1>5, <2>1, TracedSame
<1> QED
  BY <1>1, <1>2, <1>4, <1>7, <1>8, <1>9, <1>10, <1>12, <1>13 DEF LogRest

\* Closing the descriptor in the static variable.
LEMMA CloseRest ==
    ASSUME LogInv, NEW f \in Frames, Close(f)
    PROVE  LogRest'
<1> DEFINE a == loggers[f].app
           d == IOctl_fd[a]
<1>1. /\ TypeOK /\ Len(loggers) <= MaxFrames /\ a \in Apps
      /\ Goto(f, "close", "done") /\ "done" \in Lines
      /\ table' = [table EXCEPT ![a] = @ \ {d}]
      /\ UNCHANGED <<limiterVars, IOctl_fd, lf, trace, device>>
  BY ThreadView DEF LogInv, Close, Lines
<1>2. /\ loggers' \in Seq(Logger) /\ Len(loggers') = Len(loggers) /\ Frames' = Frames
      /\ loggers[f].pc = "close" /\ loggers'[f].pc = "done"
      /\ \A g \in Frames :
             /\ loggers'[g].app = loggers[g].app /\ loggers'[g].fd = loggers[g].fd
             /\ loggers'[g].shared = loggers[g].shared
             /\ loggers'[g].raced = loggers[g].raced
             /\ g # f => loggers'[g] = loggers[g]
  BY <1>1, GotoView
<1>3. /\ table' \in [Apps -> SUBSET (1 .. MaxFrames)] /\ table'[a] = table[a] \ {d}
      /\ \A b \in Apps : b # a => table'[b] = table[b]
  BY <1>1 DEF TypeOK
<1>4. TypeOK'
  BY <1>1, <1>2, <1>3 DEF TypeOK, LimiterTypeOK, limiterVars
<1>5. /\ \A g \in Frames : loggers'[g].pc = "open" <=> loggers[g].pc = "open"
      /\ \A g \in Frames : g # f => loggers'[g].pc = loggers[g].pc
  BY <1>2
<1>6. PICK w \in Frames :
          /\ loggers[w].app = a /\ loggers[w].pc # "open" /\ loggers[w].fd = d
          /\ w = f \/ (loggers[w].shared /\ loggers[f].shared)
  BY <1>2 DEF LogInv, Stored, Storing
<1>7. /\ \A g \in Frames : loggers'[g].pc # "done" => g # f /\ loggers[g].pc # "done"
      /\ \A g \in Frames : g # f /\ loggers[g].app = a /\ loggers[g].pc # "done" =>
             loggers[g].shared /\ loggers[f].shared
  <2>1. \A g \in Frames : g # f /\ loggers[g].app = a /\ loggers[g].pc # "done" =>
            loggers[g].shared /\ loggers[f].shared
    BY <1>2 DEF LogInv, Together
  <2> QED
    BY <1>2, <2>1
<1>8. Together'
  BY <1>2, <1>7 DEF LogInv, Together
\* A holder stays one, unless it is f itself, alone, whose descriptor goes.
<1>9. \A h \in Frames : \A b, e :
          Holder(h, b, e) => Holder(h, b, e)' \/ (h = f /\ ~loggers[f].shared)
  BY <1>2, <1>5 DEF Holder
<1>10. ~loggers[f].shared => loggers[f].fd = d
  BY <1>6
<1>11. Opened'
  <2> SUFFICES ASSUME NEW b \in Apps, NEW e \in table'[b]
               PROVE  \E h \in Frames : Holder(h, b, e)'
    BY <1>2 DEF Opened
  <2>1. e \in table[b]
    BY <1>3
  <2>2. PICK h \in Frames : Holder(h, b, e)
    BY <2>1 DEF LogInv, Opened
  <2>3. ~(h = f /\ ~loggers[f].shared)
    <3>1. h = f /\ ~loggers[f].shared => b = a /\ e = d
      BY <1>10, <2>2 DEF Holder
    <3> QED
      BY <1>3, <3>1
  <2> QED
    BY <1>9, <2>2, <2>3
<1>12. Stored'
  <2> SUFFICES ASSUME NEW h \in Frames, loggers'[h].pc \in Storing
               PROVE  \E g \in Frames :
                          /\ loggers'[g].app = loggers'[h].app /\ loggers'[g].pc # "open"
                          /\ loggers'[g].fd = IOctl_fd[loggers'[h].app]
                          /\ g = h \/ (loggers'[g].shared /\ loggers'[h].shared)
    BY <1>1, <1>2 DEF Stored
  <2>1. h # f /\ loggers[h].pc \in Storing
    BY <1>2 DEF Storing, InKernel
  <2>2. PICK g \in Frames :
            /\ loggers[g].app = loggers[h].app /\ loggers[g].pc # "open"
            /\ loggers[g].fd = IOctl_fd[loggers[h].app]
            /\ g = h \/ (loggers[g].shared /\ loggers[h].shared)
    BY <2>1 DEF LogInv, Stored
  <2> QED
    BY <1>2, <1>5, <2>2
<1>13. Own'
  <2> SUFFICES ASSUME NEW g \in Frames, ~loggers'[g].shared,
                      loggers'[g].pc \notin {"open", "done"}, loggers'[g].fd # 0
               PROVE  loggers'[g].fd \in table'[loggers'[g].app]
    BY <1>2 DEF Own
  <2>1. g # f /\ loggers'[g] = loggers[g] /\ loggers[g].app \in Apps
    BY <1>1, <1>2, ThreadView
  <2>2. loggers[g].fd \in table[loggers[g].app]
    BY <2>1 DEF LogInv, Own
  <2>3. loggers[g].app # a
    BY <1>7, <2>1
  <2> QED
    BY <1>3, <2>1, <2>2, <2>3
<1>14. Wasted'
  <2> SUFFICES ASSUME NEW s \in Frames, loggers'[s].shared,
                      ~\E g \in Frames : /\ loggers'[g].app = loggers'[s].app
                                         /\ loggers'[g].shared /\ loggers'[g].pc # "done"
               PROVE  \E g \in Frames : Spent(g, loggers[s].app)'
    <3>1. \A s \in Frames : loggers'[s].app = loggers[s].app
      BY <1>2
    <3> QED
      BY <1>2, <3>1 DEF Wasted, Spent, Holder
  <2> DEFINE b == loggers[s].app
  <2>1. loggers[s].shared /\ b \in Apps /\ loggers'[s].app = b /\ Frames' = Frames
    BY <1>1, <1>2, ThreadView
  <2>2. \A g \in Frames : ~(g # f /\ loggers[g].app = b /\ loggers[g].shared /\ loggers[g].pc # "done")
    BY <1>2, <1>5
  <2>3. CASE b = a /\ loggers[f].shared
    \* The descriptor that was closed is that of w.
    <3>1. loggers[w].shared /\ loggers[w].fd \notin table'[a]
      BY <1>3, <1>6, <2>3
    <3>2. loggers'[w].app = a /\ loggers'[w].shared /\ loggers'[w].pc # "open"
          /\ loggers'[w].fd \notin table'[a]
      BY <1>2, <1>5, <1>6, <3>1
    <3> QED
      BY <2>1, <2>3, <3>2 DEF Spent
  <2>4. CASE ~(b = a /\ loggers[f].shared)
    <3>1. PICK g \in Frames : Spent(g, b)
      BY <2>1, <2>2, <2>4 DEF LogInv, Wasted
    <3>2. /\ loggers[g].app = b /\ loggers[g].shared /\ loggers[g].pc # "open"
          /\ \/ loggers[g].fd \notin table[b]
             \/ \E h \in Frames \ {g} : Holder(h, b, loggers[g].fd)
      BY <3>1 DEF Spent
    <3>3. loggers'[g].app = b /\ loggers'[g].shared /\ loggers'[g].pc # "open"
          /\ loggers'[g].fd = loggers[g].fd
      BY <1>2, <1>5, <3>2
    <3>4. CASE loggers[g].fd \notin table[b]
      <4>1. loggers'[g].fd \notin table'[b]
        BY <1>3, <2>1, <3>3, <3>4
      <4> QED
        BY <2>1, <3>3, <4>1 DEF Spent
    <3>5. CASE \E h \in Frames \ {g} : Holder(h, b, loggers[g].fd)
      <4>1. PICK h \in Frames \ {g} : Holder(h, b, loggers[g].fd)
        BY <3>5
      <4>2. CASE h = f /\ ~loggers[f].shared
        <5>1. b = a /\ loggers[g].fd = d
          BY <1>10, <4>1, <4>2 DEF Holder
        <5>2. loggers'[g].fd \notin table'[b]
          BY <1>3, <3>3, <5>1
        <5> QED
          BY <2>1, <3>3, <5>2 DEF Spent
      <4>3. CASE ~(h = f /\ ~loggers[f].shared)
        <5>1. /\ loggers'[h].app = b /\ loggers'[h].pc # "open"
              /\ loggers'[h].fd = loggers'[g].fd
              /\ loggers'[h].shared \/ loggers'[h].pc # "done"
          BY <1>2, <1>5, <3>3, <4>1, <4>3 DEF Holder
        <5> QED
          BY <1>2, <3>3, <4>1, <5>1 DEF Spent, Holder
      <4> QED
        BY <4>2, <4>3
    <3> QED
      BY <3>2, <3>4, <3>5
  <2> QED
    BY <2>3, <2>4
<1>15. Traced'
  <2>1. "close" \in After /\ "done" \in After
    BY DEF After
  <2> QED
    BY <1>1, <1>2, <1>5, <2>1, TracedSame
<1> QED
  BY <1>1, <1>2, <1>4, <1>8, <1>11, <1>12, <1>13, <1>14, <1>15 DEF LogRest

\* A new thread disturbs the threads of its process that are alive.
LEMMA StartRest ==
    ASSUME LogInv, NEW a \in Apps, StartThread(a), Len(loggers) < MaxFrames,
           UNCHANGED <<IOctl_fd, table, lf, trace, device>>, LimiterTypeOK'
    PROVE  LogRest'
<1> DEFINE n == Len(loggers) + 1
           kept(f) == IF f \in Live(a) THEN [loggers[f] EXCEPT !.shared = TRUE] ELSE loggers[f]
<1>1. /\ TypeOK /\ Len(loggers) \in Nat /\ MaxFrames \in Nat
      /\ \A f \in Frames : loggers[f] \in Logger
  BY ThreadView DEF LogInv
<1>2. \A f \in Frames :
          /\ kept(f) \in Logger /\ kept(f).app = loggers[f].app /\ kept(f).pc = loggers[f].pc
          /\ kept(f).fd = loggers[f].fd /\ kept(f).raced = loggers[f].raced
          /\ kept(f).shared <=> loggers[f].shared \/ f \in Live(a)
  <2> SUFFICES ASSUME NEW f \in Frames
               PROVE  /\ kept(f) \in Logger /\ kept(f).app = loggers[f].app
                      /\ kept(f).pc = loggers[f].pc
                      /\ kept(f).fd = loggers[f].fd /\ kept(f).raced = loggers[f].raced
                      /\ kept(f).shared <=> loggers[f].shared \/ f \in Live(a)
    OBVIOUS
  <2>1. loggers[f] \in Logger
    BY <1>1
  <2> QED
    BY <2>1 DEF Logger
<1>3. PICK line \in {"open", "done"} :
          \/ line = "open" /\ loggers' = Append([f \in Frames |-> kept(f)], NewLogger(a, line))
          \/ line = "done" /\ loggers' = Append(loggers, NewLogger(a, line))
  BY DEF StartThread
<1>4. /\ NewLogger(a, line) \in Logger /\ NewLogger(a, line).app = a
      /\ NewLogger(a, line).pc = line /\ NewLogger(a, line).fd = 0
      /\ NewLogger(a, line).shared <=> line = "open" /\ Live(a) # {}
  <2>1. 0 \in 0 .. MaxFrames /\ line \in {"open", "done"}
    BY <1>1
  <2> QED
    BY <2>1 DEF NewLogger, Logger
<1> HIDE DEF kept
<1>5. [f \in Frames |-> kept(f)] \in Seq(Logger) /\ Len([f \in Frames |-> kept(f)]) = Len(loggers)
  <2>1. [f \in Frames |-> kept(f)] = [f \in 1 .. Len(loggers) |-> kept(f)]
    BY DEF Frames
  <2>2. \A f \in 1 .. Len(loggers) : kept(f) \in Logger
    BY <1>2 DEF Frames
  <2> QED
    BY <1>1, <2>1, <2>2
<1>6. loggers \in Seq(Logger)
  BY <1>1 DEF TypeOK
<1>7. /\ loggers' \in Seq(Logger) /\ Len(loggers') = n /\ loggers'[n] = NewLogger(a, line)
      /\ \/ line = "open" /\ \A f \in Frames : loggers'[f] = kept(f)
         \/ line = "done" /\ \A f \in Frames : loggers'[f] = loggers[f]
  <2>1. CASE line = "open" /\ loggers' = Append([f \in Frames |-> kept(f)], NewLogger(a, line))
    BY <1>1, <1>4, <1>5, <2>1 DEF Frames
  <2>2. CASE line = "done" /\ loggers' = Append(loggers, NewLogger(a, line))
    BY <1>1, <1>4, <1>6, <2>2 DEF Frames
  <2> QED
    BY <1>3, <2>1, <2>2
<1>8. Frames' = Frames \cup {n} /\ n \notin Frames /\ Len(loggers') <= MaxFrames
  BY <1>1, <1>7 DEF Frames
<1>9. \A f \in Frames :
          /\ loggers'[f].app = loggers[f].app /\ loggers'[f].pc = loggers[f].pc
          /\ loggers'[f].fd = loggers[f].fd /\ loggers'[f].raced = loggers[f].raced
          /\ loggers'[f].shared <=> loggers[f].shared \/ (line = "open" /\ f \in Live(a))
  BY <1>2, <1>7
<1>10. /\ loggers'[n].app = a /\ loggers'[n].pc = line /\ loggers'[n].fd = 0
       /\ loggers'[n].shared <=> line = "open" /\ Live(a) # {}
       /\ line \in {"open", "done"}
  BY <1>3, <1>4, <1>7
<1>11. \A f \in Frames : f \in Live(a) <=> loggers[f].app = a /\ loggers[f].pc # "done"
  BY DEF Live
<1> HIDE DEF n
<1>12. TypeOK'
  BY <1>1, <1>7 DEF TypeOK
<1>13. Together'
  <2> SUFFICES ASSUME NEW f \in Frames', NEW g \in Frames', f # g,
                      loggers'[f].app = loggers'[g].app,
                      loggers'[f].pc # "done", loggers'[g].pc # "done"
               PROVE  loggers'[f].shared
    BY DEF Together
  <2>1. CASE f \in Frames /\ g \in Frames
    BY <1>9, <2>1 DEF LogInv, Together
  <2>2. CASE f = n
    BY <1>8, <1>9, <1>10, <1>11, <2>2
  <2>3. CASE g = n
    BY <1>8, <1>9, <1>10, <1>11, <2>3
  <2> QED
    BY <1>8, <2>1, <2>2, <2>3
<1>14. \A h \in Frames : \A b, d : Holder(h, b, d) => Holder(h, b, d)'
  BY <1>9 DEF Holder
<1>15. Opened'
  BY <1>8, <1>14 DEF LogInv, Opened
<1>16. Stored'
  <2> SUFFICES ASSUME NEW h \in Frames', loggers'[h].pc \in Storing
               PROVE  \E g \in Frames' :
                          /\ loggers'[g].app = loggers'[h].app /\ loggers'[g].pc # "open"
                          /\ loggers'[g].fd = IOctl_fd[loggers'[h].app]
                          /\ g = h \/ (loggers'[g].shared /\ loggers'[h].shared)
    BY DEF Stored
  <2>1. h \in Frames /\ loggers[h].pc \in Storing
    BY <1>8, <1>9, <1>10 DEF Storing, InKernel
  <2>2. PICK g \in Frames :
            /\ loggers[g].app = loggers[h].app /\ loggers[g].pc # "open"
            /\ loggers[g].fd = IOctl_fd[loggers[h].app]
            /\ g = h \/ (loggers[g].shared /\ loggers[h].shared)
    BY <2>1 DEF LogInv, Stored
  <2> QED
    BY <1>8, <1>9, <2>1, <2>2
<1>17. Own'
  <2> SUFFICES ASSUME NEW g \in Frames', ~loggers'[g].shared,
                      loggers'[g].pc \notin {"open", "done"}, loggers'[g].fd # 0
               PROVE  loggers'[g].fd \in table[loggers'[g].app]
    BY DEF Own
  <2> QED
    BY <1>8, <1>9, <1>10 DEF LogInv, Own
<1>18. \A g \in Frames : \A b : Spent(g, b) => Spent(g, b)'
  <2> SUFFICES ASSUME NEW g \in Frames, NEW b, Spent(g, b)
               PROVE  Spent(g, b)'
    OBVIOUS
  <2>1. \A h \in Frames : Holder(h, b, loggers[g].fd) => Holder(h, b, loggers[g].fd)'
    BY <1>9 DEF Holder
  <2> QED
    BY <1>8, <1>9, <2>1 DEF Spent
<1>19. Wasted'
  <2> SUFFICES ASSUME NEW s \in Frames', loggers'[s].shared,
                      ~\E f \in Frames' : /\ loggers'[f].app = loggers'[s].app
                                          /\ loggers'[f].shared /\ loggers'[f].pc # "done"
               PROVE  \E g \in Frames' : Spent(g, loggers[s].app)'
    BY DEF Wasted
  <2>1. loggers'[s].pc = "done"
    OBVIOUS
  <2>2. s \in Frames /\ loggers[s].shared /\ loggers'[s].app = loggers[s].app
    BY <1>8, <1>9, <1>10, <1>11, <2>1
  <2>3. ~\E f \in Frames : /\ loggers[f].app = loggers[s].app
                           /\ loggers[f].shared /\ loggers[f].pc # "done"
    BY <1>8, <1>9, <2>2
  <2>4. PICK g \in Frames : Spent(g, loggers[s].app)
    BY <2>2, <2>3 DEF LogInv, Wasted
  <2>5. \A b : b = loggers[s].app => Spent(g, b)'
    BY <1>18, <2>4
  <2> QED
    BY <1>8, <2>2, <2>5 DEF Spent, Holder
<1>20. Traced'
  <2>1. \A f : Records("ts", f)' = Records("ts", f)
    BY DEF Records
  <2>2. Records("ts", n) = {}
    <3>1. \A i \in 1 .. Len(trace) : trace[i].ts \in Frames
      BY DEF LogInv, RaceInv, TraceInv, MixedOnlyByRace
    <3> QED
      BY <1>8, <3>1 DEF Records
  <2> SUFFICES ASSUME NEW f \in Frames', ~loggers'[f].shared
               PROVE  /\ loggers'[f].pc \in InKernel => loggers'[f].fd # 0
                      /\ loggers'[f].pc \in After /\ ~loggers'[f].raced =>
                             (loggers'[f].fd # 0 <=> Records("ts", f) # {})
    BY <2>1 DEF Traced
  <2>3. CASE f \in Frames
    BY <1>9, <2>3 DEF LogInv, Traced
  <2>4. CASE f = n
    BY <1>10, <2>2, <2>4 DEF InKernel
  <2> QED
    BY <1>8, <2>3, <2>4
<1> QED
  BY <1>8, <1>12, <1>13, <1>15, <1>16, <1>17, <1>19, <1>20 DEF LogRest

LEMMA LogInit == Init => LogInv
<1> SUFFICES ASSUME Init
             PROVE  LogInv
  OBVIOUS
<1>1. loggers = <<>> /\ trace = <<>> /\ Frames = {} /\ Len(loggers) = 0
  BY DEF Init, Frames
<1>2. MaxFrames \in Nat /\ 0 \in 0 .. MaxFrames
  BY FrameLogAssumption
<1>3. LimiterInv
  BY LimiterInitInv DEF Init
<1>4. TypeOK /\ Len(loggers) <= MaxFrames
  BY <1>1, <1>2, <1>3 DEF Init, TypeOK, LimiterInv, Words
<1>5. Together /\ Opened /\ Stored /\ Own /\ Wasted /\ Traced
  BY <1>1 DEF Init, Together, Opened, Stored, Own, Wasted, Traced
<1> QED
  BY <1>3, <1>4, <1>5, RaceInit DEF LogInv

LEMMA LogStep == LogInv /\ [Next]_vars => LogInv'
<1> SUFFICES ASSUME LogInv, [Next]_vars
             PROVE  LogInv'
  OBVIOUS
<1>1. RaceInv'
  BY RaceStep DEF LogInv
<1>2. LimiterInv' /\ LimiterTypeOK'
  BY LogStepIsLimiterStep, LimiterStepInv DEF LogInv, LimiterInv
<1>3. ASSUME NEW a \in Apps, SwapBuffers(a)
      PROVE  LogRest'
  <2>1. UNCHANGED <<IOctl_fd, table, lf, trace, device>>
    BY <1>3 DEF SwapBuffers
  <2>2. CASE UNCHANGED loggers
    BY <1>2, <2>1, <2>2, LimiterRest
  <2>3. CASE Len(loggers) < MaxFrames /\ StartThread(a)
    BY <1>2, <2>1, <2>3, StartRest
  <2> QED
    BY <1>3, <2>2, <2>3 DEF SwapBuffers
<1>4. ASSUME NEW f \in Frames, LogFrame(f)
      PROVE  LogRest'
  BY <1>4, OpenRest, StoreRest, IoctlRest, CopyTsRest, CopyPeriodRest,
     ReadPeriodRest, TraceRest, CloseRest DEF LogFrame
<1>5. ASSUME Load \/ Unload
      PROVE  LogRest'
  BY <1>5, DeviceRest
<1>6. ASSUME UNCHANGED vars
      PROVE  LogRest'
  <2>1. UNCHANGED <<loggers, IOctl_fd, table, lf, trace, device>>
    BY <1>6 DEF vars
  <2> QED
    BY <1>2, <2>1, LimiterRest
<1>7. LogRest'
  BY <1>3, <1>4, <1>5, <1>6 DEF Next
<1> QED
  BY <1>1, <1>2, <1>7 DEF LogInv, LogRest

LEMMA LogAlways == Spec => []LogInv
BY LogInit, LogStep, PTL DEF Spec

\* No descriptor is above the number of frames and no record names a frame
\* that never was: in particular open always finds a descriptor free, since
\* every one in use is held by a thread of its own.
THEOREM LogTypeCorrect == Spec => []TypeOK
<1>1. LogInv => TypeOK
  BY DEF LogInv
<1> QED
  BY <1>1, LogAlways, PTL

\* A frame whose thread had its process and the ioctl for itself is traced
\* once, with its own time and period, if the device could be opened, and not
\* otherwise; for any number of other processes, threads and frames and any
\* loading and unloading of the module in between.
THEOREM TracedOnce == Spec => []FrameTracedOnce
<1>1. ASSUME LogInv
      PROVE  FrameTracedOnce
  <2> SUFFICES ASSUME NEW f \in Frames, loggers[f].pc = "done",
                      ~loggers[f].shared, ~loggers[f].raced
               PROVE  /\ Records("ts", f) = Records("period", f)
                      /\ Cardinality(Records("ts", f)) = IF loggers[f].fd = 0 THEN 0 ELSE 1
    BY DEF FrameTracedOnce
  <2>1. MixedOnlyByRace
    BY <1>1 DEF LogInv, RaceInv, TraceInv
  <2>2. \A i \in 1 .. Len(trace) : trace[i].ts = f <=> trace[i].period = f
    BY <2>1 DEF MixedOnlyByRace
  <2>3. Records("ts", f) = Records("period", f)
    BY <2>2 DEF Records
  <2>4. \A i, j \in Records("ts", f) : i = j
    <3> SUFFICES ASSUME NEW i \in 1 .. Len(trace), NEW j \in 1 .. Len(trace), i < j,
                        trace[i].ts = f, trace[j].ts = f
                 PROVE  FALSE
      <4>1. Len(trace) \in Nat
        BY <1>1 DEF LogInv, TypeOK
      <4> QED
        BY <4>1 DEF Records
    <3>1. i \in 1 .. j - 1
      BY <1>1 DEF LogInv, TypeOK
    <3> QED
      BY <2>1, <3>1 DEF MixedOnlyByRace
  <2>5. loggers[f].fd # 0 <=> Records("ts", f) # {}
    BY <1>1 DEF LogInv, Traced, After
  <2>6. CASE loggers[f].fd = 0
    BY <2>3, <2>5, <2>6, FS_EmptySet
  <2>7. CASE loggers[f].fd # 0
    <3>1. PICK i \in Records("ts", f) : TRUE
      BY <2>5, <2>7
    <3>2. Records("ts", f) = {i}
      BY <2>4, <3>1
    <3>3. Cardinality({i}) = 1
      BY FS_Singleton
    <3> QED
      BY <2>3, <2>7, <3>2, <3>3
  <2> QED
    BY <2>6, <2>7
<1> QED
  BY <1>1, LogAlways, PTL

\* When no thread of a process is alive, fewer descriptors are left open than
\* threads have shared the static variable: none, if its threads have always
\* followed one another.
THEOREM LeaksBySharing == Spec => []LeaksOnlyBySharing
<1>1. ASSUME LogInv
      PROVE  LeaksOnlyBySharing
  <2> DEFINE Sharing(b) == {f \in Frames : loggers[f].app = b /\ loggers[f].shared}
             Fd(f) == loggers[f].fd
  <2> SUFFICES ASSUME NEW a \in Apps, Live(a) = {}, table[a] # {}
               PROVE  Cardinality(table[a]) < Cardinality(Sharing(a))
    BY DEF LeaksOnlyBySharing
  <2> DEFINE S == Sharing(a)
  <2>1. \A f \in Frames : loggers[f].app = a => loggers[f].pc = "done"
    BY DEF Live
  <2>2. \A f \in Frames : \A d : Holder(f, a, d) => f \in S /\ Fd(f) = d
    BY <2>1 DEF Holder
  <2>3. \A d \in table[a] : \E f \in S : Holder(f, a, d) /\ Fd(f) = d
    BY <1>1, <2>2 DEF LogInv, Opened
  <2>4. PICK s \in S : TRUE
    BY <2>3
  <2>5. PICK g \in Frames : Spent(g, a)
    BY <1>1, <2>1, <2>4 DEF LogInv, Wasted
  <2>6. /\ g \in S
        /\ Fd(g) \notin table[a] \/ \E h \in S \ {g} : Fd(h) = Fd(g)
    BY <2>2, <2>5 DEF Spent
  <2>7. IsFiniteSet(S)
    <3> DEFINE n == Len(loggers)
               o == 1
    <3>1. n \in Int /\ o \in Int
      BY <1>1 DEF LogInv, TypeOK
    <3>2. S \subseteq o .. n
      BY DEF Frames
    <3> HIDE DEF n, o, S
    <3>3. IsFiniteSet(o .. n)
      BY <3>1, FS_Interval
    <3> QED
      BY <3>2, <3>3, FS_Subset
  <2> DEFINE others == S \ {g}
             image == {Fd(f) : f \in others}
             w == [f \in others |-> Fd(f)]
  <2>8. table[a] \subseteq image
    <3> SUFFICES ASSUME NEW d \in table[a]
                 PROVE  \E f \in others : Fd(f) = d
      OBVIOUS
    <3>1. PICK f \in S : Fd(f) = d
      BY <2>3
    <3> HIDE DEF S
    <3> QED
      BY <2>6, <3>1
  <2> HIDE DEF S
  <2>9. IsFiniteSet(others) /\ Cardinality(others) = Cardinality(S) - 1
    BY <2>6, <2>7, FS_RemoveElement
  <2>10. w \in Surjection(others, image)
    BY DEF Surjection
  <2> HIDE DEF others, image, w
  <2>11. IsFiniteSet(image) /\ Cardinality(image) <= Cardinality(others)
    BY <2>9, <2>10, FS_Surjection
  <2>12. IsFiniteSet(table[a]) /\ Cardinality(table[a]) <= Cardinality(image)
    BY <2>8, <2>11, FS_Subset
  <2>13. Cardinality(table[a]) \in Nat /\ Cardinality(image) \in Nat /\ Cardinality(S) \in Nat
    BY <2>7, <2>11, <2>12, FS_CardinalityType
  <2>14. Cardinality(table[a]) < Cardinality(S)
    BY <2>9, <2>11, <2>12, <2>13
  <2> QED
    BY <2>14 DEF S
<1> QED
  BY <1>1, LogAlways, PTL
=============================================================================
