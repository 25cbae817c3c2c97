------------------------------ MODULE FrameLog ------------------------------
(***************************************************************************)
(* How a drawn frame gets into the trace.  eglSwapBuffers starts a thread  *)
(* for each frame; the thread opens the device of the kernel module, hands *)
(* the frame over by an ioctl and closes the device (eglLogFrame,          *)
(* src/opengl_mods/native_frameworks.patch).  The descriptor is a static   *)
(* variable, shared by the threads of a process.  The ioctl copies the     *)
(* frame to a static buffer, shared by all callers, and traces it from     *)
(* there (syslog_EGL_ioctl, src/module.c).                                 *)
(*                                                                         *)
(* A frame is its number.  Its two words, time and period, are copied and  *)
(* read one by one; a word is known by the frame it comes from.  A         *)
(* descriptor is a positive number, 0 stands for the -1 of a failed call.  *)
(***************************************************************************)
EXTENDS FrameLimiter, Sequences, FiniteSetsExt, TLC

CONSTANTS
    Works,          \* times a frame may take to draw
    Cuts,           \* times after which a signal may end a sleep
    MaxFrames       \* bound on frames handed to a thread

ASSUME FrameLogAssumption == Works \subseteq Nat /\ Cuts \subseteq Nat /\ MaxFrames \in Nat

VARIABLES
    loggers,        \* for each frame its thread: app, line reached, descriptor
                    \* got, period read by the tracepoint; history: whether it
                    \* shared its process with a thread, or the buffer
    IOctl_fd,       \* the static descriptor in each process
    table,          \* open descriptors of the device in each process
    lf,             \* the static buffer of the ioctl
    trace,          \* records traced
    device          \* the module is loaded, its device present

vars == <<limiterVars, loggers, IOctl_fd, table, lf, trace, device>>

Frames == 1 .. Len(loggers)
Words == [ts : 0 .. MaxFrames, period : 0 .. MaxFrames]
InKernel == {"copy_ts", "copy_period", "read_period", "trace"}
Logger == [app : Apps, pc : {"open", "store", "ioctl", "close", "done"} \cup InKernel,
           fd : Nat, period : 0 .. MaxFrames, shared : BOOLEAN, raced : BOOLEAN]

TypeOK ==
    /\ LimiterTypeOK
    /\ loggers \in Seq(Logger)
    /\ IOctl_fd \in [Apps -> Nat]
    /\ table \in [Apps -> SUBSET (1 .. MaxFrames)]
    /\ lf \in Words
    /\ trace \in Seq(Words)
    /\ device \in BOOLEAN

Init ==
    /\ LimiterInit
    /\ loggers = <<>>
    /\ IOctl_fd = [a \in Apps |-> 0]
    /\ table = [a \in Apps |-> {}]
    /\ lf = [ts |-> 0, period |-> 0]
    /\ trace = <<>>
    /\ device \in BOOLEAN

Live(a) == {f \in Frames : loggers[f].app = a /\ loggers[f].pc # "done"}

NewLogger(a, line) == [app |-> a, pc |-> line, fd |-> 0, period |-> 0,
                       shared |-> line = "open" /\ Live(a) # {}, raced |-> FALSE]

\* pthread_create: a thread for the next frame of a, or none.
StartThread(a) ==
    \/ loggers' = Append([f \in Frames |-> IF f \in Live(a) THEN [loggers[f] EXCEPT !.shared = TRUE]
                                           ELSE loggers[f]],
                         NewLogger(a, "open"))
    \/ loggers' = Append(loggers, NewLogger(a, "done"))

\* The first frame is not logged.
SwapBuffers(a) ==
    /\ \/ FirstFrame(a) /\ UNCHANGED loggers
       \/ /\ Len(loggers) < MaxFrames
          /\ \E work \in Works : \E slept \in Cuts \cup {req_sleep_dur[a]} :
                 LaterFrame(a, slept, work)
          /\ StartThread(a)
    /\ UNCHANGED <<IOctl_fd, table, lf, trace, device>>

\* Thread f goes from one line to another.
Goto(f, from, to) ==
    /\ loggers[f].pc = from
    /\ loggers' = [loggers EXCEPT ![f].pc = to]

\* open returns the lowest descriptor that is free, or fails.
Open(f) ==
    LET a == loggers[f].app
        fd == IF device THEN Min((1 .. MaxFrames) \ table[a]) ELSE 0
    IN /\ loggers[f].pc = "open"
       /\ loggers' = [loggers EXCEPT ![f].pc = "store", ![f].fd = fd]
       /\ table' = [table EXCEPT ![a] = @ \cup ({fd} \ {0})]
       /\ UNCHANGED <<limiterVars, IOctl_fd, lf, trace, device>>

\* Its result goes to the static variable.
Store(f) ==
    /\ Goto(f, "store", "ioctl")
    /\ IOctl_fd' = [IOctl_fd EXCEPT ![loggers[f].app] = loggers[f].fd]
    /\ UNCHANGED <<limiterVars, table, lf, trace, device>>

\* A fault: the lowest descriptor is taken for a failure.
UsableOffByOne(fd) == fd > 1

Usable(fd) == fd > 0

\* The threads that are in the ioctl.
InIoctl == {g \in Frames : loggers[g].pc \in InKernel}

\* f joins them: if there are any, their frames and its own may mix.
Enter(f) ==
    loggers' = [g \in Frames |->
        [loggers[g] EXCEPT !.pc = IF g = f THEN "copy_ts" ELSE @,
                           !.raced = @ \/ (g \in InIoctl \cup {f} /\ InIoctl # {})]]

\* The compiled code has the descriptor in a register or reads it again.
\* ioctl fails on a descriptor that has been closed.
Ioctl(f) ==
    /\ loggers[f].pc = "ioctl"
    /\ \E fd \in {loggers[f].fd, IOctl_fd[loggers[f].app]} :
           IF Usable(fd) /\ fd \in table[loggers[f].app]
           THEN Enter(f)
           ELSE Goto(f, "ioctl", "close")
    /\ UNCHANGED <<limiterVars, IOctl_fd, table, lf, trace, device>>

\* copy_from_user
CopyTs(f) ==
    /\ Goto(f, "copy_ts", "copy_period")
    /\ lf' = [lf EXCEPT !.ts = f]
    /\ UNCHANGED <<limiterVars, IOctl_fd, table, trace, device>>

\* A fault: the size of a pointer is copied, not that of the structure.
CopyPeriodNot(f) ==
    /\ Goto(f, "copy_period", "read_period")
    /\ UNCHANGED <<limiterVars, IOctl_fd, table, lf, trace, device>>

CopyPeriod(f) ==
    /\ Goto(f, "copy_period", "read_period")
    /\ lf' = [lf EXCEPT !.period = f]
    /\ UNCHANGED <<limiterVars, IOctl_fd, table, trace, device>>

\* __log_opengl_frame passes the period by value and the time by reference;
\* four power sensors are read between.
ReadPeriod(f) ==
    /\ loggers[f].pc = "read_period"
    /\ loggers' = [loggers EXCEPT ![f].pc = "trace", ![f].period = lf.period]
    /\ UNCHANGED <<limiterVars, IOctl_fd, table, lf, trace, device>>

Trace(f) ==
    /\ Goto(f, "trace", "close")
    /\ trace' = Append(trace, [ts |-> lf.ts, period |-> loggers[f].period])
    /\ UNCHANGED <<limiterVars, IOctl_fd, table, lf, device>>

\* A fault: the device is left open.
CloseNot(f) ==
    /\ Goto(f, "close", "done")
    /\ UNCHANGED <<limiterVars, IOctl_fd, table, lf, trace, device>>

\* close reads the static variable, then the thread frees its frame and ends.
Close(f) ==
    /\ Goto(f, "close", "done")
    /\ table' = [table EXCEPT ![loggers[f].app] = @ \ {IOctl_fd[loggers[f].app]}]
    /\ UNCHANGED <<limiterVars, IOctl_fd, lf, trace, device>>

\* The buffer of a newly loaded module is zero.
Load ==
    /\ ~device
    /\ device' = TRUE
    /\ lf' = [ts |-> 0, period |-> 0]
    /\ UNCHANGED <<limiterVars, loggers, IOctl_fd, table, trace>>

\* The device holds the module as long as it is open or in use.
Unload ==
    /\ device
    /\ \A a \in Apps : table[a] = {}
    /\ \A f \in Frames : loggers[f].pc \notin InKernel
    /\ device' = FALSE
    /\ UNCHANGED <<limiterVars, loggers, IOctl_fd, table, lf, trace>>

LogFrame(f) ==
    Open(f) \/ Store(f) \/ Ioctl(f) \/ CopyTs(f) \/ CopyPeriod(f)
    \/ ReadPeriod(f) \/ Trace(f) \/ Close(f)

Next ==
    \/ \E a \in Apps : SwapBuffers(a)
    \/ \E f \in Frames : LogFrame(f)
    \/ Load \/ Unload

Spec == Init /\ [][Next]_vars

\* The processes are alike.
Symmetry == Permutations(Apps)

-----------------------------------------------------------------------------
(* Properties.                                                             *)

Records(w, f) == {i \in 1 .. Len(trace) : trace[i][w] = f}

\* A frame is traced once, with its own time and period, if its thread could
\* open the device, had its process for itself and the ioctl for itself:
\* frames get lost, doubled or mixed up by threads that overlap, not
\* otherwise (native_frameworks.patch:57-74, module.c:481-504).
FrameTracedOnce ==
    \A f \in Frames :
        LET l == loggers[f]
        IN l.pc = "done" /\ ~l.shared /\ ~l.raced =>
               /\ Records("ts", f) = Records("period", f)
               /\ Cardinality(Records("ts", f)) = IF l.fd = 0 THEN 0 ELSE 1

\* A record that takes its words from two frames, or a frame's time that is
\* in two records, tells that the two threads were in the ioctl together: the
\* descriptors' mix-up loses frames but corrupts none (module.c:485-497).
MixedOnlyByRace ==
    \A i \in 1 .. Len(trace) :
        /\ trace[i].ts \in Frames /\ trace[i].period \in Frames
        /\ trace[i].ts # trace[i].period =>
               loggers[trace[i].ts].raced /\ loggers[trace[i].period].raced
        /\ \A j \in 1 .. i - 1 : trace[j].ts = trace[i].ts => loggers[trace[i].ts].raced

\* Descriptors that stay open, and with them the module in the kernel, are
\* fewer than the threads that shared the static variable; a process whose
\* threads follow one another leaves none (native_frameworks.patch:60-69).
LeaksOnlyBySharing ==
    \A a \in Apps :
        Live(a) = {} /\ table[a] # {} =>
            Cardinality(table[a]) < Cardinality({f \in Frames : loggers[f].app = a /\ loggers[f].shared})
=============================================================================
