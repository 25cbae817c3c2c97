------------------------------ MODULE Workflow ------------------------------
(***************************************************************************)
(* The control script on the device, src/android/sys_logger.sh, with what  *)
(* it starts: the kernel module, whose thread traces runs as               *)
(* MeasurementRuns promises (the refinement is shown for SysLogger), and   *)
(* the recorder "trace-cmd record", a background process that outlives the *)
(* command and writes trace.dat after it is interrupted.                   *)
(*                                                                         *)
(* A command of the script is the sequence of its steps.  Recorders are    *)
(* known by the number of the session whose setup started them.  Modelled  *)
(* is the path that records in the background: the test of trace_record    *)
(* compares no numbers, so whatever -r says the other one is not taken.    *)
(***************************************************************************)
EXTENDS Naturals, Sequences, FiniteSets

CONSTANT NumSessions    \* bound on setups

ASSUME WorkflowAssumption == NumSessions \in Nat

VARIABLES
    loaded,         \* the module is loaded
    writable,       \* /sys/module/sys_logger/parameters/enabled can be written
    enabled,        \* the parameter
    run, asked, ceased,     \* of MeasurementRuns
    shell,          \* steps left of the command that runs
    session,        \* number of the last setup
    live,           \* recorders that run
    stopping,       \* those of them that have been interrupted
    pid_file,       \* .trace.pid: a recorder, or 0 if there is no file
    trace_dat,      \* whose recording trace.dat is, 0 if there is no file
    marked,         \* history: the recordings that have a start marker
    late,           \* history: recorders still writing when finish ended
    trouble         \* bound: loads and unloads that may still go wrong

moduleVars == <<loaded, writable, enabled, run, asked, ceased, trouble>>
recordVars == <<live, stopping, pid_file, trace_dat, marked, late>>
flowVars == <<moduleVars, recordVars, shell, session>>

Runs == INSTANCE MeasurementRuns

Sessions == 1 .. NumSessions
Steps == {"insmod", "rm_trace_dat", "until_writable", "reset", "record", "pid",
          "enable", "disable", "kill", "rm_pid", "rmmod"}

FlowTypeOK ==
    /\ {loaded, writable, enabled} \subseteq BOOLEAN
    /\ Runs!TypeOK
    /\ shell \in Seq(Steps)
    /\ session \in 0 .. NumSessions
    /\ live \subseteq Sessions /\ stopping \subseteq live
    /\ pid_file \in 0 .. NumSessions
    /\ trace_dat \in 0 .. NumSessions
    /\ marked \cup late \subseteq Sessions
    /\ trouble \in Nat

FlowInit ==
    /\ loaded = FALSE /\ writable = FALSE /\ enabled = FALSE
    /\ Runs!Init
    /\ shell = <<>> /\ session = 0
    /\ live = {} /\ stopping = {} /\ pid_file = 0 /\ trace_dat = 0
    /\ marked = {} /\ late = {}

-----------------------------------------------------------------------------
(* Module and recorder.                                                    *)

Trouble ==
    /\ trouble > 0
    /\ trouble' = trouble - 1

\* insmod: the parameter is sometimes not there afterwards.
Insmod ==
    /\ \/ writable' = TRUE /\ UNCHANGED trouble
       \/ writable' = FALSE /\ Trouble
    /\ loaded' = TRUE /\ enabled' = FALSE
    /\ Runs!NewInstance

\* insmod or rmmod is refused.
Refused ==
    /\ Trouble
    /\ UNCHANGED <<loaded, writable, enabled, run, asked, ceased>>

\* The module goes; rmmod waits for the thread to close its run.
Rmmod ==
    /\ run = "closed"
    /\ loaded' = FALSE /\ writable' = FALSE /\ enabled' = FALSE
    /\ UNCHANGED <<run, asked, ceased>>

ThreadStep ==
    /\ loaded
    /\ Runs!StartMarker \/ Runs!Iteration \/ Runs!EndMarker
    /\ marked' = IF run = "closed" THEN marked \cup (live \ stopping) ELSE marked
    /\ UNCHANGED <<loaded, writable, enabled, trouble, live, stopping, pid_file,
                   trace_dat, late, shell, session>>

\* An interrupted recorder collects its data and writes the file.
RecorderWrites ==
    /\ \E r \in stopping :
           /\ trace_dat' = r
           /\ live' = live \ {r} /\ stopping' = stopping \ {r}
    /\ UNCHANGED <<moduleVars, pid_file, marked, late, shell, session>>

\* A recorder that ends by itself has no file to show.
RecorderDies ==
    /\ \E r \in live : live' = live \ {r} /\ stopping' = stopping \ {r}
    /\ UNCHANGED <<moduleVars, pid_file, trace_dat, marked, late, shell, session>>

-----------------------------------------------------------------------------
(* The commands.                                                           *)

\* A fault: the old recording is removed when a new one can begin.
SetupStepsRemoveLate ==
    (IF loaded THEN <<>> ELSE <<"insmod">>)
        \o <<"until_writable", "rm_trace_dat", "reset", "record", "pid">>

\* "Already setup!" is said and nothing else changes.
SetupSteps ==
    (IF loaded THEN <<>> ELSE <<"insmod">>)
        \o <<"rm_trace_dat", "until_writable", "reset", "record", "pid">>

StartSteps == IF loaded /\ ~enabled THEN <<"enable">> ELSE <<>>

StopSteps == IF loaded /\ enabled THEN <<"disable">> ELSE <<>>

\* Faults: finish leaves the run to the unloading of the module; it removes
\* the file with the recorder's process id before it reads it.
FinishStepsNoStop == IF loaded THEN <<"kill", "rm_pid", "reset", "rmmod">> ELSE <<>>
FinishStepsNoPid == IF loaded THEN StopSteps \o <<"rm_pid", "kill", "reset", "rmmod">> ELSE <<>>

FinishSteps == IF loaded THEN StopSteps \o <<"kill", "rm_pid", "reset", "rmmod">> ELSE <<>>

Interrupted == {pid_file} \cap live

\* The step at the head is carried out, the rest remains.
Step(name) ==
    /\ shell # <<>> /\ Head(shell) = name
    /\ shell' = Tail(shell)
    /\ UNCHANGED session

\* insmod without a look at its result (sys_logger.sh:75).
ShellInsmod ==
    /\ Step("insmod")
    /\ Insmod \/ Refused
    /\ UNCHANGED recordVars

ShellRmTraceDat ==
    /\ Step("rm_trace_dat")
    /\ trace_dat' = 0
    /\ UNCHANGED <<moduleVars, live, stopping, pid_file, marked, late>>

\* The loop that loads the module again until the parameter is there.
ShellWritable ==
    /\ Step("until_writable")
    /\ writable
    /\ UNCHANGED <<moduleVars, recordVars>>

\* The script ends if insmod fails: when the module is gone but does not load,
\* or because it is still there, rmmod having been refused.
ShellReload ==
    /\ shell # <<>> /\ Head(shell) = "until_writable"
    /\ ~writable
    /\ run = "closed"
    /\ \/ Insmod /\ UNCHANGED shell
       \/ Rmmod /\ Trouble /\ shell' = <<>>
       \/ loaded /\ Refused /\ shell' = <<>>
    /\ UNCHANGED <<recordVars, session>>

\* trace-cmd reset, of setup and of finish: the kernel's trace buffers are
\* emptied; a recorder keeps running.
ShellReset ==
    /\ Step("reset")
    /\ UNCHANGED <<moduleVars, recordVars>>

ShellRecord ==
    /\ Step("record")
    /\ live' = live \cup {session}
    /\ UNCHANGED <<moduleVars, stopping, pid_file, trace_dat, marked, late>>

ShellPid ==
    /\ Step("pid")
    /\ pid_file' = session
    /\ UNCHANGED <<moduleVars, live, stopping, trace_dat, marked, late>>

ShellEnable ==
    /\ Step("enable")
    /\ IF writable
       THEN enabled' = TRUE /\ Runs!RequestMeasure /\ UNCHANGED <<loaded, writable, trouble>>
       ELSE UNCHANGED moduleVars
    /\ UNCHANGED recordVars

ShellDisable ==
    /\ Step("disable")
    /\ enabled' = FALSE
    /\ Runs!RequestCease
    /\ UNCHANGED <<loaded, writable, trouble, recordVars>>

\* The wait after the kill is for children of this shell; the recorder is not
\* one.  Five seconds pass, whether it has written its file or not.
ShellKill ==
    /\ Step("kill")
    /\ stopping' = stopping \cup Interrupted
    /\ UNCHANGED <<moduleVars, live, pid_file, trace_dat, marked, late>>

ShellRmPid ==
    /\ Step("rm_pid")
    /\ pid_file' = 0
    /\ UNCHANGED <<moduleVars, live, stopping, trace_dat, marked, late>>

\* rmmod stops the thread, which then closes its run.
ShellStopThread ==
    /\ shell # <<>> /\ Head(shell) = "rmmod"
    /\ run # "closed" /\ ~ceased
    /\ Runs!RequestCease
    /\ UNCHANGED <<loaded, writable, enabled, trouble, recordVars, shell, session>>

\* The kernel refuses if the module's device is open.
ShellRmmod ==
    /\ Step("rmmod")
    /\ (Rmmod /\ UNCHANGED trouble) \/ Refused
    /\ late' = late \cup stopping
    /\ UNCHANGED <<live, stopping, pid_file, trace_dat, marked>>

ShellStep ==
    \/ ShellInsmod \/ ShellRmTraceDat \/ ShellWritable \/ ShellReload
    \/ ShellReset \/ ShellRecord \/ ShellPid \/ ShellEnable \/ ShellDisable
    \/ ShellKill \/ ShellRmPid \/ ShellStopThread \/ ShellRmmod

\* A command begins.
Command(steps) ==
    /\ shell = <<>>
    /\ shell' = steps
    /\ UNCHANGED <<moduleVars, recordVars>>

-----------------------------------------------------------------------------
\* Where the device stands in the order of the usage text.
Stage == IF ~loaded THEN "none" ELSE IF enabled THEN "measuring" ELSE "ready"

Protocol == INSTANCE Session WITH stage <- Stage

\* The script follows the order it tells: nothing measures before a setup, and
\* the module is not unloaded in the middle of a measurement, whatever
\* commands are sent, lost or cut off (sys_logger.sh:29, 234-240).
SessionProtocol == Protocol!Spec
=============================================================================
