----------------------------- MODULE PowerTests -----------------------------
(***************************************************************************)
(* The power tests, src/scripts/auto_tests/power_tests_syslogger.sh: for   *)
(* each frequency the limits of the cores are set (FreqLimits), a session  *)
(* is measured on the device (Workflow), and its recording is fetched,     *)
(* converted and filed under the name of the test.  Before them, somebody  *)
(* has used gov_controller.py on the device.                               *)
(*                                                                         *)
(* Everything goes through adb, one command after the other, and no result *)
(* is looked at: a command that does not arrive is skipped, and one that   *)
(* is cut off on the device is left as it is.                              *)
(***************************************************************************)
EXTENDS Workflow, FreqLimits

CONSTANT
    Days            \* bounds: the call of gov_controller.py, the frequencies
                    \* of the tests, and how often something goes wrong:
                    \* a lost command that sets limits, another one that is
                    \* lost or cut off, a recorder that ends by itself,
                    \* loading or unloading of the module

ASSUME PowerAssumption ==
    Days \subseteq [freq : Freqs, chosen : (SUBSET Cores) \ {{}}, sweep : [1 .. NumSessions -> Freqs],
                    budget : [limits : Nat, commands : Nat, deaths : Nat], trouble : Nat]

VARIABLES
    todo,           \* commands the host has still to send
    results,        \* whose recording is filed for each test, 0 if none
    target,         \* the limits asked for last
    missed,         \* history: cores one of whose writes had no chance since
    unset,          \* history: sessions whose setup was lost or cut off
    unfinished,     \* history: sessions whose finish was lost or cut off
    budget          \* what may still go wrong

hostVars == <<todo, results, target, missed, unset, unfinished, budget>>
vars == <<flowVars, freqVars, hostVars>>

Lowest == CHOOSE f \in Freqs : \A g \in Freqs : f <= g
Highest == CHOOSE f \in Freqs : \A g \in Freqs : f >= g

FreqOps == {"max", "min", "on", "off"}
ShellOps == {"setup", "start", "stop", "finish"}

\* A fault: the loop gives the place of the frequency in its list.
TestByPlace(x, f) ==
    SetLCPUFreq(x, x) \o
    [i \in 1 .. 5 |-> [op |-> <<"setup", "start", "stop", "finish", "pull">>[i], test |-> x]]

\* runTest, with the setting of one cluster.
Test(x, f) ==
    SetLCPUFreq(f, f) \o
    [i \in 1 .. 5 |-> [op |-> <<"setup", "start", "stop", "finish", "pull">>[i], test |-> x]]

\* The whole of a day: gov_controller.py, restoreSystem, the tests, and
\* restoreSystem again.  Of restoreSystem it is the setting of this cluster,
\* whose cores it does not switch on.
Script(day) ==
    GetCores \o SetCoreFreqs(day.freq, day.chosen)
        \o SetLCPUFreq(Lowest, Highest)
        \o FlattenSeq([x \in Sessions |-> Test(x, day.sweep[x])])
        \o SetLCPUFreq(Lowest, Highest)

TypeOK ==
    /\ FlowTypeOK
    /\ FreqTypeOK
    /\ \A i \in DOMAIN todo : todo[i].op \in FreqOps \cup ShellOps \cup {"target", "pull"}
    /\ results \in [Sessions -> 0 .. NumSessions]
    /\ target.low \in Freqs /\ target.high \in Freqs
    /\ missed \subseteq Cores
    /\ unset \cup unfinished \subseteq Sessions
    /\ budget \in [limits : Nat, commands : Nat, deaths : Nat]

Init ==
    /\ FlowInit
    /\ online = Cores
    /\ scaling_min \in Freqs /\ scaling_max \in Freqs /\ scaling_min <= scaling_max
    /\ \E day \in Days : todo = Script(day) /\ budget = day.budget /\ trouble = day.trouble
    /\ results = [x \in Sessions |-> 0]
    /\ target = Target(scaling_min, scaling_max)
    /\ missed = {}
    /\ unset = {} /\ unfinished = {}

-----------------------------------------------------------------------------
(* The host.                                                               *)

\* The next command is op; the host goes on when no command runs on the device.
Sends(ops) ==
    /\ shell = <<>>
    /\ todo # <<>> /\ Head(todo).op \in ops
    /\ todo' = Tail(todo)

NewTarget ==
    /\ Sends({"target"})
    /\ target' = Head(todo)
    /\ missed' = {}
    /\ UNCHANGED <<flowVars, freqVars, results, unset, unfinished, budget>>

\* What a command on the cores does; without effect if the core is off.
SendFreq ==
    /\ Sends(FreqOps)
    /\ LET cmd == Head(todo)
       IN /\ \/ cmd.op = "max" /\ WriteMax(cmd.core, cmd.freq)
             \/ cmd.op = "min" /\ WriteMin(cmd.core, cmd.freq)
             \/ cmd.op = "on" /\ WriteOnline(cmd.core, TRUE)
             \/ cmd.op = "off" /\ WriteOnline(cmd.core, FALSE)
          /\ missed' = IF cmd.op = "off"
                          \/ (cmd.op \in {"max", "min"} /\ cmd.core \notin online)
                       THEN missed \cup {cmd.core} ELSE missed
    /\ UNCHANGED <<flowVars, results, target, unset, unfinished, budget>>

SendShell ==
    /\ Sends(ShellOps)
    /\ LET cmd == Head(todo)
       IN /\ Command(CASE cmd.op = "setup" -> SetupSteps
                       [] cmd.op = "start" -> StartSteps
                       [] cmd.op = "stop" -> StopSteps
                       [] cmd.op = "finish" -> FinishSteps)
          /\ session' = cmd.test
    /\ UNCHANGED <<freqVars, results, target, missed, unset, unfinished, budget>>

\* pullConvTraceDat: a trace without a start marker, or none at all, gives no
\* powerlogger-0.csv to copy.  The files on the host are removed afterwards,
\* the one on the device stays.
Pull ==
    /\ Sends({"pull"})
    /\ results' = [results EXCEPT ![Head(todo).test] =
                      IF trace_dat \in marked THEN trace_dat ELSE 0]
    /\ UNCHANGED <<flowVars, freqVars, target, missed, unset, unfinished, budget>>

Spend(kind) ==
    /\ budget[kind] > 0
    /\ budget' = [budget EXCEPT ![kind] = @ - 1]

\* The next command does not arrive.
LoseFreq ==
    /\ Spend("limits")
    /\ Sends(FreqOps)
    /\ missed' = IF Head(todo).op = "on" THEN missed ELSE missed \cup {Head(todo).core}
    /\ UNCHANGED <<flowVars, freqVars, results, target, unset, unfinished>>

LoseCommand ==
    /\ Spend("commands")
    /\ Sends(ShellOps \cup {"pull"})
    /\ LET cmd == Head(todo)
       IN /\ unset' = IF cmd.op = "setup" THEN unset \cup {cmd.test} ELSE unset
          /\ unfinished' = IF cmd.op = "finish" THEN unfinished \cup {cmd.test} ELSE unfinished
    /\ UNCHANGED <<flowVars, freqVars, results, target, missed>>

\* The command that runs on the device ends early, with the connection.
CutOff ==
    /\ Spend("commands")
    /\ shell # <<>>
    /\ shell' = <<>>
    /\ unset' = IF "pid" \in ToSet(shell) THEN unset \cup {session} ELSE unset
    /\ unfinished' = IF "rmmod" \in ToSet(shell) THEN unfinished \cup {session} ELSE unfinished
    /\ UNCHANGED <<moduleVars, recordVars, session, freqVars, todo, results, target, missed>>

Death ==
    /\ Spend("deaths")
    /\ RecorderDies
    /\ UNCHANGED <<freqVars, todo, results, target, missed, unset, unfinished>>

Host == NewTarget \/ SendFreq \/ SendShell \/ Pull
Device == (ShellStep \/ ThreadStep \/ RecorderWrites) /\ UNCHANGED <<freqVars, hostVars>>

Next == Host \/ Device \/ LoseFreq \/ LoseCommand \/ CutOff \/ Death

\* Host and shell go on, the thread of a loaded module runs, and a recorder
\* that is interrupted writes its file.
Fairness ==
    /\ WF_vars(Host)
    /\ WF_vars(ShellStep /\ UNCHANGED <<freqVars, hostVars>>)
    /\ WF_vars(ThreadStep /\ UNCHANGED <<freqVars, hostVars>>)
    /\ WF_vars(RecorderWrites /\ UNCHANGED <<freqVars, hostVars>>)

Spec == Init /\ [][Next]_vars /\ Fairness

-----------------------------------------------------------------------------
(* Properties.                                                             *)

\* The commands that set limits have all been sent.
LimitsSet == todo = <<>> \/ Head(todo).op \notin FreqOps

\* When the limits have been set they are in force, though the kernel refuses
\* some of the writes, whatever they were before and whichever script came
\* first -- as long as two cores of the cluster got all their commands: the
\* write refused for the first is accepted for the second
\* (power_tests_syslogger.sh:144-157, gov_controller.py:91-106).
LimitsInForce ==
    LimitsSet =>
        \/ scaling_min = target.low /\ scaling_max = target.high
        \/ Cardinality(Cores \ missed) < 2

\* What is filed for a test was recorded in its own session, and where nothing
\* was recorded nothing is filed.  The recording of another session is only
\* filed if the setup, which removes it, did not run to its end, or the
\* recorder of the other session was not done when its finish ended
\* (power_tests_syslogger.sh:174-255, sys_logger.sh:86 and 255-260).
ResultFresh ==
    \A x \in Sessions :
        LET y == results[x]
        IN y \in {0, x} \/ x \in unset \/ y \in late \cup unfinished

\* A recorder is interrupted by the finish of its session, or ends by itself;
\* it goes on only if its setup or its finish did not run to the end
\* (sys_logger.sh:163 and 255-260).
RecordersStop ==
    \A r \in Sessions : r \in live ~> (r \notin live \/ r \in unset \cup unfinished)
=============================================================================
