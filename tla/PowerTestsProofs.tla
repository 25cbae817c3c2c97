-------------------------- MODULE PowerTestsProofs --------------------------
(***************************************************************************)
(* Proofs about the power tests, for any number of sessions, cores and     *)
(* frequencies, any script of the host, and commands that are lost or cut  *)
(* off at any step: the control script follows the order its usage text    *)
(* tells (PowerTests implements Session), the limits of the cluster are in *)
(* force once they have been set, and what is filed for a test was         *)
(* recorded in its own session.                                            *)
(***************************************************************************)
EXTENDS PowerTests, InductionLemmas

\* What the steps that are left of a command rely on: a module is only loaded
\* when there is none, and enabled when it is loaded and not; it is unloaded
\* when it is not enabled, or has been disabled before.
ShellInv ==
    /\ shell \in Seq(Steps)
    /\ enabled => loaded /\ writable
    /\ \A i \in 1 .. Len(shell) :
           /\ shell[i] = "insmod" => i = 1 /\ ~loaded
           /\ shell[i] = "enable" => Len(shell) = 1 /\ loaded /\ ~enabled
           /\ shell[i] = "rmmod" /\ enabled => i > 1 /\ shell[1] = "disable"

LEMMA InitShell == Init => ShellInv /\ Stage = "none"
BY DEF Init, FlowInit, ShellInv, Stage

\* The same of the commands as they begin.
ReadySteps(steps) ==
    /\ steps \in Seq(Steps)
    /\ \A i \in 1 .. Len(steps) :
           /\ steps[i] = "insmod" => i = 1 /\ ~loaded
           /\ steps[i] = "enable" => Len(steps) = 1 /\ loaded /\ ~enabled
           /\ steps[i] = "rmmod" /\ enabled => i > 1 /\ steps[1] = "disable"

LEMMA CommandsReady ==
    ASSUME ShellInv
    PROVE  ReadySteps(SetupSteps) /\ ReadySteps(StartSteps)
           /\ ReadySteps(StopSteps) /\ ReadySteps(FinishSteps)
<1>1. ReadySteps(SetupSteps)
  <2>1. CASE loaded
    <3>1. SetupSteps = <<"rm_trace_dat", "until_writable", "reset", "record", "pid">>
      BY <2>1 DEF SetupSteps
    <3> QED
      BY <3>1 DEF ReadySteps, Steps
  <2>2. CASE ~loaded
    <3> DEFINE rest == <<"rm_trace_dat", "until_writable", "reset", "record", "pid">>
    <3>1. rest \in Seq(Steps \ {"insmod", "enable", "rmmod"})
      BY DEF Steps
    <3>2. SetupSteps = <<"insmod">> \o rest /\ "insmod" \in Steps
      BY <2>2 DEF SetupSteps, Steps
    <3> HIDE DEF rest
    <3>3. /\ SetupSteps \in Seq(Steps) /\ SetupSteps[1] = "insmod"
          /\ \A i \in 1 .. Len(SetupSteps) :
                 i # 1 => SetupSteps[i] \in Steps \ {"insmod", "enable", "rmmod"}
      BY <3>1, <3>2
    <3> QED
      BY <2>2, <3>3 DEF ReadySteps
  <2> QED
    BY <2>1, <2>2
<1>2. ReadySteps(StartSteps)
  <2>1. CASE loaded /\ ~enabled
    <3>1. StartSteps = <<"enable">>
      BY <2>1 DEF StartSteps
    <3> QED
      BY <2>1, <3>1 DEF ReadySteps, Steps
  <2>2. CASE ~(loaded /\ ~enabled)
    BY <2>2 DEF ReadySteps, StartSteps
  <2> QED
    BY <2>1, <2>2
<1>3. ReadySteps(StopSteps)
  <2>1. CASE loaded /\ enabled
    <3>1. StopSteps = <<"disable">>
      BY <2>1 DEF StopSteps
    <3> QED
      BY <2>1, <3>1 DEF ReadySteps, Steps
  <2>2. CASE ~(loaded /\ enabled)
    BY <2>2 DEF ReadySteps, StopSteps
  <2> QED
    BY <2>1, <2>2
<1>4. ReadySteps(FinishSteps)
  <2> DEFINE rest == <<"kill", "rm_pid", "reset", "rmmod">>
  <2>1. /\ rest \in Seq(Steps)
        /\ \A i \in 1 .. Len(rest) : rest[i] \notin {"insmod", "enable"}
    BY DEF Steps
  <2>2. loaded => FinishSteps = StopSteps \o rest
    BY DEF FinishSteps
  <2> HIDE DEF rest
  <2>3. CASE loaded /\ enabled
    <3>1. FinishSteps = <<"disable">> \o rest /\ "disable" \in Steps
      BY <2>2, <2>3 DEF StopSteps, Steps
    <3>2. /\ FinishSteps \in Seq(Steps) /\ FinishSteps[1] = "disable"
          /\ \A i \in 1 .. Len(FinishSteps) : FinishSteps[i] \notin {"insmod", "enable"}
      BY <2>1, <3>1
    <3> QED
      BY <3>2 DEF ReadySteps
  <2>4. CASE loaded /\ ~enabled
    <3>1. FinishSteps = rest
      BY <2>1, <2>2, <2>4 DEF StopSteps
    <3> QED
      BY <2>1, <2>4, <3>1 DEF ReadySteps
  <2>5. CASE ~loaded
    BY <2>5 DEF FinishSteps, ReadySteps
  <2> QED
    BY <2>3, <2>4, <2>5
<1> QED
  BY <1>1, <1>2, <1>3, <1>4

\* What a step of the device does to the order of the workflow.
StageStep == Protocol!Next \/ UNCHANGED Stage

\* A step that is taken off leaves the steps behind it as they were.
LEMMA TailSteps ==
    ASSUME ShellInv, NEW name, Step(name)
    PROVE  /\ shell[1] = name /\ Len(shell) > 0 /\ shell' \in Seq(Steps)
           /\ Len(shell') = Len(shell) - 1
           /\ \A i \in 1 .. Len(shell') : shell'[i] = shell[i + 1]
BY DEF ShellInv, Step

LEMMA DeviceStep ==
    ASSUME ShellInv, ShellStep
    PROVE  ShellInv' /\ StageStep
<1> USE DEF StageStep, Stage, Protocol!Next, Protocol!Setup, Protocol!Start, Protocol!Stop, Protocol!Finish
<1>1. CASE ShellInsmod
  BY <1>1, TailSteps DEF ShellInsmod, Insmod, Refused, ShellInv
<1>2. CASE ShellRmTraceDat
  BY <1>2, TailSteps DEF ShellRmTraceDat, moduleVars, ShellInv
<1>3. CASE ShellWritable
  BY <1>3, TailSteps DEF ShellWritable, moduleVars, ShellInv
<1>4. CASE ShellReload
  <2>1. ~enabled /\ shell \in Seq(Steps) /\ Len(shell) > 0 /\ shell[1] = "until_writable"
    BY <1>4 DEF ShellReload, ShellInv
  <2>2. CASE Insmod /\ UNCHANGED shell
    <3>1. loaded' /\ ~enabled' /\ shell' = shell
      BY <2>2 DEF Insmod
    <3>2. ShellInv'
      <4>1. \A i \in 1 .. Len(shell) : shell[i] \notin {"insmod", "enable"}
        BY <2>1 DEF ShellInv
      <4> QED
        BY <2>1, <3>1, <4>1 DEF ShellInv
    <3> QED
      BY <2>1, <3>1, <3>2
  <2>3. CASE Rmmod /\ shell' = <<>>
    BY <2>1, <2>3 DEF Rmmod, ShellInv
  <2>4. CASE Refused /\ shell' = <<>>
    BY <2>1, <2>4 DEF Refused, ShellInv
  <2> QED
    BY <1>4, <2>2, <2>3, <2>4 DEF ShellReload
<1>5. CASE ShellReset
  BY <1>5, TailSteps DEF ShellReset, moduleVars, ShellInv
<1>6. CASE ShellRecord
  BY <1>6, TailSteps DEF ShellRecord, moduleVars, ShellInv
<1>7. CASE ShellPid
  BY <1>7, TailSteps DEF ShellPid, moduleVars, ShellInv
<1>8. CASE ShellEnable
  BY <1>8, TailSteps DEF ShellEnable, moduleVars, ShellInv
<1>9. CASE ShellDisable
  <2>1. Step("disable") /\ ~enabled' /\ UNCHANGED <<loaded, writable>>
    BY <1>9 DEF ShellDisable
  <2>2. \A i \in 1 .. Len(shell') : shell'[i] \notin {"insmod", "enable"}
    BY <2>1, TailSteps DEF ShellInv
  <2>3. ShellInv'
    BY <2>1, <2>2, TailSteps DEF ShellInv
  <2> QED
    BY <2>1, <2>3
<1>10. CASE ShellKill
  BY <1>10, TailSteps DEF ShellKill, moduleVars, ShellInv
<1>11. CASE ShellRmPid
  BY <1>11, TailSteps DEF ShellRmPid, moduleVars, ShellInv
<1>12. CASE ShellStopThread
  BY <1>12 DEF ShellStopThread, ShellInv
<1>13. CASE ShellRmmod
  BY <1>13, TailSteps DEF ShellRmmod, Rmmod, Refused, ShellInv
<1> QED
  BY <1>1, <1>2, <1>3, <1>4, <1>5, <1>6, <1>7, <1>8, <1>9, <1>10, <1>11, <1>12, <1>13
     DEF ShellStep

\* Whatever leaves the module and its parameter alone, and the command or cuts
\* it off, keeps both.
LEMMA QuietStep ==
    ASSUME ShellInv, UNCHANGED <<loaded, writable, enabled>>, shell' \in {shell, <<>>}
    PROVE  ShellInv' /\ StageStep
<1>1. ASSUME shell' = shell
      PROVE  ShellInv'
  BY <1>1 DEF ShellInv
<1>2. ASSUME shell' = <<>>
      PROVE  ShellInv'
  BY <1>2 DEF ShellInv
<1>3. StageStep
  BY DEF StageStep, Stage
<1> QED
  BY <1>1, <1>2, <1>3

LEMMA CommandBegins ==
    ASSUME ShellInv, SendShell
    PROVE  ShellInv' /\ StageStep
<1>1. /\ shell' \in {SetupSteps, StartSteps, StopSteps, FinishSteps}
      /\ UNCHANGED moduleVars
  <2>1. Sends(ShellOps)
    BY DEF SendShell
  <2>2. Head(todo).op \in {"setup", "start", "stop", "finish"}
    BY <2>1 DEF Sends, ShellOps
  <2> QED
    BY <2>2 DEF SendShell, Command
<1>2. ReadySteps(shell')
  BY <1>1, CommandsReady
<1> QED
  BY <1>1, <1>2 DEF ShellInv, ReadySteps, moduleVars, StageStep, Stage

LEMMA ShellAlways == ShellInv /\ [Next]_vars => ShellInv' /\ StageStep
<1> SUFFICES ASSUME ShellInv, [Next]_vars
             PROVE  ShellInv' /\ StageStep
  OBVIOUS
<1>1. CASE NewTarget \/ SendFreq \/ Pull \/ LoseFreq \/ LoseCommand \/ CutOff \/ Death \/ UNCHANGED vars
  <2>1. UNCHANGED <<loaded, writable, enabled>> /\ shell' \in {shell, <<>>}
    BY <1>1 DEF NewTarget, SendFreq, Pull, LoseFreq, LoseCommand, CutOff, Death, RecorderDies,
       vars, flowVars, moduleVars
  <2> QED
    BY <2>1, QuietStep
<1>2. CASE SendShell
  BY <1>2, CommandBegins
<1>3. CASE Device
  <2>1. CASE ShellStep
    BY <2>1, DeviceStep
  <2>2. CASE ThreadStep \/ RecorderWrites
    <3>1. UNCHANGED <<loaded, writable, enabled, shell>>
      BY <2>2 DEF ThreadStep, RecorderWrites, moduleVars
    <3> QED
      BY <3>1, QuietStep
  <2> QED
    BY <1>3, <2>1, <2>2 DEF Device
<1> QED
  BY <1>1, <1>2, <1>3 DEF Next, Host

\* The script follows the order it tells: nothing is measured before a setup,
\* and the module is not unloaded in the middle of a measurement -- for any
\* number of sessions, any days of tests, and whatever is lost or cut off.
THEOREM FollowsWorkflow == Spec => SessionProtocol
<1>1. Init => ShellInv /\ Protocol!Init
  BY InitShell DEF Protocol!Init
<1>2. ShellInv /\ [Next]_vars => ShellInv' /\ [Protocol!Next]_Stage
  BY ShellAlways DEF StageStep
<1> QED
  BY <1>1, <1>2, PTL DEF Spec, SessionProtocol, Protocol!Spec

-----------------------------------------------------------------------------
(* The limits.  What is said of the commands still to be sent is said of   *)
(* sequences of commands, such that it holds of the rest when one is sent. *)

\* A command of the host.
Call ==
    [op : FreqOps, core : Cores, freq : Freqs \cup {0}]
    \cup [op : {"target"}, low : Freqs, high : Freqs]
    \cup [op : ShellOps \cup {"pull"}, test : Sessions]

\* Commands on the cores with nothing between them are a batch.
InBatch(q, i, j) == \A m \in i .. j : q[m].op \in FreqOps

\* The batch, from i on, has a command op for core c.
Asks(q, i, op, c) ==
    \E j \in i .. Len(q) : InBatch(q, i, j) /\ q[j].op = op /\ q[j].core = c

Writes == {"max", "min"}
Counter(op) == IF op = "max" THEN "min" ELSE "max"

\* The writes of a batch write the limits of the target before it, and each
\* core gets both of them or is switched off.
Targeted(q) ==
    \A i \in 1 .. Len(q) : q[i].op = "target" =>
        /\ q[i].low <= q[i].high
        /\ \A j \in i + 1 .. Len(q) : InBatch(q, i + 1, j) =>
               /\ q[j].op = "max" => q[j].freq = q[i].high
               /\ q[j].op = "min" => q[j].freq = q[i].low
        /\ \A c \in Cores : \/ Asks(q, i + 1, "off", c)
                            \/ Asks(q, i + 1, "max", c) /\ Asks(q, i + 1, "min", c)

\* Each limit is written once for each core, and the other one right before or
\* after: if it is not the next command, its counterpart is still to be sent.
Paired(q) ==
    \A j \in 1 .. Len(q) : \A i \in 1 .. j - 1 : InBatch(q, i, j) /\ q[j].op \in Writes =>
        /\ ~(q[i].op = q[j].op /\ q[i].core = q[j].core)
        /\ Asks(q, i, Counter(q[j].op), q[j].core)

\* A command of a session is followed by the next one of the same session, and
\* a batch follows a target, or is the first.
Later == {"start", "stop", "finish", "pull"}
Successions == {<<"setup", "start">>, <<"start", "stop">>, <<"stop", "finish">>, <<"finish", "pull">>}

MayFollow(x, y) ==
    IF x.op \in ShellOps THEN <<x.op, y.op>> \in Successions /\ y.test = x.test
    ELSE y.op \notin Later /\ (x.op = "pull" => y.op \notin FreqOps)

Led(q) ==
    /\ \A i \in 1 .. Len(q) - 1 : MayFollow(q[i], q[i + 1])
    /\ Len(q) > 0 => q[Len(q)].op \notin ShellOps

Orderly(q) == q \in Seq(Call) /\ Targeted(q) /\ Paired(q) /\ Led(q)

\* A sequence that begins with a target.
Begins(q) == q # <<>> /\ q[1].op = "target"

LEMMA OrderlyTail ==
    ASSUME NEW q, Orderly(q), q # <<>>
    PROVE  /\ Orderly(Tail(q))
           /\ Head(q) = q[1] /\ Head(q) \in Call /\ Len(q) \in Nat \ {0}
           /\ Len(Tail(q)) = Len(q) - 1
           /\ \A i \in 1 .. Len(q) - 1 : Tail(q)[i] = q[i + 1]
           /\ \A i, j \in Nat \ {0} : j < Len(q) =>
                  (InBatch(Tail(q), i, j) <=> InBatch(q, i + 1, j + 1))
           /\ \A i \in Nat \ {0} : \A op, c : Asks(Tail(q), i, op, c) <=> Asks(q, i + 1, op, c)
<1> DEFINE t == Tail(q)
           n == Len(q) - 1
<1>1. /\ t \in Seq(Call) /\ Len(q) \in Nat \ {0} /\ Len(t) = n /\ n \in Nat
      /\ Head(q) = q[1] /\ Head(q) \in Call
      /\ \A i \in 1 .. n : t[i] = q[i + 1]
  BY DEF Orderly
<1> HIDE DEF t
<1>2. ASSUME NEW i \in Nat \ {0}, NEW j \in Nat \ {0}, j < Len(q)
      PROVE  InBatch(t, i, j) <=> InBatch(q, i + 1, j + 1)
  <2>1. ASSUME InBatch(t, i, j)
        PROVE  InBatch(q, i + 1, j + 1)
    <3> SUFFICES ASSUME NEW m \in i + 1 .. j + 1
                 PROVE  q[m].op \in FreqOps
      BY DEF InBatch
    <3>1. m - 1 \in i .. j /\ m - 1 \in 1 .. n /\ (m - 1) + 1 = m
      BY <1>1, <1>2
    <3> QED
      BY <1>1, <2>1, <3>1 DEF InBatch
  <2>2. ASSUME InBatch(q, i + 1, j + 1)
        PROVE  InBatch(t, i, j)
    <3> SUFFICES ASSUME NEW m \in i .. j
                 PROVE  t[m].op \in FreqOps
      BY DEF InBatch
    <3>1. m + 1 \in i + 1 .. j + 1 /\ m \in 1 .. n
      BY <1>1, <1>2
    <3> QED
      BY <1>1, <2>2, <3>1 DEF InBatch
  <2> QED
    BY <2>1, <2>2
<1>3. ASSUME NEW i \in Nat \ {0}, NEW op, NEW c
      PROVE  Asks(t, i, op, c) <=> Asks(q, i + 1, op, c)
  <2>1. ASSUME NEW j \in i .. Len(t), InBatch(t, i, j), t[j].op = op, t[j].core = c
        PROVE  Asks(q, i + 1, op, c)
    <3>1. j \in 1 .. n /\ j \in Nat \ {0} /\ j < Len(q) /\ j + 1 \in i + 1 .. Len(q)
      BY <1>1
    <3>2. InBatch(q, i + 1, j + 1) /\ t[j] = q[j + 1]
      BY <1>1, <1>2, <2>1, <3>1
    <3> QED
      BY <2>1, <3>1, <3>2 DEF Asks
  <2>2. ASSUME NEW k \in i + 1 .. Len(q), InBatch(q, i + 1, k), q[k].op = op, q[k].core = c
        PROVE  Asks(t, i, op, c)
    <3> DEFINE j == k - 1
    <3>1. j \in 1 .. n /\ j \in Nat \ {0} /\ j < Len(q) /\ j \in i .. Len(t) /\ j + 1 = k
      BY <1>1
    <3> HIDE DEF j
    <3>2. InBatch(t, i, j) /\ t[j] = q[k]
      BY <1>1, <1>2, <2>2, <3>1
    <3> QED
      BY <2>2, <3>1, <3>2 DEF Asks
  <2> QED
    BY <2>1, <2>2 DEF Asks
<1>4. Targeted(t)
  <2> SUFFICES ASSUME NEW i \in 1 .. Len(t), t[i].op = "target"
               PROVE  /\ t[i].low <= t[i].high
                      /\ \A j \in i + 1 .. Len(t) : InBatch(t, i + 1, j) =>
                             /\ t[j].op = "max" => t[j].freq = t[i].high
                             /\ t[j].op = "min" => t[j].freq = t[i].low
                      /\ \A c \in Cores :
                             \/ Asks(t, i + 1, "off", c)
                             \/ Asks(t, i + 1, "max", c) /\ Asks(t, i + 1, "min", c)
    BY DEF Targeted
  <2>1. t[i] = q[i + 1] /\ i + 1 \in 1 .. Len(q) /\ i + 1 \in Nat \ {0}
    BY <1>1
  <2>2. /\ q[i + 1].low <= q[i + 1].high
        /\ \A j \in (i + 1) + 1 .. Len(q) : InBatch(q, (i + 1) + 1, j) =>
               /\ q[j].op = "max" => q[j].freq = q[i + 1].high
               /\ q[j].op = "min" => q[j].freq = q[i + 1].low
        /\ \A c \in Cores :
               \/ Asks(q, (i + 1) + 1, "off", c)
               \/ Asks(q, (i + 1) + 1, "max", c) /\ Asks(q, (i + 1) + 1, "min", c)
    BY <2>1 DEF Orderly, Targeted
  <2>3. ASSUME NEW j \in i + 1 .. Len(t), InBatch(t, i + 1, j)
        PROVE  /\ t[j].op = "max" => t[j].freq = t[i].high
               /\ t[j].op = "min" => t[j].freq = t[i].low
    <3>1. j \in Nat \ {0} /\ j < Len(q) /\ j \in 1 .. n /\ j + 1 \in (i + 1) + 1 .. Len(q)
      BY <1>1
    <3>2. InBatch(q, (i + 1) + 1, j + 1) /\ t[j] = q[j + 1]
      BY <1>1, <1>2, <2>1, <2>3, <3>1
    <3> QED
      BY <2>1, <2>2, <3>1, <3>2
  <2> QED
    BY <1>3, <2>1, <2>2, <2>3
<1>5. Paired(t)
  <2> SUFFICES ASSUME NEW j \in 1 .. Len(t), NEW i \in 1 .. j - 1, InBatch(t, i, j), t[j].op \in Writes
               PROVE  /\ ~(t[i].op = t[j].op /\ t[i].core = t[j].core)
                      /\ Asks(t, i, Counter(t[j].op), t[j].core)
    BY DEF Paired
  <2>1. /\ i \in Nat \ {0} /\ j \in Nat \ {0} /\ j < Len(q) /\ i \in 1 .. n /\ j \in 1 .. n
        /\ j + 1 \in 1 .. Len(q) /\ i + 1 \in 1 .. (j + 1) - 1
    BY <1>1
  <2>2. t[i] = q[i + 1] /\ t[j] = q[j + 1] /\ InBatch(q, i + 1, j + 1)
    BY <1>1, <1>2, <2>1
  <2> QED
    BY <1>3, <2>1, <2>2 DEF Orderly, Paired
<1>6. Led(t)
  <2>1. ASSUME NEW i \in 1 .. Len(t) - 1
        PROVE  MayFollow(t[i], t[i + 1])
    <3>1. i \in 1 .. n /\ i + 1 \in 1 .. n /\ i + 1 \in 1 .. Len(q) - 1
      BY <1>1
    <3> QED
      BY <1>1, <3>1 DEF Orderly, Led
  <2>2. ASSUME Len(t) > 0
        PROVE  t[Len(t)].op \notin ShellOps
    <3>1. n \in 1 .. n /\ n + 1 = Len(q) /\ Len(q) > 0
      BY <1>1, <2>2
    <3> QED
      BY <1>1, <3>1 DEF Orderly, Led
  <2> QED
    BY <2>1, <2>2 DEF Led
<1>7. Orderly(t)
  BY <1>1, <1>4, <1>5, <1>6 DEF Orderly
<1> QED
  BY <1>1, <1>2, <1>3, <1>7 DEF t

\* What may come after the first.
LEMMA HeadFollowed ==
    ASSUME NEW q, Orderly(q), q # <<>>
    PROVE  /\ Tail(q) # <<>> => MayFollow(Head(q), Head(Tail(q)))
           /\ Head(q).op \in ShellOps => Tail(q) # <<>>
<1>1. q \in Seq(Call) /\ Led(q) /\ Head(q) = q[1] /\ Len(q) \in Nat \ {0}
  BY DEF Orderly
<1>2. ASSUME Tail(q) # <<>>
      PROVE  1 \in 1 .. Len(q) - 1 /\ Head(Tail(q)) = q[1 + 1]
  BY <1>1, <1>2
<1>3. Tail(q) = <<>> => Len(q) = 1
  <2>1. Len(Tail(q)) = Len(q) - 1
    BY OrderlyTail
  <2> QED
    BY <1>1, <2>1
<1> QED
  BY <1>1, <1>2, <1>3 DEF Led

\* Two such sequences in a row, if the second does not go on with the batch of
\* the first.
LEMMA OrderlyJoin ==
    ASSUME NEW p, NEW q, Orderly(p), Orderly(q), q = <<>> \/ q[1].op \in {"target", "setup"}
    PROVE  Orderly(p \o q)
<1> DEFINE r == p \o q
           k == Len(p)
           n == Len(q)
<1>1. /\ r \in Seq(Call) /\ k \in Nat /\ n \in Nat /\ Len(r) = k + n
      /\ \A i \in 1 .. k : r[i] = p[i]
      /\ \A i \in 1 .. n : r[k + i] = q[i]
  BY DEF Orderly
<1>2. n # 0 => q[1].op \in {"target", "setup"} /\ q[1].op \notin FreqOps
  BY DEF Orderly, FreqOps
<1> HIDE DEF r, k, n
<1>3. \A i \in 1 .. k + n : i \in 1 .. k \/ (i - k \in 1 .. n /\ r[i] = q[i - k])
  <2> SUFFICES ASSUME NEW i \in 1 .. k + n, i \notin 1 .. k
               PROVE  i - k \in 1 .. n /\ r[i] = q[i - k]
    OBVIOUS
  <2>1. i - k \in 1 .. n /\ k + (i - k) = i
    BY <1>1
  <2> QED
    BY <1>1, <2>1
\* A batch that begins in the first sequence ends there.
<1>4. ASSUME NEW i \in 1 .. k + 1, NEW j \in i .. k + n, InBatch(r, i, j)
      PROVE  j <= k
  <2> SUFFICES ASSUME j > k
               PROVE  FALSE
    BY <1>1
  <2>1. k + 1 \in i .. j /\ 1 \in 1 .. n /\ n # 0
    BY <1>1
  <2>2. r[k + 1].op \in FreqOps
    BY <1>4, <2>1 DEF InBatch
  <2> QED
    BY <1>1, <1>2, <2>1, <2>2
<1>5. ASSUME NEW i \in Nat \ {0}, NEW j \in Nat, j <= k
      PROVE  InBatch(r, i, j) <=> InBatch(p, i, j)
  <2>1. \A m \in i .. j : m \in 1 .. k /\ r[m] = p[m]
    BY <1>1, <1>5
  <2> QED
    BY <2>1 DEF InBatch
<1>6. ASSUME NEW i \in Nat \ {0}, NEW j \in Nat, j <= n
      PROVE  InBatch(r, k + i, k + j) <=> InBatch(q, i, j)
  <2>1. ASSUME InBatch(r, k + i, k + j)
        PROVE  InBatch(q, i, j)
    <3> SUFFICES ASSUME NEW m \in i .. j
                 PROVE  q[m].op \in FreqOps
      BY DEF InBatch
    <3>1. m \in 1 .. n /\ k + m \in k + i .. k + j
      BY <1>1, <1>6
    <3> QED
      BY <1>1, <2>1, <3>1 DEF InBatch
  <2>2. ASSUME InBatch(q, i, j)
        PROVE  InBatch(r, k + i, k + j)
    <3> SUFFICES ASSUME NEW m \in k + i .. k + j
                 PROVE  r[m].op \in FreqOps
      BY DEF InBatch
    <3>1. m - k \in 1 .. n /\ m - k \in i .. j /\ k + (m - k) = m
      BY <1>1, <1>6
    <3>2. r[m] = q[m - k]
      BY <1>1, <3>1
    <3> QED
      BY <2>2, <3>1, <3>2 DEF InBatch
  <2> QED
    BY <2>1, <2>2
<1>7. ASSUME NEW i \in Nat \ {0}, NEW op, NEW c, Asks(p, i, op, c)
      PROVE  Asks(r, i, op, c)
  <2>1. PICK j \in i .. k : InBatch(p, i, j) /\ p[j].op = op /\ p[j].core = c
    BY <1>7 DEF Asks, k
  <2>2. j \in Nat /\ j <= k /\ j \in 1 .. k /\ j \in i .. Len(r)
    BY <1>1
  <2>3. InBatch(r, i, j) /\ r[j] = p[j]
    BY <1>1, <1>5, <2>1, <2>2
  <2> QED
    BY <2>1, <2>2, <2>3 DEF Asks
<1>8. ASSUME NEW i \in Nat \ {0}, NEW op, NEW c, Asks(q, i, op, c)
      PROVE  Asks(r, k + i, op, c)
  <2>1. PICK j \in i .. n : InBatch(q, i, j) /\ q[j].op = op /\ q[j].core = c
    BY <1>8 DEF Asks, n
  <2>2. j \in Nat /\ j <= n /\ j \in 1 .. n /\ k + j \in k + i .. Len(r)
    BY <1>1
  <2>3. InBatch(r, k + i, k + j) /\ r[k + j] = q[j]
    BY <1>1, <1>6, <2>1, <2>2
  <2> QED
    BY <2>1, <2>2, <2>3 DEF Asks
<1>9. Targeted(r)
  <2> SUFFICES ASSUME NEW i \in 1 .. Len(r), r[i].op = "target"
               PROVE  /\ r[i].low <= r[i].high
                      /\ \A j \in i + 1 .. Len(r) : InBatch(r, i + 1, j) =>
                             /\ r[j].op = "max" => r[j].freq = r[i].high
                             /\ r[j].op = "min" => r[j].freq = r[i].low
                      /\ \A c \in Cores :
                             \/ Asks(r, i + 1, "off", c)
                             \/ Asks(r, i + 1, "max", c) /\ Asks(r, i + 1, "min", c)
    BY DEF Targeted
  <2>1. CASE i \in 1 .. k
    <3>1. r[i] = p[i] /\ i + 1 \in Nat \ {0} /\ i + 1 \in 1 .. k + 1
      BY <1>1, <2>1
    <3>2. /\ p[i].low <= p[i].high
          /\ \A j \in i + 1 .. k : InBatch(p, i + 1, j) =>
                 /\ p[j].op = "max" => p[j].freq = p[i].high
                 /\ p[j].op = "min" => p[j].freq = p[i].low
          /\ \A c \in Cores :
                 \/ Asks(p, i + 1, "off", c)
                 \/ Asks(p, i + 1, "max", c) /\ Asks(p, i + 1, "min", c)
      BY <2>1, <3>1 DEF Orderly, Targeted, k
    <3>3. ASSUME NEW j \in i + 1 .. Len(r), InBatch(r, i + 1, j)
          PROVE  /\ r[j].op = "max" => r[j].freq = r[i].high
                 /\ r[j].op = "min" => r[j].freq = r[i].low
      <4>1. j \in i + 1 .. k + n
        BY <1>1
      <4>2. j <= k
        BY <1>4, <3>1, <3>3, <4>1
      <4>3. j \in i + 1 .. k /\ j \in Nat /\ j \in 1 .. k
        BY <1>1, <2>1, <4>1, <4>2
      <4>4. InBatch(p, i + 1, j) /\ r[j] = p[j]
        BY <1>1, <1>5, <3>1, <3>3, <4>2, <4>3
      <4> QED
        BY <3>1, <3>2, <4>3, <4>4
    <3> QED
      BY <1>7, <3>1, <3>2, <3>3
  <2>2. CASE i \notin 1 .. k
    <3> DEFINE e == i - k
    <3>1. /\ e \in 1 .. n /\ r[i] = q[e] /\ e + 1 \in Nat \ {0} /\ k + (e + 1) = i + 1
          /\ k + e = i
      BY <1>1, <1>3, <2>2
    <3> HIDE DEF e
    <3>2. /\ q[e].low <= q[e].high
          /\ \A j \in e + 1 .. n : InBatch(q, e + 1, j) =>
                 /\ q[j].op = "max" => q[j].freq = q[e].high
                 /\ q[j].op = "min" => q[j].freq = q[e].low
          /\ \A c \in Cores :
                 \/ Asks(q, e + 1, "off", c)
                 \/ Asks(q, e + 1, "max", c) /\ Asks(q, e + 1, "min", c)
      BY <3>1 DEF Orderly, Targeted, n
    <3>3. ASSUME NEW j \in i + 1 .. Len(r), InBatch(r, i + 1, j)
          PROVE  /\ r[j].op = "max" => r[j].freq = r[i].high
                 /\ r[j].op = "min" => r[j].freq = r[i].low
      <4> DEFINE g == j - k
      <4>1. g \in e + 1 .. n /\ g \in Nat /\ g <= n /\ g \in 1 .. n /\ k + g = j
        BY <1>1, <3>1
      <4> HIDE DEF g
      <4>2. InBatch(r, k + (e + 1), k + g)
        BY <3>1, <3>3, <4>1
      <4>3. InBatch(q, e + 1, g) /\ r[j] = q[g]
        BY <1>1, <1>6, <3>1, <4>1, <4>2
      <4> QED
        BY <3>1, <3>2, <4>1, <4>3
    <3>4. \A op, c : Asks(q, e + 1, op, c) => Asks(r, i + 1, op, c)
      <4>1. \A op, c : Asks(q, e + 1, op, c) => Asks(r, k + (e + 1), op, c)
        BY <1>8, <3>1
      <4> QED
        BY <3>1, <4>1
    <3> QED
      BY <3>1, <3>2, <3>3, <3>4
  <2> QED
    BY <2>1, <2>2
<1>10. Paired(r)
  <2> SUFFICES ASSUME NEW j \in 1 .. Len(r), NEW i \in 1 .. j - 1, InBatch(r, i, j), r[j].op \in Writes
               PROVE  /\ ~(r[i].op = r[j].op /\ r[i].core = r[j].core)
                      /\ Asks(r, i, Counter(r[j].op), r[j].core)
    BY DEF Paired
  <2>1. j \in 1 .. k + n /\ i \in 1 .. k + n /\ i \in Nat \ {0} /\ j \in Nat /\ j \in i .. k + n
    BY <1>1
  <2>2. CASE i \in 1 .. k
    <3>1. j <= k
      <4>1. i \in 1 .. k + 1
        BY <1>1, <2>2
      <4> QED
        BY <1>4, <2>1, <4>1
    <3>2. j \in 1 .. k /\ r[i] = p[i] /\ r[j] = p[j] /\ InBatch(p, i, j)
      BY <1>1, <1>5, <2>1, <2>2, <3>1
    <3>3. /\ ~(p[i].op = p[j].op /\ p[i].core = p[j].core)
          /\ Asks(p, i, Counter(p[j].op), p[j].core)
      BY <3>2 DEF Orderly, Paired, k
    <3> QED
      BY <1>7, <2>1, <3>2, <3>3
  <2>3. CASE i \notin 1 .. k
    <3> DEFINE e == i - k
               g == j - k
    <3>1. /\ e \in 1 .. n /\ r[i] = q[e] /\ k + e = i /\ e \in Nat \ {0}
          /\ g \in 1 .. n /\ k + g = j /\ g \in Nat /\ g <= n /\ e \in 1 .. g - 1
      BY <1>1, <1>3, <2>1, <2>3
    <3> HIDE DEF e, g
    <3>2. InBatch(q, e, g) /\ r[j] = q[g]
      BY <1>1, <1>6, <3>1
    <3>3. /\ ~(q[e].op = q[g].op /\ q[e].core = q[g].core)
          /\ Asks(q, e, Counter(q[g].op), q[g].core)
      BY <3>1, <3>2 DEF Orderly, Paired, n
    <3> QED
      BY <1>8, <3>1, <3>2, <3>3
  <2> QED
    BY <2>2, <2>3
<1>11. Led(r)
  <2>1. ASSUME NEW i \in 1 .. k - 1
        PROVE  MayFollow(r[i], r[i + 1])
    <3>1. i \in 1 .. k /\ i + 1 \in 1 .. k
      BY <1>1
    <3> QED
      BY <1>1, <3>1 DEF Orderly, Led, k
  <2>2. k > 0 => r[k].op \notin ShellOps
    BY <1>1 DEF Orderly, Led, k
  <2>3. ASSUME NEW i \in 1 .. Len(r) - 1, i = k
        PROVE  MayFollow(r[i], r[i + 1])
    <3>1. n # 0 /\ r[i + 1] = q[1] /\ k > 0
      BY <1>1, <2>3
    <3> QED
      BY <1>2, <2>2, <2>3, <3>1 DEF MayFollow, Later
  <2>4. ASSUME NEW i \in 1 .. Len(r) - 1, i \notin 1 .. k
        PROVE  MayFollow(r[i], r[i + 1])
    <3> DEFINE e == i - k
    <3>1. e \in 1 .. n - 1 /\ e \in 1 .. n /\ e + 1 \in 1 .. n /\ k + e = i /\ k + (e + 1) = i + 1
      BY <1>1, <2>4
    <3> HIDE DEF e
    <3>2. r[i] = q[e] /\ r[i + 1] = q[e + 1]
      BY <1>1, <3>1
    <3> QED
      BY <3>1, <3>2 DEF Orderly, Led, n
  <2>5. \A i \in 1 .. Len(r) - 1 : MayFollow(r[i], r[i + 1])
    <3>1. \A i \in 1 .. Len(r) - 1 : i \in 1 .. k - 1 \/ i = k \/ i \notin 1 .. k
      BY <1>1
    <3> QED
      BY <2>1, <2>3, <2>4, <3>1
  <2>6. ASSUME Len(r) > 0
        PROVE  r[Len(r)].op \notin ShellOps
    <3>1. CASE n = 0
      <4>1. Len(r) = k
        BY <1>1, <3>1
      <4> QED
        BY <2>2, <2>6, <4>1
    <3>2. CASE n # 0
      <4>1. n \in 1 .. n /\ Len(r) = k + n /\ n > 0
        BY <1>1, <3>2
      <4> QED
        BY <1>1, <4>1 DEF Orderly, Led, n
    <3> QED
      BY <3>1, <3>2
  <2> QED
    BY <2>5, <2>6 DEF Led
<1>12. Orderly(r)
  BY <1>1, <1>9, <1>10, <1>11 DEF Orderly
<1> QED
  BY <1>12 DEF r

\* The commands of one batch, for the cores C.
Body(b, C, low, high) ==
    /\ b \in Seq(Call)
    /\ \A i \in 1 .. Len(b) :
           /\ b[i].op \in FreqOps /\ b[i].core \in C
           /\ b[i].op = "max" => b[i].freq = high
           /\ b[i].op = "min" => b[i].freq = low
    /\ \A j \in 1 .. Len(b) : b[j].op \in Writes =>
           /\ \A i \in 1 .. j - 1 : ~(b[i].op = b[j].op /\ b[i].core = b[j].core)
           /\ \E m \in 1 .. Len(b) : /\ m >= j - 1
                                     /\ b[m].op = Counter(b[j].op) /\ b[m].core = b[j].core
    /\ \A c \in C :
           \/ \E m \in 1 .. Len(b) : b[m].op = "off" /\ b[m].core = c
           \/ /\ \E m \in 1 .. Len(b) : b[m].op = "max" /\ b[m].core = c
              /\ \E m \in 1 .. Len(b) : b[m].op = "min" /\ b[m].core = c

LEMMA BodyJoin ==
    ASSUME NEW b, NEW d, NEW C, NEW D, NEW low, NEW high,
           Body(b, C, low, high), Body(d, D, low, high), C \cap D = {}
    PROVE  Body(b \o d, C \cup D, low, high)
<1> DEFINE r == b \o d
           k == Len(b)
           n == Len(d)
<1>1. /\ r \in Seq(Call) /\ k \in Nat /\ n \in Nat /\ Len(r) = k + n
      /\ \A i \in 1 .. k : r[i] = b[i] /\ i \in 1 .. k + n
      /\ \A i \in 1 .. n : r[k + i] = d[i] /\ k + i \in 1 .. k + n
  BY DEF Body
<1>2. /\ \A i \in 1 .. k :
             /\ b[i].op \in FreqOps /\ b[i].core \in C
             /\ b[i].op = "max" => b[i].freq = high
             /\ b[i].op = "min" => b[i].freq = low
      /\ \A i \in 1 .. n :
             /\ d[i].op \in FreqOps /\ d[i].core \in D
             /\ d[i].op = "max" => d[i].freq = high
             /\ d[i].op = "min" => d[i].freq = low
  BY DEF Body
<1>3. /\ \A j \in 1 .. k : b[j].op \in Writes =>
             /\ \A i \in 1 .. j - 1 : ~(b[i].op = b[j].op /\ b[i].core = b[j].core)
             /\ \E m \in 1 .. k : /\ m >= j - 1
                                  /\ b[m].op = Counter(b[j].op) /\ b[m].core = b[j].core
      /\ \A j \in 1 .. n : d[j].op \in Writes =>
             /\ \A i \in 1 .. j - 1 : ~(d[i].op = d[j].op /\ d[i].core = d[j].core)
             /\ \E m \in 1 .. n : /\ m >= j - 1
                                  /\ d[m].op = Counter(d[j].op) /\ d[m].core = d[j].core
  BY DEF Body
<1>4. /\ \A c \in C :
             \/ \E m \in 1 .. k : b[m].op = "off" /\ b[m].core = c
             \/ /\ \E m \in 1 .. k : b[m].op = "max" /\ b[m].core = c
                /\ \E m \in 1 .. k : b[m].op = "min" /\ b[m].core = c
      /\ \A c \in D :
             \/ \E m \in 1 .. n : d[m].op = "off" /\ d[m].core = c
             \/ /\ \E m \in 1 .. n : d[m].op = "max" /\ d[m].core = c
                /\ \E m \in 1 .. n : d[m].op = "min" /\ d[m].core = c
  BY DEF Body
<1> HIDE DEF r, k, n
<1>5. \A i \in 1 .. k + n : i \in 1 .. k \/ (i - k \in 1 .. n /\ r[i] = d[i - k])
  <2> SUFFICES ASSUME NEW i \in 1 .. k + n, i \notin 1 .. k
               PROVE  i - k \in 1 .. n /\ r[i] = d[i - k]
    OBVIOUS
  <2>1. i - k \in 1 .. n /\ k + (i - k) = i
    BY <1>1
  <2> QED
    BY <1>1, <2>1
<1>6. \A i \in 1 .. k + n : /\ r[i].op \in FreqOps /\ r[i].core \in C \cup D
                            /\ r[i].op = "max" => r[i].freq = high
                            /\ r[i].op = "min" => r[i].freq = low
  BY <1>1, <1>2, <1>5
<1>7. ASSUME NEW j \in 1 .. k + n, r[j].op \in Writes
      PROVE  /\ \A i \in 1 .. j - 1 : ~(r[i].op = r[j].op /\ r[i].core = r[j].core)
             /\ \E m \in 1 .. k + n : /\ m >= j - 1
                                      /\ r[m].op = Counter(r[j].op) /\ r[m].core = r[j].core
  <2>1. CASE j \in 1 .. k
    <3>1. r[j] = b[j] /\ \A i \in 1 .. j - 1 : i \in 1 .. k
      BY <1>1, <2>1
    <3>2. PICK m \in 1 .. k : /\ m >= j - 1
                              /\ b[m].op = Counter(b[j].op) /\ b[m].core = b[j].core
      BY <1>3, <1>7, <2>1, <3>1
    <3>3. r[m] = b[m] /\ m \in 1 .. k + n
      BY <1>1
    <3>4. \A i \in 1 .. j - 1 : ~(r[i].op = r[j].op /\ r[i].core = r[j].core)
      BY <1>1, <1>3, <1>7, <2>1, <3>1
    <3> QED
      BY <3>1, <3>2, <3>3, <3>4
  <2>2. CASE j \notin 1 .. k
    <3> DEFINE g == j - k
    <3>1. g \in 1 .. n /\ r[j] = d[g] /\ k + g = j
      BY <1>1, <1>5, <2>2
    <3> HIDE DEF g
    <3>2. PICK m \in 1 .. n : /\ m >= g - 1
                              /\ d[m].op = Counter(d[g].op) /\ d[m].core = d[g].core
      BY <1>3, <1>7, <3>1
    <3>3. r[k + m] = d[m] /\ k + m \in 1 .. k + n /\ k + m >= j - 1
      BY <1>1, <3>1, <3>2
    <3>4. ASSUME NEW i \in 1 .. j - 1
          PROVE  ~(r[i].op = r[j].op /\ r[i].core = r[j].core)
      <4>1. CASE i \in 1 .. k
        <5>1. r[i].core \in C /\ r[j].core \in D
          BY <1>1, <1>2, <3>1, <4>1
        <5> QED
          BY <5>1
      <4>2. CASE i \notin 1 .. k
        <5>1. i \in 1 .. k + n /\ i - k \in 1 .. g - 1
          BY <1>1, <3>1, <4>2
        <5>2. r[i] = d[i - k]
          BY <1>5, <4>2, <5>1
        <5> QED
          BY <1>3, <1>7, <3>1, <5>1, <5>2
      <4> QED
        BY <4>1, <4>2
    <3> QED
      BY <3>1, <3>2, <3>3, <3>4
  <2> QED
    BY <2>1, <2>2
<1>8. ASSUME NEW c \in C \cup D
      PROVE  \/ \E m \in 1 .. k + n : r[m].op = "off" /\ r[m].core = c
             \/ /\ \E m \in 1 .. k + n : r[m].op = "max" /\ r[m].core = c
                /\ \E m \in 1 .. k + n : r[m].op = "min" /\ r[m].core = c
  <2>1. \A op : \/ \E m \in 1 .. k : b[m].op = op /\ b[m].core = c
                \/ \E m \in 1 .. n : d[m].op = op /\ d[m].core = c
                => \E m \in 1 .. k + n : r[m].op = op /\ r[m].core = c
    BY <1>1
  <2>2. CASE c \in C
    BY <1>4, <2>1, <2>2, SMTT(30)
  <2>3. CASE c \in D
    BY <1>4, <2>1, <2>3, SMTT(30)
  <2> QED
    BY <2>2, <2>3
<1>9. Body(r, C \cup D, low, high)
  BY <1>1, <1>6, <1>7, <1>8 DEF Body
<1> QED
  BY <1>9 DEF r

\* A batch after its target.
LEMMA BodyOrderly ==
    ASSUME NEW low \in Freqs, NEW high \in Freqs, low <= high,
           NEW b, Body(b, Cores, low, high)
    PROVE  Orderly(<<Target(low, high)>> \o b) /\ Begins(<<Target(low, high)>> \o b)
<1> DEFINE t == Target(low, high)
           r == <<t>> \o b
           n == Len(b)
<1>1. t \in Call /\ t.op = "target" /\ t.low = low /\ t.high = high
  BY DEF Target, Call
<1>2. "target" \notin FreqOps
  BY DEF FreqOps
<1> HIDE DEF t
<1>3. /\ r \in Seq(Call) /\ n \in Nat /\ Len(r) = n + 1 /\ r[1] = t
      /\ \A i \in 1 .. n : r[i + 1] = b[i] /\ i + 1 \in 2 .. n + 1
  BY <1>1 DEF Body
<1> HIDE DEF r
<1>4. \A i \in 2 .. n + 1 : i - 1 \in 1 .. n /\ r[i] = b[i - 1]
  <2> SUFFICES ASSUME NEW i \in 2 .. n + 1
               PROVE  i - 1 \in 1 .. n /\ r[i] = b[i - 1]
    OBVIOUS
  <2>1. i - 1 \in 1 .. n /\ (i - 1) + 1 = i
    BY <1>3
  <2> QED
    BY <1>3, <2>1
<1>5. \A i \in 2 .. n + 1 : /\ r[i].op \in FreqOps
                            /\ r[i].op = "max" => r[i].freq = high
                            /\ r[i].op = "min" => r[i].freq = low
  BY <1>4 DEF Body, n
<1>6. \A i \in 2 .. n + 1 : \A j \in 1 .. n + 1 : InBatch(r, i, j)
  BY <1>3, <1>5 DEF InBatch
<1>7. \A j \in 1 .. n + 1 : ~InBatch(r, 1, j)
  BY <1>1, <1>2, <1>3 DEF InBatch
<1>8. \A i \in 2 .. n + 1 : \A op, c :
          (\E m \in 1 .. n : m + 1 >= i /\ b[m].op = op /\ b[m].core = c) => Asks(r, i, op, c)
  <2> SUFFICES ASSUME NEW i \in 2 .. n + 1, NEW op, NEW c,
                      NEW m \in 1 .. n, m + 1 >= i, b[m].op = op, b[m].core = c
               PROVE  Asks(r, i, op, c)
    OBVIOUS
  <2>1. m + 1 \in i .. Len(r) /\ m + 1 \in 1 .. n + 1 /\ r[m + 1] = b[m]
    BY <1>3
  <2> QED
    BY <1>6, <2>1 DEF Asks
<1>9. Targeted(r)
  <2> SUFFICES ASSUME NEW i \in 1 .. Len(r), r[i].op = "target"
               PROVE  /\ r[i].low <= r[i].high
                      /\ \A j \in i + 1 .. Len(r) : InBatch(r, i + 1, j) =>
                             /\ r[j].op = "max" => r[j].freq = r[i].high
                             /\ r[j].op = "min" => r[j].freq = r[i].low
                      /\ \A c \in Cores :
                             \/ Asks(r, i + 1, "off", c)
                             \/ Asks(r, i + 1, "max", c) /\ Asks(r, i + 1, "min", c)
    BY DEF Targeted
  <2>1. i = 1
    <3>1. i \notin 2 .. n + 1
      BY <1>2, <1>5
    <3> QED
      BY <1>3, <3>1
  <2>2. r[i].low = low /\ r[i].high = high
    BY <1>1, <1>3, <2>1
  <2>3. \A j \in i + 1 .. Len(r) : j \in 2 .. n + 1
    BY <1>3, <2>1
  <2>4. ASSUME NEW c \in Cores
        PROVE  \/ Asks(r, i + 1, "off", c)
               \/ Asks(r, i + 1, "max", c) /\ Asks(r, i + 1, "min", c)
    <3>1. \/ \E m \in 1 .. n : b[m].op = "off" /\ b[m].core = c
          \/ /\ \E m \in 1 .. n : b[m].op = "max" /\ b[m].core = c
             /\ \E m \in 1 .. n : b[m].op = "min" /\ b[m].core = c
      BY DEF Body, n
    <3>2. 2 \in 2 .. n + 1 /\ i + 1 = 2 /\ \A m \in 1 .. n : m + 1 >= 2
      BY <1>3, <2>1, <3>1
    <3> HIDE DEF n
    <3>3. \A op : (\E m \in 1 .. n : b[m].op = op /\ b[m].core = c) => Asks(r, 2, op, c)
      BY <1>8, <3>2
    <3> QED
      BY <3>1, <3>2, <3>3
  <2> QED
    BY <1>5, <2>2, <2>3, <2>4
<1>10. Paired(r)
  <2> SUFFICES ASSUME NEW j \in 1 .. Len(r), NEW i \in 1 .. j - 1, InBatch(r, i, j), r[j].op \in Writes
               PROVE  /\ ~(r[i].op = r[j].op /\ r[i].core = r[j].core)
                      /\ Asks(r, i, Counter(r[j].op), r[j].core)
    BY DEF Paired
  <2>1. i \in 2 .. n + 1 /\ j \in 2 .. n + 1 /\ j \in 1 .. n + 1
    BY <1>3, <1>7
  <2>2. /\ i - 1 \in 1 .. (j - 1) - 1 /\ j - 1 \in 1 .. n
        /\ r[i] = b[i - 1] /\ r[j] = b[j - 1]
    BY <1>3, <1>4, <2>1
  <2>3. /\ ~(b[i - 1].op = b[j - 1].op /\ b[i - 1].core = b[j - 1].core)
        /\ \E m \in 1 .. n : /\ m >= (j - 1) - 1
                             /\ b[m].op = Counter(b[j - 1].op) /\ b[m].core = b[j - 1].core
    BY <2>2, SMTT(30) DEF Body, n
  <2>4. \E m \in 1 .. n : m + 1 >= i /\ b[m].op = Counter(r[j].op) /\ b[m].core = r[j].core
    <3>1. \A m \in 1 .. n : m >= (j - 1) - 1 => m + 1 >= i
      BY <1>3, <2>1
    <3> QED
      BY <2>2, <2>3, <3>1
  <2> QED
    BY <1>8, <2>1, <2>2, <2>3, <2>4
<1>11. Led(r)
  <2>1. \A i \in 1 .. n + 1 : i = 1 \/ i \in 2 .. n + 1
    BY <1>3
  <2>2. \A i \in 1 .. n + 1 : r[i].op \in FreqOps \cup {"target"}
    BY <1>1, <1>3, <1>5, <2>1
  <2>3. \A i \in 1 .. Len(r) - 1 : i \in 1 .. n + 1 /\ i + 1 \in 1 .. n + 1
    BY <1>3
  <2>4. Len(r) \in 1 .. n + 1
    BY <1>3
  <2> QED
    BY <2>2, <2>3, <2>4 DEF Led, MayFollow, Later, FreqOps, ShellOps
<1>12. Orderly(r)
  BY <1>3, <1>9, <1>10, <1>11 DEF Orderly
<1>13. Begins(r)
  BY <1>1, <1>3 DEF Begins
<1> QED
  BY <1>12, <1>13 DEF r, t

\* The commands for the cores, one core after the other.
LEMMA BodyForCores ==
    ASSUME NEW low, NEW high, NEW s, Len(s) = NumCores,
           \A i \in 1 .. NumCores : Body(s[i], {i - 1}, low, high)
    PROVE  Body(FlattenSeq(s), Cores, low, high)
<1> DEFINE R == {x \in Nat \X Seq(Call) : Body(x[2], 0 .. x[1] - 1, low, high)}
<1>1. NumCores \in Nat \ {0}
  BY FreqAssumption
<1>2. <<1, s[1]>> \in R
  <2>1. Body(s[1], {1 - 1}, low, high)
    BY <1>1
  <2>2. {1 - 1} = 0 .. 1 - 1
    OBVIOUS
  <2>3. Body(s[1], 0 .. 1 - 1, low, high) /\ s[1] \in Seq(Call)
    BY <2>1, <2>2 DEF Body
  <2> QED
    BY <2>3
<1>3. ASSUME NEW i \in 1 .. NumCores - 1, NEW q, <<i, q>> \in R
      PROVE  <<i + 1, q \o s[i + 1]>> \in R
  <2>1. Body(q, 0 .. i - 1, low, high)
    BY <1>3
  <2>2. Body(s[i + 1], {(i + 1) - 1}, low, high)
    BY <1>1
  <2>3. (0 .. i - 1) \cap {(i + 1) - 1} = {} /\ (0 .. i - 1) \cup {(i + 1) - 1} = 0 .. (i + 1) - 1
    BY <1>1
  <2>4. Body(q \o s[i + 1], 0 .. (i + 1) - 1, low, high)
    BY <2>1, <2>2, <2>3, BodyJoin
  <2>5. q \o s[i + 1] \in Seq(Call) /\ i + 1 \in Nat
    BY <1>1, <2>4 DEF Body
  <2> QED
    BY <2>4, <2>5
<1> HIDE DEF R
<1>4. <<NumCores, FlattenSeq(s)>> \in R
  BY <1>1, <1>2, <1>3, FlattenInduction
<1>5. Body(FlattenSeq(s), 0 .. NumCores - 1, low, high)
  BY <1>4 DEF R
<1> QED
  BY <1>5 DEF Cores

LEMMA SetCoreFreqBody ==
    ASSUME NEW c \in Cores, NEW low \in Freqs, NEW high \in Freqs
    PROVE  Body(SetCoreFreq(c, low, high), {c}, low, high)
<1> DEFINE x == Adb("max", c, high)
           y == Adb("min", c, low)
           b == <<x, y>>
<1>1. /\ x \in Call /\ x.op = "max" /\ x.core = c /\ x.freq = high
      /\ y \in Call /\ y.op = "min" /\ y.core = c /\ y.freq = low
  BY DEF Adb, Call, FreqOps
<1> HIDE DEF x, y
<1>2. b \in Seq(Call) /\ Len(b) = 2 /\ b[1] = x /\ b[2] = y
  BY <1>1
<1> HIDE DEF b
<1>3. \A i \in 1 .. 2 : i = 1 \/ i = 2
  OBVIOUS
<1>4. Body(b, {c}, low, high)
  BY <1>1, <1>2, <1>3 DEF Body, FreqOps, Writes, Counter
<1> QED
  BY <1>4 DEF SetCoreFreq, b, x, y

LEMMA SetLCPUFreqOrderly ==
    ASSUME NEW low \in Freqs, NEW high \in Freqs, low <= high
    PROVE  Orderly(SetLCPUFreq(low, high)) /\ Begins(SetLCPUFreq(low, high))
<1> DEFINE s == [i \in 1 .. NumCores |-> SetCoreFreq(i - 1, low, high)]
<1>1. Len(s) = NumCores
  BY FreqAssumption
<1>2. ASSUME NEW i \in 1 .. NumCores
      PROVE  Body(s[i], {i - 1}, low, high)
  <2>1. i - 1 \in Cores /\ s[i] = SetCoreFreq(i - 1, low, high)
    BY FreqAssumption DEF Cores
  <2> QED
    BY <2>1, SetCoreFreqBody
<1>3. SetLCPUFreq(low, high) = <<Target(low, high)>> \o FlattenSeq(s)
  BY DEF SetLCPUFreq, ForCores
<1> HIDE DEF s
<1>4. Body(FlattenSeq(s), Cores, low, high)
  BY <1>1, <1>2, BodyForCores
<1> QED
  BY <1>3, <1>4, BodyOrderly

LEMMA SetCoreFreqsOrderly ==
    ASSUME NEW f \in Freqs, NEW chosen
    PROVE  Orderly(SetCoreFreqs(f, chosen)) /\ Begins(SetCoreFreqs(f, chosen))
<1> DEFINE piece(c) == IF c \notin chosen THEN <<Adb("off", c, 0)>>
                       ELSE <<Adb("on", c, 0), Adb("min", c, f), Adb("max", c, f)>>
           s == [i \in 1 .. NumCores |-> piece(i - 1)]
<1>1. Len(s) = NumCores
  BY FreqAssumption
<1>2. ASSUME NEW c \in Cores
      PROVE  Body(piece(c), {c}, f, f)
  <2>1. CASE c \notin chosen
    <3> DEFINE x == Adb("off", c, 0)
               b == <<x>>
    <3>1. x \in Call /\ x.op = "off" /\ x.core = c
      BY DEF Adb, Call, FreqOps
    <3> HIDE DEF x
    <3>2. b \in Seq(Call) /\ Len(b) = 1 /\ b[1] = x
      BY <3>1
    <3> HIDE DEF b
    <3>3. \A i \in 1 .. 1 : i = 1
      OBVIOUS
    <3>4. Body(b, {c}, f, f)
      BY <3>1, <3>2, <3>3 DEF Body, FreqOps, Writes
    <3> QED
      BY <2>1, <3>4 DEF b, x
  <2>2. CASE c \in chosen
    <3> DEFINE w == Adb("on", c, 0)
               x == Adb("min", c, f)
               y == Adb("max", c, f)
               b == <<w, x, y>>
    <3>1. /\ w \in Call /\ w.op = "on" /\ w.core = c
          /\ x \in Call /\ x.op = "min" /\ x.core = c /\ x.freq = f
          /\ y \in Call /\ y.op = "max" /\ y.core = c /\ y.freq = f
      BY DEF Adb, Call, FreqOps
    <3> HIDE DEF w, x, y
    <3>2. b \in Seq(Call) /\ Len(b) = 3 /\ b[1] = w /\ b[2] = x /\ b[3] = y
      BY <3>1
    <3> HIDE DEF b
    <3>3. \A i \in 1 .. 3 : i = 1 \/ i = 2 \/ i = 3
      OBVIOUS
    <3>4. Body(b, {c}, f, f)
      BY <3>1, <3>2, <3>3 DEF Body, FreqOps, Writes, Counter
    <3> QED
      BY <2>2, <3>4 DEF b, w, x, y
  <2> QED
    BY <2>1, <2>2
<1>3. SetCoreFreqs(f, chosen) = <<Target(f, f)>> \o FlattenSeq(s)
  BY DEF SetCoreFreqs, ForCores
<1> HIDE DEF piece
<1>4. ASSUME NEW i \in 1 .. NumCores
      PROVE  Body(s[i], {i - 1}, f, f)
  <2>1. i - 1 \in Cores /\ s[i] = piece(i - 1)
    BY FreqAssumption DEF Cores
  <2> QED
    BY <1>2, <2>1
<1> HIDE DEF s
<1>5. Body(FlattenSeq(s), Cores, f, f)
  BY <1>1, <1>4, BodyForCores
<1>6. f <= f
  BY FreqAssumption
<1> QED
  BY <1>3, <1>5, <1>6, BodyOrderly

\* Cores that are switched on get no limits.
LEMMA GetCoresOrderly ==
    Orderly(GetCores) /\ \A i \in 1 .. Len(GetCores) : GetCores[i].op = "on"
<1> DEFINE On == {x \in Call : x.op = "on"}
           s == [i \in 1 .. NumCores |-> <<Adb("on", i - 1, 0)>>]
           R == Nat \X Seq(On)
<1>1. Len(s) = NumCores /\ NumCores \in Nat \ {0}
  BY FreqAssumption
<1>2. ASSUME NEW i \in 1 .. NumCores
      PROVE  s[i] \in Seq(On)
  <2>1. i - 1 \in Cores
    BY FreqAssumption DEF Cores
  <2>2. Adb("on", i - 1, 0) \in On
    BY <2>1 DEF Adb, Call, FreqOps
  <2> QED
    BY <2>2
<1>3. GetCores = FlattenSeq(s)
  BY DEF GetCores, ForCores
<1> HIDE DEF s, On
<1>4. <<1, s[1]>> \in R
  BY <1>1, <1>2
<1>5. ASSUME NEW i \in 1 .. NumCores - 1, NEW q, <<i, q>> \in R
      PROVE  <<i + 1, q \o s[i + 1]>> \in R
  <2>1. i + 1 \in 1 .. NumCores /\ i + 1 \in Nat
    BY <1>1
  <2>2. s[i + 1] \in Seq(On) /\ q \in Seq(On)
    BY <1>2, <1>5, <2>1
  <2>3. q \o s[i + 1] \in Seq(On)
    BY <2>2
  <2> HIDE DEF On
  <2> QED
    BY <2>1, <2>3
<1> HIDE DEF R
<1>6. <<NumCores, FlattenSeq(s)>> \in R
  BY <1>1, <1>4, <1>5, FlattenInduction
<1>7. GetCores \in Seq(On)
  BY <1>3, <1>6 DEF R
<1>8. \A i \in 1 .. Len(GetCores) : GetCores[i].op = "on"
  BY <1>7 DEF On
<1>9. GetCores \in Seq(Call)
  BY <1>7 DEF On
<1> QED
  BY <1>8, <1>9 DEF Orderly, Targeted, Paired, Led, MayFollow, Later, Writes, FreqOps, ShellOps

\* There are a lowest and a highest frequency.
LEMMA Extremes ==
    ASSUME Freqs # {}
    PROVE  Lowest \in Freqs /\ Highest \in Freqs /\ Lowest <= Highest
<1>1. \E f \in Freqs : \A g \in Freqs : f <= g
  BY FreqAssumption, LeastNat
<1>2. \E f \in Freqs : \A g \in Freqs : f >= g
  <2>1. Freqs \subseteq Int /\ IsFiniteSet(Freqs)
    BY FreqAssumption
  <2> QED
    BY <2>1, GreatestInt
<1>3. Lowest \in Freqs /\ \A g \in Freqs : Lowest <= g
  BY <1>1 DEF Lowest
<1>4. Highest \in Freqs
  BY <1>2 DEF Highest
<1> QED
  BY <1>3, <1>4, FreqAssumption

\* A sequence without commands on the cores has only to follow the sessions.
LEMMA ShellOrderly ==
    ASSUME NEW q \in Seq(Call), Led(q), \A i \in 1 .. Len(q) : q[i].op \in ShellOps \cup {"pull"}
    PROVE  Orderly(q)
<1>1. \A i \in 1 .. Len(q) : q[i].op \notin FreqOps \cup {"target"}
  BY DEF ShellOps, FreqOps
<1>2. ASSUME NEW j \in 1 .. Len(q), q[j].op \in Writes
      PROVE  FALSE
  BY <1>1, <1>2 DEF Writes, FreqOps
<1> QED
  BY <1>1, <1>2 DEF Orderly, Targeted, Paired

\* A sequence with a setting before it, and what comes after.
LEMMA BeginsJoin ==
    ASSUME NEW p, NEW q, Orderly(p), Orderly(q), Begins(p), q = <<>> \/ q[1].op \in {"target", "setup"}
    PROVE  Orderly(p \o q) /\ Begins(p \o q)
<1>1. Orderly(p \o q)
  BY OrderlyJoin
<1>2. (p \o q)[1] = p[1] /\ p \o q # <<>>
  BY DEF Begins, Orderly
<1> QED
  BY <1>1, <1>2 DEF Begins

\* A test is: its limits, then its session.
LEMMA TestOrderly ==
    ASSUME NEW x \in Sessions, NEW f \in Freqs
    PROVE  Orderly(Test(x, f)) /\ Begins(Test(x, f))
<1> DEFINE ops == <<"setup", "start", "stop", "finish", "pull">>
           q == [i \in 1 .. 5 |-> [op |-> ops[i], test |-> x]]
           Ops == ShellOps \cup {"pull"}
<1>1. \A i \in 1 .. 5 : ops[i] \in Ops
  <2>1. \A i \in 1 .. 5 : i = 1 \/ i = 2 \/ i = 3 \/ i = 4 \/ i = 5
    OBVIOUS
  <2> QED
    BY <2>1 DEF ShellOps
<1>2. ops[1] = "setup" /\ ops[5] = "pull" /\ \A i \in 1 .. 4 : <<ops[i], ops[i + 1]>> \in Successions
  <2>1. \A i \in 1 .. 4 : i = 1 \/ i = 2 \/ i = 3 \/ i = 4
    OBVIOUS
  <2> QED
    BY <2>1 DEF Successions
<1> HIDE DEF ops, Ops, q
<1>3. ASSUME NEW i \in 1 .. 5
      PROVE  q[i] \in Call /\ q[i].op \in ShellOps \cup {"pull"}
  <2>1. ops[i] \in Ops
    BY <1>1
  <2>2. q[i] = [op |-> ops[i], test |-> x]
    BY DEF q
  <2> QED
    BY <2>1, <2>2 DEF Call, Ops
<1>4. q \in Seq(Call) /\ Len(q) = 5
  BY <1>3 DEF q
<1>5. Test(x, f) = SetLCPUFreq(f, f) \o q
  BY DEF Test, ops, q
<1>6. \A i \in 1 .. 5 : q[i].op = ops[i] /\ q[i].test = x
  BY DEF q
<1>7. Led(q)
  <2>1. ASSUME NEW i \in 1 .. 4
        PROVE  MayFollow(q[i], q[i + 1])
    <3>1. i \in 1 .. 5 /\ i + 1 \in 1 .. 5
      OBVIOUS
    <3>2. <<q[i].op, q[i + 1].op>> \in Successions /\ q[i + 1].test = q[i].test
      BY <1>2, <1>6, <3>1
    <3> QED
      BY <3>2 DEF MayFollow, Successions, ShellOps
  <2>2. q[5].op \notin ShellOps
    BY <1>2, <1>6 DEF ShellOps
  <2> QED
    BY <1>4, <2>1, <2>2 DEF Led
<1>8. Orderly(q)
  BY <1>3, <1>4, <1>7, ShellOrderly
<1>9. q[1].op = "setup"
  BY <1>2, <1>6
<1>10. f <= f
  BY FreqAssumption
<1>11. Orderly(SetLCPUFreq(f, f)) /\ Begins(SetLCPUFreq(f, f))
  BY <1>10, SetLCPUFreqOrderly
<1> QED
  BY <1>5, <1>8, <1>9, <1>11, BeginsJoin

\* The tests of a day.
LEMMA SweepOrderly ==
    ASSUME NEW sweep \in [1 .. NumSessions -> Freqs]
    PROVE  LET q == FlattenSeq([x \in Sessions |-> Test(x, sweep[x])])
           IN  Orderly(q) /\ (q = <<>> \/ Begins(q))
<1> DEFINE s == [x \in Sessions |-> Test(x, sweep[x])]
           R == {x \in Nat \X Seq(Call) : Orderly(x[2]) /\ Begins(x[2])}
<1>1. NumSessions \in Nat /\ Sessions = 1 .. NumSessions /\ Len(s) = NumSessions
  BY WorkflowAssumption DEF Sessions
<1>2. ASSUME NEW x \in Sessions
      PROVE  Orderly(s[x]) /\ Begins(s[x])
  <2>1. s[x] = Test(x, sweep[x]) /\ sweep[x] \in Freqs
    BY <1>1
  <2> QED
    BY <2>1, TestOrderly
<1>3. CASE NumSessions = 0
  <2>1. FlattenSeq(s) = <<>>
    BY <1>1, <1>3 DEF FlattenSeq
  <2>2. Orderly(<<>>)
    <3> DEFINE e == <<>>
    <3>1. e \in Seq(Call) /\ Len(e) = 0
      OBVIOUS
    <3>2. \A i \in 1 .. Len(e) : e[i].op \in ShellOps \cup {"pull"}
      BY <3>1
    <3> HIDE DEF e
    <3>4. Led(e)
      BY <3>1 DEF Led
    <3>3. Orderly(e)
      BY <3>1, <3>2, <3>4, ShellOrderly
    <3> QED
      BY <3>3 DEF e
  <2> QED
    BY <2>1, <2>2
<1>4. CASE NumSessions # 0
  <2>1. <<1, s[1]>> \in R
    <3>1. 1 \in Sessions
      BY <1>1, <1>4
    <3> HIDE DEF s
    <3>2. Orderly(s[1]) /\ Begins(s[1]) /\ s[1] \in Seq(Call)
      BY <1>2, <3>1 DEF Orderly
    <3> QED
      BY <3>2
  <2>2. ASSUME NEW i \in 1 .. NumSessions - 1, NEW q, <<i, q>> \in R
        PROVE  <<i + 1, q \o s[i + 1]>> \in R
    <3>1. i + 1 \in Sessions /\ i + 1 \in Nat
      BY <1>1
    <3> HIDE DEF s
    <3>2. Orderly(s[i + 1]) /\ Begins(s[i + 1])
      BY <1>2, <3>1
    <3>3. s[i + 1][1].op = "target"
      BY <3>2 DEF Begins
    <3>4. Orderly(q) /\ Begins(q)
      BY <2>2
    <3>5. Orderly(q \o s[i + 1]) /\ Begins(q \o s[i + 1])
      BY <3>2, <3>3, <3>4, BeginsJoin
    <3>6. q \o s[i + 1] \in Seq(Call)
      BY <3>5 DEF Orderly
    <3> QED
      BY <3>1, <3>5, <3>6
  <2> HIDE DEF s, R
  <2>3. Len(s) \in Nat \ {0}
    BY <1>1, <1>4
  <2>4. <<NumSessions, FlattenSeq(s)>> \in R
    BY <1>1, <2>1, <2>2, <2>3, FlattenInduction
  <2>5. Orderly(FlattenSeq(s)) /\ Begins(FlattenSeq(s))
    BY <2>4 DEF R
  <2> QED
    BY <2>5 DEF s
<1> QED
  BY <1>3, <1>4

\* The script of a day is orderly, and before its first target it only
\* switches cores on.
LEMMA ScriptOrderly ==
    ASSUME NEW day \in Days, Freqs # {}
    PROVE  /\ Orderly(Script(day))
           /\ \A op, c : op # "on" => ~Asks(Script(day), 1, op, c)
           /\ Script(day) # <<>> /\ Head(Script(day)).op \in {"on", "target"}
<1> DEFINE a == SetCoreFreqs(day.freq, day.chosen)
           b == SetLCPUFreq(Lowest, Highest)
           d == FlattenSeq([x \in Sessions |-> Test(x, day.sweep[x])])
           k == Len(GetCores)
           Ons(q) == /\ q \in Seq(Call) /\ Len(q) > k
                     /\ \A i \in 1 .. k : q[i].op = "on"
                     /\ q[k + 1].op = "target"
<1>1. day.freq \in Freqs /\ day.sweep \in [1 .. NumSessions -> Freqs]
  BY PowerAssumption
<1>2. Orderly(a) /\ Begins(a)
  BY <1>1, SetCoreFreqsOrderly
<1>3. Orderly(b) /\ Begins(b)
  BY Extremes, SetLCPUFreqOrderly
<1>4. Orderly(d) /\ (d = <<>> \/ Begins(d))
  BY <1>1, SweepOrderly
<1>5. Orderly(GetCores) /\ \A i \in 1 .. k : GetCores[i].op = "on"
  BY GetCoresOrderly
<1>6. Script(day) = GetCores \o a \o b \o d \o b
  BY DEF Script
<1> HIDE DEF a, b, d, k
<1>7. \A q : Begins(q) => q[1].op \in {"target", "setup"}
  BY DEF Begins
<1>8. ASSUME NEW p, Orderly(p), Ons(p), NEW q, Orderly(q), q = <<>> \/ Begins(q)
      PROVE  Orderly(p \o q) /\ Ons(p \o q)
  <2>1. Orderly(p \o q)
    BY <1>7, <1>8, OrderlyJoin
  <2>2. /\ p \in Seq(Call) /\ q \in Seq(Call) /\ k \in Nat /\ k < Len(p)
        /\ \A i \in 1 .. k + 1 : (p \o q)[i] = p[i]
        /\ Len(p \o q) > k /\ p \o q \in Seq(Call)
    BY <1>5, <1>8 DEF Orderly, k
  <2> QED
    BY <1>8, <2>1, <2>2
<1>9. Orderly(GetCores \o a) /\ Ons(GetCores \o a)
  <2>1. Orderly(GetCores \o a)
    BY <1>2, <1>5, <1>7, OrderlyJoin
  <2>2. /\ \A i \in 1 .. k : (GetCores \o a)[i] = GetCores[i]
        /\ (GetCores \o a)[k + 1] = a[1] /\ Len(GetCores \o a) > k
        /\ GetCores \o a \in Seq(Call)
    BY <1>2, <1>5 DEF Orderly, k, Begins
  <2> QED
    BY <1>2, <1>5, <2>1, <2>2 DEF Begins
<1>10. Orderly(GetCores \o a \o b) /\ Ons(GetCores \o a \o b)
  <2> HIDE DEF Ons
  <2> QED
    BY <1>3, <1>8, <1>9
<1>11. Orderly(GetCores \o a \o b \o d) /\ Ons(GetCores \o a \o b \o d)
  <2> HIDE DEF Ons
  <2> QED
    BY <1>4, <1>8, <1>10
<1>12. Orderly(Script(day)) /\ Ons(Script(day))
  <2> HIDE DEF Ons
  <2> QED
    BY <1>3, <1>6, <1>8, <1>11
<1>13. ASSUME NEW op, NEW c, op # "on", Asks(Script(day), 1, op, c)
       PROVE  FALSE
  <2> DEFINE q == Script(day)
  <2>1. PICK j \in 1 .. Len(q) : InBatch(q, 1, j) /\ q[j].op = op
    BY <1>13 DEF Asks
  <2>2. Ons(q)
    BY <1>12
  <2> HIDE DEF q
  <2>3. k \in Nat
    BY <1>5 DEF k, Orderly
  <2>4. ~(j > k)
    <3> SUFFICES ASSUME j > k
                 PROVE  FALSE
      OBVIOUS
    <3>1. k + 1 \in 1 .. j
      BY <2>3
    <3>2. q[k + 1].op \in FreqOps
      BY <2>1, <3>1 DEF InBatch
    <3> QED
      BY <2>2, <3>2 DEF FreqOps
  <2>5. j \in 1 .. k
    BY <2>2, <2>3, <2>4
  <2> QED
    BY <1>13, <2>1, <2>2, <2>5
<1>14. Script(day) # <<>> /\ Head(Script(day)).op \in {"on", "target"}
  <2> DEFINE q == Script(day)
  <2>1. Ons(q) /\ k \in Nat
    BY <1>5, <1>12 DEF k, Orderly
  <2> HIDE DEF q
  <2>2. q # <<>> /\ Head(q) = q[1] /\ (k = 0 \/ 1 \in 1 .. k)
    BY <2>1
  <2> QED
    BY <2>1, <2>2 DEF q
<1> QED
  BY <1>12, <1>13, <1>14

\* What is left of the batch that is being sent, as <<command, core>>.
Left(q) == {x \in FreqOps \X Cores : Asks(q, 1, x[1], x[2])}

\* Of the commands left, core c has no limit to write: all of its are written.
Settled(left, gone, c) ==
    c \in Cores \ gone /\ \A op \in {"max", "min", "off"} : <<op, c>> \notin left

\* Of its limits, core c has still to write this one.
Halfway(left, gone, op, c) ==
    /\ c \in Cores \ gone
    /\ <<op, c>> \in left /\ <<Counter(op), c>> \notin left /\ <<"off", c>> \notin left

\* The limits lo and hi while the target low, high is being set.  One core has
\* brought one limit into force, a second one both; and a core that has written
\* one limit, where it was refused, has left the other at a value which will
\* not stand in the way.
Agree(left, gone, low, high, lo, hi) ==
    /\ lo <= hi
    /\ \A c \in Cores : Settled(left, gone, c) => lo = low \/ hi = high
    /\ \A c, d \in Cores :
           Settled(left, gone, c) /\ Settled(left, gone, d) /\ c # d => lo = low /\ hi = high
    /\ \A c \in Cores : Halfway(left, gone, "min", c) =>
           /\ hi = high \/ lo > high
           /\ \A d \in Cores : Settled(left, gone, d) => hi = high
    /\ \A c \in Cores : Halfway(left, gone, "max", c) =>
           /\ lo = low \/ hi < low
           /\ \A d \in Cores : Settled(left, gone, d) => lo = low

\* A core sends one of its commands: it is not left any more, and only this
\* core can be halfway.
Sending(op, c, left, left2) ==
    /\ op \in FreqOps /\ c \in Cores
    /\ left = left2 \cup {<<op, c>>}
    /\ op \in Writes => <<op, c>> \notin left2
    /\ \A d \in Cores : d # c \/ op \notin Writes => (<<"max", d>> \in left <=> <<"min", d>> \in left)

\* Nothing is left of a core but what was left before.
LEMMA SettledBefore ==
    ASSUME NEW op, NEW c, NEW left, NEW left2, Sending(op, c, left, left2), NEW gone,
           NEW d \in Cores, d # c
    PROVE  /\ Settled(left2, gone, d) <=> Settled(left, gone, d)
           /\ \A o \in Writes : ~Halfway(left, gone, o, d) /\ ~Halfway(left2, gone, o, d)
<1>1. \A o : <<o, d>> \in left2 <=> <<o, d>> \in left
  BY DEF Sending
<1>2. <<"max", d>> \in left <=> <<"min", d>> \in left
  BY DEF Sending
<1> QED
  BY <1>1, <1>2 DEF Settled, Halfway, Writes, Counter

\* The core has no chance, or has only been switched on.
LEMMA AgreeLost ==
    ASSUME NEW op, NEW c, NEW left, NEW left2, Sending(op, c, left, left2),
           NEW gone, NEW low, NEW high, NEW lo, NEW hi,
           Agree(left, gone, low, high, lo, hi),
           NEW gone2, gone2 = IF op = "on" THEN gone ELSE gone \cup {c}
    PROVE  Agree(left2, gone2, low, high, lo, hi)
<1>1. CASE op = "on"
  <2>1. \A o, d : o # "on" => (<<o, d>> \in left2 <=> <<o, d>> \in left)
    BY <1>1 DEF Sending
  <2>2. gone2 = gone
    BY <1>1
  <2>3. \A d : Settled(left2, gone2, d) <=> Settled(left, gone, d)
    BY <2>1, <2>2 DEF Settled
  <2>4. \A d : \A o \in Writes : Halfway(left2, gone2, o, d) <=> Halfway(left, gone, o, d)
    BY <2>1, <2>2 DEF Halfway, Writes, Counter
  <2> QED
    BY <2>3, <2>4 DEF Agree, Writes
<1>2. CASE op # "on"
  <2>1. gone2 = gone \cup {c}
    BY <1>2
  <2>2. ASSUME NEW d \in Cores
        PROVE  /\ Settled(left2, gone2, d) => Settled(left, gone, d)
               /\ \A o \in Writes : ~Halfway(left2, gone2, o, d)
    <3>1. CASE d = c
      BY <2>1, <3>1 DEF Settled, Halfway
    <3>2. CASE d # c
      <4>1. Settled(left2, gone2, d) <=> Settled(left2, gone, d)
        BY <2>1, <3>2 DEF Settled
      <4> QED
        BY <3>2, <4>1, SettledBefore
    <3> QED
      BY <3>1, <3>2
  <2> QED
    BY <2>2 DEF Agree, Writes
<1> QED
  BY <1>1, <1>2

\* The maximum is written; the kernel refuses it if the minimum is above.
LEMMA AgreeMax ==
    ASSUME NEW c, NEW left, NEW left2, Sending("max", c, left, left2),
           NEW gone, NEW low \in Nat, NEW high \in Nat, low <= high, NEW lo \in Nat, NEW hi \in Nat,
           Agree(left, gone, low, high, lo, hi),
           NEW hi2, hi2 = IF high >= lo THEN high ELSE hi
    PROVE  Agree(left2, gone, low, high, lo, hi2)
<1>1. /\ lo <= hi /\ lo <= hi2
      /\ lo = low \/ hi = high => hi2 = high
      /\ hi < low => hi2 = high
      /\ hi2 = high \/ lo > high
  BY DEF Agree
<1>2. c \in Cores /\ <<"max", c>> \in left /\ <<"max", c>> \notin left2
      /\ \A o : o # "max" => (<<o, c>> \in left2 <=> <<o, c>> \in left)
  BY DEF Sending, Writes
<1>3. Settled(left2, gone, c) => Halfway(left, gone, "max", c)
  BY <1>2 DEF Settled, Halfway, Counter
<1>4. ~Halfway(left2, gone, "max", c)
  BY <1>2 DEF Halfway
<1>5. \A d \in Cores : d # c => /\ Settled(left2, gone, d) => Settled(left, gone, d)
                                /\ ~Halfway(left2, gone, "min", d) /\ ~Halfway(left2, gone, "max", d)
  BY SettledBefore DEF Writes
<1>6. \A d \in Cores : Settled(left2, gone, d) => hi2 = high
  BY <1>1, <1>3, <1>5 DEF Agree
<1>7. ASSUME NEW d \in Cores, NEW e \in Cores, d # e,
             Settled(left2, gone, d), Settled(left2, gone, e)
      PROVE  lo = low
  BY <1>3, <1>5, <1>7 DEF Agree
<1> QED
  BY <1>1, <1>4, <1>5, <1>6, <1>7 DEF Agree

\* The minimum is written; the kernel refuses it if the maximum is below.
LEMMA AgreeMin ==
    ASSUME NEW c, NEW left, NEW left2, Sending("min", c, left, left2),
           NEW gone, NEW low \in Nat, NEW high \in Nat, low <= high, NEW lo \in Nat, NEW hi \in Nat,
           Agree(left, gone, low, high, lo, hi),
           NEW lo2, lo2 = IF low <= hi THEN low ELSE lo
    PROVE  Agree(left2, gone, low, high, lo2, hi)
<1>1. /\ lo <= hi /\ lo2 <= hi
      /\ lo = low \/ hi = high => lo2 = low
      /\ lo > high => lo2 = low
      /\ lo2 = low \/ hi < low
  BY DEF Agree
<1>2. c \in Cores /\ <<"min", c>> \in left /\ <<"min", c>> \notin left2
      /\ \A o : o # "min" => (<<o, c>> \in left2 <=> <<o, c>> \in left)
  BY DEF Sending, Writes
<1>3. Settled(left2, gone, c) => Halfway(left, gone, "min", c)
  BY <1>2 DEF Settled, Halfway, Counter
<1>4. ~Halfway(left2, gone, "min", c)
  BY <1>2 DEF Halfway
<1>5. \A d \in Cores : d # c => /\ Settled(left2, gone, d) => Settled(left, gone, d)
                                /\ ~Halfway(left2, gone, "min", d) /\ ~Halfway(left2, gone, "max", d)
  BY SettledBefore DEF Writes
<1>6. \A d \in Cores : Settled(left2, gone, d) => lo2 = low
  BY <1>1, <1>3, <1>5 DEF Agree
<1>7. ASSUME NEW d \in Cores, NEW e \in Cores, d # e,
             Settled(left2, gone, d), Settled(left2, gone, e)
      PROVE  hi = high
  BY <1>3, <1>5, <1>7 DEF Agree
<1> QED
  BY <1>1, <1>4, <1>5, <1>6, <1>7 DEF Agree

\* The first of an orderly sequence is sent.
LEMMA HeadSends ==
    ASSUME NEW q, Orderly(q), q # <<>>, Head(q).op \in FreqOps
    PROVE  Sending(Head(q).op, Head(q).core, Left(q), Left(Tail(q)))
<1> DEFINE t == Tail(q)
           op == Head(q).op
           c == Head(q).core
<1>1. /\ Len(q) \in Nat \ {0} /\ Len(t) = Len(q) - 1 /\ q \in Seq(Call)
      /\ op = q[1].op /\ c = q[1].core /\ q[1] \in Call
      /\ \A o, d : Asks(t, 1, o, d) <=> Asks(q, 2, o, d)
  <2>1. 1 \in Nat \ {0} /\ 1 + 1 = 2
    OBVIOUS
  <2>2. \A o, d : Asks(t, 1, o, d) <=> Asks(q, 1 + 1, o, d)
    BY <2>1, OrderlyTail
  <2> QED
    BY <2>1, <2>2, OrderlyTail DEF Orderly
<1>2. op \in FreqOps /\ c \in Cores
  BY <1>1 DEF Call, FreqOps, ShellOps
<1> HIDE DEF t, op, c
<1>3. \A j \in 1 .. Len(q) : InBatch(q, 1, j) <=> (j = 1 \/ InBatch(q, 2, j))
  BY <1>1, <1>2 DEF InBatch
<1>4. ASSUME NEW o, NEW d
      PROVE  Asks(q, 1, o, d) <=> ((o = op /\ d = c) \/ Asks(t, 1, o, d))
  <2>1. Asks(q, 1, o, d) => ((o = op /\ d = c) \/ Asks(q, 2, o, d))
    BY <1>1, <1>3 DEF Asks
  <2>2. Asks(q, 2, o, d) => Asks(q, 1, o, d)
    <3> SUFFICES ASSUME NEW j \in 2 .. Len(q), InBatch(q, 2, j), q[j].op = o, q[j].core = d
                 PROVE  Asks(q, 1, o, d)
      BY DEF Asks
    <3>1. j \in 1 .. Len(q) /\ InBatch(q, 1, j)
      BY <1>1, <1>3
    <3> QED
      BY <3>1 DEF Asks
  <2>3. Asks(q, 1, op, c)
    <3>1. 1 \in 1 .. Len(q) /\ InBatch(q, 1, 1)
      BY <1>1, <1>3
    <3> QED
      BY <1>1, <3>1 DEF Asks
  <2> QED
    BY <1>1, <2>1, <2>2, <2>3
<1>5. Left(q) = Left(t) \cup {<<op, c>>}
  BY <1>2, <1>4 DEF Left
\* The limits of a core that are left: each one once, and the other with it.
<1>6. ASSUME NEW o \in Writes, NEW d \in Cores, Asks(q, 2, o, d)
      PROVE  ~(o = op /\ d = c) /\ Asks(q, 1, Counter(o), d)
  <2>1. PICK j \in 2 .. Len(q) : InBatch(q, 2, j) /\ q[j].op = o /\ q[j].core = d
    BY <1>6 DEF Asks
  <2>2. j \in 1 .. Len(q) /\ 1 \in 1 .. j - 1 /\ InBatch(q, 1, j)
    BY <1>1, <1>3, <2>1
  <2> QED
    BY <1>1, <1>6, <2>1, <2>2 DEF Orderly, Paired
<1>7. op \in Writes => <<op, c>> \notin Left(t)
  BY <1>1, <1>2, <1>6 DEF Left
<1>8. ASSUME NEW d \in Cores, d # c \/ op \notin Writes, NEW o \in Writes, <<o, d>> \in Left(q)
      PROVE  <<Counter(o), d>> \in Left(q)
  <2>1. Asks(q, 2, o, d)
    BY <1>1, <1>4, <1>8 DEF Left
  <2>2. Asks(q, 1, Counter(o), d) /\ Counter(o) \in FreqOps
    BY <1>6, <1>8, <2>1 DEF Counter, FreqOps
  <2> QED
    BY <2>2 DEF Left
<1>9. \A d \in Cores : d # c \/ op \notin Writes => (<<"max", d>> \in Left(q) <=> <<"min", d>> \in Left(q))
  <2>1. "max" \in Writes /\ "min" \in Writes /\ Counter("max") = "min" /\ Counter("min") = "max"
    BY DEF Writes, Counter
  <2> QED
    BY <1>8, <2>1
<1>10. Sending(op, c, Left(q), Left(t))
  BY <1>2, <1>5, <1>7, <1>9 DEF Sending
<1> QED
  BY <1>10 DEF op, c, t

\* When no command on the cores is next, none is left.
LEMMA NothingLeft ==
    ASSUME NEW q, Orderly(q), q = <<>> \/ Head(q).op \notin FreqOps
    PROVE  Left(q) = {} /\ \A i \in 1 .. Len(q) : ~InBatch(q, 1, i)
<1>1. \A i \in 1 .. Len(q) : ~InBatch(q, 1, i)
  <2> SUFFICES ASSUME NEW i \in 1 .. Len(q), InBatch(q, 1, i)
               PROVE  FALSE
    OBVIOUS
  <2>1. q # <<>> /\ Head(q) = q[1] /\ 1 \in 1 .. i
    BY DEF Orderly
  <2> QED
    BY <2>1 DEF InBatch
<1> QED
  BY <1>1 DEF Left, Asks

\* The writes of the batch that is being sent are those of the target.
Wanted(q, low, high) ==
    \A i \in 1 .. Len(q) : InBatch(q, 1, i) =>
        /\ q[i].op = "max" => q[i].freq = high
        /\ q[i].op = "min" => q[i].freq = low

LEMMA WantedTail ==
    ASSUME NEW q, Orderly(q), q # <<>>, Head(q).op \in FreqOps,
           NEW low, NEW high, Wanted(q, low, high)
    PROVE  /\ Wanted(Tail(q), low, high)
           /\ Head(q).op = "max" => Head(q).freq = high
           /\ Head(q).op = "min" => Head(q).freq = low
<1> DEFINE t == Tail(q)
<1>1. /\ Len(q) \in Nat \ {0} /\ Len(t) = Len(q) - 1 /\ Head(q) = q[1]
      /\ \A i \in 1 .. Len(q) - 1 : t[i] = q[i + 1]
      /\ \A i, j \in Nat \ {0} : j < Len(q) => (InBatch(t, i, j) <=> InBatch(q, i + 1, j + 1))
  BY OrderlyTail
<1> HIDE DEF t
<1>2. 1 \in 1 .. Len(q) /\ InBatch(q, 1, 1)
  BY <1>1 DEF InBatch
<1>3. ASSUME NEW i \in 1 .. Len(t), InBatch(t, 1, i)
      PROVE  /\ t[i].op = "max" => t[i].freq = high
             /\ t[i].op = "min" => t[i].freq = low
  <2>1. i \in Nat \ {0} /\ 1 \in Nat \ {0} /\ i < Len(q) /\ t[i] = q[i + 1] /\ i + 1 \in 1 .. Len(q)
    BY <1>1
  <2>2. InBatch(q, 1 + 1, i + 1)
    BY <1>1, <1>3, <2>1
  <2>3. InBatch(q, 1, i + 1)
    BY <1>1, <2>1, <2>2 DEF InBatch
  <2> QED
    BY <2>1, <2>3 DEF Wanted
<1> QED
  BY <1>1, <1>2, <1>3 DEF Wanted, t

\* A target that is set begins a batch for all cores.
LEMMA TargetSent ==
    ASSUME NEW q, Orderly(q), q # <<>>, Head(q).op = "target",
           NEW lo, NEW hi, lo <= hi
    PROVE  /\ Head(q).low \in Freqs /\ Head(q).high \in Freqs /\ Head(q).low <= Head(q).high
           /\ Wanted(Tail(q), Head(q).low, Head(q).high)
           /\ Agree(Left(Tail(q)), {}, Head(q).low, Head(q).high, lo, hi)
<1> DEFINE t == Tail(q)
           h == Head(q)
<1>1. /\ Len(q) \in Nat \ {0} /\ Len(t) = Len(q) - 1 /\ h = q[1] /\ h \in Call
      /\ \A i \in 1 .. Len(q) - 1 : t[i] = q[i + 1]
      /\ \A i, j \in Nat \ {0} : j < Len(q) => (InBatch(t, i, j) <=> InBatch(q, i + 1, j + 1))
      /\ \A i \in Nat \ {0} : \A o, d : Asks(t, i, o, d) <=> Asks(q, i + 1, o, d)
  BY OrderlyTail
<1>2. h.op = "target"
  OBVIOUS
<1> HIDE DEF t, h
<1>3. h.low \in Freqs /\ h.high \in Freqs
  BY <1>1, <1>2 DEF Call, FreqOps, ShellOps
<1>4. /\ q[1].low <= q[1].high
      /\ \A j \in 1 + 1 .. Len(q) : InBatch(q, 1 + 1, j) =>
             /\ q[j].op = "max" => q[j].freq = q[1].high
             /\ q[j].op = "min" => q[j].freq = q[1].low
      /\ \A c \in Cores : \/ Asks(q, 1 + 1, "off", c)
                          \/ Asks(q, 1 + 1, "max", c) /\ Asks(q, 1 + 1, "min", c)
  <2>1. 1 \in 1 .. Len(q)
    BY <1>1
  <2> QED
    BY <1>1, <1>2, <2>1 DEF Orderly, Targeted
<1>5. Wanted(t, h.low, h.high)
  <2> SUFFICES ASSUME NEW i \in 1 .. Len(t), InBatch(t, 1, i)
               PROVE  /\ t[i].op = "max" => t[i].freq = h.high
                      /\ t[i].op = "min" => t[i].freq = h.low
    BY DEF Wanted
  <2>1. /\ i \in Nat \ {0} /\ 1 \in Nat \ {0} /\ i < Len(q) /\ t[i] = q[i + 1]
        /\ i + 1 \in 1 + 1 .. Len(q)
    BY <1>1
  <2>2. InBatch(q, 1 + 1, i + 1)
    BY <1>1, <2>1
  <2> QED
    BY <1>1, <1>4, <2>1, <2>2
<1>6. \A o, d : Asks(t, 1, o, d) <=> Asks(q, 1 + 1, o, d)
  <2>1. 1 \in Nat \ {0}
    OBVIOUS
  <2> QED
    BY <1>1, <2>1
<1>7. ASSUME NEW c \in Cores
      PROVE  \/ <<"off", c>> \in Left(t)
             \/ <<"max", c>> \in Left(t) /\ <<"min", c>> \in Left(t)
  BY <1>4, <1>6 DEF Left, FreqOps
<1>8. \A c \in Cores : /\ ~Settled(Left(t), {}, c)
                       /\ ~Halfway(Left(t), {}, "min", c) /\ ~Halfway(Left(t), {}, "max", c)
  BY <1>7 DEF Settled, Halfway, Counter
<1>9. Agree(Left(t), {}, h.low, h.high, lo, hi)
  BY <1>8 DEF Agree
<1> QED
  BY <1>1, <1>3, <1>4, <1>5, <1>9 DEF h, t

\* The inductive invariant of the limits.
LimitsInv ==
    /\ Orderly(todo)
    /\ {scaling_min, scaling_max, target.low, target.high} \subseteq Freqs
    /\ target.low <= target.high
    /\ Wanted(todo, target.low, target.high)
    /\ Agree(Left(todo), missed, target.low, target.high, scaling_min, scaling_max)

LEMMA LimitsInit == Init => LimitsInv
<1> SUFFICES ASSUME Init
             PROVE  LimitsInv
  OBVIOUS
<1>1. PICK day \in Days : todo = Script(day)
  BY DEF Init
<1>2. /\ scaling_min \in Freqs /\ scaling_max \in Freqs /\ scaling_min <= scaling_max
      /\ target = Target(scaling_min, scaling_max) /\ missed = {}
  BY DEF Init
<1>3. Orderly(todo) /\ \A op, c : op # "on" => ~Asks(todo, 1, op, c)
  BY <1>1, <1>2, ScriptOrderly
<1>4. target.low = scaling_min /\ target.high = scaling_max
  BY <1>2 DEF Target
<1>5. Wanted(todo, target.low, target.high)
  BY <1>3 DEF Wanted, Asks
<1>6. \A c : /\ ~Halfway(Left(todo), missed, "min", c)
             /\ ~Halfway(Left(todo), missed, "max", c)
  BY <1>3 DEF Halfway, Left
<1>7. Agree(Left(todo), missed, target.low, target.high, scaling_min, scaling_max)
  BY <1>2, <1>4, <1>6 DEF Agree
<1> QED
  BY <1>2, <1>3, <1>4, <1>5, <1>7 DEF LimitsInv

LEMMA LimitsStep == LimitsInv /\ [Next]_vars => LimitsInv'
<1> SUFFICES ASSUME LimitsInv, [Next]_vars
             PROVE  LimitsInv'
  OBVIOUS
<1>1. Orderly(todo)
  BY DEF LimitsInv
<1>2. todo # <<>> => Orderly(Tail(todo))
  BY <1>1, OrderlyTail
<1>3. Freqs \subseteq Nat
  BY FreqAssumption
\* The next command is one on the cores.
<1>4. ASSUME Sends(FreqOps), UNCHANGED target
      PROVE  /\ Orderly(todo') /\ Wanted(todo', target'.low, target'.high)
             /\ Sending(Head(todo).op, Head(todo).core, Left(todo), Left(todo'))
             /\ Head(todo).op = "max" => Head(todo).freq = target.high
             /\ Head(todo).op = "min" => Head(todo).freq = target.low
  <2>1. todo # <<>> /\ Head(todo).op \in FreqOps /\ todo' = Tail(todo)
    BY <1>4 DEF Sends
  <2>2. Wanted(todo, target.low, target.high)
    BY DEF LimitsInv
  <2>3. Sending(Head(todo).op, Head(todo).core, Left(todo), Left(Tail(todo)))
    BY <1>1, <2>1, HeadSends
  <2>4. /\ Wanted(Tail(todo), target.low, target.high)
        /\ Head(todo).op = "max" => Head(todo).freq = target.high
        /\ Head(todo).op = "min" => Head(todo).freq = target.low
    BY <1>1, <2>1, <2>2, WantedTail
  <2>5. target' = target
    BY <1>4
  <2> QED
    BY <1>2, <2>1, <2>3, <2>4, <2>5
\* It is one that leaves the limits alone.
<1>5. ASSUME NEW ops, Sends(ops), ops \cap (FreqOps \cup {"target"}) = {},
             UNCHANGED <<freqVars, target, missed>>
      PROVE  LimitsInv'
  <2>1. todo # <<>> /\ Head(todo).op \notin FreqOps \cup {"target"} /\ todo' = Tail(todo)
    BY <1>5 DEF Sends
  <2>2. Left(todo) = {}
    BY <1>1, <2>1, NothingLeft
  <2>3. Tail(todo) = <<>> \/ Head(Tail(todo)).op \notin FreqOps
    <3>1. Head(todo).op \in ShellOps \cup {"pull"}
      BY <1>1, <2>1, OrderlyTail DEF Call
    <3>2. Tail(todo) # <<>> => MayFollow(Head(todo), Head(Tail(todo)))
      BY <1>1, <2>1, HeadFollowed
    <3> QED
      BY <3>1, <3>2 DEF MayFollow, Successions, FreqOps, ShellOps
  <2>4. Left(Tail(todo)) = {} /\ \A i \in 1 .. Len(Tail(todo)) : ~InBatch(Tail(todo), 1, i)
    BY <1>2, <2>1, <2>3, NothingLeft
  <2>5. Wanted(Tail(todo), target.low, target.high)
    BY <2>4 DEF Wanted
  <2>6. Agree(Left(Tail(todo)), missed, target.low, target.high, scaling_min, scaling_max)
    BY <2>2, <2>4 DEF LimitsInv
  <2>7. UNCHANGED <<scaling_min, scaling_max, target, missed>>
    BY <1>5 DEF freqVars
  <2> QED
    BY <1>2, <2>1, <2>5, <2>6, <2>7 DEF LimitsInv
\* The rest leaves the commands as they are, too.
<1>6. ASSUME UNCHANGED <<todo, scaling_min, scaling_max, target, missed>>
      PROVE  LimitsInv'
  BY <1>6 DEF LimitsInv
<1>7. CASE NewTarget
  <2>1. /\ todo # <<>> /\ Head(todo).op = "target" /\ todo' = Tail(todo)
        /\ target' = Head(todo) /\ missed' = {} /\ UNCHANGED <<scaling_min, scaling_max>>
    BY <1>7 DEF NewTarget, Sends, freqVars
  <2>2. scaling_min <= scaling_max
    BY DEF LimitsInv, Agree
  <2>3. /\ Head(todo).low \in Freqs /\ Head(todo).high \in Freqs /\ Head(todo).low <= Head(todo).high
        /\ Wanted(Tail(todo), Head(todo).low, Head(todo).high)
        /\ Agree(Left(Tail(todo)), {}, Head(todo).low, Head(todo).high, scaling_min, scaling_max)
    BY <1>1, <2>1, <2>2, TargetSent
  <2> QED
    BY <1>2, <2>1, <2>3 DEF LimitsInv
<1>8. CASE SendFreq
  <2> DEFINE op == Head(todo).op
             c == Head(todo).core
             f == Head(todo).freq
  <2>1. /\ Orderly(todo') /\ Wanted(todo', target'.low, target'.high)
        /\ Sending(op, c, Left(todo), Left(todo'))
        /\ op = "max" => f = target.high
        /\ op = "min" => f = target.low
    <3>1. Sends(FreqOps) /\ UNCHANGED target
      BY <1>8 DEF SendFreq
    <3> QED
      BY <1>4, <3>1
  <2>2. /\ \/ op = "max" /\ WriteMax(c, f)
           \/ op = "min" /\ WriteMin(c, f)
           \/ op = "on" /\ WriteOnline(c, TRUE)
           \/ op = "off" /\ WriteOnline(c, FALSE)
        /\ missed' = IF op = "off" \/ (op \in {"max", "min"} /\ c \notin online)
                     THEN missed \cup {c} ELSE missed
        /\ UNCHANGED target
    BY <1>8 DEF SendFreq
  <2> HIDE DEF op, c, f
  <2>3. /\ Agree(Left(todo), missed, target.low, target.high, scaling_min, scaling_max)
        /\ target.low \in Nat /\ target.high \in Nat /\ target.low <= target.high
        /\ scaling_min \in Nat /\ scaling_max \in Nat
    BY <1>3 DEF LimitsInv
  <2>4. /\ Agree(Left(todo'), missed', target.low, target.high, scaling_min', scaling_max')
        /\ {scaling_min', scaling_max'} \subseteq Freqs
    <3>1. CASE op = "max" /\ c \in online
      <4>1. /\ scaling_max' = IF target.high >= scaling_min THEN target.high ELSE scaling_max
            /\ scaling_min' = scaling_min /\ missed' = missed
        BY <2>1, <2>2, <3>1 DEF WriteMax
      <4>2. Agree(Left(todo'), missed, target.low, target.high, scaling_min, scaling_max')
        BY <2>1, <2>3, <3>1, <4>1, AgreeMax
      <4> QED
        BY <4>1, <4>2 DEF LimitsInv
    <3>2. CASE op = "min" /\ c \in online
      <4>1. /\ scaling_min' = IF target.low <= scaling_max THEN target.low ELSE scaling_min
            /\ scaling_max' = scaling_max /\ missed' = missed
        BY <2>1, <2>2, <3>2 DEF WriteMin
      <4>2. Agree(Left(todo'), missed, target.low, target.high, scaling_min', scaling_max)
        BY <2>1, <2>3, <3>2, <4>1, AgreeMin
      <4> QED
        BY <4>1, <4>2 DEF LimitsInv
    <3>3. CASE op \in {"on", "off"} \/ c \notin online
      <4>1. /\ missed' = IF op = "on" THEN missed ELSE missed \cup {c}
            /\ UNCHANGED <<scaling_min, scaling_max>>
        BY <2>2, <3>3 DEF WriteMax, WriteMin, WriteOnline
      <4>2. Agree(Left(todo'), missed', target.low, target.high, scaling_min, scaling_max)
        BY <2>1, <2>3, <4>1, AgreeLost
      <4> QED
        BY <4>1, <4>2 DEF LimitsInv
    <3> QED
      BY <2>2, <3>1, <3>2, <3>3
  <2>5. target' = target
    BY <2>2
  <2>6. LimitsInv'
    BY <2>1, <2>3, <2>4, <2>5 DEF LimitsInv
  <2> QED
    BY <2>6
<1>9. CASE LoseFreq
  <2>1. /\ Sends(FreqOps) /\ UNCHANGED <<scaling_min, scaling_max, target>>
        /\ missed' = IF Head(todo).op = "on" THEN missed ELSE missed \cup {Head(todo).core}
    BY <1>9 DEF LoseFreq, freqVars
  <2>2. /\ Orderly(todo') /\ Wanted(todo', target'.low, target'.high)
        /\ Sending(Head(todo).op, Head(todo).core, Left(todo), Left(todo'))
    BY <1>4, <2>1
  <2>3. Agree(Left(todo), missed, target.low, target.high, scaling_min, scaling_max)
    BY DEF LimitsInv
  <2>4. Agree(Left(todo'), missed', target.low, target.high, scaling_min, scaling_max)
    BY <2>1, <2>2, <2>3, AgreeLost
  <2> QED
    BY <2>1, <2>2, <2>4 DEF LimitsInv
<1>10. CASE SendShell
  <2>1. Sends(ShellOps) /\ UNCHANGED <<freqVars, target, missed>>
    BY <1>10 DEF SendShell
  <2>2. ShellOps \cap (FreqOps \cup {"target"}) = {}
    BY DEF ShellOps, FreqOps
  <2> QED
    BY <1>5, <2>1, <2>2
<1>11. CASE Pull
  <2>1. Sends({"pull"}) /\ UNCHANGED <<freqVars, target, missed>>
    BY <1>11 DEF Pull
  <2>2. {"pull"} \cap (FreqOps \cup {"target"}) = {}
    BY DEF FreqOps
  <2> QED
    BY <1>5, <2>1, <2>2
<1>12. CASE LoseCommand
  <2>1. Sends(ShellOps \cup {"pull"}) /\ UNCHANGED <<freqVars, target, missed>>
    BY <1>12 DEF LoseCommand
  <2>2. (ShellOps \cup {"pull"}) \cap (FreqOps \cup {"target"}) = {}
    BY DEF ShellOps, FreqOps
  <2> QED
    BY <1>5, <2>1, <2>2
<1>13. CASE Device \/ CutOff \/ Death \/ UNCHANGED vars
  <2>1. UNCHANGED <<todo, scaling_min, scaling_max, target, missed>>
    BY <1>13 DEF Device, CutOff, Death, vars, freqVars, hostVars
  <2> QED
    BY <1>6, <2>1
<1> QED
  BY <1>7, <1>8, <1>9, <1>10, <1>11, <1>12, <1>13 DEF Next, Host

\* When all is sent, two cores that missed nothing have all their limits set.
LEMMA LimitsFollow == LimitsInv => LimitsInForce
<1> DEFINE S == Cores \ missed
<1> SUFFICES ASSUME LimitsInv, LimitsSet, ~(Cardinality(S) < 2)
             PROVE  scaling_min = target.low /\ scaling_max = target.high
  BY DEF LimitsInForce
<1>1. Left(todo) = {}
  BY NothingLeft DEF LimitsInv, LimitsSet
<1>2. \A c \in S : Settled(Left(todo), missed, c)
  BY <1>1 DEF Settled
<1>3. \E c, d \in S : c # d
  <2> SUFFICES ASSUME \A c, d \in S : c = d
               PROVE  FALSE
    OBVIOUS
  <2>1. CASE S = {}
    <3>1. Cardinality(S) = 0
      BY <2>1, FS_EmptySet
    <3> QED
      BY <3>1
  <2>2. CASE S # {}
    <3>1. PICK c : S = {c}
      BY <2>2
    <3> HIDE DEF S
    <3>2. Cardinality(S) = 1
      BY <3>1, FS_Singleton
    <3> QED
      BY <3>2
  <2> QED
    BY <2>1, <2>2
<1> QED
  BY <1>2, <1>3 DEF LimitsInv, Agree

\* When the limits have been set they are in force, as long as two cores got
\* their commands -- for any number of cores, any frequencies, whatever the
\* limits were before, and whatever is lost (power_tests_syslogger.sh:144-157,
\* gov_controller.py:91-106).
THEOREM LimitsHold == Spec => []LimitsInForce
<1>1. LimitsInv /\ [Next]_vars => LimitsInv'
  BY LimitsStep
<1> QED
  BY LimitsInit, LimitsFollow, <1>1, PTL DEF Spec

-----------------------------------------------------------------------------
(* The recordings.  What is left of a command tells what has been done.    *)

SetupAll == <<"insmod", "rm_trace_dat", "until_writable", "reset", "record", "pid">>
FinishAll == <<"disable", "kill", "rm_pid", "reset", "rmmod">>

\* q is what is left of these steps.
RestOf(q, all) ==
    /\ Len(q) \in 1 .. Len(all)
    /\ \A i \in 1 .. Len(q) : q[i] = all[(Len(all) - Len(q)) + i]

\* How many steps are left of a setup, and of a finish.
SetupLeft(q) == IF RestOf(q, SetupAll) THEN Len(q) ELSE 0
FinishLeft(q) == IF RestOf(q, FinishAll) THEN Len(q) ELSE 0

Shape(q) ==
    /\ q \in Seq(Steps)
    /\ q \in {<<>>, <<"enable">>, <<"disable">>} \/ RestOf(q, SetupAll) \/ RestOf(q, FinishAll)

LEMMA Shapes ==
    ASSUME NEW q, Shape(q)
    PROVE  /\ SetupLeft(q) \in 0 .. 6 /\ FinishLeft(q) \in 0 .. 5
           /\ SetupLeft(q) = 0 \/ FinishLeft(q) = 0
           /\ q = <<>> => SetupLeft(q) = 0 /\ FinishLeft(q) = 0
           /\ "pid" \in ToSet(q) <=> SetupLeft(q) # 0
           /\ "rmmod" \in ToSet(q) <=> FinishLeft(q) # 0
<1> DEFINE s == SetupAll
           f == FinishAll
<1>1. /\ Len(s) = 6 /\ s[6] = "pid"
      /\ \A i \in 1 .. 6 : s[i] \in {"insmod", "rm_trace_dat", "until_writable", "reset", "record", "pid"}
      /\ Len(f) = 5 /\ f[5] = "rmmod"
      /\ \A i \in 1 .. 5 : f[i] \in {"disable", "kill", "rm_pid", "reset", "rmmod"}
  BY DEF SetupAll, FinishAll
<1>2. Len(q) \in Nat /\ ToSet(q) = {q[i] : i \in 1 .. Len(q)}
  BY DEF Shape, ToSet
<1> HIDE DEF s, f
<1>3. CASE RestOf(q, SetupAll)
  <2>5. /\ Len(q) \in 1 .. Len(s)
        /\ \A i \in 1 .. Len(q) : q[i] = s[(Len(s) - Len(q)) + i]
    BY <1>3 DEF RestOf, s
  <2>6. /\ Len(q) \in 1 .. 6 /\ Len(q) \in 1 .. Len(q) /\ (6 - Len(q)) + Len(q) = 6
        /\ \A i \in 1 .. Len(q) : (6 - Len(q)) + i \in 1 .. 6
    <3> DEFINE k == Len(q)
    <3>1. k \in 1 .. 6
      BY <1>1, <2>5
    <3> HIDE DEF k
    <3>2. k \in 1 .. 6 /\ k \in 1 .. k /\ (6 - k) + k = 6 /\ \A i \in 1 .. k : (6 - k) + i \in 1 .. 6
      BY <3>1
    <3> QED
      BY <3>2 DEF k
  <2>1. /\ Len(q) \in 1 .. 6 /\ Len(q) \in 1 .. Len(q) /\ (6 - Len(q)) + Len(q) = 6
        /\ \A i \in 1 .. Len(q) : q[i] = s[(6 - Len(q)) + i] /\ (6 - Len(q)) + i \in 1 .. 6
    BY <1>1, <2>5, <2>6
  <2>2. q[Len(q)] = "pid" /\ \A i \in 1 .. Len(q) : q[i] \notin {"disable", "kill", "rm_pid", "rmmod"}
    BY <1>1, <2>1
  <2>3. ~RestOf(q, FinishAll)
    <3> SUFFICES ASSUME RestOf(q, FinishAll)
                 PROVE  FALSE
      OBVIOUS
    <3>1. q[Len(q)] = f[(5 - Len(q)) + Len(q)] /\ (5 - Len(q)) + Len(q) = 5
      BY <1>1, <1>2, <2>1 DEF RestOf, f
    <3> QED
      BY <1>1, <2>2, <3>1
  <2>4. "pid" \in ToSet(q) /\ "rmmod" \notin ToSet(q) /\ q # <<>>
    BY <1>2, <2>1, <2>2
  <2> QED
    BY <1>3, <2>1, <2>3, <2>4 DEF SetupLeft, FinishLeft
<1>4. CASE RestOf(q, FinishAll)
  <2>5. /\ Len(q) \in 1 .. Len(f)
        /\ \A i \in 1 .. Len(q) : q[i] = f[(Len(f) - Len(q)) + i]
    BY <1>4 DEF RestOf, f
  <2>6. /\ Len(q) \in 1 .. 5 /\ Len(q) \in 1 .. Len(q) /\ (5 - Len(q)) + Len(q) = 5
        /\ \A i \in 1 .. Len(q) : (5 - Len(q)) + i \in 1 .. 5
    <3> DEFINE k == Len(q)
    <3>1. k \in 1 .. 5
      BY <1>1, <2>5
    <3> HIDE DEF k
    <3>2. k \in 1 .. 5 /\ k \in 1 .. k /\ (5 - k) + k = 5 /\ \A i \in 1 .. k : (5 - k) + i \in 1 .. 5
      BY <3>1
    <3> QED
      BY <3>2 DEF k
  <2>1. /\ Len(q) \in 1 .. 5 /\ Len(q) \in 1 .. Len(q) /\ (5 - Len(q)) + Len(q) = 5
        /\ \A i \in 1 .. Len(q) : q[i] = f[(5 - Len(q)) + i] /\ (5 - Len(q)) + i \in 1 .. 5
    BY <1>1, <2>5, <2>6
  <2>2. q[Len(q)] = "rmmod" /\ \A i \in 1 .. Len(q) : q[i] # "pid"
    BY <1>1, <2>1
  <2>3. ~RestOf(q, SetupAll)
    <3> SUFFICES ASSUME RestOf(q, SetupAll)
                 PROVE  FALSE
      OBVIOUS
    <3>1. q[Len(q)] = s[(6 - Len(q)) + Len(q)] /\ (6 - Len(q)) + Len(q) = 6
      BY <1>1, <1>2, <2>1 DEF RestOf, s
    <3> QED
      BY <1>1, <2>2, <3>1
  <2>4. "rmmod" \in ToSet(q) /\ "pid" \notin ToSet(q) /\ q # <<>>
    BY <1>2, <2>1, <2>2
  <2> QED
    BY <1>4, <2>1, <2>3, <2>4 DEF SetupLeft, FinishLeft
<1>5. CASE ~RestOf(q, SetupAll) /\ ~RestOf(q, FinishAll)
  <2>1. q \in {<<>>, <<"enable">>, <<"disable">>}
    BY <1>5 DEF Shape
  <2>2. "pid" \notin ToSet(q) /\ "rmmod" \notin ToSet(q)
    BY <1>2, <2>1
  <2> QED
    BY <1>5, <2>2 DEF SetupLeft, FinishLeft
<1> QED
  BY <1>3, <1>4, <1>5

\* The next step tells how many are left, and the rest has one less.
LEMMA ShapeTail ==
    ASSUME NEW q, Shape(q), q # <<>>
    PROVE  /\ Shape(Tail(q))
           /\ SetupLeft(q) # 0 => Head(q) = SetupAll[7 - SetupLeft(q)]
           /\ FinishLeft(q) # 0 => Head(q) = FinishAll[6 - FinishLeft(q)]
           /\ SetupLeft(q) = 0 /\ FinishLeft(q) = 0 => Head(q) \in {"enable", "disable"}
           /\ SetupLeft(Tail(q)) = IF SetupLeft(q) = 0 THEN 0 ELSE SetupLeft(q) - 1
           /\ FinishLeft(Tail(q)) = IF FinishLeft(q) = 0 THEN 0 ELSE FinishLeft(q) - 1
<1> DEFINE t == Tail(q)
<1>1. /\ Len(q) \in Nat \ {0} /\ t \in Seq(Steps) /\ Len(t) = Len(q) - 1 /\ Head(q) = q[1]
      /\ \A i \in 1 .. Len(t) : t[i] = q[i + 1]
      /\ Len(q) = 1 => t = <<>>
  BY DEF Shape
<1>2. Len(SetupAll) = 6 /\ Len(FinishAll) = 5
  BY DEF SetupAll, FinishAll
<1> HIDE DEF t
<1>3. ASSUME NEW all, Len(all) \in Nat, RestOf(q, all)
      PROVE  /\ q[1] = all[(Len(all) + 1) - Len(q)]
             /\ IF Len(q) = 1 THEN t = <<>> ELSE RestOf(t, all)
  <2>1. 1 \in 1 .. Len(q) /\ (Len(all) - Len(q)) + 1 = (Len(all) + 1) - Len(q)
    BY <1>1, <1>3
  <2>2. q[1] = all[(Len(all) + 1) - Len(q)]
    BY <1>3, <2>1 DEF RestOf
  <2>3. ASSUME Len(q) # 1
        PROVE  RestOf(t, all)
    <3>1. Len(t) \in 1 .. Len(all)
      BY <1>1, <1>3, <2>3 DEF RestOf
    <3>2. ASSUME NEW i \in 1 .. Len(t)
          PROVE  t[i] = all[(Len(all) - Len(t)) + i]
      <4>1. i + 1 \in 1 .. Len(q) /\ (Len(all) - Len(q)) + (i + 1) = (Len(all) - Len(t)) + i
        BY <1>1, <1>3
      <4> QED
        BY <1>1, <1>3, <4>1 DEF RestOf
    <3> QED
      BY <3>1, <3>2 DEF RestOf
  <2> QED
    BY <1>1, <2>2, <2>3
<1>4. ~RestOf(<<>>, SetupAll) /\ ~RestOf(<<>>, FinishAll) /\ Shape(<<>>)
  BY DEF RestOf, Shape
<1>5. CASE RestOf(q, SetupAll)
  <2>1. SetupLeft(q) = Len(q) /\ FinishLeft(q) = 0
    BY <1>1, <1>5, Shapes DEF SetupLeft
  <2>2. Head(q) = SetupAll[7 - Len(q)] /\ IF Len(q) = 1 THEN t = <<>> ELSE RestOf(t, SetupAll)
    <3>1. /\ q[1] = SetupAll[(Len(SetupAll) + 1) - Len(q)]
          /\ IF Len(q) = 1 THEN t = <<>> ELSE RestOf(t, SetupAll)
      <4>1. Len(SetupAll) \in Nat
        BY <1>2
      <4> QED
        BY <1>3, <1>5, <4>1
    <3>2. (Len(SetupAll) + 1) - Len(q) = 7 - Len(q)
      BY <1>1, <1>2
    <3> QED
      BY <1>1, <3>1, <3>2
  <2>3. CASE Len(q) = 1
    <3>1. t = <<>>
      BY <2>2, <2>3
    <3>2. SetupLeft(t) = 0 /\ FinishLeft(t) = 0 /\ Shape(t)
      BY <1>4, <3>1 DEF SetupLeft, FinishLeft
    <3>3. 1 - 1 = 0
      OBVIOUS
    <3> QED
      BY <2>1, <2>2, <2>3, <3>2, <3>3 DEF t
  <2>4. CASE Len(q) # 1
    <3>1. RestOf(t, SetupAll) /\ Shape(t)
      BY <1>1, <2>2, <2>4 DEF Shape
    <3>2. SetupLeft(t) = Len(t) /\ FinishLeft(t) = 0
      <4>1. Len(t) # 0 /\ SetupLeft(t) = Len(t)
        BY <1>1, <2>4, <3>1 DEF SetupLeft
      <4> QED
        BY <3>1, <4>1, Shapes
    <3> QED
      BY <1>1, <2>1, <2>2, <3>1, <3>2 DEF t
  <2> QED
    BY <2>3, <2>4
<1>6. CASE RestOf(q, FinishAll)
  <2>1. FinishLeft(q) = Len(q) /\ SetupLeft(q) = 0
    BY <1>1, <1>6, Shapes DEF FinishLeft
  <2>2. Head(q) = FinishAll[6 - Len(q)] /\ IF Len(q) = 1 THEN t = <<>> ELSE RestOf(t, FinishAll)
    <3>1. /\ q[1] = FinishAll[(Len(FinishAll) + 1) - Len(q)]
          /\ IF Len(q) = 1 THEN t = <<>> ELSE RestOf(t, FinishAll)
      <4>1. Len(FinishAll) \in Nat
        BY <1>2
      <4> QED
        BY <1>3, <1>6, <4>1
    <3>2. (Len(FinishAll) + 1) - Len(q) = 6 - Len(q)
      BY <1>1, <1>2
    <3> QED
      BY <1>1, <3>1, <3>2
  <2>3. CASE Len(q) = 1
    <3>1. t = <<>>
      BY <2>2, <2>3
    <3>2. SetupLeft(t) = 0 /\ FinishLeft(t) = 0 /\ Shape(t)
      BY <1>4, <3>1 DEF SetupLeft, FinishLeft
    <3>3. 1 - 1 = 0
      OBVIOUS
    <3> QED
      BY <2>1, <2>2, <2>3, <3>2, <3>3 DEF t
  <2>4. CASE Len(q) # 1
    <3>1. RestOf(t, FinishAll) /\ Shape(t)
      BY <1>1, <2>2, <2>4 DEF Shape
    <3>2. FinishLeft(t) = Len(t) /\ SetupLeft(t) = 0
      <4>1. Len(t) # 0 /\ FinishLeft(t) = Len(t)
        BY <1>1, <2>4, <3>1 DEF FinishLeft
      <4> QED
        BY <3>1, <4>1, Shapes
    <3> QED
      BY <1>1, <2>1, <2>2, <3>1, <3>2 DEF t
  <2> QED
    BY <2>3, <2>4
<1>7. CASE ~RestOf(q, SetupAll) /\ ~RestOf(q, FinishAll)
  <2>1. q \in {<<"enable">>, <<"disable">>}
    BY <1>7 DEF Shape
  <2>2. Len(q) = 1 /\ Head(q) \in {"enable", "disable"}
    BY <2>1
  <2>3. t = <<>> /\ SetupLeft(q) = 0 /\ FinishLeft(q) = 0
    BY <1>1, <1>7, <2>2 DEF SetupLeft, FinishLeft
  <2> QED
    BY <1>4, <2>2, <2>3 DEF SetupLeft, FinishLeft, t
<1> QED
  BY <1>5, <1>6, <1>7

\* A step is taken: what is left before and after.
LEMMA StepTaken ==
    ASSUME NEW name, Step(name), Shape(shell)
    PROVE  /\ Shape(shell')
           /\ SetupLeft(shell') = IF SetupLeft(shell) = 0 THEN 0 ELSE SetupLeft(shell) - 1
           /\ FinishLeft(shell') = IF FinishLeft(shell) = 0 THEN 0 ELSE FinishLeft(shell) - 1
           /\ session' = session
           /\ name = "insmod" => SetupLeft(shell) = 6 /\ FinishLeft(shell) = 0
           /\ name = "rm_trace_dat" => SetupLeft(shell) = 5 /\ FinishLeft(shell) = 0
           /\ name = "until_writable" => SetupLeft(shell) = 4 /\ FinishLeft(shell) = 0
           /\ name = "reset" => \/ SetupLeft(shell) = 3 /\ FinishLeft(shell) = 0
                                \/ SetupLeft(shell) = 0 /\ FinishLeft(shell) = 2
           /\ name = "record" => SetupLeft(shell) = 2 /\ FinishLeft(shell) = 0
           /\ name = "pid" => SetupLeft(shell) = 1 /\ FinishLeft(shell) = 0
           /\ name = "enable" => SetupLeft(shell) = 0 /\ FinishLeft(shell) = 0
           /\ name = "disable" => SetupLeft(shell) = 0 /\ FinishLeft(shell) \in {0, 5}
           /\ name = "kill" => SetupLeft(shell) = 0 /\ FinishLeft(shell) = 4
           /\ name = "rm_pid" => SetupLeft(shell) = 0 /\ FinishLeft(shell) = 3
           /\ name = "rmmod" => SetupLeft(shell) = 0 /\ FinishLeft(shell) = 1
<1> DEFINE n == SetupLeft(shell)
           m == FinishLeft(shell)
<1>1. shell # <<>> /\ Head(shell) = name /\ shell' = Tail(shell) /\ session' = session
  BY DEF Step
<1>2. /\ Shape(shell') 
      /\ SetupLeft(shell') = IF n = 0 THEN 0 ELSE n - 1
      /\ FinishLeft(shell') = IF m = 0 THEN 0 ELSE m - 1
      /\ n # 0 => name = SetupAll[7 - n]
      /\ m # 0 => name = FinishAll[6 - m]
      /\ n = 0 /\ m = 0 => name \in {"enable", "disable"}
  BY <1>1, ShapeTail
<1>3. n \in 0 .. 6 /\ m \in 0 .. 5 /\ (n = 0 \/ m = 0)
  BY Shapes
<1>4. /\ SetupAll[1] = "insmod" /\ SetupAll[2] = "rm_trace_dat" /\ SetupAll[3] = "until_writable"
      /\ SetupAll[4] = "reset" /\ SetupAll[5] = "record" /\ SetupAll[6] = "pid"
      /\ FinishAll[1] = "disable" /\ FinishAll[2] = "kill" /\ FinishAll[3] = "rm_pid"
      /\ FinishAll[4] = "reset" /\ FinishAll[5] = "rmmod"
  BY DEF SetupAll, FinishAll
<1> HIDE DEF n, m
<1>5. CASE n # 0
  <2>1. m = 0 /\ (n = 1 \/ n = 2 \/ n = 3 \/ n = 4 \/ n = 5 \/ n = 6)
    BY <1>3, <1>5
  <2>2. name = SetupAll[7 - n]
    BY <1>2, <1>5
  <2>3. /\ (n = 1 => name = "pid") /\ (n = 2 => name = "record") /\ (n = 3 => name = "reset")
        /\ (n = 4 => name = "until_writable") /\ (n = 5 => name = "rm_trace_dat") /\ (n = 6 => name = "insmod")
    BY <1>4, <2>2
  <2>4. /\ name = "insmod" => n = 6
        /\ name = "rm_trace_dat" => n = 5
        /\ name = "until_writable" => n = 4
        /\ name = "reset" => n = 3
        /\ name = "record" => n = 2
        /\ name = "pid" => n = 1
        /\ name \notin {"enable", "disable", "kill", "rm_pid", "rmmod"}
    BY <2>1, <2>3
  <2> QED
    BY <1>1, <1>2, <2>1, <2>4 DEF n, m
<1>6. CASE n = 0 /\ m # 0
  <2>1. m = 1 \/ m = 2 \/ m = 3 \/ m = 4 \/ m = 5
    BY <1>3, <1>6
  <2>2. name = FinishAll[6 - m]
    BY <1>2, <1>6
  <2>3. /\ (m = 1 => name = "rmmod") /\ (m = 2 => name = "reset") /\ (m = 3 => name = "rm_pid")
        /\ (m = 4 => name = "kill") /\ (m = 5 => name = "disable")
    BY <1>4, <2>2
  <2>4. /\ name = "disable" => m = 5
        /\ name = "kill" => m = 4
        /\ name = "rm_pid" => m = 3
        /\ name = "reset" => m = 2
        /\ name = "rmmod" => m = 1
        /\ name \in {"disable", "kill", "rm_pid", "reset", "rmmod"}
    BY <2>1, <2>3
  <2> QED
    BY <1>1, <1>2, <1>6, <2>4 DEF n, m
<1>7. CASE n = 0 /\ m = 0
  BY <1>1, <1>2, <1>7 DEF n, m
<1> QED
  BY <1>5, <1>6, <1>7

\* The types, and that a command that runs belongs to a session.
Types == TypeOK /\ (shell # <<>> => session \in Sessions)

LEMMA TypesInit ==
    ASSUME Init, LimitsInv
    PROVE  Types
<1>1. FlowTypeOK
  <2>1. trouble \in Nat
    BY PowerAssumption DEF Init
  <2>2. Runs!TypeOK
    <3>1. Runs!Init
      BY DEF Init, FlowInit
    <3> QED
      BY <3>1 DEF Runs!Init, Runs!TypeOK
  <2>5. shell \in Seq(Steps)
    <3>1. shell = <<>>
      BY DEF Init, FlowInit
    <3> QED
      BY <3>1
  <2>3. /\ {loaded, writable, enabled} \subseteq BOOLEAN
        /\ session = 0 /\ live = {} /\ stopping = {} /\ pid_file = 0 /\ trace_dat = 0
        /\ marked = {} /\ late = {}
    BY DEF Init, FlowInit
  <2>4. 0 \in 0 .. NumSessions
    BY WorkflowAssumption
  <2> QED
    BY <2>1, <2>2, <2>3, <2>4, <2>5 DEF FlowTypeOK
<1>2. \A i \in DOMAIN todo : todo[i].op \in FreqOps \cup ShellOps \cup {"target", "pull"}
  <2>1. todo \in Seq(Call)
    BY DEF LimitsInv, Orderly
  <2>2. \A i \in DOMAIN todo : todo[i] \in Call
    BY <2>1
  <2> QED
    BY <2>2 DEF Call
<1>3. budget \in [limits : Nat, commands : Nat, deaths : Nat]
  BY PowerAssumption DEF Init
<1>4. results \in [Sessions -> 0 .. NumSessions]
  BY WorkflowAssumption DEF Init
<1> QED
  BY <1>1, <1>2, <1>3, <1>4 DEF Types, TypeOK, FreqTypeOK, Init, FlowInit, LimitsInv

\* What a step of a command may do to the module, and to the recorders and
\* their files.
ModuleMoves ==
    \/ Insmod \/ Refused
    \/ UNCHANGED moduleVars
    \/ Rmmod /\ (Trouble \/ UNCHANGED trouble)
    \/ enabled' \in BOOLEAN /\ (Runs!RequestMeasure \/ Runs!RequestCease)
       /\ UNCHANGED <<loaded, writable, trouble>>

RecorderMoves ==
    /\ live' \in {live, live \cup {session}}
    /\ stopping' \in {stopping, stopping \cup Interrupted}
    /\ pid_file' \in {pid_file, 0, session}
    /\ trace_dat' \in {trace_dat, 0}
    /\ marked' = marked
    /\ late' \in {late, late \cup stopping}

LEMMA ShellTypes ==
    ASSUME Types, ShellInv', ShellStep
    PROVE  FlowTypeOK' /\ session' = session /\ shell # <<>>
<1>1. shell # <<>> /\ session' = session
  BY DEF ShellStep, Step, ShellInsmod, ShellRmTraceDat, ShellWritable, ShellReload, ShellReset,
     ShellRecord, ShellPid, ShellEnable, ShellDisable, ShellKill, ShellRmPid, ShellStopThread, ShellRmmod
<1>2. session \in Sessions /\ Sessions = 1 .. NumSessions /\ NumSessions \in Nat
  BY <1>1, WorkflowAssumption DEF Types, Sessions
<1>3. FlowTypeOK
  BY DEF Types, TypeOK
<1>4. shell' \in Seq(Steps)
  BY DEF ShellInv
\* What the module does to its own state.
<1>5. ASSUME ModuleMoves
      PROVE  /\ {loaded', writable', enabled'} \subseteq BOOLEAN
             /\ Runs!TypeOK'
             /\ trouble' \in Nat
  <2>1. ASSUME Trouble
        PROVE  trouble' \in Nat
    BY <1>3, <2>1 DEF Trouble, FlowTypeOK
  <2>2. CASE Insmod
    BY <1>3, <2>1, <2>2 DEF Insmod, FlowTypeOK, Runs!NewInstance, Runs!TypeOK
  <2>3. CASE Refused
    BY <1>3, <2>1, <2>3 DEF Refused, FlowTypeOK, Runs!TypeOK
  <2>4. CASE UNCHANGED moduleVars
    BY <1>3, <2>4 DEF moduleVars, FlowTypeOK, Runs!TypeOK
  <2>5. CASE Rmmod /\ (Trouble \/ UNCHANGED trouble)
    BY <1>3, <2>1, <2>5 DEF Rmmod, FlowTypeOK, Runs!TypeOK
  <2>6. CASE /\ enabled' \in BOOLEAN /\ (Runs!RequestMeasure \/ Runs!RequestCease)
             /\ UNCHANGED <<loaded, writable, trouble>>
    BY <1>3, <2>6 DEF FlowTypeOK, Runs!RequestMeasure, Runs!RequestCease, Runs!TypeOK
  <2> QED
    BY <1>5, <2>2, <2>3, <2>4, <2>5, <2>6 DEF ModuleMoves
\* What the commands do to the recorders and their files.
<1>6. ASSUME RecorderMoves
      PROVE  /\ live' \subseteq Sessions /\ stopping' \subseteq live'
             /\ pid_file' \in 0 .. NumSessions /\ trace_dat' \in 0 .. NumSessions
             /\ marked' \cup late' \subseteq Sessions
  <2>1. live' \subseteq Sessions /\ live \subseteq live'
    BY <1>2, <1>3, <1>6 DEF FlowTypeOK, RecorderMoves
  <2>2. stopping \cup Interrupted \subseteq live /\ live \subseteq Sessions
    BY <1>3 DEF FlowTypeOK, Interrupted
  <2>3. stopping' \subseteq live' /\ marked' \cup late' \subseteq Sessions
    BY <1>3, <1>6, <2>1, <2>2 DEF FlowTypeOK, RecorderMoves
  <2>4. pid_file' \in 0 .. NumSessions /\ trace_dat' \in 0 .. NumSessions
    BY <1>2, <1>3, <1>6 DEF FlowTypeOK, RecorderMoves
  <2> QED
    BY <2>1, <2>3, <2>4
<1>7. ModuleMoves
  <2>1. CASE ShellInsmod
    BY <2>1 DEF ShellInsmod, ModuleMoves
  <2>2. CASE ShellRmTraceDat \/ ShellWritable \/ ShellReset \/ ShellRecord \/ ShellPid \/ ShellKill \/ ShellRmPid
    <3>1. UNCHANGED moduleVars
      BY <2>2 DEF ShellRmTraceDat, ShellWritable, ShellReset, ShellRecord, ShellPid, ShellKill, ShellRmPid
    <3> QED
      BY <3>1 DEF ModuleMoves
  <2>3. CASE ShellReload
    <3>1. CASE Insmod
      BY <3>1 DEF ModuleMoves
    <3>2. CASE Rmmod /\ Trouble
      BY <3>2 DEF ModuleMoves
    <3>3. CASE Refused
      BY <3>3 DEF ModuleMoves
    <3> QED
      BY <2>3, <3>1, <3>2, <3>3 DEF ShellReload
  <2>4. CASE ShellEnable
    <3>1. CASE writable
      <4>1. enabled' = TRUE /\ Runs!RequestMeasure /\ UNCHANGED <<loaded, writable, trouble>>
        BY <2>4, <3>1 DEF ShellEnable
      <4>2. enabled' \in BOOLEAN
        BY <4>1
      <4> QED
        BY <4>1, <4>2 DEF ModuleMoves
    <3>2. CASE ~writable
      BY <2>4, <3>2 DEF ShellEnable, ModuleMoves
    <3> QED
      BY <3>1, <3>2
  <2>5. CASE ShellDisable \/ ShellStopThread
    <3>1. enabled' \in BOOLEAN
      BY <1>3, <2>5 DEF ShellDisable, ShellStopThread, FlowTypeOK
    <3>2. Runs!RequestCease /\ UNCHANGED <<loaded, writable, trouble>>
      BY <2>5 DEF ShellDisable, ShellStopThread
    <3> QED
      BY <3>1, <3>2 DEF ModuleMoves
  <2>6. CASE ShellRmmod
    <3>1. CASE Rmmod /\ UNCHANGED trouble
      BY <3>1 DEF ModuleMoves
    <3>2. CASE Refused
      BY <3>2 DEF ModuleMoves
    <3> QED
      BY <2>6, <3>1, <3>2 DEF ShellRmmod
  <2> QED
    BY <2>1, <2>2, <2>3, <2>4, <2>5, <2>6 DEF ShellStep
<1>8. RecorderMoves
  <2>1. CASE ShellInsmod \/ ShellWritable \/ ShellReload \/ ShellReset \/ ShellEnable \/ ShellDisable \/ ShellStopThread
    <3>1. UNCHANGED recordVars
      BY <2>1 DEF ShellInsmod, ShellWritable, ShellReload, ShellReset, ShellEnable, ShellDisable, ShellStopThread
    <3> QED
      BY <3>1 DEF RecorderMoves, recordVars
  <2>2. CASE ShellRmTraceDat \/ ShellRecord \/ ShellPid
    BY <2>2 DEF ShellRmTraceDat, ShellRecord, ShellPid, RecorderMoves
  <2>3. CASE ShellKill \/ ShellRmPid
    BY <2>3 DEF ShellKill, ShellRmPid, RecorderMoves
  <2>4. CASE ShellRmmod
    BY <2>4 DEF ShellRmmod, RecorderMoves
  <2> QED
    BY <2>1, <2>2, <2>3, <2>4 DEF ShellStep
<1>9. session' \in 0 .. NumSessions
  BY <1>1, <1>2
<1> QED
  BY <1>1, <1>4, <1>5, <1>6, <1>7, <1>8, <1>9 DEF FlowTypeOK

\* The commands of the host have tests and cores.
LEMMA HeadTyped ==
    ASSUME NEW ops, Sends(ops), Orderly(todo)
    PROVE  /\ shell = <<>> /\ todo # <<>> /\ Head(todo).op \in ops /\ todo' = Tail(todo)
           /\ Head(todo).op \in ShellOps \cup {"pull"} => Head(todo).test \in Sessions
           /\ Head(todo).op \in FreqOps => Head(todo).core \in Cores
<1>1. Head(todo) \in Call
  BY OrderlyTail DEF Sends
<1> QED
  BY <1>1 DEF Sends, Call, ShellOps, FreqOps

LEMMA TypesStep ==
    ASSUME Types, ShellInv', LimitsInv, LimitsInv', [Next]_vars
    PROVE  Types'
<1>1. Sessions = 1 .. NumSessions /\ NumSessions \in Nat
  BY WorkflowAssumption DEF Sessions
<1>2. Orderly(todo)
  BY DEF LimitsInv
<1>3. /\ \A i \in DOMAIN todo' : todo'[i].op \in FreqOps \cup ShellOps \cup {"target", "pull"}
      /\ {scaling_min', scaling_max', target'.low, target'.high} \subseteq Freqs
  <2>1. todo' \in Seq(Call)
    BY DEF LimitsInv, Orderly
  <2>2. \A i \in DOMAIN todo' : todo'[i] \in Call
    BY <2>1
  <2> QED
    BY <2>2 DEF Call, LimitsInv
\* What is left to show, for the device and for the host.
<1>4. ASSUME FlowTypeOK', shell' # <<>> => session' \in Sessions,
             online' \subseteq Cores, results' \in [Sessions -> 0 .. NumSessions], missed' \subseteq Cores,
             unset' \cup unfinished' \subseteq Sessions,
             budget' \in [limits : Nat, commands : Nat, deaths : Nat]
      PROVE  Types'
  BY <1>3, <1>4 DEF Types, TypeOK, FreqTypeOK
<1>5. /\ FlowTypeOK /\ (shell # <<>> => session \in Sessions)
      /\ online \subseteq Cores /\ results \in [Sessions -> 0 .. NumSessions] /\ missed \subseteq Cores
      /\ unset \cup unfinished \subseteq Sessions
      /\ budget \in [limits : Nat, commands : Nat, deaths : Nat]
  BY DEF Types, TypeOK, FreqTypeOK
<1>6. ASSUME NEW kind \in {"limits", "commands", "deaths"}, Spend(kind)
      PROVE  budget' \in [limits : Nat, commands : Nat, deaths : Nat]
  BY <1>5, <1>6 DEF Spend
<1>7. ASSUME UNCHANGED flowVars
      PROVE  FlowTypeOK' /\ (shell' # <<>> => session' \in Sessions)
  BY <1>5, <1>7 DEF flowVars, moduleVars, recordVars, FlowTypeOK, Runs!TypeOK
<1>8. CASE NewTarget
  BY <1>4, <1>5, <1>7, <1>8 DEF NewTarget, freqVars
<1>9. CASE SendFreq
  <2>1. Head(todo).core \in Cores
    BY <1>2, <1>9, HeadTyped DEF SendFreq
  <2>2. /\ online' \subseteq Cores /\ missed' \subseteq Cores
        /\ UNCHANGED <<flowVars, results, unset, unfinished, budget>>
    BY <1>5, <1>9, <2>1 DEF SendFreq, WriteMax, WriteMin, WriteOnline
  <2> QED
    BY <1>4, <1>5, <1>7, <2>2
<1>10. CASE SendShell
  <2>1. Sends(ShellOps)
    BY <1>10 DEF SendShell
  <2>2. Head(todo).test \in Sessions
    BY <1>2, <2>1, HeadTyped
  <2>3. session' \in Sessions /\ shell' \in Seq(Steps)
    BY <1>10, <2>2 DEF SendShell, ShellInv
  <2>4. UNCHANGED <<moduleVars, recordVars, freqVars, results, missed, unset, unfinished, budget>>
    BY <1>10 DEF SendShell, Command
  <2>5. session' \in 0 .. NumSessions
    BY <1>1, <2>3
  <2>6. FlowTypeOK'
    BY <1>5, <2>3, <2>4, <2>5 DEF moduleVars, recordVars, FlowTypeOK, Runs!TypeOK
  <2> QED
    BY <1>4, <1>5, <2>3, <2>4, <2>6 DEF freqVars
<1>11. CASE Pull
  <2>1. results' \in [Sessions -> 0 .. NumSessions]
    <3>1. trace_dat \in 0 .. NumSessions /\ 0 \in 0 .. NumSessions
      BY <1>1, <1>5 DEF FlowTypeOK
    <3> QED
      BY <1>5, <1>11, <3>1 DEF Pull
  <2> QED
    BY <1>4, <1>5, <1>7, <1>11, <2>1 DEF Pull, freqVars
<1>12. CASE LoseFreq
  <2>1. Sends(FreqOps) /\ Spend("limits")
    BY <1>12 DEF LoseFreq
  <2>2. Head(todo).core \in Cores
    BY <1>2, <2>1, HeadTyped
  <2> QED
    BY <1>4, <1>5, <1>6, <1>7, <1>12, <2>1, <2>2 DEF LoseFreq, freqVars
<1>13. CASE LoseCommand
  <2>1. Sends(ShellOps \cup {"pull"}) /\ Spend("commands")
    BY <1>13 DEF LoseCommand
  <2>2. Head(todo).test \in Sessions
    BY <1>2, <2>1, HeadTyped
  <2>3. unset' \cup unfinished' \subseteq Sessions
    BY <1>5, <1>13, <2>2 DEF LoseCommand
  <2> QED
    BY <1>4, <1>5, <1>6, <1>7, <1>13, <2>1, <2>3 DEF LoseCommand, freqVars
<1>14. CASE CutOff
  <2>1. Spend("commands") /\ session \in Sessions
    BY <1>5, <1>14 DEF CutOff
  <2>2. unset' \cup unfinished' \subseteq Sessions
    BY <1>5, <1>14, <2>1 DEF CutOff
  <2>3. FlowTypeOK' /\ shell' = <<>>
    BY <1>5, <1>14 DEF CutOff, moduleVars, recordVars, FlowTypeOK, Runs!TypeOK
  <2> QED
    BY <1>4, <1>5, <1>6, <1>14, <2>1, <2>2, <2>3 DEF CutOff, freqVars
<1>15. CASE Death
  <2>1. Spend("deaths") /\ RecorderDies
    BY <1>15 DEF Death
  <2>2. FlowTypeOK' /\ UNCHANGED <<shell, session>>
    BY <1>5, <2>1 DEF RecorderDies, moduleVars, FlowTypeOK, Runs!TypeOK
  <2> QED
    BY <1>4, <1>5, <1>6, <1>15, <2>1, <2>2 DEF Death, freqVars
<1>16. CASE Device
  <2>1. FlowTypeOK' /\ (shell' # <<>> => session' \in Sessions)
    <3>1. CASE ShellStep
      BY <1>5, <3>1, ShellTypes
    <3>2. CASE ThreadStep
      <4>1. Runs!TypeOK'
        BY <1>5, <3>2 DEF ThreadStep, FlowTypeOK, Runs!StartMarker, Runs!Iteration, Runs!EndMarker, Runs!TypeOK
      <4>2. marked' \subseteq Sessions
        BY <1>5, <3>2 DEF ThreadStep, FlowTypeOK
      <4> QED
        BY <1>5, <3>2, <4>1, <4>2 DEF ThreadStep, FlowTypeOK
    <3>3. CASE RecorderWrites
      <4>1. trace_dat' \in 0 .. NumSessions
        BY <1>1, <1>5, <3>3 DEF RecorderWrites, FlowTypeOK
      <4> QED
        BY <1>5, <3>3, <4>1 DEF RecorderWrites, moduleVars, FlowTypeOK, Runs!TypeOK
    <3> QED
      BY <1>16, <3>1, <3>2, <3>3 DEF Device
  <2> QED
    BY <1>4, <1>5, <1>16, <2>1 DEF Device, freqVars, hostVars
<1>17. CASE UNCHANGED vars
  BY <1>4, <1>5, <1>7, <1>17 DEF vars, freqVars, hostVars
<1> QED
  BY <1>8, <1>9, <1>10, <1>11, <1>12, <1>13, <1>14, <1>15, <1>16, <1>17 DEF Next, Host

\* The variables keep their types, for any number of sessions, cores and
\* frequencies.
THEOREM PowerTypeCorrect == Spec => []TypeOK
<1> DEFINE Inv == ShellInv /\ LimitsInv /\ Types
<1>1. Init => Inv
  BY InitShell, LimitsInit, TypesInit
<1>2. Inv /\ [Next]_vars => Inv'
  BY ShellAlways, LimitsStep, TypesStep
<1>3. Inv => TypeOK
  BY DEF Types
<1> QED
  BY <1>1, <1>2, <1>3, PTL DEF Spec

\* The next command of the host goes on with session x.
Ahead(q, x) == q # <<>> /\ Head(q).op \in {"start", "stop", "finish"} /\ Head(q).test = x

\* When the module is there.  A recorder is known by its file only between a
\* setup that ended and the removal of the module.
Loading ==
    /\ writable => loaded
    /\ SetupLeft(shell) = 6 => ~loaded
    /\ SetupLeft(shell) \in 1 .. 3 => loaded /\ writable
    /\ pid_file # 0 => loaded /\ writable
    /\ FinishLeft(shell) \in 1 .. 2 => pid_file = 0

\* A recorder that is interrupted, or known by its file, belongs to the session
\* under way, whose finish is running or still to come, or to one whose finish
\* did not see its end.
Recording ==
    /\ \A r \in stopping : r \in late \cup unfinished \/ (r = session /\ FinishLeft(shell) >= 1)
    /\ pid_file # 0 =>
           \/ pid_file \in late \cup unfinished
           \/ pid_file = session /\ (FinishLeft(shell) >= 3 \/ Ahead(todo, session))

\* The commands of a session come after its setup.
UnderWay ==
    /\ SetupLeft(shell) # 0 => Ahead(todo, session)
    /\ todo # <<>> /\ Head(todo).op \in Later =>
           session = Head(todo).test \/ Head(todo).test \in unset

\* The recording on the device is of this session, or excused.
Recorded ==
    \/ SetupLeft(shell) >= 5
    \/ session \in unset
    \/ trace_dat \in {0, session} \cup late \cup unfinished

FreshInv == Shape(shell) /\ Loading /\ Recording /\ UnderWay /\ Recorded /\ ResultFresh

LEMMA FreshInit == Init => FreshInv
<1> SUFFICES ASSUME Init
             PROVE  FreshInv
  OBVIOUS
<1>1. /\ shell = <<>> /\ session = 0 /\ ~writable /\ pid_file = 0 /\ stopping = {} /\ trace_dat = 0
      /\ results = [x \in Sessions |-> 0] /\ scaling_min \in Freqs
  BY DEF Init, FlowInit
<1>2. Shape(shell)
  BY <1>1 DEF Shape
<1>3. SetupLeft(shell) = 0 /\ FinishLeft(shell) = 0
  BY <1>1, <1>2, Shapes
<1>4. PICK day \in Days : todo = Script(day)
  BY DEF Init
<1>5. Head(todo).op \notin Later
  BY <1>1, <1>4, ScriptOrderly DEF Later
<1>6. ResultFresh
  BY <1>1 DEF ResultFresh
<1> QED
  BY <1>1, <1>2, <1>3, <1>5, <1>6 DEF FreshInv, Loading, Recording, UnderWay, Recorded

\* The steps of a command.
LEMMA FreshShell ==
    ASSUME FreshInv, Types, ShellStep, UNCHANGED hostVars
    PROVE  FreshInv'
<1> DEFINE n == SetupLeft(shell)
           m == FinishLeft(shell)
           n2 == SetupLeft(shell')
           m2 == FinishLeft(shell')
<1>1. n \in 0 .. 6 /\ m \in 0 .. 5 /\ Shape(shell)
  BY Shapes DEF FreshInv
<1>2. UNCHANGED <<todo, results, unset, unfinished>>
  BY DEF hostVars
\* Only these matter, and the commands that are still to come do not change.
<1>3. ASSUME Shape(shell'), session' = session, late \subseteq late', Loading', Recording',
             n2 # 0 => n # 0,
             n2 >= 5 \/ trace_dat' = 0 \/ (trace_dat' = trace_dat /\ n < 5)
      PROVE  FreshInv'
  <2>1. UnderWay'
    BY <1>2, <1>3 DEF FreshInv, UnderWay
  <2>2. Recorded'
    <3>1. CASE n2 >= 5
      BY <3>1 DEF Recorded
    <3>2. CASE trace_dat' = 0
      BY <3>2 DEF Recorded
    <3>3. CASE trace_dat' = trace_dat /\ n < 5
      <4>1. session \in unset \/ trace_dat \in {0, session} \cup late \cup unfinished
        BY <1>1, <3>3 DEF FreshInv, Recorded
      <4> HIDE DEF n, n2
      <4> QED
        BY <1>2, <1>3, <3>3, <4>1 DEF Recorded
    <3> QED
      BY <1>3, <3>1, <3>2, <3>3
  <2>3. ResultFresh'
    BY <1>2, <1>3 DEF FreshInv, ResultFresh
  <2> QED
    BY <1>3, <2>1, <2>2, <2>3 DEF FreshInv
<1>4. ASSUME NEW name, Step(name)
      PROVE  /\ Shape(shell') /\ session' = session
             /\ n2 = IF n = 0 THEN 0 ELSE n - 1
             /\ m2 = IF m = 0 THEN 0 ELSE m - 1
             /\ n2 # 0 => n # 0
             /\ name = "insmod" => n = 6 /\ m = 0
             /\ name = "rm_trace_dat" => n = 5 /\ m = 0
             /\ name = "until_writable" => n = 4 /\ m = 0
             /\ name = "reset" => (n = 3 /\ m = 0) \/ (n = 0 /\ m = 2)
             /\ name = "record" => n = 2 /\ m = 0
             /\ name = "pid" => n = 1 /\ m = 0
             /\ name = "enable" => n = 0 /\ m = 0
             /\ name = "disable" => n = 0 /\ m \in {0, 5}
             /\ name = "kill" => n = 0 /\ m = 4
             /\ name = "rm_pid" => n = 0 /\ m = 3
             /\ name = "rmmod" => n = 0 /\ m = 1
  BY <1>1, <1>4, StepTaken
<1>5. Loading /\ Recording /\ UnderWay
  BY DEF FreshInv
<1> HIDE DEF n, m, n2, m2
\* A step that leaves the module there, and the recorders and their files.
<1>6. ASSUME NEW name, Step(name), UNCHANGED <<loaded, writable, stopping, pid_file, late>>,
             m \in {0, 2, 5}, n = 4 => loaded /\ writable
      PROVE  Loading' /\ Recording'
  <2>1. (n2 # 0 => n2 = n - 1) /\ n2 # 6 /\ ((m2 = 0 /\ m = 0) \/ (m2 = 1 /\ m = 2) \/ (m2 = 4 /\ m = 5))
    BY <1>1, <1>4, <1>6
  <2>2. Loading'
    BY <1>1, <1>5, <1>6, <2>1 DEF Loading, n, m, n2, m2
  <2>3. Recording'
    BY <1>1, <1>2, <1>4, <1>5, <1>6, <2>1 DEF Recording, n, m, n2, m2
  <2> QED
    BY <2>2, <2>3
<1>7. CASE ShellInsmod
  <2>1. Step("insmod") /\ UNCHANGED recordVars /\ (Insmod \/ Refused)
    BY <1>7 DEF ShellInsmod
  <2>2. n = 6 /\ m = 0 /\ n2 = 5 /\ m2 = 0
    BY <1>4, <2>1
  <2>3. ~loaded /\ pid_file = 0
    BY <1>5, <2>2 DEF Loading, n
  <2>4. writable' => loaded'
    <3>1. CASE Insmod
      BY <3>1 DEF Insmod
    <3>2. CASE Refused
      <4>1. UNCHANGED <<writable, loaded>>
        BY <3>2 DEF Refused
      <4> QED
        BY <1>5, <4>1 DEF Loading
    <3> QED
      BY <2>1, <3>1, <3>2
  <2>5. Loading' /\ Recording'
    BY <1>2, <1>4, <1>5, <2>1, <2>2, <2>3, <2>4 DEF Loading, Recording, recordVars, n, m, n2, m2
  <2> QED
    BY <1>3, <1>4, <2>1, <2>2, <2>5 DEF recordVars
<1>8. CASE ShellRmTraceDat
  <2>1. /\ Step("rm_trace_dat") /\ trace_dat' = 0
        /\ UNCHANGED <<loaded, writable, stopping, pid_file, late>>
    BY <1>8 DEF ShellRmTraceDat, moduleVars
  <2>2. n = 5 /\ m = 0
    BY <1>4, <2>1
  <2>3. Loading' /\ Recording'
    BY <1>6, <2>1, <2>2
  <2> QED
    BY <1>3, <1>4, <2>1, <2>3
<1>9. CASE ShellWritable
  <2>1. /\ Step("until_writable") /\ writable
        /\ UNCHANGED <<loaded, writable, stopping, pid_file, late, trace_dat>>
    BY <1>9 DEF ShellWritable, moduleVars, recordVars
  <2>2. n = 4 /\ m = 0 /\ loaded
    BY <1>4, <1>5, <2>1 DEF Loading
  <2>3. Loading' /\ Recording'
    BY <1>6, <2>1, <2>2
  <2> QED
    BY <1>3, <1>4, <2>1, <2>2, <2>3
<1>10. CASE ShellReload
  <2>1. /\ shell # <<>> /\ Head(shell) = "until_writable" /\ ~writable
        /\ UNCHANGED <<recordVars, session>>
        /\ (Insmod /\ shell' = shell) \/ (Rmmod /\ shell' = <<>>) \/ (Refused /\ shell' = <<>>)
    BY <1>10 DEF ShellReload
  <2>2. n = 4 /\ m = 0
    <3> DEFINE p == Tail(shell)
    <3>1. /\ n # 0 => Head(shell) = SetupAll[7 - n]
          /\ m # 0 => Head(shell) = FinishAll[6 - m]
          /\ n = 0 /\ m = 0 => Head(shell) \in {"enable", "disable"}
          /\ n = 0 \/ m = 0
      BY <1>1, <2>1, ShapeTail, Shapes DEF n, m
    <3>2. \A i \in 1 .. 5 : FinishAll[i] # "until_writable"
      BY DEF FinishAll
    <3>3. \A i \in 1 .. 6 : SetupAll[i] = "until_writable" => i = 3
      BY DEF SetupAll
    <3>4. m = 0
      <4> SUFFICES ASSUME m # 0
                   PROVE  FALSE
        OBVIOUS
      <4>1. 6 - m \in 1 .. 5
        BY <1>1
      <4> QED
        BY <2>1, <3>1, <3>2, <4>1
    <3>5. n # 0 /\ 7 - n \in 1 .. 6
      BY <1>1, <2>1, <3>1, <3>4
    <3>6. 7 - n = 3
      BY <2>1, <3>1, <3>3, <3>5
    <3> QED
      BY <1>1, <3>4, <3>6
  <2>3. pid_file = 0
    BY <1>5, <2>1 DEF Loading
  <2>4. CASE Insmod /\ shell' = shell
    <3>1. loaded' /\ n2 = n /\ m2 = m /\ Shape(shell')
      BY <1>1, <2>4 DEF Insmod, n, m, n2, m2
    <3>2. Loading' /\ Recording'
      BY <1>2, <1>5, <2>1, <2>2, <2>3, <3>1 DEF Loading, Recording, recordVars, n, m, n2, m2
    <3> QED
      BY <1>3, <2>1, <2>2, <3>1, <3>2 DEF recordVars
  <2>5. CASE (Rmmod \/ Refused) /\ shell' = <<>>
    <3>1. Shape(shell')
      BY <2>5 DEF Shape
    <3>2. n2 = 0 /\ m2 = 0 /\ ~writable'
      BY <2>1, <2>5, <3>1, Shapes DEF Rmmod, Refused, n2, m2
    <3>3. Loading' /\ Recording'
      BY <1>2, <1>5, <2>1, <2>2, <2>3, <3>2 DEF Loading, Recording, recordVars, n, m, n2, m2
    <3> QED
      BY <1>3, <2>1, <2>2, <3>1, <3>2, <3>3 DEF recordVars
  <2> QED
    BY <2>1, <2>4, <2>5
<1>11. CASE ShellReset
  <2>1. Step("reset") /\ UNCHANGED <<loaded, writable, stopping, pid_file, late, trace_dat>>
    BY <1>11 DEF ShellReset, moduleVars, recordVars
  <2>2. (n = 3 /\ m = 0) \/ (n = 0 /\ m = 2)
    BY <1>4, <2>1
  <2>3. Loading' /\ Recording'
    BY <1>6, <2>1, <2>2
  <2> QED
    BY <1>3, <1>4, <2>1, <2>2, <2>3
<1>12. CASE ShellRecord
  <2>1. Step("record") /\ UNCHANGED <<loaded, writable, stopping, pid_file, late, trace_dat>>
    BY <1>12 DEF ShellRecord, moduleVars
  <2>2. n = 2 /\ m = 0
    BY <1>4, <2>1
  <2>3. Loading' /\ Recording'
    BY <1>6, <2>1, <2>2
  <2> QED
    BY <1>3, <1>4, <2>1, <2>2, <2>3
<1>13. CASE ShellPid
  <2>1. /\ Step("pid") /\ pid_file' = session
        /\ UNCHANGED <<loaded, writable, stopping, late, trace_dat>>
    BY <1>13 DEF ShellPid, moduleVars
  <2>2. n = 1 /\ m = 0 /\ n2 = 0 /\ m2 = 0
    BY <1>4, <2>1
  <2>3. loaded /\ writable /\ Ahead(todo, session)
    BY <1>5, <2>2 DEF Loading, UnderWay, n
  <2>4. Loading' /\ Recording'
    BY <1>2, <1>4, <1>5, <2>1, <2>2, <2>3 DEF Loading, Recording, n, m, n2, m2
  <2> QED
    BY <1>3, <1>4, <2>1, <2>2, <2>4
<1>14. CASE ShellEnable
  <2>1. Step("enable") /\ UNCHANGED <<loaded, writable, stopping, pid_file, late, trace_dat>>
    BY <1>14 DEF ShellEnable, moduleVars, recordVars
  <2>2. n = 0 /\ m = 0
    BY <1>4, <2>1
  <2>3. Loading' /\ Recording'
    BY <1>6, <2>1, <2>2
  <2> QED
    BY <1>3, <1>4, <2>1, <2>2, <2>3
<1>15. CASE ShellDisable
  <2>1. Step("disable") /\ UNCHANGED <<loaded, writable, stopping, pid_file, late, trace_dat>>
    BY <1>15 DEF ShellDisable, recordVars
  <2>2. n = 0 /\ (m = 0 \/ m = 5)
    BY <1>4, <2>1
  <2>3. Loading' /\ Recording'
    BY <1>6, <2>1, <2>2
  <2> QED
    BY <1>3, <1>4, <2>1, <2>2, <2>3
<1>16. CASE ShellKill
  <2>1. /\ Step("kill") /\ stopping' = stopping \cup Interrupted
        /\ UNCHANGED <<loaded, writable, pid_file, late, trace_dat>>
    BY <1>16 DEF ShellKill, moduleVars
  <2>2. n = 0 /\ m = 4 /\ n2 = 0 /\ m2 = 3
    BY <1>4, <2>1
  <2>3. \A r \in Interrupted : r = pid_file
    BY DEF Interrupted
  <2>4. Interrupted # {} => pid_file # 0
    BY DEF Interrupted, Types, TypeOK, FlowTypeOK, Sessions
  <2>5. Loading'
    BY <1>5, <2>1, <2>2 DEF Loading, n, m, n2, m2
  <2>6. Recording'
    <3>1. \A r \in stopping : r \in late \cup unfinished \/ r = session
      BY <1>5 DEF Recording
    <3>2. \/ pid_file = 0
          \/ pid_file \in late \cup unfinished
          \/ pid_file = session
      BY <1>5 DEF Recording
    <3>3. \A r \in stopping' : r \in late \cup unfinished \/ r = session
      BY <2>1, <2>3, <2>4, <3>1, <3>2
    <3>4. session' = session /\ FinishLeft(shell') = 3
      BY <1>4, <2>1, <2>2 DEF m2
    <3> QED
      BY <1>2, <2>1, <3>2, <3>3, <3>4 DEF Recording
  <2> QED
    BY <1>3, <1>4, <2>1, <2>2, <2>5, <2>6
<1>17. CASE ShellRmPid
  <2>1. /\ Step("rm_pid") /\ pid_file' = 0
        /\ UNCHANGED <<loaded, writable, stopping, late, trace_dat>>
    BY <1>17 DEF ShellRmPid, moduleVars
  <2>2. n = 0 /\ m = 3 /\ n2 = 0 /\ m2 = 2
    BY <1>4, <2>1
  <2>3. Loading' /\ Recording'
    BY <1>2, <1>4, <1>5, <2>1, <2>2 DEF Loading, Recording, n, m, n2, m2
  <2> QED
    BY <1>3, <1>4, <2>1, <2>2, <2>3
<1>18. CASE ShellStopThread
  <2>1. UNCHANGED <<loaded, writable, stopping, pid_file, late, trace_dat, shell, session>>
    BY <1>18 DEF ShellStopThread, recordVars
  <2>2. Shape(shell') /\ n2 = n /\ m2 = m /\ n < 5
    <3>1. Head(shell) = "rmmod" /\ shell # <<>>
      BY <1>18 DEF ShellStopThread
    <3>2. n # 0 => Head(shell) = SetupAll[7 - n]
      BY <1>1, <3>1, ShapeTail DEF n
    <3>3. \A i \in 1 .. 6 : SetupAll[i] # "rmmod"
      BY DEF SetupAll
    <3>4. n # 0 => 7 - n \in 1 .. 6
      BY <1>1
    <3>5. n = 0
      BY <3>1, <3>2, <3>3, <3>4
    <3> QED
      BY <1>1, <2>1, <3>5 DEF n, m, n2, m2
  <2>3. Loading' /\ Recording'
    BY <1>2, <1>5, <2>1, <2>2 DEF Loading, Recording, n, m, n2, m2
  <2> QED
    BY <1>3, <2>1, <2>2, <2>3
<1>19. CASE ShellRmmod
  <2>1. /\ Step("rmmod") /\ late' = late \cup stopping
        /\ UNCHANGED <<stopping, pid_file, trace_dat>>
        /\ Rmmod \/ Refused
    BY <1>19 DEF ShellRmmod
  <2>2. n = 0 /\ m = 1 /\ n2 = 0 /\ m2 = 0
    BY <1>4, <2>1
  <2>3. pid_file = 0
    BY <1>5, <2>2 DEF Loading, m
  <2>4. writable' => loaded'
    <3>1. CASE Rmmod
      BY <3>1 DEF Rmmod
    <3>2. CASE Refused
      <4>1. UNCHANGED <<writable, loaded>>
        BY <3>2 DEF Refused
      <4> QED
        BY <1>5, <4>1 DEF Loading
    <3> QED
      BY <2>1, <3>1, <3>2
  <2>5. Loading' /\ Recording'
    BY <1>2, <1>4, <1>5, <2>1, <2>2, <2>3, <2>4 DEF Loading, Recording, n, m, n2, m2
  <2> QED
    BY <1>3, <1>4, <2>1, <2>2, <2>5
<1> QED
  BY <1>7, <1>8, <1>9, <1>10, <1>11, <1>12, <1>13, <1>14, <1>15, <1>16, <1>17, <1>18, <1>19
     DEF ShellStep

\* A command begins: how many steps it has.
LEMMA Beginnings ==
    ASSUME ShellInv
    PROVE  /\ Shape(SetupSteps) /\ FinishLeft(SetupSteps) = 0
           /\ SetupLeft(SetupSteps) = IF loaded THEN 5 ELSE 6
           /\ \A q \in {StartSteps, StopSteps} : Shape(q) /\ SetupLeft(q) = 0 /\ FinishLeft(q) = 0
           /\ Shape(FinishSteps) /\ SetupLeft(FinishSteps) = 0
           /\ loaded => FinishLeft(FinishSteps) >= 4
           /\ ~loaded => FinishLeft(FinishSteps) = 0
<1>1. /\ SetupSteps \in Seq(Steps) /\ FinishSteps \in Seq(Steps)
      /\ StartSteps \in Seq(Steps) /\ StopSteps \in Seq(Steps)
  BY CommandsReady DEF ReadySteps
<1>2. /\ SetupAll[1] = "insmod" /\ SetupAll[2] = "rm_trace_dat" /\ SetupAll[3] = "until_writable"
      /\ SetupAll[4] = "reset" /\ SetupAll[5] = "record" /\ SetupAll[6] = "pid" /\ Len(SetupAll) = 6
      /\ FinishAll[1] = "disable" /\ FinishAll[2] = "kill" /\ FinishAll[3] = "rm_pid"
      /\ FinishAll[4] = "reset" /\ FinishAll[5] = "rmmod" /\ Len(FinishAll) = 5
  BY DEF SetupAll, FinishAll
<1>3. /\ \A i \in 1 .. 3 : i = 1 \/ i = 2 \/ i = 3
      /\ \A i \in 1 .. 4 : i = 1 \/ i = 2 \/ i = 3 \/ i = 4
      /\ \A i \in 1 .. 5 : i = 1 \/ i = 2 \/ i = 3 \/ i = 4 \/ i = 5
      /\ \A i \in 1 .. 6 : i = 1 \/ i = 2 \/ i = 3 \/ i = 4 \/ i = 5 \/ i = 6
  OBVIOUS
<1>4. ASSUME NEW q \in Seq(Steps), RestOf(q, SetupAll)
      PROVE  Shape(q) /\ SetupLeft(q) = Len(q) /\ FinishLeft(q) = 0
  <2>1. Shape(q) /\ SetupLeft(q) = Len(q) /\ Len(q) # 0
    BY <1>4 DEF Shape, SetupLeft, RestOf
  <2> QED
    BY <2>1, Shapes
<1>5. ASSUME NEW q \in Seq(Steps), RestOf(q, FinishAll)
      PROVE  Shape(q) /\ FinishLeft(q) = Len(q) /\ SetupLeft(q) = 0
  <2>1. Shape(q) /\ FinishLeft(q) = Len(q) /\ Len(q) # 0
    BY <1>5 DEF Shape, FinishLeft, RestOf
  <2> QED
    BY <2>1, Shapes
<1>6. ASSUME NEW q \in {<<>>, <<"enable">>, <<"disable">>}
      PROVE  Shape(q) /\ SetupLeft(q) = 0 /\ FinishLeft(q) = 0
  <2>1. q \in Seq(Steps)
    <3>1. "enable" \in Steps /\ "disable" \in Steps
      BY DEF Steps
    <3>2. \A name \in Steps : <<name>> \in Seq(Steps)
      OBVIOUS
    <3>3. <<>> \in Seq(Steps)
      OBVIOUS
    <3> QED
      BY <3>1, <3>2, <3>3
  <2>2. Shape(q)
    BY <2>1 DEF Shape
  <2>3. \A i \in 1 .. Len(q) : q[i] \notin {"pid", "rmmod"}
    OBVIOUS
  <2>4. ToSet(q) = {q[i] : i \in 1 .. Len(q)}
    BY <2>1 DEF ToSet
  <2> QED
    BY <2>2, <2>3, <2>4, Shapes
<1>7. /\ Shape(SetupSteps) /\ FinishLeft(SetupSteps) = 0
      /\ SetupLeft(SetupSteps) = IF loaded THEN 5 ELSE 6
  <2>1. CASE loaded
    <3> DEFINE q == <<"rm_trace_dat", "until_writable", "reset", "record", "pid">>
    <3>1. SetupSteps = q
      BY <2>1 DEF SetupSteps
    <3>2. /\ Len(q) = 5 /\ q[1] = "rm_trace_dat" /\ q[2] = "until_writable" /\ q[3] = "reset"
          /\ q[4] = "record" /\ q[5] = "pid"
      OBVIOUS
    <3> HIDE DEF q
    <3>3. \A i \in 1 .. 5 : q[i] = SetupAll[(6 - 5) + i]
      BY <1>2, <1>3, <3>2
    <3>4. RestOf(q, SetupAll)
      BY <1>2, <3>2, <3>3 DEF RestOf
    <3> QED
      BY <1>1, <1>4, <2>1, <3>1, <3>2, <3>4
  <2>2. CASE ~loaded
    <3> DEFINE rest == <<"rm_trace_dat", "until_writable", "reset", "record", "pid">>
               q == <<"insmod">> \o rest
    <3>1. SetupSteps = q
      BY <2>2 DEF SetupSteps
    <3>2. /\ Len(q) = 6 /\ q[1] = "insmod" /\ q[2] = "rm_trace_dat" /\ q[3] = "until_writable"
          /\ q[4] = "reset" /\ q[5] = "record" /\ q[6] = "pid"
      OBVIOUS
    <3> HIDE DEF q
    <3>3. \A i \in 1 .. 6 : q[i] = SetupAll[(6 - 6) + i]
      BY <1>2, <1>3, <3>2
    <3>4. RestOf(q, SetupAll)
      BY <1>2, <3>2, <3>3 DEF RestOf
    <3> QED
      BY <1>1, <1>4, <2>2, <3>1, <3>2, <3>4
  <2> QED
    BY <2>1, <2>2
<1>8. \A q \in {StartSteps, StopSteps} : Shape(q) /\ SetupLeft(q) = 0 /\ FinishLeft(q) = 0
  <2>1. StartSteps \in {<<>>, <<"enable">>} /\ StopSteps \in {<<>>, <<"disable">>}
    BY DEF StartSteps, StopSteps
  <2> QED
    BY <1>6, <2>1
<1>9. /\ Shape(FinishSteps) /\ SetupLeft(FinishSteps) = 0
      /\ loaded => FinishLeft(FinishSteps) >= 4
      /\ ~loaded => FinishLeft(FinishSteps) = 0
  <2>1. CASE ~loaded
    <3>1. FinishSteps = <<>>
      BY <2>1 DEF FinishSteps
    <3> QED
      BY <1>6, <2>1, <3>1
  <2>2. CASE loaded /\ enabled
    <3> DEFINE q == <<"disable">> \o <<"kill", "rm_pid", "reset", "rmmod">>
    <3>1. FinishSteps = q
      BY <2>2 DEF FinishSteps, StopSteps
    <3>2. Len(q) = 5 /\ q[1] = "disable" /\ q[2] = "kill" /\ q[3] = "rm_pid" /\ q[4] = "reset" /\ q[5] = "rmmod"
      OBVIOUS
    <3> HIDE DEF q
    <3>3. \A i \in 1 .. 5 : q[i] = FinishAll[(5 - 5) + i]
      BY <1>2, <1>3, <3>2
    <3>4. RestOf(q, FinishAll)
      BY <1>2, <3>2, <3>3 DEF RestOf
    <3>5. Shape(q) /\ FinishLeft(q) = Len(q) /\ SetupLeft(q) = 0
      BY <1>1, <1>5, <3>1, <3>4
    <3>6. 5 >= 4
      OBVIOUS
    <3> QED
      BY <2>2, <3>1, <3>2, <3>5, <3>6
  <2>3. CASE loaded /\ ~enabled
    <3> DEFINE q == <<"kill", "rm_pid", "reset", "rmmod">>
    <3>1. FinishSteps = q
      <4>1. FinishSteps = <<>> \o q
        BY <2>3 DEF FinishSteps, StopSteps
      <4>2. q \in Seq(Steps)
        <5>1. "kill" \in Steps /\ "rm_pid" \in Steps /\ "reset" \in Steps /\ "rmmod" \in Steps
          BY DEF Steps
        <5> QED
          BY <5>1
      <4> HIDE DEF q
      <4> QED
        BY <4>1, <4>2
    <3>2. Len(q) = 4 /\ q[1] = "kill" /\ q[2] = "rm_pid" /\ q[3] = "reset" /\ q[4] = "rmmod"
      OBVIOUS
    <3> HIDE DEF q
    <3>3. \A i \in 1 .. 4 : q[i] = FinishAll[(5 - 4) + i]
      BY <1>2, <1>3, <3>2
    <3>4. RestOf(q, FinishAll)
      BY <1>2, <3>2, <3>3 DEF RestOf
    <3>5. Shape(q) /\ FinishLeft(q) = Len(q) /\ SetupLeft(q) = 0
      BY <1>1, <1>5, <3>1, <3>4
    <3>6. 4 >= 4
      OBVIOUS
    <3> QED
      BY <2>3, <3>1, <3>2, <3>5, <3>6
  <2> QED
    BY <2>1, <2>2, <2>3
<1> QED
  BY <1>7, <1>8, <1>9

LEMMA FreshStep ==
    ASSUME FreshInv, ShellInv, Types, LimitsInv, [Next]_vars
    PROVE  FreshInv'
<1> DEFINE n == SetupLeft(shell)
           m == FinishLeft(shell)
           n2 == SetupLeft(shell')
           m2 == FinishLeft(shell')
           h == Head(todo)
<1>1. Shape(shell) /\ Loading /\ Recording /\ UnderWay /\ Recorded /\ ResultFresh
  BY DEF FreshInv
<1>2. n \in 0 .. 6 /\ m \in 0 .. 5 /\ (shell = <<>> => n = 0 /\ m = 0)
  BY <1>1, Shapes
<1>3. Orderly(todo)
  BY DEF LimitsInv
\* Between two commands: recorders that are interrupted are excused, and so is
\* the one that is known, unless its session goes on.
<1>4. ASSUME NEW ops, Sends(ops)
      PROVE  /\ shell = <<>> /\ n = 0 /\ m = 0 /\ todo # <<>> /\ todo' = Tail(todo) /\ h.op \in ops
             /\ stopping \subseteq late \cup unfinished
             /\ pid_file # 0 => pid_file \in late \cup unfinished
                                \/ (pid_file = session /\ Ahead(todo, session))
             /\ session \in unset \/ trace_dat \in {0, session} \cup late \cup unfinished
             /\ h.op \in ShellOps => /\ todo' # <<>> /\ <<h.op, Head(todo').op>> \in Successions
                                     /\ Head(todo').test = h.test
             /\ h.op \notin ShellOps /\ todo' # <<>> => Head(todo').op \notin Later
  <2>1. shell = <<>> /\ todo # <<>> /\ todo' = Tail(todo) /\ h.op \in ops
    BY <1>4 DEF Sends
  <2>2. n = 0 /\ m = 0
    BY <1>2, <2>1
  <2>3. /\ Tail(todo) # <<>> => MayFollow(h, Head(Tail(todo)))
        /\ h.op \in ShellOps => Tail(todo) # <<>>
    BY <1>3, <2>1, HeadFollowed
  <2>4. /\ stopping \subseteq late \cup unfinished
        /\ pid_file # 0 => pid_file \in late \cup unfinished
                           \/ (pid_file = session /\ Ahead(todo, session))
    BY <1>1, <2>2 DEF Recording
  <2>5. session \in unset \/ trace_dat \in {0, session} \cup late \cup unfinished
    BY <1>1, <2>2 DEF Recorded
  <2> HIDE DEF h
  <2> QED
    BY <2>1, <2>2, <2>3, <2>4, <2>5 DEF MayFollow
\* The module and its recorders stay as they are while no command runs.
<1>5. ASSUME shell = <<>>, UNCHANGED flowVars
      PROVE  Shape(shell') /\ n2 = 0 /\ m2 = 0 /\ Loading' /\ UNCHANGED <<session, stopping, late, pid_file, trace_dat>>
  <2>1. UNCHANGED <<shell, session, loaded, writable, pid_file, stopping, late, trace_dat>>
    BY <1>5 DEF flowVars, moduleVars, recordVars
  <2> QED
    BY <1>1, <1>2, <1>5, <2>1 DEF Loading
<1> HIDE DEF n, m, n2, m2
\* The next command is none of a session, or the last one.
<1>6. ASSUME NEW ops, Sends(ops), ops \cap ShellOps = {}, UNCHANGED <<flowVars, unset, unfinished>>, ResultFresh'
      PROVE  FreshInv'
  <2>1. h.op \notin ShellOps
    BY <1>4, <1>6
  <2>2. UnderWay'
    BY <1>4, <1>5, <1>6, <2>1 DEF UnderWay, n2
  <2>3. ~Ahead(todo, session)
    BY <2>1 DEF Ahead, ShellOps
  <2>4. Recording'
    BY <1>4, <1>5, <1>6, <2>3 DEF Recording, m2
  <2>5. Recorded'
    BY <1>4, <1>5, <1>6 DEF Recorded
  <2> QED
    BY <1>4, <1>5, <1>6, <2>2, <2>4, <2>5 DEF FreshInv
<1>7. CASE NewTarget
  <2>1. Sends({"target"}) /\ UNCHANGED <<flowVars, unset, unfinished, results>>
    BY <1>7 DEF NewTarget
  <2>2. ResultFresh' /\ {"target"} \cap ShellOps = {}
    BY <1>1, <2>1 DEF ResultFresh, ShellOps, flowVars, recordVars
  <2> QED
    BY <1>6, <2>1, <2>2
<1>8. CASE SendFreq \/ LoseFreq
  <2>1. Sends(FreqOps) /\ UNCHANGED <<flowVars, unset, unfinished, results>>
    BY <1>8 DEF SendFreq, LoseFreq
  <2>2. ResultFresh' /\ FreqOps \cap ShellOps = {}
    BY <1>1, <2>1 DEF ResultFresh, FreqOps, ShellOps, flowVars, recordVars
  <2> QED
    BY <1>6, <2>1, <2>2
<1>9. CASE Pull
  <2>1. /\ Sends({"pull"}) /\ UNCHANGED <<flowVars, unset, unfinished>>
        /\ results' = [results EXCEPT ![h.test] = IF trace_dat \in marked THEN trace_dat ELSE 0]
    BY <1>9 DEF Pull
  <2>2. h.op = "pull" /\ todo # <<>>
    BY <1>4, <2>1
  <2>3. session = h.test \/ h.test \in unset
    BY <1>1, <2>2 DEF UnderWay, Later
  <2>4. UNCHANGED late
    BY <2>1 DEF flowVars, recordVars
  <2>5. results \in [Sessions -> 0 .. NumSessions]
    BY DEF Types, TypeOK
  <2>6. \A x \in Sessions : x # h.test => results'[x] = results[x]
    BY <2>1, <2>5
  <2>7. h.test \in Sessions => results'[h.test] \in {0, trace_dat}
    BY <2>1, <2>5
  <2>8. session \in unset \/ trace_dat \in {0, session} \cup late \cup unfinished
    BY <1>4, <2>1
  <2> HIDE DEF h
  <2>9. ASSUME NEW x \in Sessions
        PROVE  results'[x] \in {0, x} \/ x \in unset \/ results'[x] \in late \cup unfinished
    <3>1. CASE x = h.test
      BY <2>3, <2>7, <2>8, <3>1
    <3>2. CASE x # h.test
      BY <1>1, <2>6, <3>2 DEF ResultFresh
    <3> QED
      BY <3>1, <3>2
  <2>10. ResultFresh'
    BY <2>1, <2>4, <2>9 DEF ResultFresh
  <2>11. {"pull"} \cap ShellOps = {}
    BY DEF ShellOps
  <2> QED
    BY <1>6, <2>1, <2>10, <2>11
<1>10. CASE SendShell
  <2>1. /\ Sends(ShellOps) /\ session' = h.test
        /\ UNCHANGED <<moduleVars, recordVars, results, unset, unfinished>>
    BY <1>10 DEF SendShell, Command
  <2>2. /\ h.op = "setup" => shell' = SetupSteps
        /\ h.op = "start" => shell' = StartSteps
        /\ h.op = "stop" => shell' = StopSteps
        /\ h.op = "finish" => shell' = FinishSteps
    BY <1>10 DEF SendShell, Command
  <2>3. h.op \in {"setup", "start", "stop", "finish"}
    BY <1>4, <2>1 DEF ShellOps
  <2>4. /\ UNCHANGED <<loaded, writable, enabled, stopping, pid_file, late, trace_dat>>
        /\ todo' # <<>> /\ <<h.op, Head(todo').op>> \in Successions /\ Head(todo').test = session'
    BY <1>4, <2>1, <2>3 DEF moduleVars, recordVars, ShellOps
  <2>5. /\ Shape(shell')
        /\ h.op = "setup" => n2 = (IF loaded THEN 5 ELSE 6) /\ m2 = 0
        /\ h.op \in {"start", "stop"} => n2 = 0 /\ m2 = 0
        /\ h.op = "finish" => n2 = 0 /\ (loaded => m2 >= 4) /\ (~loaded => m2 = 0)
    BY <2>2, <2>3, Beginnings DEF n2, m2
  <2>6. Loading'
    <3>1. m2 \notin 1 .. 2
      BY <2>3, <2>5
    <3>2. n2 \notin 1 .. 3 /\ (n2 = 6 => ~loaded)
      BY <2>3, <2>5
    <3> QED
      BY <1>1, <2>4, <3>1, <3>2 DEF Loading, n2, m2
  <2>7. UnderWay'
    <3>1. n2 # 0 => h.op = "setup"
      BY <2>3, <2>5
    <3>2. h.op = "setup" => Head(todo').op = "start"
      BY <2>4 DEF Successions
    <3> QED
      BY <2>4, <3>1, <3>2 DEF UnderWay, Ahead, n2
  <2>8. Recorded'
    <3>1. CASE h.op = "setup"
      BY <2>5, <3>1 DEF Recorded, n2
    <3>2. CASE h.op # "setup"
      <4>1. session = h.test \/ h.test \in unset
        BY <1>1, <1>4, <2>1, <2>3, <3>2 DEF UnderWay, Later
      <4> HIDE DEF h
      <4>2. session' \in unset \/ trace_dat \in {0, session'} \cup late \cup unfinished
        BY <1>4, <2>1, <4>1
      <4> QED
        BY <2>1, <2>4, <4>2 DEF Recorded
    <3> QED
      BY <3>1, <3>2
  <2>9. Recording'
    <3>1. stopping' \subseteq late' \cup unfinished'
      BY <1>4, <2>1, <2>4
    <3>2. ASSUME pid_file # 0, pid_file \notin late \cup unfinished
          PROVE  pid_file = session' /\ (m2 >= 3 \/ Ahead(todo', session'))
      <4>1. pid_file = session /\ Ahead(todo, session) /\ loaded
        BY <1>1, <1>4, <2>1, <3>2 DEF Loading
      <4>2. session' = session /\ h.op \in {"start", "stop", "finish"}
        BY <2>1, <4>1 DEF Ahead
      <4>3. CASE h.op = "finish"
        <5>1. m2 >= 4 /\ m2 \in 0 .. 5
          BY <2>5, <4>1, <4>3, Shapes DEF m2
        <5> QED
          BY <4>1, <4>2, <5>1
      <4>4. CASE h.op # "finish"
        <5>1. Head(todo').op \in {"stop", "finish"}
          BY <2>4, <4>2, <4>4 DEF Successions
        <5> QED
          BY <2>4, <4>1, <4>2, <5>1 DEF Ahead
      <4> QED
        BY <4>3, <4>4
    <3> QED
      BY <2>1, <2>4, <3>1, <3>2 DEF Recording, m2
  <2>10. ResultFresh'
    BY <1>1, <2>1, <2>4 DEF ResultFresh
  <2> QED
    BY <2>5, <2>6, <2>7, <2>8, <2>9, <2>10 DEF FreshInv
<1>11. CASE LoseCommand
  <2>1. /\ Sends(ShellOps \cup {"pull"}) /\ UNCHANGED <<flowVars, results>>
        /\ unset' = IF h.op = "setup" THEN unset \cup {h.test} ELSE unset
        /\ unfinished' = IF h.op = "finish" THEN unfinished \cup {h.test} ELSE unfinished
    BY <1>11 DEF LoseCommand
  <2>2. unset \subseteq unset' /\ unfinished \subseteq unfinished' /\ UNCHANGED late
    BY <2>1 DEF flowVars, recordVars
  <2>3. ResultFresh'
    BY <1>1, <2>1, <2>2 DEF ResultFresh
  <2>4. Recorded'
    BY <1>4, <1>5, <2>1, <2>2 DEF Recorded
  <2>5. UnderWay'
    <3>1. CASE h.op \in ShellOps
      <4>1. todo' # <<>> /\ Head(todo').test = h.test /\ session' = session
        BY <1>4, <1>5, <2>1, <3>1
      <4>2. h.op # "setup" => session = h.test \/ h.test \in unset
        BY <1>1, <1>4, <2>1, <3>1 DEF UnderWay, Later, ShellOps
      <4>3. h.test = session \/ h.test \in unset'
        BY <2>1, <2>2, <4>2
      <4> HIDE DEF h
      <4>4. shell = <<>> /\ n2 = 0
        BY <1>4, <1>5, <2>1
      <4> QED
        BY <4>1, <4>3, <4>4 DEF UnderWay, n2
    <3>2. CASE h.op \notin ShellOps
      BY <1>4, <1>5, <2>1, <3>2 DEF UnderWay, n2
    <3> QED
      BY <3>1, <3>2
  <2>6. Recording'
    <3>1. stopping' \subseteq late' \cup unfinished'
      BY <1>4, <1>5, <2>1, <2>2
    <3>2. ASSUME pid_file # 0, pid_file \notin late \cup unfinished'
          PROVE  pid_file = session /\ Ahead(todo', session)
      <4>1. pid_file = session /\ Ahead(todo, session)
        BY <1>4, <2>1, <2>2, <3>2
      <4>2. h.op \in {"start", "stop"} /\ h.test = session
        BY <2>1, <3>2, <4>1 DEF Ahead
      <4>3. /\ todo' # <<>> /\ <<h.op, Head(todo').op>> \in Successions
            /\ Head(todo').test = h.test
        BY <1>4, <2>1, <4>2 DEF ShellOps
      <4>4. Head(todo').op \in {"stop", "finish"}
        BY <4>2, <4>3 DEF Successions
      <4> QED
        BY <4>1, <4>2, <4>3, <4>4 DEF Ahead
    <3>3. UNCHANGED <<pid_file, session, late>>
      BY <1>4, <1>5, <2>1
    <3> QED
      BY <3>1, <3>2, <3>3 DEF Recording
  <2> QED
    BY <1>4, <1>5, <2>1, <2>3, <2>4, <2>5, <2>6 DEF FreshInv
<1>12. CASE CutOff
  <2>1. /\ shell' = <<>>
        /\ unset' = IF "pid" \in ToSet(shell) THEN unset \cup {session} ELSE unset
        /\ unfinished' = IF "rmmod" \in ToSet(shell) THEN unfinished \cup {session} ELSE unfinished
        /\ UNCHANGED <<loaded, writable, pid_file, stopping, trace_dat, late, session, todo, results>>
    BY <1>12 DEF CutOff, moduleVars, recordVars
  <2>2. Shape(shell') /\ n2 = 0 /\ m2 = 0
    <3>1. Shape(shell')
      BY <2>1 DEF Shape
    <3> QED
      BY <2>1, <3>1, Shapes DEF n2, m2
  <2>3. /\ unset \subseteq unset' /\ unfinished \subseteq unfinished'
        /\ n # 0 => session \in unset'
        /\ m # 0 => session \in unfinished'
    BY <1>1, <2>1, Shapes DEF n, m
  <2>4. Loading'
    BY <1>1, <2>1, <2>2 DEF Loading, n2, m2
  <2>5. Recording'
    <3>1. \A r \in stopping : r \in late \cup unfinished'
      BY <1>1, <1>2, <2>3 DEF Recording, m
    <3>2. pid_file # 0 => \/ pid_file \in late \cup unfinished'
                          \/ pid_file = session /\ Ahead(todo, session)
      BY <1>1, <1>2, <2>3 DEF Recording, m
    <3> QED
      BY <2>1, <3>1, <3>2 DEF Recording
  <2>6. UnderWay'
    BY <1>1, <2>1, <2>2, <2>3 DEF UnderWay, n2
  <2>7. Recorded'
    <3>1. session \in unset' \/ trace_dat \in {0, session} \cup late \cup unfinished'
      BY <1>1, <1>2, <2>3 DEF Recorded, n
    <3> QED
      BY <2>1, <3>1 DEF Recorded
  <2>8. ResultFresh'
    BY <1>1, <2>1, <2>3 DEF ResultFresh
  <2> QED
    BY <2>2, <2>4, <2>5, <2>6, <2>7, <2>8 DEF FreshInv
\* Recorders end, or the thread goes on; no command and no file with an id.
<1>13. ASSUME UNCHANGED <<loaded, writable, shell, session, pid_file, late, hostVars>>,
              stopping' \subseteq stopping, trace_dat' = trace_dat \/ trace_dat' \in stopping
       PROVE  FreshInv'
  <2>1. UNCHANGED <<todo, results, unset, unfinished>>
    BY <1>13 DEF hostVars
  <2>2. Shape(shell') /\ Loading' /\ Recording' /\ UnderWay' /\ ResultFresh'
    BY <1>1, <1>13, <2>1 DEF Loading, Recording, UnderWay, ResultFresh
  <2>3. \A r \in stopping : r \in {0, session} \cup late \cup unfinished
    BY <1>1 DEF Recording
  <2>4. Recorded'
    BY <1>1, <1>13, <2>1, <2>3 DEF Recorded
  <2> QED
    BY <2>2, <2>4 DEF FreshInv
<1>14. CASE Death
  <2>1. /\ UNCHANGED <<loaded, writable, shell, session, pid_file, late, trace_dat>>
        /\ UNCHANGED <<todo, results, unset, unfinished>> /\ stopping' \subseteq stopping
    BY <1>14 DEF Death, RecorderDies, moduleVars
  <2>2. Shape(shell') /\ Loading' /\ Recording' /\ UnderWay' /\ ResultFresh' /\ Recorded'
    BY <1>1, <2>1 DEF Loading, Recording, UnderWay, ResultFresh, Recorded
  <2> QED
    BY <2>2 DEF FreshInv
<1>15. CASE Device
  <2>1. CASE ShellStep
    BY <1>15, <2>1, FreshShell DEF Device
  <2>2. CASE ThreadStep
    <3>1. UNCHANGED <<loaded, writable, shell, session, pid_file, late, stopping, trace_dat>>
      BY <2>2 DEF ThreadStep
    <3> QED
      BY <1>13, <1>15, <3>1 DEF Device
  <2>3. CASE RecorderWrites
    <3>1. /\ UNCHANGED <<loaded, writable, shell, session, pid_file, late>>
          /\ stopping' \subseteq stopping /\ trace_dat' \in stopping
      BY <2>3 DEF RecorderWrites, moduleVars
    <3> QED
      BY <1>13, <1>15, <3>1 DEF Device
  <2> QED
    BY <1>15, <2>1, <2>2, <2>3 DEF Device
<1>16. CASE UNCHANGED vars
  <2>1. UNCHANGED <<loaded, writable, shell, session, pid_file, late, hostVars, stopping, trace_dat>>
    BY <1>16 DEF vars, flowVars, moduleVars, recordVars
  <2> QED
    BY <1>13, <2>1
<1> QED
  BY <1>7, <1>8, <1>9, <1>10, <1>11, <1>12, <1>14, <1>15, <1>16 DEF Next, Host

\* What is filed for a test was recorded in its own session; where nothing was
\* recorded nothing is filed; and the recording of another session only comes
\* in where a setup or a finish did not run to its end, or a recorder was late
\* -- for any number of sessions and whatever is lost or cut off
\* (power_tests_syslogger.sh:174-255, sys_logger.sh:86 and 255-260).
THEOREM FiledFresh == Spec => []ResultFresh
<1> DEFINE Inv == ShellInv /\ LimitsInv /\ Types /\ FreshInv
<1>1. Init => Inv
  BY InitShell, LimitsInit, TypesInit, FreshInit
<1>2. Inv /\ [Next]_vars => Inv'
  BY ShellAlways, LimitsStep, TypesStep, FreshStep
<1>3. Inv => ResultFresh
  BY DEF FreshInv
<1> QED
  BY <1>1, <1>2, <1>3, PTL DEF Spec
=============================================================================
