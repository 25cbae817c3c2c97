# A TLA+ model of the Odroid system logger

The system logger records CPU load, frequencies, power and frame times of an
Odroid board into a kernel trace, and turns the trace into tables. This
directory models the parts of it in which the order of things matters, checks
the models with TLC on small instances, and proves the main results with TLAPS
for all instances.

## The system

| Part | Source | State it keeps | Operations | Hard about it | Model |
|---|---|---|---|---|---|
| Kernel module, control | `src/module.c` | parameter `enabled`, the timer, the logging thread's scheduler state, `was_enabled` | `param_set_enabled`, `logger_wakeup`, `log_func`, `init`, `cleanup` | four kinds of processes share the flag and the timer without a common lock | `SysLogger` |
| Kernel module, measurements | `src/module.c`, `src/syslogger_trace.h` | open files, static buffers | `__log_*` | partial and failing reads | order only, `Pipeline` |
| Kernel module, frame ioctl | `src/module.c`, `src/EGLsyslog.h` | static frame buffer | `syslog_EGL_ioctl` | callers run concurrently | `FrameLog` |
| Android patch | `src/opengl_mods/native_frameworks.patch` | frame times, a thread per frame, one descriptor | `eglSwapBuffers`, `eglLogFrame` | static variables shared by threads | `FrameLimiter`, `FrameLog` |
| Trace reader | `src/trace_conv/trace_conv.py` | state, list of runs, threads, activity of each CPU | `_process_event`, `_process_sched_event`, the writers | lost, late and overlapping events | `TraceStore`, `CpuActivity`, `ThreadTree`, `Evaluation` |
| Evaluation | `src/trace_conv/evaluate_data.py` | measurements, position among them, phases, thread ancestry | `add_measurement`, `add_cpu_activity`, `output_files`, `process_run_csvs` | boundaries of intervals, position carried between lines, reused process ids | `CpuAccounting`, `ThreadTree`, `Evaluation` |
| Control script | `src/android/sys_logger.sh` | the loaded module, recorder process, trace files | `setup`, `start`, `stop`, `finish` | asynchronous end of a recording, second setup, commands cut off | `Workflow` |
| Power tests | `src/scripts/auto_tests/power_tests_syslogger.sh` | files of the tests | `setLCPUFreq`, `runTest`, `restoreSystem` | order of limits, lost commands | `FreqLimits`, `PowerTests` |
| Governor controller | `src/scripts/auto_tests/gov_controller.py` | cores, limits | `GetCores`, `SetCoreFreqs` | cores share one policy | `FreqLimits` |

How they interact: the power tests set the limits of the cores and call the
control script over `adb`, one command after another. The control script loads
the module, starts the recorder (`trace-cmd record`) and writes the parameter
`enabled`. Raising it starts a timer; each expiry wakes the logging thread; the
thread traces a start marker, then one *iteration* (a marker and the
measurements) per wake-up, and an end marker when it finds the flag lowered.
Threads that draw frames trace them through an ioctl, Chrome through its own
tracepoints. The recorder may miss events, and writes its file some time after
it was interrupted. The trace reader files the events into runs and writes
tables; the evaluation reads the tables, accounts the time each CPU ran to the
measurement intervals, and the energy to the phases.

What makes the parts correct:

* control: the timer never stops while the flag is up; every wake-up is seen;
  markers alternate and each answers a request; few iterations follow a stop;
  unloading ends, leaves no open run and, unless a writer gets in its way, no
  timer behind;
* frame logging: a frame is traced once with its own time and period; what
  threads that overlap can do to each other is confined to them; the limiter
  keeps its target over two frames;
* trace reader: the runs found are the runs traced, each with its own frames; lost
  events invent nothing and end nothing; a CPU is never recorded as running two
  threads at a time; every parent of a thread is known and is the one it was born
  with;
* evaluation: each nanosecond is accounted once, to the interval and to the
  phase it lies in; the search through parents ends and finds the true
  ancestors; what the one program writes the other can read, and no assertion
  on the way fails;
* control script: commands follow the order its usage text gives; every
  recorder is interrupted;
* power tests: the limits asked for are those in force; what is filed for a test
  was recorded in it.

## Modules

### Kernel module

`MeasurementRuns` is the promise the kernel module makes to readers of the
trace: runs open and close in turn, a start answers a request to measure, an
end a request to cease (or the unloading), and a closed run holds at least one
iteration.

`SysLogger` models `src/module.c`. An action is a piece of code between two
accesses to shared state:

* `Write`, `CheckLive`, `RejectValue`, `SetEnabled`, `StartTimer` are
  `param_set_enabled` (lines 144-166), run by each member of `Writers` under
  the kernel's parameter lock. `old` is read before the module's state is
  checked, the flag is set after, the timer is started last. A value may be one
  that `param_set_bool` refuses (`Junk`).
* `Expire`, `WakeThread`, `DecideRestart`, `Restart` are the timer and
  `logger_wakeup` (465-475): wake the thread, read the flag, restart.
  `hrtimer_start` may enqueue the timer at any point of a running callback. It
  pins the timer on the CPU of the writer; `here` says whether that is the CPU of
  the logging thread, which then cannot run while the callback does.
* `Begin` to `FinishIteration` are `log_func` (418-463). `awake` is the thread's
  scheduler state: `PrepareToSleep` clears it before the flag is read, and
  `WakeUp` is a return from `schedule()`.
* `Insmod` to `FreeModule` are `init` and `cleanup` (506-568), with what the
  kernel does around them: the module is live only after `init`, parameter
  files are taken away before the module is freed. `mod = "oops"` stands for
  anything that happens after freed code runs or an ended thread is woken.
* `run`, `asked`, `ceased`, `late`, `lateInRun` are history: which marker was
  traced last, which requests are open, how many iterations followed a stop.
  `rearmed` is history of the writers: one has started the timer after
  `hrtimer_cancel` had returned.

### Frames

`FrameLimiter` is the arithmetic of `eglSwapBuffers` (patch, 77-124): the period
from one frame to the next, and the sleep that stretches a short one. A signal may
end the sleep after any of the times in `Cuts`: the result of `usleep` is not
looked at.

`FrameLog` follows a frame from there to the trace. `SwapBuffers` starts a
thread for every frame but the first. The thread (`LogFrame`, patch 58-74) opens
the device, stores the descriptor in a variable all threads of the process
share, calls the ioctl and closes the device; the compiled code may use the
descriptor it got or read the variable again, so `Ioctl` allows both. In the
kernel, `CopyTs` and `CopyPeriod` fill the static buffer of `syslog_EGL_ioctl`
(481-504) word by word, `ReadPeriod` and `Trace` are the tracepoint that reads
it (319-329). Any threads interleave at these steps. `Load` and `Unload` are
the module's device coming and going. A word of a frame is represented by the
frame's number: what matters is whose it is.

### Trace reader

`TraceStore` models `_process_event` and the classes it fills (65-374, 392-575
of `trace_conv.py`): three states, one operator for each kind of event. Quantities
are left out; kept is which list an event goes to, which entries it looks up,
and that a failing look-up ends the program (`failed`).

`Pipeline` composes reader and kernel module: a producer that behaves as
`MeasurementRuns` allows traces markers, the measurements of each iteration and,
at any time, frames and Chrome events; each event reaches `TraceStore`, or is
missed if the recording is lossy. That the kernel module behaves like this
producer is what `SysLogger` is checked and proved to do; the iterations it may
trace outside a run are in `TraceIteration`. `drawn` and `told` are history: the
run in which each frame was drawn, and the Chrome events of each run.

`CpuActivity` models the run times in `_process_sched_event` (456-519): the CPU
of a thread is that of its last wake-up, a run time is an interval before its
event, and an overlap with the interval before is repaired (`ThreadRuns`, which
`Evaluation` uses too).

`ThreadTree` models the other half of `_process_sched_event` (462-491): the
table of threads, their names and parents, and how forks and wake-ups change it.
An id may be given to a new thread at any fork. `born` and `lineage` are history:
which owner of an id is meant, and the ancestors a thread had at birth.
`Search` is `is_chrome_main_thread`, `is_renderer_thread` and `is_gpu_thread`
of `evaluate_data.py` (38-58), with the two ways in which the search can end
the program.

### Evaluation

`CpuAccounting` adds to `CpuActivity` the function `write_cpu_activity_csv`
(768-802) and, from `evaluate_data.py`, `add_measurement` and
`add_cpu_activity` (126-179). Time stamps of events and measurements are taken
from one clock, as the reader assumes when it compares them (`r.start > stop`).
Indices are one higher than in the program.

`Evaluation` composes `ThreadTree` with the path of a run through the files: the
recording (`Trace*`) adds events while time passes; `Convert` is the end of
`main` of `trace_conv.py` with what the writers put into the files the
evaluation reads (`powerlogger.csv`, `cg_events.csv`, `task_load.log`, one file
for each CPU that ran something, with the runs that reach into the measurements,
clipped to them); `ReadRun` is `process_run_csvs` (541-569) up to the call of
`output_files`: it needs the right name of a column and a file for every CPU, and
accounts each line of it (`AddCpuActivity`), with the assertions of 168 and 178.
`OutputFiles` checks the assertions on the time accounted (249-255), covers the
measurements by phases (257-265) and searches for the kinds of threads (309-338).
`failed` is the exception that ended a program; `Ws` is the energy of
a phase (213-245). Power is counted twice over, so that the mean of two values is
a whole number. `TimeColumn` is the heading the converter gives the time stamps:
the evaluation asks for `Time [ns]`. Events selected from the recording are sets of
positions in it, which `SortedSets` turns into sequences. `MCEvaluation` has the
instances.

### Control script and power tests

`Session` is the order the usage text of `sys_logger.sh` gives (line 29): set
up, start, stop, finish.

`Workflow` models `sys_logger.sh`. A command is the sequence of the steps it will
take, computed when it begins from what it looks at (`SetupSteps`, `StartSteps`,
`StopSteps`, `FinishSteps`), and one `Shell*` action carries out one step. While
the parameter cannot be written, `setup` reloads the module (`ShellReload`,
88-106); an `rmmod` that is refused leaves the module loaded, and the `insmod`
that follows fails. The reset of the trace buffers is a step that can be cut off
like any other, without effect on what is modelled. Beside it run the module's
thread, which traces as `MeasurementRuns` promises, and the recorders: an
interrupted recorder writes `trace.dat` at some later time (`RecorderWrites`), and
may end by itself. `finish` waits for children of its own shell only, and the
recorder is a child of the shell that ran `setup`, so `finish` may end first
(`late`). Loading may fail or leave the parameter out, unloading may fail;
`trouble` bounds how often.

`FreqLimits` models the policy of a cluster and the scripts that write it:
`SetLCPUFreq` (power tests, 144-157) writes the maximum first, `SetCoreFreqs`
(`gov_controller.py`, 91-114) the minimum, and switches cores off and on. The
kernel's part is external: it refuses a minimum above the maximum, and an
offline core has no files to write.

`PowerTests` composes both with the host: `Script` is a whole day, from a call
of `gov_controller.py` over the tests (`runTest`, 260-312) to the restored
system. The host sends one `adb` command after another and looks at no result:
`LoseFreq` and `LoseCommand` are commands that do not arrive, `CutOff` ends the
command on the device at any step with the connection, `Death` is a recorder
that ends. `Pull` is `pullConvTraceDat` (227-255): what is on the device is
fetched, converted and filed under the name of the test. `MCPowerTests` has the
days.

Operators whose comment says *a fault* are deliberate errors: replacing the
operator that follows by them must make a run fail, which shows that the
property the run checks depends on that line of code.

## Runs

| Run | Instance | Shows |
|---|---|---|
| `syslogger` (`SysLogger.cfg`) | 2 writers, 3 values, timer on any CPU, unloading at any moment | type; `TimerAlive`, `LateBound`, `NoOpenRunLeft`, `QuietAfterCancel`; `RunProtocol`: implements `MeasurementRuns`; under fairness `UnloadEnds`, `MeasuresWhileEnabled`, `StopEndsRun` |
| `syslogger_stop_lost` (`SysLoggerStop.cfg`) | 1 writer, timer on any CPU | violation of `StopAlwaysEndsRun` |
| `syslogger_runs_merged` (`SysLoggerMerged.cfg`) | 1 writer | violation of `OneRunPerRequest` |
| `syslogger_unload_race` (`SysLoggerOops.cfg`) | 1 writer | violation of `UnloadedCleanly` |
| `pipeline` (`Pipeline.cfg`) | 2 CPUs, 1 with a traced frequency, 2 runs, 3 iterations, 3 frames or Chrome events | `RunsMatch`, `ForeignMatch`, `CompleteIsRead` of complete recordings, `LossOnlyMerges`, `NoIndexError`, `FrameLinks` of all |
| `pipeline_freq` (`PipelineFreq.cfg`) | the same | violation of `FreqExpanded` |
| `cpu_accounting` (`CpuAccounting.cfg`) | 1 thread, 2 CPUs, 3 run times, time 0 to 5, 2 to 5 measurements | `ActivityOrdered`, `AccountingExact`, `HandledAssertion`, `RunningFitsDisjoint` |
| `cpu_overlap` (`CpuAccountingOverlap.cfg`) | the same | violation of `RunningFits` |
| `frame_log` (`FrameLog.cfg`) | 2 processes, 3 logged frames, target period 5, microsecond 2, a sleep that can end after 1 | `FrameTracedOnce`, `MixedOnlyByRace`, `LeaksOnlyBySharing`, `LimiterPairs` |
| `evaluation` (`Evaluation.cfg`) | 3 process ids, 2 CPUs, 2 phases; a family history of up to 3 forks, or runs of up to 2 ns that overlap, or up to 3 measurements and 3 phases | `EnergyPerPhase`, `EvaluationReads`, `ParentsKnown`, `LineageFollowed`, `AncestryRight` |
| `evaluation_columns` (`EvaluationColumns.cfg`) | the same, with the heading the converter writes | violation of `HeadingsKnown` |
| `power_tests` (`PowerTests.cfg`) | 2 sessions, 3 cores, 2 frequencies, up to 2 commands lost or cut off | `LimitsInForce`, `ResultFresh`; `SessionProtocol`: implements `Session`; under fairness `RecordersStop` |

Bounds. `SysLogger` needs none: its state is finite, since the counters of late
iterations are bounded by the model itself (that is `LateBound`). Two writers
are enough for one to hold the lock while another waits; the proofs cover any
number.

In `Pipeline`, two runs and three iterations give a run with two
iterations followed by one with one, or a late iteration between two runs; three
foreign events give the frame that is ignored and two that are filed.

In `CpuAccounting` three run times on one CPU reach the third run, from which
on overlaps are repaired; five measurements give lines that span three
intervals, so that stepping back by two or by less makes a difference. One
thread suffices as it moves between the CPUs and only its CPU matters.

In `FrameLog` three frames give two threads of one process that share its
descriptor and one of another process that only meets them in the ioctl, or three
of one process, which can leave a descriptor open. A target of 5 with a
microsecond of 2 makes the sleep round down.

In `Evaluation` three ids allow a grandparent, and an id that is used again
makes an ancestor its own descendant. `Budgets` divides the recordings: with
forks (three, or two and run times at two moments) the measurements are two;
with phases, three measurements with two phase events or two with three, which
can lie before, in and after the measurements, at one time, or repeat the phase.
A fourth kind of recording has three runs of a length of up to two on two CPUs:
the first two of a CPU can then overlap, and an assertion of the evaluation
fails.
The parts of the evaluation share nothing but the files, so nothing is lost
by not varying all at once. The ids are symmetric.

In `PowerTests` two sessions are a session that finds the remains of another.
Three cores are the least for which two that got all their commands remain when
one did not, and two lost writes can hit two cores or one. Two frequencies are
enough as a refusal depends on the order of minimum and maximum alone (they are
1000 and 1400, so that none is taken for a position in the list of them). Days
with lost limits have all frequencies, all initial limits and all calls of
`gov_controller.py`; days with trouble in the sessions have one frequency, since
sessions do not look at limits.

Deadlock is not checked where the model really stops: `SysLogger` lets the
module be unloaded during a write, after which it may be in the state `oops`;
`Pipeline`, `CpuAccounting`, `FrameLog`, `Evaluation` and `PowerTests` end when
the producer has used up its bounds, the files are read or the day is over.

Fairness. `SysLogger!Fairness`: a timer that is enqueued expires and its
callback returns; a system call in progress goes on (weak fairness). The thread
on the timer's CPU, and `hrtimer_cancel`, get their turn only between
callbacks: they are disabled again and again, and strong fairness says that
callbacks, which are an interval apart, leave them time. Nobody has to write the
parameter, load or unload the module. `UnloadEnds` counts the state `oops` as an
end: what follows freed code is no longer this program.

`PowerTests!Fairness`: the host goes on with its script, the shell with its
command, a recorder that was interrupted ends, and the module's thread goes on
(weak fairness of each). The last is what `UnloadEnds` shows of `SysLogger`: only
a thread that is to be stopped matters here, as `rmmod` waits for it. Nothing that goes wrong has to go wrong, and commands that are lost are
not sent again.

### What the violations show

* **A stop can be lost.** `logger_wakeup` wakes the thread before it reads the
  flag. On two CPUs the thread can read the flag up, then it falls, and the
  callback reads it down and does not restart the timer: nothing wakes the thread
  to trace the end marker. On one CPU the interrupt keeps the thread from
  running in between: `StopEndsRun`, which asks for an end only while timer and
  thread share a CPU, holds (run `syslogger`). The timer is pinned to the CPU of
  the *writer*, the thread to the one given as a parameter.
* **A timer can outlive its module.** A writer looks at the state of the module
  once, before it sets the flag. If `rmmod` cancels the timer between this look and
  the start of the timer, the timer is on again, and its callback wakes a thread
  that has ended or is itself freed. `QuietAfterCancel` shows that this is the
  only way to it: as long as no writer starts the timer late (`rearmed`), nothing
  of the module runs after `hrtimer_cancel`.
* **Two requests, one run.** The flag lowered and raised between two looks of
  the thread changes nothing it can see.
* **Frequencies are not expanded** to the other CPUs of a cluster, though the
  comment says so.
* **The first two runs of a CPU may overlap**: the repair asks for more than one
  earlier run. The assertion of the evaluation can then fail; `Evaluation` carries
  this to the end, an `AssertionError` of `evaluate_data.py`, and `EvaluationReads`
  shows that no assertion on accounted time fails for any other reason.
* **The evaluation asks for a column that is not written**: it reads `Time [ns]`,
  and the converter heads its time stamps `Uptime [ns]`, `Raw Time [s]` and
  `Real Time [ns]`. Every run with a measurement ends in a `KeyError`, whatever was
  recorded. The run `evaluation` takes the heading the evaluation was written
  for, to show what it does beyond that point; `WrittenIsRead` is proved for every
  heading.

### What the passing runs leave open

Some properties hold only within the condition they state, and the condition
says where the code is weak:

* Overlapping threads of one process lose frames and leave descriptors open, and
  with them the module in the kernel; threads of any processes that meet in the
  ioctl mix and double frames. The limiter holds its target over two frames if
  no signal cuts the sleep between them short; a single period can be as short
  as the drawing.
* A disabled module may leave its run open while the timer is on another CPU than
  the thread, and unloading is clean only if no parameter write overlaps it.
* A CPU that never ran anything has no file, and the evaluation of the run ends;
  overlapping runs at the beginning of a CPU's end it with an assertion; a run
  without measurements ends it too; process ids used again can make a
  thread its own ancestor, on which the search never ends.
* The limits of a cluster are set by writing them for every core: the write the
  kernel refuses for the first core it takes for the second. With fewer than two
  cores that got all their commands the old limits can stay.
* When a command is lost or cut off, or a recorder takes longer than the five
  seconds of `finish`, a test can be filed with the recording of another; a
  recorder whose `finish` is lost runs on.

## Proofs

All theorems hold for every value of the constants that satisfies the named
assumptions of the modules: CPUs, process ids and frequencies are finitely many
(files are read in the order of the CPU numbers, a search ends, a cluster has a
lowest and a highest frequency), the last interval and the microsecond have a
positive length, the values that stand for "no writer" and "no truth value" are
neither writers nor truth values, and numbers and times are natural numbers. No
theorem assumes more: where the code keeps a promise under a condition only, the
condition is part of the property. Every invariant of a passing run is stated by a
theorem, and so are both refinements the runs check.

| Property of a run | Theorem |
|---|---|
| `SysLogger`: `TypeOK`, `TimerAlive`, `LateBound`, `NoOpenRunLeft`, `QuietAfterCancel`, `RunProtocol` | `SysLoggerProofs`: `TypeCorrect`, `TimerNeverLost`, `LateIterationsBounded`, `ThreadClosesRun`, `QuietUnload`, `ImplementsRuns` |
| `TraceStore`: `TypeOK`, `NoIndexError`, `FrameLinks` | `TraceStoreProofs`: `StoreTypeCorrect`, `LookupsSafe`, `FramesLinked`; of the composition, `PipelineProofs`: `RecordingReadSafely` |
| `Pipeline`: `CompleteIsRead`, `RunsMatch`, `ForeignMatch`, `LossOnlyMerges` | `PipelineProofs`: `CompleteRecordingRead`, `RunsFound`, `ForeignFound`, `NothingInvented` |
| `CpuAccounting`: `TypeOK`, `ActivityOrdered`, `HandledAssertion`, `RunningFitsDisjoint`, `AccountingExact` | `CpuAccountingProofs`: `TypeCorrect`, `OrderedThroughout`, `AssertionHolds`, `FitsInInterval`, `AccountedExactly` |
| `FrameLog`: `TypeOK`, `LimiterPairs`, `MixedOnlyByRace`, `FrameTracedOnce`, `LeaksOnlyBySharing` | `FrameLogProofs`: `LogTypeCorrect`, `LimiterHolds`, `FramesMixOnlyByRace`, `TracedOnce`, `LeaksBySharing` |
| `Evaluation`: `TypeOK`, `ParentsKnown`, `LineageFollowed`, `AncestryRight`, `EvaluationReads`, `EnergyPerPhase` | `EvaluationProofs`: `EvaluationTypeCorrect`, `ParentsInTable`, `RecordedLineage`, `SearchAnswersRight`, `WrittenIsRead`, `EnergyAccounted` |
| `PowerTests`: `TypeOK`, `SessionProtocol`, `LimitsInForce`, `ResultFresh` | `PowerTestsProofs`: `PowerTypeCorrect`, `FollowsWorkflow`, `LimitsHold`, `FiledFresh` |

### Kernel module

`SysLoggerProofs`. The invariants checked are not inductive alone; `IInv` is
the conjunction of

* `TypeOK`;
* `WriterInv`: the holder of the lock is the one writer inside the handler, and
  a writer about to start the timer has raised the flag;
* `TimerAlive` itself, which needs `WriterInv`: only the flag's own writers
  raise it, and whoever takes the timer down reads it;
* `LifeInv`: the thread exists from `init` to the join in `cleanup`, and has
  been told to stop only there;
* `RunInv`: at which lines the thread can be, given the marker traced last and
  `was_enabled`;
* `CountInv`: late iterations plus the wake-ups still due are bounded.

Each part has a lemma with one step per action. `QuietUnload` adds `QuietInv`:
a module that is being loaded finds the timer off, since the one before it left
it off or ended in `oops`. `ImplementsRuns` shows that every
step of the module is one of `MeasurementRuns` or a stutter, with the history
variables as refinement mapping.

### Frames

`FrameLogProofs`. `LimiterHolds`: `LimiterInv` adds to `LimiterPairs` that the
sleep due is the one computed from the last period; two periods then differ
from the target by the rounding of that sleep. A sleep cut short makes the period
that follows it the first of a pair (`periods`). Every step of `FrameLog` is one
of the limiter or leaves it alone (`ImplementsLimiter`).

`FramesMixOnlyByRace` needs `RaceInv`: threads that are in the ioctl together are
marked, and those that have not been there are not (`RacedInv`); a word a thread
is about to read is its own frame's or that of a frame it shared the ioctl with
(`BufferInv`); a record of a frame whose own thread has yet to trace it is
another's (`TraceInv`); and without the module nobody is in the ioctl
(`DeviceInv`), so loading, which clears the buffer, takes no frame from a reader.

The other properties need `LogInv`, which adds what is known of descriptors.
Each one open is held by a thread that is alive, or by one that shared its
process (`Opened`), so there are no more of them than threads and `open` finds a
free one. The static variable holds a thread's own descriptor, or that of a
thread it shared the process with (`Stored`), so a thread that had the process
for itself calls the ioctl and closes what it opened (`Own`, `Traced`). When the
last of the threads that shared a process ends, one of them has left nothing
open, because one of the `close` calls succeeded (`Wasted`): fewer descriptors
leak than threads shared.

### Trace reader

`TraceStoreProofs`. `SInv` says that a state other than `INIT` has a run, and
`ITERATION` a measurement in it: look-ups are safe. `Links` relates frames and
measurements: ids increase within and across runs, a measurement names frames of
its own run only, and the last frame is always named. The events that are not
frames change runs in one of two ways (`SameLinks`), frames in a third
(`AddsFrame`); both keep `Links`.

`PipelineProofs`. `PInv` adds to these where the producer is (`ProducerOK`), and

* `Synced`: in a complete recording the reader's state is the module's, and the
  measurements of each run are as many as its iterations;
* `Counted`: all measurements but the last have the counters of all CPUs, and
  those the last one lacks are still to be traced, so a start of the next
  iteration finds the last one complete;
* `Told`: in a complete recording the frames of each run are those drawn in it,
  and the reader's counter of frames has followed;
* `Merged`: in any recording, measurements that are filed are no more than
  iterations, and runs no more than starts.

`ImplementsStore` and `ImplementsRuns` are the two halves of the composition: it
is an instance of the reader, and its producer one of `MeasurementRuns`, the
specification `SysLogger` implements. So what is proved of the kernel module is
what the reader relies on.

### CPU time

`CpuAccountingProofs`. `ActInv` adds to `ActivityOrdered` that the last run of a
CPU is the one that ends last. For the evaluation `AInv` adds how far a file is
read (`Position`: what is pending is the rest of its lines), where the next
search begins (`IndexInv`: in an interval that begins before each line still to
come ends, and before it begins if the lines are disjoint), and what has been
accounted (`Accounted`: as many nanoseconds of each interval as the lines read
cover). `IndexInv` is the argument that stepping back by two intervals is
enough: the search of a line ends at the first interval that begins after it, so
the one before begins no later than the line ends (`SearchEnds`), and this is
where the search of the next line begins. `LineAdds` computes what one line adds
to an interval; lines that are disjoint add disjoint sets of nanoseconds. Reading
the files changes nothing of what was recorded (`ImplementsActivity`).

### Threads, phases, files

`EvaluationProofs`. `TreeInv` adds that no ancestor's birth lies after the last
one of its id, that a recorded parent is an ancestor, and that the ancestors of
an ancestor are ancestors. A fork that uses an id again then leaves no descendant
of its earlier owners `Current`. `SearchAnswersRight` goes on from there: each step
up that is not the last finds another id, so as many steps as there are ids
reach everything the way up leads to (`UpwardClosed`). For a current thread the
lineage becomes smaller with each step (`Descent`), so the way up ends, and what
it leads to is the thread and its ancestors and nothing else (`UpwardIsFamily`).

`RecordInv` and `FilesInv` say what has been recorded, and that the files and
what is read from them are functions of it; `WrittenIsRead` compares one with the
other. Most of it is about the assertions. The measurements are an axis without
gaps (`AxisRead`), and the lines of a file lie on it, in order, and apart from each
other unless the first two runs overlap (`LinesWritten`, `LinesFit`). `Ready` and
`Counted` say of the lines accounted so far that the next search begins no later
than the next line, and that each interval has been given as many nanoseconds as
are covered of it at most; `LineCounted` keeps both, and asserts what the program
asserts. So every line is handled, and no CPU has run longer than an interval
lasts (`AccountHolds`). A thread that has time is in the table the search uses
(`RanKnown`).

`EnergyAccounted` is a chain of equalities. Phases follow each other without a gap
(`Succession`), so each time of the measurements lies in exactly one
(`Cover`, `OnePhase`), and this is the phase in force then; the overlap the
program computes from the four bounds is the size of what phase and measurement
share (`ShareSize`), and these shares are a partition of the time a phase number
was in force (`SharesPartition`). `PhaseEnergy` exchanges the sums over phases
and measurements.

### Power tests

`PowerTestsProofs`. `ShellInv` is about the steps that are left of a command: a
module is loaded only where there is none, enabled only when it is loaded and
not, and when it is enabled the step that unloads it is preceded by the one that
disables it. It survives the loss of the rest of a command. `FollowsWorkflow`
shows that every step is one of `Session` or a stutter, with the stage computed
from `loaded` and `enabled`.

The other two are about what the host has still to send. `Orderly` is a property
of sequences of calls, shown of every script (`ScriptOrderly`) and kept when the
first call is taken away: a batch of writes follows the target it writes
(`Targeted`), the two limits of a core are written one right after the other
(`Paired`), the commands of a session follow each other (`Led`). `LimitsInv` adds
`Agree`: among the cores that missed no command, one that has got all of its
writes has brought one limit into force, a second one both; and where a core has
written one limit only and it was refused, the other one will be accepted.

`FreshInv` says what is done of a session by the steps left of its commands: when
the module is there and its recorder known (`Loading`), which recorders may still
write (`Recording`), that the session under way is the one the next command
means (`UnderWay`), and whose recording lies on the device (`Recorded`).

### Lemmas

`InductionLemmas` has what the other modules share: induction over the natural
numbers, stated of a set, which the provers can instantiate where they cannot
instantiate a predicate; its uses for sorted sequences (`SortedSets`), for the
concatenation of a sequence of sequences and for functions defined step by
step; and sums over finite sets, which the community modules define by folds:
adding one element (`SumStep`), splitting, adding two sums, exchanging two
(`SumsOfParts`).

### Only model-checked

`UnloadEnds`, `MeasuresWhileEnabled`, `StopEndsRun` and `RecordersStop` are
liveness properties; they rest on fairness, hence on `ENABLED`, which the prover
does not reason about. The violations are what TLC finds on the instance of
their run.

## Plan

Done, in this order: the module's control and its abstract promise, the trace
reader, their composition, the accounting of CPU time; frames from drawing to
trace; threads, phases and the files between the two programs; the control
script, the limits and the power tests; the proofs of all their invariants and
refinements. To come:

1. `SensorFiles`: partial reads and the temperature parser as a recursive
   function over short texts, with the static buffer that keeps old text, and a
   proof that the parser stays within the text.
2. The failures of `init` after the first file is opened: which resources stay
   behind; the interval on a 32-bit machine.
3. The module's thread in `PowerTests` as an instance of `MeasurementRuns`.

## Not modelled

* Loads and plots of the evaluation: floating-point arithmetic on sums that are
  modelled, and drawing. In passing: a power that is not known counts as 0 in
  the files, but as -1 in the total the converter writes beside it.
* `framelogger.csv` and the columns of the other tables nothing reads again.
* `tracecmd.py`, third-party bindings; it hands over events in order of time.
* Of `sys_logger.sh`: the report, the choice of events, and the branch that
  records with `trace-cmd start`. The test `[ ! $trace_record -eq false ]`
  compares words as numbers, fails, and the other branch is taken whatever the
  option says.
* Of the power tests: GPU locks and the other cluster (the same kind of
  writes), the prompt to repeat a test (`power_tests_syslogger.sh:297`), the
  simulator's variant, `get_combos.py`. Frequencies and governors that
  `gov_controller.py` reads it keeps and never uses.
* `is_trace_thread` and `is_direct_main_thread` of the evaluation, which look at
  the name alone or the parent alone, and runs after the first.
* The linear scripts for governors, sensors and the stress test; the binaries
  kept in the repository.
* Time in `SysLogger`: an interval is the freedom of the timer to expire at any
  time, so a timer that expires while an iteration is running is included, and
  the wrap of `interval * 1000000UL` on a 32-bit machine is not.
* The names a fork tells: the reader takes the parent's for a number and gets
  none (`trace_conv.py:465`), so a parent heard of first in a fork has an empty
  name until it is heard of again; this is what `Fork` does, and the name of a
  parent that is known is not changed by it.
