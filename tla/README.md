# TLA+ models of the PID-Piper fusion testbed

The repository is an ArduPilot copter simulator extended with a learned
attitude controller (PID-Piper), with schedules that inject false GPS and IMU
data into the simulation, and with a Python runner that flies many experiments
and collects their results; a training pipeline produces the networks. This
directory holds TLA+ modules of the parts the project wrote itself, TLC
configurations for small instances, and TLAPS proofs, for every value of the
constants, of every invariant and action property that TLC checks.

File names below are relative to `src/simulator/`:

| short | file |
|---|---|
| PIPER | `libraries/PID_Piper/PID_Piper.cpp`, `.h` |
| POS | `libraries/AC_AttitudeControl/AC_PosControl.cpp`, `.h` |
| ATT | `libraries/AC_AttitudeControl/AC_AttitudeControl.cpp` |
| RUNNER | `Tools/autotest/run_pid_piper_mode_experiments.py` |
| GCS | `libraries/GCS_MAVLink/GCS_Param.cpp`, `libraries/AP_Param/AP_Param.cpp` |
| TRAIN | `../train_pid_piper_fusion.py` |

## 1. The system: inventory

### 1.1 Components

| component | state | operations | module |
|---|---|---|---|
| Recovery monitor and fusion (PIPER, called by ATT once per control frame) | strategy mode, recovery flag, three residual accumulators, three ring buffers, loaded gate models, the last ML and fused commands | `setStrategyMode`, `recoveryMonitor` (five modes), `cusum`, `checkSwitchControl`, `GateSequenceBuffer::push/clear/ready/to_tensor_values`, gate evaluation | `FusionMonitor`, `GateBuffer`, `SlidingWindow` |
| False-data schedules (POS, called once per navigation step) | start delay, per schedule two flags, two deadlines, axes, scenario, cycle count, generator and seed; the biases in SITL's parameters; the label handed to ATT | `run_xy_controller`, `checkTimer`, `configureAttackCycle`, `checkAttackTimer`, `checkNoAttackTimer`, their IMU twins, `updateIMUAttackValues` | `FalseDataSchedule` |
| Runner: one flight | telemetry dictionary, timers, result record, simulator process | `set_run_params`, `prepare_takeoff`, `pump_mavlink_until`, `wait_for_mode`, `monitor_flight`, `finish_with_strict_success`, `apply_strict_success_from_analysis` | `FlightMonitor` |
| Runner: result files | `run_result.json` and `analysis.json` of the run directory and of every attempt directory, `telemetry.csv` | `run_one`, `make_attempt_dir`, `write_json`, `should_skip_run`, `run_dir_has_completed_result`, `find_latest_completed_attempt_dir`, `aggregate_analysis`, `refresh_strict_success_for_run` | `AttemptStore` |
| Runner: parallel pool | task queue, result queue, worker processes, their simulators, the parent's counters | `run_manifest_parallel`, `parallel_worker_main`, `terminate_processes` | `ParallelRunner` |
| Runner: parameter exchange (with GCS) | the vehicle's parameters, its save, request and reply queues; messages under way; the assignment and the try `set_param` is at | `set_param`, `set_run_params`, the parameter groups of `monitor_flight`; `handle_param_set`, `save_sync`, `handle_param_request_read`, `param_io_timer`, `send_parameter_reply`, `queued_param_send` | `ParamExchange`, `ParamGroups` |
| Runner: manifest | the run directories of an output directory with their `run_meta.json`; the rows of the invocation | `build_manifest`, `build_append_missing_manifest`, `read_existing_run_meta`, `run_id_for`, `pending_manifest_rows`, `run_one`, `parallel_worker_main`, `aggregate_analysis` | `Manifest` |
| Runner: metrics, report, log copying, build | – | | not modelled |
| ML inference (`LSTM.cpp`, frugally-deep) | network state | `getEulerAngle` | its result is arbitrary in `FusionMonitor` |
| Training: windows of the LSTM gates (TRAIN) | training and validation rows, the order of the windows, batches of the epoch | `split_gate_dataframe`, `time_split`, `LstmWindowSequence`, `make_lstm_windows`, fit and predict in `train_for_angle` | `TrainingWindows` |
| Training: tables, targets, export (`run_pid_piper_pipeline.py` and the scripts it calls) | CSV and model files | batch steps | not modelled |
| ArduPilot upstream, SITL, `setup.sh` | | | not modelled |

### 1.2 Interaction

* The ground station (the runner) writes the parameters `PIPER_MODE`, the
  scenario and seed parameters; they may change between any two frames.
* POS calls `setControlXY` with the (offset) position and a label; ATT forwards
  both to the monitor and logs the label as ground truth of the frame.
* ATT calls `setStrategyMode` and `recoveryMonitor` in every frame and flies the
  returned command.
* The runner starts one simulator per run (in a session of its own), talks to
  it over MAVLink and its console, and writes the result files when the flight
  is over. With `--jobs` several worker processes do so concurrently.
* Later invocations (`--resume`, `--append-missing`, `--analyze-only`) read the
  files that earlier ones, possibly killed, left behind.

### 1.3 What is hard

*State that outlives the mode it belongs to.* `recoveryMode`, the accumulators
and the rows of the ring buffers are shared by all modes or survive a reset.
*Windows and deadlines handing over to each other.* Each schedule has two flags
and two deadlines, read at arbitrary call times, while parameters change.
*Partial failure.* A gate that throws leaves a frame half done; a kill leaves
files of which some are old, one is torn and some are new; a dead worker takes
a row and unsent messages with it.
*Timeouts against late events* in the six nested waits of a flight.
*Processes waiting for each other* in the pool.
*An unreliable link with retries.* Confirmations carry a name and a value but no
identity of the request they answer; several sources send them.
*Names and indices found again from files* that a kill may have torn.

The single hazards, at their lines, and the properties that address them are
listed in `PROJECT.json`.

### 1.4 What makes each component correct

* Monitor: a fused command is finite; a gate sees exactly the last frames; no
  old row reaches a gate; recovery starts and ends only for its reasons.
* Schedules: labels agree with injections; nothing is injected outside the on
  windows of a configured scenario; a burst keeps its axes; windows recur;
  disabling works.
* Flight: it ends; a landing is reported only in time and after an
  uninterrupted sustain period; an AUTO leg is flown with the attack of its row.
* Files: a run is skipped only if it has a result; results survive; what the
  run directory says is backed by an attempt; `--resume` repairs.
* Parameters: a confirmed parameter has its value; a group is applied only as a
  whole; every group returns.
* Manifest: rows do not share a directory; `--append-missing` completes its plan
  but for flights that fail, flies nothing twice and overwrites no completed run it
  has seen.
* Training windows: each window once per epoch, cut within one flight; nothing
  of the validation rows in training; predictions belong to their rows.
* Pool: a normal return means `run_one` of every row came to its end; no simulator
  is left; the parent gets out.

## 2. Modules and their correspondence to the code

`PROJECT.json` maps every definition to its lines. Definitions keep the names
of the source where TLA+ allows it.

### GateBuffer, SlidingWindow, FusionMonitor

`GateBuffer` is `struct GateSequenceBuffer` with its index arithmetic for any
length `SeqLen` (100 in the code). A row is the number of the control frame it
was computed in, so that a window tells which frames it holds. `clear` keeps
the rows, as the code does.

`SlidingWindow` is the abstract specification: three windows holding the last
frames; a frame outside mode 4 empties them, a frame in mode 4 enters the
windows of a prefix of the axes. `FusionMonitor!GateWindows` says that the ring
buffers implement it under the mapping `window[a] = Contents(buffer[a])`.

`FusionMonitor` has one action per strategy mode: `PurePid`, `OriginalMl`,
`HardSwitch`, `GateFusion`, `LstmGateFusion`, each the whole of one call of
`recoveryMonitor` including the reset that modes 0 to 3 begin with.

* A command is represented by the share of the ML command in it (0 is the PID
  command, `Full` the ML command), or NaN/Inf. `|y_ML - y_PID|` is a number of
  residual units or NaN/Inf, chosen freely in every frame. `y_PID` is finite: it
  is converted from bounded target angles.
* The C++ `abs` applied to a double is taken to be the floating-point overload.
  With `b = 0` the accumulator's reset branch is never taken, so `cusum` is an
  addition; NaN fails every comparison and stays.
* A gate evaluation visits the axes in order and may fail at any of them, by a
  model that cannot be loaded (before the row is pushed, and only if that model
  was not loaded before) or by inference (after it, and in mode 4 only when the
  window is full).
* An exception thrown by `getEulerAngle`, outside any try block, is not modelled.
* `frame`, `lastReset` and `failed` are history variables.

### FalseDataSchedule

Actions: `Run` (one call of `run_xy_controller`, before or after the start
delay), `Clock`, `SetGpsParam`, `SetImuParam`. A deadline is represented by the
time left until it, -1 once past, since the code only compares deadlines with
the clock; this keeps the state space finite without a bound on time. Both
schedules have the same record, with `started` for `initAttackTime`,
`offStarted` for `initNoAttackTime`. The differences between the twins are kept:
scenario 0 of the GPS schedule returns before the seed check and the cycle
count, that of the IMU schedule does not. Jitter makes a duration any member of
`Durations`; amplitudes are left out. The clock does not move within one call.

### FlightMonitor

`pc` follows the runner through launch, mission commands, GPS wait, arming,
climb, parameters, AUTO wait, parameters, cruise. Every receive-loop iteration
is one tick; telemetry is reduced to what the loops compare. A message may
change any field; the vehicle may be silent or exit (`SimExit`) at any time.
`set_param` groups are one step that may take up to `ParamTime` ticks, during
which `last_msg_t` of the loop stands still, and may fail, with the deferred
parameters set or not. Telemetry is taken to be sampled in every iteration;
the code samples at a fixed interval. `success` prefers the altitude and distance
that the landing recorded to those of the last telemetry, as
`apply_strict_success_from_analysis` does. `goodFor` is a history variable.

### AttemptStore

One run directory with its attempts. A file is missing, torn or a document.
`OpenFile`/`CloseFile` are the two halves of `write_json` (`open(path, "w")`
truncates), in the order of `run_one` (`Following`); `Interrupt` is Ctrl-C
between or inside the writes, `Kill` the end of the process at any step,
`KillRewrite` a kill in the middle of a rewriting of the root analysis by
`aggregate_analysis`. `run_meta.json` is written together with its attempt
directory (`Manifest` takes it apart), and the attempt directory that is latest
by name is the latest by time. One job is modelled: an exception that leaves
`run_one` ends the runner without an aggregate, which is a `Kill` at that step.

`Next` is `RunnerStep`, what the runner does by itself, Ctrl-C included, or a kill.
`UnkilledSpec` has the runner's steps only.

### Manifest

All run directories of one output directory over several invocations. A
directory is identified by its index and by what `run_id_for` keeps of the
condition (`Stem`), and holds its `run_meta.json` (torn or a document, with the
condition) and the result its files amount to: none that counts, a completed
attempt, a completed root analysis, or one with a retryable status, which hides
earlier results. `AttemptStore` has the detail of these files for one run. `Invoke`
is `main` up to the first flight with any combination of `--append-missing`,
`--resume` and `--max-runs`, which may be absent (`max_runs = Len(plan)`);
`OpenMeta` and `CloseMeta` are the two halves of the two writes of `run_meta.json`
in `run_one`; up to `jobs` rows are in flight, taken in order (`NextRow`). A plan
names each condition once, as a grid without repeated values does.

A row ends with a completed attempt (`EndAttempt`, `SaveRoot`), with a retryable
status (`EndRetryable`: an exception inside the try block of `run_one` is one), or
because `run_one` raises outside of it (`RunOneRaises`): the worker then reports a
`worker_error`, which the parent counts like a flight. An invocation ends when all
rows are counted (`Finish`) or with Ctrl-C (`Interrupt`), both followed by
`aggregate_analysis`, or is killed.

### ParamExchange, ParamGroups

`ParamGroups` is the abstract specification and what `FlightMonitor` assumes of
its one-step groups: values may change to the requested ones at any time, also
when a group has failed, and a group is reported as applied only when all of
them have. `ParamExchange` is the protocol: `Send`, `Receive` and `Timeout` are
`set_param`, `EndItem` its callers, the other actions the vehicle's handlers.
The link and the vehicle's queues are sets of what may yet arrive, so that a
message may be lost, late, duplicated and overtaken. Value and report are
separate steps (`handle_param_set`, `save_sync`), and a read request is answered
in two (`param_io_timer`, `send_parameter_reply`).

Assumptions: a group names a parameter once; the parameters concerned are of
integer type; nothing of one group is under way when the next one that names
the same parameters begins (the climb is between the launch group and the
post-AUTO group, and its loops drop every `PARAM_VALUE`). The post-takeoff group
names other parameters and is not followed by a second one.

### TrainingWindows

One axis with the LSTM architecture. A row is its flight and its place in it.
`Prepare` is the split, the scaler and the construction of both sequences; a
split index is the truncated product, which floating point may leave one below
when it is a whole number. `Fit` fetches one batch; Keras draws the order of the
batches of a training epoch, so any order is allowed. `EndEpoch` is Keras'
end of an epoch, which calls `on_epoch_end` of both sequences; a shuffle is any
permutation. `Predict` walks through the validation sequence in order. The
table is what the filters of `train_for_angle` leave, and it has `mission_id`.

### ParallelRunner

Workers (`Get`, `start_sim`, `run_one`, `Exit`), the feeder thread of each
worker's queue (`Feed`), interrupts and kills, and the parent's two loops
(`Collect*`, `Drain*`), its interruption, and `terminate_processes`. A message
that was put but not yet fed is lost with the worker. A simulator outlives its
worker unless `stop_sim` ran. The locks inside `multiprocessing.Queue` are not
modelled (a kill is taken to happen outside of them), nor is a second Ctrl-C
during the parent's clean-up.

## 3. What TLC checks

| run | what it shows |
|---|---|
| `fusion` | all modes in every order (pure PID also as -1 and 7), failures at every axis, ML commands and residuals that are NaN or infinite: `GateWindows`, `WindowsAligned`, `MlShareNeedsFullWindow`, `FusedIsFinite`, `AlarmSelectsMl`, `RecoveryEndsQuietly`, `DetectorNeverResets` |
| `schedule` | both schedules, parameter writes at any time, out-of-range scenario numbers: `LabelMatchesInjection`, `InjectionIsScheduled`, `BurstsSeparated`, `AxesAlternate`; under fairness `LabelKeepsCycling`, `DisableTakesEffect` |
| `flight` | `LandedWithinTimeout`, `SustainIsContinuous`, `FlownAsPlanned`; under fairness `Terminates` |
| `store_crash` | every mixture of plain reruns, `--resume`, `--append-missing`, re-analysis, Ctrl-C and kills over two attempts: `RootIsBacked`, `ResumeRepairs`, `SkippedHasResult`, `CompletedIsKept`, `AttemptsAreKept` |
| `manifest` | three invocations with different plans, one longer than the base plan, two rows in flight, two conditions with one stem, flights that end retryable or raise, Ctrl-C, kills at any step and inside `run_meta.json`: `RowsShareNoDirectory`, `AppendCompletesPlan`, `OneResultPerCondition`, `AppendKeepsResults` |
| `param_exchange` | two groups that set one parameter twice, and one with a value out of range, over an arbitrary link with a concurrent download: `ConfirmedIsSet`, the refinement `ImplementsGroups`; under fairness `GroupReturns` |
| `training` | up to four flights of 1 to 9 rows, two epochs, every shuffle and batch order: `EpochIsAllWindows` (against `make_lstm_windows`), `WindowsStayInFlight`, `ValidationUnseen`, `PredictionsMatchEndpoints` |
| `parallel_pool` | two workers, three rows, any kills and interrupts: `AllRowsFlown`, `NoSimulatorLeft`; under fairness `ParentGetsOut` |

### Disagreements between code and documentation

Each has a run that states what a comment, help text or report says; TLC shows
a behaviour of the code that contradicts it.

| run | what happens |
|---|---|
| `schedule_zero_doc` | with scenario 0 (disabled) the first call and every on window are labelled as attacked |
| `flight_success_doc` | a flight that ended by timeout, silence or exit of the simulator counts as a success if it was last seen low and near |
| `flight_attack_doc` | a deferred attack, "before AUTO" in the help of `--defer-attack-until-after-takeoff`, is applied after AUTO has been confirmed |
| `store_interrupt_doc` | no kill is needed: Ctrl-C inside the write of the root `analysis.json` makes the aggregation that the same invocation announces raise |

Others are plain from the code or the models and have no run:

* comments in POS name other channels than the code beside them biases:
  `AC_PosControl.cpp:1617` says "X/Y acceleration and X gyro" for IMU scenario 2,
  where line 1622 selects all six channels, and the comment of scenario 4 adds
  a medium acceleration to the yaw gyro, which is the only channel biased.
  `ImuTargets` is what the code does, and `InjectionIsScheduled` speaks of when
  biases are applied, not of which channels they reach;
* mode 2 entered while `recoveryMode` is left over from mode 1, 3 or 4 applies
  the ML command before any detector fired (`HardSwitch`);
* sign draws in every call move the generator from which the "deterministic"
  jitter of the next IMU cycle is taken;
* `--refresh-success` may combine the result of one attempt with the telemetry
  of another (`RefreshSource`).

Behaviours of the manifest that the properties leave room for, because nothing
says otherwise:

* a plain rerun with another plan takes over the directory of a condition with
  the same index and stem; `AppendCompletesPlan` and `OneResultPerCondition` say
  where this is excluded;
* a row that ended retryable, or whose `run_one` raised, is counted as done, so a
  pool that reports all rows may leave conditions without a result until the next
  `--append-missing`; `AppendCompletesPlan` excepts these rows, and `AllRowsFlown`
  of the pool says only that `run_one` came to an end for every row;
* a torn root `analysis.json` beside a completed attempt is repaired by `--resume`,
  but not by `--resume --append-missing`, which takes the run as completed;
  `ResumeRepairs` is about `--resume` alone;
* a run whose `run_meta.json` a kill left torn is invisible to the scan; with
  `--append-missing` its index may be given out again, to a directory of the
  same name only if the stems are equal, and a completed result in there may
  then be overwritten, or with `--resume` be taken for the new condition's.

A seed above 32767 is limited by the vehicle and never confirmed: the launch
group fails (`param_exchange` contains the case).

### Bounds, and why they are enough

* `SeqLen = 2`, `MaxFrames = 5`: a window fills, wraps, is cleared in the middle
  and refills over old rows; different axes may fail in different frames. The
  theorems hold for every `SeqLen` and `MaxFrames`.
* Detector: the same five frames reach orderings of raise, quiet, NaN and mode
  change on the accumulators. The frames of `MCFusionMonitor` contain a quiet one, one
  that crosses the threshold of roll when it comes twice, one with a NaN command in
  pitch and one with an infinite one.
* Schedules: windows of one or two ticks, calls and ticks interleaved freely,
  so a call may come at every phase of a window or miss a window completely.
  Scenario values contain disabled, alternating, two-axis and out-of-range ones
  (8 for GPS, -1 for IMU). The GPS seed may change too; the IMU seed only affects
  the generator and is fixed.
* Flight: all timeouts between 1 and 5 ticks with sustain periods shorter than
  the timeouts, and silence shorter than both, so that every timer can be the
  first to expire.
* Store: two attempts are the smallest number for which "latest" matters, and
  every skip decision looks at the root files and the latest completed attempt.
* Manifest: three conditions, two of them with one stem; three invocations are
  enough for a kill that tears a `run_meta.json`, an append that gives its index out
  again, and an append over both. The appended plans contain the base plan's
  condition and one or two others, so that `--append-missing` has conditions with
  and without a directory. `MaxIndex` is larger than the number of conditions; it
  stops an invocation only where two `run_meta.json` are torn below a readable third.
* Parameters: values 0 and 1, two tries (three in the code), two groups: an old
  value of the same parameter, the reply to a read request of an earlier try and
  a late second `PARAM_SET` all occur. The theorems hold for every number of
  tries, every plan and every range.
* Training: windows of three rows; a flight may be too short to be split, have
  no window in one part or in both (also between two that have), or up to four;
  numbers of windows that the batch size divides and does not divide. The limits
  of 20 and 200 rows are 2 and 3.
* Pool: two workers and three rows let one worker fly two rows while the other
  is interrupted or killed.

`CHECK_DEADLOCK FALSE` appears where the system stops: after `MaxFrames` or
`MaxInvocations`, at the end of a flight or of a training, when the parent is
out.

### Fairness

* `schedule`: weak fairness of `Run` (the navigation loop keeps calling the
  controller) and of `Clock` (CPU time passes while it does). Nothing is assumed
  of parameter writes.
* `flight`: weak fairness of the runner's `Step`: every `recv_match` has a
  timeout, so a loop iteration always ends. Nothing is assumed of the vehicle.
* `param_exchange`: weak fairness of `Send` and `Timeout`: `set_param` compares
  its own clock after every `recv_match`, each with a timeout. Nothing is assumed
  of the link or of the vehicle, which may be silent or never stop sending.
* `parallel_pool`: weak fairness of each worker's steps, of each feeder thread
  and of the parent: processes are scheduled, and a flight ends (`Terminates`).
  Interrupts and kills are not fair.

## 4. What is proved

### FusionMonitorProofs

Assumptions: `SeqLenAssumption`, `FusionAssumption`.

* `TypeCorrect`, `FusedFinite`: by the inductive invariant `SafeFrame`, type
  correctness with `FusedIsFinite`. Finiteness is a fact about the frame just
  computed, so the type invariant is the only strengthening needed; the case
  analysis is over the five modes.
* `RecoveryEnds`, `DetectorLatched`: action properties, mode by mode; the second
  from a lemma about the addition with NaN and infinity: at no value does a frame
  reset or lower an accumulator, and it becomes NaN only by a NaN residual.
* `AlarmSelects`: from the type invariant and `Recovery`.
* `GateSeesLastFrames`, `WarmUpIsPid`: these are not inductive, because a frame
  pushes one row and leaves `SeqLen - 1` rows whose contents the property says
  nothing about until the window is full. `RingInv` strengthens it: as long as a
  buffer is not full its write index equals its count (`FillsInOrder`), the rows
  written since the last reset are newer than that reset (`FreshRows`), and
  without failures they are consecutive frame numbers in ring order
  (`Consecutive`). Lemma `PushKeepsRing` carries the modular arithmetic,
  `ResetRestoresRing` the clearing that keeps the rows.
* `GateBuffersImplementWindows`: the refinement `Spec => Windows!Spec`. The
  lemmas `ContentsByAge`, `PushSlides` and `ClearEmpties` show that a push on the
  ring is `Slide` on its contents, for a filling and for a full buffer, and that
  `clear` empties it; `WindowStep` lifts this to the five modes.

### FalseDataScheduleProofs

Assumptions: `DurationAssumption`, `ScenarioAssumption`, `SeedAssumption`.

* `ScheduleInductive`: `Spec => []ScheduleInv`. `ScheduleInv` adds to the type
  invariant how flags, deadlines, configured scenario and targets, the parity of
  the cycle count and the last label and injection belong together. Without it
  none of the following is inductive: `LabelMatchesInjection` needs that a
  non-zero scenario has targets and that label and injection were computed from
  the schedule as it is now; `AxesAlternate` needs that the current targets are
  those of the previous parity.
* `ScheduleTypeCorrect`, `LabelIsGroundTruth`, `BiasIsScheduled` as invariants,
  `BurstsKeepAxes` and `AlternationHolds` as action properties, from it.

### ParamExchangeProofs

Assumption: `ExchangeAssumption`.

* `ExchangeInductive`: `Spec => []Inv`. `ConfirmedIsSet` is not inductive: a late
  message could set the parameter again, and a stale report could confirm what
  is not so. `Inv` adds that every `PARAM_SET` under way is one of the current
  group (`SetsAreCurrent`) and that every report or reply under way that would
  confirm an assignment of the group tells the truth (`ReportsAreTrue`). The
  second part is kept because the only value a parameter can change to within a
  group is the wanted one, and holds at the beginning of a group because nothing
  of the last one is under way.
* `ExchangeTypeCorrect`, `ConfirmedParametersAreSet` follow from it, and
  `ExchangeImplementsGroups`, the refinement `Spec => Groups!Spec`: the step that
  ends a group is `Applied` only because all its parameters are confirmed.

### FlightMonitorProofs

Assumption: `FlightAssumption` (the timeouts and sustain times are natural numbers,
in any order of size).

* `FlightInductive`: `Spec => []FlightInv`. `LandedWithinTimeout` says something
  only of a finished flight; `PlaceInv` carries what the runner has recorded at
  each of its places up to that step (no status and no gate before the end, the
  AUTO record in step with the place), `AttackInv` which attack is set there. `SustainInv` bounds the running sustain
  time by the time for which the condition has been reported.
* `LandingIsGenuine`, `AttackIsThatOfTheRow` as invariants; `SustainWithoutBreak` as
  an action property, from `SustainInv`.

### AttemptStoreProofs

Assumption: `StoreAssumption` (any command lines, any bound on attempts).

* `StoreInductive`: `Spec => []StoreInv`. `RootIsBacked` is not inductive: the root
  analysis is written last, from a result that was put into the attempt several
  steps, and several chances of a kill, earlier. `AttemptInv` says what the files
  of the attempt under way hold at each place of `Following`; `RootInv` that the
  root analysis is about an attempt that exists; `RerunInv` that a resumed run is
  only flown without a completed root analysis.
* `RootAlwaysBacked` and `ResumeAlwaysRepairs` as invariants; `SkipNeedsResult`,
  `CompletedAlwaysKept` and `AttemptsAlwaysKept` as action properties.

### ParallelRunnerProofs

Assumption: `PoolAssumption` (a finite, non-empty set of workers, at least one row).

* `PoolInductive`: `Spec => []PoolInv`. `AllRowsFlown` compares a counter with a set:
  `completed = NTasks` proves that every row has ended only if no row is counted
  twice. A row is therefore followed from the task queue to the parent: with one
  worker at most (`RowsTakenOnce`), then in at most one message of all queues and
  not counted yet (`RowsReportedOnce`), then in `collected`, whose size is
  `completed` (`CompletedIsExact`). `DoneOnce` does the same for `worker_done`
  messages, which carry no name in the model: there is an assignment of the
  messages to senders and a set of counted workers without an overlap.
  `SimulatorInv` ties a simulator to a flight and the parent's way out to the
  workers that may still fly.
* `CountersStayInRange`, `NoRowIsMissed`, `NoSimulatorSurvives` follow.

### ManifestProofs

Assumption: `ManifestAssumption`; in particular `Stem` is any function, also one that
gives all conditions the same name, and `jobs` any number.

* `ManifestInductive`: `Spec => []ManifestInv`. No two rows share a directory
  because fresh indices are above all indices the scan saw and differ from row to
  row, and a row of an incomplete run goes to the directory of that run alone, whose
  condition no other row has. What has to be kept is which directories rows in
  flight own (`RowsInv`), that directories are named after index and stem
  (`DirsInv`), that no row which has yet to start is aimed at a result the scan saw
  (`StartInv`), and, as long as there were no plain reruns, that the scan sees
  every result (`OnceInv`). `PlanInv` gives every
  condition of the plan a row or a result out of reach of the rows. A row that ended
  retryable or raised keeps its condition excepted. `ManifestAdvance` is the common
  part of the steps that move a row on, `AggregateFacts` says that `aggregate_analysis`
  takes no result away.
* `NoSharedDirectory`, `NoSecondResult`, `AppendLeavesNothing` as invariants,
  `AppendTakesNoResult` as an action property.
* The rows of an append are built recursively (`RowsAt`). `RowsAtFacts` says what
  the recursion returns for a plan of any length, by induction (see below).

### TrainingWindowsProofs

Assumption: `TrainingAssumption` (any number and length of flights, window length of
at least 2, any batch size, any split between 0 and 1).

* `CumsumFacts`, `CumsumLocate`: a cumulative sum does not fall, and every number up
  to the total belongs to exactly one count. `FlattenFacts`, `FlattenOrigin`: which
  element of which sequence is at a place of a flattened sequence. From them
  `SampleFacts` and `WindowPlace`: the group that `searchsorted` finds for a number
  and the start within it are right, also after flights without a window;
  `WindowsFlat` and `EndpointsFlat`: the windows by number are those of
  `make_lstm_windows`, and their last rows those of `endpoints`, in order.
* `BatchFacts`: the batches that `__len__` counts cover every place of the order,
  share none, and none is empty. `CountBagUnion`, `CountBagMove`: bags of the values
  of a function over disjoint sets of places add up, and stay the same under a
  renaming of the places. `ShuffleFacts`: a shuffle is a permutation.
* `TrainingInductive`: `Spec => []WindowsInv`. `EpochIsAllWindows` speaks of the end
  of an epoch only; `FitInv` says it in the middle: the fitted samples are the
  windows at the places of the order outside the batches still to be fetched.
  `PredictInv` is the same for predictions, which are the windows of a number of
  whole batches, in order, and `SequenceInv` says that the order stays a
  permutation (the identity without shuffling) of the windows of groups of
  consecutive rows. `UnseenInv` keeps the rows of both parts apart.
* `EveryEpochIsComplete`, `NoMixedWindow`, `NoLeak`, `PredictionsLineUp` follow.

### Induction over data

The induction theorems of the library take an operator as a parameter, which the
provers cannot instantiate. The proofs about the recursive functions `cumsum`,
`FlattenSeq` and `RowsAt` use sets instead: `LeastNatural` gets the least element
of a non-empty set of naturals from `WFMin` and `NatLessThanWellFounded`, and
`NatSetInduction` is induction for membership in a set. That a recursive definition
has a solution at all is a lemma of its own (`SumExists`, `FlattenExists`). For this
the models avoid operators that the prover cannot expand: `Manifest` and
`TrainingWindows` select from sequences by recursion and by flattening sequences of
length 0 or 1 rather than with `SelectSeq`.

The inductive invariants were checked by TLC on the instances of the runs before
they were proved.

### Only model-checked

Liveness (`LabelKeepsCycling`, `DisableTakesEffect`, `Terminates`,
`GroupReturns`, `ParentGetsOut`) is outside what the installed prover supports, and
so is ENABLED. Every invariant and every action property of the runs that pass, and
both refinements, are proved.

## 5. Not modelled

* The control law behind the injected position, the ML networks, and all of
  upstream ArduPilot: numerical code, or not this project's.
* Metrics, plots, reports, log copying and the build: no state, no concurrency.
* Training apart from the windows: unit conversion, interpolation and targets
  are arithmetic over CSV columns, and the rest is command lines and files. The
  MLP architecture trains on single rows. Rows are filtered before windows are
  cut, so a training window may skip frames that a window in flight holds; the
  model begins after the filter.
* IMU biases that stay in the simulator's parameters when the flight mode stops
  calling `run_xy_controller` in the middle of a burst: this needs the scheduler of
  the flight modes, which is upstream code.
* CPU time against wall time: the start delay and the windows of the schedules
  use `clock()` with two different scales. Durations are parameters here.
* Two runners on one output directory.

## 6. Plan

1. Fusion monitor with the refinement to sliding windows, TLC and proofs (done).
2. False-data schedules, TLC and proofs (done).
3. Result files with crashes; one flight; the parallel pool, TLC (done).
4. Parameter exchange, composed with `FlightMonitor`'s single-step groups through
   `ParamGroups`, TLC and proofs (done).
5. Manifest: indices, condition keys, torn `run_meta.json`, concurrent rows, TLC
   (done).
6. Windows of the LSTM gates in training, TLC (done).
7. Proofs of the invariants and action properties of `FlightMonitor`,
   `AttemptStore`, `ParallelRunner`, `Manifest` and `TrainingWindows` (done).
8. The safety part of the liveness properties: that no reachable state of the pool
   with a waiting parent is without a step that gets it further, measures that
   every step of the runner and the parent lowers, and that a flight's groups of
   parameters are steps of `ParamGroups`.
