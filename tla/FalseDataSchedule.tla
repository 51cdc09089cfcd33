--------------------------- MODULE FalseDataSchedule ---------------------------
(***************************************************************************)
(* The false-data schedules of AC_PosControl: the GPS position offset that *)
(* run_xy_controller adds to the measured position, with the label it      *)
(* hands to the attitude controller, and the IMU bias it leaves in the     *)
(* simulator's parameters.  Both schedules are driven by calls of          *)
(* run_xy_controller and by the process's CPU clock.                       *)
(*                                                                         *)
(* A deadline of the code (tStart + 5 s, tAttack, tNoAttack and the IMU    *)
(* twins) is represented by the time left until it, -1 once it is past:    *)
(* the code only compares deadlines with the clock.  The clock does not    *)
(* move during one call of run_xy_controller.  The table's amplitudes are  *)
(* left out; durations are the table's value plus jitter: any duration.    *)
(***************************************************************************)
EXTENDS Integers

CONSTANTS
    Durations,    \* lengths of an on or off window, in clock ticks
    MinDuration,  \* the MAX(0.5f, ...) of the timer starts
    Delay,        \* the 5 s before the first injection
    GpsScenarios, GpsSeeds,   \* values written to SITL's gps_atk_* parameters
    ImuScenarios, ImuSeeds    \* and to its imu_atk_* parameters

ASSUME DurationAssumption ==
    /\ Durations \subseteq Nat \ {0}
    /\ MinDuration \in Nat \ {0}
    /\ Delay \in Nat

\* Scenarios are AP_Int8, seeds AP_Int16; all four default to 0.
ASSUME ScenarioAssumption ==
    /\ \A v \in GpsScenarios \cup ImuScenarios : v \in Int /\ -128 <= v /\ v <= 127
    /\ 0 \in GpsScenarios /\ 0 \in ImuScenarios

ASSUME SeedAssumption ==
    /\ \A v \in GpsSeeds \cup ImuSeeds : v \in Int /\ -32768 <= v /\ v <= 32767
    /\ 0 \in GpsSeeds /\ 0 \in ImuSeeds

VARIABLES
    gps_atk_scenario, gps_atk_seed, imu_atk_scenario, imu_atk_seed,
    startLeft,    \* time to the end of the start delay; Delay before the start
    initTimer,
    gps, imu,     \* the two schedules
    flag,         \* the GPS label of the last call
    injected,     \* axes on which the last call offset the position
    imuAttack,    \* channels with a non-zero sitl->imu_*_attack_* bias
    handover      \* what setControlXY left in the attitude controller

params == <<gps_atk_scenario, gps_atk_seed, imu_atk_scenario, imu_atk_seed>>
vars == <<params, startLeft, initTimer, gps, imu, flag, injected, imuAttack,
          handover>>

PosAxes == {"x", "y"}
ImuChannels == {"accel_x", "accel_y", "accel_z", "gyro_x", "gyro_y", "gyro_z"}
Left == Nat \cup {-1}

\* A schedule: initAttackTime, initNoAttackTime, the two deadlines, the off
\* duration, the configured targets and scenario, the cycle count (only its
\* parity is used) and the applied seed.
Schedule(targets, seeds) ==
    [started : BOOLEAN, offStarted : BOOLEAN, onLeft : Left, offLeft : Left,
     off : Nat, targets : SUBSET targets, scenario : 0 .. 7, odd : BOOLEAN,
     seed : seeds]

-------------------------------------------------------------------------------
(* The cycle configurations.                                               *)

\* Mutant: no lower bound.
constrain_NoLowerBound(v) == IF v > 7 THEN 7 ELSE v

constrain(v) == IF v < 0 THEN 0 ELSE IF v > 7 THEN 7 ELSE v

\* axis_mode of scenarios 1 to 7: 0 is x, 2 is both, 3 alternates.
GpsAxisMode == <<0, 0, 3, 2, 3, 2, 3>>

\* Mutant: scenario 0 returns without clearing the axes.
GpsTargets_KeepOnDisable(scenario, odd) ==
    IF scenario = 0 THEN {"x"}
    ELSE CASE GpsAxisMode[scenario] = 0 -> {"x"}
           [] GpsAxisMode[scenario] = 2 -> PosAxes
           [] GpsAxisMode[scenario] = 3 -> IF odd THEN {"y"} ELSE {"x"}

GpsTargets(scenario, odd) ==
    IF scenario = 0 THEN {}
    ELSE CASE GpsAxisMode[scenario] = 0 -> {"x"}
           [] GpsAxisMode[scenario] = 2 -> PosAxes
           [] GpsAxisMode[scenario] = 3 -> IF odd THEN {"y"} ELSE {"x"}

\* Mutant: scenario 0 leaves the amplitudes at their defaults.
ImuTargets_DefaultAmplitude(scenario) ==
    IF scenario \in {0, 1} THEN {"accel_x"}
    ELSE IF scenario = 4 THEN {"gyro_z"} ELSE ImuChannels

\* Scenario 0 keeps axis mode 0 with zero amplitude, 1 is accel_x, 4 is the
\* yaw gyro, all others use every channel.  This is what the axis modes do; the
\* comments beside them name other channels for 2 (X/Y acceleration and X gyro)
\* and for 4 (medium acceleration too).
ImuTargets(scenario) ==
    CASE scenario = 0 -> {}
      [] scenario = 1 -> {"accel_x"}
      [] scenario = 4 -> {"gyro_z"}
      [] OTHER -> ImuChannels

AtLeast(d) == IF d < MinDuration THEN MinDuration ELSE d

\* Mutant: the cycle is not counted.
configureAttackCycle_NotCounted(on, off) ==
    LET scenario == constrain(gps_atk_scenario)
        reseed   == scenario # 0 /\ gps_atk_seed # gps.seed
        odd      == IF reseed THEN FALSE ELSE gps.odd
    IN  [started    |-> TRUE,
         offStarted |-> FALSE,
         onLeft     |-> IF scenario = 0 THEN MinDuration ELSE AtLeast(on),
         offLeft    |-> gps.offLeft,
         off        |-> IF scenario = 0 THEN MinDuration ELSE AtLeast(off),
         targets    |-> GpsTargets(scenario, odd),
         scenario   |-> scenario,
         odd        |-> odd,
         seed       |-> IF reseed THEN gps_atk_seed ELSE gps.seed]

\* Mutant: initNoAttackTime is not reset when a cycle starts.
configureAttackCycle_OffKept(on, off) ==
    LET scenario == constrain(gps_atk_scenario)
        reseed   == scenario # 0 /\ gps_atk_seed # gps.seed
        odd      == IF reseed THEN FALSE ELSE gps.odd
    IN  [started    |-> TRUE,
         offStarted |-> gps.offStarted,
         onLeft     |-> IF scenario = 0 THEN MinDuration ELSE AtLeast(on),
         offLeft    |-> gps.offLeft,
         off        |-> IF scenario = 0 THEN MinDuration ELSE AtLeast(off),
         targets    |-> GpsTargets(scenario, odd),
         scenario   |-> scenario,
         odd        |-> IF scenario = 0 THEN gps.odd ELSE ~odd,
         seed       |-> IF reseed THEN gps_atk_seed ELSE gps.seed]

\* configureAttackCycle then initAttackTimer.  Scenario 0 returns before the
\* seed check and the cycle count, with both durations 0.
configureAttackCycle(on, off) ==
    LET scenario == constrain(gps_atk_scenario)
        reseed   == scenario # 0 /\ gps_atk_seed # gps.seed
        odd      == IF reseed THEN FALSE ELSE gps.odd
    IN  [started    |-> TRUE,
         offStarted |-> FALSE,
         onLeft     |-> IF scenario = 0 THEN MinDuration ELSE AtLeast(on),
         offLeft    |-> gps.offLeft,
         off        |-> IF scenario = 0 THEN MinDuration ELSE AtLeast(off),
         targets    |-> GpsTargets(scenario, odd),
         scenario   |-> scenario,
         odd        |-> IF scenario = 0 THEN gps.odd ELSE ~odd,
         seed       |-> IF reseed THEN gps_atk_seed ELSE gps.seed]

\* configureIMUAttackCycle then initIMUAttackTimer: the seed check comes first
\* and every cycle is counted.
configureIMUAttackCycle(on, off) ==
    LET scenario == constrain(imu_atk_scenario)
        odd      == IF imu_atk_seed # imu.seed THEN FALSE ELSE imu.odd
    IN  [started    |-> TRUE,
         offStarted |-> FALSE,
         onLeft     |-> AtLeast(on),
         offLeft    |-> imu.offLeft,
         off        |-> AtLeast(off),
         targets    |-> ImuTargets(scenario),
         scenario   |-> scenario,
         odd        |-> ~odd,
         seed       |-> imu_atk_seed]

-------------------------------------------------------------------------------
(* checkAttackTimer, checkNoAttackTimer and their IMU twins.               *)

\* A new cycle is configured at the first call and when an off window is over.
CycleDue(c) == ~c.started \/ (c.onLeft < 0 /\ c.offStarted /\ c.offLeft < 0)

InOnWindow(c) == c.started /\ c.onLeft >= 0

InOffWindow(c) == c.started /\ c.onLeft < 0 /\ ~(c.offStarted /\ c.offLeft < 0)

\* The schedule with its configuration kept and its timers replaced.
WithTimers(c, offStarted, onLeft, offLeft) ==
    [started |-> c.started, offStarted |-> offStarted, onLeft |-> onLeft,
     offLeft |-> offLeft, off |-> c.off, targets |-> c.targets,
     scenario |-> c.scenario, odd |-> c.odd, seed |-> c.seed]

\* Mutant: every call of the off window restarts its timer.
OffStep_Restart(c) == WithTimers(c, TRUE, c.onLeft, c.off)

\* The first call after the on window starts the off window.
OffStep(c) ==
    WithTimers(c, TRUE, c.onLeft, IF c.offStarted THEN c.offLeft ELSE c.off)

checkAttackTimer ==
    \/ /\ CycleDue(gps)
       /\ \E on, off \in Durations : gps' = configureAttackCycle(on, off)
       /\ flag' = 1
    \/ /\ InOnWindow(gps)
       /\ gps' = gps
       /\ flag' = 1
    \/ /\ InOffWindow(gps)
       /\ gps' = OffStep(gps)
       /\ flag' = 0

\* updateIMUAttackValues once the start delay is over; the signs it draws for
\* every call inside an on window do not matter here.
updateIMUAttackValues ==
    \/ /\ CycleDue(imu)
       /\ \E on, off \in Durations : imu' = configureIMUAttackCycle(on, off)
       /\ imuAttack' = imu'.targets
    \/ /\ InOnWindow(imu)
       /\ imu' = imu
       /\ imuAttack' = imu.targets
    \/ /\ InOffWindow(imu)
       /\ imu' = OffStep(imu)
       /\ imuAttack' = {}

-------------------------------------------------------------------------------
(* Actions.                                                                *)

\* run_xy_controller before the end of the start delay: no injection.
run_xy_controller_Waiting ==
    /\ startLeft >= 0
    /\ initTimer' = TRUE
    /\ imuAttack' = {}
    /\ injected' = {}
    /\ handover' = [label |-> flag, offset |-> {}]
    /\ UNCHANGED <<params, startLeft, gps, imu, flag>>

\* Mutant: setControlXY is called with the label of the previous call.
run_xy_controller_OldLabel ==
    /\ startLeft < 0
    /\ updateIMUAttackValues
    /\ checkAttackTimer
    /\ injected' = IF flag' = 1 THEN gps'.targets ELSE {}
    /\ handover' = [label |-> flag, offset |-> injected']
    /\ UNCHANGED <<params, startLeft, initTimer>>

\* run_xy_controller after it: the IMU schedule, then the GPS schedule, then
\* setControlXY with the offset position and the label.
run_xy_controller ==
    /\ startLeft < 0
    /\ updateIMUAttackValues
    /\ checkAttackTimer
    /\ injected' = IF flag' = 1 THEN gps'.targets ELSE {}
    /\ handover' = [label |-> flag', offset |-> injected']
    /\ UNCHANGED <<params, startLeft, initTimer>>

Run == run_xy_controller_Waiting \/ run_xy_controller

\* The CPU clock advances; deadlines that are set come nearer.
Elapse(left) == IF left < 0 THEN left ELSE left - 1

ElapseAll(c) ==
    WithTimers(c, c.offStarted, Elapse(c.onLeft), Elapse(c.offLeft))

Clock ==
    /\ initTimer
    /\ startLeft' = Elapse(startLeft)
    /\ gps' = ElapseAll(gps)
    /\ imu' = ElapseAll(imu)
    /\ UNCHANGED <<params, initTimer, flag, injected, imuAttack, handover>>

\* The ground station writes one of the four parameters.
SetGpsParam ==
    /\ \/ gps_atk_scenario' \in GpsScenarios /\ UNCHANGED gps_atk_seed
       \/ gps_atk_seed' \in GpsSeeds /\ UNCHANGED gps_atk_scenario
    /\ UNCHANGED <<imu_atk_scenario, imu_atk_seed, startLeft, initTimer, gps,
                   imu, flag, injected, imuAttack, handover>>

SetImuParam ==
    /\ \/ imu_atk_scenario' \in ImuScenarios /\ UNCHANGED imu_atk_seed
       \/ imu_atk_seed' \in ImuSeeds /\ UNCHANGED imu_atk_scenario
    /\ UNCHANGED <<gps_atk_scenario, gps_atk_seed, startLeft, initTimer, gps,
                   imu, flag, injected, imuAttack, handover>>

NewSchedule(off, targets) ==
    [started |-> FALSE, offStarted |-> FALSE, onLeft |-> -1, offLeft |-> -1,
     off |-> off, targets |-> targets, scenario |-> 0, odd |-> FALSE,
     seed |-> 0]

Init ==
    /\ gps_atk_scenario = 0 /\ imu_atk_scenario = 0
    /\ gps_atk_seed = 0 /\ imu_atk_seed = 0
    /\ startLeft = Delay /\ initTimer = FALSE
    /\ gps = NewSchedule(MinDuration, {"x"})
    /\ imu = NewSchedule(MinDuration, {})
    /\ flag = 0 /\ injected = {} /\ imuAttack = {}
    /\ handover = [label |-> 0, offset |-> {}]

Next == Run \/ Clock \/ SetGpsParam \/ SetImuParam

Spec == Init /\ [][Next]_vars

\* The navigation loop keeps calling the controller, and CPU time passes.
FairSpec == Spec /\ WF_vars(Run) /\ WF_vars(Clock)
-------------------------------------------------------------------------------
(* Properties.                                                             *)

(* Type correctness: the counters and targets of both schedules, the label  *)
(* and the biases stay in range whatever parameters the ground station      *)
(* writes, out-of-range scenario numbers included.                          *)
TypeOK ==
    /\ gps_atk_scenario \in GpsScenarios /\ gps_atk_seed \in GpsSeeds
    /\ imu_atk_scenario \in ImuScenarios /\ imu_atk_seed \in ImuSeeds
    /\ startLeft \in Left
    /\ initTimer \in BOOLEAN
    /\ gps \in Schedule(PosAxes, GpsSeeds)
    /\ imu \in Schedule(ImuChannels, ImuSeeds)
    /\ flag \in {0, 1}
    /\ injected \in SUBSET PosAxes
    /\ imuAttack \in SUBSET ImuChannels
    /\ handover \in [label : {0, 1}, offset : SUBSET PosAxes]

(* While a GPS scenario is running, the label handed to the attitude        *)
(* controller (setControlXY's last argument, the ground truth of every      *)
(* logged frame) is 1 exactly when the position handed over in the same     *)
(* call is offset.                                                          *)
LabelMatchesInjection ==
    gps.scenario # 0 => (handover.label = 1 <=> handover.offset # {})

(* No bias reaches the position or the IMU before the start delay of        *)
(* checkTimer is over, in an off window, or while the running cycle was     *)
(* configured with scenario 0.                                              *)
InjectionIsScheduled ==
    /\ injected # {} => startLeft < 0 /\ ~gps.offStarted /\ gps.scenario # 0
    /\ imuAttack # {} => startLeft < 0 /\ ~imu.offStarted /\ imu.scenario # 0

(* A burst keeps the axes it started with: a parameter written during the   *)
(* burst, or a cycle that follows, changes them only after a call with      *)
(* label 0 (checkNoAttackTimer clears initNoAttackTime with each cycle).    *)
BurstsSeparated ==
    [][flag = 1 /\ flag' = 1 => injected' = injected]_vars

(* Consecutive bursts of an alternating scenario hit different axes unless  *)
(* the seed changed between them (resetAttackSeedIfNeeded restarts the      *)
(* count).                                                                  *)
AxesAlternate ==
    [][/\ flag = 0 /\ flag' = 1 /\ gps.started
       /\ gps.scenario # 0 /\ gps'.scenario # 0 /\ gps'.seed = gps.seed
       /\ GpsAxisMode[gps.scenario] = 3 /\ GpsAxisMode[gps'.scenario] = 3
       => gps'.targets \cap gps.targets = {}]_vars

(* As long as the controller is called and CPU time passes, the schedule    *)
(* never gets stuck in a window: labelled and unlabelled calls both recur.  *)
LabelKeepsCycling == []<>(flag = 0) /\ []<>(flag = 1)

(* Writing 0 (or a negative scenario) for good stops both injections for    *)
(* good, although the parameters are only read when a cycle is configured.  *)
DisableTakesEffect ==
    /\ <>[](gps_atk_scenario <= 0) => <>[](injected = {})
    /\ <>[](imu_atk_scenario <= 0) => <>[](imuAttack = {})

(* What the comments say of scenario 0, "Scenario 0 means no GPS attack"    *)
(* (configureAttackCycle) and "0: disabled" (SITL.h): no call of a          *)
(* schedule configured with it is labelled as an attack.                    *)
ScenarioZeroUnlabelled == gps.started /\ gps.scenario = 0 => flag = 0
===============================================================================
