------------------------ MODULE FalseDataScheduleProofs ------------------------
(***************************************************************************)
(* Proofs about the false-data schedules, for every set of durations,      *)
(* scenarios and seeds.                                                    *)
(***************************************************************************)
EXTENDS FalseDataSchedule, TLAPS

(* The scenario number used for a cycle is one of the table's.              *)
LEMMA ConstrainRange == \A v \in Int : constrain(v) \in 0 .. 7
  BY DEF constrain

(* A configured GPS cycle has targets exactly when its scenario is not 0.   *)
LEMMA TargetsOfScenario ==
  ASSUME NEW scenario \in 0 .. 7, NEW odd \in BOOLEAN
  PROVE  /\ GpsTargets(scenario, odd) \in SUBSET PosAxes
         /\ GpsTargets(scenario, odd) = {} <=> scenario = 0
  <1>1. CASE scenario = 0
    BY <1>1 DEF GpsTargets
  <1>2. CASE scenario # 0
    <2>1. scenario \in 1 .. 7
      BY <1>2
    <2>2. GpsAxisMode[scenario] \in {0, 2, 3}
      BY <2>1 DEF GpsAxisMode
    <2>3. CASE GpsAxisMode[scenario] = 0
      BY <1>2, <2>3 DEF GpsTargets, PosAxes
    <2>4. CASE GpsAxisMode[scenario] = 2
      BY <1>2, <2>4 DEF GpsTargets, PosAxes
    <2>5. CASE GpsAxisMode[scenario] = 3
      BY <1>2, <2>5 DEF GpsTargets, PosAxes
    <2> QED
      BY <2>2, <2>3, <2>4, <2>5
  <1> QED
    BY <1>1, <1>2

(* Configured durations are clock ticks.                                    *)
LEMMA AtLeastNat == \A d \in Durations : AtLeast(d) \in Nat
  <1>1. MinDuration \in Nat /\ \A d \in Durations : d \in Nat
    BY DurationAssumption
  <1> QED
    BY <1>1 DEF AtLeast

(* An off step and the clock keep a schedule's configuration.               *)
LEMMA OffStepKeeps ==
  ASSUME NEW T, NEW S, NEW c \in Schedule(T, S)
  PROVE  /\ OffStep(c) \in Schedule(T, S)
         /\ OffStep(c).offStarted = TRUE
         /\ OffStep(c).started = c.started
         /\ OffStep(c).targets = c.targets
         /\ OffStep(c).scenario = c.scenario
         /\ OffStep(c).odd = c.odd
         /\ OffStep(c).onLeft = c.onLeft
  BY DEF OffStep, WithTimers, Schedule, Left

(* The clock keeps a schedule's configuration and moves its deadlines only. *)
LEMMA ElapseKeeps ==
  ASSUME NEW T, NEW S, NEW c \in Schedule(T, S)
  PROVE  /\ ElapseAll(c) \in Schedule(T, S)
         /\ ElapseAll(c).offStarted = c.offStarted
         /\ ElapseAll(c).started = c.started
         /\ ElapseAll(c).targets = c.targets
         /\ ElapseAll(c).scenario = c.scenario
         /\ ElapseAll(c).odd = c.odd
         /\ c.onLeft < 0 => ElapseAll(c).onLeft < 0
  BY DEF ElapseAll, WithTimers, Elapse, Schedule, Left

(* What the code reads of the parameters.                                   *)
LEMMA ParametersAreInt ==
  /\ GpsScenarios \subseteq Int /\ ImuScenarios \subseteq Int
  /\ 0 \in GpsScenarios /\ 0 \in ImuScenarios
  /\ 0 \in GpsSeeds /\ 0 \in ImuSeeds
<1>1. GpsScenarios \subseteq Int /\ ImuScenarios \subseteq Int
  BY ScenarioAssumption
<1>2. QED
  BY <1>1, ScenarioAssumption, SeedAssumption

-------------------------------------------------------------------------------
(* The inductive invariant.  The label and the off-window flag of the GPS   *)
(* schedule are two encodings of the same state, the handover is a copy of  *)
(* it, and a cycle's axis can be read back from the cycle count.            *)

Alternating(scenario) == scenario # 0 /\ GpsAxisMode[scenario] = 3

DelayFirst == startLeft >= 0 => ~gps.started /\ ~imu.started

LabelIsWindow ==
  /\ flag = 1 <=> gps.started /\ ~gps.offStarted
  /\ injected = IF flag = 1 THEN gps.targets ELSE {}
  /\ handover = [label |-> flag, offset |-> injected]

TargetsConfigured ==
  /\ ~gps.started => gps.scenario = 0
  /\ gps.started => (gps.targets = {} <=> gps.scenario = 0)
  /\ Alternating(gps.scenario) =>
        gps.targets = IF gps.odd THEN {"x"} ELSE {"y"}

WindowOrder ==
  /\ gps.offStarted => gps.onLeft < 0
  /\ imu.offStarted => imu.onLeft < 0

BiasIsWindow ==
  /\ imuAttack = IF imu.started /\ ~imu.offStarted THEN imu.targets ELSE {}
  /\ imu.targets # {} => imu.scenario # 0

ScheduleInv ==
  /\ TypeOK /\ DelayFirst /\ LabelIsWindow /\ TargetsConfigured
  /\ WindowOrder /\ BiasIsWindow

(* A cycle of the GPS schedule starts labelled, with targets that agree     *)
(* with its scenario and with the new cycle count.                          *)
LEMMA ConfigureGps ==
  ASSUME TypeOK, NEW on \in Durations, NEW off \in Durations,
         NEW c, c = configureAttackCycle(on, off)
  PROVE  /\ c \in Schedule(PosAxes, GpsSeeds)
         /\ c.started /\ ~c.offStarted
         /\ c.targets = {} <=> c.scenario = 0
         /\ Alternating(c.scenario) => c.targets = IF c.odd THEN {"x"} ELSE {"y"}
         /\ c.seed = gps.seed /\ Alternating(c.scenario) => c.odd = ~gps.odd
  <1> DEFINE scenario == constrain(gps_atk_scenario)
  <1> DEFINE reseed == scenario # 0 /\ gps_atk_seed # gps.seed
  <1> DEFINE odd == IF reseed THEN FALSE ELSE gps.odd
  <1>1. scenario \in 0 .. 7
    BY ConstrainRange, ParametersAreInt DEF TypeOK
  <1>2. /\ gps \in Schedule(PosAxes, GpsSeeds) /\ gps.odd \in BOOLEAN
        /\ gps.seed \in GpsSeeds /\ gps.offLeft \in Left
        /\ gps_atk_seed \in GpsSeeds
    BY DEF TypeOK, Schedule
  <1>3. odd \in BOOLEAN
    BY <1>2
  <1>4. /\ GpsTargets(scenario, odd) \in SUBSET PosAxes
        /\ GpsTargets(scenario, odd) = {} <=> scenario = 0
    BY <1>1, <1>3, TargetsOfScenario
  <1>5. /\ c.started = TRUE /\ c.offStarted = FALSE
        /\ c.onLeft = (IF scenario = 0 THEN MinDuration ELSE AtLeast(on))
        /\ c.offLeft = gps.offLeft
        /\ c.off = (IF scenario = 0 THEN MinDuration ELSE AtLeast(off))
        /\ c.targets = GpsTargets(scenario, odd)
        /\ c.scenario = scenario
        /\ c.odd = (IF scenario = 0 THEN gps.odd ELSE ~odd)
        /\ c.seed = (IF reseed THEN gps_atk_seed ELSE gps.seed)
    BY DEF configureAttackCycle
  <1>6. MinDuration \in Left /\ MinDuration \in Nat
        /\ AtLeast(on) \in Left /\ AtLeast(on) \in Nat
        /\ AtLeast(off) \in Left /\ AtLeast(off) \in Nat
    BY AtLeastNat, DurationAssumption DEF Left
  <1>7. c \in Schedule(PosAxes, GpsSeeds)
    <2>1. c = [started |-> c.started, offStarted |-> c.offStarted,
               onLeft |-> c.onLeft, offLeft |-> c.offLeft, off |-> c.off,
               targets |-> c.targets, scenario |-> c.scenario,
               odd |-> c.odd, seed |-> c.seed]
      BY DEF configureAttackCycle
    <2>2. c.onLeft \in Left /\ c.offLeft \in Left /\ c.off \in Nat
      BY <1>2, <1>5, <1>6
    <2>3. c.targets \in SUBSET PosAxes /\ c.scenario \in 0 .. 7
      BY <1>1, <1>4, <1>5
    <2>4. c.odd \in BOOLEAN /\ c.seed \in GpsSeeds
      BY <1>2, <1>3, <1>5
    <2> QED
      BY <2>1, <2>2, <2>3, <2>4, <1>5 DEF Schedule
  <1>8. Alternating(c.scenario) => c.targets = IF c.odd THEN {"x"} ELSE {"y"}
    <2>1. SUFFICES ASSUME Alternating(scenario)
                   PROVE  c.targets = IF c.odd THEN {"x"} ELSE {"y"}
      BY <1>5
    <2>2. scenario # 0 /\ GpsAxisMode[scenario] = 3
      BY <2>1 DEF Alternating
    <2>3. GpsTargets(scenario, odd) = IF odd THEN {"y"} ELSE {"x"}
      BY <2>2 DEF GpsTargets
    <2> QED
      BY <1>3, <1>5, <2>2, <2>3
  <1>9. c.seed = gps.seed /\ Alternating(c.scenario) => c.odd = ~gps.odd
    <2>1. SUFFICES ASSUME c.seed = gps.seed, scenario # 0
                   PROVE  c.odd = ~gps.odd
      BY <1>5 DEF Alternating
    <2>2. ~reseed
      BY <2>1, <1>5
    <2> QED
      BY <2>1, <2>2, <1>5
  <1> HIDE DEF scenario, reseed, odd
  <1> QED
    BY <1>4, <1>5, <1>7, <1>8, <1>9

(* A cycle of the IMU schedule has targets only if it is enabled.           *)
LEMMA ConfigureImu ==
  ASSUME TypeOK, NEW on \in Durations, NEW off \in Durations,
         NEW c, c = configureIMUAttackCycle(on, off)
  PROVE  /\ c \in Schedule(ImuChannels, ImuSeeds)
         /\ c.started /\ ~c.offStarted
         /\ c.targets # {} => c.scenario # 0
  <1> DEFINE scenario == constrain(imu_atk_scenario)
  <1>1. scenario \in 0 .. 7
    BY ConstrainRange, ParametersAreInt DEF TypeOK
  <1>2. imu.odd \in BOOLEAN /\ imu.offLeft \in Left /\ imu_atk_seed \in ImuSeeds
    BY DEF TypeOK, Schedule
  <1>3. ImuTargets(scenario) \in SUBSET ImuChannels
    BY DEF ImuTargets, ImuChannels
  <1>4. ImuTargets(scenario) # {} => scenario # 0
    BY DEF ImuTargets
  <1>5. /\ AtLeast(on) \in Left /\ AtLeast(off) \in Nat
    BY AtLeastNat DEF Left
  <1>6. /\ c.started = TRUE /\ c.offStarted = FALSE
        /\ c.targets = ImuTargets(scenario) /\ c.scenario = scenario
    BY DEF configureIMUAttackCycle
  <1>7. c \in Schedule(ImuChannels, ImuSeeds)
    BY <1>1, <1>2, <1>3, <1>5 DEF configureIMUAttackCycle, Schedule
  <1> QED
    BY <1>4, <1>6, <1>7

-------------------------------------------------------------------------------
(* The invariant holds before the first call of run_xy_controller.          *)
LEMMA InitSchedule == Init => ScheduleInv
  <1> SUFFICES ASSUME Init PROVE ScheduleInv
    OBVIOUS
  <1>1. /\ gps = NewSchedule(MinDuration, {"x"})
        /\ imu = NewSchedule(MinDuration, {})
        /\ MinDuration \in Nat
    BY DurationAssumption DEF Init
  <1>2. gps \in Schedule(PosAxes, GpsSeeds) /\ imu \in Schedule(ImuChannels, ImuSeeds)
    BY <1>1, ParametersAreInt DEF NewSchedule, Schedule, Left, PosAxes
  <1>3. /\ gps.started = FALSE /\ gps.offStarted = FALSE /\ gps.scenario = 0
        /\ imu.started = FALSE /\ imu.targets = {} /\ imu.offStarted = FALSE
    BY <1>1 DEF NewSchedule
  <1>4. TypeOK
    BY <1>2, ParametersAreInt, DurationAssumption DEF Init, TypeOK, Left
  <1>5. DelayFirst /\ LabelIsWindow /\ BiasIsWindow /\ WindowOrder
    BY <1>3 DEF Init, DelayFirst, LabelIsWindow, BiasIsWindow, WindowOrder
  <1>6. TargetsConfigured
    BY <1>3 DEF TargetsConfigured, Alternating
  <1> QED
    BY <1>4, <1>5, <1>6 DEF ScheduleInv

(* One call's GPS step keeps the label and the window in agreement.         *)
LEMMA GpsStep ==
  ASSUME ScheduleInv, checkAttackTimer
  PROVE  /\ gps' \in Schedule(PosAxes, GpsSeeds)
         /\ gps'.started
         /\ flag' \in {0, 1}
         /\ flag' = 1 <=> ~gps'.offStarted
         /\ gps'.offStarted => gps'.onLeft < 0
         /\ TargetsConfigured'
  <1>1. CASE CycleDue(gps) /\ flag' = 1
             /\ \E on, off \in Durations : gps' = configureAttackCycle(on, off)
    <2>1. PICK on \in Durations, off \in Durations :
                 gps' = configureAttackCycle(on, off)
      BY <1>1
    <2>2. /\ gps' \in Schedule(PosAxes, GpsSeeds)
          /\ gps'.started /\ ~gps'.offStarted
          /\ gps'.targets = {} <=> gps'.scenario = 0
          /\ Alternating(gps'.scenario) =>
                gps'.targets = IF gps'.odd THEN {"x"} ELSE {"y"}
      BY <2>1, ConfigureGps DEF ScheduleInv
    <2> QED
      BY <1>1, <2>2 DEF TargetsConfigured
  <1>2. CASE InOnWindow(gps) /\ gps' = gps /\ flag' = 1
    <2>1. gps \in Schedule(PosAxes, GpsSeeds) /\ TargetsConfigured
      BY DEF ScheduleInv, TypeOK
    <2>2. gps.onLeft \in Int /\ gps.onLeft >= 0 /\ gps.started
      BY <1>2, <2>1 DEF InOnWindow, Schedule, Left
    <2>3. ~gps.offStarted
      BY <2>2 DEF ScheduleInv, WindowOrder
    <2> QED
      BY <1>2, <2>1, <2>2, <2>3 DEF TargetsConfigured
  <1>3. CASE InOffWindow(gps) /\ gps' = OffStep(gps) /\ flag' = 0
    <2>1. /\ gps.started /\ gps \in Schedule(PosAxes, GpsSeeds)
          /\ TargetsConfigured /\ gps.onLeft < 0
      BY <1>3 DEF InOffWindow, ScheduleInv, TypeOK
    <2>2. /\ OffStep(gps) \in Schedule(PosAxes, GpsSeeds)
          /\ OffStep(gps).offStarted = TRUE
          /\ OffStep(gps).started = gps.started
          /\ OffStep(gps).targets = gps.targets
          /\ OffStep(gps).scenario = gps.scenario
          /\ OffStep(gps).odd = gps.odd
          /\ OffStep(gps).onLeft = gps.onLeft
      BY <2>1, OffStepKeeps
    <2> QED
      BY <1>3, <2>1, <2>2 DEF TargetsConfigured
  <1> QED
    BY <1>1, <1>2, <1>3 DEF checkAttackTimer

(* One call's IMU step biases exactly the targets of its on window.         *)
LEMMA ImuStep ==
  ASSUME ScheduleInv, updateIMUAttackValues
  PROVE  /\ imu' \in Schedule(ImuChannels, ImuSeeds)
         /\ imu'.started
         /\ imu'.offStarted => imu'.onLeft < 0
         /\ BiasIsWindow'
         /\ imuAttack' \in SUBSET ImuChannels
  <1>0. /\ imu \in Schedule(ImuChannels, ImuSeeds) /\ imu.targets \in SUBSET ImuChannels
        /\ imu.targets # {} => imu.scenario # 0
    BY DEF ScheduleInv, TypeOK, Schedule, BiasIsWindow
  <1>1. CASE /\ CycleDue(imu)
             /\ \E on, off \in Durations : imu' = configureIMUAttackCycle(on, off)
             /\ imuAttack' = imu'.targets
    <2>1. PICK on \in Durations, off \in Durations :
                 imu' = configureIMUAttackCycle(on, off)
      BY <1>1
    <2>2. /\ imu' \in Schedule(ImuChannels, ImuSeeds)
          /\ imu'.started /\ ~imu'.offStarted
          /\ imu'.targets # {} => imu'.scenario # 0
      BY <2>1, ConfigureImu DEF ScheduleInv
    <2>3. imu'.targets \in SUBSET ImuChannels
      BY <2>2 DEF Schedule
    <2> QED
      BY <1>1, <2>2, <2>3 DEF BiasIsWindow
  <1>2. CASE /\ InOnWindow(imu) /\ imu' = imu /\ imuAttack' = imu.targets
    <2>1. imu.onLeft \in Int /\ imu.onLeft >= 0 /\ imu.started
      BY <1>0, <1>2 DEF InOnWindow, Schedule, Left
    <2>2. ~imu.offStarted
      BY <2>1 DEF ScheduleInv, WindowOrder
    <2> QED
      BY <1>0, <1>2, <2>1, <2>2 DEF BiasIsWindow
  <1>3. CASE /\ InOffWindow(imu) /\ imu' = OffStep(imu) /\ imuAttack' = {}
    <2>0. imu \in Schedule(ImuChannels, ImuSeeds)
      BY <1>0
    <2>1. imu.started /\ imu.onLeft < 0
      BY <1>3 DEF InOffWindow
    <2>2. /\ OffStep(imu) \in Schedule(ImuChannels, ImuSeeds)
          /\ OffStep(imu).offStarted = TRUE
          /\ OffStep(imu).started = imu.started
          /\ OffStep(imu).targets = imu.targets
          /\ OffStep(imu).scenario = imu.scenario
          /\ OffStep(imu).odd = imu.odd
          /\ OffStep(imu).onLeft = imu.onLeft
      BY <2>0, OffStepKeeps
    <2> QED
      BY <1>0, <1>3, <2>1, <2>2 DEF BiasIsWindow
  <1> QED
    BY <1>1, <1>2, <1>3 DEF updateIMUAttackValues

-------------------------------------------------------------------------------
(* Every call, clock tick and parameter write keeps the invariant.          *)
LEMMA StepSchedule == ScheduleInv /\ [Next]_vars => ScheduleInv'
  <1> SUFFICES ASSUME ScheduleInv, [Next]_vars PROVE ScheduleInv'
    OBVIOUS
  <1>0. /\ TypeOK /\ DelayFirst /\ LabelIsWindow /\ TargetsConfigured
        /\ WindowOrder /\ BiasIsWindow
    BY DEF ScheduleInv
  <1>1. CASE run_xy_controller_Waiting
    <2>1. /\ UNCHANGED <<params, startLeft, gps, imu, flag>>
          /\ imuAttack' = {} /\ injected' = {} /\ initTimer' = TRUE
          /\ handover' = [label |-> flag, offset |-> {}]
          /\ startLeft >= 0
      BY <1>1 DEF run_xy_controller_Waiting
    <2>2. ~gps.started /\ ~imu.started /\ flag # 1
      BY <1>0, <2>1 DEF DelayFirst, LabelIsWindow
    <2>3. TypeOK'
      BY <1>0, <2>1 DEF TypeOK, params
    <2>4. DelayFirst' /\ TargetsConfigured' /\ WindowOrder'
      BY <1>0, <2>1 DEF DelayFirst, TargetsConfigured, WindowOrder
    <2>5. LabelIsWindow' /\ BiasIsWindow'
      BY <1>0, <2>1, <2>2 DEF LabelIsWindow, BiasIsWindow
    <2> QED
      BY <2>3, <2>4, <2>5 DEF ScheduleInv
  <1>2. CASE run_xy_controller
    <2>1. /\ updateIMUAttackValues /\ checkAttackTimer /\ startLeft < 0
          /\ injected' = IF flag' = 1 THEN gps'.targets ELSE {}
          /\ handover' = [label |-> flag', offset |-> injected']
          /\ UNCHANGED <<params, startLeft, initTimer>>
      BY <1>2 DEF run_xy_controller
    <2>2. /\ gps' \in Schedule(PosAxes, GpsSeeds)
          /\ gps'.started
          /\ flag' \in {0, 1}
          /\ flag' = 1 <=> ~gps'.offStarted
          /\ gps'.offStarted => gps'.onLeft < 0
          /\ TargetsConfigured'
      BY <2>1, GpsStep
    <2>3. /\ imu' \in Schedule(ImuChannels, ImuSeeds)
          /\ imu'.started
          /\ imu'.offStarted => imu'.onLeft < 0
          /\ BiasIsWindow'
          /\ imuAttack' \in SUBSET ImuChannels
      BY <2>1, ImuStep
    <2>4. injected' \in SUBSET PosAxes
      BY <2>1, <2>2 DEF Schedule
    <2>5. TypeOK'
      BY <1>0, <2>1, <2>2, <2>3, <2>4 DEF TypeOK, params
    <2>6. DelayFirst'
      BY <1>0, <2>1 DEF DelayFirst, TypeOK, Left
    <2>7. LabelIsWindow' /\ WindowOrder'
      BY <2>1, <2>2, <2>3 DEF LabelIsWindow, WindowOrder
    <2> QED
      BY <2>2, <2>3, <2>5, <2>6, <2>7 DEF ScheduleInv
  <1>3. CASE Clock
    <2>1. /\ startLeft' = Elapse(startLeft) /\ gps' = ElapseAll(gps)
          /\ imu' = ElapseAll(imu)
          /\ UNCHANGED <<params, initTimer, flag, injected, imuAttack, handover>>
      BY <1>3 DEF Clock
    <2>2. startLeft \in Left /\ gps \in Schedule(PosAxes, GpsSeeds)
          /\ imu \in Schedule(ImuChannels, ImuSeeds)
      BY <1>0 DEF TypeOK
    <2>3. startLeft' \in Left /\ (startLeft' >= 0 => startLeft >= 0)
      BY <2>1, <2>2 DEF Elapse, Left
    <2>4. /\ gps' \in Schedule(PosAxes, GpsSeeds)
          /\ gps'.offStarted = gps.offStarted /\ gps'.started = gps.started
          /\ gps'.targets = gps.targets /\ gps'.scenario = gps.scenario
          /\ gps'.odd = gps.odd /\ (gps.onLeft < 0 => gps'.onLeft < 0)
      BY <2>1, <2>2, ElapseKeeps
    <2>5. /\ imu' \in Schedule(ImuChannels, ImuSeeds)
          /\ imu'.offStarted = imu.offStarted /\ imu'.started = imu.started
          /\ imu'.targets = imu.targets /\ imu'.scenario = imu.scenario
          /\ (imu.onLeft < 0 => imu'.onLeft < 0)
      BY <2>1, <2>2, ElapseKeeps
    <2>6. TypeOK'
      BY <1>0, <2>1, <2>3, <2>4, <2>5 DEF TypeOK, params
    <2>7. DelayFirst' /\ WindowOrder'
      BY <1>0, <2>3, <2>4, <2>5 DEF DelayFirst, WindowOrder
    <2>8. LabelIsWindow' /\ BiasIsWindow' /\ TargetsConfigured'
      BY <1>0, <2>1, <2>4, <2>5 DEF LabelIsWindow, BiasIsWindow, TargetsConfigured
    <2> QED
      BY <2>6, <2>7, <2>8 DEF ScheduleInv
  <1>4. CASE SetGpsParam \/ SetImuParam \/ UNCHANGED vars
    <2>1. /\ UNCHANGED <<startLeft, initTimer, gps, imu, flag, injected,
                         imuAttack, handover>>
          /\ gps_atk_scenario' \in GpsScenarios /\ gps_atk_seed' \in GpsSeeds
          /\ imu_atk_scenario' \in ImuScenarios /\ imu_atk_seed' \in ImuSeeds
      BY <1>0, <1>4 DEF SetGpsParam, SetImuParam, vars, params, TypeOK
    <2>2. TypeOK'
      BY <1>0, <2>1 DEF TypeOK
    <2>3. DelayFirst' /\ WindowOrder' /\ TargetsConfigured'
      BY <1>0, <2>1 DEF DelayFirst, WindowOrder, TargetsConfigured
    <2>4. LabelIsWindow' /\ BiasIsWindow'
      BY <1>0, <2>1 DEF LabelIsWindow, BiasIsWindow
    <2> QED
      BY <2>2, <2>3, <2>4 DEF ScheduleInv
  <1> QED
    BY <1>1, <1>2, <1>3, <1>4 DEF Next, Run

(* The invariant the theorems below rest on.                                *)
THEOREM ScheduleInductive == Spec => []ScheduleInv
  BY InitSchedule, StepSchedule, PTL DEF Spec

(* The schedule's state stays in range for every parameter written.         *)
THEOREM ScheduleTypeCorrect == Spec => []TypeOK
  BY ScheduleInductive, PTL DEF ScheduleInv

(* Every logged label says whether that call's position was offset.         *)
THEOREM LabelIsGroundTruth == Spec => []LabelMatchesInjection
  <1>1. ScheduleInv => LabelMatchesInjection
    <2> SUFFICES ASSUME ScheduleInv, gps.scenario # 0
                 PROVE  handover.label = 1 <=> handover.offset # {}
      BY DEF LabelMatchesInjection
    <2>1. gps.started /\ gps.targets # {}
      BY DEF ScheduleInv, TargetsConfigured
    <2>2. handover.label = flag /\ handover.offset = injected
      BY DEF ScheduleInv, LabelIsWindow
    <2> QED
      BY <2>1, <2>2 DEF ScheduleInv, LabelIsWindow
  <1> QED
    BY <1>1, ScheduleInductive, PTL

(* No bias outside the on windows of an enabled scenario.                   *)
THEOREM BiasIsScheduled == Spec => []InjectionIsScheduled
  <1>1. ScheduleInv => InjectionIsScheduled
    <2> SUFFICES ASSUME ScheduleInv PROVE InjectionIsScheduled
      OBVIOUS
    <2>1. startLeft \in Int
      BY DEF ScheduleInv, TypeOK, Left
    <2>2. injected # {} =>
            startLeft < 0 /\ ~gps.offStarted /\ gps.scenario # 0
      BY <2>1 DEF ScheduleInv, LabelIsWindow, DelayFirst, TargetsConfigured
    <2>3. imuAttack # {} =>
            startLeft < 0 /\ ~imu.offStarted /\ imu.scenario # 0
      BY <2>1 DEF ScheduleInv, BiasIsWindow, DelayFirst
    <2> QED
      BY <2>2, <2>3 DEF InjectionIsScheduled
  <1> QED
    BY <1>1, ScheduleInductive, PTL

(* A burst keeps its axes: two labelled calls with no unlabelled call       *)
(* between them offset the same axes, whatever was written in between.      *)
THEOREM BurstsKeepAxes == Spec => BurstsSeparated
  <1>1. ScheduleInv /\ ScheduleInv' /\ [Next]_vars =>
          [flag = 1 /\ flag' = 1 => injected' = injected]_vars
    <2> SUFFICES ASSUME ScheduleInv, ScheduleInv', Next, flag = 1, flag' = 1
                 PROVE  injected' = injected
      BY DEF vars, params
    <2>0. /\ gps.started /\ ~gps.offStarted /\ injected = gps.targets
          /\ injected' = gps'.targets
          /\ gps \in Schedule(PosAxes, GpsSeeds)
      BY DEF ScheduleInv, LabelIsWindow, TypeOK
    <2>1. CASE run_xy_controller_Waiting
      BY <2>0, <2>1 DEF run_xy_controller_Waiting
    <2>2. CASE run_xy_controller
      <3>1. checkAttackTimer
        BY <2>2 DEF run_xy_controller
      <3>2. ~CycleDue(gps)
        BY <2>0 DEF CycleDue
      <3>3. gps' = gps
        BY <3>1, <3>2 DEF checkAttackTimer
      <3> QED
        BY <2>0, <3>3
    <2>3. CASE Clock \/ SetGpsParam \/ SetImuParam
      BY <2>3 DEF Clock, SetGpsParam, SetImuParam
    <2> QED
      BY <2>1, <2>2, <2>3 DEF Next, Run
  <1> QED
    BY <1>1, ScheduleInductive, PTL DEF Spec, BurstsSeparated

(* Two consecutive bursts of alternating scenarios hit different axes.      *)
THEOREM AlternationHolds == Spec => AxesAlternate
  <1> DEFINE Premise ==
        /\ flag = 0 /\ flag' = 1 /\ gps.started
        /\ gps.scenario # 0 /\ gps'.scenario # 0 /\ gps'.seed = gps.seed
        /\ GpsAxisMode[gps.scenario] = 3 /\ GpsAxisMode[gps'.scenario] = 3
  <1>1. ScheduleInv /\ ScheduleInv' /\ [Next]_vars =>
          [Premise => gps'.targets \cap gps.targets = {}]_vars
    <2> SUFFICES ASSUME ScheduleInv, ScheduleInv', Next, Premise
                 PROVE  gps'.targets \cap gps.targets = {}
      BY DEF vars, params
    <2>1. run_xy_controller
      BY DEF Next, Run, run_xy_controller_Waiting, Clock, SetGpsParam, SetImuParam
    <2>2. checkAttackTimer /\ flag = 0 /\ flag' = 1
      BY <2>1 DEF run_xy_controller
    <2>3. gps.offStarted /\ gps.onLeft < 0 /\ gps.onLeft \in Int
      <3>1. gps.started /\ ~(flag = 1) /\ gps.onLeft \in Int
        BY <2>2 DEF ScheduleInv, TypeOK, Schedule, Left
      <3>2. gps.offStarted
        BY <3>1 DEF ScheduleInv, LabelIsWindow
      <3> QED
        BY <3>1, <3>2 DEF ScheduleInv, WindowOrder
    <2>4. ~InOnWindow(gps)
      BY <2>3 DEF InOnWindow
    <2>5. PICK on \in Durations, off \in Durations :
                 gps' = configureAttackCycle(on, off)
      BY <2>2, <2>4 DEF checkAttackTimer
    <2>6. Alternating(gps.scenario) /\ Alternating(gps'.scenario) /\ gps'.seed = gps.seed
      BY DEF Alternating
    <2>7. gps'.odd = ~gps.odd
      BY <2>5, <2>6, ConfigureGps DEF ScheduleInv
    <2>8. /\ gps.targets = IF gps.odd THEN {"x"} ELSE {"y"}
          /\ gps'.targets = IF gps'.odd THEN {"x"} ELSE {"y"}
      BY <2>6 DEF ScheduleInv, TargetsConfigured
    <2> QED
      BY <2>7, <2>8
  <1> QED
    BY <1>1, ScheduleInductive, PTL DEF Spec, AxesAlternate
===============================================================================
