-------------------------- MODULE FlightMonitorProofs --------------------------
(***************************************************************************)
(* Proofs about FlightMonitor, for every value of the timeouts and sustain *)
(* times: what a landed status means, with which attack a flight is flown  *)
(* and that the sustain conditions are continuous.                         *)
(***************************************************************************)
EXTENDS FlightMonitor, TLAPS

\* The places before the AUTO wait has ended.
BeforeAuto == {"launch", "commands", "gps", "arm", "climb", "takeoff_params", "auto_wait"}

Telemetry ==
    [fix : BOOLEAN, armed : {"unknown", "yes", "no"}, AUTO : BOOLEAN,
     alt : {"none", "low", "mid", "high"}, near : BOOLEAN, slow : BOOLEAN,
     ground : BOOLEAN]

\* Types of the state, with the limits at which the clocks are capped.
FlightTypes ==
    /\ defer \in BOOLEAN /\ sim \in BOOLEAN /\ attack \in BOOLEAN
    /\ pc \in BeforeAuto \cup {"auto_params", "cruise", "done"}
    /\ state \in Telemetry
    /\ elapsed \in Nat /\ quiet \in Nat
    /\ since \in Nat \cup {-1} /\ goodFor \in 0 .. MaxSustain + 1
    /\ pump \in [elapsed : Nat, quiet : Nat]
    /\ autoElapsed \in 0 .. timeout_sec + 1
    /\ auto \in {"no", "confirmed", "recorded"} /\ autoSeen \in BOOLEAN
    /\ gate \in {"absent", "pass", "fail"}

\* What is known at each place of the runner: no status before the end, and the
\* record of AUTO in step with the place.
PlaceInv ==
    /\ pc # "done" => status = "unknown" /\ gate = "absent"
    /\ pc \in BeforeAuto => auto = "no"
    /\ pc = "auto_params" => auto = "confirmed"
    /\ pc = "cruise" => auto = "recorded"

\* The running sustain time never exceeds the time for which the condition has
\* been reported.
SustainInv ==
    pc # "done" /\ since >= 0 => goodFor > since \/ goodFor > MaxSustain

\* A deferred attack is off until AUTO is confirmed; one that is not is on from
\* the end of the launch.
AttackInv ==
    /\ defer /\ attack => auto # "no"
    /\ ~defer /\ pc \notin {"launch", "done"} => attack
    /\ auto = "recorded" => attack
    /\ status \in {"exception", "prearm_timeout", "arm_timeout", "takeoff_timeout"} =>
          auto = "no"

\* The inductive invariant.
FlightInv ==
    /\ FlightTypes /\ PlaceInv /\ SustainInv
    /\ LandedWithinTimeout /\ AttackInv

-------------------------------------------------------------------------------
(* Receiving.                                                              *)

\* A message turns telemetry into telemetry.
LEMMA ReceivedIsTelemetry ==
    ASSUME NEW s \in Telemetry, NEW t \in Received(s)
    PROVE  t \in Telemetry
  <1>1. ASSUME NEW f \in BOOLEAN
        PROVE  GPS_RAW_INT(s, f) \in Telemetry /\ EXTENDED_SYS_STATE(s, f) \in Telemetry
    BY DEF GPS_RAW_INT, EXTENDED_SYS_STATE, Telemetry
  <1>2. ASSUME NEW a \in {"yes", "no"}, NEW m \in BOOLEAN
        PROVE  HEARTBEAT(s, a, m) \in Telemetry
    BY DEF HEARTBEAT, Telemetry
  <1>3. ASSUME NEW h \in {"low", "mid", "high"}, NEW n \in BOOLEAN, NEW v \in BOOLEAN
        PROVE  POSITION(s, h, n, v) \in Telemetry
    BY DEF POSITION, Telemetry
  <1> QED  BY <1>1, <1>2, <1>3 DEF Received

\* One recv_match.
LEMMA ReceiveTypes ==
    ASSUME NEW timer \in Nat, state \in Telemetry, NEW r \in Receive(timer)
    PROVE  r[1] \in Telemetry /\ r[2] \in Nat
  <1>1. CASE r = <<state, timer + 1>>
    BY <1>1
  <1>2. CASE r \in Received(state) \X {0}
    BY <1>2, ReceivedIsTelemetry
  <1> QED  BY <1>1, <1>2 DEF Receive

\* A capped clock.
LEMMA CapType ==
    ASSUME NEW n \in Nat, NEW limit \in Nat
    PROVE  Cap(n, limit) \in 0 .. limit + 1 /\ Cap(n, limit) \in Nat
  BY DEF Cap

\* One iteration of the loop of monitor_flight.
LEMMA LoopReceiveTypes ==
    ASSUME FlightTypes, LoopReceive
    PROVE  /\ state' \in Telemetry /\ quiet' \in Nat /\ elapsed' \in Nat
           /\ autoSeen' \in BOOLEAN
  <1>1. state' \in Telemetry /\ quiet' \in Nat
    BY ReceiveTypes DEF LoopReceive, FlightTypes
  <1>2. elapsed' \in Nat
    BY CapType, FlightAssumption DEF LoopReceive, FlightTypes
  <1>3. autoSeen' \in BOOLEAN
    BY DEF LoopReceive, Sample
  <1> QED  BY <1>1, <1>2, <1>3

\* One iteration of pump_mavlink_until.
LEMMA PumpReceiveTypes ==
    ASSUME FlightTypes, PumpReceive
    PROVE  state' \in Telemetry /\ pump' \in [elapsed : Nat, quiet : Nat]
  <1>1. pump.quiet \in Nat /\ pump.elapsed \in Nat
    BY DEF FlightTypes
  <1>2. PICK r \in Receive(pump.quiet) :
           state' = r[1] /\ pump' = [elapsed |-> pump.elapsed + 1, quiet |-> r[2]]
    BY DEF PumpReceive
  <1>3. r[1] \in Telemetry /\ r[2] \in Nat
    BY <1>1, <1>2, ReceiveTypes DEF FlightTypes
  <1> QED  BY <1>1, <1>2, <1>3

\* The clocks after a group of set_param calls.
LEMMA ParamsTakeTypes ==
    ASSUME FlightTypes, NEW d \in Nat, ParamsTake(d)
    PROVE  quiet' \in Nat /\ elapsed' \in Nat
  <1>1. /\ quiet + d \in Nat /\ elapsed + d \in Nat
        /\ Quiet \in Nat /\ takeoff_timeout + Settle \in Nat
    BY FlightAssumption DEF FlightTypes
  <1> QED  BY <1>1, CapType DEF ParamsTake

-------------------------------------------------------------------------------
(* The inductive invariant, action by action.                              *)

\* Nothing has happened yet at launch.
LEMMA InitFlight == Init => FlightInv
  <1> SUFFICES ASSUME Init PROVE FlightInv
    OBVIOUS
  <1>1. MaxSustain \in Nat /\ timeout_sec \in Nat
    BY FlightAssumption DEF MaxSustain
  <1>2. NoState \in Telemetry /\ NewPump \in [elapsed : Nat, quiet : Nat]
    BY DEF NoState, Telemetry, NewPump
  <1>3. /\ defer \in BOOLEAN /\ sim \in BOOLEAN /\ attack \in BOOLEAN
        /\ autoSeen \in BOOLEAN
    BY Zenon DEF Init
  <1>4. FlightTypes
    BY <1>1, <1>2, <1>3 DEF Init, FlightTypes, BeforeAuto
  <1>5. AttackInv
    BY DEF Init, AttackInv
  <1> QED
    BY <1>4, <1>5 DEF Init, FlightInv, PlaceInv, SustainInv, LandedWithinTimeout,
       BeforeAuto, Landed

\* Launch: the attack is set only if it is not deferred.
LEMMA LaunchFlight == FlightInv /\ (set_run_params \/ SendMission) => FlightInv'
  <1> SUFFICES ASSUME FlightInv, set_run_params \/ SendMission
               PROVE  FlightInv'
    OBVIOUS
  <1>1. /\ UNCHANGED <<defer, sim, state, elapsed, quiet, since, pump, autoElapsed,
                       auto, autoSeen, gate, goodFor>>
        /\ \/ pc' \in {"commands", "gps"} /\ status' = status
           \/ pc' = "done" /\ status' = "exception"
        /\ pc \in {"launch", "commands"}
    BY DEF set_run_params, SendMission, Finish
  <1>2. /\ attack' \in {FALSE, ~defer, attack}
        /\ pc' # "done" => attack' = IF pc = "launch" THEN ~defer ELSE attack
    BY DEF set_run_params, SendMission, LaunchAttack, Finish
  <1>3. attack' \in BOOLEAN /\ (defer /\ attack' => attack)
    BY <1>2 DEF FlightInv, FlightTypes
  <1> QED
    BY <1>1, <1>2, <1>3 DEF FlightInv, FlightTypes, PlaceInv, SustainInv,
       LandedWithinTimeout, AttackInv, BeforeAuto, Landed

\* The failed ends that leave everything but the status alone, and the end of
\* the simulator.
LEMMA FailFlight == FlightInv /\ (CommandFails \/ LoopExit \/ SimExit) => FlightInv'
  <1> SUFFICES ASSUME FlightInv, CommandFails \/ LoopExit \/ SimExit
               PROVE  FlightInv'
    OBVIOUS
  <1>1. /\ UNCHANGED <<defer, attack, state, elapsed, quiet, since, pump,
                       autoElapsed, auto, autoSeen, gate, goodFor>>
        /\ \/ pc' = pc /\ status' = status /\ pc # "done"
           \/ /\ pc' = "done"
              /\ status' \in {"exception", "sim_exited", "mavlink_quiet"}
              /\ pc # "done" /\ (status' = "exception" => pc \in BeforeAuto)
        /\ sim' \in BOOLEAN
    BY DEF CommandFails, LoopExit, SimExit, Finish, FlightInv, FlightTypes, BeforeAuto
  <1>2. AttackInv'
    <2>1. CASE pc' = pc
      BY <1>1, <2>1 DEF FlightInv, AttackInv
    <2>2. CASE pc' = "done"
      BY <1>1, <2>2 DEF FlightInv, PlaceInv, AttackInv
    <2> QED  BY <1>1, <2>1, <2>2
  <1> QED
    BY <1>1, <1>2 DEF FlightInv, FlightTypes, PlaceInv, SustainInv, LandedWithinTimeout,
       BeforeAuto, Landed, Telemetry

\* Waiting for a GPS fix and for the motors to be armed.
LEMMA PrepareFlight == FlightInv /\ (wait_for_gps_fix \/ wait_for_armed) => FlightInv'
  <1> SUFFICES ASSUME FlightInv, wait_for_gps_fix \/ wait_for_armed
               PROVE  FlightInv'
    OBVIOUS
  <1>1. /\ UNCHANGED <<defer, sim, attack, quiet, since, autoElapsed, auto,
                       autoSeen, gate, goodFor>>
        /\ \/ pc' \in {"gps", "arm", "climb"} /\ status' = status
           \/ pc' = "done" /\ status' \in {"prearm_timeout", "arm_timeout"}
        /\ pc \in {"gps", "arm"}
    BY DEF wait_for_gps_fix, wait_for_armed, Finish
  <1>2. NoState \in Telemetry
    BY DEF NoState, Telemetry
  <1>3. CASE wait_for_gps_fix
    <2>1. elapsed' \in Nat
      BY <1>3 DEF wait_for_gps_fix, FlightInv, FlightTypes
    <2>2. state' \in Telemetry /\ pump' \in [elapsed : Nat, quiet : Nat]
      BY <1>3, PumpReceiveTypes DEF wait_for_gps_fix, FlightInv, FlightTypes
    <2> QED
      BY <1>1, <2>1, <2>2 DEF FlightInv, FlightTypes, PlaceInv, SustainInv,
         LandedWithinTimeout, AttackInv, BeforeAuto, Landed
  <1>4. CASE wait_for_armed
    <2>1. elapsed' \in Nat /\ pump' = pump
      BY <1>4 DEF wait_for_armed, FlightInv, FlightTypes
    <2>2. state' \in Telemetry
      BY <1>2, <1>4, ReceivedIsTelemetry DEF wait_for_armed, FlightInv, FlightTypes
    <2> QED
      BY <1>1, <2>1, <2>2 DEF FlightInv, FlightTypes, PlaceInv, SustainInv,
         LandedWithinTimeout, AttackInv, BeforeAuto, Landed
  <1> QED  BY <1>3, <1>4

\* The sustain clock and the reported time advance together, or both start
\* again.
LEMMA SustainStep ==
    ASSUME FlightTypes, SustainInv, pc # "done", NEW good \in BOOLEAN,
           goodFor' = IF good THEN Cap(goodFor + 1, MaxSustain) ELSE 0
    PROVE  /\ goodFor' \in 0 .. MaxSustain + 1
           /\ Sustain(good) => /\ since' \in Nat \cup {-1}
                               /\ since' >= 0 =>
                                     goodFor' > since' \/ goodFor' > MaxSustain
           /\ \A limit \in 0 .. MaxSustain :
                 Sustained(good, limit) => goodFor' > limit
           /\ good /\ since' = since /\ since >= 0 =>
                 goodFor' > since' \/ goodFor' > MaxSustain
  <1> MaxSustain \in Nat
    BY FlightAssumption DEF MaxSustain
  <1> QED
    BY DEF FlightTypes, SustainInv, Cap, Sustain, Sustained

\* The climb ends with takeoff_params or a timeout.
LEMMA ClimbFlight == FlightInv /\ Climb => FlightInv'
  <1> SUFFICES ASSUME FlightInv, Climb PROVE FlightInv'
    OBVIOUS
  <1> DEFINE high == state'.alt = "high"
  <1>1. /\ UNCHANGED <<defer, sim, attack, pump, autoElapsed, auto, gate>>
        /\ pc = "climb" /\ LoopReceive
        /\ goodFor' = IF high THEN Cap(goodFor + 1, MaxSustain) ELSE 0
        /\ \/ pc' = "done" /\ status' = "takeoff_timeout" /\ since' = since
           \/ pc' = "takeoff_params" /\ status' = status /\ since' = since /\ high
           \/ pc' = "climb" /\ status' = status /\ Sustain(high)
    BY DEF Climb, Finish, Sustained
  <1> HIDE DEF high
  <1>2. high \in BOOLEAN
    BY DEF high
  <1>3. /\ goodFor' \in 0 .. MaxSustain + 1 /\ since' \in Nat \cup {-1}
        /\ pc' # "done" /\ since' >= 0 => goodFor' > since' \/ goodFor' > MaxSustain
    BY <1>1, <1>2, SustainStep DEF FlightInv, FlightTypes
  <1>4. /\ state' \in Telemetry /\ quiet' \in Nat /\ elapsed' \in Nat
        /\ autoSeen' \in BOOLEAN
    BY <1>1, LoopReceiveTypes DEF FlightInv
  <1> QED
    BY <1>1, <1>3, <1>4 DEF FlightInv, FlightTypes, PlaceInv, SustainInv,
       LandedWithinTimeout, AttackInv, BeforeAuto, Landed, MaxSustain

\* Parameters after the takeoff, before "mode auto".
LEMMA TakeoffParamsFlight == FlightInv /\ TakeoffParams => FlightInv'
  <1> SUFFICES ASSUME FlightInv, TakeoffParams PROVE FlightInv'
    OBVIOUS
  <1>1. quiet' \in Nat /\ elapsed' \in Nat
    BY ParamsTakeTypes, FlightAssumption DEF TakeoffParams, FlightInv
  <1> QED
    BY <1>1 DEF TakeoffParams, Finish, NewPump, FlightInv, FlightTypes, PlaceInv,
       SustainInv, LandedWithinTimeout, AttackInv, BeforeAuto, Landed

\* AUTO is recorded when it is seen, and the clocks of the landing start anew.
LEMMA AutoWaitFlight == FlightInv /\ AutoWait => FlightInv'
  <1> SUFFICES ASSUME FlightInv, AutoWait PROVE FlightInv'
    OBVIOUS
  <1>1. MaxSustain \in Nat /\ 1 \in Nat
    BY FlightAssumption DEF MaxSustain
  <1>2. /\ state' \in Telemetry /\ pump' \in [elapsed : Nat, quiet : Nat]
        /\ quiet' \in Nat /\ elapsed' \in Nat /\ autoSeen' \in BOOLEAN
    BY <1>1, PumpReceiveTypes, ParamsTakeTypes
       DEF AutoWait, Sample, FlightInv, FlightTypes
  <1>3. /\ UNCHANGED <<defer, sim, attack, autoElapsed, gate>> /\ pc = "auto_wait"
        /\ \/ /\ since' = -1 /\ goodFor' = 0 /\ status' = status
              /\ \/ pc' = "auto_params" /\ auto' = "confirmed" /\ defer
                 \/ pc' = "cruise" /\ auto' = "recorded" /\ ~defer
           \/ /\ pc' = "done" /\ status' = "auto_mode_timeout"
              /\ UNCHANGED <<auto, since, goodFor>>
           \/ UNCHANGED <<pc, status, auto, since, goodFor>>
    BY DEF AutoWait, Finish, FlightInv, FlightTypes
  <1>4. AttackInv'
    BY <1>3 DEF FlightInv, PlaceInv, AttackInv, BeforeAuto
  <1> QED
    BY <1>1, <1>2, <1>3, <1>4 DEF FlightInv, FlightTypes, PlaceInv, SustainInv,
       LandedWithinTimeout, BeforeAuto, Landed

\* The deferred attack is set where AUTO is confirmed.
LEMMA AutoParamsFlight == FlightInv /\ AutoParams => FlightInv'
  <1> SUFFICES ASSUME FlightInv, AutoParams PROVE FlightInv'
    OBVIOUS
  <1>1. PICK d \in 0 .. ParamTime :
           ParamsTake(d) /\ autoElapsed' = Cap(d, timeout_sec)
    BY DEF AutoParams
  <1>2. d \in Nat /\ timeout_sec \in Nat
    BY <1>1, FlightAssumption
  <1>3. quiet' \in Nat /\ elapsed' \in Nat /\ autoElapsed' \in 0 .. timeout_sec + 1
    BY <1>1, <1>2, ParamsTakeTypes, CapType DEF FlightInv
  <1>4. /\ UNCHANGED <<defer, sim, state, since, pump, autoSeen, gate, goodFor>>
        /\ pc = "auto_params" /\ attack' \in BOOLEAN
        /\ \/ attack' /\ auto' = "recorded" /\ pc' = "cruise" /\ status' = status
           \/ auto' = auto /\ pc' = "done" /\ status' = "post_auto_param_failed"
    BY DEF AutoParams, Finish
  <1>5. AttackInv'
    BY <1>4 DEF FlightInv, PlaceInv, AttackInv
  <1> QED
    BY <1>3, <1>4, <1>5 DEF FlightInv, FlightTypes, PlaceInv, SustainInv,
       LandedWithinTimeout, BeforeAuto, Landed

\* The cruise: a landing is only reported before the AUTO timeout.
LEMMA CruiseFlight == FlightInv /\ Cruise => FlightInv'
  <1> SUFFICES ASSUME FlightInv, Cruise PROVE FlightInv'
    OBVIOUS
  <1> DEFINE down == state'.alt = "low" /\ state'.slow
  <1>1. /\ UNCHANGED <<defer, sim, attack, pump, auto>>
        /\ pc = "cruise" /\ LoopReceive
        /\ autoElapsed' = Cap(autoElapsed + 1, timeout_sec)
        /\ goodFor' = IF down THEN Cap(goodFor + 1, MaxSustain) ELSE 0
    BY DEF Cruise
  <1>2. \/ pc' = "done" /\ status' = "timeout_auto" /\ since' = since /\ gate' = gate
        \/ /\ ~AutoTimedOut /\ since' = since
           /\ \E s \in Landed : Land(s)
        \/ Sustain(down) /\ UNCHANGED <<pc, status, gate>>
    BY DEF Cruise, Finish, Landed
  <1>3. down \in BOOLEAN
    BY <1>1, LoopReceiveTypes DEF FlightInv, Telemetry
  <1> HIDE DEF down
  <1>4. /\ goodFor' \in 0 .. MaxSustain + 1 /\ since' \in Nat \cup {-1}
        /\ pc' # "done" /\ since' >= 0 => goodFor' > since' \/ goodFor' > MaxSustain
    BY <1>1, <1>2, <1>3, SustainStep DEF FlightInv, FlightTypes, Land, Finish
  <1>5. /\ state' \in Telemetry /\ quiet' \in Nat /\ elapsed' \in Nat
        /\ autoSeen' \in BOOLEAN
    BY <1>1, LoopReceiveTypes DEF FlightInv
  <1>6. autoElapsed' \in 0 .. timeout_sec + 1
    BY <1>1, CapType, FlightAssumption DEF FlightInv, FlightTypes
  <1>7. FlightTypes'
    BY <1>1, <1>2, <1>4, <1>5, <1>6
       DEF FlightInv, FlightTypes, Land, Finish, BeforeAuto, MaxSustain
  <1>8. PlaceInv' /\ SustainInv' /\ AttackInv'
    <2>1. PlaceInv' /\ SustainInv'
      BY <1>1, <1>2, <1>4 DEF FlightInv, PlaceInv, SustainInv, Land, Finish,
         BeforeAuto, MaxSustain
    <2>2. attack /\ auto = "recorded" /\ status = "unknown"
      BY <1>1 DEF FlightInv, PlaceInv, AttackInv
    <2>3. status' \in Landed \cup {"timeout_auto", "unknown"} /\ UNCHANGED <<defer, attack, auto>>
      BY <1>1, <1>2, <2>2 DEF Land, Finish
    <2>4. AttackInv'
      BY <2>2, <2>3 DEF AttackInv, Landed
    <2> QED  BY <2>1, <2>4
  <1>9. LandedWithinTimeout'
    BY <1>1, <1>2, <1>6, FlightAssumption DEF FlightInv, PlaceInv, Land, Finish,
       LandedWithinTimeout, AutoTimedOut, Landed
  <1> QED  BY <1>7, <1>8, <1>9 DEF FlightInv

\* The inductive invariant of a flight: where the runner is determines what it
\* has recorded, and sustain clocks are backed by reports.
THEOREM FlightInductive == Spec => []FlightInv
  <1>1. FlightInv /\ [Next]_vars => FlightInv'
    <2> SUFFICES ASSUME FlightInv, [Next]_vars PROVE FlightInv'
      OBVIOUS
    <2>1. CASE Step
      BY <2>1, LaunchFlight, FailFlight, PrepareFlight, ClimbFlight,
         TakeoffParamsFlight, AutoWaitFlight, AutoParamsFlight, CruiseFlight DEF Step
    <2>2. CASE SimExit
      BY <2>2, FailFlight
    <2>3. CASE UNCHANGED vars
      BY <2>3 DEF vars, FlightInv, FlightTypes, PlaceInv, SustainInv, Telemetry,
         LandedWithinTimeout, AttackInv
    <2> QED  BY <2>1, <2>2, <2>3 DEF Next
  <1> QED  BY <1>1, InitFlight, PTL DEF Spec

\* A landed status means AUTO recorded and the AUTO timeout not passed, for every
\* choice of the timeouts.
THEOREM LandingIsGenuine == Spec => []LandedWithinTimeout
  BY FlightInductive, PTL DEF FlightInv

\* Every flight with a recorded AUTO leg has its attack set, and a deferred attack
\* is not set before the takeoff is over, for every choice of the timeouts.
THEOREM AttackIsThatOfTheRow == Spec => []FlownAsPlanned
  <1>1. FlightInv => FlownAsPlanned
    BY DEF FlightInv, PlaceInv, AttackInv, FlownAsPlanned, BeforeAuto
  <1> QED  BY <1>1, FlightInductive, PTL

\* Takeoff and landing conditions hold without a break for their sustain times
\* (takeoff_ok_since, land_ok_since), for every choice of those times.
THEOREM SustainWithoutBreak == Spec => SustainIsContinuous
  <1> DEFINE Kept ==
        /\ pc = "climb" /\ pc' = "takeoff_params" => goodFor' > takeoff_sustain
        /\ pc = "cruise" /\ status' = "landed_low_alt_speed" => goodFor' > land_sustain
  <1>1. FlightInv /\ [Next]_vars => [Kept]_vars
    <2> SUFFICES ASSUME FlightInv, Next PROVE Kept
      OBVIOUS
    <2>1. takeoff_sustain \in 0 .. MaxSustain /\ land_sustain \in 0 .. MaxSustain
      BY FlightAssumption DEF MaxSustain
    <2>2. ASSUME pc = "climb", pc' = "takeoff_params" PROVE goodFor' > takeoff_sustain
      <3>1. Climb
        BY <2>2 DEF Next, Step, set_run_params, SendMission, wait_for_gps_fix,
           wait_for_armed, CommandFails, LoopExit, TakeoffParams, AutoWait, AutoParams,
           Cruise, SimExit, Finish
      <3>2. /\ goodFor' = IF state'.alt = "high" THEN Cap(goodFor + 1, MaxSustain) ELSE 0
            /\ Sustained(state'.alt = "high", takeoff_sustain)
        BY <2>2, <3>1 DEF Climb, Finish
      <3>3. (state'.alt = "high") \in BOOLEAN
        OBVIOUS
      <3> QED  BY <2>1, <2>2, <3>2, <3>3, SustainStep DEF FlightInv
    <2>3. ASSUME pc = "cruise", status' = "landed_low_alt_speed" PROVE goodFor' > land_sustain
      <3>1. Cruise
        BY <2>3 DEF Next, Step, set_run_params, SendMission, wait_for_gps_fix,
           wait_for_armed, CommandFails, LoopExit, Climb, TakeoffParams, AutoWait,
           AutoParams, SimExit, Finish, FlightInv, PlaceInv
      <3> DEFINE down == state'.alt = "low" /\ state'.slow
      <3>2. down \in BOOLEAN
        BY <3>1, LoopReceiveTypes DEF Cruise, FlightInv, Telemetry
      <3>3. goodFor' = IF down THEN Cap(goodFor + 1, MaxSustain) ELSE 0
        BY <3>1 DEF Cruise
      <3>4. Sustained(down, land_sustain)
        BY <2>3, <3>1 DEF Cruise, Finish, Land, FlightInv, PlaceInv
      <3> HIDE DEF down
      <3> QED  BY <2>1, <2>3, <3>2, <3>3, <3>4, SustainStep DEF FlightInv
    <2> QED  BY <2>2, <2>3
  <1> QED  BY <1>1, FlightInductive, PTL DEF Spec, SustainIsContinuous
===============================================================================
