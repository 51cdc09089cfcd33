----------------------------- MODULE FlightMonitor -----------------------------
(***************************************************************************)
(* One flight as the experiment runner sees it: set_run_params,            *)
(* prepare_takeoff and monitor_flight of                                   *)
(* Tools/autotest/run_pid_piper_mode_experiments.py, and the strict        *)
(* success that analyze_run computes from what they leave behind.  The     *)
(* vehicle is unconstrained: it may send any telemetry, lose any command   *)
(* or exit at any time.                                                    *)
(*                                                                         *)
(* Time is counted in iterations of the receive loops; every iteration is  *)
(* one tick.  Telemetry is abstracted to what the loops compare: altitude  *)
(* against land_alt and takeoff_alt, distance against success_radius_m,    *)
(* speed against land_speed.                                               *)
(***************************************************************************)
EXTENDS Integers

CONSTANTS
    prearm_timeout, arm_timeout, takeoff_timeout, takeoff_sustain,
    auto_mode_timeout, timeout_sec, land_sustain,
    Quiet,              \* the 20 s without a message
    Settle,             \* the 5 s of the exit and landing checks
    ParamTime           \* longest time a group of set_param calls takes

ASSUME FlightAssumption ==
    {prearm_timeout, arm_timeout, takeoff_timeout, takeoff_sustain,
     auto_mode_timeout, timeout_sec, land_sustain, Quiet, Settle,
     ParamTime} \subseteq Nat

VARIABLES
    defer,              \* --defer-attack-until-after-takeoff of this invocation
    pc,                 \* where the runner is
    sim,                \* the simulator process runs
    attack,             \* the run's attack scenarios are set in the vehicle
    state,              \* the telemetry dictionary
    elapsed,            \* ticks since the loop began (start_t), capped
    quiet,              \* ticks since last_msg_t
    since,              \* ticks since takeoff_ok_since or land_ok_since, -1: None
    pump,               \* the timers of pump_mavlink_until
    autoElapsed,        \* ticks since auto_sent_wall_time
    auto,               \* "no", "confirmed", or "recorded" in the result
    autoSeen,           \* a telemetry sample shows mode AUTO
    status, gate,       \* of the result; gate is "absent" until a landing
    goodFor             \* history: ticks for which the altitude (then landing)
                        \* condition has been reported without a break

vars == <<defer, pc, sim, attack, state, elapsed, quiet, since, pump,
          autoElapsed, auto, autoSeen, status, gate, goodFor>>

Landed == {"landed_disarmed", "landed_state_ground", "landed_low_alt_speed"}

NoState == [fix |-> FALSE, armed |-> "unknown", AUTO |-> FALSE, alt |-> "none",
            near |-> FALSE, slow |-> TRUE, ground |-> FALSE]

-------------------------------------------------------------------------------
(* Receiving.                                                              *)

\* What the messages that the loops look at set in the state.
GPS_RAW_INT(s, fix) == [s EXCEPT !.fix = fix]
EXTENDED_SYS_STATE(s, ground) == [s EXCEPT !.ground = ground]
HEARTBEAT(s, armed, mode) == [s EXCEPT !.armed = armed, !.AUTO = mode]
POSITION(s, alt, near, slow) == [s EXCEPT !.alt = alt, !.near = near, !.slow = slow]

\* update_state_from_msg: one of these messages, or another one.
Received(s) ==
    {s}
    \cup {GPS_RAW_INT(s, f) : f \in BOOLEAN}
    \cup {HEARTBEAT(s, a, m) : a \in {"yes", "no"}, m \in BOOLEAN}
    \cup {POSITION(s, h, n, v) : h \in {"low", "mid", "high"}, n \in BOOLEAN, v \in BOOLEAN}
    \cup {EXTENDED_SYS_STATE(s, g) : g \in BOOLEAN}

\* One recv_match with its timeout: a message or none.  The new telemetry with
\* the new value of a timer of the time without messages.
Receive(timer) == {<<state, timer + 1>>} \cup (Received(state) \X {0})

Cap(n, limit) == IF n > limit THEN limit + 1 ELSE n

\* telemetry.csv gets a row with the new state.
Sample == autoSeen' = (autoSeen \/ state'.AUTO)

-------------------------------------------------------------------------------
(* pump_mavlink_until, with its own start_t and last_msg_t.                 *)

NewPump == [elapsed |-> 0, quiet |-> 0]

PumpGivesUp(timeout) ==
    \/ ~sim /\ pump.elapsed > Settle
    \/ pump.elapsed > timeout
    \/ pump.quiet > Quiet

PumpReceive ==
    \E r \in Receive(pump.quiet) :
        /\ state' = r[1]
        /\ pump' = [elapsed |-> pump.elapsed + 1, quiet |-> r[2]]

-------------------------------------------------------------------------------
(* Ends of a flight.                                                       *)

Finish(s) ==
    /\ pc' = "done"
    /\ status' = s

\* A console command written to a simulator that is gone raises; run_one turns
\* it into the status "exception".
CommandFails ==
    /\ pc \in {"commands", "arm", "takeoff_params"}
    /\ ~sim
    /\ Finish("exception")
    /\ UNCHANGED <<defer, sim, attack, state, elapsed, quiet, since, pump,
                   autoElapsed, auto, autoSeen, gate, goodFor>>

\* finish_with_strict_success
Land(s) ==
    /\ Finish(s)
    /\ gate' = IF state'.alt = "low" /\ state'.near THEN "pass" ELSE "fail"

-------------------------------------------------------------------------------
(* Launch.                                                                 *)

\* Mutant: launch_param_list ignores defer_attack.
LaunchAttack_Always == TRUE

\* launch_param_list: the scenarios are 0 at launch when they are deferred.
LaunchAttack == ~defer

\* start_sim, connect_mavlink and set_run_params; any of them may raise, the
\* last one with the parameters set or not.
set_run_params ==
    /\ pc = "launch"
    /\ \/ /\ attack' = LaunchAttack
          /\ pc' = "commands" /\ UNCHANGED status
       \/ /\ attack' \in {FALSE, LaunchAttack}
          /\ Finish("exception")
    /\ UNCHANGED <<defer, sim, state, elapsed, quiet, since, pump, autoElapsed,
                   auto, autoSeen, gate, goodFor>>

\* "wp load" and "mode guided".
SendMission ==
    /\ pc = "commands"
    /\ pc' = "gps"
    /\ UNCHANGED <<defer, sim, attack, state, elapsed, quiet, since, pump,
                   autoElapsed, auto, autoSeen, status, gate, goodFor>>

wait_for_gps_fix ==
    /\ pc = "gps"
    /\ \/ /\ state.fix
          /\ pc' = "arm" /\ elapsed' = 0
          /\ UNCHANGED <<state, pump, status>>
       \/ /\ ~state.fix /\ PumpGivesUp(prearm_timeout)
          /\ Finish("prearm_timeout")
          /\ UNCHANGED <<state, pump, elapsed>>
       \/ /\ ~state.fix /\ ~PumpGivesUp(prearm_timeout)
          /\ PumpReceive
          /\ UNCHANGED <<pc, status, elapsed>>
    /\ UNCHANGED <<defer, sim, attack, quiet, since, autoElapsed, auto, autoSeen,
                   gate, goodFor>>

\* The arming loop of prepare_takeoff; monitor_flight starts with an empty
\* state and its own timers.
wait_for_armed ==
    /\ pc = "arm"
    /\ \/ /\ state.armed = "yes"
          /\ pc' = "climb"
          /\ state' = NoState /\ elapsed' = 0
          /\ UNCHANGED status
       \/ /\ state.armed # "yes" /\ elapsed >= arm_timeout
          /\ Finish("arm_timeout")
          /\ UNCHANGED <<state, elapsed>>
       \/ /\ state.armed # "yes" /\ elapsed < arm_timeout
          /\ state' \in Received(state)
          /\ elapsed' = elapsed + 1
          /\ UNCHANGED <<pc, status>>
    /\ UNCHANGED <<defer, sim, attack, quiet, since, pump, autoElapsed, auto,
                   autoSeen, gate, goodFor>>

-------------------------------------------------------------------------------
(* monitor_flight.                                                         *)

SimExited == ~sim /\ elapsed > Settle

\* The two checks at the top of the loop.
LoopExit ==
    /\ pc \in {"climb", "cruise"}
    /\ \/ SimExited /\ Finish("sim_exited")
       \/ ~SimExited /\ quiet > Quiet /\ Finish("mavlink_quiet")
    /\ UNCHANGED <<defer, sim, attack, state, elapsed, quiet, since, pump,
                   autoElapsed, auto, autoSeen, gate, goodFor>>

LoopReceive ==
    /\ ~SimExited /\ quiet <= Quiet
    /\ \E r \in Receive(quiet) : state' = r[1] /\ quiet' = r[2]
    /\ elapsed' = Cap(elapsed + 1, takeoff_timeout + Settle)
    /\ Sample

\* Mutant: takeoff_ok_since and land_ok_since are not cleared.
Sustain_NotCleared(good) ==
    since' = IF since >= 0 THEN since + 1 ELSE IF good THEN 0 ELSE -1

\* takeoff_ok_since and land_ok_since.
Sustain(good) ==
    since' = IF ~good THEN -1 ELSE since + 1

MaxSustain == takeoff_sustain + land_sustain

Sustained(good, limit) == good /\ since >= 0 /\ since + 1 >= limit

Climb ==
    /\ pc = "climb"
    /\ LoopReceive
    /\ LET high == state'.alt = "high" IN
       /\ goodFor' = IF high THEN Cap(goodFor + 1, MaxSustain) ELSE 0
       /\ \/ /\ elapsed' > takeoff_timeout
             /\ Finish("takeoff_timeout") /\ UNCHANGED since
          \/ /\ elapsed' <= takeoff_timeout /\ Sustained(high, takeoff_sustain)
             /\ pc' = "takeoff_params" /\ UNCHANGED <<status, since>>
          \/ /\ elapsed' <= takeoff_timeout /\ ~Sustained(high, takeoff_sustain)
             /\ Sustain(high) /\ UNCHANGED <<pc, status>>
    /\ UNCHANGED <<defer, sim, attack, pump, autoElapsed, auto, gate>>

\* A group of set_param calls: time passes, the loop's last_msg_t stands still.
ParamsTake(d) ==
    /\ quiet' = Cap(quiet + d, Quiet)
    /\ elapsed' = Cap(elapsed + d, takeoff_timeout + Settle)

\* The post-takeoff parameters (failsafes), then "mode auto".
TakeoffParams ==
    /\ pc = "takeoff_params"
    /\ \E d \in 0 .. ParamTime : ParamsTake(d)
    /\ \/ Finish("post_takeoff_param_failed")
       \/ pc' = "auto_wait" /\ UNCHANGED status
    /\ pump' = NewPump
    /\ UNCHANGED <<defer, sim, attack, state, since, autoElapsed, auto, autoSeen,
                   gate, goodFor>>

\* wait_for_mode AUTO; the post-AUTO parameters follow if the attack is
\* deferred.  The AUTO clock starts when the wait ends.
AutoWait ==
    /\ pc = "auto_wait"
    /\ \/ /\ state.AUTO
          /\ since' = -1 /\ goodFor' = 0
          /\ IF defer THEN pc' = "auto_params" /\ auto' = "confirmed"
                      ELSE pc' = "cruise" /\ auto' = "recorded"
          /\ UNCHANGED <<state, pump, quiet, elapsed, autoSeen, status>>
       \/ /\ ~state.AUTO /\ PumpGivesUp(auto_mode_timeout)
          /\ Finish("auto_mode_timeout")
          /\ UNCHANGED <<state, pump, quiet, elapsed, autoSeen, auto, since, goodFor>>
       \/ /\ ~state.AUTO /\ ~PumpGivesUp(auto_mode_timeout)
          /\ PumpReceive
          /\ ParamsTake(1)
          /\ Sample
          /\ UNCHANGED <<pc, status, auto, since, goodFor>>
    /\ UNCHANGED <<defer, sim, attack, autoElapsed, gate>>

AutoParams ==
    /\ pc = "auto_params"
    /\ \E d \in 0 .. ParamTime :
          ParamsTake(d) /\ autoElapsed' = Cap(d, timeout_sec)
    /\ \/ /\ attack' = TRUE
          /\ auto' = "recorded"
          /\ pc' = "cruise" /\ UNCHANGED status
       \/ /\ attack' \in BOOLEAN
          /\ Finish("post_auto_param_failed") /\ UNCHANGED auto
    /\ UNCHANGED <<defer, sim, state, since, pump, autoSeen, gate, goodFor>>

\* Mutant: the landing checks come before the timeout check.
AutoTimedOut_LandedFirst ==
    autoElapsed' > timeout_sec /\ state'.armed # "no" /\ ~state'.ground

\* Mutant: no AUTO timeout.
AutoTimedOut_Never == FALSE

AutoTimedOut == autoElapsed' > timeout_sec

Settled == autoElapsed' > Settle

Cruise ==
    /\ pc = "cruise"
    /\ LoopReceive
    /\ autoElapsed' = Cap(autoElapsed + 1, timeout_sec)
    /\ LET down == state'.alt = "low" /\ state'.slow IN
       /\ goodFor' = IF down THEN Cap(goodFor + 1, MaxSustain) ELSE 0
       /\ \/ AutoTimedOut /\ Finish("timeout_auto") /\ UNCHANGED <<since, gate>>
          \/ /\ ~AutoTimedOut /\ state'.armed = "no" /\ Settled
             /\ Land("landed_disarmed") /\ UNCHANGED since
          \/ /\ ~AutoTimedOut /\ state'.ground /\ Settled
             /\ state'.armed # "no"
             /\ Land("landed_state_ground") /\ UNCHANGED since
          \/ /\ ~AutoTimedOut /\ ~(Settled /\ (state'.armed = "no" \/ state'.ground))
             /\ IF Sustained(down, land_sustain)
                THEN Land("landed_low_alt_speed") /\ UNCHANGED since
                ELSE Sustain(down) /\ UNCHANGED <<pc, status, gate>>
    /\ UNCHANGED <<defer, sim, attack, pump, auto>>

\* The simulator process ends.
SimExit ==
    /\ pc # "done" /\ sim
    /\ sim' = FALSE
    /\ UNCHANGED <<defer, pc, attack, state, elapsed, quiet, since, pump,
                   autoElapsed, auto, autoSeen, status, gate, goodFor>>

Init ==
    /\ defer \in BOOLEAN
    /\ pc = "launch" /\ sim = TRUE /\ attack = FALSE
    /\ state = NoState /\ elapsed = 0 /\ quiet = 0 /\ since = -1
    /\ pump = NewPump /\ autoElapsed = 0 /\ auto = "no" /\ autoSeen = FALSE
    /\ status = "unknown" /\ gate = "absent" /\ goodFor = 0

Step ==
    \/ set_run_params \/ SendMission \/ wait_for_gps_fix \/ wait_for_armed
    \/ CommandFails \/ LoopExit \/ Climb \/ TakeoffParams \/ AutoWait \/ AutoParams \/ Cruise

Next == Step \/ SimExit

Spec == Init /\ [][Next]_vars

\* The loops run: recv_match returns within its timeout.
FairSpec == Spec /\ WF_vars(Step)

-------------------------------------------------------------------------------
(* Properties.                                                             *)

\* apply_strict_success_from_analysis: AUTO, and the altitude and distance that
\* finish_with_strict_success recorded; those of the last telemetry if none are.
success ==
    /\ auto = "recorded" \/ autoSeen
    /\ IF gate = "absent" THEN state.alt = "low" /\ state.near ELSE gate = "pass"

\* Every flight ends, whatever the vehicle reports and even if it keeps sending
\* messages, or none, for ever: some timeout of every loop applies.
Terminates == <>(pc = "done")

\* A flight is only reported as landed if AUTO was confirmed and recorded and
\* the AUTO timeout had not passed, whichever of the three landing checks met it
\* in the iteration in which the timeout expires.
LandedWithinTimeout ==
    status \in Landed => auto = "recorded" /\ autoElapsed <= timeout_sec

\* The altitude and landing conditions hold without a break for the whole
\* sustain time: one contrary sample restarts takeoff_ok_since, land_ok_since.
SustainIsContinuous ==
    [][/\ pc = "climb" /\ pc' = "takeoff_params" => goodFor' > takeoff_sustain
       /\ pc = "cruise" /\ status' = "landed_low_alt_speed" =>
             goodFor' > land_sustain]_vars

\* A flight is flown with the attack of its row: the attack scenarios are set in
\* every flight whose AUTO leg is recorded, deferred or not, and a deferred attack
\* is never set before the takeoff altitude is sustained, also not in a flight
\* that fails before (launch_param_list, post_auto_params).
FlownAsPlanned ==
    /\ auto = "recorded" => attack
    /\ defer /\ attack =>
          /\ pc \notin {"launch", "commands", "gps", "arm", "climb"}
          /\ status \notin {"exception", "prearm_timeout", "arm_timeout",
                            "takeoff_timeout"}

\* What the help of --defer-attack-until-after-takeoff says, the scenarios are
\* applied "after takeoff altitude is sustained and before AUTO": a deferred
\* attack is set by the time AUTO is confirmed.
AttackBeforeAuto == defer /\ auto # "no" => attack

\* What the generated report says of success, "Success means AUTO was
\* confirmed, the vehicle landed within the AUTO timeout, ...": of the flights
\* whose AUTO was confirmed, only landed ones are counted as successes.
SuccessMeansLanded ==
    pc = "done" /\ auto = "recorded" /\ success => status \in Landed
===============================================================================
