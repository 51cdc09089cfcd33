SPECIFICATION Spec
CONSTANTS
    prearm_timeout = 2
    arm_timeout = 2
    takeoff_timeout = 3
    takeoff_sustain = 1
    auto_mode_timeout = 2
    timeout_sec = 3
    land_sustain = 1
    Quiet = 1
    Settle = 1
    ParamTime = 2
CHECK_DEADLOCK FALSE
INVARIANT AttackBeforeAuto
