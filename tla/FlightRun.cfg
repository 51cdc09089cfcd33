SPECIFICATION FairSpec
CONSTANTS
    prearm_timeout = 4
    arm_timeout = 2
    takeoff_timeout = 5
    takeoff_sustain = 2
    auto_mode_timeout = 2
    timeout_sec = 5
    land_sustain = 2
    Quiet = 2
    Settle = 1
    ParamTime = 2
CHECK_DEADLOCK FALSE
INVARIANTS LandedWithinTimeout FlownAsPlanned
PROPERTIES SustainIsContinuous Terminates
