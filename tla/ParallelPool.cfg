CONSTANTS
    Workers = {w1, w2}
    NTasks = 3
SPECIFICATION FairSpec
INVARIANTS TypeOK AllRowsFlown NoSimulatorLeft
PROPERTIES ParentGetsOut
CHECK_DEADLOCK FALSE
