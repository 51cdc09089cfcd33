\* Ctrl-C only: no process is killed.
SPECIFICATION UnkilledSpec
CONSTANTS
    Invocations <- AllFlags
    MaxAttempts = 2
PROPERTY InterruptedStillAggregates
