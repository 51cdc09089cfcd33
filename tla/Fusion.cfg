\* Every way in and out of every mode; in mode 4 filling, wrap-around, refilling
\* over old rows, and gate failures between axes.
CONSTANTS
    SeqLen = 2
    PiperModes <- AllModeValues
    Residuals <- Frames
    Full = 1
    MaxFrames = 5
    threshold <- Thresholds
    SwitchBack = 1
    NaN = NaN
    Inf = Inf
SPECIFICATION Spec
INVARIANTS TypeOK AlarmSelectsMl WindowsAligned MlShareNeedsFullWindow FusedIsFinite
PROPERTIES GateWindows RecoveryEndsQuietly DetectorNeverResets
CHECK_DEADLOCK FALSE
