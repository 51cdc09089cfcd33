SPECIFICATION Spec
CONSTANTS
    Tables <- SmallTables
    sequence_length = 3
    batch_size = 2
    epochs_gate = 2
    ValParts = 1
    Parts = 3
    MinGroup = 2
    MinRows = 3
INVARIANTS EpochIsAllWindows WindowsStayInFlight ValidationUnseen PredictionsMatchEndpoints
CHECK_DEADLOCK FALSE
