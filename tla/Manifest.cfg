SPECIFICATION Spec
CONSTANTS
    a = a
    b = b
    c = c
    Conditions = {a, b, c}
    Stem <- Stems
    BasePlan <- Base
    AppendPlans <- Appended
    jobs = 2
    MaxIndex = 4
    MaxInvocations = 3
INVARIANTS RowsShareNoDirectory AppendCompletesPlan OneResultPerCondition
PROPERTIES AppendKeepsResults
CHECK_DEADLOCK FALSE
