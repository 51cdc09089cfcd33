SPECIFICATION Spec
CONSTANTS
    Invocations <- AllFlags
    MaxAttempts = 2
INVARIANTS RootIsBacked ResumeRepairs
PROPERTIES SkippedHasResult CompletedIsKept AttemptsAreKept
