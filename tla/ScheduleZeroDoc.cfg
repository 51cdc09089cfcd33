SPECIFICATION Spec
CONSTANTS
    Durations = {1, 2}
    MinDuration = 1
    Delay = 1
    GpsScenarios <- OnlyDisabled
    GpsSeeds = {0}
    ImuScenarios <- OnlyDisabled
    ImuSeeds = {0}
INVARIANTS ScenarioZeroUnlabelled
