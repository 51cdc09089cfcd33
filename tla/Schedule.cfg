SPECIFICATION FairSpec
CONSTANTS
    Durations = {1, 2}
    MinDuration = 1
    Delay = 1
    GpsScenarios <- GpsValues
    GpsSeeds = {0, 1}
    ImuScenarios <- ImuValues
    ImuSeeds = {0}
INVARIANTS TypeOK LabelMatchesInjection InjectionIsScheduled
PROPERTIES BurstsSeparated AxesAlternate LabelKeepsCycling DisableTakesEffect
