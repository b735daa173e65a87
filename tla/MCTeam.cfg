SPECIFICATION MCSpec
CONSTANTS
    Id = {1, 2, 3, 4}
    f = f
    g = g
    File = {f, g}
    EventBudget = 1
    Request <- MCRequest
    ConfiguredWaveSize = 2
    Crowded <- MCCrowded
INVARIANTS
    TeamTypeOK
    EarlierWavesCompleted
    DependenciesCompleted
    VerifiedAlone
    ResultTrue
    RunningWithinLimit
PROPERTIES
    ScheduleSafe
    RunsAtMostOnce
    NothingCompletesAfterDisconnect
    EveryRequestEnds
