SPECIFICATION TeamSpec
CONSTANTS
    Id = {1, 2, 3}
    f = f
    g = g
    File = {f, g}
    Request <- Pair
    ConfiguredWaveSize = 2
    EventBudget = 1
    Crowded <- Nobody
PROPERTY OwnershipEnforced
