CONSTANTS
    Workers = {w1, w2}
    Published = 4
    Deployments <- MCDeployments
    NoMessage = NoMessage
    MaxErrors = 1
    MaxRestarts = 1
SPECIFICATION FairSpec
INVARIANTS
    DropsWithinLimit
    OnePlace
PROPERTIES
    GoodGetsThrough
    UnlimitedDrains
