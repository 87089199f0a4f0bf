CONSTANTS
    Scale = 4
    Amounts <- Quarters
    Largest = 12
    MaxMoves = 4
SPECIFICATION Spec
INVARIANTS
    DriftWithinFractions
PROPERTY
    CreditsDoNotDrift
CHECK_DEADLOCK FALSE
