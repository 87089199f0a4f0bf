CONSTANTS
    Users = {alice}
    Sessions = {s1, s2, s3}
    Amounts <- MCAmounts
    NoSession = NoSession
    MaxRequests = 3
SPECIFICATION FairSpec
INVARIANTS
    BalanceMatchesJournal
    OwesOnlyIfAllowed
PROPERTIES
    ImplementsLedger
    EveryRequestEnds
