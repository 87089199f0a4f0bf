CONSTANTS
    Logins = {a, b}
    Sessions = {s1, s2}
    NoSession = NoSession
    MaxAttempts = 2
    MaxRequests = 5
SPECIFICATION FairSpec
INVARIANTS
    UsersHaveIdentities
    AttemptsAreGiven
PROPERTIES
    IdentitiesKeepTheirUser
    VerificationIsFinal
    RequestsEnd
CHECK_DEADLOCK FALSE
