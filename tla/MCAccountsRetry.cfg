CONSTANTS
    Logins = {a}
    Sessions = {s1, s2}
    NoSession = NoSession
    MaxAttempts = 1
    MaxRequests = 4
SPECIFICATION Spec
PROPERTIES
    RegisterAgainWorks
CHECK_DEADLOCK FALSE
