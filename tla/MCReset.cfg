CONSTANTS
    Emails = {a, b}
    Verified = {a}
    Sessions = {s1, s2}
    MaxPerHour = 3
    MaxRequests = 5
SPECIFICATION FairSpec
INVARIANTS
    LinksWithinLimit
    UsedLinksStay
    OldTokensRevoked
    UsesNeedOverlap
PROPERTIES
    DeletedLinksAreDead
    RequestsEnd
CHECK_DEADLOCK FALSE
