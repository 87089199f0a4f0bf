CONSTANTS
    Persons = {ann, bob}
    Emails = {e1, e2}
    Member = ann
    MemberEmail = e1
    Handlers = {h1, h2}
    NoEmail = NoEmail
    MaxAttempts = 2
    MaxUpdates = 2
    MaxHeld = 2
    MaxFailures = 1
SPECIFICATION FairSpec
INVARIANTS
    TasksNeedFailures
    StraysNeedOverlap
PROPERTIES
    TasksNeedVerified
    UpdatesAreAnswered
CHECK_DEADLOCK FALSE
