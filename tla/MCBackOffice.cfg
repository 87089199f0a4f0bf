CONSTANTS
    Threads = {t1, t2}
    Tasks <- MCTasks
    Price <- MCPrice
    UserTopup = 2
    AdminTopup = 3
    AdminDebit = 1
    Requests <- MCRequests
    MaxSessions = 2
    MaxTransfers = 1
    MaxMigrations = 1
SPECIFICATION FairSpec
INVARIANTS
    BooksBalance
    MigrationsEndAsNew
    StatisticsCoverTasks
    RowsAreTrue
PROPERTIES
    WriteBackNeedsWindow
    ScriptEnds
CHECK_DEADLOCK FALSE
