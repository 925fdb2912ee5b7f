SPECIFICATION PartSpec
CONSTANTS
    Tasks = {t1, t2}
    NoTask = NoTask
    Attempts = 4
    MaxErrors = 5
    Agents = {a1}
    MaxLines = 1
    MaxCrashes = 1
    MaxBoots = 1
    MaxReadErrors = 1
    Jobs = {1, 2}
    IssueOf <- OneIssue
    PipeCap = 1
    IdleKill = 2
    Grace = 1
    MaxOut = 2
    MaxBreaks = 2
    MaxGrabs = 2
    Issues = {1}
    Places = {"here", "elsewhere"}
    MaxDispatches = 2
    migrationTables <- ThreeTables
    Parent <- ParentOf
    SourceRows <- FirstRows
    Rows = {1, 2, 3}
    batchSize = 1
    MaxDbFaults = 2
    MaxWrites = 1
    WatchedUnits = {"coordinator"}
    Own = 1
    MaxVersion = 2
    MaxMishaps = 1
    MaxOrders = 1
INVARIANTS  EventsAreTrue
PROPERTIES SettledStays DeadIsReaped ExitsAreNoticed RunsEnd SignalEndsServe ZombiesAreSettled MigrationCompletes ReleaseIsInstalled
CHECK_DEADLOCK FALSE
