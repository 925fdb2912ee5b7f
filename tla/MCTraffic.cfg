SPECIFICATION PartSpec
CONSTANTS
    MaxConns = 2
    Calls = {r1, r2}
    MaxCuts = 1
    HookNames = {"fast", "slow"}
    Slow = {"slow"}
    MaxEvents = 3
    HookDef <- TwoHooks
    EventDef <- SecondIsLow
    Cap = 1
    Threshold = 2
    RingSize = 6
    Reloaders = {"r1"}
    MaxGens = 2
    Tasks = {1}
    Workers = {w1}
    NoWorker = NoWorker
    Serves <- MCServes
    Repos = {repo}
    RepoOf <- MCRepoOf
    Outcomes = {"completed", "failed"}
    Concurrency = 1
    SubmitAttempts = 2
    MaxClaims = 1
    MaxCrashes = 1
INVARIANTS OneRunPerHook
PROPERTIES RunningRowsMove SlotsAreFreed CallsEnd OthersProceed
CHECK_DEADLOCK FALSE
