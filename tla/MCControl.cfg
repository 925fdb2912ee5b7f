SPECIFICATION PartSpec
CONSTANTS
    w1 = w1
    w2 = w2
    Workers = {w1, w2}
    Sessions = {1, 2, 3}
    OwnerOf <- Owners
    Pages <- TwoPages
    Lists = {l1, l2}
    SinglePod = FALSE
    MaxChanges = 2
    Open = {1, 2, 3}
    References = {"local", "foreign"}
    Numbers = {1, 2}
    DependsOn <- SecondNeedsFirst
    ListLimit = 2
    QueueCap = 1
    MaxBackoff = 1
    MaxMoves = 1
    MaxFaults = 1
    MaxReloads = 1
    Callers = {"http", "watcher"}
    Versions = {1, 2}
    Serial = TRUE
    MaxFailures = 2
    MaxEdits = 2
    MaxCalls = 3
    BoundRepos = {"r1", "r2"}
    Paths = {1, 2}
    Cli <- OnlyFirst
    Askers = {"a", "b"}
    Overlap = FALSE
    Slots = 1
    MaxAsks = 1
    MaxGlitches = 1
    MaxStarts = 2
    MaxTokens = 2
    TreeIssues = {1, 2}
    Rollouts = {1}
    Runners = {"x", "y"}
    MaxWorkerCrashes = 1
    Watchers = {11}
    Publishers = {"result"}
    Pool = {1}
    Senders <- OneSender
    Batching = FALSE
    NotifySuccess = FALSE
    Buffer = 1
    QueueSize = 2
    Attempts = 1
    Window = 2
    MaxClock = 1
    MaxPublished = 2
    MaxApplies = 2
    MaxNotSent = 1
    Chats = {"c1", "c2"}
    EventCap = 1
    MaxFrames = 1
    MaxLinks = 2
INVARIANTS PageIsGlobal EveryCycleIsReported   HeldTreesStay 
PROPERTIES NoneSlipsPastAVerdict 
CHECK_DEADLOCK FALSE
