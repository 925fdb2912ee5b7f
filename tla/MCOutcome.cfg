SPECIFICATION PartSpec
CONSTANTS
    Runs = {"r1", "r2"}
    Why = {"tree", "exec"}
    Claims = {"artifact"}
    dedupTTL = 1
    RetryLimit = 1
    MaxTicks = 1
    MaxGHErrors = 1
    Sandboxed = {"dev", "review"}
    Conditions = {}
    Observed = TRUE
    MaxRounds = 2
    MaxEdits = 1
    MaxGHFaults = 1
    Trigger <- DevThenReview
    StateOrder <- StatusLabels
    Transitions <- Edges
    Target <- ReviewOrLeave
    Watchers = {w1, w2}
    leaseExpiredGrace = 0
    taskStuckAfter = 0
    missingLabelAfter = 0
    pollInterval = 1
    heartbeatStaleAfter = 1
    DedupWindow = 1
    RecentAlerts = 6
    MaxTime = 1
    MaxChanges = 1
    MaxBoots = 3
    MaxTroubles = 2
    Pids = {2, 3, 4, 5, 6}
    Shell = 2
    Self = 3
    FirstProcs <- FiveProcesses
    Branches = {"b1", "b2"}
    PRLimit = 1
    MaxMoves = 1
    MaxHostFaults = 1
    MaxCommands = 1
  
PROPERTIES HandedOnce 
CHECK_DEADLOCK FALSE
