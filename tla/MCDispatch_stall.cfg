SPECIFICATION FairSpec
CONSTANTS
    dev = dev  review = review  done = done  a1 = a1  a2 = a2
    Active = {dev}
    Idle = {}
    AgentsOf <- TwoAgents
    JoinOf <- AllPassed
    FirstState = dev
    Nothing = Nothing
    Threads <- AllThreads
    MaxTransitions = 2
    MaxAdvances = 0
    MaxResyncs = 0
    MaxDrops = 0
    MaxClears = 0
    MaxCrashes = 0
PROPERTY ReapedIsRedispatched
CHECK_DEADLOCK FALSE
