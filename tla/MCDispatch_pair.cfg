SPECIFICATION Spec
CONSTANTS
    dev = dev  review = review  done = done  a1 = a1  a2 = a2
    Active = {dev}
    Idle = {}
    AgentsOf <- TwoAgents
    JoinOf <- AnyPassed
    FirstState = dev
    Nothing = Nothing
    Threads <- AllThreads
    MaxTransitions = 1
    MaxAdvances = 0
    MaxResyncs = 1
    MaxDrops = 1
    MaxClears = 1
    MaxCrashes = 1
INVARIANTS TypeOK OncePerGroup
CHECK_DEADLOCK FALSE
