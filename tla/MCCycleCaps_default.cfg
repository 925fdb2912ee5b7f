SPECIFICATION FairSpec
CONSTANTS
    Rollouts = FALSE
    MaxTotal = 4
    MaxRetries = 2
    MaxReviewCycles = 2
    MaxSynthCycles = 1
    MaxResyncs = 1
    MaxHumans = 1
PROPERTY NoFreeRun 
CHECK_DEADLOCK FALSE
