SPECIFICATION FairSpec
CONSTANTS
    Rollouts = TRUE
    MaxTotal = 3
    MaxRetries = 2
    MaxReviewCycles = 2
    MaxSynthCycles = 1
    MaxResyncs = 0
    MaxHumans = 0
PROPERTY Quiesces
CHECK_DEADLOCK FALSE
