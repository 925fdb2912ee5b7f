CONSTANTS
    Tasks = {1}
    Workers = {w1, w2}
    NoWorker = NoWorker
    Serves <- MCServes
    Repos = {repo}
    RepoOf <- MCRepoOf
    Outcomes = {"completed", "failed"}
    Concurrency = 1
    SubmitAttempts = 1
    MaxClaims = 2
    MaxCrashes = 1
SPECIFICATION Spec
INVARIANTS SignalsAreTrue AckedIsDurable OwnerIsLatestClaimant
PROPERTIES NeverResurrected NoStealUnderLease ImplementsOnce
SYMMETRY Symmetry
