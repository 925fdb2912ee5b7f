SPECIFICATION Spec
CONSTANTS
    c1 = c1  c2 = c2
    t1 = t1  t2 = t2  t3 = t3  t4 = t4
    Coords = {c1, c2}
    Issues = {1}
    Tokens = {t1, t2, t3}
    NoToken = NoToken
    PidOf <- OtherPids
    MaxReleases = 1
    MaxRestarts = 1
SYMMETRY Symmetry
INVARIANTS TokensAreFences
PROPERTY LiveClaimIsSafe
