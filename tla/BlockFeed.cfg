SPECIFICATION Spec
CONSTANTS
    k1 = k1
    k2 = k2
    k3 = k3
    k4 = k4
    k5 = k5
    k6 = k6
    Chain <- MCChain
    MaxBlocksStat = 5
    MaxLatestBlocks = 3
    AutoUpdateTimeMs = 3
    Gaps = {1, 2}
    MaxRedeliveries = 1
    MaxRestarts = 1
INVARIANTS
    TypeOK
    LatestDistinct
    ConfTimeIsMeanGap
CHECK_DEADLOCK FALSE
