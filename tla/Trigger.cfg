SPECIFICATION FairSpec
CONSTANTS
    Orders = {1, 2}
    Procs = {p1, p2}
    Starts <- Scenes
    Prices = {100, 102}
    MaxStaleness = 0
    MaxDivergence = 199
    BatchSize = 1
INVARIANTS TypeOK FiredOnTrustedPrice
PROPERTIES ReachedFires FiresOnce
