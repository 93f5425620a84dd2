SPECIFICATION FairSpec
CONSTANTS
    Orders = {o1}
    Procs = {p1, p2}
    Steady = {p1}
    ReorgBuffer = 1
    MaxRange = 2
    MaxReorg = 2
    MaxLag = 1
    MaxHeight = 3
INVARIANTS TypeOK NoLogSkipped
PROPERTIES EverySwapSeen
