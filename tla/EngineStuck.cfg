SPECIFICATION FairSpec
CONSTANTS
    Orders = {o1}
    Hashes = {h1}
    Procs = {p1}
    NoOrder = NoOrder
    NoHash = NoHash
    NoProc = NoProc
    Window = 1
    Grace = 2
    StuckAfter = 2
    Attempts = 2
    MaxStalled = 1
    LocksLapse = FALSE
    MaxCrashes = 0
    MaxRetriggers = 0
PROPERTIES NoOrderStuck
