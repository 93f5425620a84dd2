SPECIFICATION Spec
CONSTANTS
    Orders = {o1}
    Hashes = {h1, h2}
    Procs = {p1, p2}
    NoOrder = NoOrder
    NoHash = NoHash
    NoProc = NoProc
    Window = 1
    Grace = 2
    StuckAfter = 2
    Attempts = 2
    MaxStalled = 1
    LocksLapse = TRUE
    MaxCrashes = 0
    MaxRetriggers = 0
SYMMETRY BothSymmetry
INVARIANTS TypeOK OneTransactionPerOrder CancelledNeverTrades
PROPERTIES ImplementsLifecycle
