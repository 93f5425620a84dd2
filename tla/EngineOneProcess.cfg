SPECIFICATION FairSpec
CONSTANTS
    Orders = {o1}
    Hashes = {h1}
    Procs = {p1}
    NoOrder = NoOrder
    NoHash = NoHash
    NoProc = NoProc
    Window = 1
    Grace = 2
    StuckAfter = 2
    Attempts = 1
    MaxStalled = 1
    LocksLapse = FALSE
    MaxCrashes = 1
    MaxRetriggers = 0
INVARIANTS BroadcastIsRecorded DroppedIsFinal
PROPERTIES FailureHidesNoTrade SubmittedResolves SettlementIsReported
