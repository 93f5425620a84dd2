SPECIFICATION Spec
CONSTANTS
    Orders = {o1}
    Hashes = {h1, h2}
    Procs = {p1}
    NoOrder = NoOrder
    NoHash = NoHash
    NoProc = NoProc
    Window = 1
    Grace = 2
    StuckAfter = 2
    Attempts = 3
    MaxStalled = 1
    LocksLapse = FALSE
    MaxCrashes = 1
    MaxRetriggers = 0
PROPERTIES TerminalStaysTerminal
