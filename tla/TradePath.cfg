SPECIFICATION Spec
CONSTANTS
    Orders = {o1}
    Users = {alice}
    Keys = {key}
    Nobody = Nobody
    MaxAmount = 30
    MaxHeld = 1000
    Requests <- SomeRequests
    Caps = {2, 20, 30}
    Tiers <- TwoTiers
    Outs = {0, 97, 99, 100}
    SlippageBps = 100
    DeadlineWindow = 1
    MaxFee = 2
    MaxQuoteAge = 1
    Fees = {1, 3}
    ApiAddress <- Addresses
    ExecutorAddress <- Addresses
    MaxTime = 3
    MaxChanges = 2
CHECK_DEADLOCK FALSE
INVARIANTS TypeOK FillNearBestQuote FillNotLate FilledAsAdmitted AdmittedWithinLimits
