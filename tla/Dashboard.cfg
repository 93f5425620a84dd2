SPECIFICATION FairSpec
CONSTANTS
    Accounts = {a, b}
    None = None
    Orders = {1, 2}
    Limit = 1
    Existing = 1
    Slots = {s1, s2}
    Calls = {c1, c2}
    Budgets <- SomeBudgets
    Tabs = {t1, other}
    Tickers = {t1}
    Pairs = {ethusd, btcusd}
    EthUsd = ethusd
    CacheTTL = 2
    MaxStaleness = 1
    MaxTime = 3
INVARIANTS TypeOK ServedFresh
PROPERTIES TableSettles NothingStaysBusy
CHECK_DEADLOCK FALSE
