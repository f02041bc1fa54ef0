\* The scheduler and, early, manual calls, on two ads and two days, against
\* revisions, edits, failures and restarts.
SPECIFICATION FairSpec
CONSTANTS
    ticker = ticker
    manual = manual
    u1 = u1
    u2 = u2
    a1 = a1
    a2 = a2
    c1 = c1
    c2 = c2
    Codes = {c1}
    NoCode = NoCode
    Unparseable = Unparseable
    Users = {u1}
    Syncs = {ticker, manual}
    Ticker = ticker
    Ads = {a1, a2}
    LastDay = 2
    AdNames <- OneName
    Nets <- LossOrProfit
    Rates = {10}
    MaxRevisions = 2
    MaxEdits = 1
    MaxFailures = 1
ACTION_CONSTRAINTS
    FiguresInTurn
    AdsInTurn
    ManualEarly
PROPERTIES
    SyncIsAtomic
    ClosedDaysStay
    EventuallySettled
