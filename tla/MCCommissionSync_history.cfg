\* A sync that read the collaborators before the backfill and commits after it.
SPECIFICATION Spec
CONSTANTS
    ticker = ticker
    manual = manual
    u1 = u1
    u2 = u2
    a1 = a1
    a2 = a2
    c1 = c1
    c2 = c2
    Codes = {c1}
    NoCode = NoCode
    Unparseable = Unparseable
    Users = {u1}
    Syncs = {manual}
    Ticker = ticker
    Ads = {a1}
    LastDay = 1
    AdNames <- OneName
    Nets <- OneProfit
    Rates = {10}
    MaxRevisions = 1
    MaxEdits = 0
    MaxFailures = 0
INVARIANTS
    HistoryIsLinked
