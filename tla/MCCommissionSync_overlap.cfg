\* Two overlapping syncs and the backfill of one collaborator, one ad, one day.
SPECIFICATION Spec
CONSTANTS
    ticker = ticker
    manual = manual
    u1 = u1
    u2 = u2
    a1 = a1
    a2 = a2
    c1 = c1
    c2 = c2
    Codes = {c1, c2}
    NoCode = NoCode
    Unparseable = Unparseable
    Users = {u1}
    Syncs = {ticker, manual}
    Ticker = ticker
    Ads = {a1}
    LastDay = 1
    AdNames <- BothOrOther
    Nets <- LossOrProfit
    Rates = {10}
    MaxRevisions = 2
    MaxEdits = 0
    MaxFailures = 1
INVARIANTS
    TypeOK
    EntriesHaveSnapshots
    EntriesJustified
    PaidOnSnapshot
    LinksJustified
PROPERTIES
    BackfillOnlyAdds
