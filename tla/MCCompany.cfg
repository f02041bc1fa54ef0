SPECIFICATION MCSpec
CONSTANTS
    u1 = u1
    u2 = u2
    e1 = e1
    e2 = e2
    p1 = p1
    p2 = p2
    None = None
    Users = {u1, u2}
    Emails = {e1, e2}
    Passwords = {p1, p2}
    Roles = {"editor"}
    Rates = {1, 2}
    Requests = {r1, r2}
    Life = 1
    MaxEdits = 2
    Founded <- OneFounder
    Asks <- MixedAsks
    SetupRequests = {q1, q2, q3}
    Slugs = {s1, s2}
    c1 = c1
    d1 = d1
    d2 = d2
    g1 = g1
    AllOfThem = AllOfThem
    NoEntry = NoEntry
    Unstored = Unstored
    Staff = Staff
INVARIANTS
    SessionsAreVouched
    RatesCheckNeverFires
    ConflictsAreReal
    ListsAreWhole
PROPERTIES
    PasswordsAreVouched
    UpdatesLoseOnlyOverlaps
    SentAwayAtLast
    EveryRequestEnds
    ImplementsDirectory
    BlockTakesEffect
    StoredIsShown
