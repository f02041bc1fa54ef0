SPECIFICATION MCSpec
CONSTANTS
    Collaborators = {u}
    Staff = Staff
    Dashboards = {d1, d2}
    Named = {d1}
    Requests = {r1}
    Kinds = {"summary", "history"}
    TTL <- OneTick
    MaxVersions = 1
    AllOfThem = AllOfThem
    NoRow = NoRow
    NoEntry = NoEntry
    Unstored = Unstored
INVARIANTS
    TypeOK
    OwnScope
    CheckedEachTime

