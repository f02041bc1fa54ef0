\* A refused request, a call that ended and an exhausted bound may stop a part.
SPECIFICATION MCSpec
CONSTANTS
    Emails = {e1, e2}
    Passwords = {p1, p2}
    Requests = {r1, r2}
    None = None
    MaxCommands = 2
    \* one company; the role of an administrator, a manager and a collaborator
    Companies = {c1}
    CompanyRoles = {"admin", "gestor_trafego", "closer"}
    a1 = a1
    a2 = a2
    d1 = d1
    \* two ads that two dashboards may list, two days of which a page shows one
    Ads = {a1, a2}
    Dashboards = {d1, d2}
    PageRoles = {"copywriter", "editor"}
    LastDay = 2
    Period = {1}
    Earned <- OneAndTen
    MaxChanges = 1
    \* twelve retries and the minute of the limit become three and three ticks;
    \* a burst asks for four tools, twice as many as the limit lets through
    Calls = {k1, k2, k3}
    Jobs = {k1}
    LookUps = {k2}
    MaxRetries = 3
    RequestTicks = 1
    Deadline = 4
    Quota = 2
    Window = 3
    Crowd = 2
INVARIANTS
    SessionsAreVouched
    IdentityIsTheRequests
    BehindItsGuards
    ServedWithoutPrefix
    TotalIsTheHistorys
    MonthlyShowsNoLess
    OutlastsTheLimit
    EndsInTime
PROPERTIES
    SetupsKeepOthers
CHECK_DEADLOCK FALSE
