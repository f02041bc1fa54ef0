SPECIFICATION Spec
CONSTANTS
    a1 = a1
    a2 = a2
    Ads = {a1, a2}
    Dashboards = {d1, d2}
    Roles = {"copywriter", "editor"}
    LastDay = 2
    Period = {1, 2}
    Earned <- Figures
    None = None
    MaxChanges = 1
INVARIANT RoasIsOfOneAggregation
CHECK_DEADLOCK FALSE
