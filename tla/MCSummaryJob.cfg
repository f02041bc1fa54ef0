\* Two dashboards and one slot for the summaries.  Their loop may really stop.
SPECIFICATION MCSpec
CONSTANTS
    Dashboards = {d1, d2}
    Slots = 1
    Figures = {f1, f2}
    NoFigure = NoFigure
    Failed = Failed
    AdDashboards = {e1, e2}
    \* e2 has no profile: the job leaves it out, the handler does not
    Profiled = {e1}
    AdLevels <- TwoLevels
    AdSlots = 1
    Batches <- TwoBatches
    MaxFailures = 1
INVARIANTS
    WithinSlots
    ClosedWhenQuiet
    AnswersMatchRows
    NeverBehindTheRow
PROPERTIES
    ImplementsRounds
    EveryRunEnds
    StopsAtLast
    StoredAtLast
CHECK_DEADLOCK FALSE
