CONSTANTS
    Sessions = {s1, s2}
    Tabs = {t1}
    Keys = {"create", s1, t1}
    Limit = 1
    Window = 2
    D = 1
    MaxNow = 2
    MaxVisits = 2
    None = None
SPECIFICATION Spec
INVARIANTS TypeOK RestorableUntilEnded LimitHolds
PROPERTIES WindowsDoNotOverlap EndedIsForgotten DeadlineIsKept
CHECK_DEADLOCK FALSE
