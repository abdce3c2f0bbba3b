CONSTANTS
    Sessions = {s1, s2}
    Tabs = {t1, t2}
    Keys = {}
    Limit = 1
    Window = 2
    D = 1
    MaxNow = 1
    MaxVisits = 1
    None = None
SPECIFICATION Spec
PROPERTY OnlyOldPagesForget
CHECK_DEADLOCK FALSE
