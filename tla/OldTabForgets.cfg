CONSTANTS
    Sessions = {s1, s2}
    Tabs = {t1, t2}
    Keys = {}
    Limit = 1
    Window = 2
    D = 1
    MaxNow = 3
    MaxVisits = 2
    None = None
SPECIFICATION Spec
INVARIANT DeviceRemembers
CHECK_DEADLOCK FALSE
