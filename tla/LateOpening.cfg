CONSTANTS
    Sessions = {s1}
    Tabs = {t1}
    Keys = {}
    Limit = 1
    Window = 2
    D = 1
    MaxNow = 2
    MaxVisits = 1
    None = None
SPECIFICATION AttentiveSpec
PROPERTY TokenGoneAtDeadline
CHECK_DEADLOCK FALSE
