CONSTANTS
    Rooms = {r1}
    Sessions = {s1, s2}
    Prior = {}
    Opened = {}
    Agents = {a1, a2}
    Requests = {q1, q2, q3, q4}
    Keys = {}
    Ops = {"create", "open", "close", "closeByGuest", "deleteRoom", "deleteAgent"}
    D = 1
    Retention = 2
    MaxTime = 1
    MaxCrashes = 0
    Timer = Timer
    Admin = Admin
    Guest = Guest
    None = None
SYMMETRY RequestSymmetry
SPECIFICATION Spec
INVARIANTS OneOpenSessionPerRoom OneOwner
PROPERTIES NeverReopens GuestCloseKeepsTheRecord KeepsLifecycle
