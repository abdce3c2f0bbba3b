CONSTANTS
    Rooms = {r1}
    Sessions = {s1}
    Prior = {s1}
    Opened = {}
    Agents = {a1, a2}
    Requests = {q1, q2, q3}
    Keys = {k1, k2}
    Ops = {"open", "save", "deleteRoom"}
    D = 1
    Retention = 2
    MaxTime = 1
    MaxCrashes = 0
    Timer = Timer
    Admin = Admin
    Guest = Guest
    None = None
SYMMETRY RequestSymmetry
SPECIFICATION Spec
INVARIANTS TimerStartsWithFirstReply ActivityIsAMessage NoOrphanMessage
PROPERTY WindowNeverMoves
