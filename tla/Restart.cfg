CONSTANTS
    Rooms = {r1}
    Sessions = {s1}
    Prior = {s1}
    Opened = {s1}
    Agents = {a1}
    Requests = {q1, q2}
    Keys = {k1}
    Ops = {"save", "close", "closeByGuest", "read", "list", "retention", "crash"}
    D = 1
    Retention = 1
    MaxTime = 2
    MaxCrashes = 1
    Timer = Timer
    Admin = Admin
    Guest = Guest
    None = None
SPECIFICATION FairSpec
INVARIANTS TypeOK ExpiredOnlyAfterWindow AcknowledgedIsStoredOnce
PROPERTIES LapsedSessionsExpire EveryCallAnswered EndIsAnnounced
