CONSTANTS
    guest = guest
    s1 = s1
    Pages = {guest, panel}
    Sessions = {s1, s2}
    Shows <- MCShows
    Messages = {m1}
    MaxMounts <- MCMounts
    MaxDrops = 2
    None = None
SPECIFICATION Spec
INVARIANTS TypeOK ScreenShowsOwnMessages OwedIsOnItsWay
PROPERTY SteadyPagesMissNothing
CHECK_DEADLOCK FALSE
