CONSTANTS
    h1 = h1
    l1 = l1
    Hotels = {h1, h2}
    Rooms = {1, 2}
    RoomHotel <- MCRoomHotel
    Logs = {l1, l2}
    LogRoom <- MCLogRoom
    PageSize = 1
    MaxChanges = 2
    MaxEdits = 1
    None = None
SPECIFICATION Spec
INVARIANTS TypeOK ShownLogIsAsked DashboardShowsLastAsked ControlsFitTheLists
PROPERTY LoadingEnds
CHECK_DEADLOCK FALSE
