CONSTANTS
    Sessions = {s1}
    Agents = {me, other}
    me = me
    MaxMessages = 1
    MaxReads = 1
    MaxEvents = 1
    MaxFaults = 1
    None = None
SPECIFICATION Spec
INVARIANTS TypeOK OnlyOwnConversations
PROPERTIES NewSessionIsAnnouncedOnce DeskConverges
CHECK_DEADLOCK FALSE
