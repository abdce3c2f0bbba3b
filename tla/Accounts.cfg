CONSTANTS
    admin = admin
    Accounts = {admin, new}
    Existing = {admin}
    Role <- MCRole
    LoginId <- MCLoginId
    t1 = t1
    Users <- MCUsers
    Passwords = {p1, p2}
    Tabs = {t1, t2}
    Pollers = {t1}
    MaxHashes = 2
SPECIFICATION Spec
INVARIANTS TypeOK TokenProvesCurrentPassword SignedOutTabsHoldNothing
PROPERTIES ChangeProvesReplaced RevokedPagesAreLeft
