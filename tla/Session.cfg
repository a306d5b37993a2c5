SPECIFICATION Spec
CONSTANTS
    s1 = s1
    s2 = s2
    Servers = {s1, s2}
    Accounts = {ann, bob}
    DefaultServer = s1
    Host <- Hosts
    None = None
    Commands = {"login", "logout", "switch", "restore", "sync", "edit"}
    MaxCommands = 3
    MaxFaults = 1
INVARIANTS SessionTypeOK TokensStayHome StoredIsLive LateIsBounded LogoutHoldsUnlessRaced WorkIsOwn
PROPERTIES CursorIsOwn
SYMMETRY AccountSymmetry
CHECK_DEADLOCK FALSE
