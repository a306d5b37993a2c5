SPECIFICATION Spec
CONSTANTS
    s1 = s1
    s2 = s2
    Servers = {s1, s2}
    Accounts = {ann}
    DefaultServer = s1
    Host <- Hosts
    None = None
    Commands = {"login", "logout"}
    MaxCommands = 2
    MaxFaults = 1
INVARIANTS LogoutHolds
CHECK_DEADLOCK FALSE
