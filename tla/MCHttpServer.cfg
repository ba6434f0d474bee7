CONSTANTS
    s = s
    t = t
    Sessions = {s, t}
    Host = Host
    Server = Server
    One = One
    None = None
    MaxConn = 3
SPECIFICATION FairSpec
INVARIANTS NothingIsLeft
PROPERTIES OverGoes ShutGoes
CHECK_DEADLOCK FALSE
