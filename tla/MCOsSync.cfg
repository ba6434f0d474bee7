CONSTANTS
    s = s
    t = t
    u = u
    Threads = {s, t, u}
    None = None
    MaxDepth = 2
    MaxCancels = 1
SPECIFICATION FairSpec
INVARIANTS OwnerIsTrue SuccessMeansSignalled NoLostWakeup
PROPERTIES CallsEnd
