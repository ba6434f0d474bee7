CONSTANTS
    s = s
    t = t
    x = x
    y = y
    b = b
    c = c
    Scripts = {s, t}
    Host = Host
    Names = {x, y}
    Blocks = {b, c}
    Foreign = Foreign
    None = None
    Timeout = 0
SPECIFICATION FairSpec
INVARIANTS CountIsExact
  
