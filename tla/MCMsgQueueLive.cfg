CONSTANTS
    a = a
    b = b
    Scripts = {a, b}
    None = None
    MaxCalls <- OneEach
SPECIFICATION FairSpec
PROPERTIES CallsEnd AcceptedIsTaken QuitEnds
