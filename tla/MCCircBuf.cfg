CONSTANTS
    Overhead = 1
    Header = 1
    MaxSizes = {4, 64}
    PowerBits = 8
    Chunks = {1, 2, 3, 7}
    MaxBytes = 9
SPECIFICATION Spec
INVARIANTS TypeOK CountMatches LatestBytes DataIsAnnounced
CHECK_DEADLOCK FALSE
