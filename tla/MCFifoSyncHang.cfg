CONSTANTS
    Overhead = 1
    Header = 1
    MaxSize = 64
    PowerBits = 8
    BytesPerSlot = 2
    SlotHeader = 1
    Blocks = {1, 2, 3, 8}
    Starts <- SmallStarts
    MaxBlocks = 5
SPECIFICATION FifoSpec
INVARIANT OverwriteEnds
CHECK_DEADLOCK FALSE
