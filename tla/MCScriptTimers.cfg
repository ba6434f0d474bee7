CONSTANTS
    Periods <- TwoPeriods
    Times = {1}
    MaxId = 2
    MaxClock = 5
    TicksPerMs = 2
    TicksPerSec = 2
    MaxFreq = 4
    Width = 8
SPECIFICATION FairSpec
INVARIANTS TypeOK GivenIsRealTime KilledCalledOnceMore
PROPERTIES ArmedIsCalled DoneGoes
