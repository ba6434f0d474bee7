CONSTANT MaxStarts = 2
SPECIFICATION Spec
INVARIANT RunningIsSeen
CHECK_DEADLOCK FALSE
