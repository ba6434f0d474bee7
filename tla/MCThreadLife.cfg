CONSTANT MaxStarts = 3
SPECIFICATION FairSpec
INVARIANTS TypeOK RiIsThere StoppedIsGone InitStatusIsValid CountIsRunning StopIsPrompt
PROPERTY StopComesBack
CHECK_DEADLOCK FALSE
