SPECIFICATION FairSpec
CONSTANTS
    N = 2
    MaxU16 = 7
    Tolerance = 2
    Delays = {0, 2, 4}
    Tasks = {t1, t2}
    Handles = 1
INVARIANTS TypeOK WithinTolerance
PROPERTIES SwitchIsJustified CancelEndsTasks
CHECK_DEADLOCK FALSE
