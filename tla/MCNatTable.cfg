SPECIFICATION FairSpec
CONSTANTS
    Keys = {k1, k2}
    Shards = 2
    k1 = k1
    k2 = k2
    ShardOf <- MCShardOf
    Timeout = 1
    Loops = {l1}
    Callers = {c1}
    Handles = 1
    MaxChurn = 1
    Absent = Absent
INVARIANTS TypeOK UsedSessionsStay CountWithinChurn
PROPERTIES IdleSessionsGo CancelEndsLoops
CHECK_DEADLOCK FALSE
