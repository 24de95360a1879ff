CONSTANTS
    Job = {j1, j2}
    Tick = {k1, k2}
    Period = 2
    Grace = 1
    MaxTime = 4
    MaxEdits = 3
    MaxFails = 1
    MaxCrashes = 1
SPECIFICATION FairSpec
INVARIANTS
    RunsSound
PROPERTIES
    ClaimedIsRecorded
CHECK_DEADLOCK FALSE
