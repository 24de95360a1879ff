SPECIFICATION LlmSpec
CONSTANTS
    LlmCalls = {"c1"}
    MaxRecords = 2
    ListTTL = 2
    KeyTTL = 3
    LlmLatency = 1
    LlmClockBound = 8
INVARIANTS
    KeyIsRecent
CHECK_DEADLOCK FALSE
