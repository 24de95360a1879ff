CONSTANTS
    Exec = {e1, e2, e3}
    Interference = {}
    MaxLapses = 2
    MaxCrashes = 1
    NoExec = NoExec
SPECIFICATION Spec
INVARIANTS
    ExclusiveHolder
    EarlyRerunServed
PROPERTIES
    FencesInOrder
CHECK_DEADLOCK FALSE
