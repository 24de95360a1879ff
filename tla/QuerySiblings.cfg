CONSTANTS
    t1 = t1
    t2 = t2
    t3 = t3
    k1 = k1
    c1 = c1
    Task = {t1, t2}
    Key = {k1}
    Conv = {c1}
    KeyOf <- NoKeys
    ConvOf <- SameConv
    NoKey = NoKey
    NoConv = NoConv
    NoTask = NoTask
    ActiveLimit = 3
    MaxRounds = 1
    Interference = {"submits", "cancel", "supersede", "age"}
    MaxCrashes = 0
SPECIFICATION Spec
INVARIANTS
    OnePipeline
    EndedIsAnnounced
CONSTRAINT Calm
CHECK_DEADLOCK FALSE
