CONSTANTS
    t1 = t1
    t2 = t2
    t3 = t3
    k1 = k1
    c1 = c1
    Task = {t1, t2, t3}
    Key = {k1}
    Conv = {c1}
    KeyOf <- SameKey
    ConvOf <- SameConv
    NoKey = NoKey
    NoConv = NoConv
    NoTask = NoTask
    ActiveLimit = 3
    MaxRounds = 1
    Interference = {}
    MaxCrashes = 1
SPECIFICATION FairSpec
INVARIANTS
    OneOfEach
PROPERTIES
    ImplementsLifecycle
    Settles
CHECK_DEADLOCK FALSE
