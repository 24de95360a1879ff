CONSTANTS
    e1 = e1
    e2 = e2
    e3 = e3
    a = a
    b = b
    c = c
    h1 = h1
    h2 = h2
    Event = {e1, e2}
    Aggregate = {a, b, c}
    AggOf <- Shared
    Hook = {h1, h2}
    Wants <- WantsSome
    Pass = {p1, p2}
    Tiers = 1
    EmitOverlap = FALSE
    MaxRedeliveries = 1
    MaxCrashes = 0
SPECIFICATION Spec
INVARIANTS
    AtLeastOnce
    OutboxInvariant
CHECK_DEADLOCK FALSE
