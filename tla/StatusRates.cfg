\* One concentrator, one run at a time; counters grow, reset and leave.
SPECIFICATION Spec
CONSTANTS
    m1 = m1
    k1 = k1
    k2 = k2
    e1 = e1
    e2 = e2
    Machines = {m1}
    Keys = {k1}
    FirstKey <- OneMachine
    Endpoints = {e1}
    Retention = 3
    Window = 2
    InOrder = TRUE
    Dropping = TRUE
    Carries <- Everything
    PerSecond = 1
    MaxClock = 4
    MaxBytes = 2
    MaxWire = 1
INVARIANT RatesHonest
INVARIANT RatesAgree
