\* Two concentrators carry the machine; uploads are lost, repeated and reordered;
\* the owner replaces the key, which no concentrator carries yet.
SPECIFICATION Spec
CONSTANTS
    m1 = m1
    k1 = k1
    k2 = k2
    e1 = e1
    e2 = e2
    Machines = {m1}
    Keys = {k1, k2}
    FirstKey <- OneMachine
    Endpoints = {e1, e2}
    Retention = 0
    Window = 1
    InOrder = FALSE
    Dropping = FALSE
    Carries <- KeptKeys
    PerSecond = 1
    MaxClock = 2
    MaxBytes = 0
    MaxWire = 2
INVARIANT SeenIsLatestReported
PROPERTY HandshakeKept
SYMMETRY Alike
