\* Two machines, two concentrators, one address that moves between them; three changes.
SPECIFICATION FairSpec
CONSTANTS
    m1 = m1
    m2 = m2
    e1 = e1
    e2 = e2
    a1 = a1
    a2 = a2
    NoAddr = NoAddr
    Machines = {m1, m2}
    Endpoints = {e1, e2}
    Addrs = {a1}
    AdminOps = {"status", "links", "address", "token", "boot"}
    MaxOps = 3
INVARIANT OneRoute
PROPERTY AppliesWhatWasExpected
PROPERTY Converges
