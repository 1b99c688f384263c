\* One machine in use and one idle, on two concentrators whose agents fall silent together;
\* administrators enable and delete; writes fail, and the process dies once.
SPECIFICATION RetrySpec
CONSTANTS
    m1 = m1
    m2 = m2
    m3 = m3
    e1 = e1
    e2 = e2
    Machines = {m1, m2}
    Endpoints = {e1, e2}
    HubOf <- OnTwo
    Days = 1
    Action = "disable"
    Steady = {m1}
    Together = TRUE
    MidSweep = FALSE
    AdminOps = {"enable", "delete"}
    FirstStatus = {"active"}
    MayFail = TRUE
    MaxCrashes = 1
 
INVARIANT AlertOnce
PROPERTY IdleActedOn
PROPERTY FlagClears
