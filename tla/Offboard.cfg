\* The leaver has two machines; the directory is down or answers "absent" for everyone; queries,
\* writes and posts fail, and the process dies once.
SPECIFICATION RetrySpec
CONSTANTS
    u1 = u1
    u2 = u2
    u3 = u3
    u4 = u4
    m1 = m1
    m2 = m2
    m3 = m3
    m4 = m4
    Owners = {u1, u2}
    Machines = {m1, m2, m3}
    OwnerOf <- TwoOfOne
    Grace = 2
    Day = 2
    Action = "disable"
    Leavers = {u1}
    AdminOps = {"disable"}
    Directories = {"ok", "down", "broken"}
    FirstStatus = {"active"}
    MayFail = TRUE
    MaxCrashes = 1
INVARIANT NoHastyCut
INVARIANT AnnouncedCut
INVARIANT AlertOnce
INVARIANT BrokenDirectoryHarmless
PROPERTY DepartedCutOff
