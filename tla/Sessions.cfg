\* Two sessions, two requests at once; the clock runs past the longest life.
SPECIFICATION FairSpec
CONSTANTS
    s1 = s1
    s2 = s2
    s3 = s3
    w1 = w1
    w2 = w2
    admin = admin
    user = user
    None = None
    Sids = {s1, s2}
    Users = {admin, user}
    LocalAdmin = admin
    Workers = {w1, w2}
    TTL = 2
    MaxLife = 3
    MaxChanges = 1
    MayFail = TRUE
PROPERTY SessionsEnd
INVARIANT DeadIsPurged
INVARIANT RevokedStaysOut
INVARIANT LostOnlyIfLapsed
