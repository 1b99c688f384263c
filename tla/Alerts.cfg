\* One concentrator and one key; pages, metrics and alerts share the cache; queries fail,
\* posts are lost, the process dies once.
SPECIFICATION FairSpec
CONSTANTS
    k1 = k1
    k2 = k2
    e1 = e1
    e2 = e2
    Keys = {k1}
    Endpoints = {e1}
    Types = {"unlinked"}
    Aged = {"unlinked"}
    TTL = 2
    Torn = FALSE
    MayFail = TRUE
    LookupFails = FALSE
    MayLose = TRUE
    MaxCrashes = 1
 
PROPERTY EvaluatesRecentTruth
 
