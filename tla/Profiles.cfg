\* Two pages, two refreshes and a login with any spelling; the entry is edited, removed, the
\* directory down, store calls fail, the process dies (two of these).
SPECIFICATION FairSpec
CONSTANTS
    o1 = o1
    v1 = v1
    v2 = v2
    p1 = p1
    p2 = p2
    j1 = j1
    j2 = j2
    l1 = l1
    Empty = Empty
    Gone = Gone
    People = {o1}
    Spellings = {"stored", "typed"}
    Stored = "stored"
    Values = {v1, v2}
    Pages = {p1, p2}
    Jobs = {j1, j2}
    Logins = {l1}
    TTL = 1
    Hides = TRUE
    ReadFails = FALSE
    SaveFails = TRUE
    Changes = {"edit", "leave", "outage", "crash"}
    MaxChanges = 2
INVARIANT OneLookupEach
PROPERTY OutageKeepsProfile
PROPERTY NamesFollow
