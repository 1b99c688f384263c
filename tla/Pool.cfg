\* Every pool of 3-bit addresses, three machines, nested, overlapping and empty lists.
SPECIFICATION PoolSpec
CONSTANTS
    m1 = m1
    m2 = m2
    m3 = m3
    Machines = {m1, m2, m3}
    Families = {4}
    Bits4 = 3
    Bits6 = 4
    Pools <- MCPools4
    Lists <- MCLists
 
INVARIANT NextFreeIsLowestValid
 
CHECK_DEADLOCK FALSE
INVARIANT OverlapIsSharedAddress
