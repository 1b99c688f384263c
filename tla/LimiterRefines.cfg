\* A burst of 4 fractions, 2 to a token, 1 back per unit of time: sweeps and
\* evictions come several times before the clock stops.
SPECIFICATION LimiterSpec
CONSTANTS
    Keys = {k1, k2}
    Full = 4
    Rate = 1
    Cost = 2
    SweepEvery = 1
    IdleLimit = 4
    MaxTime = 12
INVARIANT NeverOverBudget
 
CHECK_DEADLOCK FALSE
