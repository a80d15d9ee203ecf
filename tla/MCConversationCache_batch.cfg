SPECIFICATION CacheSpec
CONSTANTS
    tab1 = tab1
    tab2 = tab2
    A = A
    B = B
    Nothing = Nothing
    All = All
    Setups <- CacheSetups
    ExpireAfter = 1
    MaxPuts = 2
    MaxClears = 1
INVARIANTS ClearIsFinal
CHECK_DEADLOCK FALSE
