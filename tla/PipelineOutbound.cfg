SPECIFICATION FairSpec
CONSTANTS
    Sources = {s1, s2}
    MaxBatch = 2
    MaxArrivals = 4
    MaxPermissions = 2
    MaxBoundaries = 2
    MaxFails = 1
    MaxAborts = 1
    None = None
INVARIANTS InOrderOnce BoundariesHold
PROPERTIES CallersAreAnswered
CHECK_DEADLOCK FALSE
