SPECIFICATION MCSpec
CONSTANTS
    s1 = s1
    r1 = r1
    d1 = d1
    d2 = d2
    d3 = d3
    None = None
    Torn = Torn
    Starters = {s1}
    Restarters = {r1}
    Daemons <- ThreeDaemons
    MaxFaults = 2
    MaxStops = 1
    Calls = {x1, x2}
    RtKeys = {kr, kk}
    KotlinKeys = {kk}
    RoslynKeys = {kr}
    MaxWorkers = 1
    ClientIds = {1, 2, 3}
    NoOne = NoOne
INVARIANTS
    ServerIsFound
    NoSecondInstance
    PoolIsAccounted
PROPERTIES
    StartsSucceed
    GrowsOnlyWhenBusy
    ShutdownDrains
CHECK_DEADLOCK FALSE
