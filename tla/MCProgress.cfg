SPECIFICATION Spec
CONSTANTS
    Files = {f1, f2}
    Flushes = {b1, b2}
    Ignored = {}
    Contends = TRUE
    Removes = FALSE
    Recreates = FALSE
    MaxVersion = 1
    Starters = {s1}
    Workers = {w1}
    Cancelers = {c1, c2}
    Forced = {c1}
    NoPid = 0
    Conns = {k1}
    AdminConns = {}
    MaxRestartFaults = 1
PROPERTIES
    StopReturns
    NoTimerStorm
    ChangesIndexed
    
    ForceCancelSettles
    IngressComesBack
    StopCompletes
