SPECIFICATION Spec
CONSTANTS
    s1 = s1
    s2 = s2
    w1 = w1
    w2 = w2
    c1 = c1
    c2 = c2
    Starters = {s1, s2}
    Workers = {w1}
    Cancelers = {c1}
    Forced = {c1}
    JobModes = {"full"}
    MaxReports = 1
    MaxCrashes = 1
    Jobs <- MCJobs
    Legacy = {}
    Pids <- MCPids
    NoPid <- MCNoPid
    MaxForeground = 0
INVARIANTS
    
    
    ForceCancelWaits
