SPECIFICATION WSpec
CONSTANTS
    f1 = f1
    s1 = s1
    Files = {f1}
    Flushes = {s1}
    Ignored = {}
    Contends = FALSE
    Removes = FALSE
    Recreates = FALSE
    MaxVersion = 2
    MaxFaults = 0
PROPERTY WatcherKeepsOut
