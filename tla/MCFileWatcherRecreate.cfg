SPECIFICATION Spec
CONSTANTS
    f1 = f1
    f2 = f2
    s1 = s1
    s2 = s2
    Files <- MCFiles
    Flushes <- MCFlushes
    Ignored = {}
    Contends = FALSE
    Removes = TRUE
    Recreates = TRUE
    MaxVersion = 2
    MaxFaults = 0
INVARIANT NothingForgotten
