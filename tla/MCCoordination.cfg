SPECIFICATION MCSpec
CONSTANTS
    f1 = f1
    f2 = f2
    s1 = s1
    s2 = s2
    a = a
    b = b
    c = c
    i = i
    j = j
    patient = patient
    remover = remover
    NoFile = none
    Files <- MCFiles
    Flushes <- MCFlushes
    Ignored = {}
    Contends = FALSE
    Removes = TRUE
    Recreates = FALSE
    MaxVersion = 2
    MaxFaults = 1
    Procs <- MCProcs
    Nobody = Nobody
    MaxRuns = 2
SYMMETRY Symmetry
INVARIANTS
    NothingForgotten
    ExclusionHolds
PROPERTIES
    LostOnlyByCollision
    ImplementsLease
