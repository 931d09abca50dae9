SPECIFICATION Spec
CONSTANTS
    Docs = {d1, d2}
    Texts = {1, 2}
    MaxOpenDocs = 1
    Versioned = TRUE
    QueueCap = 1
    MaxIds = 2
    PipeBound = 3
    ReplyBound = 1
    Readers = {q1, q2, q3}
    SnapKeys = {s1, s2}
    Flights = {f1, f2, f3}
    MaxSnapshots = 1
    NoFlight = NoFlight
    Requests = {r1, r2}
    Args = {a1, g1}
    GraphArgs = {g1}
    MaxDocsGen = 1
    MaxCodeGen = 1
    CacheSize = 1
    GraphQueryPathExpansionBudget = 3
    Conns = {k1}
    AdminConns = {adm1}
    MaxRestartFaults = 1
    Procs = {p1, p2}
    MaxVersion = 3
    MaxFaults = 1
    NoFile = nofile
    NoProc = noproc
INVARIANTS
    AnswerIsFresh
    SnapshotsAreAccounted
    CancelHurtsNobody
    
    
    PathIsLeast
    PagesAddUp
    HandoverIsQuiet
    ImageSurvives
    PairedUnlessFault
CHECK_DEADLOCK FALSE
