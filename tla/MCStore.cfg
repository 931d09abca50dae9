SPECIFICATION MCSpec
CONSTANTS
    p1 = p1
    p2 = p2
    Jobs <- MCJobs
    Legacy <- MCLegacy
    Pids <- MCPids
    NoPid <- MCNoPid
    MaxForeground = 1
    Codes = {c1, c2}
    DocGraph = dg
    NoGraph = ng
    MaxCatalog = 2
    MaxAncestry = 2
SYMMETRY Symmetry
INVARIANTS
    GenerationFollowsJob
    PointersArePublished
    PointerIsTheActive
    
    RefusedOnlyByLeftovers
PROPERTIES
    PublicationInOrder
    ImplementsLedger
