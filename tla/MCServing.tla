------------------------------ MODULE MCServing ------------------------------
(* What an installation in use must never do: its language servers, its    *)
(* caches, the queries on its graph, its handover to an updated            *)
(* executable and the update itself.  They share no state: every behaviour *)
(* is one of the parts', chosen at the start.                              *)
EXTENDS SnapshotCache, QueryCaches

CONSTANTS
    Docs, Texts, MaxOpenDocs, Versioned, QueueCap, MaxIds, PipeBound, ReplyBound, \* LspClient
    GraphQueryPathExpansionBudget,                                    \* GraphQuery
    Conns, AdminConns, MaxRestartFaults,                              \* UpdateRestart
    Procs, MaxVersion, MaxFaults, NoFile, NoProc                      \* SelfUpdate

VARIABLES
    part,
    disk, tr, started, openDocs, openOrder, evicted, seqID, toServer, toClient, srv,
    responses, mail, lspCall,
    graph, query, offset, delivered, pages, answer,
    link, at, barrier, purge, job, jobsPaused, held, candidate, ctl, shutdown,
    stopAsked, serve, launched, restartFaults,
    platform, exe, bak, owner, upd, ulock, ucache, ustatus, released, faults

lspVars == <<disk, tr, started, openDocs, openOrder, evicted, seqID, toServer, toClient, srv,
             responses, mail, lspCall>>
queryVars == <<graph, query, offset, delivered, pages, answer>>
restartVars == <<link, at, barrier, purge, job, jobsPaused, held, candidate, ctl, shutdown,
                 stopAsked, serve, launched, restartFaults>>
suVars == <<platform, exe, bak, owner, upd, ulock, ucache, ustatus, released, faults>>

(* Graphs of at most four edges over three nodes, and every request whose  *)
(* limit, depth and budgets they can reach.                                *)
Edge(k, f, t, r, s, u) ==
    [key |-> k, from |-> f, to |-> t, relation |-> r, status |-> s, units |-> u]
Edges == {Edge(1, 0, 1, 1, 2, 1), Edge(2, 0, 1, 2, 1, 2), Edge(3, 0, 2, 1, 1, 1),
          Edge(4, 0, 2, 2, 2, 1), Edge(5, 1, 2, 1, 1, 2), Edge(6, 1, 2, 2, 1, 1),
          Edge(7, 2, 1, 1, 2, 1), Edge(8, 1, 0, 1, 1, 1), Edge(9, 2, 0, 2, 2, 2),
          Edge(10, 2, 2, 1, 1, 1)}
QueryGraphs == {g \in SUBSET Edges : Cardinality(g) <= 4}
DisplayRank == [n \in 0..2 |-> IF n = 1 THEN 3 ELSE n]
GraphRequests(ops, dirs, depths, limits, tokens) ==
    [op : ops, direction : dirs, depth : depths, limit : limits, tokens : tokens,
     relations : {{}, {1}}, matches : {1}, from : {0}, to : {2}]
NotFound == [op |-> "path", direction |-> "out", depth |-> 1, limit |-> 1, tokens |-> 1,
             relations |-> {}, matches |-> 0, from |-> 0, to |-> 2]
GraphQueries ==
    GraphRequests({"neighbors"}, {"out", "both"}, {1, 2}, {1, 2}, {2, 9})
    \cup GraphRequests({"callers", "callees"}, {"both"}, {2}, {1}, {9})
    \cup GraphRequests({"path"}, {"in", "out", "both"}, {2, 3}, {1}, {9})
    \cup {[NotFound EXCEPT !.matches = m, !.op = o] : m \in {0, 2}, o \in {"path", "neighbors"}}

L == INSTANCE LspClient WITH req <- lspCall, MaxVersion <- 2
Q == INSTANCE GraphQuery WITH
    Graphs <- QueryGraphs, Queries <- GraphQueries, NameRank <- DisplayRank
R == INSTANCE UpdateRestart
U == INSTANCE SelfUpdate

Init ==
    /\ part \in {"lsp", "snapshots", "caches", "queries", "restart", "update"}
    /\ L!LspInit /\ (part = "lsp" \/ disk = [d \in Docs |-> 1])
    /\ SnapshotInit /\ CachesInit /\ R!RestartInit
    /\ Q!GraphQueryInit /\ (part = "queries" \/ (graph = {} /\ query = NotFound))
    /\ U!SelfUpdateInit /\ (part = "update" \/ platform = "posix")

Next ==
    \/ /\ part = "lsp" /\ L!LspNext
       /\ UNCHANGED <<part, snapVars, cacheVars, queryVars, restartVars, suVars>>
    \/ /\ part = "snapshots" /\ SnapshotNext
       /\ UNCHANGED <<part, lspVars, cacheVars, queryVars, restartVars, suVars>>
    \/ /\ part = "caches" /\ CachesNext
       /\ UNCHANGED <<part, lspVars, snapVars, queryVars, restartVars, suVars>>
    \/ /\ part = "queries" /\ Q!GraphQueryNext
       /\ UNCHANGED <<part, lspVars, snapVars, cacheVars, restartVars, suVars>>
    \/ /\ part = "restart" /\ R!RestartNext
       /\ UNCHANGED <<part, lspVars, snapVars, cacheVars, queryVars, suVars>>
    \/ /\ part = "update" /\ U!SelfUpdateNext
       /\ UNCHANGED <<part, lspVars, snapVars, cacheVars, queryVars, restartVars>>

Spec == Init /\ [][Next]_<<part, lspVars, snapVars, cacheVars, queryVars, restartVars,
                           suVars>>
-----------------------------------------------------------------------------
\* LspClient: what a call is answered is about the text its file had.
AnswerIsFresh == L!AnswerIsFresh
\* GraphQuery: a path is the least of the shortest ones.
PathIsLeast == Q!PathIsLeast
\* GraphQuery: the pages of a query end and add up.
PagesAddUp == Q!PagesAddUp
\* UpdateRestart: the daemon hands over only when nothing is under way in it.
HandoverIsQuiet == R!HandoverIsQuiet
\* SelfUpdate: the installation always has an image.
ImageSurvives == U!ImageSurvives
\* SelfUpdate: marker and backup come apart only by a crash or a failed rename.
PairedUnlessFault == U!PairedUnlessFault
==============================================================================
