--------------------------- MODULE GraphGenerations ---------------------------
(***************************************************************************)
(* The graph generations of a workspace database (internal/store/graph.go, *)
(* graph_recovery.go, graph_query.go, index_publish.go) and the index      *)
(* passes that publish them (internal/indexer/indexer.go, incremental.go,  *)
(* graph_staging.go).                                                      *)
(*                                                                         *)
(* A generation is identified by what it contains, so the same sources     *)
(* yield the same id on every pass.  It is staged, activated by a compare- *)
(* and-swap of the active pointer, retired by its successor and may become *)
(* active again.  A row that is activated for the first time is linked to  *)
(* the row it replaces.                                                    *)
(*                                                                         *)
(* A job publishes catalog, graph and runtime state in one transaction.    *)
(* The foreground pass (mi-lsp index) commits four: stage, activate,       *)
(* replace the rows, mark the runtime state; it can be interrupted, and    *)
(* the publications of other processes can commit, between any two.  The   *)
(* foreground pass and the jobs exclude each other by index.lock; the file *)
(* watcher and the refresh made by a query take only a lock inside their   *)
(* own process.                                                            *)
(*                                                                         *)
(* The sources may be edited at any moment, so nothing is lost by letting  *)
(* a pass read them together with the active pointer it will compare.      *)
(*                                                                         *)
(* Code stands for the contents of the source files, and for the graph     *)
(* generation those contents yield.  DocGraph is the generation a          *)
(* documents-only pass assembles.  Rows whose contents were damaged on     *)
(* disk, projects without a graph and the legacy digest are left out.      *)
(***************************************************************************)
EXTENDS Naturals, FiniteSets

CONSTANTS Codes,      \* contents of the source files
          DocGraph,   \* the graph of the documents alone
          NoGraph,    \* no generation: NULL in the database
          MaxCatalog, \* bound on the catalog generations published
          MaxAncestry \* longest predecessor chain activation accepts (1024)

ASSUME GraphAssumption ==
    /\ DocGraph \notin Codes
    /\ NoGraph \notin Codes \cup {DocGraph}
    /\ MaxCatalog \in Nat
    /\ MaxAncestry \in Nat \ {0}

VARIABLES
    tree,          \* contents of the source files now
    gstatus,       \* graph_generations.status; "none": no such row
    glink,         \* graph_generations.previous_generation_id
    activeGraph,   \* workspace_meta active_graph_generation_id
    previousGraph, \* workspace_meta previous_graph_generation_id
    cat,           \* active catalog generation (0: none) and what its rows describe
    gruntime,      \* graph runtime state, catalog it is bound to (0: no key)
    fg,            \* the foreground index pass
    lag,           \* history: how the active graph fell behind, if it did
    overlap        \* history: another process published between two of its commits

gvars == <<tree, gstatus, glink, activeGraph, previousGraph, cat, gruntime,
           fg, lag, overlap>>
rows == <<gstatus, glink, activeGraph, previousGraph>>

GraphIds == Codes \cup {DocGraph}
Readable == {"active", "retired"}
Skipped == MaxCatalog + 1   \* a generation id no catalog was published under
NoPass == [pc |-> "idle", kind |-> "full", graph |-> NoGraph, code |-> NoGraph,
           prior |-> NoGraph]

GraphTypeOK ==
    /\ tree \in Codes
    /\ gstatus \in [GraphIds -> {"none", "staged", "active", "retired", "invalid"}]
    /\ glink \in [GraphIds -> GraphIds \cup {NoGraph}]
    /\ activeGraph \in GraphIds \cup {NoGraph}
    /\ previousGraph \in GraphIds \cup {NoGraph}
    /\ cat \in [gen : 0..MaxCatalog, of : Codes \cup {NoGraph}]
    /\ gruntime \in [state : {"fresh", "stale"}, bound : 0..Skipped]
    /\ fg \in [pc : {"idle", "stage", "activate", "replace", "mark"},
               kind : {"full", "docs"}, graph : GraphIds \cup {NoGraph},
               code : Codes \cup {NoGraph}, prior : GraphIds \cup {NoGraph}]
    /\ lag \in {"none", "outrun", "rolled back"}
    /\ overlap \in BOOLEAN

GraphInit ==
    /\ tree \in Codes
    /\ gstatus = [g \in GraphIds |-> "none"]
    /\ glink = [g \in GraphIds |-> NoGraph]
    /\ activeGraph = NoGraph
    /\ previousGraph = NoGraph
    /\ cat = [gen |-> 0, of |-> NoGraph]
    /\ gruntime = [state |-> "fresh", bound |-> 0]
    /\ fg = NoPass
    /\ lag = "none"
    /\ overlap = FALSE

-----------------------------------------------------------------------------
(* The predecessor walk.  Lineage(g) is g and every row reached from it.   *)

Closed(S) == \A g \in S : glink[g] \in S \cup {NoGraph}

Lineage(g) ==
    {h \in GraphIds : \A S \in SUBSET GraphIds : (g \in S /\ Closed(S)) => h \in S}

Sound(g) ==
    /\ \E h \in Lineage(g) : glink[h] = NoGraph
    /\ \A h \in Lineage(g) \ {g} : gstatus[h] \in Readable

WalkOK(g) ==
    /\ Sound(g)
    /\ Cardinality(Lineage(g)) <= MaxAncestry

WalkOKAfter(g, old) ==
    \/ old = NoGraph
    \/ /\ g \notin Lineage(old)
       /\ Cardinality(Lineage(old)) < MaxAncestry

(* Staging a bundle again: an active or retired row of the same content is *)
(* reused, a staged row has another created_at and an invalid row another  *)
(* status, and both are reported as corrupt.                               *)
Stageable(g) == gstatus[g] \in {"none"} \cup Readable

ActivatableOnce(g) ==
    /\ activeGraph # NoGraph => gstatus[activeGraph] = "active" /\ WalkOK(activeGraph)
    /\ \/ g = activeGraph
       \/ gstatus[g] \in {"none", "staged"} /\ WalkOKAfter(g, activeGraph)

Activatable(g) ==
    /\ activeGraph # NoGraph => gstatus[activeGraph] = "active" /\ WalkOK(activeGraph)
    /\ \/ g = activeGraph
       \/ gstatus[g] = "retired" /\ WalkOK(g)
       \/ gstatus[g] \in {"none", "staged"} /\ WalkOKAfter(g, activeGraph)

Restaged(g) ==
    /\ gstatus' = [gstatus EXCEPT ![g] = IF @ = "none" THEN "staged" ELSE @]
    /\ UNCHANGED <<glink, activeGraph, previousGraph>>

Relinked(g) ==
    IF gstatus[g] = "retired" THEN glink ELSE [glink EXCEPT ![g] = activeGraph]

RetiredNothing(g) ==
    [gstatus EXCEPT ![g] = "active"]

Succeeded(g) ==
    [h \in GraphIds |-> CASE h = g -> "active"
                          [] h = activeGraph /\ h # g -> "retired"
                          [] OTHER -> gstatus[h]]

Activate(g) ==
    \/ /\ g = activeGraph
       /\ UNCHANGED rows
    \/ /\ g # activeGraph
       /\ gstatus' = Succeeded(g)
       /\ glink' = Relinked(g)
       /\ previousGraph' = activeGraph
       /\ activeGraph' = g

-----------------------------------------------------------------------------
(* Catalog generation and runtime state.                                   *)

NextGeneration(code) == [gen |-> cat.gen + 1, of |-> code]

Fresh(bound) == [state |-> "fresh", bound |-> bound]
Stale == [state |-> "stale", bound |-> 0]

BoundToActive == IF cat.gen = 0 THEN Skipped ELSE cat.gen

(* incrementalGraphRepairState: the graph is current, and of this catalog. *)
GraphCurrent ==
    /\ activeGraph # NoGraph
    /\ gruntime.state = "fresh"
    /\ cat.gen # 0 => gruntime.bound = cat.gen

(* BeginGraphQuerySnapshot of the active generation.                       *)
Served ==
    /\ gruntime.state = "fresh"
    /\ (gruntime.bound # 0 /\ cat.gen # 0) => gruntime.bound = cat.gen
    /\ activeGraph # NoGraph

(* History: catalog rows of other contents outrun an active code graph.    *)
LagBehind(code) ==
    IF activeGraph \in Codes /\ code # activeGraph THEN "outrun"
    ELSE IF activeGraph = code THEN "none" ELSE lag

InStep(between) ==
    /\ lag' = "none"
    /\ overlap' = between

-----------------------------------------------------------------------------
EditTree ==
    /\ tree' \in Codes \ {tree}
    /\ UNCHANGED <<rows, cat, gruntime, fg, lag, overlap>>

Idle == fg.pc = "idle"

(* The foreground pass.  A pass whose generation is active already goes    *)
(* straight to the compare-and-swap.                                       *)
Publish(kind, graph) ==
    fg' = [pc |-> IF graph = activeGraph THEN "activate" ELSE "stage",
           kind |-> kind, graph |-> graph, code |-> tree, prior |-> activeGraph]

BeginFullPass ==
    /\ Idle
    /\ Publish("full", tree)
    /\ UNCHANGED <<tree, rows, cat, gruntime, lag, overlap>>

WithoutGraph == activeGraph = NoGraph /\ gruntime.state = "fresh"

BeginFullPassWithoutGraph ==
    /\ Idle
    /\ WithoutGraph
    /\ fg' = [NoPass EXCEPT !.pc = "replace", !.code = tree]
    /\ UNCHANGED <<tree, rows, cat, gruntime, lag, overlap>>

BeginDocsPass ==
    /\ Idle
    /\ Publish("docs", DocGraph)
    /\ UNCHANGED <<tree, rows, cat, gruntime, lag, overlap>>

StageForeground ==
    /\ fg.pc = "stage"
    /\ \/ /\ Stageable(fg.graph)
          /\ Restaged(fg.graph)
          /\ fg' = [fg EXCEPT !.pc = "activate"]
       \/ /\ ~Stageable(fg.graph)
          /\ fg' = NoPass
          /\ UNCHANGED rows
    /\ UNCHANGED <<tree, cat, gruntime, lag, overlap>>

Swaps == fg.prior = activeGraph /\ Activatable(fg.graph)

ActivateForeground ==
    /\ fg.pc = "activate"
    /\ \/ /\ Swaps
          /\ Activate(fg.graph)
          /\ InStep(FALSE)
          /\ fg' = [fg EXCEPT !.pc = "replace"]
       \/ /\ ~Swaps
          /\ fg' = NoPass
          /\ UNCHANGED <<rows, lag, overlap>>
    /\ UNCHANGED <<tree, cat, gruntime>>

(* ReplaceWorkspaceIndex and ReplaceWorkspaceDocs with an empty generation *)
(* id: the rows change, the active catalog generation does not.            *)
ReplaceForeground ==
    /\ fg.pc = "replace"
    /\ \/ /\ fg.kind = "full"
          /\ cat' = [cat EXCEPT !.of = fg.code]
          /\ lag' = LagBehind(fg.code)
       \/ /\ fg.kind = "docs"
          /\ UNCHANGED <<cat, lag>>
    /\ fg' = [fg EXCEPT !.pc = "mark"]
    /\ UNCHANGED <<tree, rows, gruntime, overlap>>

MarkForeground ==
    /\ fg.pc = "mark"
    /\ gruntime' = IF fg.graph = NoGraph THEN Stale
                   ELSE Fresh(IF fg.kind = "full" THEN 0 ELSE cat.gen)
    /\ fg' = NoPass
    /\ UNCHANGED <<tree, rows, cat, lag, overlap>>

(* The process dies, or its context is cancelled, between two commits.     *)
Interrupt ==
    /\ ~Idle
    /\ fg' = NoPass
    /\ UNCHANGED <<tree, rows, cat, gruntime, lag, overlap>>

-----------------------------------------------------------------------------
(* One-transaction publications.                                           *)

Publishable(g) == Stageable(g) /\ Activatable(g)

(* A full or incremental job under index.lock, or the incremental pass of  *)
(* the file watcher, which does not take it.                               *)
PublishCodeAndGraph ==
    /\ cat.gen < MaxCatalog
    /\ Idle \/ cat.of # NoGraph
    /\ Publishable(tree)
    /\ Activate(tree)
    /\ cat' = NextGeneration(tree)
    /\ gruntime' = Fresh(cat.gen + 1)
    /\ InStep(~Idle)
    /\ UNCHANGED <<tree, fg>>

FullJobWithoutGraph ==
    /\ Idle
    /\ WithoutGraph
    /\ cat.gen < MaxCatalog
    /\ cat' = NextGeneration(tree)
    /\ gruntime' = Stale
    /\ UNCHANGED <<tree, rows, fg, lag, overlap>>

CatalogJob ==
    /\ Idle
    /\ cat.gen < MaxCatalog
    /\ cat' = NextGeneration(tree)
    /\ lag' = LagBehind(tree)
    /\ UNCHANGED <<tree, rows, gruntime, fg, overlap>>

DocsJob ==
    /\ Idle
    /\ Publishable(DocGraph)
    /\ Activate(DocGraph)
    /\ gruntime' = Fresh(BoundToActive)
    /\ InStep(FALSE)
    /\ UNCHANGED <<tree, cat, fg>>

(* An incremental pass over a clean git tree whose graph is not current:   *)
(* the job stays bound to the active catalog, the foreground pass has no   *)
(* generation id to bind to.                                               *)
RepairGraph ==
    /\ Idle
    /\ cat.of # NoGraph
    /\ ~GraphCurrent
    /\ Publishable(tree)
    /\ Activate(tree)
    /\ gruntime' \in {Fresh(BoundToActive), Fresh(0)}
    /\ InStep(FALSE)
    /\ UNCHANGED <<tree, cat, fg>>

(* An incremental pass over documents alone, or one whose observation of   *)
(* the graph failed.                                                       *)
MarkGraphStale ==
    /\ cat.of # NoGraph
    /\ gruntime' = Stale
    /\ UNCHANGED <<tree, rows, cat, fg, lag, overlap>>

RefreshKeepsFresh ==
    /\ cat.of # NoGraph
    /\ cat.gen < MaxCatalog
    /\ cat' = NextGeneration(tree)
    /\ lag' = LagBehind(tree)
    /\ overlap' = (overlap \/ ~Idle)
    /\ gruntime' = [gruntime EXCEPT !.bound = cat.gen + 1]
    /\ UNCHANGED <<tree, rows, fg>>

(* RefreshCatalogPaths: a query brings the files it reads up to date.      *)
RefreshCatalogPaths ==
    /\ cat.of # NoGraph
    /\ cat.gen < MaxCatalog
    /\ cat' = NextGeneration(tree)
    /\ lag' = LagBehind(tree)
    /\ overlap' = (overlap \/ ~Idle)
    /\ gruntime' = Stale
    /\ UNCHANGED <<tree, rows, fg>>

-----------------------------------------------------------------------------
(* Maintenance of the generations, under the exclusive workspace lock.     *)

RollbackGraphGeneration ==
    /\ Idle
    /\ activeGraph # NoGraph /\ previousGraph # NoGraph
    /\ gstatus[activeGraph] = "active" /\ gstatus[previousGraph] = "retired"
    /\ gstatus' = [gstatus EXCEPT ![activeGraph] = "retired", ![previousGraph] = "active"]
    /\ glink' = [glink EXCEPT ![previousGraph] = NoGraph]
    /\ activeGraph' = previousGraph
    /\ previousGraph' = activeGraph
    /\ lag' = "rolled back"
    /\ UNCHANGED <<tree, cat, gruntime, fg, overlap>>

RecoverGraphState ==
    /\ Idle
    /\ \E g \in GraphIds : gstatus[g] = "staged"
    /\ gstatus' = [g \in GraphIds |-> IF gstatus[g] = "staged" THEN "invalid" ELSE gstatus[g]]
    /\ UNCHANGED <<tree, glink, activeGraph, previousGraph, cat, gruntime, fg, lag, overlap>>

Referrers(g) == {h \in GraphIds : glink[h] = g}

(* Candidates are visited in an order of the database's choosing, and one  *)
(* is deleted when no row that is left refers to it.                       *)
Removable(C, D) ==
    /\ \A g \in D : Referrers(g) \subseteq D
    /\ \A g \in C \ D : Referrers(g) # {}

CleanupGraphGenerations ==
    /\ Idle
    /\ \A g \in GraphIds : gstatus[g] # "staged"
    /\ \E C \in SUBSET {g \in GraphIds : gstatus[g] \in {"invalid", "retired"}
                                         /\ g \notin {activeGraph, previousGraph}} :
         \E D \in SUBSET C :
            /\ D # {}
            /\ Removable(C, D)
            /\ gstatus' = [g \in GraphIds |-> IF g \in D THEN "none" ELSE gstatus[g]]
            /\ glink' = [g \in GraphIds |-> IF g \in D THEN NoGraph ELSE glink[g]]
    /\ UNCHANGED <<tree, activeGraph, previousGraph, cat, gruntime, fg, lag, overlap>>

-----------------------------------------------------------------------------
GraphNext ==
    \/ EditTree
    \/ BeginFullPass \/ BeginFullPassWithoutGraph \/ BeginDocsPass
    \/ StageForeground \/ ActivateForeground \/ ReplaceForeground \/ MarkForeground
    \/ Interrupt
    \/ PublishCodeAndGraph \/ FullJobWithoutGraph \/ CatalogJob \/ DocsJob
    \/ RepairGraph \/ MarkGraphStale \/ RefreshCatalogPaths
    \/ RollbackGraphGeneration \/ RecoverGraphState \/ CleanupGraphGenerations

GraphSpec == GraphInit /\ [][GraphNext]_gvars

-----------------------------------------------------------------------------
(* The active pointer names the one active row, and the previous pointer a *)
(* retired one, whatever publications, rollbacks, recoveries and clean-ups *)
(* are interleaved with an interrupted foreground pass.                    *)
PointerIsTheActive ==
    /\ {g \in GraphIds : gstatus[g] = "active"} = {activeGraph} \ {NoGraph}
    /\ previousGraph # NoGraph => gstatus[previousGraph] = "retired"

(* History is sound: the predecessor links of a row that can be read never *)
(* form a cycle, dangle or lead to a row that was staged or invalidated.   *)
(* Activation walks the chain and would refuse every later publication.    *)
HistoryIsSound ==
    \A g \in GraphIds : gstatus[g] \in Readable => Sound(g)

(* Publication is never refused for an unsound history: with no pass under *)
(* way, the graph of the present sources can be published unless an        *)
(* interrupted pass left its row behind or the predecessor chain is at its *)
(* limit.                                                                  *)
RefusedOnlyByLeftovers ==
    /\ HistoryIsSound
    /\ (Idle /\ ~Publishable(tree)) =>
        \/ gstatus[tree] \in {"staged", "invalid"}
        \/ /\ activeGraph # NoGraph
           /\ Cardinality(Lineage(activeGraph)) >= MaxAncestry
        \/ Cardinality(Lineage(tree)) > MaxAncestry

(* A graph that the catalog has outrun is served as current only when it   *)
(* is bound to no catalog generation, or when another process published    *)
(* between two commits of the foreground pass.                             *)
OutrunOnlyUnbound ==
    (Served /\ lag = "outrun") => (gruntime.bound = 0 \/ overlap)
=============================================================================
