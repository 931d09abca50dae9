----------------------------- MODULE GraphQuery -----------------------------
(***************************************************************************)
(* nav.neighbors, nav.callers, nav.callees and nav.path over one graph     *)
(* snapshot (service/graph_query.go, store/graph_query.go): a breadth-     *)
(* first walk whose every level reads a bounded number of edge rows, a     *)
(* sort, and a page cut by limit and token budget.  The client follows the *)
(* cursors: each page repeats the whole query with a larger offset, and a  *)
(* larger row bound.  The cursor pins the generation, so the graph is the  *)
(* same for every page.                                                    *)
(***************************************************************************)
EXTENDS Integers, Sequences, FiniteSets, SequencesExt

CONSTANTS
    Graphs,                       \* the graphs a query may meet: sets of edges
                                  \* [key, from, to, relation, status, units]
    Queries,                      \* the requests, after Normalize
    NameRank,                     \* the order of the nodes' display names
    GraphQueryPathExpansionBudget

VARIABLES
    graph,     \* the edges of the snapshot's generation
    query,     \* the request the client repeats
    offset,    \* graphCursor.Offset of the next page
    delivered, \* the edges of the pages so far, in order
    pages,     \* how many pages that was
    answer     \* what the last page said

queryVars == <<graph, query, offset, delivered, pages, answer>>

Before(s, t) == \E i \in DOMAIN s : s[i] < t[i] /\ \A j \in 1..(i - 1) : s[j] = t[j]
Sorted(S, Key(_)) == SetToSortSeq(S, LAMBDA x, y : Before(Key(x), Key(y)))
Cut(s, n) == SubSeq(s, 1, IF Len(s) < n THEN Len(s) ELSE n)

(***************************************************************************)
(* Reading edges.                                                          *)
(***************************************************************************)
\* The rows one SELECT returns for a node: edges that leave it (or enter it)
\* in relation, claim_status, edge_key order.
RowsOf(n, dir) ==
    Sorted({e \in graph : /\ (IF dir = "in" THEN e.to ELSE e.from) = n
                          /\ query.relations = {} \/ e.relation \in query.relations},
           LAMBDA e : <<e.relation, e.status, e.key>>)
\* The frontier's nodes in id order, one SELECT each, rows rows in all.
EdgesFromFrontier(frontier, dir, rows) ==
    LET canonical == Cut(Sorted(frontier, LAMBDA n : <<n>>), rows)
    IN Cut(FlattenSeq([i \in DOMAIN canonical |-> RowsOf(canonical[i], dir)]), rows)

Unseen(edges, taken) == SelectSeq(edges, LAMBDA e : ~Contains(taken, e))
NextOf(edges, taken, rows) ==
    IF Len(taken) >= rows \/ Unseen(edges, taken) = <<>> THEN taken
    ELSE Append(taken, Head(Unseen(edges, taken)))
RECURSIVE InterleaveGraphEdges(_, _, _, _)
InterleaveGraphEdges(out, in, rows, taken) ==
    LET round == NextOf(in, NextOf(out, taken, rows), rows)
    IN IF round = taken THEN taken ELSE InterleaveGraphEdges(out, in, rows, round)
Edges(frontier, dir, rows) ==
    IF dir # "both" THEN EdgesFromFrontier(frontier, dir, rows)
    ELSE InterleaveGraphEdges(EdgesFromFrontier(frontier, "out", rows),
                              EdgesFromFrontier(frontier, "in", rows), rows, <<>>)

(***************************************************************************)
(* graphNeighborhood.                                                      *)
(***************************************************************************)
Direction == CASE query.op = "callers" -> "in"
               [] query.op = "callees" -> "out"
               [] OTHER -> query.direction
FarEnd(e, frontier) ==
    IF Direction = "in" \/ (Direction = "both" /\ e.from \notin frontier)
    THEN e.from ELSE e.to
\* The edges the walk collects with the node each one leads to and its distance.
RECURSIVE Walk(_, _, _, _, _)
Walk(distance, frontier, visited, works, rows) ==
    LET new  == ToSet(Edges(frontier, Direction, rows)) \ {w.edge : w \in works}
        next == {FarEnd(e, frontier) : e \in new} \ visited
        all  == works \cup {[edge |-> e, node |-> FarEnd(e, frontier),
                             distance |-> distance] : e \in new}
    IN IF distance = query.depth \/ next = {} THEN all
       ELSE Walk(distance + 1, next, visited \cup next, all, rows)
\* sortGraphItems; the node key, a digest, breaks ties like the edge key.
ItemOrder(w) == <<w.distance, w.edge.status, w.edge.relation, NameRank[w.node], w.edge.key>>
RowBoundFixed(from) == query.limit + 1
RowBoundOf(from) == query.limit + from + 1
GraphNeighborhood(from) ==
    LET items == Sorted(Walk(1, {query.from}, {query.from}, {}, RowBoundOf(from)), ItemOrder)
    IN [i \in DOMAIN items |-> items[i].edge]

(***************************************************************************)
(* graphPath.  A path is the sequence of its edges; pathKeys orders paths  *)
(* of one length by relation, edge key and node of every step.             *)
(***************************************************************************)
PathKey(path) == FlattenSeq([i \in DOMAIN path |-> <<path[i].relation, path[i].key>>])
\* <<the node an edge leads to, the frontier node it leads from>>
GraphPathNeighbors(e, frontier) ==
    {t \in {<<e.to, e.from>>} : query.direction # "in" /\ e.from \in frontier}
    \cup {t \in {<<e.from, e.to>>} : query.direction # "out" /\ e.to \in frontier}
FirstFound(paths) == CHOOSE p \in paths : TRUE
LeastOf(paths) == CHOOSE p \in paths : \A o \in paths : ~Before(PathKey(o), PathKey(p))
\* path maps every visited node to its parents chain.
RECURSIVE Search(_, _, _, _)
Search(depth, frontier, path, exhausted) ==
    IF depth = query.depth \/ frontier = {} THEN [path |-> path, exhausted |-> exhausted]
    ELSE LET rows  == Edges(frontier, query.direction, GraphQueryPathExpansionBudget + 1)
             full  == Len(rows) > GraphQueryPathExpansionBudget
             edges == ToSet(Cut(rows, GraphQueryPathExpansionBudget))
             steps == UNION {{<<t[1], Append(path[t[2]], e)>> :
                                t \in GraphPathNeighbors(e, frontier)} : e \in edges}
             next  == {s[1] : s \in steps} \ DOMAIN path
             grown == path @@ [n \in next |-> LeastOf({s[2] : s \in {x \in steps : x[1] = n}})]
         IN IF query.to \in next
            THEN [path |-> grown, exhausted |-> exhausted \/ full]
            ELSE Search(depth + 1, next, grown, exhausted \/ full)
GraphPath == Search(0, {query.from}, [n \in {query.from} |-> <<>>], FALSE)

(***************************************************************************)
(* One page, and the client that asks for the next.                        *)
(***************************************************************************)
Units(items) == FoldLeft(LAMBDA sum, e : sum + e.units, 0, items)
\* How many of the selected items fit the token budget: always one, so that the
\* next cursor has moved.
Fitting(selected) ==
    CHOOSE n \in 0..Len(selected) :
        /\ n <= 1 \/ Units(Cut(selected, n)) <= query.tokens
        /\ \/ n = Len(selected)
           \/ n >= 1 /\ Units(Cut(selected, n + 1)) > query.tokens
FinalizeGraphItems(all, from) ==
    LET selected == Cut(SubSeq(all, from + 1, Len(all)), query.limit)
    IN Cut(selected, Fitting(selected))

Open == [done |-> FALSE, truncated |-> FALSE, said |-> "nothing"]
Says(what, cut) == [done |-> TRUE, truncated |-> cut, said |-> what]

GraphQueryInit ==
    /\ graph \in Graphs /\ query \in Queries
    /\ offset = 0 /\ delivered = <<>> /\ pages = 0 /\ answer = Open

\* The selectors name no node, or more than one.
Unresolved ==
    /\ ~answer.done /\ query.matches # 1
    /\ answer' = Says(IF query.matches = 0 THEN "selector not found" ELSE "ambiguous", FALSE)
    /\ UNCHANGED <<graph, query, offset, delivered, pages>>

\* A page of items; with no further cursor the client is done.
Page(all, what, exhausted) ==
    LET returned == FinalizeGraphItems(all, offset)
        more     == offset + Len(returned) < Len(all)
    IN /\ delivered' = delivered \o returned
       /\ offset' = offset + Len(returned) /\ pages' = pages + 1
       /\ answer' = IF more THEN Open ELSE Says(what, exhausted)
       /\ UNCHANGED <<graph, query>>

NeighborhoodPage ==
    /\ ~answer.done /\ query.matches = 1 /\ query.op # "path"
    /\ Page(GraphNeighborhood(offset), "items", FALSE)

PathPage ==
    /\ ~answer.done /\ query.matches = 1 /\ query.op = "path"
    /\ IF query.to \in DOMAIN GraphPath.path
       THEN Page(GraphPath.path[query.to], "path", GraphPath.exhausted)
       ELSE /\ answer' = Says(IF GraphPath.exhausted THEN "search budget exhausted"
                              ELSE "no path", FALSE)
            /\ UNCHANGED <<graph, query, offset, delivered, pages>>

GraphQueryNext == Unresolved \/ NeighborhoodPage \/ PathPage
GraphQuerySpec == GraphQueryInit /\ [][GraphQueryNext]_queryVars

(***************************************************************************)
(* What a query should answer, by definition.                              *)
(***************************************************************************)
Follows(e, n, dir) == /\ \/ dir # "in" /\ e.from = n
                         \/ dir # "out" /\ e.to = n
                      /\ query.relations = {} \/ e.relation \in query.relations
\* The nodes within k edges of the start.
RECURSIVE Within(_)
Within(k) == IF k = 0 THEN {query.from}
             ELSE LET near == Within(k - 1)
                  IN near \cup UNION {{e.from, e.to} : e \in {x \in graph :
                                 \E n \in near : Follows(x, n, Direction)}}
Neighborhood == {e \in graph : \E n \in Within(query.depth - 1) : Follows(e, n, Direction)}

\* p leads from node n to query.to.
RECURSIVE Leads(_, _)
Leads(p, n) == IF p = <<>> THEN n = query.to
               ELSE /\ Follows(Head(p), n, query.direction)
                    /\ \/ /\ query.direction # "in" /\ Head(p).from = n
                          /\ Leads(Tail(p), Head(p).to)
                       \/ /\ query.direction # "out" /\ Head(p).to = n
                          /\ Leads(Tail(p), Head(p).from)
Paths(k) == {p \in [1..k -> graph] : Leads(p, query.from)}
Distances == {k \in 0..query.depth : Paths(k) # {}}
Nearest == CHOOSE k \in Distances : \A d \in Distances : k <= d

(* Following the cursors of a neighbourhood query ends, after at most a    *)
(* page per edge, and the pages hold as many items as the neighbourhood    *)
(* has edges: every page moves the offset however small the token budget   *)
(* is, and the row bound of a page never cuts the walk of the one that     *)
(* says it is the last.                                                    *)
PagesAddUp ==
    (query.op # "path" /\ query.matches = 1) =>
        /\ pages <= 1 \/ pages <= Cardinality(Neighborhood)
        /\ answer.done => Len(delivered) = Cardinality(Neighborhood)

(* A path query whose search budget was not exhausted returns, over all    *)
(* its pages, the least of the shortest paths by relation and edge key,    *)
(* and says there is none only when there is none within the depth; with   *)
(* the budget exhausted what it returns is still a path.                   *)
PathIsLeast ==
    (answer.done /\ query.matches = 1 /\ query.op = "path") =>
        \/ /\ answer.said = "path"
           /\ Leads(delivered, query.from) /\ Len(delivered) <= query.depth
           /\ \/ answer.truncated
              \/ /\ Len(delivered) = Nearest
                 /\ \A p \in Paths(Nearest) : ~Before(PathKey(p), PathKey(delivered))
        \/ answer.said = "no path" /\ Distances = {}
        \/ answer.said = "search budget exhausted"

(* The pages of a neighbourhood query omit no edge of it once the last one *)
(* says it is not truncated.                                               *)
NothingOmitted ==
    (answer.done /\ query.matches = 1 /\ query.op # "path") =>
        Neighborhood \subseteq ToSet(delivered)
=============================================================================
