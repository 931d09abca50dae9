---------------------------- MODULE MCGraphQuery ----------------------------
(* Graphs of at most four edges over three nodes, and every request whose  *)
(* limit, depth and budgets they can reach.                                *)
EXTENDS GraphQuery

Edge(k, f, t, r, s, u) ==
    [key |-> k, from |-> f, to |-> t, relation |-> r, status |-> s, units |-> u]
MCEdges == {Edge(1, 0, 1, 1, 2, 1), Edge(2, 0, 1, 2, 1, 2), Edge(3, 0, 2, 1, 1, 1),
            Edge(4, 0, 2, 2, 2, 1), Edge(5, 1, 2, 1, 1, 2), Edge(6, 1, 2, 2, 1, 1),
            Edge(7, 2, 1, 1, 2, 1), Edge(8, 1, 0, 1, 1, 1), Edge(9, 2, 0, 2, 2, 2),
            Edge(10, 2, 2, 1, 1, 1)}
MCGraphs == {g \in SUBSET MCEdges : Cardinality(g) <= 4}
MCNameRank == [n \in 0..2 |-> IF n = 1 THEN 3 ELSE n]

Requests(ops, dirs, depths, limits, tokens) ==
    [op : ops, direction : dirs, depth : depths, limit : limits, tokens : tokens,
     relations : {{}, {1}}, matches : {1}, from : {0}, to : {2}]
Asked == CHOOSE q \in Requests({"path"}, {"out"}, {1}, {1}, {1}) : TRUE
MCQueries ==
    Requests({"neighbors"}, {"out", "both"}, {1, 2}, {1, 2}, {2, 9})
    \cup Requests({"callers", "callees"}, {"both"}, {2}, {1}, {9})
    \cup Requests({"path"}, {"in", "out", "both"}, {2, 3}, {1}, {9})
    \cup {[Asked EXCEPT !.matches = m, !.op = o] : m \in {0, 2}, o \in {"path", "neighbors"}}
=============================================================================
