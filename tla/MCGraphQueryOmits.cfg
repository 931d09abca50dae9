SPECIFICATION GraphQuerySpec
CONSTANTS
 Graphs <- MCGraphs
 Queries <- MCQueries
 NameRank <- MCNameRank
 GraphQueryPathExpansionBudget = 3
CHECK_DEADLOCK FALSE
INVARIANTS NothingOmitted
