------------------------------ MODULE MCStore ------------------------------
(* The tables of a workspace database: index jobs with their publications, *)
(* and graph generations.  They share no state: every behaviour is one of  *)
(* the two parts', chosen at the start.  Two jobs after one unfinished     *)
(* legacy job, two process ids, and up to one publication outside any job; *)
(* two source contents and chains of two generations.                      *)
EXTENDS IndexJobStore, GraphGenerations, TLC

CONSTANTS p1, p2

VARIABLE part

MCJobs == 1..3
MCLegacy == {1}
MCPids == {p1, p2}
MCNoPid == 0

MCInit ==
    /\ part \in {"jobs", "graphs"}
    /\ StoreInit
    /\ part = "jobs" \/ (alive = {} /\ job[1] = LegacyRow("queued", NoPid))
    /\ GraphInit /\ (part = "graphs" \/ tree = CHOOSE c \in Codes : TRUE)

MCNext ==
    \/ part = "jobs" /\ StoreNext /\ UNCHANGED <<part, gvars>>
    \/ part = "graphs" /\ GraphNext /\ UNCHANGED <<part, storeVars>>

MCSpec == MCInit /\ [][MCNext]_<<part, storeVars, gvars>>

Symmetry == Permutations(MCPids)
=============================================================================
