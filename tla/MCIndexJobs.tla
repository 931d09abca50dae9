---------------------------- MODULE MCIndexJobs ----------------------------
(* Small casts of processes around a fresh database.  One job has its      *)
(* starter (which may work itself or spawn), the pid of a worker and the   *)
(* cancelers of the configuration.                                         *)
EXTENDS IndexJobs, TLC

CONSTANTS s1, s2, w1, w2, c1, c2

MCJobs == 1..Cardinality(Starters)
MCNoPid == 0
MCPids == Starters \cup Workers \cup Cancelers
=============================================================================
