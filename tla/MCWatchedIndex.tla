--------------------------- MODULE MCWatchedIndex ---------------------------
(* One file, one callback and a job.                                       *)
EXTENDS WatchedIndex

CONSTANTS f1, s1
=============================================================================
