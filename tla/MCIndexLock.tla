---------------------------- MODULE MCIndexLock ----------------------------
(* Interchangeable processes, one of them patient and one a remover where  *)
(* the configuration says so.                                              *)
EXTENDS IndexLock, TLC

CONSTANTS a, b, c, d, e, none

Symmetry == Permutations(Procs \ (Patient \cup Removers))
=============================================================================
