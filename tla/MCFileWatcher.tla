--------------------------- MODULE MCFileWatcher ---------------------------
(* Two files and two overlapping callbacks.                                *)
EXTENDS FileWatcher, TLC

CONSTANTS f1, f2, s1, s2

MCFiles == {f1, f2}
MCFlushes == {s1, s2}

Symmetry == Permutations(MCFiles) \cup Permutations(MCFlushes)
=============================================================================
