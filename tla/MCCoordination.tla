--------------------------- MODULE MCCoordination ---------------------------
(* How processes keep out of each other's way: index.lock, start.lock and  *)
(* the file watcher's batches.  They share no state: every behaviour is    *)
(* one of the three parts', chosen at the start.                           *)
EXTENDS FileWatcher, StartLock, TLC

CONSTANTS
    f1, f2, s1, s2,              \* files and callbacks of the watcher
    a, b, c,                     \* process ids of start.lock
    i, j, patient, remover,       \* processes at index.lock
    NoFile

VARIABLES part, path, written, tomb, expected, cleanup, lockPc

MCFiles == {f1, f2}
MCFlushes == {s1, s2}
MCProcs == {a, b, c}

Index == INSTANCE IndexLock WITH
    Procs <- {i, j, patient, remover}, Patient <- {patient}, Removers <- {remover},
    pc <- lockPc
indexVars == <<path, written, tomb, expected, cleanup, lockPc>>

MCInit ==
    /\ part \in {"watcher", "start", "index"}
    /\ Init /\ (part = "watcher" \/ disk = [f \in Files |-> 1])
    /\ LockInit /\ (part = "start" \/ file = Absent)
    /\ Index!Init

MCNext ==
    \/ part = "watcher" /\ Next /\ UNCHANGED <<part, lockVars, indexVars>>
    \/ part = "start" /\ LockNext /\ UNCHANGED <<part, vars, indexVars>>
    \/ part = "index" /\ Index!Next /\ UNCHANGED <<part, vars, lockVars>>

MCSpec == MCInit /\ [][MCNext]_<<part, vars, lockVars, indexVars>>

\* IndexLock: a live lock file is lost only by two cleaners colliding.
LostOnlyByCollision == Index!LostOnlyByCollision
\* IndexLock: one process indexes, unless one of four died.
ExclusionHolds == Index!ExclusionHolds

Symmetry == Permutations(MCFiles) \cup Permutations(MCFlushes) \cup Permutations({i, j})
=============================================================================
