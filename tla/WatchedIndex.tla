--------------------------- MODULE WatchedIndex ----------------------------
(***************************************************************************)
(* The file watcher of the daemon beside a full index job of another       *)
(* process on the same workspace.  The job runs under index.lock; the      *)
(* workspace write lock that both take belongs to one process each.        *)
(***************************************************************************)
EXTENDS FileWatcher

VARIABLES
    job,       \* where the job is
    walked     \* the contents it has read

workspaceVars == <<vars, job, walked>>

WInit ==
    /\ Init
    /\ job = "idle"
    /\ walked = [f \in Files |-> 0]

JobLock == job = "idle" /\ job' = "locked" /\ UNCHANGED <<vars, walked>>

\* buildCatalog reads every file that is not ignored.
JobWalk ==
    /\ job = "locked"
    /\ job' = "walked"
    /\ walked' = [f \in Files |-> IF f \in Ignored THEN 0 ELSE disk[f]]
    /\ UNCHANGED vars

\* ReplaceWorkspaceIndexForJobWithReferenceSnapshot
JobPublish ==
    /\ job = "walked"
    /\ job' = "published"
    /\ catalog' = walked
    /\ UNCHANGED <<fileVars, pending, retry, timer, stop, flushVars, faults, walked>>

JobUnlock == job = "published" /\ job' = "idle" /\ UNCHANGED <<vars, walked>>

WNext ==
    \/ JobLock \/ JobWalk \/ JobPublish \/ JobUnlock
    \/ Next /\ UNCHANGED <<job, walked>>

WSpec == WInit /\ [][WNext]_workspaceVars

\* The watcher contends on the job's lock: it never writes symbols while an
\* index job runs (IncrementalIndexWithPaths does not take index.lock).
WatcherKeepsOut == [][job # "idle" /\ catalog' # catalog => JobPublish]_workspaceVars
=============================================================================
