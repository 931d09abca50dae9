----------------------------- MODULE IndexLock -----------------------------
(***************************************************************************)
(* The workspace index lock (internal/store/index_lock.go): the file       *)
(* .mi-lsp/index.lock, created exclusively, naming the process that holds  *)
(* it.  A lock whose process is gone is removed through quarantine: rename *)
(* it to a private tombstone, look at what was renamed, then delete it or  *)
(* link it back if the pathname is still vacant.  Each system call is a    *)
(* step; any process may die between two of them.                          *)
(*                                                                         *)
(* A lock file is identified by the process that created it: each process  *)
(* here makes one acquisition, so (pid, owner_token, started_at) is        *)
(* determined by the process.  The mutex around the quarantine orders the  *)
(* goroutines of one process and does nothing between processes.           *)
(***************************************************************************)
EXTENDS Naturals, FiniteSets

CONSTANTS
    Procs,      \* processes that acquire the lock or clean it
    Patient,    \* those that retry until a deadline (AcquireWithTimeout)
    Removers,   \* those of a forced cancel, which only remove a dead lock
    NoFile      \* no file under a name; not in Procs

VARIABLES
    path,       \* the file under .mi-lsp/index.lock
    written,    \* files whose content is complete
    tomb,       \* the file under each process's tombstone name
    expected,   \* the lock a process means to remove
    cleanup,    \* processes that may still clean a stale lock
    pc

vars == <<path, written, tomb, expected, cleanup, pc>>

Labels == {"open", "write", "section", "read", "rename", "inspect", "restore", "stat",
           "done", "crashed"}

LockFiles == Procs \cup {NoFile}
processExists(p) == pc[p] \notin {"done", "crashed"}
InSection == {p \in Procs : pc[p] = "section"}

Init ==
    /\ path = NoFile
    /\ written = {}
    /\ tomb = [p \in Procs |-> NoFile]
    /\ expected = [p \in Procs |-> NoFile]
    /\ cleanup = Procs \ Patient
    /\ pc = [p \in Procs |-> IF p \in Removers THEN "read" ELSE "open"]

Goto(p, l) == pc' = [pc EXCEPT ![p] = l]
-----------------------------------------------------------------------------
(* withWorkspaceIndexLock and AcquireWithTimeout.                          *)

\* open(O_CREAT|O_EXCL).  When the file exists a patient process sleeps and
\* tries again, until it gives up.
Open(p) ==
    /\ pc[p] = "open"
    /\ \/ path = NoFile /\ path' = p /\ Goto(p, "write")
       \/ path # NoFile /\ Goto(p, IF p \in Patient THEN "done" ELSE "read") /\ UNCHANGED path
    /\ UNCHANGED <<written, tomb, expected, cleanup>>

\* A failing write removes whatever is under the pathname.
Write(p) ==
    /\ pc[p] = "write"
    /\ \/ written' = written \cup {p} /\ Goto(p, "section") /\ UNCHANGED path
       \/ path' = NoFile /\ Goto(p, "done") /\ UNCHANGED written
    /\ UNCHANGED <<tomb, expected, cleanup>>

\* The work is done: removeIndexLockIfOwned with the process's own record.
Leave(p) ==
    /\ pc[p] = "section"
    /\ expected' = [expected EXCEPT ![p] = p]
    /\ Goto(p, "rename")
    /\ UNCHANGED <<path, written, tomb, cleanup>>

\* Mutant: a lock is stale whoever lives.
StaleByContent(f) == f \in written

\* staleIndexLock: an unreadable or unfinished record is not stale.
Stale(f) == f \in written /\ ~processExists(f)

\* The lock is held: a stale one is cleaned, once; anything else is an error.
ReadLock(p) ==
    /\ pc[p] = "read"
    /\ \/ /\ path \in Procs /\ Stale(path) /\ p \in cleanup
          /\ expected' = [expected EXCEPT ![p] = path]
          /\ Goto(p, "rename")
       \/ /\ ~(path \in Procs /\ Stale(path) /\ p \in cleanup)
          /\ Goto(p, "done") /\ UNCHANGED expected
    /\ UNCHANGED <<path, written, tomb, cleanup>>

\* After cleaning: someone else's lock is an error, a vacant pathname is tried
\* once more, without cleaning.
Stat(p) ==
    /\ pc[p] = "stat"
    /\ Goto(p, IF path = NoFile THEN "open" ELSE "done")
    /\ cleanup' = cleanup \ {p}
    /\ UNCHANGED <<path, written, tomb, expected>>
-----------------------------------------------------------------------------
(* removeIndexLockIfOwned.                                                 *)

\* A process that released its lock, or that came only to remove one, is done.
AfterRemoval(p) == IF expected[p] = p \/ p \in Removers THEN "done" ELSE "stat"

\* rename(path, tombstone) moves whatever is there now.
Rename(p) ==
    /\ pc[p] = "rename"
    /\ \/ /\ path # NoFile
          /\ tomb' = [tomb EXCEPT ![p] = path]
          /\ path' = NoFile
          /\ Goto(p, "inspect")
       \/ path = NoFile /\ Goto(p, AfterRemoval(p)) /\ UNCHANGED <<path, tomb>>
    /\ UNCHANGED <<written, expected, cleanup>>

\* Mutant: delete what was renamed without comparing it with the record.
RemovableAnyway(p, f) == TRUE

\* sameIndexLockOwner, and not the lock of another live process.
Removable(p, f) == f \in written /\ f = expected[p] /\ ~(f # p /\ processExists(f))

Inspect(p) ==
    /\ pc[p] = "inspect"
    /\ \/ /\ Removable(p, tomb[p])
          /\ tomb' = [tomb EXCEPT ![p] = NoFile]
          /\ Goto(p, AfterRemoval(p))
       \/ ~Removable(p, tomb[p]) /\ Goto(p, "restore") /\ UNCHANGED tomb
    /\ UNCHANGED <<path, written, expected, cleanup>>

\* link(tombstone, path) fails if the pathname was claimed meanwhile; the
\* tombstone goes either way.
Restore(p) ==
    /\ pc[p] = "restore"
    /\ path' = IF path = NoFile THEN tomb[p] ELSE path
    /\ tomb' = [tomb EXCEPT ![p] = NoFile]
    /\ Goto(p, AfterRemoval(p))
    /\ UNCHANGED <<written, expected, cleanup>>
-----------------------------------------------------------------------------
Crash(p) ==
    /\ processExists(p)
    /\ Goto(p, "crashed")
    /\ UNCHANGED <<path, written, tomb, expected, cleanup>>

Terminated == (\A p \in Procs : ~processExists(p)) /\ UNCHANGED vars

Next ==
    \/ \E p \in Procs :
         \/ Open(p) \/ Write(p) \/ Leave(p) \/ ReadLock(p) \/ Stat(p)
         \/ Rename(p) \/ Inspect(p) \/ Restore(p) \/ Crash(p)
    \/ Terminated

Spec == Init /\ [][Next]_vars
-----------------------------------------------------------------------------
(* Properties.                                                             *)

\* Type invariant: one pathname, one tombstone per process.
TypeOK ==
    /\ path \in LockFiles
    /\ written \in SUBSET Procs
    /\ tomb \in [Procs -> LockFiles]
    /\ expected \in [Procs -> LockFiles]
    /\ cleanup \in SUBSET Procs
    /\ pc \in [Procs -> Labels]

\* The lock of a process is on disk, under the pathname or a tombstone.
OnDisk(f) == path = f \/ \E p \in Procs : tomb[p] = f

\* Two processes are never inside the lock at once.
MutualExclusion == \A p, q \in InSection : p = q

\* A process that has not begun, or only waits.
Untouched(p) ==
    \/ pc[p] = "open" /\ p \in cleanup \cup Patient
    \/ pc[p] = "read" /\ p \in Removers

\* Two processes are never inside at once as long as no process died, however
\* acquisitions, retries, failed writes and releases interleave; nor, with
\* deaths, as long as no more than three have taken part, say a dead holder and
\* two that find its lock stale (removeIndexLockIfOwned links back what it took
\* by mistake).
ExclusionHolds ==
    \/ \A p \in Procs : pc[p] # "crashed"
    \/ Cardinality({p \in Procs : ~Untouched(p)}) <= 3
    => MutualExclusion

\* The file of a process inside the lock leaves the disk only when a restore
\* finds the pathname claimed: no other step of a cleaner, of a releasing
\* process or of a forced cancel deletes a live process's lock
\* (removeIndexLockIfOwned compares what it renamed before it deletes).
LostOnlyByCollision ==
    [][\A p \in InSection : OnDisk(p) /\ ~OnDisk(p)' =>
          \/ \E q \in Procs : pc[q] = "restore" /\ pc'[q] # "restore" /\ path # NoFile
          \/ \E q \in Procs : pc[q] = "write" /\ pc'[q] = "done"]_vars

\* "El owner replacement sobrevive a cualquier callback stale, incluso después
\* de quarantine": no step of a quarantine loses the lock of a process inside.
ReplacementSurvives ==
    [][\A p \in InSection, q \in Procs :
          pc[q] \in {"inspect", "restore"} /\ pc'[q] # pc[q] /\ OnDisk(p) => OnDisk(p)']_vars
=============================================================================
