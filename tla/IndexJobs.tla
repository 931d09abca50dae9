----------------------------- MODULE IndexJobs -----------------------------
(***************************************************************************)
(* The processes that drive index jobs (internal/service/index_jobs.go):   *)
(* `index start` creates a job and spawns a worker, or works itself when   *)
(* asked to wait; the worker takes the workspace index lock, reports       *)
(* progress, polls for cancellation and publishes; `index cancel [--force]`*)
(* asks a job to stop and, with --force, kills its process.  Between two   *)
(* steps of a process any other process may run, and any process may be    *)
(* killed.  Each database step is a transaction of IndexJobStore.          *)
(*                                                                         *)
(* GetIndexJob is one step although the code reads the row and the         *)
(* ownership one after the other: a job has one reservation in its life,   *)
(* so a row paired with a later ownership differs from a consistent pair   *)
(* only by an empty fence, and both are refused by the same CAS.           *)
(* The index lock is the file lock of IndexLock.tla seen from outside: one *)
(* holder, taken over when the holder's process is gone.                   *)
(***************************************************************************)
EXTENDS IndexJobStore

CONSTANTS
    Starters,       \* processes of `index start`
    Workers,        \* process ids the system gives to spawned workers
    Cancelers,      \* processes of `index cancel`
    Forced,         \* those of them called with --force
    JobModes,       \* the modes jobs are started with
    MaxReports,     \* bound on progress reports after the first
    MaxCrashes      \* bound on processes that die by themselves

ASSUME RolesAssumption ==
    /\ Pids = Starters \cup Workers \cup Cancelers
    /\ Starters \cap Workers = {} /\ Starters \cap Cancelers = {}
    /\ Workers \cap Cancelers = {} /\ Forced \subseteq Cancelers
ASSUME JobModesAssumption == JobModes \subseteq Modes
ASSUME BoundsAssumption == MaxReports \in Nat /\ MaxCrashes \in Nat

VARIABLES
    pc,         \* where each process is
    target,     \* the job it is about
    seen,       \* its snapshot of that job, from GetIndexJob
    created,    \* fence a starter got from createIndexJob
    child,      \* the worker a starter spawned
    reports,    \* progress reports a worker may still make
    lock,       \* process named in index.lock, NoPid when there is none
    crashes     \* processes that died by themselves

localVars == <<target, seen, created, child, reports>>
procVars == <<pc, target, seen, created, child, reports, lock, crashes>>
vars == <<storeVars, procVars>>

Labels == {"unborn", "s_create", "s_attach", "s_spawn", "s_get", "s_running", "s_fail",
           "w_get", "w_cancel", "w_lock", "w_mark", "w_check", "w_coop", "w_progress",
           "w_check2", "w_work", "w_err", "w_fail", "w_end",
           "c_get", "c_reread", "c_request", "c_requested", "c_kill", "c_mark", "c_unlock",
           "done", "timeout", "killed", "crashed"}
Ended == {"done", "timeout", "killed", "crashed"}

Snapshots == [status : ActiveStatus \cup TerminalStatus \cup {"none"}, cancel : BOOLEAN,
              pid : Pids \cup {NoPid}, fence : Nat]

\* The row as attachIndexJobOwner completes it.
Snapshot(j) == [status |-> job[j].status, cancel |-> job[j].cancel, pid |-> job[j].pid,
                fence |-> IF Owned(j) THEN owner.fence ELSE 0]

Init ==
    /\ StoreInit
    /\ alive = Starters \cup Cancelers
    /\ pc = [p \in Pids |-> IF p \in Starters THEN "s_create"
                            ELSE IF p \in Workers THEN "unborn"
                            ELSE IF p \in Forced THEN "c_get" ELSE "c_reread"]
    /\ target = [p \in Pids |-> NoJob]
    /\ seen = [p \in Pids |-> [status |-> "none", cancel |-> FALSE, pid |-> NoPid, fence |-> 0]]
    /\ created = [s \in Starters |-> 0]
    /\ child = [s \in Starters |-> NoPid]
    /\ reports = [p \in Starters \cup Workers |-> MaxReports]
    /\ lock = NoPid
    /\ crashes = 0
-----------------------------------------------------------------------------
(* Steps every process is made of.                                         *)

Goto(p, l) == pc' = [pc EXCEPT ![p] = l] /\ UNCHANGED alive

\* The process returns from its command.
Exit(p, l) == pc' = [pc EXCEPT ![p] = l] /\ alive' = alive \ {p}

\* GetIndexJob: a reader that finds the process of an active job gone marks
\* the job failed and reloads it.
GetIndexJob(j) ==
    \/ ReconcileIndexJobRead(j)
    \/ ~(StaleForRead(j) /\ FailAllowed(j, owner.fence)) /\ UNCHANGED dbVars

\* GetIndexJob, keeping the result.
Read(p) ==
    /\ UNCHANGED <<target, created, child, reports, lock, crashes>>
    /\ GetIndexJob(target[p])
    /\ seen' = [seen EXCEPT ![p] = Snapshot(target[p])']

\* A local step, or a database step, that only moves the process on.
Keep == UNCHANGED <<localVars, lock, crashes>>

\* An owner-bound operation that is refused with ErrStaleIndexJobOwner.
Refused(p, l) == Goto(p, l) /\ UNCHANGED dbVars
-----------------------------------------------------------------------------
(* indexStart.                                                             *)

StartCreate(s) ==
    /\ pc[s] = "s_create"
    /\ \/ \E j \in Modern, m \in JobModes :
            /\ \A k \in Modern \ Created : j <= k     \* the next rowid
            /\ CreateIndexJob(j, m)
            /\ target' = [target EXCEPT ![s] = j]
            /\ Goto(s, "s_attach")
       \/ ReservationBlocked /\ Exit(s, "done") /\ UNCHANGED <<dbVars, target>>
    /\ UNCHANGED <<seen, created, child, reports, lock, crashes>>

\* createIndexJob reads the ownership back after its commit; then indexStart
\* works itself (wait) or spawns.
StartAttach(s) ==
    /\ pc[s] = "s_attach"
    /\ created' = [created EXCEPT ![s] = Snapshot(target[s]).fence]
    /\ Goto(s, "s_spawn") \/ Goto(s, "w_get")
    /\ UNCHANGED <<dbVars, target, seen, child, reports, lock, crashes>>

\* spawnIndexJobWith starts the process without looking at the job's status.
StartSpawn(s) ==
    /\ pc[s] = "s_spawn"
    /\ \/ \E w \in Workers :
            /\ pc[w] = "unborn"
            /\ pc' = [pc EXCEPT ![s] = "s_get", ![w] = "w_get"]
            /\ alive' = alive \cup {w}
            /\ target' = [target EXCEPT ![w] = target[s]]
            /\ child' = [child EXCEPT ![s] = w]
       \/ Goto(s, "s_fail") /\ UNCHANGED <<target, child>>
    /\ UNCHANGED <<dbVars, seen, created, reports, lock, crashes>>

StartGet(s) ==
    /\ pc[s] = "s_get"
    /\ \/ Read(s) /\ Goto(s, "s_running")
       \/ Refused(s, "s_fail") /\ Keep      \* the read failed

\* The parent records the child's pid, racing with the child's own record.
StartRunning(s) ==
    /\ pc[s] = "s_running"
    /\ \/ MarkIndexJobRunning(target[s], child[s], seen[s].fence) /\ Exit(s, "done")
       \/ Refused(s, "s_fail")              \* a stale fence, or the write failed
    /\ Keep

\* Mutant: a start that fails returns its error and forgets the job.
StartFailSilently(s) == pc[s] = "s_fail" /\ Exit(s, "done") /\ UNCHANGED dbVars /\ Keep

\* The failed start fails the job, with the fence of its creation.
StartFail(s) ==
    /\ pc[s] = "s_fail"
    /\ \/ MarkIndexJobFailed(target[s], created[s])
       \/ ~FailAllowed(target[s], created[s]) /\ UNCHANGED dbVars
    /\ Exit(s, "done") /\ Keep
-----------------------------------------------------------------------------
(* runIndexJobWithPolicyHint, in a spawned process or in the starter's.    *)

\* Finished jobs are left alone, canceled ones confirmed; a failed job goes on
\* to be refused by MarkIndexJobRunning.
WorkGet(w) ==
    /\ pc[w] = "w_get"
    /\ Read(w)
    /\ LET row == seen'[w]
       IN  \/ row.status \in {"canceled", "succeeded"} /\ Exit(w, "done")
           \/ row.status \notin {"canceled", "succeeded"} /\ row.cancel /\ Goto(w, "w_cancel")
           \/ row.status \notin {"canceled", "succeeded"} /\ ~row.cancel /\ Goto(w, "w_lock")

\* markIndexJobCanceledCooperatively before any work.
WorkCancel(w) ==
    /\ pc[w] = "w_cancel"
    /\ \/ MarkIndexJobCanceled(target[w], seen[w].fence)
       \/ ~CancelAllowed(target[w], seen[w].fence) /\ UNCHANGED dbVars
    /\ Exit(w, "done") /\ Keep

\* Mutant: a lock file is taken over whoever its holder is.
LockFreeForAnyone == TRUE

LockFree == lock = NoPid \/ lock \notin alive

\* withWorkspaceIndexLock: take the lock, or give up on a live holder or on a
\* file error.
WorkLock(w) ==
    /\ pc[w] = "w_lock"
    /\ \/ LockFree /\ lock' = w /\ Goto(w, "w_mark")
       \/ Goto(w, "w_fail") /\ UNCHANGED lock
    /\ UNCHANGED <<dbVars, localVars, crashes>>

WorkMark(w) ==
    /\ pc[w] = "w_mark"
    /\ \/ MarkIndexJobRunning(target[w], w, seen[w].fence) /\ Goto(w, "w_check")
       \/ ~RunningAllowed(target[w], seen[w].fence) /\ Refused(w, "w_end")
    /\ Keep

\* report: poll for cancellation; a report that is neither forced nor due
\* writes nothing (the first one is forced).
WorkCheck(w) ==
    /\ pc[w] = "w_check"
    /\ \/ job[target[w]].cancel /\ Goto(w, "w_coop")
       \/ ~job[target[w]].cancel /\ Goto(w, "w_progress")
       \/ ~job[target[w]].cancel /\ reports[w] < MaxReports /\ Goto(w, "w_work")
    /\ UNCHANGED dbVars /\ Keep

\* Both polls of report end here: the flag was read, now the owner confirms.
WorkCoop(w) ==
    /\ pc[w] = "w_coop"
    /\ \/ MarkIndexJobCanceled(target[w], seen[w].fence)
       \/ ~CancelAllowed(target[w], seen[w].fence) /\ UNCHANGED dbVars
    /\ Goto(w, "w_end") /\ Keep

WorkProgress(w) ==
    /\ pc[w] = "w_progress"
    /\ Goto(w, IF ProgressAllowed(target[w], seen[w].fence) THEN "w_check2" ELSE "w_end")
    /\ UNCHANGED dbVars /\ Keep

WorkCheck2(w) ==
    /\ pc[w] = "w_check2"
    /\ Goto(w, IF job[target[w]].cancel THEN "w_coop" ELSE "w_work")
    /\ UNCHANGED dbVars /\ Keep

\* The indexer reports, fails or publishes.
WorkReport(w) ==
    /\ pc[w] = "w_work" /\ reports[w] > 0
    /\ reports' = [reports EXCEPT ![w] = @ - 1]
    /\ Goto(w, "w_check")
    /\ UNCHANGED <<dbVars, target, seen, created, child, lock, crashes>>

\* An indexing, file or database error under the lock.
WorkError(w) ==
    /\ pc[w] \in {"w_mark", "w_check", "w_coop", "w_progress", "w_check2", "w_work"}
    /\ Refused(w, "w_err") /\ Keep

WorkPublish(w) ==
    /\ pc[w] = "w_work"
    /\ \/ \E pub \in Publications(job[target[w]].mode), cg \in ReadableCatalogs :
            PublishOwned(target[w], seen[w].fence, pub, cg)
       \/ ~PublishAllowed(target[w], seen[w].fence) /\ UNCHANGED dbVars
    /\ Goto(w, "w_end") /\ Keep

\* The lock is released before the error is looked at.
WorkUnlock(w) ==
    /\ \/ pc[w] = "w_err" /\ Goto(w, "w_fail")
       \/ pc[w] = "w_end" /\ Exit(w, "done")
    /\ lock' = IF lock = w THEN NoPid ELSE lock
    /\ UNCHANGED <<dbVars, localVars, crashes>>

\* Mutant: a pass that fails returns its error and forgets the job.
WorkFailSilently(w) == pc[w] = "w_fail" /\ Exit(w, "done") /\ UNCHANGED dbVars /\ Keep

WorkFail(w) ==
    /\ pc[w] = "w_fail"
    /\ \/ MarkIndexJobFailed(target[w], seen[w].fence)
       \/ ~FailAllowed(target[w], seen[w].fence) /\ UNCHANGED dbVars
    /\ Exit(w, "done") /\ Keep
-----------------------------------------------------------------------------
(* indexCancel, CancelIndexJob and RequestIndexJobCancelByID.  The command *)
(* names a job that exists.                                                *)

\* With --force: the snapshot whose process and fence are used further down.
CancelGet(c) ==
    /\ pc[c] = "c_get"
    /\ \/ \E j \in Created :
            /\ target' = [target EXCEPT ![c] = j]
            /\ GetIndexJob(j)
            /\ seen' = [seen EXCEPT ![c] = Snapshot(j)']
            /\ IF job'[j].status \in ActiveStatus THEN Goto(c, "c_reread") ELSE Exit(c, "done")
       \/ Created = {} /\ Exit(c, "done") /\ UNCHANGED <<dbVars, target, seen>>
    /\ UNCHANGED <<created, child, reports, lock, crashes>>

\* RequestIndexJobCancelByID reads the job again for itself.
CancelReread(c) ==
    /\ pc[c] = "c_reread"
    /\ \/ \E j \in Created :
            /\ target[c] \in {NoJob, j}
            /\ target' = [target EXCEPT ![c] = j]
            /\ GetIndexJob(j)
            /\ IF job'[j].status \in ActiveStatus THEN Goto(c, "c_request") ELSE Exit(c, "done")
       \/ Created = {} /\ Exit(c, "done") /\ UNCHANGED <<dbVars, target>>
    /\ UNCHANGED <<seen, created, child, reports, lock, crashes>>

CancelRequest(c) ==
    /\ pc[c] = "c_request"
    /\ \/ RequestIndexJobCancel(target[c])
       \/ /\ ~CancelQueuedAllowed(target[c]) /\ ~CancelRunningAllowed(target[c])
          /\ UNCHANGED dbVars
    /\ Goto(c, "c_requested") /\ Keep

\* The trailing read decides whether --force has anything left to do.
CancelRequested(c) ==
    /\ pc[c] = "c_requested"
    /\ GetIndexJob(target[c])
    /\ IF c \in Forced /\ job'[target[c]].status \in ActiveStatus
         THEN Goto(c, "c_kill") ELSE Exit(c, "done")
    /\ Keep

\* Mutant: the process is not waited for.
KillWithoutWaiting(c) ==
    /\ pc[c] = "c_kill"
    /\ Goto(c, "c_mark")
    /\ UNCHANGED dbVars /\ Keep

\* Terminate the process of the snapshot and wait for its exit; without a
\* confirmation the job keeps its reservation and its lock.
CancelKill(c) ==
    /\ pc[c] = "c_kill"
    /\ LET p == seen[c].pid
       IN  \/ p \notin alive /\ Goto(c, "c_mark")
           \/ /\ p \in alive
              /\ pc' = [pc EXCEPT ![c] = "c_mark", ![p] = "killed"]
              /\ alive' = alive \ {p}
           \/ p \in alive /\ Exit(c, "timeout")
    /\ UNCHANGED dbVars /\ Keep

CancelMark(c) ==
    /\ pc[c] = "c_mark"
    /\ \/ MarkIndexJobCanceled(target[c], seen[c].fence) /\ Goto(c, "c_unlock")
       \/ ~CancelAllowed(target[c], seen[c].fence) /\ Exit(c, "done") /\ UNCHANGED dbVars
    /\ Keep

\* The lock file the dead process left is removed, if it is still there.
CancelUnlock(c) ==
    /\ pc[c] = "c_unlock"
    /\ lock' = IF seen[c].pid # NoPid /\ lock = seen[c].pid /\ lock \notin alive
               THEN NoPid ELSE lock
    /\ Exit(c, "done")
    /\ UNCHANGED <<dbVars, localVars, crashes>>
-----------------------------------------------------------------------------
Crash(p) ==
    /\ p \in alive /\ crashes < MaxCrashes
    /\ crashes' = crashes + 1
    /\ Exit(p, "crashed")
    /\ UNCHANGED <<dbVars, localVars, lock>>

StarterStep(s) ==
    \/ StartCreate(s) \/ StartAttach(s) \/ StartSpawn(s)
    \/ StartGet(s) \/ StartRunning(s) \/ StartFail(s)

WorkerStep(w) ==
    \/ WorkGet(w) \/ WorkCancel(w) \/ WorkLock(w) \/ WorkMark(w)
    \/ WorkCheck(w) \/ WorkCoop(w) \/ WorkProgress(w) \/ WorkCheck2(w)
    \/ WorkReport(w) \/ WorkError(w) \/ WorkPublish(w) \/ WorkUnlock(w) \/ WorkFail(w)

CancelerStep(c) ==
    \/ CancelGet(c) \/ CancelReread(c) \/ CancelRequest(c) \/ CancelRequested(c)
    \/ CancelKill(c) \/ CancelMark(c) \/ CancelUnlock(c)

\* Every process that was started has returned or died.
Quiet == \A p \in Pids : pc[p] \in Ended \cup {"unborn"}

Terminated == Quiet /\ UNCHANGED vars

Next ==
    \/ \E s \in Starters : StarterStep(s)
    \/ \E w \in Workers \cup Starters : WorkerStep(w)
    \/ \E c \in Cancelers : CancelerStep(c)
    \/ \E p \in Pids : Crash(p)
    \/ Terminated

Spec == Init /\ [][Next]_vars

\* The operating system runs every process that is not dead.
FairSpec ==
    /\ Spec
    /\ \A s \in Starters : WF_vars(StarterStep(s))
    /\ \A w \in Workers \cup Starters : WF_vars(WorkerStep(w))
    /\ \A c \in Cancelers : WF_vars(CancelerStep(c))
-----------------------------------------------------------------------------
(* Properties.                                                             *)

\* Type invariant of the processes.
ProcTypeOK ==
    /\ pc \in [Pids -> Labels]
    /\ target \in [Pids -> Jobs \cup {NoJob}]
    /\ seen \in [Pids -> Snapshots]
    /\ created \in [Starters -> Nat]
    /\ child \in [Starters -> Workers \cup {NoPid}]
    /\ reports \in [Starters \cup Workers -> 0..MaxReports]
    /\ lock \in Pids \cup {NoPid}
    /\ crashes \in 0..MaxCrashes

InSection == {"w_mark", "w_check", "w_coop", "w_progress", "w_check2", "w_work", "w_err", "w_end"}

\* Indexing is exclusive: two live processes are never both between taking and
\* releasing the index lock, whatever was killed, canceled or taken over.
IndexingIsExclusive ==
    \A p, q \in alive : pc[p] \in InSection /\ pc[q] \in InSection => p = q

\* When every process has ended, a job is still active only if its cancellation
\* was accepted or a process that was about it died: no order of spawn errors,
\* lost races between parent and child, lock timeouts and indexing errors
\* leaves a reservation behind (indexStart and runIndexJobWithPolicyHint).
NoJobLeftBehind ==
    Quiet => \A j \in Modern : IsActive(j) =>
        job[j].cancel \/ \E p \in Pids : pc[p] = "crashed" /\ target[p] = j

\* A forced cancellation that knew the job's process confirms the job canceled
\* only after the process recorded for the job is gone (CancelIndexJob).
ForceCancelWaits ==
    \A c \in Forced : pc[c] = "c_unlock" /\ seen[c].pid # NoPid =>
        job[target[c]].pid \notin alive

\* A force cancel "que no confirma la salida del PID conserva" the reservation:
\* after a forced cancellation the process recorded for the job is gone.
ForceCancelConfirmsExit ==
    \A c \in Forced : pc[c] = "c_unlock" => job[target[c]].pid \notin alive

\* With processes that keep running, every job that was created is settled,
\* unless somebody's cancellation of it was accepted.
JobSettles == \A j \in Modern : job[j].status # "none" ~> IsTerminal(j) \/ job[j].cancel

\* A forced cancellation that found the job active settles it, unless the
\* process outlived the wait.
ForceCancelSettles ==
    \A c \in Forced : pc[c] = "c_kill" ~>
        (pc[c] = "timeout" \/ (target[c] # NoJob /\ IsTerminal(target[c])))
=============================================================================
