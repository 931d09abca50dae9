--------------------------- MODULE IndexJobStore ---------------------------
(***************************************************************************)
(* The transactional half of an index job: the SQLite tables index_jobs,   *)
(* index_generations, index_job_ownership and the workspace_meta pointers  *)
(* of ONE workspace database, and the operations of internal/store that    *)
(* change them.  Every operation is one transaction of the code and so one *)
(* action here.  An operation takes the fence its caller holds; the        *)
(* callers of this module (StoreNext) are the most general ones: any       *)
(* operation, on any job, with any fence that was ever handed out, while   *)
(* processes come and go and process ids are reused.  IndexJobs.tla        *)
(* restricts them to what the service layer really does.                   *)
(*                                                                         *)
(* A job and its generation have the same identity: createIndexJob makes   *)
(* both in one transaction and nothing re-parents a generation.  Job       *)
(* identities are numbers in rowid order.  The pair (owner_token,          *)
(* fencing_token) is minted once per reservation, so the fencing number    *)
(* alone stands for it; 0 is the empty fence.  The column                  *)
(* publication_started is 1 only inside the transaction of publishOwned,   *)
(* which ends with 'succeeded' or rolls back (MarkIndexJobPhase has no     *)
(* caller), so no committed state shows it.                                *)
(***************************************************************************)
EXTENDS Integers, FiniteSets

CONSTANTS
    Jobs,           \* identities of index_jobs rows, in rowid order
    Legacy,         \* rows written before the ownership table existed
    Pids,           \* process ids
    NoPid,          \* pid = 0, "no process recorded"
    MaxForeground   \* bound on publications outside any job

ASSUME JobsAssumption == Jobs \subseteq Nat \ {0}
ASSUME LegacyAssumption == Legacy \subseteq Jobs
ASSUME PidsAssumption == NoPid \notin Pids
ASSUME ForegroundAssumption == MaxForeground \in Nat

VARIABLES
    job,        \* index_jobs: [Jobs -> JobRow]
    gen,        \* index_generations.status by job
    owner,      \* the single index_job_ownership row of the workspace root
    active,     \* active_{catalog,docs,memory}_generation_id
    graph,      \* graph runtime state and graph_catalog_generation_id
    minted,     \* number of generation ids minted outside jobs
    alive       \* the processes processExists() reports

dbVars == <<job, gen, owner, active, graph, minted>>
storeVars == <<job, gen, owner, active, graph, minted, alive>>

NoJob == 0
Modes == {"full", "docs", "catalog"}
Surfaces == {"catalog", "docs", "memory"}
ActiveStatus == {"queued", "running", "publishing", "cancel_requested"}
TerminalStatus == {"succeeded", "failed", "canceled"}
GenStatus == {"none", "building", "published", "skipped", "failed", "canceled"}

\* The publications outside jobs name generations no job has.
Generations == Jobs \cup {NoJob} \cup {-n : n \in 1..MaxForeground}

JobRow == [status : ActiveStatus \cup TerminalStatus \cup {"none"},
           cancel : BOOLEAN,          \* requested_cancel
           pid    : Pids \cup {NoPid},
           mode   : Modes]
Ownership == [job : Jobs \cup {NoJob}, fence : Nat, pid : Pids \cup {NoPid},
              released : BOOLEAN]
GraphState == [state : {"none", "fresh", "stale"}, catalog : Generations]

Modern == Jobs \ Legacy
Created == {j \in Jobs : job[j].status # "none"}
IsActive(j) == job[j].status \in ActiveStatus
IsTerminal(j) == job[j].status \in TerminalStatus

\* The EXISTS clause every owner-bound UPDATE carries.
Fenced(j, f) == f > 0 /\ ~owner.released /\ owner.job = j /\ owner.fence = f

\* The control-plane clause: some unreleased ownership row names the job.
Owned(j) == ~owner.released /\ owner.job = j
-----------------------------------------------------------------------------
(* Initial states: a database of a binary without the ownership schema,    *)
(* after ensureIndexJobOwnershipSchema gave it an empty ownership table.   *)
(* Only its unfinished jobs matter: no operation looks at finished ones.   *)

NoRow == [status |-> "none", cancel |-> FALSE, pid |-> NoPid, mode |-> "full"]

LegacyRow(s, p) ==
    [status |-> s, cancel |-> s = "cancel_requested", pid |-> p, mode |-> "full"]

StoreInit ==
    /\ alive \in SUBSET Pids
    /\ \E st \in [Legacy -> ActiveStatus],
          pd \in [Legacy -> Pids \cup {NoPid}] :
         job = [j \in Jobs |-> IF j \in Legacy THEN LegacyRow(st[j], pd[j])
                                               ELSE NoRow]
    /\ gen = [j \in Jobs |-> IF j \in Legacy THEN "building" ELSE "none"]
    /\ owner = [job |-> NoJob, fence |-> 0, pid |-> NoPid, released |-> TRUE]
    /\ active = [s \in Surfaces |-> NoJob]
    /\ graph = [state |-> "none", catalog |-> NoJob]
    /\ minted = 0
-----------------------------------------------------------------------------
(* createIndexJob: INSERT job, reserve, INSERT generation; all or nothing. *)

\* loadActiveIndexJobTx: the newest active row.
Newest(k) == IsActive(k) /\ \A l \in Jobs : IsActive(l) => l <= k

\* Mutant: only a process that exists blocks, a reservation alone does not.
BlockedByProcess == \E k \in Jobs : Newest(k) /\ job[k].pid \in alive

\* reserveIndexJobTx answers ActiveIndexJobError: the newest active row holds
\* the reservation or its process exists, or else the reservation's own job is
\* active and its process exists or was never recorded.
ReservationBlocked ==
    \/ \E k \in Jobs : Newest(k) /\ (Owned(k) \/ job[k].pid \in alive)
    \/ /\ ~owner.released
       /\ IsActive(owner.job)
       /\ owner.pid = NoPid \/ owner.pid \in alive

NextFence == owner.fence + 1

\* The abandoned newest row becomes 'failed' (its generation row is left as it
\* is) and the ownership row is rewritten with the next fencing token.
CreateIndexJob(j, m) ==
    /\ job[j].status = "none"
    /\ \A k \in Created : k < j
    /\ ~ReservationBlocked
    /\ job' = [k \in Jobs |->
                 IF k = j THEN [NoRow EXCEPT !.status = "queued", !.mode = m]
                 ELSE IF Newest(k) THEN [job[k] EXCEPT !.status = "failed"]
                 ELSE job[k]]
    /\ owner' = [job |-> j, fence |-> NextFence, pid |-> NoPid,
                 released |-> FALSE]
    /\ gen' = [gen EXCEPT ![j] = "building"]
    /\ UNCHANGED <<active, graph, minted>>
-----------------------------------------------------------------------------
(* Owner-bound transitions.  XAllowed is the UPDATE's WHERE clause with    *)
(* the row counts the code requires: when it is false the code answers     *)
(* ErrStaleIndexJobOwner and changes nothing.                              *)

\* Mutant: the terminal transaction forgets the ownership row.
KeepReservation == UNCHANGED owner

Release == owner' = [owner EXCEPT !.released = TRUE]

RunningAllowed(j, f) ==
    Fenced(j, f) /\ ~job[j].cancel /\ job[j].status \in {"queued", "running"}

MarkIndexJobRunning(j, p, f) ==
    /\ RunningAllowed(j, f)
    /\ job' = [job EXCEPT ![j] = [@ EXCEPT !.status = "running", !.pid = p]]
    /\ owner' = [owner EXCEPT !.pid = p]
    /\ UNCHANGED <<gen, active, graph, minted>>

\* MarkIndexJobProgress writes only counters and the current stage.
ProgressAllowed(j, f) ==
    Fenced(j, f) /\ ~job[j].cancel /\ job[j].status \in {"running", "publishing"}

FailAllowed(j, f) ==
    /\ Fenced(j, f) /\ ~job[j].cancel
    /\ job[j].status \in {"queued", "running", "publishing"}
    /\ gen[j] = "building"

StaleGraph == [state |-> "stale", catalog |-> NoJob]

MarkIndexJobFailed(j, f) ==
    /\ FailAllowed(j, f)
    /\ job' = [job EXCEPT ![j] = [@ EXCEPT !.status = "failed"]]
    /\ gen' = [gen EXCEPT ![j] = "failed"]
    /\ graph' = IF job[j].mode \in {"full", "catalog"} THEN StaleGraph ELSE graph
    /\ Release
    /\ UNCHANGED <<active, minted>>

\* Mutant: the status list of the UPDATE lost 'cancel_requested'.
CancelAllowedBeforeRequest(j, f) ==
    Fenced(j, f) /\ job[j].cancel /\ job[j].status \in {"queued", "running"} /\ gen[j] = "building"

CancelAllowed(j, f) ==
    /\ Fenced(j, f) /\ job[j].cancel
    /\ job[j].status \in {"queued", "running", "cancel_requested"}
    /\ gen[j] = "building"

MarkIndexJobCanceled(j, f) ==
    /\ CancelAllowed(j, f)
    /\ job' = [job EXCEPT ![j] = [@ EXCEPT !.status = "canceled"]]
    /\ gen' = [gen EXCEPT ![j] = "canceled"]
    /\ Release
    /\ UNCHANGED <<active, graph, minted>>
-----------------------------------------------------------------------------
(* Publication by a job: publishOwned with the body of each publishing     *)
(* entry point.  What an entry point publishes is a set of surfaces, what  *)
(* it says of the graph, and whether its candidate generation is skipped.  *)

Publication(S, g, skip) == [surfaces |-> S, graph |-> g, skip |-> skip]

\* Mutant: a pass that skips its candidate still moves the catalog pointer.
PublicationsOfSkipped(m) == {Publication({"catalog"}, "same", TRUE)}

Publications(m) ==
    CASE m = "full" ->
           {Publication(S, g, FALSE) : S \in {Surfaces, {"catalog"}},
                                       g \in {"fresh", "stale"}}
           \cup {Publication({"docs", "memory"}, "stale", FALSE)}
           \cup {Publication({}, g, TRUE) : g \in {"fresh", "same"}}
      [] m = "docs" ->
           {Publication({"docs", "memory"}, g, FALSE) : g \in {"fresh", "same"}}
      [] m = "catalog" -> {Publication({"catalog"}, "same", FALSE)}

\* Mutant: a publication that checks no ownership, as the foreground ones.
PublishUnfenced(j, f) == job[j].status # "none"

PublishAllowed(j, f) ==
    /\ Fenced(j, f) /\ ~job[j].cancel
    /\ job[j].status = "running"
    /\ gen[j] = "building"

\* A graph is bound to the catalog the publisher read before its transaction
\* (cg; only a docs job reads one), else to the active catalog as the
\* transaction leaves it, else to the job's own generation.
Bound(j, cg, catalog) ==
    IF cg # NoJob THEN cg ELSE IF catalog # NoJob THEN catalog ELSE j

PublishOwned(j, f, pub, cg) ==
    /\ PublishAllowed(j, f)
    /\ pub \in Publications(job[j].mode)
    /\ cg # NoJob => job[j].mode = "docs"
    /\ gen' = [gen EXCEPT ![j] = IF pub.skip THEN "skipped" ELSE "published"]
    /\ active' = [s \in Surfaces |-> IF s \in pub.surfaces THEN j ELSE active[s]]
    /\ graph' = CASE pub.graph = "same" -> graph
                  [] pub.graph = "stale" -> StaleGraph
                  [] pub.graph = "fresh" ->
                       [state |-> "fresh", catalog |-> Bound(j, cg, active'["catalog"])]
    /\ job' = [job EXCEPT ![j] = [@ EXCEPT !.status = "succeeded"]]
    /\ Release
    /\ UNCHANGED minted
-----------------------------------------------------------------------------
(* Publication without a job (the watcher, the query refresh, index.run):  *)
(* no fence, no generation row.  An incremental pass with changes mints a  *)
(* generation id and moves the pointers of what changed; a full, docs-only *)
(* or graph-only pass has the empty id and moves none.                     *)

MintGeneration == -(minted + 1)

PublishForeground(S, state) ==
    /\ minted < MaxForeground
    /\ LET g == MintGeneration
       IN  /\ active' = [s \in Surfaces |-> IF s \in S THEN g ELSE active[s]]
           /\ graph' = IF state = "stale" THEN StaleGraph
                       ELSE [state |-> "fresh",
                             catalog |-> IF "catalog" \in S THEN g ELSE NoJob]
    /\ minted' = minted + 1
    /\ UNCHANGED <<job, gen, owner>>

\* What a foreground pass can change together, and how it leaves the graph.
ForegroundKinds ==
    {<<{"catalog"}, "fresh">>, <<{"catalog"}, "stale">>,
     <<{"docs", "memory"}, "stale">>, <<Surfaces, "stale">>,
     <<{}, "fresh">>, <<{}, "stale">>}

\* IndexWorkspaceDocsOnly outside a job binds the graph, in a transaction of
\* its own, to the catalog it read before.
SetGraphRuntimeFresh(cg) ==
    /\ graph' = [state |-> "fresh", catalog |-> cg]
    /\ UNCHANGED <<job, gen, owner, active, minted>>
-----------------------------------------------------------------------------
(* Control plane: RequestIndexJobCancelByID's transaction needs no fence.  *)

CancelQueuedAllowed(j) ==
    Owned(j) /\ ~job[j].cancel /\ job[j].status = "queued" /\ gen[j] = "building"

CancelRunningAllowed(j) == Owned(j) /\ ~job[j].cancel /\ job[j].status = "running"

CancelQueued(j) ==
    /\ CancelQueuedAllowed(j)
    /\ job' = [job EXCEPT ![j] = [@ EXCEPT !.status = "canceled", !.cancel = TRUE]]
    /\ gen' = [gen EXCEPT ![j] = "canceled"]
    /\ Release
    /\ UNCHANGED <<active, graph, minted>>

CancelRunning(j) ==
    /\ CancelRunningAllowed(j)
    /\ job' = [job EXCEPT ![j] = [@ EXCEPT !.status = "cancel_requested",
                                           !.cancel = TRUE]]
    /\ UNCHANGED <<gen, owner, active, graph, minted>>

RequestIndexJobCancel(j) == CancelQueued(j) \/ CancelRunning(j)

\* staleIndexJobForRead: the reservation names a process that is gone.
StaleForRead(j) ==
    IsActive(j) /\ Owned(j) /\ owner.pid # NoPid /\ owner.pid \notin alive

\* reconcileIndexJobRead: whoever reads such a job marks it failed.
ReconcileIndexJobRead(j) == StaleForRead(j) /\ MarkIndexJobFailed(j, owner.fence)
-----------------------------------------------------------------------------
(* The most general caller.                                                *)

Fences == 0..owner.fence

\* A catalog pointer some caller may have read at some time.
ReadableCatalogs == {g \in Generations :
    g = NoJob \/ -g \in 1..minted \/ (g \in Jobs /\ gen[g] = "published")}

DbNext ==
    \/ \E j \in Modern, m \in Modes : CreateIndexJob(j, m)
    \/ \E j \in Jobs, f \in Fences :
         \/ \E p \in Pids : MarkIndexJobRunning(j, p, f)
         \/ MarkIndexJobFailed(j, f)
         \/ MarkIndexJobCanceled(j, f)
         \/ \E pub \in Publications(job[j].mode), cg \in ReadableCatalogs :
              PublishOwned(j, f, pub, cg)
    \/ \E j \in Jobs : CancelQueued(j) \/ CancelRunning(j)
    \/ \E j \in Jobs : ReconcileIndexJobRead(j)
    \/ \E k \in ForegroundKinds : PublishForeground(k[1], k[2])
    \/ \E cg \in ReadableCatalogs : SetGraphRuntimeFresh(cg)

\* Processes start and exit, and the system may hand out an id again.
ProcessTable == alive' \in SUBSET Pids /\ alive' # alive /\ UNCHANGED dbVars

StoreNext == (DbNext /\ UNCHANGED alive) \/ ProcessTable

StoreSpec == StoreInit /\ [][StoreNext]_storeVars
-----------------------------------------------------------------------------
(* Safety.                                                                 *)

\* Type invariant of the tables.
TypeOK ==
    /\ job \in [Jobs -> JobRow]
    /\ gen \in [Jobs -> GenStatus]
    /\ owner \in Ownership
    /\ active \in [Surfaces -> Generations]
    /\ graph \in GraphState
    /\ minted \in 0..MaxForeground
    /\ alive \in SUBSET Pids

\* The reservation and the active job are the same thing: an unreleased
\* ownership row names an active job, and an active job of the ownership era
\* is named by it, so two jobs are never active at once (reserveIndexJobTx and
\* every terminal transaction that calls releaseIndexJobOwnershipTx).
SingleReservation ==
    /\ ~owner.released => owner.job \in Modern /\ IsActive(owner.job)
    /\ \A j \in Modern : IsActive(j) => Owned(j)

\* A job row and its generation row reach their ends together, whichever
\* transaction ends the job: no succeeded job without a published or skipped
\* generation, no published generation of a failed or canceled job.
GenerationFollowsJob ==
    \A j \in Modern :
        /\ job[j].status = "none" <=> gen[j] = "none"
        /\ IsActive(j) <=> gen[j] = "building"
        /\ job[j].status = "succeeded" <=> gen[j] \in {"published", "skipped"}
        /\ job[j].status = "failed" <=> gen[j] = "failed"
        /\ job[j].status = "canceled" <=> gen[j] = "canceled"

\* A pointer a reader follows leads to the generation of a job that published
\* it, and a graph bound to a job's catalog is bound to a job that succeeded
\* (publishOwned moves pointers, generation, graph and job in one commit).
PointersArePublished ==
    /\ \A s \in Surfaces : active[s] \in Jobs =>
         job[active[s]].status = "succeeded" /\ gen[active[s]] = "published"
    /\ graph.catalog \in Jobs => job[graph.catalog].status = "succeeded"

\* A job whose cancellation was accepted ends canceled or waits to be: neither
\* a reader that finds its process gone nor a publisher that was already at
\* work turns it into failed or succeeded.
CancelNeverFails ==
    \A j \in Modern : job[j].cancel => job[j].status \in {"cancel_requested", "canceled"}

\* The job that holds the reservation is the newest one (the strengthening
\* that makes the reservation invariant inductive: reserveIndexJobTx looks at
\* the newest active row first, and this is that row).
OwnerIsNewest ==
    ~owner.released => owner.fence > 0 /\ \A k \in Created : k <= owner.job

\* No transaction reaches the generation row of a job without a reservation.
LegacyUntouched == \A l \in Legacy : gen[l] = "building" /\ job[l].status # "succeeded"

\* The inductive invariant of the store.
StoreInv ==
    /\ TypeOK
    /\ SingleReservation
    /\ GenerationFollowsJob
    /\ PointersArePublished
    /\ CancelNeverFails
    /\ OwnerIsNewest
    /\ LegacyUntouched

\* Nothing changes a finished job or its generation again, whatever caller,
\* fence or takeover comes later.
TerminalIsFinal ==
    [][\A j \in Jobs : IsTerminal(j) => job'[j] = job[j] /\ gen'[j] = gen[j]]_storeVars

\* Every reservation carries a larger fencing token than every earlier one,
\* so a released token never fences anything again.
FenceNeverReused ==
    [][/\ owner'.fence >= owner.fence
       /\ ~owner'.released /\ (owner.released \/ owner'.job # owner.job)
            => owner'.fence > owner.fence]_storeVars

\* When a job publishes, no newer job has even been created: a worker that
\* outlived its reservation cannot put an older index over a newer one.
PublicationInOrder ==
    [][\A j \in Modern : gen[j] # "published" /\ gen'[j] = "published" =>
          \A k \in Modern : k > j => job[k].status = "none"]_storeVars

\* The refinement mapping.
LedgerHolder == IF owner.released THEN NoJob ELSE owner.job
LedgerOutcome == [j \in Modern |-> IF gen[j] = "building" THEN "open" ELSE gen[j]]

Ledger == INSTANCE IndexLedger WITH
    Attempts <- Modern, holder <- LedgerHolder, outcome <- LedgerOutcome,
    pointer <- active

\* The store implements the ledger: one open attempt, closed once, pointers
\* moved only by the closing publication or by a foreground pass.
ImplementsLedger == Ledger!Spec
=============================================================================
