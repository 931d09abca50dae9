------------------------- MODULE IndexWorkerProofs -------------------------
(***************************************************************************)
(* IndexJobStore, for every set of jobs, legacy rows, process ids and any  *)
(* number of foreground publications: StoreInv is inductive, the action    *)
(* properties follow from it, and the store implements IndexLedger.  There *)
(* is one lemma per transaction, with one step per conjunct of StoreInv.   *)
(*                                                                         *)
(* The inductive invariant of IndexJobs and the steps of index-run that    *)
(* keep it.  JobsInv says who is about which job, which fence it holds,    *)
(* and who will still end an open job.  A step is a transaction of the     *)
(* store, described by Settles, together with one process that goes on     *)
(* (PlainStep, Onward).  IndexJobsProofs has the steps of the starters and *)
(* cancelers and the theorems.                                             *)
(***************************************************************************)
EXTENDS IndexJobs, TLAPS

\* A catalog generation a caller can have read belongs, if to a job, to one
\* that succeeded.
LEMMA ReadableIsPublished ==
    ASSUME StoreInv, NEW cg \in ReadableCatalogs, cg \in Jobs
    PROVE  gen[cg] = "published" /\ job[cg].status = "succeeded"
<1>1. ~(-cg \in 1..minted) /\ cg # NoJob
  BY JobsAssumption DEF StoreInv, TypeOK, NoJob
<1>2. gen[cg] = "published"
  BY <1>1 DEF ReadableCatalogs
<1> QED BY <1>2 DEF StoreInv, GenerationFollowsJob, LegacyUntouched, Modern

\* What publishOwned may publish: pointers move only with a published
\* generation, and the graph is left alone, marked stale or made fresh.
LEMMA PublicationShape ==
    ASSUME TypeOK, NEW j \in Jobs, NEW pub \in Publications(job[j].mode)
    PROVE  /\ pub.surfaces = {} \/ pub.skip = FALSE
           /\ pub.surfaces \subseteq Surfaces
           /\ pub.graph \in {"same", "stale", "fresh"}
<1>1. job[j].mode \in Modes
  BY DEF TypeOK, JobRow
<1> QED BY <1>1 DEF Publications, Publication, Modes, Surfaces

\* StoreInv is kept by the creation of a job.
LEMMA CreateIndexJobKeeps ==
    ASSUME StoreInv, alive' \in SUBSET Pids,
           NEW j \in Modern, NEW m \in Modes, CreateIndexJob(j, m)
    PROVE  StoreInv'
<1> USE JobsAssumption, LegacyAssumption, PidsAssumption, ForegroundAssumption
<1> USE DEF StoreInv, CreateIndexJob, NoRow, Newest, ReservationBlocked, NextFence, JobRow
<1>1. TypeOK'
  <2>1. job' \in [Jobs -> JobRow]
    <3>1. [NoRow EXCEPT !.status = "queued", !.mode = m] \in JobRow
      BY Zenon DEF ActiveStatus
    <3>2. \A k \in Jobs : job[k] \in JobRow /\ [job[k] EXCEPT !.status = "failed"] \in JobRow
      BY Zenon DEF TypeOK, TerminalStatus
    <3> HIDE DEF JobRow, NoRow, Newest, ReservationBlocked
    <3> QED BY <3>1, <3>2
  <2>2. gen' \in [Jobs -> GenStatus]
    BY DEF TypeOK, GenStatus, Modern
  <2>3. owner' \in Ownership
    BY DEF TypeOK, Ownership, Modern
  <2>4. active' \in [Surfaces -> Generations]
    BY DEF TypeOK, Generations, NoJob
  <2>5. graph' \in GraphState
    BY DEF TypeOK, GraphState, Generations, NoJob, ReadableCatalogs
  <2>6. minted' \in 0..MaxForeground
    BY DEF TypeOK
  <2> QED BY Zenon, <2>1, <2>2, <2>3, <2>4, <2>5, <2>6 DEF TypeOK
\* The reservation is free, so only a legacy job can be active and taken over.
<1>2. \A k \in Modern : ~IsActive(k)
  <2>1. owner.released
    <3> SUFFICES ASSUME ~owner.released PROVE FALSE
      BY DEF TypeOK, Ownership
    <3>1. Owned(owner.job) /\ IsActive(owner.job) /\ owner.job \in Jobs
      BY Zenon DEF SingleReservation, Owned, Modern
    <3>2. \A l \in Jobs : IsActive(l) => l <= owner.job
      BY DEF OwnerIsNewest, Created, IsActive, ActiveStatus
    <3> QED BY <3>1, <3>2
  <2> QED BY <2>1 DEF SingleReservation, Owned
<1>3. /\ job'[j].status = "queued" /\ job'[j].cancel = FALSE
      /\ \A k \in Modern : k # j => job'[k] = job[k] /\ gen'[k] = gen[k]
  BY Zenon, <1>2 DEF TypeOK, Modern
<1>4. \A l \in Legacy : /\ gen'[l] = gen[l]
                        /\ \/ job'[l].status = job[l].status
                           \/ IsActive(l) /\ job'[l].status = "failed"
  BY DEF TypeOK, Modern, IsActive
<1>5. gen'[j] = "building" /\ owner'.job = j /\ owner'.released = FALSE
  BY DEF TypeOK, Modern
<1> HIDE DEF JobRow, NoRow, Newest, ReservationBlocked
<1>6. SingleReservation'
  BY Zenon, <1>2, <1>3, <1>5 DEF SingleReservation, IsActive, ActiveStatus, Owned
<1>7. GenerationFollowsJob'
  <2> HIDE DEF CreateIndexJob
  <2> QED BY <1>3, <1>5 DEF GenerationFollowsJob, IsActive, ActiveStatus
<1>8. PointersArePublished'
  <2>1. \A k \in Jobs : job[k].status = "succeeded" =>
          k # j /\ job'[k].status = "succeeded" /\ gen'[k] = gen[k]
    BY Zenon, <1>3, <1>4 DEF Modern, IsActive, ActiveStatus
  <2> QED BY <2>1 DEF PointersArePublished
<1>9. CancelNeverFails'
  BY Zenon, <1>3 DEF CancelNeverFails
<1>10. OwnerIsNewest'
  <2>1. NextFence > 0 /\ owner'.fence = NextFence
    BY DEF TypeOK, Ownership
  <2>2. \A k \in Jobs : k # j /\ job'[k].status # "none" => job[k].status # "none"
    BY Zenon, <1>3, <1>4 DEF Modern, IsActive, ActiveStatus
  <2>3. Created' \subseteq Created \cup {j}
    BY <2>2 DEF Created
  <2>4. \A k \in Created' : k <= j
    BY <2>3 DEF Created, Modern
  <2> QED BY <1>5, <2>1, <2>4 DEF OwnerIsNewest
<1>11. LegacyUntouched'
  BY <1>4 DEF LegacyUntouched
<1> QED BY Zenon, <1>1, <1>6, <1>7, <1>8, <1>9, <1>10, <1>11

\* StoreInv is kept by the running mark.
LEMMA MarkIndexJobRunningKeeps ==
    ASSUME StoreInv, alive' \in SUBSET Pids,
           NEW j \in Jobs, NEW p \in Pids, NEW f \in Nat, MarkIndexJobRunning(j, p, f)
    PROVE  StoreInv'
<1> USE JobsAssumption, LegacyAssumption, PidsAssumption, ForegroundAssumption
<1> USE DEF StoreInv, MarkIndexJobRunning, RunningAllowed
<1>1. TypeOK'
  <2>1. job' \in [Jobs -> JobRow]
    <3>1. job[j] \in JobRow
      BY DEF TypeOK
    <3>2. [job[j] EXCEPT !.status = "running", !.pid = p] \in JobRow
      BY Zenon, <3>1 DEF JobRow, ActiveStatus, TerminalStatus
    <3> QED BY <3>2 DEF TypeOK
  <2>2. gen' \in [Jobs -> GenStatus]
    BY DEF TypeOK, GenStatus, Modern
  <2>3. owner' \in Ownership
    BY DEF TypeOK, Ownership, Modern
  <2>4. active' \in [Surfaces -> Generations]
    BY DEF TypeOK, Generations, NoJob
  <2>5. graph' \in GraphState
    BY DEF TypeOK, GraphState, Generations, NoJob, ReadableCatalogs
  <2>6. minted' \in 0..MaxForeground
    BY DEF TypeOK
  <2> QED BY <2>1, <2>2, <2>3, <2>4, <2>5, <2>6 DEF TypeOK
<1>2. SingleReservation'
  BY DEF TypeOK, JobRow, Ownership, SingleReservation, OwnerIsNewest, NoJob, Modern, Created, IsActive, Fenced, Owned, ActiveStatus, TerminalStatus
<1>3. GenerationFollowsJob'
  BY DEF TypeOK, JobRow, Ownership, GenStatus, GenerationFollowsJob, SingleReservation, OwnerIsNewest, NoJob, Modern, Created, IsActive, Fenced, Owned, ActiveStatus, TerminalStatus
<1>4. PointersArePublished'
  BY DEF TypeOK, JobRow, Ownership, Surfaces, PointersArePublished, GenerationFollowsJob, SingleReservation, NoJob, Modern, Created, IsActive, Fenced, Owned, ActiveStatus, TerminalStatus
<1>5. CancelNeverFails'
  BY DEF TypeOK, JobRow, Ownership, CancelNeverFails, SingleReservation, GenerationFollowsJob, OwnerIsNewest, NoJob, Modern, Created, IsActive, Fenced, Owned, ActiveStatus, TerminalStatus
<1>6. OwnerIsNewest'
  BY DEF TypeOK, JobRow, Ownership, OwnerIsNewest, SingleReservation, NoJob, Modern, Created, IsActive, Fenced, Owned, ActiveStatus, TerminalStatus
<1>7. LegacyUntouched'
  BY DEF TypeOK, JobRow, Ownership, LegacyUntouched, SingleReservation, NoJob, Modern, Created, IsActive, Fenced, Owned, ActiveStatus, TerminalStatus
<1> QED BY Zenon, <1>1, <1>2, <1>3, <1>4, <1>5, <1>6, <1>7

\* StoreInv is kept by the failure mark.
LEMMA MarkIndexJobFailedKeeps ==
    ASSUME StoreInv, alive' \in SUBSET Pids,
           NEW j \in Jobs, NEW f \in Nat, MarkIndexJobFailed(j, f)
    PROVE  StoreInv'
<1> USE JobsAssumption, LegacyAssumption, PidsAssumption, ForegroundAssumption
<1> USE DEF StoreInv, MarkIndexJobFailed, FailAllowed, Release, StaleGraph
<1>1. TypeOK'
  <2>1. job' \in [Jobs -> JobRow]
    BY DEF TypeOK, JobRow, ActiveStatus, TerminalStatus, Modern
  <2>2. gen' \in [Jobs -> GenStatus]
    BY DEF TypeOK, GenStatus, Modern
  <2>3. owner' \in Ownership
    BY Zenon DEF TypeOK, Ownership, Modern
  <2>4. active' \in [Surfaces -> Generations]
    BY DEF TypeOK, Generations, NoJob
  <2>5. graph' \in GraphState
    BY DEF TypeOK, GraphState, Generations, NoJob, ReadableCatalogs
  <2>6. minted' \in 0..MaxForeground
    BY DEF TypeOK
  <2> QED BY Zenon, <2>1, <2>2, <2>3, <2>4, <2>5, <2>6 DEF TypeOK
<1>2. SingleReservation'
  BY DEF TypeOK, JobRow, Ownership, SingleReservation, OwnerIsNewest, NoJob, Modern, Created, IsActive, Fenced, Owned, ActiveStatus, TerminalStatus
<1>3. GenerationFollowsJob'
  BY DEF TypeOK, JobRow, Ownership, GenStatus, GenerationFollowsJob, SingleReservation, OwnerIsNewest, NoJob, Modern, Created, IsActive, Fenced, Owned, ActiveStatus, TerminalStatus
<1>4. PointersArePublished'
  BY DEF TypeOK, JobRow, Ownership, Surfaces, PointersArePublished, GenerationFollowsJob, SingleReservation, NoJob, Modern, Created, IsActive, Fenced, Owned, ActiveStatus, TerminalStatus
<1>5. CancelNeverFails'
  BY DEF TypeOK, JobRow, Ownership, CancelNeverFails, SingleReservation, GenerationFollowsJob, OwnerIsNewest, NoJob, Modern, Created, IsActive, Fenced, Owned, ActiveStatus, TerminalStatus
<1>6. OwnerIsNewest'
  BY DEF TypeOK, JobRow, Ownership, OwnerIsNewest, SingleReservation, NoJob, Modern, Created, IsActive, Fenced, Owned, ActiveStatus, TerminalStatus
<1>7. LegacyUntouched'
  BY DEF TypeOK, JobRow, Ownership, LegacyUntouched, SingleReservation, NoJob, Modern, Created, IsActive, Fenced, Owned, ActiveStatus, TerminalStatus
<1> QED BY Zenon, <1>1, <1>2, <1>3, <1>4, <1>5, <1>6, <1>7

\* StoreInv is kept by the cancellation mark.
LEMMA MarkIndexJobCanceledKeeps ==
    ASSUME StoreInv, alive' \in SUBSET Pids,
           NEW j \in Jobs, NEW f \in Nat, MarkIndexJobCanceled(j, f)
    PROVE  StoreInv'
<1> USE JobsAssumption, LegacyAssumption, PidsAssumption, ForegroundAssumption
<1> USE DEF StoreInv, MarkIndexJobCanceled, CancelAllowed, Release
<1>1. TypeOK'
  <2>1. job' \in [Jobs -> JobRow]
    BY DEF TypeOK, JobRow, ActiveStatus, TerminalStatus, Modern
  <2>2. gen' \in [Jobs -> GenStatus]
    BY DEF TypeOK, GenStatus, Modern
  <2>3. owner' \in Ownership
    BY Zenon DEF TypeOK, Ownership, Modern
  <2>4. active' \in [Surfaces -> Generations]
    BY DEF TypeOK, Generations, NoJob
  <2>5. graph' \in GraphState
    BY DEF TypeOK, GraphState, Generations, NoJob, ReadableCatalogs
  <2>6. minted' \in 0..MaxForeground
    BY DEF TypeOK
  <2> QED BY Zenon, <2>1, <2>2, <2>3, <2>4, <2>5, <2>6 DEF TypeOK
<1>2. SingleReservation'
  BY DEF TypeOK, JobRow, Ownership, SingleReservation, OwnerIsNewest, NoJob, Modern, Created, IsActive, Fenced, Owned, ActiveStatus, TerminalStatus
<1>3. GenerationFollowsJob'
  BY DEF TypeOK, JobRow, Ownership, GenStatus, GenerationFollowsJob, SingleReservation, OwnerIsNewest, NoJob, Modern, Created, IsActive, Fenced, Owned, ActiveStatus, TerminalStatus
<1>4. PointersArePublished'
  BY DEF TypeOK, JobRow, Ownership, Surfaces, PointersArePublished, GenerationFollowsJob, SingleReservation, NoJob, Modern, Created, IsActive, Fenced, Owned, ActiveStatus, TerminalStatus
<1>5. CancelNeverFails'
  BY DEF TypeOK, JobRow, Ownership, CancelNeverFails, SingleReservation, GenerationFollowsJob, OwnerIsNewest, NoJob, Modern, Created, IsActive, Fenced, Owned, ActiveStatus, TerminalStatus
<1>6. OwnerIsNewest'
  BY DEF TypeOK, JobRow, Ownership, OwnerIsNewest, SingleReservation, NoJob, Modern, Created, IsActive, Fenced, Owned, ActiveStatus, TerminalStatus
<1>7. LegacyUntouched'
  BY DEF TypeOK, JobRow, Ownership, LegacyUntouched, SingleReservation, NoJob, Modern, Created, IsActive, Fenced, Owned, ActiveStatus, TerminalStatus
<1> QED BY Zenon, <1>1, <1>2, <1>3, <1>4, <1>5, <1>6, <1>7

\* StoreInv is kept by the cancellation of a queued job.
LEMMA CancelQueuedKeeps ==
    ASSUME StoreInv, alive' \in SUBSET Pids,
           NEW j \in Jobs, CancelQueued(j)
    PROVE  StoreInv'
<1> USE JobsAssumption, LegacyAssumption, PidsAssumption, ForegroundAssumption
<1> USE DEF StoreInv, CancelQueued, CancelQueuedAllowed, Release
<1>1. TypeOK'
  <2>1. job' \in [Jobs -> JobRow]
    <3>1. job[j] \in JobRow
      BY DEF TypeOK
    <3>2. [job[j] EXCEPT !.status = "canceled", !.cancel = TRUE] \in JobRow
      BY Zenon, <3>1 DEF JobRow, ActiveStatus, TerminalStatus
    <3> QED BY <3>2 DEF TypeOK
  <2>2. gen' \in [Jobs -> GenStatus]
    BY DEF TypeOK, GenStatus, Modern
  <2>3. owner' \in Ownership
    BY Zenon DEF TypeOK, Ownership, Modern
  <2>4. active' \in [Surfaces -> Generations]
    BY DEF TypeOK, Generations, NoJob
  <2>5. graph' \in GraphState
    BY DEF TypeOK, GraphState, Generations, NoJob, ReadableCatalogs
  <2>6. minted' \in 0..MaxForeground
    BY DEF TypeOK
  <2> QED BY Zenon, <2>1, <2>2, <2>3, <2>4, <2>5, <2>6 DEF TypeOK
<1>2. SingleReservation'
  BY DEF TypeOK, JobRow, Ownership, SingleReservation, OwnerIsNewest, NoJob, Modern, Created, IsActive, Fenced, Owned, ActiveStatus, TerminalStatus
<1>3. GenerationFollowsJob'
  BY DEF TypeOK, JobRow, Ownership, GenStatus, GenerationFollowsJob, SingleReservation, OwnerIsNewest, NoJob, Modern, Created, IsActive, Fenced, Owned, ActiveStatus, TerminalStatus
<1>4. PointersArePublished'
  BY DEF TypeOK, JobRow, Ownership, Surfaces, PointersArePublished, GenerationFollowsJob, SingleReservation, NoJob, Modern, Created, IsActive, Fenced, Owned, ActiveStatus, TerminalStatus
<1>5. CancelNeverFails'
  BY DEF TypeOK, JobRow, Ownership, CancelNeverFails, SingleReservation, GenerationFollowsJob, OwnerIsNewest, NoJob, Modern, Created, IsActive, Fenced, Owned, ActiveStatus, TerminalStatus
<1>6. OwnerIsNewest'
  BY DEF TypeOK, JobRow, Ownership, OwnerIsNewest, SingleReservation, NoJob, Modern, Created, IsActive, Fenced, Owned, ActiveStatus, TerminalStatus
<1>7. LegacyUntouched'
  BY DEF TypeOK, JobRow, Ownership, LegacyUntouched, SingleReservation, NoJob, Modern, Created, IsActive, Fenced, Owned, ActiveStatus, TerminalStatus
<1> QED BY Zenon, <1>1, <1>2, <1>3, <1>4, <1>5, <1>6, <1>7

\* StoreInv is kept by the cancel request to a running job.
LEMMA CancelRunningKeeps ==
    ASSUME StoreInv, alive' \in SUBSET Pids,
           NEW j \in Jobs, CancelRunning(j)
    PROVE  StoreInv'
<1> USE JobsAssumption, LegacyAssumption, PidsAssumption, ForegroundAssumption
<1> USE DEF StoreInv, CancelRunning, CancelRunningAllowed
<1>1. TypeOK'
  <2>1. job' \in [Jobs -> JobRow]
    <3>1. job[j] \in JobRow
      BY DEF TypeOK
    <3>2. [job[j] EXCEPT !.status = "cancel_requested", !.cancel = TRUE] \in JobRow
      BY Zenon, <3>1 DEF JobRow, ActiveStatus, TerminalStatus
    <3> QED BY <3>2 DEF TypeOK
  <2>2. gen' \in [Jobs -> GenStatus]
    BY DEF TypeOK, GenStatus, Modern
  <2>3. owner' \in Ownership
    BY DEF TypeOK, Ownership, Modern
  <2>4. active' \in [Surfaces -> Generations]
    BY DEF TypeOK, Generations, NoJob
  <2>5. graph' \in GraphState
    BY DEF TypeOK, GraphState, Generations, NoJob, ReadableCatalogs
  <2>6. minted' \in 0..MaxForeground
    BY DEF TypeOK
  <2> QED BY Zenon, <2>1, <2>2, <2>3, <2>4, <2>5, <2>6 DEF TypeOK
<1>2. SingleReservation'
  BY DEF TypeOK, JobRow, Ownership, SingleReservation, OwnerIsNewest, NoJob, Modern, Created, IsActive, Fenced, Owned, ActiveStatus, TerminalStatus
<1>3. GenerationFollowsJob'
  BY DEF TypeOK, JobRow, Ownership, GenStatus, GenerationFollowsJob, SingleReservation, OwnerIsNewest, NoJob, Modern, Created, IsActive, Fenced, Owned, ActiveStatus, TerminalStatus
<1>4. PointersArePublished'
  BY DEF TypeOK, JobRow, Ownership, Surfaces, PointersArePublished, GenerationFollowsJob, SingleReservation, NoJob, Modern, Created, IsActive, Fenced, Owned, ActiveStatus, TerminalStatus
<1>5. CancelNeverFails'
  BY DEF TypeOK, JobRow, Ownership, CancelNeverFails, SingleReservation, GenerationFollowsJob, OwnerIsNewest, NoJob, Modern, Created, IsActive, Fenced, Owned, ActiveStatus, TerminalStatus
<1>6. OwnerIsNewest'
  BY DEF TypeOK, JobRow, Ownership, OwnerIsNewest, SingleReservation, NoJob, Modern, Created, IsActive, Fenced, Owned, ActiveStatus, TerminalStatus
<1>7. LegacyUntouched'
  BY DEF TypeOK, JobRow, Ownership, LegacyUntouched, SingleReservation, NoJob, Modern, Created, IsActive, Fenced, Owned, ActiveStatus, TerminalStatus
<1> QED BY Zenon, <1>1, <1>2, <1>3, <1>4, <1>5, <1>6, <1>7

\* StoreInv is kept by a job's publication.
LEMMA PublishOwnedKeeps ==
    ASSUME StoreInv, alive' \in SUBSET Pids,
           NEW j \in Jobs, NEW f \in Nat, NEW pub, NEW cg \in ReadableCatalogs,
           PublishOwned(j, f, pub, cg)
    PROVE  StoreInv'
<1> USE JobsAssumption, LegacyAssumption, PidsAssumption, ForegroundAssumption
<1> USE DEF StoreInv, PublishOwned, PublishAllowed, Release, StaleGraph, Bound
<1>1. TypeOK'
  <2>1. job' \in [Jobs -> JobRow]
    BY ZenonT(60) DEF TypeOK, JobRow, ActiveStatus, TerminalStatus, Modern
  <2>2. gen' \in [Jobs -> GenStatus]
    BY DEF TypeOK, GenStatus, Modern
  <2>3. owner' \in Ownership
    BY Zenon DEF TypeOK, Ownership, Modern
  <2>4. active' \in [Surfaces -> Generations]
    BY DEF TypeOK, Generations, NoJob
  <2>5. graph' \in GraphState
    <3>1. graph \in GraphState /\ StaleGraph \in GraphState
      BY DEF TypeOK, GraphState, Generations
    <3>2. cg \in Generations /\ j \in Generations
      BY DEF ReadableCatalogs, Generations
    <3>3. active'["catalog"] \in Generations
      BY <2>4 DEF Surfaces
    <3>4. [state |-> "fresh", catalog |-> Bound(j, cg, active'["catalog"])] \in GraphState
      BY <3>2, <3>3 DEF GraphState
    <3>5. pub.graph \in {"same", "stale", "fresh"}
      BY Zenon, PublicationShape
    <3> HIDE DEF Bound, StaleGraph
    <3> QED BY Zenon, <3>1, <3>4, <3>5
  <2>6. minted' \in 0..MaxForeground
    BY Zenon DEF TypeOK
  <2> QED BY Zenon, <2>1, <2>2, <2>3, <2>4, <2>5, <2>6 DEF TypeOK
<1>2. SingleReservation'
  BY DEF TypeOK, JobRow, Ownership, SingleReservation, OwnerIsNewest, NoJob, Modern, Created, IsActive, Fenced, Owned, ActiveStatus, TerminalStatus
<1>3. GenerationFollowsJob'
  BY DEF TypeOK, JobRow, Ownership, GenStatus, GenerationFollowsJob, SingleReservation, OwnerIsNewest, NoJob, Modern, Created, IsActive, Fenced, Owned, ActiveStatus, TerminalStatus
<1>4. PointersArePublished'
  <2>1. job'[j].status = "succeeded"
    BY DEF TypeOK, JobRow
  <2>2. \A k \in Jobs : job[k].status = "succeeded" =>
           k # j /\ job'[k] = job[k] /\ gen'[k] = gen[k]
    BY Zenon DEF TypeOK
  <2>3. \A s \in Surfaces : active'[s] \in Jobs =>
           job'[active'[s]].status = "succeeded" /\ gen'[active'[s]] = "published"
    <3> SUFFICES ASSUME NEW s \in Surfaces, active'[s] \in Jobs
                 PROVE  /\ job'[active'[s]].status = "succeeded"
                        /\ gen'[active'[s]] = "published"
      BY Zenon
    <3>1. CASE s \in pub.surfaces
      <4>1. pub.skip = FALSE
        BY Zenon, <3>1, PublicationShape
      <4> QED BY <3>1, <4>1, <2>1 DEF TypeOK
    <3>2. CASE s \notin pub.surfaces
      BY <3>2, <2>2 DEF PointersArePublished
    <3> QED BY Zenon, <3>1, <3>2
  <2>4. graph'.catalog \in Jobs => job'[graph'.catalog].status = "succeeded"
    <3>1. CASE pub.graph = "same"
      BY <3>1, <2>2 DEF PointersArePublished
    <3>2. CASE pub.graph = "stale"
      BY <3>2 DEF NoJob
    <3>3. CASE pub.graph = "fresh"
      <4>1. graph'.catalog = Bound(j, cg, active'["catalog"])
        BY Zenon, <3>3
      <4>2. cg \in Jobs => job'[cg].status = "succeeded"
        BY Zenon, <2>2, ReadableIsPublished
      <4>3. active'["catalog"] \in Jobs => job'[active'["catalog"]].status = "succeeded"
        BY Zenon, <2>3 DEF Surfaces
      <4> QED BY Zenon, <4>1, <4>2, <4>3, <2>1
    <3> QED BY Zenon, <3>1, <3>2, <3>3, PublicationShape
  <2> QED BY Zenon, <2>3, <2>4 DEF PointersArePublished
<1>5. CancelNeverFails'
  BY DEF TypeOK, JobRow, Ownership, CancelNeverFails, SingleReservation, GenerationFollowsJob, OwnerIsNewest, NoJob, Modern, Created, IsActive, Fenced, Owned, ActiveStatus, TerminalStatus
<1>6. OwnerIsNewest'
  BY Zenon DEF TypeOK, JobRow, Ownership, OwnerIsNewest, SingleReservation, NoJob, Modern, Created, IsActive, Fenced, Owned, ActiveStatus, TerminalStatus
<1>7. LegacyUntouched'
  BY DEF TypeOK, JobRow, Ownership, LegacyUntouched, SingleReservation, NoJob, Modern, Created, IsActive, Fenced, Owned, ActiveStatus, TerminalStatus
<1> QED BY Zenon, <1>1, <1>2, <1>3, <1>4, <1>5, <1>6, <1>7

\* StoreInv is kept by a foreground publication.
LEMMA PublishForegroundKeeps ==
    ASSUME StoreInv, alive' \in SUBSET Pids,
           NEW k \in ForegroundKinds, PublishForeground(k[1], k[2])
    PROVE  StoreInv'
<1> USE JobsAssumption, LegacyAssumption, PidsAssumption, ForegroundAssumption
<1> USE DEF StoreInv, PublishForeground, ForegroundKinds, MintGeneration, StaleGraph
<1>1. TypeOK'
  <2>1. job' \in [Jobs -> JobRow]
    BY DEF TypeOK, JobRow, ActiveStatus, TerminalStatus, Modern
  <2>2. gen' \in [Jobs -> GenStatus]
    BY DEF TypeOK, GenStatus, Modern
  <2>3. owner' \in Ownership
    BY DEF TypeOK, Ownership, Modern
  <2>4. active' \in [Surfaces -> Generations]
    BY DEF TypeOK, Generations, NoJob
  <2>5. graph' \in GraphState
    BY DEF TypeOK, GraphState, Generations, NoJob, ReadableCatalogs
  <2>6. minted' \in 0..MaxForeground
    BY DEF TypeOK
  <2> QED BY Zenon, <2>1, <2>2, <2>3, <2>4, <2>5, <2>6 DEF TypeOK
<1>2. SingleReservation'
  BY DEF TypeOK, JobRow, Ownership, SingleReservation, OwnerIsNewest, NoJob, Modern, Created, IsActive, Fenced, Owned, ActiveStatus, TerminalStatus
<1>3. GenerationFollowsJob'
  BY Zenon DEF TypeOK, JobRow, Ownership, GenStatus, GenerationFollowsJob, SingleReservation, OwnerIsNewest, NoJob, Modern, Created, IsActive, Fenced, Owned, ActiveStatus, TerminalStatus
<1>4. PointersArePublished'
  BY DEF TypeOK, JobRow, Ownership, Surfaces, PointersArePublished, GenerationFollowsJob, SingleReservation, NoJob, Modern, Created, IsActive, Fenced, Owned, ActiveStatus, TerminalStatus
<1>5. CancelNeverFails'
  BY Zenon DEF TypeOK, JobRow, Ownership, CancelNeverFails, SingleReservation, GenerationFollowsJob, OwnerIsNewest, NoJob, Modern, Created, IsActive, Fenced, Owned, ActiveStatus, TerminalStatus
<1>6. OwnerIsNewest'
  BY Zenon DEF TypeOK, JobRow, Ownership, OwnerIsNewest, SingleReservation, NoJob, Modern, Created, IsActive, Fenced, Owned, ActiveStatus, TerminalStatus
<1>7. LegacyUntouched'
  BY DEF TypeOK, JobRow, Ownership, LegacyUntouched, SingleReservation, NoJob, Modern, Created, IsActive, Fenced, Owned, ActiveStatus, TerminalStatus
<1> QED BY Zenon, <1>1, <1>2, <1>3, <1>4, <1>5, <1>6, <1>7

\* StoreInv is kept by a graph refreshed in the foreground.
LEMMA SetGraphRuntimeFreshKeeps ==
    ASSUME StoreInv, alive' \in SUBSET Pids,
           NEW cg \in ReadableCatalogs, SetGraphRuntimeFresh(cg)
    PROVE  StoreInv'
<1> USE JobsAssumption, LegacyAssumption, PidsAssumption, ForegroundAssumption
<1> USE DEF StoreInv, SetGraphRuntimeFresh
<1>1. TypeOK'
  <2>1. job' \in [Jobs -> JobRow]
    BY DEF TypeOK, JobRow, ActiveStatus, TerminalStatus, Modern
  <2>2. gen' \in [Jobs -> GenStatus]
    BY DEF TypeOK, GenStatus, Modern
  <2>3. owner' \in Ownership
    BY DEF TypeOK, Ownership, Modern
  <2>4. active' \in [Surfaces -> Generations]
    BY DEF TypeOK, Generations, NoJob
  <2>5. graph' \in GraphState
    BY DEF TypeOK, GraphState, Generations, NoJob, ReadableCatalogs
  <2>6. minted' \in 0..MaxForeground
    BY Zenon DEF TypeOK
  <2> QED BY Zenon, <2>1, <2>2, <2>3, <2>4, <2>5, <2>6 DEF TypeOK
<1>2. SingleReservation'
  BY Zenon DEF TypeOK, JobRow, Ownership, SingleReservation, OwnerIsNewest, NoJob, Modern, Created, IsActive, Fenced, Owned, ActiveStatus, TerminalStatus
<1>3. GenerationFollowsJob'
  BY Zenon DEF TypeOK, JobRow, Ownership, GenStatus, GenerationFollowsJob, SingleReservation, OwnerIsNewest, NoJob, Modern, Created, IsActive, Fenced, Owned, ActiveStatus, TerminalStatus
<1>4. PointersArePublished'
  BY Zenon, ReadableIsPublished DEF PointersArePublished
<1>5. CancelNeverFails'
  BY Zenon DEF TypeOK, JobRow, Ownership, CancelNeverFails, SingleReservation, GenerationFollowsJob, OwnerIsNewest, NoJob, Modern, Created, IsActive, Fenced, Owned, ActiveStatus, TerminalStatus
<1>6. OwnerIsNewest'
  BY Zenon DEF TypeOK, JobRow, Ownership, OwnerIsNewest, SingleReservation, NoJob, Modern, Created, IsActive, Fenced, Owned, ActiveStatus, TerminalStatus
<1>7. LegacyUntouched'
  BY DEF TypeOK, JobRow, Ownership, LegacyUntouched, SingleReservation, NoJob, Modern, Created, IsActive, Fenced, Owned, ActiveStatus, TerminalStatus
<1> QED BY Zenon, <1>1, <1>2, <1>3, <1>4, <1>5, <1>6, <1>7

-----------------------------------------------------------------------------
\* The tables a binary finds on its first start satisfy StoreInv.
LEMMA StoreInitInv == StoreInit => StoreInv
<1> SUFFICES ASSUME StoreInit PROVE StoreInv
  OBVIOUS
<1> USE JobsAssumption, LegacyAssumption, PidsAssumption, ForegroundAssumption
<1> PICK st \in [Legacy -> ActiveStatus], pd \in [Legacy -> Pids \cup {NoPid}] :
           job = [j \in Jobs |-> IF j \in Legacy THEN LegacyRow(st[j], pd[j]) ELSE NoRow]
  BY DEF StoreInit
<1>1. TypeOK
  <2>1. NoRow \in JobRow
    BY DEF NoRow, JobRow, Modes
  <2>2. \A j \in Legacy : LegacyRow(st[j], pd[j]) \in JobRow
    BY DEF LegacyRow, JobRow, Modes
  <2>3. job \in [Jobs -> JobRow]
    BY Zenon, <2>1, <2>2
  <2>4. /\ gen \in [Jobs -> GenStatus]
        /\ owner \in Ownership
        /\ active \in [Surfaces -> Generations]
        /\ graph \in GraphState
    BY DEF StoreInit, GenStatus, Ownership, Generations, GraphState, NoJob
  <2> QED BY <2>3, <2>4 DEF StoreInit, TypeOK
<1>2. \A j \in Modern : job[j].status = "none" /\ ~job[j].cancel /\ gen[j] = "none"
  BY DEF StoreInit, Modern, NoRow
<1>3. SingleReservation /\ GenerationFollowsJob /\ CancelNeverFails
  <2>1. SingleReservation
    BY Zenon, <1>2 DEF StoreInit, SingleReservation, IsActive, ActiveStatus
  <2>2. GenerationFollowsJob
    BY <1>2 DEF GenerationFollowsJob, IsActive, ActiveStatus
  <2>3. CancelNeverFails
    BY Zenon, <1>2 DEF CancelNeverFails
  <2> QED BY <2>1, <2>2, <2>3
<1>4. PointersArePublished /\ OwnerIsNewest
  BY Zenon DEF StoreInit, PointersArePublished, OwnerIsNewest, NoJob
<1>5. LegacyUntouched
  BY DEF StoreInit, LegacyUntouched, LegacyRow, ActiveStatus
<1> QED BY <1>1, <1>3, <1>4, <1>5 DEF StoreInv

\* Every transaction, by any caller with any fence, keeps StoreInv, and so
\* does every change of the process table.
LEMMA StoreNextInv == StoreInv /\ [StoreNext]_storeVars => StoreInv'
<1> SUFFICES ASSUME StoreInv, [StoreNext]_storeVars PROVE StoreInv'
  OBVIOUS
<1>1. owner.fence \in Nat /\ alive \in SUBSET Pids
  BY DEF StoreInv, TypeOK, Ownership
<1>2. CASE DbNext /\ UNCHANGED alive
  <2>1. alive' \in SUBSET Pids /\ Fences \subseteq Nat
    BY <1>1, <1>2 DEF Fences
  <2>2. CASE \E j \in Modern, m \in Modes : CreateIndexJob(j, m)
    BY <2>1, <2>2, CreateIndexJobKeeps
  <2>3. CASE \E j \in Jobs, f \in Fences, p \in Pids : MarkIndexJobRunning(j, p, f)
    BY <2>1, <2>3, MarkIndexJobRunningKeeps
  <2>4. CASE \E j \in Jobs, f \in Fences : MarkIndexJobFailed(j, f)
    BY <2>1, <2>4, MarkIndexJobFailedKeeps
  <2>5. CASE \E j \in Jobs, f \in Fences : MarkIndexJobCanceled(j, f)
    BY <2>1, <2>5, MarkIndexJobCanceledKeeps
  <2>6. CASE \E j \in Jobs, f \in Fences : \E pub \in Publications(job[j].mode), cg \in ReadableCatalogs :
               PublishOwned(j, f, pub, cg)
    BY <2>1, <2>6, PublishOwnedKeeps
  <2>7. CASE \E j \in Jobs : CancelQueued(j) \/ CancelRunning(j)
    BY <2>1, <2>7, CancelQueuedKeeps, CancelRunningKeeps
  <2>8. CASE \E j \in Jobs : ReconcileIndexJobRead(j)
    BY <1>1, <2>1, <2>8, MarkIndexJobFailedKeeps DEF ReconcileIndexJobRead
  <2>9. CASE \E k \in ForegroundKinds : PublishForeground(k[1], k[2])
    BY <2>1, <2>9, PublishForegroundKeeps
  <2>10. CASE \E cg \in ReadableCatalogs : SetGraphRuntimeFresh(cg)
    BY Zenon, <2>1, <2>10, SetGraphRuntimeFreshKeeps
  <2> QED BY Zenon, <1>2, <2>2, <2>3, <2>4, <2>5, <2>6, <2>7, <2>8, <2>9, <2>10 DEF DbNext
<1>3. CASE ProcessTable \/ UNCHANGED storeVars
  <2>1. UNCHANGED dbVars /\ alive' \in SUBSET Pids
    BY <1>1, <1>3 DEF ProcessTable, dbVars, storeVars
  <2> QED BY <2>1 DEF dbVars, StoreInv, TypeOK, SingleReservation, GenerationFollowsJob,
                      PointersArePublished, CancelNeverFails, OwnerIsNewest,
                      LegacyUntouched, IsActive, Owned, Created
<1> QED BY <1>2, <1>3 DEF StoreNext

\* The inductive invariant holds in every reachable state of the store.
THEOREM StoreInvariance == StoreSpec => []StoreInv
<1> QED BY StoreInitInv, StoreNextInv, PTL DEF StoreSpec

\* Type correctness of the tables.
THEOREM TypeCorrect == StoreSpec => []TypeOK
<1>1. StoreInv => TypeOK
  BY DEF StoreInv
<1> QED BY <1>1, StoreInvariance, PTL

\* One reservation, and it is the active job: reserveIndexJobTx never lets two
\* jobs be active, whatever became of the process of the first.
THEOREM OneReservation == StoreSpec => []SingleReservation
<1>1. StoreInv => SingleReservation
  BY DEF StoreInv
<1> QED BY <1>1, StoreInvariance, PTL

\* Job row and generation row end together.
THEOREM JobsAndGenerationsAgree == StoreSpec => []GenerationFollowsJob
<1>1. StoreInv => GenerationFollowsJob
  BY DEF StoreInv
<1> QED BY <1>1, StoreInvariance, PTL

\* Readers follow pointers only to what a succeeded job published.
THEOREM PointersSound == StoreSpec => []PointersArePublished
<1>1. StoreInv => PointersArePublished
  BY DEF StoreInv
<1> QED BY <1>1, StoreInvariance, PTL

\* An accepted cancellation is never turned into failure or success.
THEOREM CancelSound == StoreSpec => []CancelNeverFails
<1>1. StoreInv => CancelNeverFails
  BY DEF StoreInv
<1> QED BY <1>1, StoreInvariance, PTL

-----------------------------------------------------------------------------
(* What a step may never do.                                               *)

\* A transaction of the store, whoever calls it: the case split every action
\* property uses.
LEMMA StoreSteps ==
    ASSUME StoreInv, [StoreNext]_storeVars
    PROVE  \/ \E j \in Modern, m \in Modes : CreateIndexJob(j, m)
           \/ \E j \in Modern, f \in Nat, p \in Pids : MarkIndexJobRunning(j, p, f)
           \/ \E j \in Modern, f \in Nat : MarkIndexJobFailed(j, f)
           \/ \E j \in Modern, f \in Nat : MarkIndexJobCanceled(j, f)
           \/ \E j \in Modern, f \in Nat : \E pub \in Publications(job[j].mode), cg \in ReadableCatalogs :
                PublishOwned(j, f, pub, cg)
           \/ \E j \in Modern : CancelQueued(j) \/ CancelRunning(j)
           \/ /\ UNCHANGED <<job, gen, owner>>
              /\ active' \in [Surfaces -> Int]
              /\ \A s \in Surfaces : active'[s] = active[s] \/ active'[s] < 0
<1>1. owner.fence \in Nat /\ Fences \subseteq Nat
  BY DEF StoreInv, TypeOK, Ownership, Fences
<1>2. \A j \in Jobs : Owned(j) => j \in Modern
  BY DEF StoreInv, SingleReservation, Owned
<1>3. \A j \in Jobs, f \in Nat : Fenced(j, f) => j \in Modern
  BY <1>2 DEF Fenced, Owned
<1>4. active \in [Surfaces -> Int]
  <2>1. \A n \in 1..MaxForeground : -n \in Int
    BY ForegroundAssumption
  <2>2. {-n : n \in 1..MaxForeground} \subseteq Int
    BY <2>1
  <2>3. Jobs \cup {NoJob} \subseteq Int
    BY JobsAssumption DEF NoJob
  <2>4. Generations \subseteq Int
    BY Zenon, <2>2, <2>3 DEF Generations
  <2> QED BY Zenon, <2>4 DEF StoreInv, TypeOK
<1>5. CASE DbNext
  <2>1. CASE \E j \in Jobs, f \in Fences, p \in Pids : MarkIndexJobRunning(j, p, f)
    <3>1. \A j, f, p : MarkIndexJobRunning(j, p, f) => Fenced(j, f)
      BY Zenon DEF MarkIndexJobRunning, RunningAllowed
    <3> QED BY Zenon, <1>1, <1>3, <2>1, <3>1
  <2>2. CASE \E j \in Jobs, f \in Fences : MarkIndexJobFailed(j, f)
    <3>1. \A j, f : MarkIndexJobFailed(j, f) => Fenced(j, f)
      BY Zenon DEF MarkIndexJobFailed, FailAllowed
    <3> QED BY Zenon, <1>1, <1>3, <2>2, <3>1
  <2>3. CASE \E j \in Jobs, f \in Fences : MarkIndexJobCanceled(j, f)
    <3>1. \A j, f : MarkIndexJobCanceled(j, f) => Fenced(j, f)
      BY Zenon DEF MarkIndexJobCanceled, CancelAllowed
    <3> QED BY Zenon, <1>1, <1>3, <2>3, <3>1
  <2>4. CASE \E j \in Jobs, f \in Fences : \E pub \in Publications(job[j].mode), cg \in ReadableCatalogs :
               PublishOwned(j, f, pub, cg)
    <3>1. \A j, f, pub, cg : PublishOwned(j, f, pub, cg) => Fenced(j, f)
      BY Zenon DEF PublishOwned, PublishAllowed
    <3> QED BY Zenon, <1>1, <1>3, <2>4, <3>1
  <2>5. CASE \E j \in Jobs : CancelQueued(j) \/ CancelRunning(j)
    BY Zenon, <1>2, <2>5 DEF CancelQueued, CancelQueuedAllowed, CancelRunning, CancelRunningAllowed
  <2>6. CASE \E j \in Jobs : ReconcileIndexJobRead(j)
    BY Zenon, <1>1, <1>3, <2>6 DEF ReconcileIndexJobRead, MarkIndexJobFailed, FailAllowed
  <2>7. CASE \E k \in ForegroundKinds : PublishForeground(k[1], k[2])
    <3>1. MintGeneration \in Int /\ MintGeneration < 0
      BY DEF StoreInv, TypeOK, MintGeneration
    <3> QED BY Zenon, <1>4, <2>7, <3>1 DEF PublishForeground
  <2>8. CASE \E cg \in ReadableCatalogs : SetGraphRuntimeFresh(cg)
    BY Zenon, <1>4, <2>8 DEF SetGraphRuntimeFresh
  <2> QED BY Zenon, <1>5, <2>1, <2>2, <2>3, <2>4, <2>5, <2>6, <2>7, <2>8 DEF DbNext
<1>6. CASE ProcessTable \/ UNCHANGED storeVars
  BY <1>4, <1>6 DEF ProcessTable, dbVars, storeVars
<1> QED BY <1>5, <1>6 DEF StoreNext

\* Finished jobs stay as they are: every transaction that changes a row asks
\* for an active one, and the takeover of reserveIndexJobTx touches only the
\* newest active row.
THEOREM FinishedStaysFinished == StoreSpec => TerminalIsFinal
<1>1. ASSUME StoreInv, [StoreNext]_storeVars
      PROVE  \A j \in Jobs : IsTerminal(j) => job'[j] = job[j] /\ gen'[j] = gen[j]
  <2> SUFFICES ASSUME NEW j \in Jobs, IsTerminal(j)
               PROVE  job'[j] = job[j] /\ gen'[j] = gen[j]
    OBVIOUS
  <2> USE DEF IsTerminal, TerminalStatus
  <2>1. job \in [Jobs -> JobRow] /\ gen \in [Jobs -> GenStatus]
    BY <1>1 DEF StoreInv, TypeOK
  <2>2. CASE \E k \in Modern, m \in Modes : CreateIndexJob(k, m)
    BY <2>1, <2>2 DEF CreateIndexJob, Newest, IsActive, ActiveStatus
  <2>3. CASE \E k \in Modern, f \in Nat, p \in Pids : MarkIndexJobRunning(k, p, f)
    BY <2>1, <2>3 DEF MarkIndexJobRunning, RunningAllowed
  <2>4. CASE \E k \in Modern, f \in Nat : MarkIndexJobFailed(k, f)
    BY <2>1, <2>4 DEF MarkIndexJobFailed, FailAllowed
  <2>5. CASE \E k \in Modern, f \in Nat : MarkIndexJobCanceled(k, f)
    BY <2>1, <2>5 DEF MarkIndexJobCanceled, CancelAllowed
  <2>6. CASE \E k \in Modern, f \in Nat : \E pub \in Publications(job[k].mode), cg \in ReadableCatalogs :
               PublishOwned(k, f, pub, cg)
    BY <2>1, <2>6 DEF PublishOwned, PublishAllowed
  <2>7. CASE \E k \in Modern : CancelQueued(k) \/ CancelRunning(k)
    BY <2>1, <2>7 DEF CancelQueued, CancelQueuedAllowed, CancelRunning, CancelRunningAllowed
  <2> QED BY Zenon, <1>1, <2>2, <2>3, <2>4, <2>5, <2>6, <2>7, StoreSteps
<1> QED BY <1>1, StoreInvariance, PTL DEF StoreSpec, TerminalIsFinal

\* The reservation's fencing token only grows, and strictly at each new
\* reservation: nextIndexJobFence is read and written in one transaction.
THEOREM FencesGrow == StoreSpec => FenceNeverReused
<1>1. ASSUME StoreInv, [StoreNext]_storeVars
      PROVE  /\ owner'.fence >= owner.fence
             /\ ~owner'.released /\ (owner.released \/ owner'.job # owner.job)
                  => owner'.fence > owner.fence
  <2> USE DEF Release
  <2>1. owner \in Ownership
    BY <1>1 DEF StoreInv, TypeOK
  <2>2. CASE \E k \in Modern, m \in Modes : CreateIndexJob(k, m)
    BY <2>1, <2>2 DEF CreateIndexJob, NextFence, Ownership
  <2>3. CASE \E k \in Modern, f \in Nat, p \in Pids : MarkIndexJobRunning(k, p, f)
    BY <2>1, <2>3 DEF MarkIndexJobRunning, RunningAllowed, Fenced, Ownership
  <2>4. CASE \E k \in Modern, f \in Nat : MarkIndexJobFailed(k, f)
    BY <2>1, <2>4 DEF MarkIndexJobFailed, Ownership
  <2>5. CASE \E k \in Modern, f \in Nat : MarkIndexJobCanceled(k, f)
    BY <2>1, <2>5 DEF MarkIndexJobCanceled, Ownership
  <2>6. CASE \E k \in Modern, f \in Nat : \E pub \in Publications(job[k].mode), cg \in ReadableCatalogs :
               PublishOwned(k, f, pub, cg)
    BY <2>1, <2>6 DEF PublishOwned, Ownership
  <2>7. CASE \E k \in Modern : CancelQueued(k) \/ CancelRunning(k)
    BY <2>1, <2>7 DEF CancelQueued, CancelRunning, Ownership
  <2>8. CASE UNCHANGED owner
    BY <2>1, <2>8 DEF Ownership
  <2> QED BY Zenon, <1>1, <2>2, <2>3, <2>4, <2>5, <2>6, <2>7, <2>8, StoreSteps
<1> QED BY <1>1, StoreInvariance, PTL DEF StoreSpec, FenceNeverReused

\* A publication is the newest job's: the fence the publisher must hold is the
\* reservation's, and the reservation is the newest job's.
THEOREM PublishesInOrder == StoreSpec => PublicationInOrder
<1>1. ASSUME StoreInv, [StoreNext]_storeVars
      PROVE  \A j \in Modern : gen[j] # "published" /\ gen'[j] = "published" =>
               \A k \in Modern : k > j => job[k].status = "none"
  <2> SUFFICES ASSUME NEW j \in Modern, gen[j] # "published", gen'[j] = "published",
                      NEW k \in Modern, k > j
               PROVE  job[k].status = "none"
    OBVIOUS
  <2>1. gen \in [Jobs -> GenStatus] /\ j \in Jobs /\ k \in Jobs
    BY Zenon, <1>1 DEF StoreInv, TypeOK, Modern
  <2>2. \E f \in Nat : PublishAllowed(j, f)
    <3>1. CASE \E l \in Modern, m \in Modes : CreateIndexJob(l, m)
      BY <2>1, <3>1 DEF CreateIndexJob
    <3>2. CASE \E l \in Modern, f \in Nat, p \in Pids : MarkIndexJobRunning(l, p, f)
      BY <3>2 DEF MarkIndexJobRunning
    <3>3. CASE \E l \in Modern, f \in Nat : MarkIndexJobFailed(l, f)
      BY <2>1, <3>3 DEF MarkIndexJobFailed
    <3>4. CASE \E l \in Modern, f \in Nat : MarkIndexJobCanceled(l, f)
      BY <2>1, <3>4 DEF MarkIndexJobCanceled
    <3>5. CASE \E l \in Modern, f \in Nat : \E pub \in Publications(job[l].mode), cg \in ReadableCatalogs :
                 PublishOwned(l, f, pub, cg)
      BY <2>1, <3>5 DEF PublishOwned
    <3>6. CASE \E l \in Modern : CancelQueued(l) \/ CancelRunning(l)
      BY <2>1, <3>6 DEF CancelQueued, CancelRunning
    <3> QED BY Zenon, <1>1, <3>1, <3>2, <3>3, <3>4, <3>5, <3>6, StoreSteps
  <2>3. ~owner.released /\ owner.job = j
    BY <2>2 DEF PublishAllowed, Fenced
  <2>4. k \in Created => k <= j
    BY <1>1, <2>3 DEF StoreInv, OwnerIsNewest
  <2>5. j \in Nat /\ k \in Nat
    BY <2>1, JobsAssumption
  <2> QED BY <2>1, <2>4, <2>5 DEF Created
<1> QED BY <1>1, StoreInvariance, PTL DEF StoreSpec, PublicationInOrder

-----------------------------------------------------------------------------
(* The store implements the ledger.                                        *)

\* A transaction that ends the reserved job closes its attempt.
LEMMA EndIsClose ==
    ASSUME StoreInv, NEW j \in Modern, Owned(j), Release,
           NEW o \in Ledger!Closed, gen' = [gen EXCEPT ![j] = o],
           NEW S \in SUBSET Surfaces, S # {} => o = "published",
           active' = [s \in Surfaces |-> IF s \in S THEN j ELSE active[s]]
    PROVE  Ledger!Next
<1>1. LedgerHolder = j /\ LedgerHolder' = NoJob
  <2>1. owner \in Ownership
    BY DEF StoreInv, TypeOK
  <2> QED BY <2>1 DEF LedgerHolder, Owned, Release, Ownership
<1>2. LedgerOutcome' = [LedgerOutcome EXCEPT ![j] = o]
  <2>1. gen \in [Jobs -> GenStatus] /\ Modern \subseteq Jobs
    BY DEF StoreInv, TypeOK, Modern
  <2>2. o # "building"
    BY DEF Ledger!Closed
  <2> QED BY Zenon, <2>1, <2>2 DEF LedgerOutcome
<1>3. Ledger!Close(j, o, S)
  BY <1>1, <1>2 DEF Ledger!Close, Ledger!None, NoJob
<1> QED BY <1>3 DEF Ledger!Next

\* A reservation opens an attempt: it is refused while another one is open.
LEMMA CreateIsOpen ==
    ASSUME StoreInv, NEW j \in Modern, NEW m \in Modes, CreateIndexJob(j, m)
    PROVE  Ledger!Next
<1>1. owner.released
  <2> SUFFICES ASSUME ~owner.released PROVE FALSE
    BY DEF StoreInv, TypeOK, Ownership
  <2>1. owner.job \in Jobs /\ IsActive(owner.job) /\ Owned(owner.job)
    BY DEF StoreInv, SingleReservation, Modern, Owned
  <2>2. Newest(owner.job)
    BY <2>1 DEF StoreInv, OwnerIsNewest, Newest, Created, IsActive, ActiveStatus
  <2> QED BY <2>1, <2>2 DEF CreateIndexJob, ReservationBlocked
<1>2. LedgerHolder = NoJob /\ LedgerHolder' = j
  BY <1>1 DEF LedgerHolder, CreateIndexJob
<1>3. gen \in [Jobs -> GenStatus] /\ Modern \subseteq Jobs
  BY DEF StoreInv, TypeOK, Modern
<1>4. LedgerOutcome' = [LedgerOutcome EXCEPT ![j] = "open"]
  BY Zenon, <1>3 DEF LedgerOutcome, CreateIndexJob
<1>5. \A b \in Modern : LedgerOutcome[b] # "none" => b < j
  BY Zenon, <1>3 DEF LedgerOutcome, CreateIndexJob, Created, StoreInv, GenerationFollowsJob
<1>6. LedgerOutcome[j] = "none"
  BY <1>3 DEF LedgerOutcome, CreateIndexJob, StoreInv, GenerationFollowsJob
<1>7. Ledger!Open(j)
  BY <1>2, <1>4, <1>5, <1>6 DEF Ledger!Open, Ledger!None, NoJob, CreateIndexJob
<1> QED BY <1>7 DEF Ledger!Next

\* The tables, driven by any callers whatever, behave as the ledger: one open
\* attempt at a time, closed once, its pointers moved by the closing
\* publication and otherwise only by a foreground pass.
THEOREM StoreImplementsLedger == StoreSpec => ImplementsLedger
<1>1. StoreInit => Ledger!Init
  <2> SUFFICES ASSUME StoreInit PROVE Ledger!Init
    OBVIOUS
  <2>1. LedgerHolder = NoJob
    BY DEF StoreInit, LedgerHolder
  <2>2. LedgerOutcome = [a \in Modern |-> "none"]
    BY DEF StoreInit, LedgerOutcome, Modern
  <2> QED BY <2>1, <2>2 DEF StoreInit, Ledger!Init, Ledger!None, NoJob
<1>2. ASSUME StoreInv, [StoreNext]_storeVars
      PROVE  [Ledger!Next]_(Ledger!ledgerVars)
  <2>1. {"published", "skipped", "failed", "canceled"} = Ledger!Closed /\ {} \in SUBSET Surfaces
    BY DEF Ledger!Closed
  <2>0. active \in [Surfaces -> Generations] /\ owner \in Ownership
    BY <1>2 DEF StoreInv, TypeOK
  <2>2. CASE \E k \in Modern, m \in Modes : CreateIndexJob(k, m)
    BY <1>2, <2>2, CreateIsOpen
  <2>3. CASE \E k \in Modern, f \in Nat, p \in Pids : MarkIndexJobRunning(k, p, f)
    <3>1. UNCHANGED <<LedgerHolder, LedgerOutcome, active>>
      BY <2>0, <2>3 DEF MarkIndexJobRunning, LedgerHolder, LedgerOutcome, Ownership
    <3> QED BY <3>1 DEF Ledger!ledgerVars
  <2>4. CASE \E k \in Modern, f \in Nat : MarkIndexJobFailed(k, f)
    <3> PICK k \in Modern, f \in Nat : MarkIndexJobFailed(k, f)
      BY <2>4
    <3>1. Owned(k) /\ Release /\ gen' = [gen EXCEPT ![k] = "failed"] /\ UNCHANGED active
      BY DEF MarkIndexJobFailed, FailAllowed, Fenced, Owned
    <3>2. active' = [s \in Surfaces |-> IF s \in {} THEN k ELSE active[s]]
      BY <2>0, <3>1
    <3> QED BY Zenon, <1>2, <2>1, <3>1, <3>2, EndIsClose
  <2>5. CASE \E k \in Modern, f \in Nat : MarkIndexJobCanceled(k, f)
    <3> PICK k \in Modern, f \in Nat : MarkIndexJobCanceled(k, f)
      BY <2>5
    <3>1. Owned(k) /\ Release /\ gen' = [gen EXCEPT ![k] = "canceled"] /\ UNCHANGED active
      BY DEF MarkIndexJobCanceled, CancelAllowed, Fenced, Owned
    <3>2. active' = [s \in Surfaces |-> IF s \in {} THEN k ELSE active[s]]
      BY <2>0, <3>1
    <3> QED BY Zenon, <1>2, <2>1, <3>1, <3>2, EndIsClose
  <2>6. CASE \E k \in Modern, f \in Nat : \E pub \in Publications(job[k].mode), cg \in ReadableCatalogs :
               PublishOwned(k, f, pub, cg)
    <3> PICK k \in Modern, f \in Nat : \E pub \in Publications(job[k].mode), cg \in ReadableCatalogs :
               PublishOwned(k, f, pub, cg)
      BY <2>6
    <3> PICK pub \in Publications(job[k].mode), cg \in ReadableCatalogs : PublishOwned(k, f, pub, cg)
      BY Zenon
    <3>1. Owned(k) /\ Release
      BY DEF PublishOwned, PublishAllowed, Fenced, Owned
    <3>2. pub.surfaces \subseteq Surfaces /\ (pub.skip => pub.surfaces = {})
      BY Zenon, <1>2, PublicationShape DEF StoreInv, Modern
    <3>3. CASE pub.skip
      <4>1. gen' = [gen EXCEPT ![k] = "skipped"] /\ active' = [s \in Surfaces |-> IF s \in {} THEN k ELSE active[s]]
        BY Zenon, <3>2, <3>3 DEF PublishOwned
      <4> QED BY Zenon, <1>2, <2>1, <3>1, <4>1, EndIsClose
    <3>4. CASE ~pub.skip
      <4>1. /\ gen' = [gen EXCEPT ![k] = "published"]
            /\ active' = [s \in Surfaces |-> IF s \in pub.surfaces THEN k ELSE active[s]]
        BY Zenon, <3>4 DEF PublishOwned
      <4> QED BY Zenon, <1>2, <2>1, <3>1, <3>2, <4>1, EndIsClose
    <3> QED BY <3>3, <3>4
  <2>7. CASE \E k \in Modern : CancelQueued(k)
    <3> PICK k \in Modern : CancelQueued(k)
      BY <2>7
    <3>1. Owned(k) /\ Release /\ gen' = [gen EXCEPT ![k] = "canceled"] /\ UNCHANGED active
      BY DEF CancelQueued, CancelQueuedAllowed
    <3>2. active' = [s \in Surfaces |-> IF s \in {} THEN k ELSE active[s]]
      BY <2>0, <3>1
    <3> QED BY Zenon, <1>2, <2>1, <3>1, <3>2, EndIsClose
  <2>8. CASE \E k \in Modern : CancelRunning(k)
    BY <2>8 DEF CancelRunning, Ledger!ledgerVars, LedgerHolder, LedgerOutcome
  <2>9. CASE /\ UNCHANGED <<job, gen, owner>>
             /\ active' \in [Surfaces -> Int]
             /\ \A s \in Surfaces : active'[s] = active[s] \/ active'[s] < 0
    <3>1. UNCHANGED <<LedgerHolder, LedgerOutcome>>
      BY <2>9 DEF LedgerHolder, LedgerOutcome
    <3> QED BY <2>9, <3>1 DEF Ledger!Next, Ledger!Foreground
  <2> QED BY Zenon, <1>2, <2>2, <2>3, <2>4, <2>5, <2>6, <2>7, <2>8, <2>9, StoreSteps
<1> QED BY <1>1, <1>2, StoreInvariance, PTL DEF StoreSpec, ImplementsLedger, Ledger!Spec

-----------------------------------------------------------------------------

SLabels == {"s_create", "s_attach", "s_spawn", "s_get", "s_running", "s_fail"}
WLabels == {"w_get", "w_cancel", "w_lock", "w_mark", "w_check", "w_coop", "w_progress",
            "w_check2", "w_work", "w_err", "w_fail", "w_end"}
CLabels == {"c_get", "c_reread", "c_request", "c_requested", "c_kill", "c_mark", "c_unlock"}

\* Who can be where.
RolesOK ==
    /\ \A w \in Workers : pc[w] \in WLabels \cup Ended \cup {"unborn"}
    /\ \A s \in Starters : pc[s] \in SLabels \cup WLabels \cup Ended
    /\ \A c \in Cancelers : pc[c] \in CLabels \cup Ended

\* A live process between WorkLock and WorkUnlock is the one index.lock names.
LockOK == \A p \in alive : pc[p] \in InSection => lock = p

\* A job that is under way and that nobody asked to stop.
Open(j) == IsActive(j) /\ ~job[j].cancel

StatusOK == \A j \in Modern : Open(j) => job[j].status \in {"queued", "running"}

\* Where a process has read the job's fence, where a starter has it from the
\* creation, where a worker has marked the job running, and where a process
\* has seen that the job is over or asked to stop.
HasRead == {"s_running", "w_cancel", "w_lock", "w_mark", "w_check", "w_coop", "w_progress",
            "w_check2", "w_work", "w_err", "w_fail", "w_end"}
HasMade == {"s_spawn", "s_get", "s_running", "s_fail"}
HasMarked == {"w_check", "w_progress", "w_check2", "w_work"}
Closing == {"w_cancel", "w_coop", "w_end", "c_requested", "c_kill", "c_mark", "c_unlock"}

\* A process is about a job that exists, and what it knows of the job is true
\* for as long as the job is active.
AboutOK(p) ==
    /\ pc[p] \in {"unborn", "s_create"} => target[p] = NoJob
    /\ target[p] = NoJob => pc[p] \in {"unborn", "s_create", "c_get", "c_reread"} \cup Ended
    /\ target[p] # NoJob => job[target[p]].status # "none"
    /\ p \notin Cancelers /\ target[p] # NoJob => target[p] \in Modern
    /\ target[p] \in Modern =>
         /\ pc[p] \in HasRead /\ IsActive(target[p]) => seen[p].fence = owner.fence
         /\ p \in Starters /\ pc[p] \in HasMade /\ IsActive(target[p])
              => created[p] = owner.fence
         /\ pc[p] \in HasMarked /\ Open(target[p]) => job[target[p]].status = "running"
         /\ pc[p] \in Closing => ~Open(target[p])

\* One starter per job.
OneStarter ==
    /\ \A s, t \in Starters : target[s] = target[t] /\ target[s] # NoJob => s = t
    /\ \A j \in Modern : job[j].status # "none" => \E s \in Starters : target[s] = j

\* A starter works itself or has spawned a worker for its job.
SpawnOK(s) ==
    /\ pc[s] \in {"s_create", "s_attach", "s_spawn"} \cup WLabels => child[s] = NoPid
    /\ pc[s] \in {"s_get", "s_running"} => child[s] # NoPid
    /\ child[s] # NoPid => target[child[s]] = target[s] /\ pc[child[s]] # "unborn"
ChildrenOK ==
    /\ \A s \in Starters : SpawnOK(s)
    /\ \A w \in Workers : target[w] # NoJob => \E s \in Starters : child[s] = w

\* The process that works on the job of s.
WorkerOf(s) == IF child[s] = NoPid THEN s ELSE child[s]

\* The process recorded for a job is the one that works on it.
RecordOK(s) ==
    /\ target[s] # NoJob => job[target[s]].pid \in {NoPid, WorkerOf(s)}
    /\ pc[s] \in {"s_attach", "s_spawn"} => job[target[s]].pid = NoPid

\* The process a forced cancellation knows is the one recorded, and gone once
\* CancelKill has passed.
KnownOK(c) ==
    /\ target[c] = NoJob => seen[c].pid = NoPid
    /\ target[c] \in Modern /\ seen[c].pid # NoPid => job[target[c]].pid = seen[c].pid
    /\ pc[c] \in {"c_mark", "c_unlock"} /\ target[c] \in Modern => seen[c].pid \notin alive
    /\ pc[c] = "c_unlock" => target[c] \in Modern

\* Somebody will still end an open job, or died by itself.
Responsible == {"s_attach", "s_spawn", "s_fail", "w_get", "w_lock", "w_mark", "w_check",
                "w_progress", "w_check2", "w_work", "w_err", "w_fail", "crashed"}
CaredFor == \A j \in Modern : Open(j) => \E p \in Pids : target[p] = j /\ pc[p] \in Responsible

\* The inductive invariant.  Only its last part needs a database without
\* legacy rows: the process id such a row records may by now belong to the
\* worker of another job, and a forced cancellation of the row kills it.
JobsInv ==
    /\ StoreInv /\ ProcTypeOK /\ RolesOK /\ LockOK /\ StatusOK
    /\ \A p \in Pids : AboutOK(p)
    /\ OneStarter /\ ChildrenOK
    /\ \A s \in Starters : RecordOK(s)
    /\ \A c \in Cancelers : KnownOK(c)
    /\ Legacy = {} => CaredFor
-----------------------------------------------------------------------------
(* What a transaction does to the jobs there are.                          *)

\* No job disappears, becomes active or open again, or changes fence while it
\* is active.
Moves ==
    \A k \in Jobs : job[k].status # "none" =>
        /\ job'[k].status # "none"
        /\ k \in Modern /\ IsActive(k)' => IsActive(k) /\ owner'.fence = owner.fence
        /\ k \in Modern /\ Open(k)' =>
             Open(k) /\ (job[k].status = "running" => job'[k].status = "running")

\* The process recorded for a job stays, or the one that works on it is recorded.
PidsKept ==
    \A k \in Modern : job[k].status # "none" =>
        \/ job'[k].pid = job[k].pid
        \/ \E s \in Starters : /\ target[s] = k /\ job'[k].pid = WorkerOf(s)
                              /\ pc[s] \notin {"s_attach", "s_spawn"}

NoneAppear == \A k \in Jobs : job'[k].status # "none" => job[k].status # "none"

\* A transaction that creates no job.
Settles == StoreInv' /\ StatusOK' /\ Moves /\ PidsKept /\ NoneAppear

\* Nothing at all is one.
LEMMA NothingSettles ==
    ASSUME StoreInv, StatusOK, alive' \in SUBSET Pids, UNCHANGED dbVars
    PROVE  Settles
<1>1. StoreInv'
  BY DEF dbVars, StoreInv, TypeOK, SingleReservation, GenerationFollowsJob,
         PointersArePublished, CancelNeverFails, OwnerIsNewest, LegacyUntouched,
         IsActive, Owned, Created
<1>2. StatusOK' /\ Moves /\ PidsKept /\ NoneAppear
  BY DEF dbVars, StatusOK, Moves, PidsKept, NoneAppear, Open, IsActive
<1> QED BY Zenon, <1>1, <1>2 DEF Settles

\* So is one that ends the row of a job, or asks its process to stop.
LEMMA RowSettles ==
    ASSUME StoreInv, StatusOK, StoreInv', NEW j \in Jobs, NEW r \in JobRow,
           job[j].status # "none", job' = [job EXCEPT ![j] = r], r.pid = job[j].pid,
           owner'.fence = owner.fence,
           \/ r.status \in TerminalStatus
           \/ r.status = "cancel_requested" /\ r.cancel /\ IsActive(j)
    PROVE  Settles
<1>1. job \in [Jobs -> JobRow] /\ Modern \subseteq Jobs
  BY DEF StoreInv, TypeOK, Modern
<1>2. job'[j] = r /\ \A k \in Jobs : k # j => job'[k] = job[k]
  BY <1>1
<1>3. ~Open(j)' /\ job'[j].status # "none" /\ job'[j].pid = job[j].pid
  BY <1>2 DEF Open, IsActive, ActiveStatus, TerminalStatus
<1>4. IsActive(j)' => IsActive(j)
  BY <1>2 DEF IsActive, ActiveStatus, TerminalStatus
<1>5. \A k \in Jobs : k # j => (IsActive(k)' <=> IsActive(k)) /\ (Open(k)' <=> Open(k))
  BY Zenon, <1>2 DEF IsActive, Open
<1>6. StatusOK'
  BY Zenon, <1>1, <1>2, <1>3, <1>5 DEF StatusOK
<1>7. Moves
  BY Zenon, <1>2, <1>3, <1>4, <1>5 DEF Moves
<1>8. PidsKept /\ NoneAppear
  BY <1>1, <1>2, <1>3 DEF PidsKept, NoneAppear
<1> QED BY Zenon, <1>6, <1>7, <1>8 DEF Settles

\* The failure mark ends its job.
LEMMA FailedSettles ==
    ASSUME StoreInv, StatusOK, alive' \in SUBSET Pids,
           NEW j \in Jobs, NEW f \in Nat, MarkIndexJobFailed(j, f)
    PROVE  Settles /\ ~IsActive(j)'
<1>1. StoreInv'
  BY MarkIndexJobFailedKeeps
<1> DEFINE r == [job[j] EXCEPT !.status = "failed"]
<1>2. job \in [Jobs -> JobRow] /\ owner \in Ownership
  BY DEF StoreInv, TypeOK
<1>3. r \in JobRow /\ r.status = "failed" /\ r.pid = job[j].pid
  BY <1>2 DEF JobRow, TerminalStatus
<1>4. job[j].status # "none" /\ job' = [job EXCEPT ![j] = r] /\ owner'.fence = owner.fence
  BY <1>2 DEF MarkIndexJobFailed, FailAllowed, Release, Ownership
<1>5. ~IsActive(j)'
  BY <1>2, <1>3, <1>4 DEF IsActive, ActiveStatus
<1> HIDE DEF r
<1> QED BY Zenon, <1>1, <1>3, <1>4, <1>5, RowSettles DEF TerminalStatus

\* So does the cancellation mark.
LEMMA CanceledSettles ==
    ASSUME StoreInv, StatusOK, alive' \in SUBSET Pids,
           NEW j \in Jobs, NEW f \in Nat, MarkIndexJobCanceled(j, f)
    PROVE  Settles
<1>1. StoreInv'
  BY MarkIndexJobCanceledKeeps
<1> DEFINE r == [job[j] EXCEPT !.status = "canceled"]
<1>2. job \in [Jobs -> JobRow] /\ owner \in Ownership
  BY DEF StoreInv, TypeOK
<1>3. r \in JobRow /\ r.status = "canceled" /\ r.pid = job[j].pid
  BY <1>2 DEF JobRow, TerminalStatus
<1>4. job[j].status # "none" /\ job' = [job EXCEPT ![j] = r] /\ owner'.fence = owner.fence
  BY <1>2 DEF MarkIndexJobCanceled, CancelAllowed, Release, Ownership
<1> HIDE DEF r
<1> QED BY Zenon, <1>1, <1>3, <1>4, RowSettles DEF TerminalStatus

\* So does a publication.
LEMMA PublishSettles ==
    ASSUME StoreInv, StatusOK, alive' \in SUBSET Pids, NEW j \in Jobs, NEW f \in Nat,
           NEW pub, NEW cg \in ReadableCatalogs, PublishOwned(j, f, pub, cg)
    PROVE  Settles /\ ~IsActive(j)'
<1>1. StoreInv'
  BY PublishOwnedKeeps
<1> DEFINE r == [job[j] EXCEPT !.status = "succeeded"]
<1>2. job \in [Jobs -> JobRow] /\ owner \in Ownership
  BY DEF StoreInv, TypeOK
<1>3. r \in JobRow /\ r.status = "succeeded" /\ r.pid = job[j].pid
  BY <1>2 DEF JobRow, TerminalStatus
<1>4. job[j].status # "none" /\ job' = [job EXCEPT ![j] = r] /\ owner'.fence = owner.fence
  BY <1>2 DEF PublishOwned, PublishAllowed, Release, Ownership
<1>5. ~IsActive(j)'
  BY <1>2, <1>3, <1>4 DEF IsActive, ActiveStatus
<1> HIDE DEF r
<1> QED BY Zenon, <1>1, <1>3, <1>4, <1>5, RowSettles DEF TerminalStatus

\* After an accepted request to stop the job is no longer open.
LEMMA RequestSettles ==
    ASSUME StoreInv, StatusOK, alive' \in SUBSET Pids,
           NEW j \in Jobs, RequestIndexJobCancel(j)
    PROVE  Settles /\ ~Open(j)'
<1>1. StoreInv'
  BY Zenon, CancelQueuedKeeps, CancelRunningKeeps DEF RequestIndexJobCancel
<1>2. job \in [Jobs -> JobRow] /\ owner \in Ownership
  BY DEF StoreInv, TypeOK
<1>3. CASE CancelQueued(j)
  <2> DEFINE r == [job[j] EXCEPT !.status = "canceled", !.cancel = TRUE]
  <2>1. r \in JobRow /\ r.status = "canceled" /\ r.pid = job[j].pid
    BY Zenon, <1>2 DEF JobRow, TerminalStatus
  <2>2. job[j].status # "none" /\ job' = [job EXCEPT ![j] = r] /\ owner'.fence = owner.fence
    BY <1>2, <1>3 DEF CancelQueued, CancelQueuedAllowed, Release, Ownership
  <2>3. ~Open(j)'
    BY Zenon, <1>2, <2>1, <2>2 DEF Open, IsActive, ActiveStatus
  <2> HIDE DEF r
  <2> QED BY Zenon, <1>1, <2>1, <2>2, <2>3, RowSettles DEF TerminalStatus
<1>4. CASE CancelRunning(j)
  <2> DEFINE r == [job[j] EXCEPT !.status = "cancel_requested", !.cancel = TRUE]
  <2>1. r \in JobRow /\ r.status = "cancel_requested" /\ r.cancel = TRUE /\ r.pid = job[j].pid
    BY Zenon, <1>2 DEF JobRow, ActiveStatus
  <2>2. job[j].status # "none" /\ job' = [job EXCEPT ![j] = r] /\ owner'.fence = owner.fence
    BY <1>2, <1>4 DEF CancelRunning, CancelRunningAllowed
  <2>3. ~Open(j)' /\ IsActive(j)
    BY Zenon, <1>2, <1>4, <2>1, <2>2 DEF CancelRunning, CancelRunningAllowed, Open, IsActive, ActiveStatus
  <2> HIDE DEF r
  <2> QED BY Zenon, <1>1, <2>1, <2>2, <2>3, RowSettles
<1> QED BY Zenon, <1>3, <1>4 DEF RequestIndexJobCancel

\* A read, with the reconciliation it may do.
LEMMA GetSettles ==
    ASSUME StoreInv, StatusOK, alive' \in SUBSET Pids, NEW j \in Jobs, GetIndexJob(j)
    PROVE  Settles
<1>1. owner.fence \in Nat
  BY DEF StoreInv, TypeOK, Ownership
<1> QED BY Zenon, <1>1, NothingSettles, FailedSettles DEF GetIndexJob, ReconcileIndexJobRead
-----------------------------------------------------------------------------
(* A step of one process.                                                  *)

\* A process that stays where it is keeps its view of its job.
Still(q) ==
    /\ pc'[q] = pc[q] /\ target'[q] = target[q] /\ seen'[q] = seen[q]
    /\ q \in Starters => created'[q] = created[q]

\* Whatever transaction another process makes, what a process knew of its job
\* is true for as long as the job is active.
LEMMA Bystander ==
    ASSUME ProcTypeOK, Moves, NEW q \in Pids, AboutOK(q), Still(q)
    PROVE  AboutOK(q)'
<1>1. PICK j \in Jobs \cup {NoJob} : j = target[q]
  BY Zenon DEF ProcTypeOK
<1>2. CASE j = NoJob
  <2>1. NoJob \notin Modern
    BY Zenon, JobsAssumption DEF Modern, NoJob
  <2> QED BY <1>1, <1>2, <2>1 DEF AboutOK, Still
<1>3. CASE j # NoJob
  <2>1. job[j].status # "none" /\ j \in Jobs
    BY Zenon, <1>1, <1>3 DEF AboutOK, Modern
  <2>2. job'[j].status # "none"
    BY <2>1 DEF Moves
  <2>3. j \in Modern => /\ IsActive(j)' => IsActive(j) /\ owner'.fence = owner.fence
                        /\ Open(j)' => Open(j) /\ (job[j].status = "running"
                                                     => job'[j].status = "running")
    BY <2>1 DEF Moves
  <2>4. target'[q] = j /\ (IsActive(target[q])' <=> IsActive(j)')
        /\ (Open(target[q])' <=> Open(j)')
    BY <1>1 DEF Still, IsActive, Open
  <2> QED BY Zenon, <1>1, <1>3, <2>2, <2>3, <2>4 DEF AboutOK, Still
<1> QED BY Zenon, <1>2, <1>3

\* The process recorded for a starter's job is the one that works on it.
LEMMA RecordStays ==
    ASSUME JobsInv, Settles, NEW s \in Starters, target[s] # NoJob
    PROVE  /\ job'[target[s]].pid \in {NoPid, WorkerOf(s)}
           /\ pc[s] \in {"s_attach", "s_spawn"} => job'[target[s]].pid = NoPid
<1>1. RecordOK(s) /\ AboutOK(s) /\ s \notin Cancelers /\ OneStarter
  BY Zenon, RolesAssumption DEF JobsInv
<1>2. target[s] \in Modern /\ job[target[s]].status # "none"
  BY <1>1 DEF AboutOK
<1>3. \A t \in Starters : target[t] = target[s] => t = s
  BY <1>1 DEF OneStarter
<1> QED BY ZenonT(60), <1>1, <1>2, <1>3 DEF RecordOK, Settles, PidsKept

\* The process a canceler knows of stays the recorded one.
LEMMA KnownStays ==
    ASSUME JobsInv, Settles, NEW c \in Cancelers, target[c] \in Modern, seen[c].pid # NoPid
    PROVE  job'[target[c]].pid = seen[c].pid
<1>1. KnownOK(c) /\ AboutOK(c) /\ target[c] # NoJob
  BY Zenon, RolesAssumption, JobsAssumption DEF JobsInv, Modern, NoJob
<1>2. job[target[c]].status # "none" /\ job[target[c]].pid = seen[c].pid
  BY Zenon, <1>1 DEF AboutOK, KnownOK
<1>3. \A s \in Starters : target[s] = target[c] => job[target[c]].pid \in {NoPid, WorkerOf(s)}
  BY <1>1 DEF JobsInv, RecordOK
<1> QED BY <1>2, <1>3 DEF Settles, PidsKept

\* Process p goes on to l, and only its own fields change.
Acts(p, l) ==
    /\ pc' = [pc EXCEPT ![p] = l]
    /\ alive' \subseteq alive
    /\ child' = child
    /\ \A q \in Pids \ {p} : target'[q] = target[q] /\ seen'[q] = seen[q]
    /\ \A s \in Starters \ {p} : created'[s] = created[s]
    /\ p \notin Cancelers \/ pc[p] \in Ended => target'[p] = target[p]
    /\ ProcTypeOK'

\* Where p may go on: in its own role; on its own, with a child, or without a
\* recorded process, as it was; and away from an open job only to where
\* somebody is responsible for it.
Alone == {"s_attach", "s_spawn"} \cup WLabels
Paired == {"s_get", "s_running"}
Fits(p, l) ==
    /\ p \in Workers => l \in WLabels \cup Ended
    /\ p \in Starters => l \in (SLabels \ {"s_create"}) \cup WLabels \cup Ended
    /\ p \in Cancelers => l \in CLabels \cup Ended
    /\ l \in Alone => pc[p] \in Alone
    /\ l \in Paired => pc[p] \in Paired
    /\ l \in {"s_attach", "s_spawn"} => pc[p] \in {"s_attach", "s_spawn"}
    /\ Legacy = {} /\ pc[p] \in Responsible /\ target[p] \in Modern /\ Open(target[p])'
         => l \in Responsible

\* A step of p alone keeps the invariant if it fits, keeps the lock, and leaves
\* p with a true view.
LEMMA PlainStep ==
    ASSUME JobsInv, Settles, NEW p \in Pids, NEW l \in Labels, Acts(p, l), Fits(p, l),
           LockOK', AboutOK(p)', p \in Cancelers => KnownOK(p)'
    PROVE  JobsInv'
<1> USE RolesAssumption
<1>t. /\ pc \in [Pids -> Labels] /\ target \in [Pids -> Jobs \cup {NoJob}]
      /\ child \in [Starters -> Workers \cup {NoPid}]
      /\ Modern \subseteq Jobs /\ NoJob \notin Jobs /\ NoPid \notin Pids
  BY Zenon, JobsAssumption, PidsAssumption DEF JobsInv, ProcTypeOK, Modern, NoJob
<1>n. /\ pc'[p] = l /\ \A q \in Pids : q # p => pc'[q] = pc[q]
      /\ \A q \in Pids : q # p \/ q \notin Cancelers => target'[q] = target[q]
      /\ \A q \in Pids : q # p => seen'[q] = seen[q]
      /\ child' = child /\ alive' \subseteq alive
      /\ pc[p] \in Ended => target'[p] = target[p]
  BY <1>t DEF Acts
<1>1. StoreInv' /\ ProcTypeOK' /\ StatusOK' /\ LockOK'
  BY Zenon DEF Settles, Acts
<1>2. RolesOK'
  BY <1>n DEF JobsInv, RolesOK, Fits
<1>3. \A q \in Pids : AboutOK(q)'
  <2> SUFFICES ASSUME NEW q \in Pids, q # p PROVE AboutOK(q)'
    OBVIOUS
  <2>1. Still(q)
    BY <1>n DEF Still, Acts
  <2>2. ProcTypeOK /\ Moves /\ AboutOK(q)
    BY Zenon DEF JobsInv, Settles
  <2> QED BY Zenon, <2>1, <2>2, Bystander
<1>4. OneStarter'
  <2>1. \A s \in Starters : target'[s] = target[s]
    BY <1>n
  <2>2. OneStarter /\ NoneAppear
    BY Zenon DEF JobsInv, Settles
  <2> QED BY Zenon, <1>t, <2>1, <2>2 DEF OneStarter, NoneAppear
<1>5. ChildrenOK'
  <2>0. ChildrenOK /\ RolesOK
    BY Zenon DEF JobsInv
  <2>1. ASSUME NEW s \in Starters PROVE SpawnOK(s)'
    <3>1. SpawnOK(s)
      BY <2>0 DEF ChildrenOK
    <3>2. pc'[s] \in {"s_create"} \cup Alone => pc[s] \in {"s_create"} \cup Alone
      BY Zenon, <1>n DEF Fits, SLabels, WLabels, Ended
    <3>3. pc'[s] \in Paired => pc[s] \in Paired
      BY <1>n DEF Fits
    <3>4. child[s] # NoPid => pc'[child[s]] # "unborn" /\ target'[child[s]] = target'[s]
      <4> SUFFICES ASSUME child[s] # NoPid
                   PROVE  pc'[child[s]] # "unborn" /\ target'[child[s]] = target'[s]
        OBVIOUS
      <4>1. child[s] \in Workers /\ child[s] \in Pids /\ s \in Pids
        BY Zenon, <1>t
      <4>2. target'[child[s]] = target[child[s]] /\ target'[s] = target[s]
        BY Zenon, <1>n, <4>1
      <4>3. pc'[child[s]] # "unborn"
        BY Zenon, <1>n, <3>1, <4>1 DEF Fits, SpawnOK, WLabels, Ended
      <4> QED BY Zenon, <3>1, <4>2, <4>3 DEF SpawnOK
    <3> QED BY Zenon, <1>n, <3>1, <3>2, <3>3, <3>4 DEF SpawnOK, Alone, Paired
  <2>2. \A w \in Workers : target'[w] = target[w]
    BY Zenon, <1>n
  <2> QED BY Zenon, <1>n, <2>0, <2>1, <2>2 DEF ChildrenOK
<1>6. \A s \in Starters : RecordOK(s)'
  <2> SUFFICES ASSUME NEW s \in Starters PROVE RecordOK(s)'
    OBVIOUS
  <2>1. RecordOK(s) /\ AboutOK(s) /\ s \notin Cancelers
    BY DEF JobsInv
  <2>2. target'[s] = target[s] /\ (WorkerOf(s))' = WorkerOf(s)
    BY Zenon, <1>n DEF WorkerOf
  <2>3. target[s] # NoJob =>
          /\ job'[target[s]].pid \in {NoPid, WorkerOf(s)}
          /\ pc[s] \in {"s_attach", "s_spawn"} => job'[target[s]].pid = NoPid
    BY Zenon, RecordStays
  <2>4. pc'[s] \in {"s_attach", "s_spawn"} => pc[s] \in {"s_attach", "s_spawn"} /\ target[s] # NoJob
    BY Zenon, <1>n, <2>1 DEF Fits, AboutOK, Ended
  <2> QED BY Zenon, <2>1, <2>2, <2>3, <2>4 DEF RecordOK
<1>7. \A c \in Cancelers : KnownOK(c)'
  <2> SUFFICES ASSUME NEW c \in Cancelers, c # p PROVE KnownOK(c)'
    OBVIOUS
  <2>1. KnownOK(c) /\ AboutOK(c)
    BY DEF JobsInv
  <2>2. target'[c] = target[c] /\ seen'[c] = seen[c] /\ pc'[c] = pc[c] /\ alive' \subseteq alive
    BY Zenon, <1>n
  <2>3. target[c] \in Modern /\ seen[c].pid # NoPid => job'[target[c]].pid = seen[c].pid
    BY Zenon, KnownStays
  <2> QED BY Zenon, <2>1, <2>2, <2>3 DEF KnownOK
<1>8. Legacy = {} => CaredFor'
  <2> SUFFICES ASSUME Legacy = {}, NEW j \in Modern, Open(j)'
               PROVE  \E q \in Pids : target'[q] = j /\ pc'[q] \in Responsible
    BY Zenon DEF CaredFor
  <2>1. job[j].status # "none"
    BY Zenon, <1>t DEF Open, IsActive, ActiveStatus, Settles, NoneAppear
  <2>2. Open(j)
    BY Zenon, <1>t, <2>1 DEF Settles, Moves
  <2>3. PICK q \in Pids : target[q] = j /\ pc[q] \in Responsible
    BY Zenon, <2>2 DEF JobsInv, CaredFor
  <2>4. CASE q # p
    BY Zenon, <1>n, <2>3, <2>4
  <2>5. CASE q = p
    <3>1. target'[p] = target[p]
      BY Zenon, <1>n, <2>3, <2>5 DEF JobsInv, RolesOK, CLabels, Ended, Responsible
    <3>2. Open(target[p])'
      BY Zenon, <1>n, <2>3, <2>5, <3>1 DEF Open, IsActive
    <3> QED BY Zenon, <1>n, <2>3, <2>5, <3>1, <3>2 DEF Fits
  <2> QED BY Zenon, <2>4, <2>5
<1> QED BY Zenon, <1>1, <1>2, <1>3, <1>4, <1>5, <1>6, <1>7, <1>8 DEF JobsInv

\* The lock stays, and p is in the section only if it was.
LEMMA LockStays ==
    ASSUME JobsInv, NEW p \in Pids, NEW l \in Labels, Acts(p, l), lock' = lock,
           l \in InSection => pc[p] \in InSection
    PROVE  LockOK'
<1>1. \A q \in Pids : pc'[q] \in InSection => pc[q] \in InSection
  BY Zenon DEF Acts, JobsInv, ProcTypeOK
<1>2. alive' \subseteq alive /\ alive \subseteq Pids
  BY DEF Acts, JobsInv, StoreInv, TypeOK
<1> QED BY Zenon, <1>1, <1>2 DEF JobsInv, LockOK
-----------------------------------------------------------------------------
(* A step that changes nothing a process knows.                            *)

Onto(p, l) == Goto(p, l) \/ Exit(p, l)

LocalsStay ==
    /\ UNCHANGED <<target, seen, created, child>>
    /\ reports' \in [Starters \cup Workers -> 0..MaxReports]
    /\ lock' \in Pids \cup {NoPid}
    /\ crashes' \in 0..MaxCrashes

\* What p is taken to know at l it knew before, or has just seen.
Knew(p, l) ==
    /\ l \in HasRead => pc[p] \in HasRead
    /\ l \in HasMade => pc[p] \in HasMade
    /\ l \in HasMarked => pc[p] \in HasMarked \/ job'[target[p]].status = "running"
    /\ l \in Closing /\ target[p] \in Modern => ~Open(target[p])'
    /\ pc[p] \in {"unborn", "s_create", "c_get", "c_reread"} \cup Ended => l \in Ended
    /\ l \in {"c_mark", "c_unlock"} => pc[p] = "c_mark" \/ seen[p].pid \notin alive
    /\ l = "c_unlock" => target[p] \in Modern
    /\ l \notin {"unborn", "s_create"}

LockKept(p, l) == (lock' = lock /\ (l \in InSection => pc[p] \in InSection)) \/ LockOK'

\* A step that leaves p with what it had keeps the invariant.
LEMMA Onward ==
    ASSUME JobsInv, Settles, NEW p \in Pids, NEW l \in Labels, Onto(p, l), LocalsStay,
           Fits(p, l), Knew(p, l), LockKept(p, l)
    PROVE  JobsInv'
<1>t. /\ pc \in [Pids -> Labels] /\ target \in [Pids -> Jobs \cup {NoJob}]
      /\ Modern \subseteq Jobs /\ NoJob \notin Jobs /\ alive \in SUBSET Pids
  BY JobsAssumption DEF JobsInv, ProcTypeOK, StoreInv, TypeOK, Modern, NoJob
<1>1. Acts(p, l)
  <2>1. pc' \in [Pids -> Labels] /\ pc' = [pc EXCEPT ![p] = l]
    BY Zenon, <1>t DEF Onto, Goto, Exit
  <2>2. ProcTypeOK'
    BY <2>1 DEF LocalsStay, JobsInv, ProcTypeOK
  <2>3. alive' \subseteq alive
    BY DEF Onto, Goto, Exit
  <2> QED BY Zenon, <2>1, <2>2, <2>3 DEF Acts, LocalsStay
<1>2. LockOK'
  BY Zenon, <1>1, LockStays DEF LockKept
<1>3. /\ pc'[p] = l /\ target'[p] = target[p] /\ seen'[p] = seen[p] /\ created' = created
      /\ alive' \subseteq alive
  BY Zenon, <1>1, <1>t DEF Acts, LocalsStay
<1>4. AboutOK(p) /\ (p \in Cancelers => KnownOK(p))
  BY DEF JobsInv
<1>5. AboutOK(p)'
  <2>1. PICK j \in Jobs \cup {NoJob} : j = target[p]
    BY Zenon, <1>t
  <2>2. CASE j = NoJob
    BY Zenon, <1>t, <1>3, <1>4, <2>1, <2>2 DEF AboutOK, Knew
  <2>3. CASE j # NoJob
    <3>1. job[j].status # "none" /\ j \in Jobs
      BY Zenon, <2>1, <2>3, <1>4 DEF AboutOK
    <3>2. job'[j].status # "none"
      BY Zenon, <3>1 DEF Settles, Moves
    <3>3. j \in Modern => /\ IsActive(j)' => IsActive(j) /\ owner'.fence = owner.fence
                          /\ Open(j)' => Open(j) /\ (job[j].status = "running"
                                                       => job'[j].status = "running")
      BY <3>1 DEF Settles, Moves
    <3>4. target'[p] = j /\ (IsActive(target[p])' <=> IsActive(j)')
          /\ (Open(target[p])' <=> Open(j)')
      BY Zenon, <1>3, <2>1 DEF IsActive, Open
    <3> QED BY Zenon, <1>3, <1>4, <2>1, <2>3, <3>2, <3>3, <3>4 DEF AboutOK, Knew
  <2> QED BY <2>2, <2>3
<1>6. ASSUME p \in Cancelers PROVE KnownOK(p)'
  <2>1. target[p] \in Modern /\ seen[p].pid # NoPid => job'[target[p]].pid = seen[p].pid
    BY <1>6, KnownStays
  <2> QED BY Zenon, <1>3, <1>4, <1>6, <2>1 DEF KnownOK, Knew
<1> QED BY Zenon, <1>1, <1>2, <1>5, <1>6, PlainStep

\* A step that only moves the process on.
LEMMA KeepStays ==
    ASSUME JobsInv, Keep
    PROVE  LocalsStay /\ lock' = lock
<1> QED BY DEF Keep, localVars, LocalsStay, JobsInv, ProcTypeOK

\* No step of one process makes another process appear.
LEMMA OntoAlive ==
    ASSUME JobsInv, NEW p, NEW l, Onto(p, l)
    PROVE  StoreInv /\ StatusOK /\ alive' \in SUBSET Pids
<1> QED BY DEF JobsInv, StoreInv, TypeOK, Onto, Goto, Exit

\* The reservation is that of an open job.
LEMMA OpenIsFenced ==
    ASSUME StoreInv, StatusOK, NEW j \in Modern, Open(j)
    PROVE  /\ Owned(j) /\ Fenced(j, owner.fence) /\ gen[j] = "building"
           /\ job[j].status \in {"queued", "running"} /\ ~job[j].cancel
<1> QED BY DEF StoreInv, StatusOK, SingleReservation, OwnerIsNewest, GenerationFollowsJob,
               Fenced, Owned, Open

\* A starter or a worker that has begun is about a job of the ownership era.
LEMMA AboutModern ==
    ASSUME JobsInv, NEW p \in Starters \cup Workers,
           pc[p] \notin {"unborn", "s_create"} \cup Ended
    PROVE  /\ p \in Pids /\ p \notin Cancelers /\ target[p] \in Modern /\ target[p] \in Jobs
           /\ AboutOK(p) /\ seen[p].fence \in Nat
           /\ p \in Starters => created[p] \in Nat
<1>1. p \in Pids /\ p \notin Cancelers
  BY RolesAssumption
<1>2. AboutOK(p) /\ pc[p] \notin {"c_get", "c_reread"}
  BY Zenon, <1>1, RolesAssumption DEF JobsInv, RolesOK, SLabels, WLabels, Ended
<1>3. seen[p] \in Snapshots /\ (p \in Starters => created[p] \in Nat)
  BY <1>1 DEF JobsInv, ProcTypeOK
<1> QED BY Zenon, <1>1, <1>2, <1>3 DEF AboutOK, Modern, Snapshots
-----------------------------------------------------------------------------
(* runIndexJobWithPolicyHint.                                              *)

\* A database that stays keeps an ended job ended.
LEMMA ClosedStays ==
    ASSUME UNCHANGED dbVars, target' = target, NEW p, ~Open(target[p])
    PROVE  ~Open(target[p])'
<1> QED BY DEF dbVars, Open, IsActive

\* A step of a worker inside the section that changes no row.
LEMMA WorkLocal ==
    ASSUME JobsInv, NEW w \in Workers \cup Starters, NEW l \in Labels,
           pc[w] \in WLabels, Goto(w, l), UNCHANGED dbVars, LocalsStay, LockKept(w, l),
           l \in WLabels, l \in HasRead => pc[w] \in HasRead,
           l \in HasMarked => pc[w] \in HasMarked,
           l \in Closing => ~Open(target[w]), pc[w] \in Closing \/ l \in Closing \cup Responsible
    PROVE  JobsInv'
<1>1. pc[w] \notin {"unborn", "s_create"} \cup Ended
  BY DEF WLabels, Ended
<1>2. w \in Pids /\ w \notin Cancelers /\ target[w] \in Modern /\ AboutOK(w)
  BY Zenon, <1>1, AboutModern
<1>3. Onto(w, l)
  BY DEF Onto
<1>4. Settles
  BY Zenon, <1>3, OntoAlive, NothingSettles
<1>5. l \in Closing \/ pc[w] \in Closing => ~Open(target[w])'
  <2>1. pc[w] \in Closing => ~Open(target[w])
    BY Zenon, <1>2 DEF AboutOK
  <2> QED BY Zenon, <2>1, ClosedStays DEF LocalsStay
<1>6. Fits(w, l)
  BY Zenon, <1>2, <1>5 DEF Fits, Alone, Paired, WLabels
<1>7. Knew(w, l)
  BY <1>1, <1>2, <1>5 DEF Knew, WLabels, HasMade, Ended
<1> QED BY Zenon, <1>2, <1>3, <1>4, <1>6, <1>7, Onward

\* The poll for cancellation: it leaves the pass only when the flag is set.
LEMMA WorkCheckKeeps ==
    ASSUME JobsInv, NEW w \in Workers \cup Starters, WorkCheck(w)
    PROVE  JobsInv'
<1>1. LocalsStay /\ lock' = lock /\ UNCHANGED dbVars /\ pc[w] = "w_check"
  BY KeepStays DEF WorkCheck
<1>2. \A l : l \in InSection => LockKept(w, l)
  BY Zenon, <1>1 DEF LockKept, InSection
<1>3. \/ job[target[w]].cancel /\ Goto(w, "w_coop")
      \/ Goto(w, "w_progress")
      \/ Goto(w, "w_work")
  BY DEF WorkCheck
<1>4. job[target[w]].cancel => ~Open(target[w])
  BY DEF Open
<1> QED BY Zenon, <1>1, <1>2, <1>3, <1>4, WorkLocal
        DEF WLabels, Labels, HasRead, HasMarked, Closing, Responsible, InSection

\* A progress report is refused only for a job that is no longer open.
LEMMA WorkProgressKeeps ==
    ASSUME JobsInv, NEW w \in Workers \cup Starters, WorkProgress(w)
    PROVE  JobsInv'
<1>1. LocalsStay /\ lock' = lock /\ UNCHANGED dbVars /\ pc[w] = "w_progress"
  BY KeepStays DEF WorkProgress
<1>2. \A l : l \in InSection => LockKept(w, l)
  BY <1>1 DEF LockKept, InSection
<1>3. target[w] \in Modern /\ AboutOK(w) /\ StoreInv /\ StatusOK
  BY Zenon, <1>1, AboutModern DEF Ended, JobsInv
<1>4. Open(target[w]) => ProgressAllowed(target[w], seen[w].fence)
  BY Zenon, <1>1, <1>3, OpenIsFenced DEF AboutOK, HasRead, HasMarked, ProgressAllowed, Open
<1>5. Goto(w, "w_check2") \/ (Goto(w, "w_end") /\ ~Open(target[w]))
  BY <1>4 DEF WorkProgress
<1> QED BY Zenon, <1>1, <1>2, <1>5, WorkLocal
        DEF WLabels, Labels, HasRead, HasMarked, Closing, Responsible, InSection

\* The second poll of a report.
LEMMA WorkCheck2Keeps ==
    ASSUME JobsInv, NEW w \in Workers \cup Starters, WorkCheck2(w)
    PROVE  JobsInv'
<1>1. LocalsStay /\ lock' = lock /\ UNCHANGED dbVars /\ pc[w] = "w_check2"
  BY KeepStays DEF WorkCheck2
<1>2. \A l : l \in InSection => LockKept(w, l)
  BY <1>1 DEF LockKept, InSection
<1>3. Goto(w, "w_work") \/ (Goto(w, "w_coop") /\ ~Open(target[w]))
  BY DEF WorkCheck2, Open
<1> QED BY Zenon, <1>1, <1>2, <1>3, WorkLocal
        DEF WLabels, Labels, HasRead, HasMarked, Closing, Responsible, InSection

\* The indexer goes on to its next report.
LEMMA WorkReportKeeps ==
    ASSUME JobsInv, NEW w \in Workers \cup Starters, WorkReport(w)
    PROVE  JobsInv'
<1>1. /\ UNCHANGED dbVars /\ pc[w] = "w_work" /\ Goto(w, "w_check") /\ lock' = lock
      /\ UNCHANGED <<target, seen, created, child, crashes>>
      /\ reports[w] > 0 /\ reports' = [reports EXCEPT ![w] = @ - 1]
  BY Zenon DEF WorkReport
<1>2. LocalsStay
  <2>1. reports \in [Starters \cup Workers -> 0..MaxReports]
    BY DEF JobsInv, ProcTypeOK
  <2>2. reports' \in [Starters \cup Workers -> 0..MaxReports]
    BY <1>1, <2>1, BoundsAssumption
  <2> QED BY Zenon, <1>1, <2>2 DEF LocalsStay, JobsInv, ProcTypeOK
<1>3. LockKept(w, "w_check")
  BY <1>1 DEF LockKept, InSection
<1> QED BY Zenon, <1>1, <1>2, <1>3, WorkLocal
        DEF WLabels, Labels, HasRead, HasMarked, Closing, Responsible

\* An error under the lock is still to be looked at.
LEMMA WorkErrorKeeps ==
    ASSUME JobsInv, NEW w \in Workers \cup Starters, WorkError(w)
    PROVE  JobsInv'
<1>1. /\ LocalsStay /\ lock' = lock /\ UNCHANGED dbVars /\ Goto(w, "w_err")
      /\ pc[w] \in {"w_mark", "w_check", "w_coop", "w_progress", "w_check2", "w_work"}
  BY KeepStays DEF WorkError, Refused
<1>2. LockKept(w, "w_err")
  BY <1>1 DEF LockKept, InSection
<1> QED BY Zenon, <1>1, <1>2, WorkLocal
        DEF WLabels, Labels, HasRead, HasMarked, Closing, Responsible

\* WorkLock enters the section only when no live process is in it.
LEMMA WorkLockKeeps ==
    ASSUME JobsInv, NEW w \in Workers \cup Starters, WorkLock(w)
    PROVE  JobsInv'
<1>0. w \in Pids /\ alive \in SUBSET Pids /\ pc \in [Pids -> Labels] /\ NoPid \notin Pids
  BY Zenon, RolesAssumption, PidsAssumption DEF JobsInv, ProcTypeOK, StoreInv, TypeOK
<1>1. UNCHANGED dbVars /\ pc[w] = "w_lock"
  BY DEF WorkLock
<1>2. LocalsStay
  <2>1. lock' \in Pids \cup {NoPid}
    BY Zenon, <1>0 DEF WorkLock, JobsInv, ProcTypeOK
  <2> QED BY <2>1 DEF WorkLock, LocalsStay, localVars, JobsInv, ProcTypeOK
<1>3. CASE LockFree /\ lock' = w /\ Goto(w, "w_mark")
  <2>1. \A q \in alive : pc[q] \notin InSection
    BY Zenon, <1>0, <1>3 DEF JobsInv, LockOK, LockFree
  <2>2. LockOK'
    BY Zenon, <1>0, <1>3, <2>1 DEF LockOK, Goto
  <2>3. LockKept(w, "w_mark")
    BY Zenon, <2>2 DEF LockKept
  <2> QED BY Zenon, <1>1, <1>2, <1>3, <2>3, WorkLocal
          DEF WLabels, Labels, HasRead, HasMarked, Closing, Responsible
<1>4. CASE Goto(w, "w_fail") /\ UNCHANGED lock
  <2>1. LockKept(w, "w_fail")
    BY <1>4 DEF LockKept, InSection
  <2> QED BY Zenon, <1>1, <1>2, <1>4, <2>1, WorkLocal
          DEF WLabels, Labels, HasRead, HasMarked, Closing, Responsible
<1> QED BY Zenon, <1>3, <1>4 DEF WorkLock

\* A starter or worker is done with a job that is no longer open.
LEMMA WorkEnds ==
    ASSUME JobsInv, Settles, NEW w \in Workers \cup Starters, NEW l \in {"done", "w_end"},
           pc[w] \notin {"unborn", "s_create"} \cup Ended, l = "w_end" => pc[w] \in WLabels \cap HasRead,
           Onto(w, l), LocalsStay, LockKept(w, l), ~Open(target[w])'
    PROVE  JobsInv'
<1>2. w \in Pids /\ w \notin Cancelers /\ target[w] \in Modern /\ l \in Labels
  BY AboutModern DEF Labels
<1>3. RolesOK
  BY DEF JobsInv
<1>6. Fits(w, l)
  BY ZenonT(60), <1>2 DEF Fits, Alone, Paired, WLabels, Ended
<1>7. Knew(w, l)
  BY <1>2, <1>3, RolesAssumption
     DEF Knew, RolesOK, SLabels, WLabels, HasMade, HasMarked, HasRead, Ended
<1> QED BY ZenonT(60), <1>2, <1>6, <1>7, Onward

\* The owner confirms the cancellation it saw.
LEMMA WorkCancelKeeps ==
    ASSUME JobsInv, NEW w \in Workers \cup Starters, WorkCancel(w) \/ WorkCoop(w)
    PROVE  JobsInv'
<1>1. LocalsStay /\ lock' = lock /\ pc[w] \in {"w_cancel", "w_coop"}
  BY KeepStays DEF WorkCancel, WorkCoop
<1>2. target[w] \in Modern /\ target[w] \in Jobs /\ AboutOK(w) /\ seen[w].fence \in Nat
  BY Zenon, <1>1, AboutModern DEF Ended
<1>3. PICK l \in {"done", "w_end"} : Onto(w, l) /\ (l = "w_end" => pc[w] = "w_coop")
  BY DEF WorkCancel, WorkCoop, Onto
<1>4. Settles
  BY Zenon, <1>2, <1>3, OntoAlive, NothingSettles, CanceledSettles DEF WorkCancel, WorkCoop
<1>5. ~Open(target[w])'
  <2>1. ~Open(target[w]) /\ job[target[w]].status # "none"
    BY Zenon, <1>1, <1>2, JobsAssumption DEF AboutOK, Closing, NoJob
  <2>2. target'[w] = target[w]
    BY <1>1 DEF LocalsStay
  <2>3. PICK j \in Modern : j = target[w]
    BY Zenon, <1>2
  <2>4. j \in Jobs /\ ~Open(j)'
    BY Zenon, <1>2, <1>4, <2>1, <2>3 DEF Settles, Moves
  <2> QED BY Zenon, <2>2, <2>3, <2>4 DEF Open, IsActive
<1>6. LockKept(w, l)
  BY <1>1, <1>3 DEF LockKept, InSection
<1> QED BY ZenonT(60), <1>1, <1>3, <1>4, <1>5, <1>6, WorkEnds DEF WLabels, HasRead, Ended

\* A publication succeeds, or the job is no longer open.
LEMMA WorkPublishKeeps ==
    ASSUME JobsInv, NEW w \in Workers \cup Starters, WorkPublish(w)
    PROVE  JobsInv'
<1>1. LocalsStay /\ lock' = lock /\ pc[w] = "w_work" /\ Goto(w, "w_end")
  BY Zenon, KeepStays DEF WorkPublish
<1>2. /\ target[w] \in Modern /\ target[w] \in Jobs /\ AboutOK(w) /\ seen[w].fence \in Nat
      /\ StoreInv /\ StatusOK
  BY Zenon, <1>1, AboutModern DEF Ended, JobsInv
<1>3. Onto(w, "w_end") /\ LockKept(w, "w_end")
  BY <1>1 DEF Onto, LockKept, InSection
<1>4. target' = target
  BY <1>1 DEF LocalsStay
<1>5. CASE \E pub \in Publications(job[target[w]].mode), cg \in ReadableCatalogs :
             PublishOwned(target[w], seen[w].fence, pub, cg)
  <2>1. PICK j \in Jobs : j = target[w]
    BY Zenon, <1>2
  <2>2. Settles /\ ~IsActive(j)'
    BY Zenon, <1>2, <1>3, <1>5, <2>1, OntoAlive, PublishSettles
  <2>3. ~Open(target[w])'
    BY Zenon, <1>4, <2>1, <2>2 DEF Open, IsActive
  <2> QED BY Zenon, <1>1, <1>3, <2>2, <2>3, WorkEnds DEF WLabels, HasRead, Ended
<1>6. CASE ~PublishAllowed(target[w], seen[w].fence) /\ UNCHANGED dbVars
  <2>1. ~Open(target[w])
    BY Zenon, <1>1, <1>2, <1>6, OpenIsFenced DEF AboutOK, HasRead, HasMarked, PublishAllowed, Open
  <2>2. ~Open(target[w])'
    BY Zenon, <1>4, <1>6, <2>1, ClosedStays
  <2>3. Settles
    BY Zenon, <1>3, <1>6, OntoAlive, NothingSettles
  <2> QED BY Zenon, <1>1, <1>3, <2>2, <2>3, WorkEnds DEF WLabels, HasRead, Ended
<1> QED BY Zenon, <1>5, <1>6 DEF WorkPublish

\* A failed pass or a failed start ends its job, unless it is no longer open.
LEMMA FailEnds ==
    ASSUME JobsInv, NEW p \in Workers \cup Starters, NEW f \in Nat,
           pc[p] \in {"w_fail", "s_fail"}, IsActive(target[p]) => f = owner.fence,
           MarkIndexJobFailed(target[p], f) \/ (~FailAllowed(target[p], f) /\ UNCHANGED dbVars),
           Exit(p, "done"), Keep
    PROVE  JobsInv'
<1>1. LocalsStay /\ lock' = lock /\ target' = target
  BY Zenon, KeepStays DEF Keep, localVars
<1>2. target[p] \in Modern /\ target[p] \in Jobs /\ StoreInv /\ StatusOK
  BY Zenon, AboutModern DEF Ended, JobsInv
<1>3. Onto(p, "done") /\ LockKept(p, "done")
  BY <1>1 DEF Onto, LockKept, InSection
<1>5. CASE MarkIndexJobFailed(target[p], f)
  <2>1. PICK j \in Jobs : j = target[p]
    BY <1>2
  <2>2. Settles /\ ~IsActive(j)'
    BY Zenon, <1>2, <1>3, <1>5, <2>1, OntoAlive, FailedSettles
  <2>3. ~Open(target[p])'
    BY Zenon, <1>1, <2>1, <2>2 DEF Open, IsActive
  <2> QED BY Zenon, <1>1, <1>3, <2>2, <2>3, WorkEnds DEF Ended
<1>6. CASE ~FailAllowed(target[p], f) /\ UNCHANGED dbVars
  <2>1. ~Open(target[p])
    BY Zenon, <1>2, <1>6, OpenIsFenced DEF FailAllowed, Open
  <2>2. ~Open(target[p])'
    BY Zenon, <1>1, <1>6, <2>1, ClosedStays
  <2>3. Settles
    BY Zenon, <1>3, <1>6, OntoAlive, NothingSettles
  <2> QED BY Zenon, <1>1, <1>3, <2>2, <2>3, WorkEnds DEF Ended
<1> QED BY Zenon, <1>5, <1>6

\* The failed pass holds the fence it read.
LEMMA WorkFailKeeps ==
    ASSUME JobsInv, NEW w \in Workers \cup Starters, WorkFail(w)
    PROVE  JobsInv'
<1>1. pc[w] = "w_fail"
  BY DEF WorkFail
<1>2. target[w] \in Modern /\ AboutOK(w) /\ seen[w].fence \in Nat
  BY Zenon, <1>1, AboutModern DEF Ended
<1>3. IsActive(target[w]) => seen[w].fence = owner.fence
  BY <1>1, <1>2 DEF AboutOK, HasRead
<1> QED BY Zenon, <1>1, <1>2, <1>3, FailEnds DEF WorkFail

\* The failed start holds the fence of the creation.
LEMMA StartFailKeeps ==
    ASSUME JobsInv, NEW s \in Starters, StartFail(s)
    PROVE  JobsInv'
<1>1. pc[s] = "s_fail"
  BY DEF StartFail
<1>2. target[s] \in Modern /\ AboutOK(s) /\ created[s] \in Nat
  BY Zenon, <1>1, AboutModern DEF Ended
<1>3. IsActive(target[s]) => created[s] = owner.fence
  BY <1>1, <1>2 DEF AboutOK, HasMade
<1> QED BY Zenon, <1>1, <1>2, <1>3, FailEnds DEF StartFail

\* WorkUnlock removes the lock file only if it is the process's own.
LEMMA WorkUnlockKeeps ==
    ASSUME JobsInv, NEW w \in Workers \cup Starters, WorkUnlock(w)
    PROVE  JobsInv'
<1>0. w \in Pids /\ alive \in SUBSET Pids /\ pc \in [Pids -> Labels] /\ NoPid \notin Pids
  BY Zenon, RolesAssumption, PidsAssumption DEF JobsInv, ProcTypeOK, StoreInv, TypeOK
<1>1. UNCHANGED dbVars /\ target' = target /\ lock' = IF lock = w THEN NoPid ELSE lock
  BY DEF WorkUnlock, localVars
<1>2. LocalsStay
  <2>1. lock' \in Pids \cup {NoPid}
    BY Zenon, <1>1 DEF JobsInv, ProcTypeOK
  <2> QED BY Zenon, <2>1 DEF WorkUnlock, LocalsStay, localVars, JobsInv, ProcTypeOK
<1>3. ASSUME NEW l \in {"w_fail", "done"}, Onto(w, l)
      PROVE  LockKept(w, l)
  <2>1. \A q \in alive' : pc'[q] \in InSection => q # w /\ q \in alive /\ pc[q] \in InSection
    BY Zenon, <1>0, <1>3 DEF Onto, Goto, Exit, InSection
  <2>2. LockOK'
    BY Zenon, <1>1, <2>1 DEF LockOK, JobsInv
  <2> QED BY <2>2 DEF LockKept
<1>4. CASE pc[w] = "w_err" /\ Goto(w, "w_fail")
  BY Zenon, <1>1, <1>2, <1>3, <1>4, WorkLocal
     DEF Onto, WLabels, Labels, HasRead, HasMarked, Closing, Responsible
<1>5. CASE pc[w] = "w_end" /\ Exit(w, "done")
  <2>1. Onto(w, "done")
    BY <1>5 DEF Onto
  <2>2. Settles
    BY Zenon, <1>1, <2>1, OntoAlive, NothingSettles
  <2>3. target[w] \in Modern /\ AboutOK(w)
    BY Zenon, <1>5, AboutModern DEF Ended
  <2>4. ~Open(target[w])
    BY Zenon, <1>5, <2>3 DEF AboutOK, Closing
  <2>5. ~Open(target[w])'
    BY Zenon, <1>1, <2>4, ClosedStays
  <2> QED BY Zenon, <1>2, <1>3, <1>5, <2>1, <2>2, <2>5, WorkEnds DEF Ended
<1> QED BY Zenon, <1>4, <1>5 DEF WorkUnlock
-----------------------------------------------------------------------------
(* Reads.                                                                  *)

\* What GetIndexJob returns: the row as the transaction left it, with the
\* reservation's fence while the job is active.
LEMMA SnapshotIsTrue ==
    ASSUME StoreInv', NEW j \in Jobs
    PROVE  /\ Snapshot(j)' \in Snapshots
           /\ Snapshot(j)'.status = job'[j].status /\ Snapshot(j)'.cancel = job'[j].cancel
           /\ Snapshot(j)'.pid = job'[j].pid
           /\ j \in Modern /\ IsActive(j)' => Snapshot(j)'.fence = owner'.fence
<1>1. job' \in [Jobs -> JobRow] /\ owner' \in Ownership
  BY DEF StoreInv, TypeOK
<1>2. j \in Modern /\ IsActive(j)' => Owned(j)'
  BY DEF StoreInv, SingleReservation
<1> QED BY Zenon, <1>1, <1>2 DEF Snapshot, Snapshots, JobRow, Ownership

\* GetIndexJob, keeping the result, by a starter or a worker.
LEMMA ReadStep ==
    ASSUME JobsInv, NEW p \in Workers \cup Starters, NEW l \in Labels,
           pc[p] \in {"w_get", "s_get"}, Read(p), Onto(p, l), Settles, Fits(p, l),
           l \notin InSection \cup HasMarked \cup {"unborn", "s_create"},
           l \in HasMade => pc[p] \in HasMade, l \in Closing => ~Open(target[p])'
    PROVE  JobsInv'
<1>1. p \in Pids /\ p \notin Cancelers /\ target[p] \in Modern /\ AboutOK(p)
  BY AboutModern DEF Ended
<1>2. PICK j \in Modern : j = target[p]
  BY Zenon, <1>1
<1>3. /\ seen' = [seen EXCEPT ![p] = Snapshot(j)']
      /\ UNCHANGED <<target, created, child, reports, lock, crashes>>
  BY Zenon, <1>2 DEF Read, Snapshot, Owned
<1>4. /\ j \in Jobs /\ Snapshot(j)' \in Snapshots
      /\ IsActive(j)' => Snapshot(j)'.fence = owner'.fence
  BY Zenon, SnapshotIsTrue DEF Settles, Modern
<1>5. /\ pc \in [Pids -> Labels] /\ seen \in [Pids -> Snapshots]
      /\ pc' = [pc EXCEPT ![p] = l] /\ alive' \subseteq alive
  BY DEF JobsInv, ProcTypeOK, Onto, Goto, Exit
<1>6. ProcTypeOK'
  BY Zenon, <1>3, <1>4, <1>5 DEF JobsInv, ProcTypeOK
<1>7. Acts(p, l)
  BY Zenon, <1>1, <1>3, <1>5, <1>6 DEF Acts, Ended
<1>8. LockOK'
  BY Zenon, <1>1, <1>3, <1>7, LockStays
<1>9. AboutOK(p)'
  <2>1. pc'[p] = l /\ target'[p] = j /\ seen'[p] = Snapshot(j)' /\ created' = created
    BY Zenon, <1>1, <1>2, <1>3, <1>5
  <2>2. job[j].status # "none" /\ j # NoJob
    BY Zenon, <1>1, <1>2, <1>4, JobsAssumption DEF AboutOK, NoJob
  <2>3. /\ job'[j].status # "none"
        /\ IsActive(j)' => IsActive(j) /\ owner'.fence = owner.fence
    BY Zenon, <1>4, <2>2 DEF Settles, Moves
  <2>4. (IsActive(target[p])' <=> IsActive(j)') /\ (Open(target[p])' <=> Open(j)')
    BY <2>1 DEF IsActive, Open
  <2> QED BY Zenon, <1>1, <1>2, <1>4, <2>1, <2>2, <2>3, <2>4 DEF AboutOK
<1> QED BY ZenonT(60), <1>1, <1>7, <1>8, <1>9, PlainStep

\* The worker's first read sends it away only from a job that is not open.
LEMMA WorkGetKeeps ==
    ASSUME JobsInv, NEW w \in Workers \cup Starters, WorkGet(w)
    PROVE  JobsInv'
<1>1. pc[w] = "w_get" /\ Read(w) /\ GetIndexJob(target[w]) /\ target' = target
  BY DEF WorkGet, Read
<1>2. w \in Pids /\ w \notin Cancelers /\ target[w] \in Modern /\ target[w] \in Jobs
  BY Zenon, <1>1, AboutModern DEF Ended
<1>3. \E l \in {"done", "w_cancel", "w_lock"} : Onto(w, l)
  BY DEF WorkGet, Onto
<1>4. Settles
  BY Zenon, <1>1, <1>2, <1>3, OntoAlive, GetSettles
<1>5. PICK j \in Modern : j = target[w]
  BY <1>2
<1>6. seen'[w].status = job'[j].status /\ seen'[w].cancel = job'[j].cancel
  <2>1. Snapshot(j)'.status = job'[j].status /\ Snapshot(j)'.cancel = job'[j].cancel
    BY Zenon, <1>4, SnapshotIsTrue DEF Settles, Modern
  <2>2. seen' = [seen EXCEPT ![w] = Snapshot(j)'] /\ seen \in [Pids -> Snapshots]
    BY Zenon, <1>1, <1>5 DEF Read, Snapshot, Owned, JobsInv, ProcTypeOK
  <2> QED BY Zenon, <1>2, <2>1, <2>2
<1>7. Open(target[w])' <=> Open(j)'
  BY Zenon, <1>1, <1>5 DEF Open, IsActive
<1>8. \/ Exit(w, "done") /\ ~Open(target[w])'
      \/ Goto(w, "w_cancel") /\ ~Open(target[w])'
      \/ Goto(w, "w_lock")
  BY Zenon, <1>6, <1>7 DEF WorkGet, Open, IsActive, ActiveStatus
<1>9. PICK l \in {"done", "w_cancel", "w_lock"} : Onto(w, l) /\ (l # "w_lock" => ~Open(target[w])')
  BY Zenon, <1>8 DEF Onto
<1>10. Fits(w, l)
  BY <1>1, <1>2, <1>9 DEF Fits, Alone, Paired, WLabels, Ended, Responsible
<1> QED BY ZenonT(60), <1>1, <1>4, <1>9, <1>10, ReadStep DEF Labels, InSection, HasMarked, HasMade, Closing

\* The parent's read of the job before it records the child.
LEMMA StartGetKeeps ==
    ASSUME JobsInv, NEW s \in Starters, StartGet(s)
    PROVE  JobsInv'
<1>1. pc[s] = "s_get"
  BY DEF StartGet
<1>2. /\ s \in Pids /\ s \notin Cancelers /\ s \notin Workers
      /\ target[s] \in Modern /\ target[s] \in Jobs
  BY Zenon, <1>1, AboutModern, RolesAssumption DEF Ended
<1>3. CASE Read(s) /\ Goto(s, "s_running")
  <2>1. Onto(s, "s_running")
    BY <1>3 DEF Onto
  <2>2. Settles
    BY Zenon, <1>2, <1>3, <2>1, OntoAlive, GetSettles DEF Read
  <2>3. Fits(s, "s_running")
    BY Zenon, <1>1, <1>2 DEF Fits, Alone, Paired, SLabels, WLabels, Ended, Responsible
  <2> QED BY Zenon, <1>1, <1>3, <2>1, <2>2, <2>3, ReadStep
          DEF Labels, InSection, HasMarked, HasMade, Closing
<1>4. CASE Refused(s, "s_fail") /\ Keep
  <2>1. Onto(s, "s_fail") /\ UNCHANGED dbVars
    BY <1>4 DEF Onto, Refused
  <2>2. Settles
    BY Zenon, <2>1, OntoAlive, NothingSettles
  <2>3. LocalsStay /\ LockKept(s, "s_fail")
    BY Zenon, <1>4, KeepStays DEF LockKept, InSection
  <2>4. Fits(s, "s_fail") /\ Knew(s, "s_fail") /\ "s_fail" \in Labels
    BY <1>1, <1>2 DEF Fits, Knew, Labels, Alone, Paired, SLabels, WLabels, Ended, Responsible,
       HasRead, HasMade, HasMarked, Closing
  <2> QED BY Zenon, <1>2, <2>1, <2>2, <2>3, <2>4, Onward
<1> QED BY <1>3, <1>4 DEF StartGet
=============================================================================
