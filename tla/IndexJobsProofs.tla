-------------------------- MODULE IndexJobsProofs --------------------------
(***************************************************************************)
(* Proofs about IndexJobs for every number of starters, workers, cancelers *)
(* and jobs, every number of crashes and progress reports: indexing is     *)
(* exclusive, a forced cancellation waits for the process it knew, and no  *)
(* job is left behind.  The inductive invariant is JobsInv of              *)
(* IndexWorkerProofs; the creation of a job, the spawn of a worker and a   *)
(* kill change more than one process and are proved one by one.            *)
(***************************************************************************)
EXTENDS IndexWorkerProofs

-----------------------------------------------------------------------------
(* indexStart.                                                             *)

\* A starter goes on without touching a row.
LEMMA StartLocal ==
    ASSUME JobsInv, NEW s \in Starters, pc[s] \in {"s_spawn", "s_running"},
           Goto(s, "s_fail"), UNCHANGED dbVars, Keep
    PROVE  JobsInv'
<1>1. s \in Pids /\ s \notin Cancelers /\ s \notin Workers /\ "s_fail" \in Labels
  BY RolesAssumption DEF Labels
<1>2. Onto(s, "s_fail")
  BY DEF Onto
<1>3. Settles
  BY <1>2, OntoAlive, NothingSettles
<1>4. LocalsStay /\ LockKept(s, "s_fail")
  BY KeepStays DEF LockKept, InSection
<1>5. Fits(s, "s_fail") /\ Knew(s, "s_fail")
  BY <1>1 DEF Fits, Knew, Alone, Paired, SLabels, WLabels, Ended, Responsible,
     HasRead, HasMade, HasMarked, Closing
<1> QED BY <1>1, <1>2, <1>3, <1>4, <1>5, Onward

\* The fence createIndexJob reads back is the reservation's, unless the job
\* has ended already.
LEMMA StartAttachKeeps ==
    ASSUME JobsInv, NEW s \in Starters, StartAttach(s)
    PROVE  JobsInv'
<1>1. /\ pc[s] = "s_attach" /\ UNCHANGED <<dbVars, target, seen, child, reports, lock, crashes>>
      /\ created' = [created EXCEPT ![s] = Snapshot(target[s]).fence]
      /\ \E l \in {"s_spawn", "w_get"} : Goto(s, l)
  BY DEF StartAttach
<1>2. PICK l \in {"s_spawn", "w_get"} : Goto(s, l)
  BY <1>1
<1>3. /\ s \in Pids /\ s \notin Cancelers /\ s \notin Workers /\ l \in Labels
      /\ target[s] \in Modern /\ target[s] \in Jobs /\ AboutOK(s)
  BY <1>1, AboutModern, RolesAssumption DEF Ended, Labels
<1>4. Onto(s, l)
  BY <1>2 DEF Onto
<1>5. Settles
  BY <1>1, <1>4, OntoAlive, NothingSettles
<1>6. /\ Snapshot(target[s]).fence \in Nat
      /\ IsActive(target[s]) => Snapshot(target[s]).fence = owner.fence
  <2>1. owner \in Ownership /\ (IsActive(target[s]) => Owned(target[s]))
    BY <1>3 DEF JobsInv, StoreInv, TypeOK, SingleReservation
  <2> QED BY <2>1 DEF Snapshot, Ownership
<1>7. Acts(s, l)
  <2>1. ProcTypeOK'
    BY <1>1, <1>2, <1>3, <1>6 DEF JobsInv, ProcTypeOK, Goto
  <2> QED BY Zenon, <1>1, <1>2, <1>3, <2>1 DEF Acts, Goto, Ended, JobsInv, ProcTypeOK
<1>8. LockOK'
  BY <1>1, <1>3, <1>7, LockStays DEF InSection
<1>9. Fits(s, l)
  BY Zenon, <1>1, <1>3 DEF Fits, Alone, Paired, SLabels, WLabels, Responsible
<1>10. AboutOK(s)'
  <2>1. /\ pc'[s] = l /\ target'[s] = target[s] /\ seen'[s] = seen[s]
        /\ created'[s] = Snapshot(target[s]).fence
    BY Zenon, <1>1, <1>2, <1>3 DEF Goto, JobsInv, ProcTypeOK
  <2>2. /\ job' = job /\ owner' = owner /\ target[s] # NoJob
        /\ (IsActive(target[s])' <=> IsActive(target[s]))
    BY <1>1, <1>3, JobsAssumption DEF dbVars, IsActive, NoJob
  <2> QED BY Zenon, <1>3, <1>6, <2>1, <2>2 DEF AboutOK, HasRead, HasMade, HasMarked, Closing
<1> QED BY <1>3, <1>5, <1>7, <1>8, <1>9, <1>10, PlainStep
-----------------------------------------------------------------------------
(* indexCancel.                                                            *)

\* A canceler goes on with what it has.
LEMMA CancelOn ==
    ASSUME JobsInv, Settles, NEW c \in Cancelers, NEW l \in Labels, l \in CLabels \cup Ended,
           pc[c] \in CLabels, Onto(c, l), LocalsStay, LockKept(c, l),
           l \notin {"c_get", "c_reread"}, pc[c] \in {"c_get", "c_reread"} => l \in Ended,
           l \in Closing /\ target[c] \in Modern => ~Open(target[c])',
           l \in {"c_mark", "c_unlock"} => pc[c] = "c_mark" \/ seen[c].pid \notin alive,
           l = "c_unlock" => target[c] \in Modern
    PROVE  JobsInv'
<1>1. c \in Pids /\ c \notin Workers /\ c \notin Starters
  BY RolesAssumption
<1>2. Fits(c, l) /\ Knew(c, l)
  BY <1>1 DEF Fits, Knew, Alone, Paired, SLabels, WLabels, CLabels, Ended, Responsible,
     HasRead, HasMade, HasMarked
<1> QED BY <1>1, <1>2, Onward

\* A closed job stays closed.
LEMMA ClosedSettles ==
    ASSUME JobsInv, Settles, target' = target, NEW p \in Pids, target[p] \in Modern, ~Open(target[p])
    PROVE  ~Open(target[p])'
<1>1. PICK j \in Modern : j = target[p]
  OBVIOUS
<1>2. j \in Jobs /\ job[j].status # "none"
  BY <1>1, JobsAssumption DEF JobsInv, AboutOK, Modern, NoJob
<1>3. ~Open(j)'
  BY <1>1, <1>2 DEF Settles, Moves
<1> QED BY <1>1, <1>3 DEF Open, IsActive

\* A canceler past its reads is about a job that exists.
LEMMA CancelAbout ==
    ASSUME JobsInv, NEW c \in Cancelers, pc[c] \in CLabels \ {"c_get", "c_reread"}
    PROVE  /\ c \in Pids /\ target[c] \in Jobs /\ AboutOK(c) /\ KnownOK(c)
           /\ seen[c].fence \in Nat /\ StoreInv /\ StatusOK
<1>1. c \in Pids
  BY RolesAssumption
<1>2. AboutOK(c) /\ KnownOK(c) /\ target[c] \in Jobs \cup {NoJob} /\ seen[c] \in Snapshots
      /\ StoreInv /\ StatusOK
  BY <1>1 DEF JobsInv, ProcTypeOK
<1> QED BY <1>1, <1>2 DEF AboutOK, CLabels, Ended, Snapshots

\* A request is accepted, or there was nothing left to stop.
LEMMA CancelRequestKeeps ==
    ASSUME JobsInv, NEW c \in Cancelers, CancelRequest(c)
    PROVE  JobsInv'
<1>1. pc[c] = "c_request" /\ LocalsStay /\ lock' = lock /\ target' = target /\ Goto(c, "c_requested")
  BY KeepStays DEF CancelRequest, Keep, localVars
<1>2. c \in Pids /\ target[c] \in Jobs /\ StoreInv /\ StatusOK
  BY <1>1, CancelAbout DEF CLabels
<1>3. Onto(c, "c_requested") /\ LockKept(c, "c_requested")
  BY <1>1 DEF Onto, LockKept, InSection
<1>4. Settles /\ (target[c] \in Modern => ~Open(target[c])')
  <2>1. PICK j \in Jobs : j = target[c]
    BY <1>2
  <2>2. CASE RequestIndexJobCancel(j)
    <3>1. Settles /\ ~Open(j)'
      BY <1>3, <2>2, OntoAlive, RequestSettles
    <3> QED BY <1>1, <2>1, <3>1 DEF Open, IsActive
  <2>3. CASE ~CancelQueuedAllowed(j) /\ ~CancelRunningAllowed(j) /\ UNCHANGED dbVars
    <3>1. Settles
      BY <1>3, <2>3, OntoAlive, NothingSettles
    <3>2. j \in Modern => ~Open(j)
      BY <1>2, <2>3, OpenIsFenced DEF CancelQueuedAllowed, CancelRunningAllowed
    <3> QED BY <1>1, <2>1, <2>3, <3>1, <3>2, ClosedStays
  <2> QED BY <2>1, <2>2, <2>3 DEF CancelRequest
<1> QED BY <1>1, <1>3, <1>4, CancelOn DEF CLabels, Labels, Closing

\* The trailing read opens nothing again.
LEMMA CancelRequestedKeeps ==
    ASSUME JobsInv, NEW c \in Cancelers, CancelRequested(c)
    PROVE  JobsInv'
<1>1. pc[c] = "c_requested" /\ LocalsStay /\ lock' = lock /\ target' = target
  BY KeepStays DEF CancelRequested, Keep, localVars
<1>2. c \in Pids /\ target[c] \in Jobs /\ AboutOK(c)
  BY <1>1, CancelAbout DEF CLabels
<1>3. PICK l \in {"c_kill", "done"} : Onto(c, l)
  BY DEF CancelRequested, Onto
<1>4. Settles
  BY Zenon, <1>2, <1>3, OntoAlive, GetSettles DEF CancelRequested
<1>5. target[c] \in Modern => ~Open(target[c])'
  BY <1>1, <1>2, <1>4, ClosedSettles DEF AboutOK, Closing
<1>6. LockKept(c, l)
  BY <1>1, <1>3 DEF LockKept, InSection
<1> QED BY <1>1, <1>3, <1>4, <1>5, <1>6, CancelOn DEF CLabels, Labels, Ended

\* Only a job with a reservation is confirmed canceled.
LEMMA CancelMarkKeeps ==
    ASSUME JobsInv, NEW c \in Cancelers, CancelMark(c)
    PROVE  JobsInv'
<1>1. pc[c] = "c_mark" /\ LocalsStay /\ lock' = lock /\ target' = target
  BY KeepStays DEF CancelMark, Keep, localVars
<1>2. c \in Pids /\ target[c] \in Jobs /\ AboutOK(c) /\ seen[c].fence \in Nat /\ StoreInv
  BY Zenon, <1>1, CancelAbout DEF CLabels
<1>3. CASE MarkIndexJobCanceled(target[c], seen[c].fence) /\ Goto(c, "c_unlock")
  <2>1. Onto(c, "c_unlock") /\ LockKept(c, "c_unlock")
    BY <1>1, <1>3 DEF Onto, LockKept, InSection
  <2>2. Settles
    BY Zenon, <1>2, <1>3, <2>1, OntoAlive, CanceledSettles
  <2>3. target[c] \in Modern
    BY <1>2, <1>3 DEF MarkIndexJobCanceled, CancelAllowed, Fenced, StoreInv, SingleReservation
  <2>4. ~Open(target[c])'
    BY Zenon, <1>1, <1>2, <2>2, <2>3, ClosedSettles DEF AboutOK, Closing
  <2> QED BY Zenon, <1>1, <2>1, <2>2, <2>3, <2>4, CancelOn DEF CLabels, Labels, Ended
<1>4. CASE Exit(c, "done") /\ UNCHANGED dbVars
  <2>1. Onto(c, "done") /\ LockKept(c, "done")
    BY <1>1, <1>4 DEF Onto, LockKept, InSection
  <2>2. Settles
    BY <1>4, <2>1, OntoAlive, NothingSettles
  <2> QED BY <1>1, <2>1, <2>2, CancelOn DEF CLabels, Labels, Ended, Closing
<1> QED BY <1>3, <1>4 DEF CancelMark

\* The lock file that is removed is a dead process's.
LEMMA CancelUnlockKeeps ==
    ASSUME JobsInv, NEW c \in Cancelers, CancelUnlock(c)
    PROVE  JobsInv'
<1>1. /\ pc[c] = "c_unlock" /\ Exit(c, "done") /\ UNCHANGED <<dbVars, localVars, crashes>>
      /\ lock' = lock \/ (lock' = NoPid /\ lock \notin alive)
  BY DEF CancelUnlock
<1>2. Onto(c, "done")
  BY <1>1 DEF Onto
<1>3. Settles
  BY Zenon, <1>1, <1>2, OntoAlive, NothingSettles
<1>4. LocalsStay
  BY <1>1 DEF LocalsStay, localVars, JobsInv, ProcTypeOK
<1>5. LockKept(c, "done")
  <2>1. CASE lock' = lock
    BY <2>1 DEF LockKept, InSection
  <2>2. CASE lock \notin alive
    <3>1. \A q \in alive : pc[q] \notin InSection
      BY <2>2 DEF JobsInv, LockOK
    <3>2. \A q \in alive' : pc'[q] \notin InSection
      BY <1>1, <3>1 DEF Exit, JobsInv, StoreInv, TypeOK, ProcTypeOK
    <3> QED BY <3>2 DEF LockKept, LockOK
  <2> QED BY <1>1, <2>1, <2>2
<1> QED BY <1>1, <1>2, <1>3, <1>4, <1>5, CancelOn DEF CLabels, Labels, Ended, Closing

\* A canceler takes the job it was named.
LEMMA CancelLook ==
    ASSUME JobsInv, NEW c \in Cancelers, NEW j \in Created, NEW l \in {"c_reread", "c_request", "done"},
           pc[c] \in {"c_get", "c_reread"}, Onto(c, l), GetIndexJob(j),
           target' = [target EXCEPT ![c] = j],
           \/ seen' = [seen EXCEPT ![c] = Snapshot(j)']
           \/ seen' = seen /\ target[c] \in {NoJob, j},
           UNCHANGED <<created, child, reports, lock, crashes>>
    PROVE  JobsInv'
<1>1. /\ c \in Pids /\ c \notin Starters /\ c \notin Workers /\ l \in Labels
      /\ j \in Jobs /\ job[j].status # "none" /\ j # NoJob
  BY RolesAssumption, JobsAssumption DEF Created, Labels, NoJob
<1>2. Settles
  BY <1>1, OntoAlive, GetSettles
<1>3. Snapshot(j)' \in Snapshots /\ Snapshot(j)'.pid = job'[j].pid
  BY <1>1, <1>2, SnapshotIsTrue DEF Settles
<1>4. /\ pc \in [Pids -> Labels] /\ seen \in [Pids -> Snapshots]
      /\ target \in [Pids -> Jobs \cup {NoJob}]
      /\ pc' = [pc EXCEPT ![c] = l] /\ alive' \subseteq alive
  BY DEF JobsInv, ProcTypeOK, Onto, Goto, Exit
<1>5. ProcTypeOK'
  BY <1>1, <1>3, <1>4 DEF JobsInv, ProcTypeOK
<1>6. Acts(c, l)
  BY <1>1, <1>4, <1>5 DEF Acts, Ended
<1>7. LockOK'
  BY <1>1, <1>6, LockStays DEF InSection
<1>8. Fits(c, l)
  BY <1>1 DEF Fits, Alone, Paired, CLabels, WLabels, Ended, Responsible
<1>9. pc'[c] = l /\ target'[c] = j
  BY Zenon, <1>1, <1>4
<1>10. AboutOK(c)'
  <2>1. job'[j].status # "none"
    BY <1>1, <1>2 DEF Settles, Moves
  <2> QED BY ZenonT(60), <1>1, <1>9, <2>1 DEF AboutOK, HasRead, HasMade, HasMarked, Closing
<1>11. KnownOK(c)'
  <2>1. target[c] \in Modern /\ seen[c].pid # NoPid => job'[target[c]].pid = seen[c].pid
    BY <1>2, KnownStays
  <2>2. KnownOK(c)
    BY DEF JobsInv
  <2>3. j \in Modern /\ seen'[c].pid # NoPid => job'[j].pid = seen'[c].pid
    <3>1. CASE seen' = [seen EXCEPT ![c] = Snapshot(j)']
      BY ZenonT(60), <1>1, <1>3, <1>4, <3>1
    <3>2. CASE seen' = seen /\ target[c] \in {NoJob, j}
      BY <2>1, <2>2, <3>2 DEF KnownOK
    <3> QED BY <3>1, <3>2
  <2> QED BY <1>1, <1>9, <2>3 DEF KnownOK
<1> QED BY ZenonT(60), <1>1, <1>2, <1>6, <1>7, <1>8, <1>10, <1>11, PlainStep

\* There is no job to cancel.
LEMMA CancelNothing ==
    ASSUME JobsInv, NEW c \in Cancelers, pc[c] \in {"c_get", "c_reread"}, Exit(c, "done"),
           UNCHANGED dbVars, Keep
    PROVE  JobsInv'
<1>1. LocalsStay /\ Onto(c, "done") /\ LockKept(c, "done")
  BY KeepStays DEF Onto, LockKept, InSection
<1>2. Settles
  BY <1>1, OntoAlive, NothingSettles
<1> QED BY <1>1, <1>2, CancelOn DEF CLabels, Labels, Ended, Closing

\* The snapshot of a forced cancellation.
LEMMA CancelGetKeeps ==
    ASSUME JobsInv, NEW c \in Cancelers, CancelGet(c)
    PROVE  JobsInv'
<1>1. pc[c] = "c_get" /\ UNCHANGED <<created, child, reports, lock, crashes>>
  BY DEF CancelGet
<1>2. CASE Exit(c, "done") /\ UNCHANGED <<dbVars, target, seen>>
  BY <1>1, <1>2, CancelNothing DEF Keep, localVars
<1>3. ASSUME NEW j \in Created, target' = [target EXCEPT ![c] = j], GetIndexJob(j),
             seen' = [seen EXCEPT ![c] = Snapshot(j)'],
             Goto(c, "c_reread") \/ Exit(c, "done")
      PROVE  JobsInv'
  <2>1. PICK l \in {"c_reread", "c_request", "done"} : Onto(c, l)
    BY <1>3 DEF Onto
  <2> QED BY Zenon, <1>1, <1>3, <2>1, CancelLook
<1> QED BY <1>2, <1>3 DEF CancelGet

\* The read of RequestIndexJobCancelByID.
LEMMA CancelRereadKeeps ==
    ASSUME JobsInv, NEW c \in Cancelers, CancelReread(c)
    PROVE  JobsInv'
<1>1. pc[c] = "c_reread" /\ UNCHANGED <<seen, created, child, reports, lock, crashes>>
  BY DEF CancelReread
<1>2. CASE Exit(c, "done") /\ UNCHANGED <<dbVars, target>>
  BY <1>1, <1>2, CancelNothing DEF Keep, localVars
<1>3. ASSUME NEW j \in Created, target[c] \in {NoJob, j}, target' = [target EXCEPT ![c] = j],
             GetIndexJob(j), Goto(c, "c_request") \/ Exit(c, "done")
      PROVE  JobsInv'
  <2>1. PICK l \in {"c_reread", "c_request", "done"} : Onto(c, l)
    BY <1>3 DEF Onto
  <2> QED BY Zenon, <1>1, <1>3, <2>1, CancelLook
<1> QED BY <1>2, <1>3 DEF CancelReread

\* A process that dies by itself stays answerable for its job.
LEMMA CrashKeeps ==
    ASSUME JobsInv, NEW p \in Pids, Crash(p)
    PROVE  JobsInv'
<1>1. Onto(p, "crashed") /\ UNCHANGED dbVars /\ lock' = lock /\ "crashed" \in Labels
  BY DEF Crash, Onto, Labels
<1>2. Settles
  BY <1>1, OntoAlive, NothingSettles
<1>3. LocalsStay
  BY BoundsAssumption DEF Crash, LocalsStay, localVars, JobsInv, ProcTypeOK
<1>4. LockKept(p, "crashed")
  BY <1>1 DEF LockKept, InSection
<1>5. Fits(p, "crashed") /\ Knew(p, "crashed")
  BY DEF Fits, Knew, Alone, Paired, SLabels, WLabels, CLabels, Ended, Responsible,
     HasRead, HasMade, HasMarked, Closing
<1> QED BY <1>1, <1>2, <1>3, <1>4, <1>5, Onward
-----------------------------------------------------------------------------
(* The steps that record a process.                                        *)

\* The process of a starter or worker that works on its job is the one that
\* may be recorded.
LEMMA RunningSettles ==
    ASSUME JobsInv, alive' \in SUBSET Pids, NEW j \in Modern, NEW s \in Starters, NEW f \in Nat,
           target[s] = j, pc[s] \notin {"s_attach", "s_spawn"},
           MarkIndexJobRunning(j, WorkerOf(s), f)
    PROVE  Settles /\ job'[j].status = "running"
<1>1. StoreInv /\ StatusOK /\ j \in Jobs /\ WorkerOf(s) \in Pids
  BY RolesAssumption DEF JobsInv, ProcTypeOK, Modern, WorkerOf
<1>2. StoreInv'
  BY <1>1, MarkIndexJobRunningKeeps
<1>3. job \in [Jobs -> JobRow] /\ owner \in Ownership
  BY <1>1 DEF StoreInv, TypeOK
<1>4. /\ job[j].status \in {"queued", "running"} /\ ~job[j].cancel
      /\ job'[j].status = "running" /\ job'[j].cancel = job[j].cancel /\ job'[j].pid = WorkerOf(s)
      /\ \A k \in Jobs : k # j => job'[k] = job[k]
      /\ owner'.fence = owner.fence
  BY <1>1, <1>3 DEF MarkIndexJobRunning, RunningAllowed, JobRow, Ownership
<1>5. StatusOK'
  BY <1>1, <1>4 DEF StatusOK, Open, IsActive, Modern
<1>6. Moves
  BY <1>4 DEF Moves, Open, IsActive, ActiveStatus
<1>7. PidsKept /\ NoneAppear
  BY <1>4 DEF PidsKept, NoneAppear, Modern
<1> QED BY Zenon, <1>2, <1>4, <1>5, <1>6, <1>7 DEF Settles

\* A worker, or a starter that works itself, is the one that works on its job.
LEMMA WorksItself ==
    ASSUME JobsInv, NEW w \in Workers \cup Starters, pc[w] \in WLabels
    PROVE  \E s \in Starters : /\ target[s] = target[w] /\ WorkerOf(s) = w
                               /\ pc[s] \notin {"s_attach", "s_spawn"}
<1>1. CASE w \in Starters
  <2>1. child[w] = NoPid
    BY <1>1 DEF JobsInv, ChildrenOK, SpawnOK
  <2> QED BY <1>1, <2>1 DEF WorkerOf, WLabels
<1>2. CASE w \in Workers
  <2>1. target[w] # NoJob
    BY AboutModern, JobsAssumption DEF WLabels, Ended, NoJob
  <2>2. PICK s \in Starters : child[s] = w
    BY <1>2, <2>1 DEF JobsInv, ChildrenOK
  <2>3. w # NoPid /\ SpawnOK(s)
    BY <1>2, PidsAssumption, RolesAssumption DEF JobsInv, ChildrenOK
  <2> QED BY <2>2, <2>3 DEF SpawnOK, WorkerOf
<1> QED BY <1>1, <1>2

\* The worker records itself, or the job is no longer open.
LEMMA WorkMarkKeeps ==
    ASSUME JobsInv, NEW w \in Workers \cup Starters, WorkMark(w)
    PROVE  JobsInv'
<1>1. LocalsStay /\ lock' = lock /\ pc[w] = "w_mark"
  BY KeepStays DEF WorkMark
<1>2. /\ w \in Pids /\ w \notin Cancelers /\ target[w] \in Modern /\ AboutOK(w)
      /\ seen[w].fence \in Nat /\ StoreInv /\ StatusOK
  BY <1>1, AboutModern DEF Ended, JobsInv
<1>3. \A l \in {"w_check", "w_end"} : LockKept(w, l)
  BY <1>1 DEF LockKept, InSection
<1>4. CASE MarkIndexJobRunning(target[w], w, seen[w].fence) /\ Goto(w, "w_check")
  <2>1. Onto(w, "w_check") /\ "w_check" \in Labels
    BY <1>4 DEF Onto, Labels
  <2>2. PICK s \in Starters : /\ target[s] = target[w] /\ WorkerOf(s) = w
                              /\ pc[s] \notin {"s_attach", "s_spawn"}
    BY <1>1, WorksItself DEF WLabels
  <2>3. Settles /\ job'[target[w]].status = "running"
    BY Zenon, <1>2, <1>4, <2>1, <2>2, OntoAlive, RunningSettles
  <2>4. Fits(w, "w_check")
    BY <1>1, <1>2 DEF Fits, Alone, Paired, WLabels, Responsible
  <2>5. Knew(w, "w_check")
    BY Zenon, <1>1, <1>2, <2>3 DEF Knew, HasRead, HasMade, HasMarked, Closing, Ended
  <2> QED BY Zenon, <1>1, <1>2, <1>3, <2>1, <2>3, <2>4, <2>5, Onward
<1>5. CASE ~RunningAllowed(target[w], seen[w].fence) /\ Refused(w, "w_end")
  <2>1. Goto(w, "w_end") /\ UNCHANGED dbVars
    BY <1>5 DEF Refused
  <2>2. ~Open(target[w])
    BY <1>1, <1>2, <1>5, OpenIsFenced DEF AboutOK, HasRead, RunningAllowed, Open
  <2> QED BY <1>1, <1>3, <2>1, <2>2, WorkLocal
          DEF WLabels, Labels, HasRead, HasMarked, Closing
<1> QED BY <1>4, <1>5 DEF WorkMark

\* The parent records the child, as the child itself does.
LEMMA StartRunningKeeps ==
    ASSUME JobsInv, NEW s \in Starters, StartRunning(s)
    PROVE  JobsInv'
<1>1. LocalsStay /\ lock' = lock /\ pc[s] = "s_running" /\ Keep
  BY KeepStays DEF StartRunning
<1>2. s \in Pids /\ s \notin Cancelers /\ s \notin Workers /\ target[s] \in Modern /\ seen[s].fence \in Nat
  BY <1>1, AboutModern, RolesAssumption DEF Ended
<1>3. CASE MarkIndexJobRunning(target[s], child[s], seen[s].fence) /\ Exit(s, "done")
  <2>1. Onto(s, "done") /\ "done" \in Labels /\ LockKept(s, "done")
    BY <1>1, <1>3 DEF Onto, Labels, LockKept, InSection
  <2>2. WorkerOf(s) = child[s]
    BY <1>1 DEF JobsInv, ChildrenOK, SpawnOK, WorkerOf
  <2>3. Settles
    BY ZenonT(60), <1>1, <1>2, <1>3, <2>1, <2>2, OntoAlive, RunningSettles
  <2>4. Fits(s, "done") /\ Knew(s, "done")
    BY <1>1, <1>2 DEF Fits, Knew, Alone, Paired, SLabels, WLabels, Responsible,
       HasRead, HasMade, HasMarked, Closing, Ended
  <2> QED BY <1>1, <1>2, <2>1, <2>3, <2>4, Onward
<1>4. CASE Refused(s, "s_fail")
  BY <1>1, <1>4, StartLocal DEF Refused
<1> QED BY <1>3, <1>4 DEF StartRunning
-----------------------------------------------------------------------------
(* The steps that concern two processes or a new job.                      *)

\* The creation of a job finds no other of the ownership era active.
LEMMA CreateMoves ==
    ASSUME StoreInv, StatusOK, alive' \in SUBSET Pids, NEW j \in Modern, NEW m \in Modes,
           CreateIndexJob(j, m)
    PROVE  /\ StoreInv' /\ StatusOK' /\ Moves
           /\ job[j].status = "none" /\ job'[j].status = "queued" /\ job'[j].pid = NoPid
           /\ \A k \in Modern : k # j => job'[k] = job[k] /\ ~IsActive(k)'
<1>1. StoreInv'
  BY CreateIndexJobKeeps
<1>2. job \in [Jobs -> JobRow] /\ j \in Jobs /\ Modern \subseteq Jobs
  BY DEF StoreInv, TypeOK, Modern
<1>3. owner'.job = j /\ job[j].status = "none"
  BY DEF CreateIndexJob
<1>4. \A k \in Modern : k # j => ~IsActive(k)'
  BY <1>1, <1>3 DEF StoreInv, SingleReservation, Owned
<1>5. job'[j].status = "queued" /\ job'[j].pid = NoPid
  BY Zenon, <1>2 DEF CreateIndexJob, NoRow
<1>6. \A k \in Jobs : k # j => job'[k] = job[k] \/ (Newest(k) /\ job'[k] = [job[k] EXCEPT !.status = "failed"])
  BY <1>2 DEF CreateIndexJob
<1>7. \A k \in Modern : ~IsActive(k)
  <2>1. owner.released
    <3> SUFFICES ASSUME ~owner.released PROVE FALSE
      BY DEF StoreInv, TypeOK, Ownership
    <3>1. Owned(owner.job) /\ IsActive(owner.job) /\ owner.job \in Jobs
      BY DEF StoreInv, SingleReservation, Owned, Modern
    <3>2. \A l \in Jobs : IsActive(l) => l <= owner.job
      BY DEF StoreInv, OwnerIsNewest, Created, IsActive, ActiveStatus
    <3> QED BY <3>1, <3>2 DEF CreateIndexJob, ReservationBlocked, Newest
  <2> QED BY <2>1 DEF StoreInv, SingleReservation, Owned
<1>8. \A k \in Modern : k # j => job'[k] = job[k]
  BY Zenon, <1>2, <1>6, <1>7 DEF Newest
<1>9. StatusOK'
  BY <1>4, <1>5 DEF StatusOK, Open
<1>10. Moves
  <2>1. \A k \in Jobs : job[k].status # "none" => job'[k].status # "none"
    BY Zenon, <1>2, <1>3, <1>6 DEF JobRow
  <2> QED BY <1>3, <1>4, <2>1 DEF Moves, Open
<1> QED BY ZenonT(60), <1>1, <1>3, <1>4, <1>5, <1>8, <1>9, <1>10

\* A new job has its starter, and nobody else is about it.
LEMMA StartCreateKeeps ==
    ASSUME JobsInv, NEW s \in Starters, StartCreate(s)
    PROVE  JobsInv'
<1>0. /\ s \in Pids /\ s \notin Cancelers /\ s \notin Workers /\ pc[s] = "s_create"
      /\ AboutOK(s) /\ StoreInv /\ StatusOK /\ ProcTypeOK
  BY RolesAssumption DEF StartCreate, JobsInv
<1>1. CASE Exit(s, "done") /\ UNCHANGED <<dbVars, target>>
  <2>1. Keep
    BY <1>1 DEF StartCreate, Keep, localVars
  <2>2. Onto(s, "done") /\ "done" \in Labels /\ LocalsStay /\ LockKept(s, "done")
    BY <1>1, <2>1, KeepStays DEF Onto, Labels, LockKept, InSection
  <2>3. Settles
    BY <1>1, <2>2, OntoAlive, NothingSettles
  <2>4. Fits(s, "done") /\ Knew(s, "done")
    BY <1>0 DEF Fits, Knew, Alone, Paired, SLabels, WLabels, Responsible,
       HasRead, HasMade, HasMarked, Closing, Ended
  <2> QED BY <1>0, <2>2, <2>3, <2>4, Onward
<1>2. ASSUME NEW j \in Modern, NEW m \in JobModes, CreateIndexJob(j, m),
             target' = [target EXCEPT ![s] = j], Goto(s, "s_attach")
      PROVE  JobsInv'
  <2>t. /\ pc \in [Pids -> Labels] /\ target \in [Pids -> Jobs \cup {NoJob}]
        /\ child \in [Starters -> Workers \cup {NoPid}] /\ alive \in SUBSET Pids
        /\ Modern \subseteq Jobs /\ NoJob \notin Jobs /\ Workers \subseteq Pids /\ Cancelers \subseteq Pids
    BY Zenon, JobsAssumption, RolesAssumption DEF JobsInv, ProcTypeOK, StoreInv, TypeOK, Modern, NoJob
  <2>n. /\ pc'[s] = "s_attach" /\ target'[s] = j /\ target[s] = NoJob
        /\ \A q \in Pids : q # s => pc'[q] = pc[q] /\ target'[q] = target[q]
        /\ UNCHANGED <<seen, created, child, reports, lock, crashes, alive>>
    BY Zenon, <1>0, <1>2, <2>t DEF StartCreate, Goto, AboutOK
  <2>m. /\ StoreInv' /\ StatusOK' /\ Moves
        /\ job[j].status = "none" /\ job'[j].status = "queued" /\ job'[j].pid = NoPid
        /\ \A k \in Modern : k # j => job'[k] = job[k] /\ ~IsActive(k)'
    BY Zenon, <1>0, <1>2, <2>n, <2>t, CreateMoves, JobModesAssumption
  <2>1. ProcTypeOK'
    BY Zenon, <1>0, <1>2, <2>n, <2>t DEF ProcTypeOK, Goto, Labels
  <2>2. RolesOK'
    BY ZenonT(60), <1>0, <2>n, <2>t, RolesAssumption DEF JobsInv, RolesOK, SLabels
  <2>3. LockOK'
    BY <2>n, <2>t DEF JobsInv, LockOK, InSection
  <2>4. \A q \in Pids : AboutOK(q)'
    <3>1. ASSUME NEW q \in Pids, q # s PROVE AboutOK(q)'
      <4>1. Still(q) /\ AboutOK(q)
        BY Zenon, <2>n, <3>1 DEF Still, JobsInv
      <4> QED BY Zenon, <1>0, <2>m, <4>1, Bystander
    <3>2. AboutOK(s)'
      BY ZenonT(60), <2>m, <2>n, <2>t DEF AboutOK, HasRead, HasMade, HasMarked, Closing
    <3> QED BY <3>1, <3>2
  <2>5. \A q \in Pids : target[q] # j
    BY <2>m, <2>t DEF JobsInv, AboutOK
  <2>6. OneStarter'
    <3>1. OneStarter
      BY Zenon DEF JobsInv
    <3>2. \A t \in Starters : t # s => target'[t] = target[t] /\ target[t] # j
      BY Zenon, <2>n, <2>5, RolesAssumption
    <3>3. \A s1, t \in Starters : target'[s1] = target'[t] /\ target'[s1] # NoJob => s1 = t
      BY <2>n, <3>1, <3>2 DEF OneStarter
    <3>4. \A k \in Modern : job'[k].status # "none" => \E t \in Starters : target'[t] = k
      <4> SUFFICES ASSUME NEW k \in Modern, job'[k].status # "none"
                   PROVE  \E t \in Starters : target'[t] = k
        OBVIOUS
      <4>1. CASE k = j
        BY <2>n, <4>1
      <4>2. CASE k # j
        <5>1. PICK t \in Starters : target[t] = k
          BY Zenon, <2>m, <3>1, <4>2 DEF OneStarter
        <5>2. t # s
          BY ZenonT(60), <2>n, <2>t, <5>1
        <5> QED BY <3>2, <5>1, <5>2
      <4> QED BY <4>1, <4>2
    <3> QED BY <3>3, <3>4 DEF OneStarter
  <2>7. ChildrenOK'
    <3>1. ASSUME NEW t \in Starters PROVE SpawnOK(t)'
      <4>1. SpawnOK(t) /\ t \in Pids
        BY Zenon, RolesAssumption DEF JobsInv, ChildrenOK
      <4>2. CASE t = s
        BY Zenon, <1>0, <2>n, <4>1, <4>2 DEF SpawnOK
      <4>3. CASE t # s
        <5>1. child[t] # NoPid => child[t] \in Pids /\ child[t] # s
          BY Zenon, <1>0, <2>t
        <5> QED BY Zenon, <2>n, <4>1, <4>3, <5>1 DEF SpawnOK
      <4> QED BY <4>2, <4>3
    <3>2. \A w \in Workers : target'[w] = target[w]
      BY Zenon, <1>0, <2>n, <2>t
    <3> QED BY <2>n, <3>1, <3>2 DEF ChildrenOK, JobsInv
  <2>8. \A t \in Starters : RecordOK(t)'
    <3> SUFFICES ASSUME NEW t \in Starters PROVE RecordOK(t)'
      OBVIOUS
    <3>1. RecordOK(t) /\ AboutOK(t) /\ t \in Pids /\ t \notin Cancelers
      BY RolesAssumption DEF JobsInv
    <3>2. (WorkerOf(t))' = WorkerOf(t)
      BY Zenon, <2>n DEF WorkerOf
    <3>3. CASE t = s
      BY Zenon, <2>m, <2>n, <3>3 DEF RecordOK
    <3>4. CASE t # s
      <4>1. target[t] # NoJob => job'[target[t]] = job[target[t]]
        BY Zenon, <2>5, <2>m, <3>1 DEF AboutOK
      <4>2. pc[t] \in {"s_attach", "s_spawn"} => target[t] # NoJob
        BY Zenon, <3>1 DEF AboutOK, Ended
      <4> QED BY Zenon, <2>n, <3>1, <3>2, <3>4, <4>1, <4>2 DEF RecordOK
    <3> QED BY <3>3, <3>4
  <2>9. \A c \in Cancelers : KnownOK(c)'
    <3> SUFFICES ASSUME NEW c \in Cancelers PROVE KnownOK(c)'
      OBVIOUS
    <3>1. KnownOK(c) /\ c \in Pids /\ c # s
      BY Zenon, <1>0, <2>t DEF JobsInv
    <3>2. target[c] \in Modern => job'[target[c]] = job[target[c]]
      BY Zenon, <2>5, <2>m, <3>1
    <3> QED BY Zenon, <2>n, <3>1, <3>2 DEF KnownOK
  <2>10. CaredFor'
    <3> SUFFICES ASSUME NEW k \in Modern, Open(k)'
                 PROVE  \E q \in Pids : target'[q] = k /\ pc'[q] \in Responsible
      BY DEF CaredFor
    <3>1. k = j
      BY <2>m DEF Open
    <3> QED BY <1>0, <2>n, <3>1 DEF Responsible
  <2> QED BY ZenonT(60), <2>m, <2>1, <2>2, <2>3, <2>4, <2>6, <2>7, <2>8, <2>9, <2>10 DEF JobsInv
<1> QED BY <1>1, <1>2 DEF StartCreate

\* The worker that is spawned is nobody's yet: no canceler that has waited for
\* the exit of a process has waited for it.
LEMMA StartSpawnKeeps ==
    ASSUME JobsInv, NEW s \in Starters, StartSpawn(s)
    PROVE  JobsInv'
<1>0. /\ pc[s] = "s_spawn" /\ UNCHANGED <<dbVars, seen, created, reports, lock, crashes>>
  BY DEF StartSpawn
<1>1. /\ s \in Pids /\ s \notin Cancelers /\ s \notin Workers /\ target[s] \in Modern
      /\ AboutOK(s) /\ StoreInv /\ StatusOK /\ ProcTypeOK
  BY <1>0, AboutModern, RolesAssumption DEF Ended, JobsInv
<1>2. CASE Goto(s, "s_fail") /\ UNCHANGED <<target, child>>
  BY <1>0, <1>2, StartLocal DEF Keep, localVars
<1>3. ASSUME NEW w \in Workers, pc[w] = "unborn",
             pc' = [pc EXCEPT ![s] = "s_get", ![w] = "w_get"], alive' = alive \cup {w},
             target' = [target EXCEPT ![w] = target[s]], child' = [child EXCEPT ![s] = w]
      PROVE  JobsInv'
  <2>t. /\ pc \in [Pids -> Labels] /\ target \in [Pids -> Jobs \cup {NoJob}]
        /\ child \in [Starters -> Workers \cup {NoPid}] /\ alive \in SUBSET Pids
        /\ Modern \subseteq Jobs /\ NoJob \notin Jobs /\ NoPid \notin Pids
        /\ Starters \subseteq Pids /\ Workers \subseteq Pids /\ Cancelers \subseteq Pids
        /\ w # s /\ w \notin Starters /\ w \notin Cancelers
    BY ZenonT(60), <1>1, JobsAssumption, PidsAssumption, RolesAssumption
       DEF JobsInv, ProcTypeOK, StoreInv, TypeOK, Modern, NoJob
  <2>n. /\ pc'[s] = "s_get" /\ pc'[w] = "w_get" /\ \A q \in Pids : q \notin {s, w} => pc'[q] = pc[q]
        /\ target'[w] = target[s] /\ \A q \in Pids : q # w => target'[q] = target[q]
        /\ child'[s] = w /\ \A t \in Starters : t # s => child'[t] = child[t]
        /\ UNCHANGED <<seen, created, reports, lock, crashes>> /\ job' = job /\ owner' = owner
    BY <1>0, <1>1, <1>3, <2>t DEF dbVars
  <2>m. Settles
    <3>1. alive' \in SUBSET Pids
      BY Zenon, <1>3, <2>t
    <3> QED BY <1>0, <1>1, <3>1, NothingSettles
  <2>k. child[s] = NoPid /\ target[w] = NoJob /\ \A t \in Starters : child[t] # w
    <3>1. SpawnOK(s) /\ AboutOK(w) /\ \A t \in Starters : SpawnOK(t)
      BY <2>t DEF JobsInv, ChildrenOK
    <3> QED BY Zenon, <1>0, <1>3, <2>t, <3>1 DEF SpawnOK, AboutOK
  <2>1. ProcTypeOK'
    BY Zenon, <1>0, <1>1, <1>3, <2>t DEF ProcTypeOK, Labels
  <2>2. RolesOK'
    BY Zenon, <1>1, <2>n, <2>t DEF JobsInv, RolesOK, SLabels, WLabels
  <2>3. LockOK'
    BY <1>3, <2>n, <2>t DEF JobsInv, LockOK, InSection
  <2>4. \A q \in Pids : AboutOK(q)'
    <3>1. ASSUME NEW q \in Pids, q \notin {s, w} PROVE AboutOK(q)'
      <4>1. Still(q) /\ AboutOK(q)
        BY Zenon, <2>n, <3>1 DEF Still, JobsInv
      <4> QED BY Zenon, <1>1, <2>m, <4>1, Bystander DEF Settles
    <3>2. target'[s] = target[s] /\ target[s] # NoJob /\ job[target[s]].status # "none"
      BY Zenon, <1>1, <2>n, <2>t DEF AboutOK
    <3>3. AboutOK(s)'
      BY Zenon, <1>0, <1>1, <2>n, <3>2 DEF AboutOK, HasRead, HasMade, HasMarked, Closing, IsActive
    <3>4. AboutOK(w)'
      BY ZenonT(60), <1>1, <2>n, <2>t, <3>2 DEF AboutOK, HasRead, HasMade, HasMarked, Closing
    <3> QED BY <3>1, <3>3, <3>4
  <2>5. OneStarter'
    <3>1. \A t \in Starters : target'[t] = target[t]
      BY Zenon, <2>n, <2>t
    <3>2. OneStarter /\ job' = job
      BY ZenonT(60), <2>n DEF JobsInv
    <3> QED BY <3>1, <3>2 DEF OneStarter
  <2>6. ChildrenOK'
    <3>1. ASSUME NEW t \in Starters PROVE SpawnOK(t)'
      <4>1. SpawnOK(t) /\ t \in Pids
        BY Zenon, <2>t DEF JobsInv, ChildrenOK
      <4>2. CASE t = s
        BY Zenon, <2>n, <2>t, <4>2 DEF SpawnOK, WLabels
      <4>3. CASE t # s
        <5>1. child[t] # NoPid => child[t] \in Pids /\ child[t] \notin {s, w}
          BY <1>1, <2>t, <2>k
        <5>2. t # w
          BY <2>t
        <5> QED BY Zenon, <2>n, <4>1, <4>3, <5>1, <5>2 DEF SpawnOK
      <4> QED BY Zenon, <4>2, <4>3
    <3>2. ASSUME NEW v \in Workers, target'[v] # NoJob PROVE \E t \in Starters : child'[t] = v
      <4>1. CASE v = w
        BY Zenon, <2>n, <4>1
      <4>2. CASE v # w
        <5>1. PICK t \in Starters : child[t] = v
          BY Zenon, <2>n, <2>t, <3>2, <4>2 DEF JobsInv, ChildrenOK
        <5>2. t # s
          BY <2>k, <2>t, <5>1
        <5> QED BY Zenon, <2>n, <5>1, <5>2
      <4> QED BY <4>1, <4>2
    <3> QED BY <3>1, <3>2 DEF ChildrenOK
  <2>7. \A t \in Starters : RecordOK(t)'
    <3> SUFFICES ASSUME NEW t \in Starters PROVE RecordOK(t)'
      BY Zenon
    <3>1. RecordOK(t) /\ t \in Pids /\ t # w /\ target'[t] = target[t]
      BY Zenon, <2>n, <2>t DEF JobsInv
    <3>2. CASE t = s
      BY Zenon, <1>0, <2>n, <3>1, <3>2 DEF RecordOK
    <3>3. CASE t # s
      <4>1. (WorkerOf(t))' = WorkerOf(t) /\ pc'[t] = pc[t]
        BY Zenon, <2>n, <3>1, <3>3 DEF WorkerOf
      <4> QED BY Zenon, <2>n, <3>1, <4>1 DEF RecordOK
    <3> QED BY <3>2, <3>3
  <2>8. \A c \in Cancelers : KnownOK(c)'
    <3> SUFFICES ASSUME NEW c \in Cancelers PROVE KnownOK(c)'
      OBVIOUS
    <3>1. KnownOK(c) /\ AboutOK(c) /\ c \in Pids /\ c \notin {s, w}
      BY Zenon, <1>1, <2>t DEF JobsInv
    <3>2. target[c] \in Modern => seen[c].pid # w
      <4> SUFFICES ASSUME target[c] \in Modern, seen[c].pid = w PROVE FALSE
        BY Zenon
      <4>1. job[target[c]].pid = w /\ job[target[c]].status # "none"
        BY Zenon, <2>t, <3>1 DEF KnownOK, AboutOK
      <4>2. PICK t \in Starters : target[t] = target[c]
        BY Zenon, <4>1 DEF JobsInv, OneStarter
      <4>3. w \in {NoPid, WorkerOf(t)}
        BY Zenon, <2>t, <4>1, <4>2 DEF JobsInv, RecordOK
      <4> QED BY Zenon, <2>k, <2>t, <4>3 DEF WorkerOf
    <3> QED BY Zenon, <1>3, <2>n, <3>1, <3>2 DEF KnownOK
  <2>9. Legacy = {} => CaredFor'
    <3> SUFFICES ASSUME Legacy = {}, NEW j \in Modern, Open(j)'
                 PROVE  \E q \in Pids : target'[q] = j /\ pc'[q] \in Responsible
      BY DEF CaredFor
    <3>1. Open(j)
      BY <2>n DEF Open, IsActive
    <3>2. PICK q \in Pids : target[q] = j /\ pc[q] \in Responsible
      BY Zenon, <3>1 DEF JobsInv, CaredFor
    <3>3. CASE q = s
      BY Zenon, <2>n, <2>t, <3>2, <3>3 DEF Responsible
    <3>4. CASE q # s
      <4>1. q # w
        BY <2>k, <2>t, <3>2
      <4> QED BY Zenon, <2>n, <3>2, <3>4, <4>1
    <3> QED BY <3>3, <3>4
  <2> QED BY ZenonT(60), <2>m, <2>1, <2>2, <2>3, <2>4, <2>5, <2>6, <2>7, <2>8, <2>9 DEF JobsInv, Settles
<1> QED BY <1>2, <1>3 DEF StartSpawn

\* The process a forced cancellation kills is about the job that is canceled.
LEMMA VictimIsAbout ==
    ASSUME JobsInv, NEW c \in Cancelers, target[c] \in Modern, seen[c].pid # NoPid
    PROVE  target[seen[c].pid] = target[c]
<1>1. KnownOK(c) /\ AboutOK(c) /\ c \in Pids /\ target[c] # NoJob
  BY ZenonT(60), RolesAssumption, JobsAssumption DEF JobsInv, Modern, NoJob
<1>2. job[target[c]].pid = seen[c].pid /\ job[target[c]].status # "none"
  BY <1>1 DEF KnownOK, AboutOK
<1>3. PICK s \in Starters : target[s] = target[c]
  BY <1>2 DEF JobsInv, OneStarter
<1>4. seen[c].pid = WorkerOf(s)
  BY <1>1, <1>2, <1>3 DEF JobsInv, RecordOK
<1> QED BY <1>3, <1>4 DEF WorkerOf, JobsInv, ChildrenOK, SpawnOK

\* A kill takes only a process whose job is to be canceled.
LEMMA CancelKillKeeps ==
    ASSUME JobsInv, NEW c \in Cancelers, CancelKill(c)
    PROVE  JobsInv'
<1>0. pc[c] = "c_kill" /\ UNCHANGED dbVars /\ Keep /\ LocalsStay /\ lock' = lock /\ target' = target
  BY KeepStays DEF CancelKill, Keep, localVars
<1>1. c \in Pids /\ AboutOK(c) /\ KnownOK(c) /\ StoreInv /\ StatusOK
  BY <1>0, CancelAbout DEF CLabels
<1>2. target[c] \in Modern => ~Open(target[c])
  BY <1>0, <1>1 DEF AboutOK, Closing
<1>3. target[c] \in Modern => ~Open(target[c])'
  BY Zenon, <1>0, <1>2, ClosedStays
<1>4. CASE seen[c].pid \notin alive /\ Goto(c, "c_mark")
  <2>1. Onto(c, "c_mark") /\ LockKept(c, "c_mark")
    BY <1>0, <1>4 DEF Onto, LockKept, InSection
  <2>2. Settles
    BY ZenonT(60), <1>0, <2>1, OntoAlive, NothingSettles
  <2> QED BY ZenonT(60), <1>0, <1>3, <1>4, <2>1, <2>2, CancelOn DEF CLabels, Labels
<1>5. CASE Exit(c, "timeout")
  <2>1. Onto(c, "timeout") /\ LockKept(c, "timeout")
    BY <1>0, <1>5 DEF Onto, LockKept, InSection
  <2>2. Settles
    BY Zenon, <1>0, <2>1, OntoAlive, NothingSettles
  <2> QED BY <1>0, <2>1, <2>2, CancelOn DEF CLabels, Labels, Ended, Closing
<1>6. ASSUME NEW p, p = seen[c].pid, p \in alive,
             pc' = [pc EXCEPT ![c] = "c_mark", ![p] = "killed"], alive' = alive \ {p}
      PROVE  JobsInv'
  <2>t. /\ pc \in [Pids -> Labels] /\ target \in [Pids -> Jobs \cup {NoJob}]
        /\ alive \in SUBSET Pids /\ p \in Pids /\ ProcTypeOK
        /\ Starters \subseteq Pids /\ Workers \subseteq Pids /\ Cancelers \subseteq Pids
        /\ c \notin Starters /\ c \notin Workers /\ NoPid \notin Pids
        /\ child \in [Starters -> Workers \cup {NoPid}]
    BY ZenonT(60), <1>1, <1>6, RolesAssumption, PidsAssumption DEF JobsInv, ProcTypeOK, StoreInv, TypeOK
  <2>n. /\ pc'[p] = "killed" /\ (c # p => pc'[c] = "c_mark")
        /\ \A q \in Pids : q \notin {c, p} => pc'[q] = pc[q]
        /\ UNCHANGED <<target, seen, created, child, reports, lock, crashes>>
        /\ job' = job /\ owner' = owner
    BY <1>0, <1>1, <1>6, <2>t DEF dbVars, Keep, localVars
  <2>m. Settles
    <3>1. alive' \in SUBSET Pids
      BY Zenon, <1>6, <2>t
    <3> QED BY Zenon, <1>0, <1>1, <3>1, NothingSettles
  <2>1. ProcTypeOK'
    BY Zenon, <1>6, <2>n, <2>t DEF ProcTypeOK, Labels
  <2>2. RolesOK'
    BY ZenonT(60), <2>n, <2>t DEF JobsInv, RolesOK, CLabels, Ended
  <2>3. LockOK'
    BY <1>6, <2>n, <2>t DEF JobsInv, LockOK, InSection
  <2>4. \A q \in Pids : AboutOK(q)'
    <3> SUFFICES ASSUME NEW q \in Pids PROVE AboutOK(q)'
      OBVIOUS
    <3>1. AboutOK(q)
      BY DEF JobsInv
    <3>2. CASE q \notin {c, p}
      <4>1. Still(q)
        BY Zenon, <2>n, <3>2 DEF Still
      <4> QED BY Zenon, <2>m, <2>t, <3>1, <4>1, Bystander DEF Settles
    <3>3. CASE q = p
      BY Zenon, <2>n, <3>1, <3>3 DEF AboutOK, HasRead, HasMade, HasMarked, Closing, Ended
    <3>4. CASE q = c /\ c # p
      BY Zenon, <1>0, <1>3, <2>n, <3>1, <3>4 DEF AboutOK, HasRead, HasMade, HasMarked, Closing, Ended
    <3> QED BY Zenon, <3>2, <3>3, <3>4
  <2>5. OneStarter'
    BY Zenon, <2>n DEF JobsInv, OneStarter
  <2>6. ChildrenOK'
    <3>1. ASSUME NEW t \in Starters PROVE SpawnOK(t)'
      <4>1. SpawnOK(t) /\ t \in Pids /\ t # c
        BY <2>t DEF JobsInv, ChildrenOK
      <4>2. pc'[t] = pc[t] \/ pc'[t] = "killed"
        BY Zenon, <2>n, <4>1
      <4>3. child[t] # NoPid => pc'[child[t]] # "unborn"
        <5>1. child[t] # NoPid => child[t] \in Pids /\ child[t] # c
          BY <2>t
        <5> QED BY Zenon, <2>n, <4>1, <5>1 DEF SpawnOK
      <4> QED BY Zenon, <2>n, <4>1, <4>2, <4>3 DEF SpawnOK, WLabels
    <3> QED BY Zenon, <2>n, <3>1 DEF JobsInv, ChildrenOK
  <2>7. \A t \in Starters : RecordOK(t)'
    <3> SUFFICES ASSUME NEW t \in Starters PROVE RecordOK(t)'
      OBVIOUS
    <3>1. RecordOK(t) /\ t \in Pids /\ t # c
      BY Zenon, <2>t DEF JobsInv
    <3>2. pc'[t] = pc[t] \/ pc'[t] = "killed"
      BY Zenon, <2>n, <3>1
    <3>3. (WorkerOf(t))' = WorkerOf(t)
      BY <2>n DEF WorkerOf
    <3> QED BY Zenon, <2>n, <3>1, <3>2, <3>3 DEF RecordOK
  <2>8. \A d \in Cancelers : KnownOK(d)'
    <3> SUFFICES ASSUME NEW d \in Cancelers PROVE KnownOK(d)'
      OBVIOUS
    <3>1. KnownOK(d) /\ d \in Pids
      BY Zenon, <2>t DEF JobsInv
    <3>2. CASE d = p
      BY Zenon, <2>n, <3>1, <3>2 DEF KnownOK
    <3>3. CASE d = c /\ c # p
      BY Zenon, <1>6, <2>n, <3>1, <3>3 DEF KnownOK
    <3>4. CASE d \notin {c, p}
      BY Zenon, <1>6, <2>n, <3>1, <3>4 DEF KnownOK
    <3> QED BY Zenon, <3>2, <3>3, <3>4
  <2>9. Legacy = {} => CaredFor'
    <3> SUFFICES ASSUME Legacy = {}, NEW j \in Modern, Open(j)'
                 PROVE  \E q \in Pids : target'[q] = j /\ pc'[q] \in Responsible
      BY DEF CaredFor
    <3>1. Open(j)
      BY <2>n DEF Open, IsActive
    <3>2. PICK q \in Pids : target[q] = j /\ pc[q] \in Responsible
      BY Zenon, <3>1 DEF JobsInv, CaredFor
    <3>3. target[c] \in Modern
      BY Zenon, <1>0, <1>1, CancelAbout DEF Modern, CLabels
    <3>4. target[p] = target[c]
      BY Zenon, <1>6, <2>t, <3>3, VictimIsAbout
    <3>5. q \notin {c, p}
      BY Zenon, <1>2, <3>1, <3>2, <3>3, <3>4
    <3> QED BY Zenon, <2>n, <3>2, <3>5
  <2> QED BY ZenonT(60), <2>m, <2>1, <2>2, <2>3, <2>4, <2>5, <2>6, <2>7, <2>8, <2>9 DEF JobsInv, Settles
<1> QED BY <1>4, <1>5, <1>6 DEF CancelKill
-----------------------------------------------------------------------------
(* The theorems.                                                           *)

\* No process is about a job, and no job of the ownership era exists.
LEMMA JobsInitInv == Init => JobsInv
<1> SUFFICES ASSUME Init PROVE JobsInv
  OBVIOUS
<1> USE RolesAssumption, PidsAssumption, BoundsAssumption
<1>1. StoreInv
  BY StoreInitInv DEF Init
<1>2. ProcTypeOK
  BY DEF Init, ProcTypeOK, Labels, Snapshots
<1>3. \A p \in Pids : /\ target[p] = NoJob /\ seen[p].pid = NoPid
                      /\ p \in Starters => pc[p] = "s_create"
                      /\ p \in Workers => pc[p] = "unborn"
                      /\ p \in Cancelers => pc[p] \in {"c_get", "c_reread"}
  BY DEF Init
<1>4. \A j \in Modern : job[j].status = "none"
  BY DEF Init, StoreInit, Modern, NoRow
<1>5. NoJob \notin Modern
  BY JobsAssumption DEF Modern, NoJob
<1>6. RolesOK
  BY <1>3 DEF RolesOK, SLabels, CLabels
<1>7. LockOK
  BY Zenon, <1>1, <1>3 DEF LockOK, InSection, StoreInv, TypeOK
<1>8. StatusOK /\ CaredFor
  BY Zenon, <1>4 DEF StatusOK, CaredFor, Open, IsActive, ActiveStatus
<1>9. \A p \in Pids : AboutOK(p)
  BY Zenon, <1>3, <1>5 DEF AboutOK
<1>10. OneStarter /\ ChildrenOK
  BY Zenon, <1>3, <1>4 DEF OneStarter, ChildrenOK, SpawnOK, Init, WLabels
<1>11. (\A s \in Starters : RecordOK(s)) /\ (\A c \in Cancelers : KnownOK(c))
  BY <1>3, <1>5 DEF RecordOK, KnownOK
<1> QED BY Zenon, <1>1, <1>2, <1>6, <1>7, <1>8, <1>9, <1>10, <1>11 DEF JobsInv

\* Every step of every process keeps the invariant.
LEMMA JobsNextInv == JobsInv /\ [Next]_vars => JobsInv'
<1> SUFFICES ASSUME JobsInv, [Next]_vars PROVE JobsInv'
  OBVIOUS
<1>1. CASE \E s \in Starters : StarterStep(s)
  BY Zenon, <1>1, StartCreateKeeps, StartAttachKeeps, StartSpawnKeeps, StartGetKeeps,
     StartRunningKeeps, StartFailKeeps DEF StarterStep
<1>2. CASE \E w \in Workers \cup Starters : WorkerStep(w)
  BY ZenonT(60), <1>2, WorkGetKeeps, WorkCancelKeeps, WorkLockKeeps, WorkMarkKeeps, WorkCheckKeeps,
     WorkProgressKeeps, WorkCheck2Keeps, WorkReportKeeps, WorkErrorKeeps, WorkPublishKeeps,
     WorkUnlockKeeps, WorkFailKeeps DEF WorkerStep
<1>3. CASE \E c \in Cancelers : CancelerStep(c)
  BY Zenon, <1>3, CancelGetKeeps, CancelRereadKeeps, CancelRequestKeeps, CancelRequestedKeeps,
     CancelKillKeeps, CancelMarkKeeps, CancelUnlockKeeps DEF CancelerStep
<1>4. CASE \E p \in Pids : Crash(p)
  BY <1>4, CrashKeeps
<1>5. CASE UNCHANGED vars
  <2>1. /\ job' = job /\ owner' = owner /\ alive' = alive /\ pc' = pc /\ target' = target
        /\ seen' = seen /\ created' = created /\ child' = child /\ reports' = reports
        /\ lock' = lock /\ crashes' = crashes /\ UNCHANGED dbVars
    BY <1>5 DEF vars, storeVars, procVars, dbVars
  <2>2. Settles
    BY Zenon, <2>1, NothingSettles DEF JobsInv, StoreInv, TypeOK
  <2>3. /\ ProcTypeOK' /\ RolesOK' /\ LockOK' /\ OneStarter' /\ ChildrenOK'
    BY Zenon, <2>1 DEF JobsInv, ProcTypeOK, RolesOK, LockOK, OneStarter, ChildrenOK, SpawnOK
  <2>4. \A p \in Pids : AboutOK(p)'
    BY Zenon, <2>1 DEF JobsInv, AboutOK, IsActive, Open
  <2>5. (\A s \in Starters : RecordOK(s)') /\ (\A c \in Cancelers : KnownOK(c)')
    BY Zenon, <2>1 DEF JobsInv, RecordOK, WorkerOf, KnownOK
  <2>6. Legacy = {} => CaredFor'
    BY <2>1 DEF JobsInv, CaredFor, Open, IsActive
  <2> QED BY Zenon, <2>2, <2>3, <2>4, <2>5, <2>6 DEF JobsInv, Settles
<1> QED BY <1>1, <1>2, <1>3, <1>4, <1>5 DEF Next, Terminated

\* The inductive invariant of the processes and their tables, whatever is
\* spawned, killed, canceled, taken over or refused.
THEOREM JobsInvariance == Spec => []JobsInv
<1> QED BY JobsInitInv, JobsNextInv, PTL DEF Spec

\* What the tables promise to any caller they keep under the callers there are,
\* and every process stays within its types.
THEOREM JobsTypeCorrect == Spec => [](StoreInv /\ ProcTypeOK)
<1>1. JobsInv => StoreInv /\ ProcTypeOK
  BY DEF JobsInv
<1> QED BY <1>1, JobsInvariance, PTL

\* Two live processes are never both inside withWorkspaceIndexLock: the one
\* inside is the one the lock file names.
THEOREM OneIndexer == Spec => []IndexingIsExclusive
<1>1. JobsInv => IndexingIsExclusive
  BY DEF JobsInv, LockOK, IndexingIsExclusive
<1> QED BY <1>1, JobsInvariance, PTL

\* A forced cancellation that knew the job's process confirms the job canceled
\* only when that process is gone: the recorded process of a job never becomes
\* another one, and process ids of workers are not handed out twice.
THEOREM ForceCancelSound == Spec => []ForceCancelWaits
<1>1. JobsInv => ForceCancelWaits
  <2> SUFFICES ASSUME JobsInv, NEW c \in Forced, pc[c] = "c_unlock", seen[c].pid # NoPid
               PROVE  job[target[c]].pid \notin alive
    BY DEF ForceCancelWaits
  <2>1. KnownOK(c)
    BY RolesAssumption DEF JobsInv
  <2> QED BY <2>1 DEF KnownOK
<1> QED BY <1>1, JobsInvariance, PTL

\* In a database without rows from before the ownership table, an open job is
\* in somebody's hands until it ends: when every process has ended, a job is
\* still active only if its cancellation was accepted or a process that was
\* about it died by itself.
THEOREM NothingLeftBehind ==
    ASSUME Legacy = {}
    PROVE  Spec => []NoJobLeftBehind
<1>1. JobsInv => NoJobLeftBehind
  <2> SUFFICES ASSUME JobsInv, Quiet, NEW j \in Modern, IsActive(j), ~job[j].cancel
               PROVE  \E p \in Pids : pc[p] = "crashed" /\ target[p] = j
    BY DEF NoJobLeftBehind
  <2>1. PICK p \in Pids : target[p] = j /\ pc[p] \in Responsible
    BY DEF JobsInv, CaredFor, Open
  <2>2. pc[p] = "crashed"
    BY <2>1 DEF Quiet, Responsible, Ended
  <2> QED BY <2>1, <2>2
<1> QED BY <1>1, JobsInvariance, PTL
=============================================================================
