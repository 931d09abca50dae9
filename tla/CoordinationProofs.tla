------------------------ MODULE CoordinationProofs --------------------------
(***************************************************************************)
(* The daemon's lock files are leases, for any number of processes, any    *)
(* reuse of process ids and a death at any system call.  LockInv is        *)
(* inductive: what a process under the guard has seen of the file stays    *)
(* true while it holds the guard, and a dead process leaves the guard to   *)
(* others with the file in whatever state it was in.                       *)
(*                                                                         *)
(* The file watcher forgets no change, for any files, any number of        *)
(* overlapping callbacks, any number of edits and failures.                *)
(***************************************************************************)
EXTENDS StartLock, FileWatcher, TLAPS

(* StartLock                                                               *)

\* A lock file that is absent, empty or garbled has no owner.
LEMMA NoOwner == \A p \in Procs : Metadata(p) \notin {Absent, Empty, Garbled}
  <1> SUFFICES ASSUME NEW p \in Procs PROVE Metadata(p).pid # Nobody
      BY DEF Metadata, Absent, Empty, Garbled
  <1> QED BY ProcsAssumption DEF Metadata

\* The initial states satisfy the invariant.
LEMMA LockInvInit == LockInit => LockInv
  <1> SUFFICES ASSUME LockInit PROVE LockInv
      OBVIOUS
  <1>1. LockTypeOK
    <2>1. file \in Contents
      BY DEF LockInit, Contents
    <2>2. 1 \in 1..MaxRuns
      BY RunsAssumption
    <2> QED BY Zenon, <2>1, <2>2 DEF LockInit, LockTypeOK, Steps
  <1>2. HolderKeepsFile
    BY DEF LockInit, HolderKeepsFile, Holds
  <1>3. GuardInv
    BY ProcsAssumption DEF LockInit, GuardInv, Guarded, Holds
  <1> QED BY <1>1, <1>2, <1>3 DEF LockInv

\* Every step keeps the types.
LEMMA LockTypeStep == LockTypeOK /\ [LockNext]_lockVars => LockTypeOK'
  <1> SUFFICES ASSUME LockTypeOK, [LockNext]_lockVars PROVE LockTypeOK'
      OBVIOUS
  <1> USE RunsAssumption DEF LockTypeOK
  <1>a. \A p \in Procs : Metadata(p) \in Contents
    BY DEF Metadata, Contents
  <1>b. {Absent, Empty, Garbled} \subseteq Contents
    BY DEF Contents
  <1> HIDE DEF Contents
  <1>c. Guarded \subseteq Steps /\ {"idle", "waiting", "held", "close", "done"} \subseteq Steps
    BY DEF Steps
  <1>d. ASSUME NEW p \in Procs, NEW step \in Steps, To(p, step) PROVE pc' \in [Procs -> Steps]
    BY <1>d DEF To
  <1>1. ASSUME NEW p \in alive, Begin(p) \/ LockGuard(p) \/ Timeout(p) \/ BeginClose(p)
        PROVE LockTypeOK'
    BY <1>1, <1>c, <1>d DEF Begin, LockGuard, Timeout, BeginClose, Guarded
  <1>2. ASSUME NEW p \in alive, UnlockGuard(p) PROVE LockTypeOK'
    BY <1>2, <1>c, <1>d DEF UnlockGuard
  <1>3. ASSUME NEW p \in alive, Create(p) \/ Recreate(p) \/ Reclaim(p) \/ Erase(p) PROVE LockTypeOK'
    BY Zenon, <1>3, <1>b, <1>c, <1>d DEF Create, Recreate, Reclaim, Erase, Guarded
  <1>4. ASSUME NEW p \in alive, Fill(p) PROVE LockTypeOK'
    BY <1>4, <1>a, <1>b, <1>c, <1>d DEF Fill, Guarded
  <1>5. ASSUME NEW p \in alive, Inspect(p) \/ InspectOwn(p) \/ LockFault(p) PROVE LockTypeOK'
    BY <1>5, <1>c, <1>d DEF Inspect, InspectOwn, LockFault, Guarded
  <1>6. ASSUME NEW p \in Procs, Die(p) PROVE LockTypeOK'
    BY <1>6, <1>c, <1>d DEF Die
  <1>7. ASSUME NEW p \in Procs, Restart(p) PROVE LockTypeOK'
    BY <1>7, <1>c, <1>d DEF Restart
  <1>8. CASE Age
    BY <1>8 DEF Age
  <1>9. CASE Terminated \/ UNCHANGED lockVars
    BY <1>9 DEF Terminated, lockVars
  <1> QED BY <1>1, <1>2, <1>3, <1>4, <1>5, <1>6, <1>7, <1>8, <1>9 DEF LockNext

\* The step of one process under the guard, or of one that is not, disturbs
\* nobody else's part of the invariant.
LEMMA GuardStep == LockInv /\ [LockNext]_lockVars => GuardInv'
  <1> SUFFICES ASSUME LockInv, [LockNext]_lockVars PROVE GuardInv'
      OBVIOUS
  <1> USE ProcsAssumption DEF LockInv, LockTypeOK, GuardInv
  <1>1. ASSUME NEW p \in alive, Begin(p) \/ LockGuard(p) \/ Timeout(p) \/ BeginClose(p)
        PROVE GuardInv'
    BY <1>1 DEF Begin, LockGuard, Timeout, BeginClose, To, Guarded, Holds, Absent, Empty
  <1>2. ASSUME NEW p \in alive, UnlockGuard(p) PROVE GuardInv'
    BY <1>2 DEF UnlockGuard, To, Guarded, Holds, Absent, Empty
  <1>3. ASSUME NEW p \in alive, Create(p) \/ Recreate(p) PROVE GuardInv'
    BY <1>3 DEF Create, Recreate, To, Guarded, Holds, Absent, Empty
  <1>4. ASSUME NEW p \in alive, Fill(p) PROVE GuardInv'
    BY <1>4 DEF Fill, To, Guarded, Holds, Absent, Empty
  <1>5. ASSUME NEW p \in alive, Inspect(p) PROVE GuardInv'
    <2>1. Reclaimable => \A q \in alive : ~Holds(q)
      BY NoOwner DEF Reclaimable, HolderKeepsFile, Metadata, Empty, Garbled
    <2> QED BY <1>5, <2>1 DEF Inspect, To, Guarded, Holds, Absent, Empty
  <1>6. ASSUME NEW p \in alive, Reclaim(p) \/ Erase(p) PROVE GuardInv'
    BY <1>6 DEF Reclaim, Erase, To, Guarded, Holds, Absent, Empty
  <1>7. ASSUME NEW p \in alive, InspectOwn(p) \/ LockFault(p) PROVE GuardInv'
    BY <1>7 DEF InspectOwn, LockFault, To, Guarded, Holds, Absent, Empty
  <1>8. ASSUME NEW p \in Procs, Die(p) PROVE GuardInv'
    BY <1>8 DEF Die, To, Guarded, Holds, Absent, Empty
  <1>9. ASSUME NEW p \in Procs, Restart(p) PROVE GuardInv'
    BY <1>9 DEF Restart, To, Guarded, Holds, Absent, Empty
  <1>10. CASE Age
    BY <1>10 DEF Age, Guarded, Holds, Absent, Empty
  <1>11. CASE Terminated \/ UNCHANGED lockVars
    BY <1>11 DEF Terminated, lockVars, Guarded, Holds, Absent, Empty
  <1> QED BY <1>1, <1>2, <1>3, <1>4, <1>5, <1>6, <1>7, <1>8, <1>9, <1>10, <1>11 DEF LockNext

\* No step takes the lock file from a live holder.
LEMMA HolderStep == LockInv /\ [LockNext]_lockVars => HolderKeepsFile'
  <1> SUFFICES ASSUME LockInv, [LockNext]_lockVars PROVE HolderKeepsFile'
      OBVIOUS
  <1> USE DEF LockInv, LockTypeOK, GuardInv, HolderKeepsFile
  <1>1. ASSUME NEW p \in alive,
               Begin(p) \/ LockGuard(p) \/ Timeout(p) \/ BeginClose(p) \/ Inspect(p)
                 \/ InspectOwn(p) \/ LockFault(p)
        PROVE HolderKeepsFile'
    BY <1>1 DEF Begin, LockGuard, Timeout, BeginClose, Inspect, InspectOwn, LockFault, To, Holds, Metadata
  <1>2. ASSUME NEW p \in alive, UnlockGuard(p) PROVE HolderKeepsFile'
    BY <1>2 DEF UnlockGuard, To, Holds, Metadata
  <1>3. ASSUME NEW p \in alive, Create(p) \/ Recreate(p) PROVE HolderKeepsFile'
    BY <1>3, NoOwner DEF Create, Recreate, To, Holds, Metadata
  <1>4. ASSUME NEW p \in alive, Fill(p) PROVE HolderKeepsFile'
    BY <1>4, NoOwner DEF Fill, To, Holds, Metadata
  <1>5. ASSUME NEW p \in alive, Reclaim(p) PROVE HolderKeepsFile'
    BY <1>5 DEF Reclaim, To, Holds
  <1>6. ASSUME NEW p \in alive, Erase(p) PROVE HolderKeepsFile'
    BY <1>6 DEF Erase, To, Holds, Metadata
  <1>7. ASSUME NEW p \in Procs, Die(p) \/ Restart(p) PROVE HolderKeepsFile'
    BY <1>7 DEF Die, Restart, To, Holds, Metadata
  <1>8. CASE Age \/ Terminated \/ UNCHANGED lockVars
    BY <1>8 DEF Age, Terminated, lockVars, Holds, Metadata
  <1> QED BY <1>1, <1>2, <1>3, <1>4, <1>5, <1>6, <1>7, <1>8 DEF LockNext

\* LockInv is an invariant of acquireStartLockAt and Close under any crashes.
THEOREM LockInvariance == LockSpec => []LockInv
  <1>1. LockInv /\ [LockNext]_lockVars => LockInv'
    BY LockTypeStep, GuardStep, HolderStep DEF LockInv
  <1> QED BY LockInvInit, <1>1, PTL DEF LockSpec

\* The lock file and the guard keep their types.
THEOREM LockTypeCorrect == LockSpec => []LockTypeOK
  <1>1. LockInv => LockTypeOK
    BY DEF LockInv
  <1> QED BY LockInvariance, <1>1, PTL

\* Neither a reclaim nor a Close ever takes the lock file of a live holder.
THEOREM HolderSafe == LockSpec => []HolderKeepsFile
  <1>1. LockInv => HolderKeepsFile
    BY DEF LockInv
  <1> QED BY LockInvariance, <1>1, PTL

\* A step that changes who holds the lock takes it when free or gives it back.
LEMMA LeaseStep == LockInv /\ [LockNext]_lockVars => [LeaseOf!LeaseNext]_({p \in alive : Holds(p)})
  <1> DEFINE H == {p \in alive : Holds(p)}
  <1> SUFFICES ASSUME LockInv, [LockNext]_lockVars, H' # H
               PROVE \E p \in Procs : LeaseOf!Take(p) \/ LeaseOf!GiveBack(p)
      BY DEF LeaseOf!LeaseNext
  <1> USE DEF LockInv, LockTypeOK, GuardInv
  <1>1. ASSUME NEW p \in Procs, H' = H \ {p}
        PROVE \E q \in Procs : LeaseOf!Take(q) \/ LeaseOf!GiveBack(q)
    BY <1>1 DEF LeaseOf!GiveBack
  <1>2. ASSUME NEW p \in alive,
               Begin(p) \/ LockGuard(p) \/ Create(p) \/ Inspect(p) \/ Reclaim(p) \/ Recreate(p)
                 \/ BeginClose(p)
        PROVE H' = H
    BY <1>2 DEF Begin, LockGuard, Create, Inspect, Reclaim, Recreate, BeginClose, To, Holds
  <1>3. ASSUME NEW p \in alive, UnlockGuard(p) PROVE H' = H
    BY <1>3 DEF UnlockGuard, To, Holds
  <1>4. ASSUME NEW p \in alive, Timeout(p) \/ InspectOwn(p) \/ Erase(p) \/ LockFault(p)
        PROVE H' = H \/ H' = H \ {p}
    BY <1>4 DEF Timeout, InspectOwn, Erase, LockFault, To, Holds
  <1>5. ASSUME NEW p \in alive, Fill(p)
        PROVE LeaseOf!Take(p)
    <2>1. H' \subseteq H \cup {p}
      BY <1>5 DEF Fill, To, Holds
    <2>2. p \in H'
      BY <1>5, <2>1 DEF Fill, To, Holds
    <2>3. H = {}
      BY <1>5, NoOwner DEF Fill, HolderKeepsFile
    <2> QED BY <2>1, <2>2, <2>3 DEF LeaseOf!Take
  <1>6. ASSUME NEW p \in Procs, Die(p) PROVE H' = H \ {p}
    BY <1>6 DEF Die, To, Holds
  <1>7. ASSUME NEW p \in Procs, Restart(p) PROVE H' = H
    BY <1>7 DEF Restart, To, Holds
  <1>8. ASSUME Age \/ Terminated \/ UNCHANGED lockVars PROVE H' = H
    BY <1>8 DEF Age, Terminated, lockVars, Holds
  <1> QED BY <1>1, <1>2, <1>3, <1>4, <1>5, <1>6, <1>7, <1>8 DEF LockNext

\* start_lock.go implements a lease: taken only when free, given back only by
\* its holder or its death.
THEOREM LockImplementsLease == LockSpec => ImplementsLease
  <1>1. LockInit => LeaseOf!LeaseInit
    BY DEF LockInit, LeaseOf!LeaseInit, Holds
  <1> QED BY <1>1, LockInvariance, LeaseStep, PTL DEF LockSpec, ImplementsLease, LeaseOf!LeaseSpec
-----------------------------------------------------------------------------
(* FileWatcher                                                             *)

WatchInv == TypeOK /\ OneReader /\ GoneForGood /\ FlowInv /\ StopInv

\* The type invariant alone is inductive.
LEMMA TypeInit == Init => TypeOK
  <1> SUFFICES ASSUME Init PROVE TypeOK
    OBVIOUS
  <1>1. {0, 1} \subseteq 0..MaxVersion /\ 0 \in 0..MaxFaults
    BY WatcherAssumption
  <1>2. disk \in [Files -> 0..MaxVersion] /\ catalog \in [Files -> 0..MaxVersion]
    BY <1>1 DEF Init
  <1>3. NoEvents \in [Files -> SUBSET Ops]
    BY DEF NoEvents
  <1>4. retry \in [Files -> 0..(maxDeferredBatchRetries + 1)]
        /\ tries \in [Flushes -> 0..maxImmediateBatchRetries]
    BY DEF Init, maxDeferredBatchRetries, maxImmediateBatchRetries
  <1>5. seen \in [Flushes -> [Files -> 0..MaxVersion]]
    BY <1>1 DEF Init
  <1> QED
    BY Zenon, <1>1, <1>2, <1>3, <1>4, <1>5 DEF Init, TypeOK, FlushSteps

LEMMA TypeStep == TypeOK /\ [Next]_vars => TypeOK'
  <1> SUFFICES ASSUME TypeOK, [Next]_vars PROVE TypeOK'
    OBVIOUS
  <1> USE WatcherAssumption DEF TypeOK, fileVars, flushVars, FlushTo, FlushSteps
  <1>1. ASSUME NEW f \in Files, Write(f) PROVE TypeOK'
    BY <1>1 DEF Write, Ops
  <1>2. ASSUME NEW f \in Files, Remove(f) PROVE TypeOK'
    BY <1>2 DEF Remove, Ops
  <1>3. ASSUME NEW f \in Files, Lose(f) PROVE TypeOK'
    BY <1>3 DEF Lose, Fault
  <1>4. ASSUME NEW f \in Files, NEW op \in Ops, Deliver(f, op) PROVE TypeOK'
    <2>1. CASE stop = "no"
      <3>1. pending' \in [Files -> SUBSET Ops]
        BY <1>4, <2>1 DEF Deliver
      <3>2. retry' \in [Files -> 0..(maxDeferredBatchRetries + 1)]
        <4>1. retry' = [retry EXCEPT ![f] = 0]
          BY <1>4, <2>1 DEF Deliver
        <4>2. 0 \in 0..(maxDeferredBatchRetries + 1)
          BY DEF maxDeferredBatchRetries
        <4> QED
          BY <4>1, <4>2
      <3>3. queue' \in [Files -> SUBSET Ops] /\ timer' \in {"none", "armed", "fired"}
        BY <1>4, <2>1 DEF Deliver
      <3> QED
        BY <1>4, <3>1, <3>2, <3>3 DEF Deliver
    <2>2. CASE stop # "no"
      BY <1>4, <2>2 DEF Deliver
    <2> QED
      BY <2>1, <2>2
  <1>5. ASSUME NEW s \in Flushes, Fire(s) PROVE TypeOK'
    BY <1>5 DEF Fire
  <1>6. ASSUME NEW s \in Flushes, CheckStopped(s) PROVE TypeOK'
    BY Zenon, <1>6 DEF CheckStopped
  <1>7. ASSUME NEW s \in Flushes, TakeBatch(s) PROVE TypeOK'
    BY Zenon, <1>7 DEF TakeBatch, NoEvents
  <1>8. ASSUME NEW s \in Flushes, Read(s) PROVE TypeOK'
    BY Zenon, <1>8 DEF Read
  <1>9. ASSUME NEW s \in Flushes, Publish(s) PROVE TypeOK'
    BY <1>9 DEF Publish, Published
  <1>10. ASSUME NEW s \in Flushes, Defer(s) PROVE TypeOK'
    <2>1. batch' \in [Flushes -> [Files -> SUBSET Ops]]
      BY <1>10 DEF Defer, NoEvents
    <2>2. CASE stop = "no"
      <3>1. pending' \in [Files -> SUBSET Ops]
        BY <1>10, <2>2 DEF Defer
      <3>2. \A n \in 0..(maxDeferredBatchRetries + 1) : NextRound(n) \in 0..(maxDeferredBatchRetries + 1)
        BY DEF NextRound, maxDeferredBatchRetries
      <3>3. retry' \in [Files -> 0..(maxDeferredBatchRetries + 1)]
        BY <1>10, <2>2, <3>2 DEF Defer
      <3> QED
        BY <1>10, <2>1, <2>2, <3>1, <3>3 DEF Defer
    <2>3. CASE stop # "no"
      BY Zenon, <1>10, <2>1, <2>3 DEF Defer
    <2> QED
      BY <2>2, <2>3
  <1>11. ASSUME NEW s \in Flushes, Return(s) PROVE TypeOK'
    BY <1>11 DEF Return, maxImmediateBatchRetries
  <1>12. ASSUME NEW s \in Flushes, NEW f \in Files, Reset(s, f) PROVE TypeOK'
    BY <1>12 DEF Reset, maxDeferredBatchRetries
  <1>13. ASSUME NEW s \in Flushes, NEW f \in Files, Retain(s, f) PROVE TypeOK'
    BY <1>13 DEF Retain
  <1>14. ASSUME NEW s \in Flushes, PassFails(s) PROVE TypeOK'
    BY <1>14 DEF PassFails, Fault
  <1>15. ASSUME NEW s \in Flushes, PassBlocked(s) PROVE TypeOK'
    <2>1. CASE tries[s] = maxImmediateBatchRetries
      BY Zenon, <1>15, <2>1 DEF PassBlocked
    <2>2. CASE tries[s] # maxImmediateBatchRetries
      <3>1. tries' = [tries EXCEPT ![s] = @ + 1]
        BY <1>15, <2>2 DEF PassBlocked
      <3>2. tries[s] + 1 \in 0..maxImmediateBatchRetries
        BY <2>2 DEF maxImmediateBatchRetries
      <3> QED
        BY Zenon, <1>15, <2>2, <3>1, <3>2 DEF PassBlocked
    <2> QED
      BY Zenon, <2>1, <2>2
  <1>16. CASE Close
    BY <1>16 DEF Close
  <1>17. CASE Stopped
    BY <1>17 DEF Stopped, NoEvents, maxDeferredBatchRetries
  <1>18. CASE UNCHANGED vars
    BY <1>18 DEF vars
  <1> QED
    BY Zenon, <1>1, <1>2, <1>3, <1>4, <1>5, <1>6, <1>7, <1>8, <1>9, <1>10, <1>11, <1>12, <1>13,
       <1>14, <1>15, <1>16, <1>17, <1>18 DEF Next, WatcherNext, FlushNext, Receive, Expire, Quiet

\* The workspace write lock: a callback starts reading only when none does.
LEMMA ReaderStep == TypeOK /\ OneReader /\ [Next]_vars => OneReader'
  <1> SUFFICES ASSUME TypeOK, OneReader, [Next]_vars PROVE OneReader'
    OBVIOUS
  <1> USE DEF OneReader, TypeOK, FlushTo
  <1>1. ASSUME NEW s \in Flushes, Read(s) PROVE OneReader'
    BY <1>1 DEF Read
  <1>2. ASSUME NEW s \in Flushes,
               Fire(s) \/ CheckStopped(s) \/ TakeBatch(s) \/ Publish(s) \/ Return(s) \/ PassFails(s)
        PROVE OneReader'
    BY ZenonT(60), <1>2 DEF Fire, CheckStopped, TakeBatch, Publish, Return, PassFails
  <1>3. ASSUME NEW s \in Flushes, PassBlocked(s) PROVE OneReader'
    BY Zenon, <1>3 DEF PassBlocked
  <1>4. CASE UNCHANGED at
    BY <1>4
  <1>5. ASSUME NEW f \in Files, Write(f) \/ Remove(f) \/ Lose(f) PROVE UNCHANGED at
    BY <1>5 DEF Write, Remove, Lose, flushVars
  <1>6. Receive \/ Close \/ Stopped \/ Quiet \/ UNCHANGED vars => UNCHANGED at
    BY DEF Receive, Deliver, Close, Stopped, Quiet, vars, flushVars
  <1>7. ASSUME NEW s \in Flushes, NEW f \in Files, Reset(s, f) \/ Retain(s, f) PROVE UNCHANGED at
    BY <1>7 DEF Reset, Retain
  <1>8. ASSUME NEW s \in Flushes, Defer(s) PROVE UNCHANGED at
    BY <1>8 DEF Defer
  <1> QED
    BY <1>1, <1>2, <1>3, <1>4, <1>5, <1>6, <1>7, <1>8 DEF Next, WatcherNext, FlushNext, Expire

\* Removal events name files that are gone, as long as none comes back.
LEMMA GoneStep ==
  ASSUME ~Recreates
  PROVE  TypeOK /\ GoneForGood /\ [Next]_vars => GoneForGood'
  <1> SUFFICES ASSUME TypeOK, GoneForGood, [Next]_vars PROVE GoneForGood'
    OBVIOUS
  <1> USE DEF TypeOK, fileVars, flushVars
  <1>1. ASSUME NEW f \in Files, Write(f) PROVE GoneForGood'
    BY <1>1 DEF Write, GoneForGood
  <1>2. ASSUME NEW f \in Files, Remove(f) PROVE GoneForGood'
    BY <1>2 DEF Remove, GoneForGood
  <1>3. ASSUME NEW f \in Files, Lose(f) PROVE GoneForGood'
    BY <1>3 DEF Lose, GoneForGood
  <1>4. ASSUME NEW f \in Files, NEW op \in Ops, Deliver(f, op) PROVE GoneForGood'
    BY <1>4 DEF Deliver, GoneForGood
  <1>5. ASSUME NEW s \in Flushes, TakeBatch(s) PROVE GoneForGood'
    BY <1>5 DEF TakeBatch, NoEvents, GoneForGood
  <1>6. ASSUME NEW s \in Flushes, Defer(s) PROVE GoneForGood'
    BY <1>6 DEF Defer, NoEvents, GoneForGood
  <1>7. ASSUME NEW s \in Flushes, NEW f \in Files, Reset(s, f) PROVE GoneForGood'
    BY <1>7 DEF Reset, GoneForGood
  <1>8. ASSUME NEW s \in Flushes, NEW f \in Files, Retain(s, f) PROVE GoneForGood'
    BY <1>8 DEF Retain, GoneForGood
  <1>9. CASE Stopped
    BY <1>9 DEF Stopped, NoEvents, GoneForGood
  <1>10. CASE UNCHANGED <<disk, version, queue, pending, batch>>
    BY Zenon, <1>10 DEF GoneForGood
  <1>11. ASSUME NEW s \in Flushes,
                \/ Fire(s) \/ CheckStopped(s) \/ Read(s) \/ Publish(s) \/ Return(s)
                \/ PassFails(s) \/ PassBlocked(s)
         PROVE UNCHANGED <<disk, version, queue, pending, batch>>
    BY <1>11 DEF Fire, CheckStopped, Read, Publish, Return, PassFails, PassBlocked
  <1>12. Close \/ Quiet \/ UNCHANGED vars => UNCHANGED <<disk, version, queue, pending, batch>>
    BY DEF Close, Quiet, vars
  <1> QED
    BY <1>1, <1>2, <1>3, <1>4, <1>5, <1>6, <1>7, <1>8, <1>9, <1>10, <1>11, <1>12
       DEF Next, WatcherNext, FlushNext, Receive, Expire

\* Every event stays awaited until a callback has read the files after it.
LEMMA FlowStep ==
  ASSUME ~Recreates, TypeOK, OneReader, GoneForGood, [Next]_vars,
         stop = "no", ~lost, stop' = "no", ~lost',
         NEW g \in Files \ Ignored, Flow(g)
  PROVE  Flow(g)'
  <1> USE DEF TypeOK, fileVars, flushVars, FlushTo
  <1>1. ASSUME NEW f \in Files, Write(f) \/ Remove(f) PROVE Flow(g)'
    <2>1. CASE f = g
      <3>1. "write" \in queue'[g] \/ "remove" \in queue'[g]
        <4>1. queue \in [Files -> SUBSET Ops] /\ g \in Files
          OBVIOUS
        <4>2. CASE Write(f)
          <5>1. queue' = [queue EXCEPT ![g] = @ \cup {"write"}]
            BY Zenon, <2>1, <4>2 DEF Write
          <5> QED
            BY <4>1, <5>1
        <4>3. CASE Remove(f)
          <5>1. queue' = [queue EXCEPT ![g] = @ \cup {"remove"}]
            BY Zenon, <2>1, <4>3 DEF Remove
          <5> QED
            BY <4>1, <5>1
        <4> QED
          BY Zenon, <1>1, <4>2, <4>3
      <3>2. queue'[g] # {}
        BY Zenon, <3>1
      <3> QED
        BY <3>2 DEF Flow, Awaited
    <2>2. CASE f # g
      <3>1. disk'[g] = disk[g] /\ queue'[g] = queue[g]
        BY <1>1, <2>2 DEF Write, Remove
      <3>2. UNCHANGED <<catalog, pending, flushVars>>
        BY <1>1 DEF Write, Remove
      <3> QED
        BY Zenon, <3>1, <3>2 DEF Flow, Awaited, Arriving, Published, Deleted
    <2> QED
      BY <2>1, <2>2
  <1>2. ASSUME NEW f \in Files, Lose(f) PROVE Flow(g)'
    BY <1>2 DEF Lose
  <1>3. ASSUME NEW f \in Files, NEW op \in Ops, Deliver(f, op) PROVE Flow(g)'
    <2>1. UNCHANGED <<disk, catalog, flushVars>>
      BY <1>3 DEF Deliver
    <2>2. pending' = [pending EXCEPT ![f] = @ \cup {op}]
      BY <1>3 DEF Deliver
    <2>3. f # g => pending'[g] = pending[g]
      BY <2>2
    <2>4. f # g => queue'[g] = queue[g]
      BY <1>3 DEF Deliver
    <2>5. f = g => op \in pending'[g]
      BY <2>2
    <2>6. queue[g] # {} \/ pending[g] # {} => queue'[g] # {} \/ pending'[g] # {}
      BY <2>3, <2>4, <2>5
    <2> QED
      BY Zenon, <2>1, <2>6 DEF Flow, Awaited, Arriving, Published, Deleted
  <1>4. ASSUME NEW s \in Flushes, Fire(s) \/ CheckStopped(s) PROVE Flow(g)'
    BY ZenonT(60), <1>4 DEF Fire, CheckStopped, Flow, Awaited, Arriving, Published, Deleted
  <1>5. ASSUME NEW s \in Flushes, TakeBatch(s) PROVE Flow(g)'
    BY ZenonT(60), <1>5 DEF TakeBatch, NoEvents, Flow, Awaited, Arriving, Published, Deleted
  <1>6. ASSUME NEW s \in Flushes, Read(s) PROVE Flow(g)'
    BY Zenon, <1>6 DEF Read, GoneForGood, Flow, Awaited, Arriving, Published, Deleted
  <1>7. ASSUME NEW s \in Flushes, Publish(s) PROVE Flow(g)'
    BY Zenon, <1>7 DEF Publish, OneReader, Flow, Awaited, Arriving, Published, Deleted
  <1>8. ASSUME NEW s \in Flushes, Defer(s) PROVE Flow(g)'
    <2>1. UNCHANGED <<disk, catalog, queue, at, seen>>
      BY <1>8 DEF Defer
    <2>2. pending[g] # {} \/ batch[s][g] # {} => pending'[g] # {}
      BY <1>8 DEF Defer
    <2>3. \A t \in Flushes : t # s => batch'[t] = batch[t]
      BY <1>8 DEF Defer
    <2>4. at[s] # "reading"
      BY <1>8 DEF Defer
    <2> QED
      BY Zenon, <2>1, <2>2, <2>3, <2>4 DEF Flow, Awaited, Arriving, Published, Deleted
  <1>9. ASSUME NEW s \in Flushes, Return(s) PROVE Flow(g)'
    BY ZenonT(60), <1>9 DEF Return, NoEvents, Flow, Awaited, Arriving, Published, Deleted
  <1>10. ASSUME NEW s \in Flushes, NEW f \in Files, Reset(s, f) PROVE Flow(g)'
    BY Zenon, <1>10 DEF Reset, Flow, Awaited, Arriving, Published, Deleted
  <1>11. ASSUME NEW s \in Flushes, NEW f \in Files, Retain(s, f) PROVE Flow(g)'
    BY ZenonT(60), <1>11 DEF Retain, Flow, Awaited, Arriving, Published, Deleted
  <1>12. ASSUME NEW s \in Flushes, PassFails(s) PROVE Flow(g)'
    BY Zenon, <1>12 DEF PassFails, Flow, Awaited, Arriving, Published, Deleted
  <1>13. ASSUME NEW s \in Flushes, PassBlocked(s) PROVE Flow(g)'
    <2>1. UNCHANGED <<disk, catalog, queue, pending, batch, seen>>
      BY <1>13 DEF PassBlocked
    <2>2. at' = at \/ (at' = [at EXCEPT ![s] = "locked"] /\ at[s] = "index")
      BY <1>13 DEF PassBlocked
    <2> QED
      BY ZenonT(60), <2>1, <2>2 DEF Flow, Awaited, Arriving, Published, Deleted
  <1>14. CASE Close \/ Stopped
    BY <1>14 DEF Close, Stopped
  <1>15. CASE UNCHANGED vars
    BY Zenon, <1>15 DEF vars, Flow, Awaited, Arriving, Published, Deleted
  <1> QED
    BY <1>1, <1>2, <1>3, <1>4, <1>5, <1>6, <1>7, <1>8, <1>9, <1>10, <1>11, <1>12, <1>13, <1>14,
       <1>15 DEF Next, WatcherNext, FlushNext, Receive, Expire, Quiet

\* Stop: the timer stays cleared, and nothing moves after the last callback.
LEMMA StopStep == TypeOK /\ StopInv /\ [Next]_vars => StopInv'
  <1> SUFFICES ASSUME TypeOK, StopInv, [Next]_vars PROVE StopInv'
    OBVIOUS
  <1> USE DEF StopInv, StopIsFinal, TypeOK, fileVars, flushVars, FlushTo
  <1>1. ASSUME NEW f \in Files, Write(f) \/ Remove(f) \/ Lose(f) PROVE StopInv'
    BY <1>1 DEF Write, Remove, Lose
  <1>2. ASSUME NEW f \in Files, NEW op \in Ops, Deliver(f, op) PROVE StopInv'
    BY ZenonT(60), <1>2 DEF Deliver
  <1>3. ASSUME NEW s \in Flushes,
               \/ Fire(s) \/ CheckStopped(s) \/ TakeBatch(s) \/ Read(s) \/ Publish(s) \/ Return(s)
               \/ PassFails(s) \/ PassBlocked(s) \/ Defer(s)
        PROVE StopInv'
    BY <1>3 DEF Fire, CheckStopped, TakeBatch, Read, Publish, Return, PassFails, PassBlocked, Defer
  <1>4. ASSUME NEW s \in Flushes, NEW f \in Files, Reset(s, f) \/ Retain(s, f) PROVE StopInv'
    BY <1>4 DEF Reset, Retain
  <1>5. CASE Close \/ Stopped
    BY <1>5 DEF Close, Stopped
  <1>6. CASE UNCHANGED vars
    BY <1>6 DEF vars
  <1> QED
    BY <1>1, <1>2, <1>3, <1>4, <1>5, <1>6 DEF Next, WatcherNext, FlushNext, Receive, Expire, Quiet

-----------------------------------------------------------------------------
\* WatchInv is an invariant of the watcher, if removed files do not come back.
THEOREM WatchInvariance ==
  ASSUME ~Recreates
  PROVE  Spec => []WatchInv
  <1>1. Init => WatchInv
    <2> SUFFICES ASSUME Init PROVE WatchInv
      OBVIOUS
    <2>1. OneReader /\ StopInv
      BY DEF Init, OneReader, StopInv, StopIsFinal
    <2>2. GoneForGood
      BY DEF Init, GoneForGood, NoEvents
    <2>3. FlowInv
      BY DEF Init, FlowInv, Flow
    <2> QED
      BY TypeInit, <2>1, <2>2, <2>3 DEF WatchInv
  <1>2. WatchInv /\ [Next]_vars => WatchInv'
    <2> SUFFICES ASSUME WatchInv, [Next]_vars PROVE WatchInv'
      OBVIOUS
    <2> USE DEF WatchInv
    <2>1. TypeOK' /\ OneReader' /\ GoneForGood' /\ StopInv'
      BY Zenon, TypeStep, ReaderStep, GoneStep, StopStep
    <2>2. stop' = "no" => stop = "no"
      BY Zenon DEF Next, WatcherNext, FlushNext, Receive, Expire, Quiet, Write, Remove, Lose, Deliver, Fire,
             CheckStopped, TakeBatch, Read, Publish, PassFails, PassBlocked, Reset, Retain, Defer,
             Return, Close, Stopped, vars
    <2>3. ~lost' => ~lost
      BY Zenon DEF Next, WatcherNext, FlushNext, Receive, Expire, Quiet, Write, Remove, Lose, Deliver, Fire,
             CheckStopped, TakeBatch, Read, Publish, PassFails, PassBlocked, Reset, Retain, Defer,
             Return, Close, Stopped, vars, fileVars, TypeOK
    <2>4. FlowInv'
      <3> SUFFICES ASSUME stop' = "no", ~lost', NEW g \in Files \ Ignored PROVE Flow(g)'
        BY DEF FlowInv
      <3>1. Flow(g)
        BY <2>2, <2>3 DEF FlowInv
      <3> QED
        BY <3>1, <2>2, <2>3, FlowStep
    <2> QED
      BY <2>1, <2>4
  <1> QED
    BY <1>1, <1>2, PTL DEF Spec

\* The watcher's state keeps its type, whether files come back or not.
THEOREM WatcherTypeCorrect == Spec => []TypeOK
BY TypeInit, TypeStep, PTL DEF Spec

\* No change is forgotten while the watcher runs and no event is lost, for any
\* number of files, edits, failures and overlapping flushBatch callbacks.
THEOREM NoChangeForgotten ==
  ASSUME ~Recreates
  PROVE  Spec => []NothingForgotten
  <1>1. WatchInv => NothingForgotten
    BY DEF WatchInv, FlowInv, Flow, NothingForgotten
  <1> QED
    BY <1>1, WatchInvariance, PTL

\* After Stop has returned the watcher is still, whether files come back or not.
THEOREM StopFinal == Spec => []StopIsFinal
  <1>1. Init => TypeOK /\ StopInv
    BY TypeInit DEF Init, StopInv, StopIsFinal
  <1>2. TypeOK /\ StopInv /\ [Next]_vars => (TypeOK /\ StopInv)'
    BY TypeStep, StopStep
  <1>3. StopInv => StopIsFinal
    BY DEF StopInv
  <1> QED
    BY <1>1, <1>2, <1>3, PTL DEF Spec
=============================================================================
