---------------------------- MODULE FileWatcher ----------------------------
(***************************************************************************)
(* The daemon's file watcher (internal/daemon/file_watcher.go) and what an *)
(* incremental pass does to the catalog: filesystem events are collected   *)
(* into one pending batch, a timer's callback takes the batch and indexes  *)
(* it, and callbacks of successive timers may overlap.  One step is one    *)
(* critical section of fw.mu, of the workspace write lock, or of SQLite.   *)
(* Diagnostics, which nothing reads, and documents are left out.           *)
(***************************************************************************)
EXTENDS Integers

CONSTANTS
    Files,       \* watched code files
    Ignored,     \* files the workspace's ignore patterns exclude
    Flushes,     \* flushBatch callbacks that may run at a time (a bound)
    Contends,    \* reindexBatchFn may report an IndexLockError
    Removes,     \* files may be removed
    Recreates,   \* removed files may come back
    MaxVersion,  \* bound: contents a file ever has
    MaxFaults    \* bound: passes that fail for reasons of their own

ASSUME WatcherAssumption ==
    /\ Ignored \subseteq Files
    /\ {Contends, Removes, Recreates} \subseteq BOOLEAN
    /\ MaxVersion \in Nat \ {0} /\ MaxFaults \in Nat

maxImmediateBatchRetries == 3
maxDeferredBatchRetries == 1

\* "write" stands for Write and Create, "remove" for Remove and Rename.
Ops == {"write", "remove"}

VARIABLES
    disk,        \* content of each file, 0 when there is none
    version,     \* contents each file has had
    catalog,     \* the content whose symbols the index has, 0 when none
    queue,       \* events of each file that watchLoop has not received
    lost,        \* events were dropped on the way
    pending,     \* pendingBatch and pendingOps
    retry,       \* batchRetry
    timer,       \* batchTimer: none, armed, or fired and not yet cleared
    stop,        \* Stop: not called, waiting, returned
    at,          \* where each flushBatch is
    batch,       \* the events it took
    seen,        \* the contents it read
    tries,       \* failed attempts of reindexBatchWithRetries
    faults

fileVars == <<disk, version, queue, lost>>
flushVars == <<at, batch, seen, tries>>
vars == <<disk, version, catalog, queue, lost, pending, retry, timer, stop, at, batch, seen, tries, faults>>

NoEvents == [f \in Files |-> {}]
FlushSteps == {"free", "admitted", "checked", "index", "reading", "ok", "failed", "locked"}

Init ==
    /\ disk \in [Files -> {0, 1}]
    /\ version = disk
    /\ catalog = [f \in Files |-> IF f \in Ignored THEN 0 ELSE disk[f]]
    /\ queue = NoEvents /\ lost = FALSE
    /\ pending = NoEvents /\ retry = [f \in Files |-> 0]
    /\ timer = "none" /\ stop = "no"
    /\ at = [s \in Flushes |-> "free"]
    /\ batch = [s \in Flushes |-> NoEvents]
    /\ seen = [s \in Flushes |-> [f \in Files |-> 0]]
    /\ tries = [s \in Flushes |-> 0]
    /\ faults = 0

FlushTo(s, step) == at' = [at EXCEPT ![s] = step]
Fault == faults < MaxFaults /\ faults' = faults + 1
-----------------------------------------------------------------------------
(* The filesystem and its events.                                          *)

Write(f) ==
    /\ version[f] < MaxVersion
    /\ disk[f] # 0 \/ version[f] = 0 \/ Recreates
    /\ version' = [version EXCEPT ![f] = @ + 1]
    /\ disk' = [disk EXCEPT ![f] = version[f] + 1]
    /\ queue' = [queue EXCEPT ![f] = @ \cup {"write"}]
    /\ UNCHANGED <<catalog, lost, pending, retry, timer, stop, flushVars, faults>>

Remove(f) ==
    /\ Removes /\ disk[f] # 0
    /\ disk' = [disk EXCEPT ![f] = 0]
    /\ queue' = [queue EXCEPT ![f] = @ \cup {"remove"}]
    /\ UNCHANGED <<version, catalog, lost, pending, retry, timer, stop, flushVars, faults>>

\* The queue of the system overflows; recordLostEvent notes it.
Lose(f) ==
    /\ queue[f] # {} /\ Fault
    /\ queue' = [queue EXCEPT ![f] = {}]
    /\ lost' = TRUE
    /\ UNCHANGED <<disk, version, catalog, pending, retry, timer, stop, flushVars>>

\* Mutant: an event that finds the timer set is dropped.
DeliverOnce(f, op) ==
    /\ op \in queue[f]
    /\ queue' = [queue EXCEPT ![f] = @ \ {op}]
    /\ IF stop = "no" /\ timer = "none"
       THEN /\ pending' = [pending EXCEPT ![f] = @ \cup {op}]
            /\ retry' = [retry EXCEPT ![f] = 0]
            /\ timer' = "armed"
       ELSE UNCHANGED <<pending, retry, timer>>
    /\ UNCHANGED <<disk, version, catalog, lost, stop, flushVars, faults>>

\* watchLoop and scheduleBatchEvent.
Deliver(f, op) ==
    /\ op \in queue[f]
    /\ queue' = [queue EXCEPT ![f] = @ \ {op}]
    /\ IF stop = "no"
       THEN /\ pending' = [pending EXCEPT ![f] = @ \cup {op}]
            /\ retry' = [retry EXCEPT ![f] = 0]
            /\ timer' = IF timer = "none" THEN "armed" ELSE timer
       ELSE UNCHANGED <<pending, retry, timer>>
    /\ UNCHANGED <<disk, version, catalog, lost, stop, flushVars, faults>>
-----------------------------------------------------------------------------
(* flushBatch                                                              *)

\* runTimerCallback: a callback that comes after Stop does nothing.
Fire(s) ==
    /\ timer = "armed" /\ at[s] = "free"
    /\ timer' = "fired"
    /\ FlushTo(s, "admitted")
    /\ UNCHANGED <<fileVars, catalog, pending, retry, stop, batch, seen, tries, faults>>

\* Mutant: a callback that finds the watcher stopped is never done.
CheckForgotten(s) ==
    /\ at[s] = "admitted"
    /\ FlushTo(s, IF stop = "no" THEN "checked" ELSE "admitted")
    /\ UNCHANGED <<fileVars, catalog, pending, retry, timer, stop, batch, seen, tries, faults>>

CheckStopped(s) ==
    /\ at[s] = "admitted"
    /\ FlushTo(s, IF stop = "no" THEN "checked" ELSE "free")
    /\ UNCHANGED <<fileVars, catalog, pending, retry, timer, stop, batch, seen, tries, faults>>

TakeBatch(s) ==
    /\ at[s] = "checked"
    /\ batch' = [batch EXCEPT ![s] = pending]
    /\ pending' = NoEvents
    /\ timer' = "none"
    /\ FlushTo(s, "index")
    /\ UNCHANGED <<fileVars, catalog, retry, stop, seen, tries, faults>>

\* watcherEventPaths: both lists may name the file.
Changed(s) == {f \in Files : "write" \in batch[s][f]}
Deleted(s) == {f \in Files : "remove" \in batch[s][f]}

Unindexable(s) == {f \in Changed(s) : f \in Ignored \/ disk[f] = 0}

\* Mutant: the files are read before the workspace write lock is taken.
ReadUnlocked(s) ==
    /\ at[s] = "index"
    /\ FlushTo(s, IF Unindexable(s) = {} THEN "reading" ELSE "failed")
    /\ seen' = [seen EXCEPT ![s] = disk]
    /\ UNCHANGED <<fileVars, catalog, pending, retry, timer, stop, batch, tries, faults>>

\* IncrementalIndexWithPaths under the workspace write lock: one file that
\* cannot be read or is ignored fails the pass.
Read(s) ==
    /\ at[s] = "index" /\ \A t \in Flushes : at[t] # "reading"
    /\ FlushTo(s, IF Unindexable(s) = {} THEN "reading" ELSE "failed")
    /\ seen' = [seen EXCEPT ![s] = disk]
    /\ UNCHANGED <<fileVars, catalog, pending, retry, timer, stop, batch, tries, faults>>

\* The rows of changed files are replaced, then those of deleted files removed.
Published(s, f) == IF f \in Deleted(s) THEN 0 ELSE seen[s][f]

Publish(s) ==
    /\ at[s] = "reading"
    /\ catalog' = [f \in Files |-> IF batch[s][f] # {} THEN Published(s, f) ELSE catalog[f]]
    /\ FlushTo(s, "ok")
    /\ UNCHANGED <<fileVars, pending, retry, timer, stop, batch, seen, tries, faults>>

\* Anything before, or the transaction itself, fails and rolls back.
PassFails(s) ==
    /\ at[s] \in {"index", "reading"} /\ Fault
    /\ FlushTo(s, "failed")
    /\ UNCHANGED <<fileVars, catalog, pending, retry, timer, stop, batch, seen, tries>>

\* reindexBatchWithRetries: an IndexLockError is retried at once, then deferred.
PassBlocked(s) ==
    /\ Contends /\ at[s] = "index"
    /\ IF tries[s] = maxImmediateBatchRetries
       THEN FlushTo(s, "locked") /\ UNCHANGED tries
       ELSE tries' = [tries EXCEPT ![s] = @ + 1] /\ UNCHANGED at
    /\ UNCHANGED <<fileVars, catalog, pending, retry, timer, stop, batch, seen, faults>>

\* resetBatchRetry
Reset(s, f) ==
    /\ at[s] = "ok" /\ batch[s][f] # {}
    /\ retry' = [retry EXCEPT ![f] = 0]
    /\ batch' = [batch EXCEPT ![s][f] = {}]
    /\ UNCHANGED <<fileVars, catalog, pending, timer, stop, at, seen, tries, faults>>

\* recordBatchFailure and retainBatchFailure: pending again, without a timer.
Retain(s, f) ==
    /\ at[s] = "failed" /\ batch[s][f] # {}
    /\ pending' = [pending EXCEPT ![f] = @ \cup batch[s][f]]
    /\ batch' = [batch EXCEPT ![s][f] = {}]
    /\ UNCHANGED <<fileVars, catalog, retry, timer, stop, at, seen, tries, faults>>

\* Mutant: events past their budget get a timer too.
DeferredAlways(s) == {f \in Files : batch[s][f] # {}}

\* Events that may have another, deferred attempt.
Deferred(s) == {f \in Files : batch[s][f] # {} /\ retry[f] < maxDeferredBatchRetries}

\* Rounds past the budget are not told apart.
NextRound(n) == IF n > maxDeferredBatchRetries THEN n ELSE n + 1

\* deferBatchRetryEvents
Defer(s) ==
    /\ at[s] = "locked" /\ batch[s] # NoEvents
    /\ IF stop = "no"
       THEN /\ pending' = [f \in Files |-> pending[f] \cup batch[s][f]]
            /\ retry' = [f \in Files |-> IF batch[s][f] = {} THEN retry[f] ELSE NextRound(retry[f])]
            /\ timer' = IF timer = "none" /\ Deferred(s) # {} THEN "armed" ELSE timer
       ELSE UNCHANGED <<pending, retry, timer>>
    /\ batch' = [batch EXCEPT ![s] = NoEvents]
    /\ UNCHANGED <<fileVars, catalog, stop, at, seen, tries, faults>>

Return(s) ==
    /\ at[s] \in {"ok", "failed", "locked"} /\ batch[s] = NoEvents
    /\ FlushTo(s, "free")
    /\ seen' = [seen EXCEPT ![s] = [f \in Files |-> 0]]
    /\ tries' = [tries EXCEPT ![s] = 0]
    /\ UNCHANGED <<fileVars, catalog, pending, retry, timer, stop, batch, faults>>
-----------------------------------------------------------------------------
(* Stop                                                                    *)

Close ==
    /\ stop = "no"
    /\ stop' = "waiting" /\ timer' = "none"
    /\ UNCHANGED <<fileVars, catalog, pending, retry, flushVars, faults>>

Stopped ==
    /\ stop = "waiting" /\ \A s \in Flushes : at[s] = "free"
    /\ stop' = "done"
    /\ pending' = NoEvents /\ retry' = [f \in Files |-> 0]
    /\ UNCHANGED <<fileVars, catalog, timer, flushVars, faults>>
-----------------------------------------------------------------------------
\* Nothing more happens to a watcher that has stopped.
Quiet == stop = "done" /\ UNCHANGED vars

FlushNext(s) ==
    \/ CheckStopped(s) \/ TakeBatch(s) \/ Read(s) \/ Publish(s) \/ Defer(s) \/ Return(s)
    \/ \E f \in Files : Reset(s, f) \/ Retain(s, f)

Receive == \E f \in Files, op \in Ops : Deliver(f, op)
Expire == \E s \in Flushes : Fire(s)

WatcherNext ==
    \/ \E f \in Files : Write(f) \/ Remove(f) \/ Lose(f)
    \/ Receive \/ Expire
    \/ \E s \in Flushes : FlushNext(s) \/ PassFails(s) \/ PassBlocked(s)
    \/ Close \/ Stopped

Next == WatcherNext \/ Quiet

Spec == Init /\ [][Next]_vars

\* watchLoop, timers, callbacks and Stop keep running.
LiveSpec ==
    /\ Spec
    /\ WF_vars(Receive) /\ WF_vars(Expire) /\ WF_vars(Stopped)
    /\ \A s \in Flushes : WF_vars(FlushNext(s))
-----------------------------------------------------------------------------
(* Properties                                                              *)

\* Type invariant.
TypeOK ==
    /\ disk \in [Files -> 0..MaxVersion] /\ version \in [Files -> 0..MaxVersion]
    /\ catalog \in [Files -> 0..MaxVersion]
    /\ queue \in [Files -> SUBSET Ops] /\ lost \in BOOLEAN
    /\ pending \in [Files -> SUBSET Ops]
    /\ retry \in [Files -> 0..(maxDeferredBatchRetries + 1)]
    /\ timer \in {"none", "armed", "fired"} /\ stop \in {"no", "waiting", "done"}
    /\ at \in [Flushes -> FlushSteps]
    /\ batch \in [Flushes -> [Files -> SUBSET Ops]]
    /\ seen \in [Flushes -> [Files -> 0..MaxVersion]]
    /\ tries \in [Flushes -> 0..maxImmediateBatchRetries]
    /\ faults \in 0..MaxFaults

\* An event of the file is still on its way to the catalog: not received, in
\* the pending batch, or taken by a callback that has not read the files or
\* has failed.
Awaited(f) ==
    \/ queue[f] # {} \/ pending[f] # {}
    \/ \E s \in Flushes : at[s] \in {"index", "failed", "locked"} /\ batch[s][f] # {}

\* A callback is about to publish what the file is.
Arriving(f) ==
    \E s \in Flushes : at[s] = "reading" /\ batch[s][f] # {} /\ Published(s, f) = disk[f]

\* No change is forgotten: while the watcher runs and no event was lost, a file
\* whose catalog rows differ from its content has an event that is still being
\* worked on, however batches, edits, failures and overlapping callbacks
\* interleave (flushBatch empties pendingBatch before it knows the outcome).
NothingForgotten ==
    stop = "no" /\ ~lost =>
        \A f \in Files \ Ignored : catalog[f] # disk[f] => Awaited(f) \/ Arriving(f)

\* What NothingForgotten rests on: one callback at a time is between reading
\* and publishing, a removal event means that the file is gone for good (when
\* removed files do not come back), and
OneReader == \A s, t \in Flushes : at[s] = "reading" /\ at[t] = "reading" => s = t

GoneForGood ==
    \A f \in Files :
        /\ disk[f] # 0 => version[f] # 0
        /\ \/ "remove" \in queue[f] \cup pending[f]
           \/ \E s \in Flushes : "remove" \in batch[s][f]
           => disk[f] = 0 /\ version[f] # 0

\* what a callback is about to publish is what the file is, unless a later
\* event of the file is awaited.
Flow(f) ==
    /\ catalog[f] # disk[f] => Awaited(f) \/ Arriving(f)
    /\ \A s \in Flushes :
          at[s] = "reading" /\ batch[s][f] # {} /\ Published(s, f) # disk[f] => Awaited(f)

FlowInv == stop = "no" /\ ~lost => \A f \in Files \ Ignored : Flow(f)

\* When Stop has returned no callback runs, none will, and nothing is pending:
\* a timer that was already dispatched neither indexes nor arms another.
StopIsFinal ==
    stop = "done" =>
        timer = "none" /\ pending = NoEvents /\ \A s \in Flushes : at[s] = "free"

\* What StopIsFinal rests on: Stop clears the timer and nobody sets it again.
StopInv == (stop # "no" => timer = "none") /\ StopIsFinal

\* Stop returns: it waits for callbacks that use the lock it needs.
StopReturns == stop = "waiting" ~> stop = "done"

\* A blocked index makes no endless chain of timers: once the files rest, so
\* does the timer, with events still pending (maxDeferredBatchRetries).
NoTimerStorm == <>[](timer = "none")

\* A batch was refused, failed, or ran out of immediate attempts.
Setback == \E s \in Flushes : at[s] \in {"failed", "locked"}

\* Every change of a file reaches the catalog, unless events were lost, the
\* watcher is stopped or a pass did not succeed.
ChangesIndexed ==
    []~Setback => \A f \in Files \ Ignored : <>[](stop # "no" \/ lost \/ catalog[f] = disk[f])
=============================================================================
