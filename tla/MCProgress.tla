------------------------------ MODULE MCProgress ------------------------------
(* What must eventually happen: changes the file watcher saw are indexed,  *)
(* jobs and cancellations settle, a daemon that was asked to stop ends and *)
(* one that could not restart into an update serves again.  They share no  *)
(* state: every behaviour is one of the three parts', chosen at the start. *)
EXTENDS Integers, FiniteSets

CONSTANTS
    Files, Flushes, Ignored, Contends, Removes, Recreates, MaxVersion, \* FileWatcher
    Starters, Workers, Cancelers, Forced, NoPid,                       \* IndexJobs
    Conns, AdminConns, MaxRestartFaults                                \* UpdateRestart

VARIABLES
    part,
    disk, version, catalog, queue, lost, pending, retry, timer, stop, at, batch, seen, tries,
    faults,
    job, gen, owner, active, graph, minted, alive, pc, target, jobSeen, created, child,
    reports, lock, crashes,
    link, conn, barrier, purge, indexing, jobsPaused, held, candidate, ctl, shutdown,
    stopAsked, serve, launched, restartFaults

watcherVars == <<disk, version, catalog, queue, lost, pending, retry, timer, stop, at, batch,
                 seen, tries, faults>>
jobVars == <<job, gen, owner, active, graph, minted, alive, pc, target, jobSeen, created, child,
             reports, lock, crashes>>
restartVars == <<link, conn, barrier, purge, indexing, jobsPaused, held, candidate, ctl,
                 shutdown, stopAsked, serve, launched, restartFaults>>

W == INSTANCE FileWatcher WITH MaxFaults <- 0
J == INSTANCE IndexJobs WITH
    seen <- jobSeen, JobModes <- {"full"}, Legacy <- {},
    Jobs <- 1..Cardinality(Starters), Pids <- Starters \cup Workers \cup Cancelers,
    MaxReports <- 0, MaxCrashes <- 0, MaxForeground <- 0
R == INSTANCE UpdateRestart WITH at <- conn, job <- indexing

Init ==
    /\ part \in {"watcher", "jobs", "restart"}
    /\ J!Init /\ R!RestartInit
    /\ W!Init /\ (part = "watcher" \/ disk = [f \in Files |-> 0])

Next ==
    \/ part = "watcher" /\ W!Next /\ UNCHANGED <<part, jobVars, restartVars>>
    \/ part = "jobs" /\ J!Next /\ UNCHANGED <<part, watcherVars, restartVars>>
    \/ part = "restart" /\ R!RestartNext /\ UNCHANGED <<part, watcherVars, jobVars>>
    \/ part = "restart" /\ ~R!Alive /\ UNCHANGED <<part, watcherVars, jobVars, restartVars>>

\* watchLoop, timers, callbacks and Stop keep running.
WatcherFairness ==
    /\ WF_watcherVars(part = "watcher" /\ W!Receive)
    /\ WF_watcherVars(part = "watcher" /\ W!Expire)
    /\ WF_watcherVars(part = "watcher" /\ W!Stopped)
    /\ \A s \in Flushes : WF_watcherVars(part = "watcher" /\ W!FlushNext(s))
\* The operating system runs every process that is not dead.
JobFairness ==
    /\ \A s \in Starters : WF_jobVars(part = "jobs" /\ J!StarterStep(s))
    /\ \A w \in Workers \cup Starters : WF_jobVars(part = "jobs" /\ J!WorkerStep(w))
    /\ \A c \in Cancelers : WF_jobVars(part = "jobs" /\ J!CancelerStep(c))

\* Every goroutine that can run is run; two selects, runUpdateSchedule's and
\* the purge's, in the end see the closed channel beside their tickers.
RestartFairness ==
    /\ WF_restartVars(part = "restart" /\ R!AcceptLoop)
    /\ WF_restartVars(part = "restart" /\ R!PurgeEnd)
    /\ WF_restartVars(part = "restart" /\ R!Controller)
    /\ WF_restartVars(part = "restart" /\ R!Stopping)
    /\ SF_restartVars(part = "restart" /\ R!ScheduleReturns)
    /\ SF_restartVars(part = "restart" /\ R!JoinPurge)

Spec ==
    /\ Init /\ [][Next]_<<part, watcherVars, jobVars, restartVars>>
    /\ WatcherFairness /\ JobFairness /\ RestartFairness
-----------------------------------------------------------------------------
\* FileWatcher: Stop returns.
StopReturns == W!StopReturns
\* FileWatcher: once the files rest, so does the timer.
NoTimerStorm == W!NoTimerStorm
\* FileWatcher: every change of a file reaches the catalog.
ChangesIndexed == W!ChangesIndexed
\* IndexJobs: every job ends or has its cancellation accepted.
JobSettles == J!JobSettles
\* IndexJobs: a forced cancellation settles the job it found active.
ForceCancelSettles == J!ForceCancelSettles
\* UpdateRestart: a listener stays paused only when its reopening failed.
IngressComesBack == R!IngressComesBack
\* UpdateRestart: a stop ends with the process.
StopCompletes == R!StopCompletes
=============================================================================
