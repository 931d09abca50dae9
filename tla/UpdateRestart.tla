--------------------------- MODULE UpdateRestart ---------------------------
(***************************************************************************)
(* How a serving daemon replaces itself after an update: the restart       *)
(* controller pauses both listeners, closes the admission gate, commits to *)
(* Shutdown and launches the new executable, while connections, a          *)
(* background index, the telemetry purge and a stop go on beside it.       *)
(***************************************************************************)
EXTENDS Integers, FiniteSets

CONSTANTS
    Conns,         \* connections to the daemon's endpoint
    AdminConns,    \* connections to the administration endpoint
    MaxRestartFaults \* bound: sockets that cannot be reopened, a fatal Accept

VARIABLES
    link,      \* the two updateListeners
    at,        \* where each connection is
    barrier,   \* updateAdmissionGate.barrier
    purge,     \* the updateRetention goroutine
    job,       \* a background index is queued or running
    jobsPaused,
    held,      \* runtimes, watchers, their transitions or live sessions exist
    candidate, \* a verified newer executable is on disk
    ctl,       \* the goroutine of runUpdateSchedule
    shutdown,  \* how far the one run of Shutdown is
    stopAsked, \* system.stop or a signal came: its goroutine will call Shutdown
    serve,     \* the goroutine of Serve, and then of main
    launched,  \* what became of the launch of the new executable
    restartFaults

restartVars == <<link, at, barrier, purge, job, jobsPaused, held, candidate, ctl, shutdown,
                 stopAsked, serve, launched, restartFaults>>
admission == <<at, barrier, purge, job, jobsPaused, held>>
outside == <<candidate, stopAsked, restartFaults>>

Links == {"ingress", "admin"}
AllConns == Conns \cup AdminConns
LinkOf(c) == IF c \in Conns THEN "ingress" ELSE "admin"
ConnSteps == {"none", "accepted", "admitted", "closing", "gone"}
Asks == {"status", "work", "index", "stop"}
CtlSteps == {"idle", "pausing", "barring", "checking", "adminPausing", "committed", "spawning",
             "recovering", "resuming", "returned"}
ShutSteps == {"no", "joining", "closing", "finishing", "done"}

RestartTypeOK ==
    /\ link \in [Links -> [open : BOOLEAN, paused : BOOLEAN, closed : BOOLEAN, accepting : BOOLEAN]]
    /\ at \in [AllConns -> ConnSteps]
    /\ barrier \in BOOLEAN /\ purge \in {"waiting", "running", "stopped"}
    /\ job \in BOOLEAN /\ jobsPaused \in BOOLEAN /\ held \in BOOLEAN /\ candidate \in BOOLEAN
    /\ ctl \in CtlSteps /\ shutdown \in ShutSteps
    /\ stopAsked \in BOOLEAN
    /\ serve \in {"serving", "joining", "stopping", "exited"}
    /\ launched \in {"no", "yes", "failed"}
    /\ restartFaults \in 0..MaxRestartFaults

Alive == serve # "exited"
\* updateListener.active: leases of connections not closed yet.
Leases(l) == {c \in AllConns : LinkOf(c) = l /\ at[c] \in {"accepted", "admitted"}}
\* updateAdmissionGate.active.
Admitted == {c \in AllConns : at[c] \in {"admitted", "closing"}}
GateIdle == Admitted = {} /\ purge # "running"
\* close(s.stopped) and shutdownStarted come first in Shutdown.
Stopped == shutdown # "no"

RestartInit ==
    /\ link = [l \in Links |-> [open |-> TRUE, paused |-> FALSE, closed |-> FALSE, accepting |-> TRUE]]
    /\ at = [c \in AllConns |-> "none"]
    /\ barrier = FALSE /\ purge = "waiting" /\ job = FALSE /\ jobsPaused = FALSE /\ held = FALSE
    /\ candidate = FALSE /\ ctl = "idle" /\ shutdown = "no"
    /\ stopAsked = FALSE /\ serve = "serving" /\ launched = "no"
    /\ restartFaults = 0
-----------------------------------------------------------------------------
(* Connections                                                             *)

To(c, step) == at' = [at EXCEPT ![c] = step]

\* Accept: the socket delivered a connection, which is leased before
\* `pending` drops, even when Pause or Close have just won; while the socket
\* is open the loop is at once back in its Accept.
Accepted(c) ==
    /\ Alive /\ at[c] = "none" /\ link[LinkOf(c)].accepting
    /\ link' = [link EXCEPT ![LinkOf(c)].accepting = link[LinkOf(c)].open]
    /\ To(c, "accepted")
    /\ UNCHANGED <<barrier, purge, job, jobsPaused, held, ctl, shutdown, serve, launched, outside>>

\* The socket was closed under Accept: on a pause it waits, on a close it ends.
AcceptFailed(l) ==
    /\ Alive /\ link[l].accepting /\ ~link[l].open
    /\ link' = [link EXCEPT ![l].accepting = FALSE]
    /\ UNCHANGED <<admission, ctl, shutdown, serve, launched, outside>>

\* handleConnectionContext and updateAdminHandler: gate.Begin, or the
\* connection is closed; an administration request is refused and may retry.
Begin(c) ==
    /\ Alive /\ at[c] = "accepted"
    /\ c \in Conns \/ ~barrier
    /\ To(c, IF barrier THEN "gone" ELSE "admitted")
    /\ UNCHANGED <<link, barrier, purge, job, jobsPaused, held, ctl, shutdown, serve, launched, outside>>

\* handleRequestContext.  A connection is closed, and its lease dropped, before
\* its admission ends; an administration connection stays open for another request.
Handle(c) ==
    /\ Alive /\ at[c] = "admitted"
    /\ To(c, IF c \in Conns THEN "closing" ELSE "accepted")
    /\ \E what \in IF c \in Conns THEN Asks ELSE {"status", "work"} :
           /\ held' = (held \/ what = "work")
           /\ job' = (job \/ (what = "index" /\ ~jobsPaused))
           /\ stopAsked' = (stopAsked \/ what = "stop")
    /\ UNCHANGED <<link, barrier, purge, jobsPaused, candidate, ctl, shutdown, serve, launched, restartFaults>>

Finish(c) ==
    /\ Alive /\ at[c] = "closing"
    /\ To(c, "gone")
    /\ UNCHANGED <<link, barrier, purge, job, jobsPaused, held, ctl, shutdown, serve, launched, outside>>

\* The peer of an idle keep-alive connection leaves.
Leave(c) ==
    /\ Alive /\ at[c] = "accepted" /\ c \in AdminConns
    /\ To(c, "gone")
    /\ UNCHANGED <<link, barrier, purge, job, jobsPaused, held, ctl, shutdown, serve, launched, outside>>

-----------------------------------------------------------------------------
(* Beside them                                                             *)

\* updateRetention.runPurge.
PurgeStart ==
    /\ Alive /\ purge = "waiting" /\ ~barrier
    /\ purge' = "running"
    /\ UNCHANGED <<link, at, barrier, job, jobsPaused, held, ctl, shutdown, serve, launched, outside>>

PurgeEnd ==
    /\ Alive /\ purge = "running"
    /\ purge' = "waiting"
    /\ UNCHANGED <<link, at, barrier, job, jobsPaused, held, ctl, shutdown, serve, launched, outside>>

JobEnd ==
    /\ Alive /\ job /\ job' = FALSE
    /\ UNCHANGED <<link, at, barrier, purge, jobsPaused, held, ctl, shutdown, serve, launched, outside>>

\* Runtimes are reaped, watchers evicted, sessions expire.
Release ==
    /\ Alive /\ held /\ held' = FALSE
    /\ UNCHANGED <<link, at, barrier, purge, job, jobsPaused, ctl, shutdown, serve, launched, outside>>

\* The updater installs a newer executable; a later check may withdraw it.
Publish ==
    /\ Alive /\ candidate' = ~candidate
    /\ UNCHANGED <<link, admission, ctl, shutdown, stopAsked, serve, launched, restartFaults>>

Signal ==
    /\ Alive /\ ~stopAsked
    /\ stopAsked' = TRUE
    /\ UNCHANGED <<link, admission, candidate, ctl, shutdown, serve, launched, restartFaults>>
-----------------------------------------------------------------------------
(* maybeRestartUpdated                                                     *)

Ctl(step) == ctl' = step
Fails == restartFaults < MaxRestartFaults /\ restartFaults' = restartFaults + 1
\* updateCtx is cancelled when Serve returns.
Cancelled == serve # "serving"

\* updateListener.Pause, up to closing the socket.
PauseLink(l) == link' = [link EXCEPT ![l].paused = TRUE, ![l].open = FALSE]
\* ... and its answer once no Accept is pending: no connection is leased.
PauseIdle(l) == ~link[l].accepting /\ ~link[l].closed /\ Leases(l) = {}

\* updateListener.Resume: reopen, unless the listener was closed meanwhile.
Resume(l) ==
    \/ link[l].closed /\ UNCHANGED <<link, restartFaults>>
    \/ ~link[l].closed /\ link' = [link EXCEPT ![l].paused = FALSE, ![l].open = TRUE, ![l].accepting = TRUE] /\ UNCHANGED restartFaults
    \/ ~link[l].closed /\ Fails /\ UNCHANGED link

\* A tick finds a verified executable and nothing held.
Tick ==
    /\ Alive /\ ctl = "idle" /\ candidate /\ ~held /\ ~link["ingress"].closed
    /\ PauseLink("ingress") /\ Ctl("pausing")
    /\ UNCHANGED <<admission, shutdown, serve, launched, outside>>

\* Mutant: Pause does not wait for the pending Accept.
PausedUnjoined ==
    /\ Alive /\ ctl = "pausing"
    /\ \/ Leases("ingress") = {} /\ ~link["ingress"].closed /\ Ctl("barring")
       \/ Ctl("resuming")
    /\ UNCHANGED <<link, admission, shutdown, serve, launched, outside>>

\* Pause answers, or gives up after a second.
Paused ==
    /\ Alive /\ ctl = "pausing"
    /\ \/ PauseIdle("ingress") /\ Ctl("barring")
       \/ Ctl("resuming")
    /\ UNCHANGED <<link, admission, shutdown, serve, launched, outside>>

\* tryPauseUpdateResources: background jobs first, then the gate, or neither.
Bar ==
    /\ Alive /\ ctl = "barring"
    /\ IF ~job /\ ~jobsPaused /\ ~barrier /\ GateIdle
       THEN jobsPaused' = TRUE /\ barrier' = TRUE /\ Ctl("checking")
       ELSE UNCHANGED <<jobsPaused, barrier>> /\ Ctl("resuming")
    /\ UNCHANGED <<link, at, purge, job, held, shutdown, serve, launched, outside>>

\* The second look at the resources, the executable and the context, then
\* prepareAdminForUpdate.
Check ==
    /\ Alive /\ ctl = "checking"
    /\ \/ ~held /\ ~Cancelled /\ ~link["admin"].closed /\ PauseLink("admin") /\ Ctl("adminPausing")
       \/ (held \/ Cancelled \/ link["admin"].closed \/ ~candidate) /\ Ctl("resuming") /\ UNCHANGED link
    /\ UNCHANGED <<admission, shutdown, serve, launched, outside>>

\* The last look; from here on nothing is resumed.
Commit ==
    /\ Alive /\ ctl = "adminPausing"
    /\ PauseIdle("admin") /\ ~Cancelled /\ ~Stopped /\ ~held
    /\ Ctl("committed")
    /\ UNCHANGED <<link, admission, shutdown, serve, launched, outside>>

BackOut ==
    /\ Alive /\ ctl = "adminPausing"
    /\ Resume("admin") /\ Ctl("resuming")
    /\ UNCHANGED <<admission, shutdown, serve, launched, candidate, stopAsked>>

\* Mutant: a controller that cannot take the barrier leaves the listener paused.
ResumeNothing ==
    /\ Alive /\ ctl = "resuming"
    /\ barrier' = FALSE /\ jobsPaused' = FALSE
    /\ Ctl("idle")
    /\ UNCHANGED <<link, at, purge, job, held, shutdown, serve, launched, outside>>

\* The deferred release of the gate and the jobs, and the deferred Resume.
ResumeIngress ==
    /\ Alive /\ ctl = "resuming"
    /\ barrier' = FALSE /\ jobsPaused' = FALSE
    /\ Resume("ingress") /\ Ctl("idle")
    /\ UNCHANGED <<at, purge, job, held, shutdown, serve, launched, candidate, stopAsked>>

\* restartUpdatedDaemon after Shutdown: Spawn, and Recover when that failed.
Spawn ==
    /\ Alive /\ ctl \in {"spawning", "recovering"}
    /\ \/ launched' = "yes" /\ Ctl("returned")
       \/ ctl = "spawning" /\ Ctl("recovering") /\ UNCHANGED launched
       \/ ctl = "recovering" /\ Ctl("returned") /\ launched' = "failed"
    /\ barrier' = (ctl' # "returned" /\ barrier) /\ jobsPaused' = (ctl' # "returned" /\ jobsPaused)
    /\ UNCHANGED <<link, at, purge, job, held, shutdown, serve, outside>>

\* runUpdateSchedule sees s.stopped or its cancelled context between two ticks.
ScheduleReturns ==
    /\ Alive /\ ctl = "idle" /\ (Stopped \/ Cancelled)
    /\ Ctl("returned")
    /\ UNCHANGED <<link, admission, shutdown, serve, launched, outside>>
-----------------------------------------------------------------------------
(* Shutdown and Serve                                                      *)

\* stopOnce: system.stop's goroutine, the committed controller or main's defer.
ShutdownBegins ==
    /\ Alive /\ ~Stopped
    /\ stopAsked \/ ctl = "committed" \/ serve = "stopping"
    /\ shutdown' = "joining"
    /\ UNCHANGED <<link, admission, ctl, serve, launched, outside>>

\* updateRetention.stopAndWait joins a running purge; then the state file goes.
JoinPurge ==
    /\ Alive /\ shutdown = "joining" /\ purge = "waiting"
    /\ purge' = "stopped" /\ shutdown' = "closing"
    /\ UNCHANGED <<link, at, barrier, job, jobsPaused, held, ctl, serve, launched, outside>>

\* listener.Close and admin.Shutdown, which drops idle connections too.
CloseLinks ==
    /\ Alive /\ shutdown = "closing"
    /\ link' = [l \in Links |-> [link[l] EXCEPT !.open = FALSE, !.closed = TRUE]]
    /\ at' = [c \in AllConns |-> IF c \in AdminConns /\ at[c] = "accepted" THEN "gone" ELSE at[c]]
    /\ shutdown' = "finishing"
    /\ UNCHANGED <<barrier, purge, job, jobsPaused, held, ctl, serve, launched, outside>>

\* manager.Shutdown, telemetry.Close and the instance lease.
ShutdownEnds ==
    /\ Alive /\ shutdown = "finishing"
    /\ held' = FALSE /\ shutdown' = "done"
    /\ UNCHANGED <<link, at, barrier, purge, job, jobsPaused, ctl, serve, launched, outside>>

\* The committed controller waits for Shutdown, whoever runs it.
ShutdownAwaited ==
    /\ Alive /\ ctl = "committed" /\ shutdown = "done"
    /\ Ctl("spawning")
    /\ UNCHANGED <<link, admission, shutdown, serve, launched, outside>>

\* Mutant: a paused Accept waits to be resumed even when the listener is closed.
ServeReturnsOpen ==
    /\ serve = "serving" /\ ~link["ingress"].accepting
    /\ link["ingress"].closed /\ ~link["ingress"].paused /\ UNCHANGED restartFaults
    /\ serve' = "joining"
    /\ UNCHANGED <<link, admission, ctl, shutdown, launched, candidate, stopAsked>>

\* Accept fails for good: the listener was closed, or the error is fatal.
ServeReturns ==
    /\ serve = "serving" /\ ~link["ingress"].accepting
    /\ link["ingress"].closed /\ UNCHANGED restartFaults
    /\ serve' = "joining"
    /\ UNCHANGED <<link, admission, ctl, shutdown, launched, candidate, stopAsked>>

FatalAccept ==
    /\ serve = "serving" /\ link["ingress"].accepting /\ Fails
    /\ serve' = "joining"
    /\ link' = [link EXCEPT !["ingress"].accepting = FALSE]
    /\ UNCHANGED <<admission, ctl, shutdown, launched, candidate, stopAsked>>

\* cancelUpdate and <-updateDone.
JoinUpdate ==
    /\ serve = "joining" /\ ctl = "returned"
    /\ serve' = "stopping"
    /\ UNCHANGED <<link, admission, ctl, shutdown, launched, outside>>

Exit ==
    /\ serve = "stopping" /\ shutdown = "done"
    /\ serve' = "exited"
    /\ UNCHANGED <<link, admission, ctl, shutdown, launched, outside>>
-----------------------------------------------------------------------------
AcceptLoop == \E l \in Links : AcceptFailed(l)
Handlers == \E c \in AllConns : Begin(c) \/ Handle(c) \/ Finish(c)
Controller ==
    \/ Tick \/ Paused \/ Bar \/ Check \/ Commit \/ BackOut \/ ResumeIngress
    \/ Spawn \/ ScheduleReturns \/ ShutdownAwaited
Stopping ==
    \/ ShutdownBegins \/ JoinPurge \/ CloseLinks \/ ShutdownEnds
    \/ ServeReturns \/ JoinUpdate \/ Exit
Peers ==
    \/ \E c \in AllConns : Accepted(c) \/ Leave(c)
    \/ PurgeStart \/ PurgeEnd \/ JobEnd \/ Release \/ Publish \/ Signal \/ FatalAccept

RestartNext == AcceptLoop \/ Handlers \/ Controller \/ Stopping \/ Peers
RestartSpec == RestartInit /\ [][RestartNext]_restartVars
-----------------------------------------------------------------------------
\* maybeRestartUpdated commits to Shutdown only when the old daemon has
\* answered everyone: no connection is leased or admitted on either endpoint,
\* no purge or background index runs and no runtime, watcher or session is held;
\* and it stays so until the new executable is launched, or failed to be twice,
\* for which serveWithUpdateSchedule keeps main from exiting.
HandoverIsQuiet ==
    ctl \in {"committed", "spawning", "recovering"} =>
        /\ GateIdle /\ Leases("ingress") = {} /\ Leases("admin") = {}
        /\ ~job /\ ~held /\ Alive

\* A listener that stays paused for good is one whose reopening failed, and
\* then only while ticks find no candidate or find resources held.
IngressComesBack ==
    <>[](Alive /\ link["ingress"].paused /\ ~link["ingress"].closed)
        => <>(restartFaults > 0) /\ []<>(~candidate \/ held)

\* Whatever the restart controller is doing, a stop ends with the process.
StopCompletes == stopAsked ~> ~Alive
=============================================================================
