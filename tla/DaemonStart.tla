---------------------------- MODULE DaemonStart ----------------------------
(***************************************************************************)
(* Starting, stopping, restarting and losing the one daemon of a user:     *)
(* SpawnBackgroundWithOptions and `daemon restart` on one side,            *)
(* NewServerWithOptions, Serve and Shutdown on the other.  They meet in    *)
(* start.lock and instance.lock, which are leases (StartLock implements    *)
(* Lease), the state file and the endpoint's socket.                       *)
(***************************************************************************)
EXTENDS Integers, FiniteSets

CONSTANTS
    Starters,    \* `daemon start` and autostart processes
    Restarters,  \* `daemon restart` processes
    Daemons,     \* `daemon serve` processes, each with a pid of its own
    None,        \* no daemon, no state file, no socket
    Torn,        \* a state file whose writing stopped half way
    MaxFaults,   \* bound: crashes, failing calls and deadlines that pass too early
    MaxStops     \* bound: stops by `daemon stop`, a signal or an update

ASSUME StartAssumption ==
    /\ Starters \cap Restarters = {}
    /\ {None, Torn} \cap Daemons = {} /\ None # Torn
    /\ MaxFaults \in Nat /\ MaxStops \in Nat

Callers == Starters \cup Restarters

VARIABLES
    callerAt,    \* where each caller is
    daemonAt,    \* where each daemon is
    start,       \* holders of start.lock
    instance,    \* holders of instance.lock
    state,       \* the daemon that state.json names
    sock,        \* the daemon whose socket is at the endpoint
    old,         \* the daemon a restart has asked to stop
    result,      \* what the caller reports, and about which daemon
    faults, stops

vars == <<callerAt, daemonAt, start, instance, state, sock, old, result, faults, stops>>
daemonVars == <<daemonAt, instance, state, sock>>
callerVars == <<callerAt, start, old, result>>

StartLease == INSTANCE Lease WITH Procs <- Callers, holders <- start
InstanceLease == INSTANCE Lease WITH Procs <- Daemons, holders <- instance

CallerSteps == {"idle", "lock", "probe", "load", "reject", "spawn", "poll", "unlock", "end"}
\* From the first call under instance.lock to the last.
Owning == {"owner", "dial", "remove", "bind", "bound", "saving", "serving", "stopping", "cleared",
           "closed", "undo", "undone"}
DaemonSteps == Owning \cup {"new", "boot", "exiting", "dead"}

Alive(d) == daemonAt[d] \notin {"new", "dead"}
Listening(d) == daemonAt[d] \in {"bound", "saving", "serving", "stopping", "cleared", "undo"}
Connectable == sock \in Daemons /\ Listening(sock)
\* Serve runs from "serving" until Accept fails on the closed listener.
Answers == sock \in Daemons /\ daemonAt[sock] \in {"serving", "stopping", "cleared"}

Nothing == [kind |-> "none", daemon |-> None]

Init ==
    /\ callerAt = [c \in Callers |-> "idle"]
    /\ daemonAt = [d \in Daemons |-> "new"]
    /\ start = {} /\ instance = {}
    /\ state = None /\ sock = None
    /\ old = [c \in Callers |-> None]
    /\ result = [c \in Callers |-> Nothing]
    /\ faults = 0 /\ stops = 0

CallerTo(c, step) == callerAt' = [callerAt EXCEPT ![c] = step]
DaemonTo(d, step) == daemonAt' = [daemonAt EXCEPT ![d] = step]
Report(c, kind, d) == result' = [result EXCEPT ![c] = [kind |-> kind, daemon |-> d]]
Fault == faults < MaxFaults /\ faults' = faults + 1

\* Mutant: a missing state file counts as an unreadable one.
OwnerRejectedUnread == state \in {None, Torn} \/ (state \in Daemons /\ Alive(state))

\* rejectExistingDaemonOwner: a live owner, or one that cannot be read.
OwnerRejected == state = Torn \/ (state \in Daemons /\ Alive(state))
-----------------------------------------------------------------------------
(* SpawnBackgroundWithOptions                                              *)

Begin(c) ==
    /\ c \in Starters /\ callerAt[c] = "idle"
    /\ CallerTo(c, "lock")
    /\ UNCHANGED <<daemonVars, start, old, result, faults, stops>>

\* `daemon restart`: system.stop, which answers before Shutdown is done, and
\* a sleep that promises nothing.
BeginRestart(c) ==
    /\ c \in Restarters /\ callerAt[c] = "idle"
    /\ CallerTo(c, "lock")
    /\ IF Answers
       THEN /\ old' = [old EXCEPT ![c] = sock]
            /\ DaemonTo(sock, IF daemonAt[sock] = "serving" THEN "stopping" ELSE daemonAt[sock])
       ELSE UNCHANGED <<old, daemonAt>>
    /\ UNCHANGED <<start, instance, state, sock, result, faults, stops>>

TakeStart(c) ==
    /\ callerAt[c] = "lock" /\ StartLease!Take(c)
    /\ CallerTo(c, "probe")
    /\ UNCHANGED <<daemonVars, old, result, faults, stops>>

StartBusy(c) ==
    /\ callerAt[c] = "lock" /\ start # {} /\ Fault
    /\ Report(c, "failed", None) /\ CallerTo(c, "end")
    /\ UNCHANGED <<daemonVars, start, old, stops>>

\* ensureLegacyHealth: a status request, or only a connection when the health
\* of this state file is cached or another process is checking it.
Probe(c) ==
    /\ callerAt[c] = "probe"
    /\ \/ Connectable /\ CallerTo(c, "load") /\ UNCHANGED faults
       \/ ~Answers /\ CallerTo(c, "reject") /\ UNCHANGED faults
       \/ Answers /\ CallerTo(c, "reject") /\ Fault
    /\ UNCHANGED <<daemonVars, start, old, result, stops>>

\* Mutant: start goes on to spawn although a daemon answers.
LoadNothing(c) ==
    /\ callerAt[c] = "load"
    /\ CallerTo(c, "spawn")
    /\ UNCHANGED <<daemonVars, start, old, result, faults, stops>>

Load(c) ==
    /\ callerAt[c] = "load"
    /\ \/ state \in Daemons /\ Report(c, "already", state) /\ CallerTo(c, "unlock")
       \/ state \notin Daemons /\ CallerTo(c, "reject") /\ UNCHANGED result
    /\ UNCHANGED <<daemonVars, start, old, faults, stops>>

Reject(c) ==
    /\ callerAt[c] = "reject"
    /\ \/ OwnerRejected /\ Report(c, "failed", None) /\ CallerTo(c, "unlock")
       \/ ~OwnerRejected /\ CallerTo(c, "spawn") /\ UNCHANGED result
    /\ UNCHANGED <<daemonVars, start, old, faults, stops>>

SpawnDaemon(c) ==
    /\ callerAt[c] = "spawn"
    /\ \E d \in Daemons : daemonAt[d] = "new" /\ DaemonTo(d, "boot")
    /\ CallerTo(c, "poll")
    /\ UNCHANGED <<instance, state, sock, start, old, result, faults, stops>>

\* command.Start fails; also when the bound on daemons is reached.
SpawnFails(c) ==
    /\ callerAt[c] = "spawn"
    /\ \/ Fault
       \/ (\A d \in Daemons : daemonAt[d] # "new") /\ UNCHANGED faults
    /\ Report(c, "failed", None) /\ CallerTo(c, "unlock")
    /\ UNCHANGED <<daemonVars, start, old, stops>>

\* probeDaemonWithClient: whoever answers.
Poll(c) ==
    /\ callerAt[c] = "poll" /\ Answers
    /\ Report(c, "started", sock) /\ CallerTo(c, "unlock")
    /\ UNCHANGED <<daemonVars, start, old, faults, stops>>

PollTimeout(c) ==
    /\ callerAt[c] = "poll"
    /\ \/ (\A d \in Daemons : ~Alive(d)) /\ UNCHANGED faults
       \/ Fault
    /\ Report(c, "failed", None) /\ CallerTo(c, "unlock")
    /\ UNCHANGED <<daemonVars, start, old, stops>>

Unlock(c) ==
    /\ callerAt[c] = "unlock" /\ StartLease!GiveBack(c)
    /\ CallerTo(c, "end")
    /\ UNCHANGED <<daemonVars, old, result, faults, stops>>

CallerDies(c) ==
    /\ callerAt[c] \notin {"idle", "end"} /\ Fault
    /\ CallerTo(c, "end") /\ start' = start \ {c}
    /\ UNCHANGED <<daemonVars, old, result, stops>>
-----------------------------------------------------------------------------
(* NewServerWithOptions                                                    *)

\* Mutant: no instance.lock.
TakeInstanceAnyway(d) ==
    /\ daemonAt[d] = "boot"
    /\ instance' = instance \cup {d}
    /\ DaemonTo(d, "owner")
    /\ UNCHANGED <<callerVars, state, sock, faults, stops>>

TakeInstance(d) ==
    /\ daemonAt[d] = "boot" /\ InstanceLease!Take(d)
    /\ DaemonTo(d, "owner")
    /\ UNCHANGED <<callerVars, state, sock, faults, stops>>

\* 250 ms are over.
InstanceBusy(d) ==
    /\ daemonAt[d] = "boot" /\ instance # {}
    /\ DaemonTo(d, "dead")
    /\ UNCHANGED <<callerVars, instance, state, sock, faults, stops>>

RejectOwner(d) ==
    /\ daemonAt[d] = "owner"
    /\ DaemonTo(d, IF OwnerRejected THEN "undone" ELSE "dial")
    /\ UNCHANGED <<callerVars, instance, state, sock, faults, stops>>

\* listenDaemon: somebody accepts a connection at the endpoint, or
DialEndpoint(d) ==
    /\ daemonAt[d] = "dial"
    /\ DaemonTo(d, IF Connectable THEN "undone" ELSE "remove")
    /\ UNCHANGED <<callerVars, instance, state, sock, faults, stops>>

\* what is there is removed,
RemoveEndpoint(d) ==
    /\ daemonAt[d] = "remove"
    /\ sock' = None /\ DaemonTo(d, "bind")
    /\ UNCHANGED <<callerVars, instance, state, faults, stops>>

\* and net.Listen creates a new one where there is none.
Bind(d) ==
    /\ daemonAt[d] = "bind"
    /\ DaemonTo(d, IF sock = None THEN "bound" ELSE "undone")
    /\ sock' = IF sock = None THEN d ELSE sock
    /\ UNCHANGED <<callerVars, instance, state, faults, stops>>

\* The telemetry store, the admin server or the run record fails.
InitFails(d) ==
    /\ daemonAt[d] = "bound" /\ Fault
    /\ DaemonTo(d, "undo")
    /\ UNCHANGED <<callerVars, instance, state, sock, stops>>

\* saveDaemonState: os.WriteFile truncates, then writes.
SaveBegin(d) ==
    /\ daemonAt[d] = "bound"
    /\ state' = Torn /\ DaemonTo(d, "saving")
    /\ UNCHANGED <<callerVars, instance, sock, faults, stops>>

SaveEnd(d) ==
    /\ daemonAt[d] = "saving"
    /\ state' = d /\ DaemonTo(d, "serving")
    /\ UNCHANGED <<callerVars, instance, sock, faults, stops>>

SaveFails(d) ==
    /\ daemonAt[d] = "saving" /\ Fault
    /\ DaemonTo(d, "undo")
    /\ UNCHANGED <<callerVars, instance, state, sock, stops>>

\* listener.Close unlinks the endpoint whatever is there.
UndoListener(d) ==
    /\ daemonAt[d] = "undo"
    /\ sock' = None /\ DaemonTo(d, "undone")
    /\ UNCHANGED <<callerVars, instance, state, faults, stops>>

UndoLease(d) ==
    /\ daemonAt[d] = "undone" /\ InstanceLease!GiveBack(d)
    /\ DaemonTo(d, "dead")
    /\ UNCHANGED <<callerVars, state, sock, faults, stops>>
-----------------------------------------------------------------------------
(* Shutdown, the update's restart, death                                   *)

Stop(d) ==
    /\ daemonAt[d] = "serving" /\ stops < MaxStops
    /\ stops' = stops + 1 /\ DaemonTo(d, "stopping")
    /\ UNCHANGED <<callerVars, instance, state, sock, faults>>

ClearState(d) ==
    /\ daemonAt[d] = "stopping"
    /\ state' = None /\ DaemonTo(d, "cleared")
    /\ UNCHANGED <<callerVars, instance, sock, faults, stops>>

CloseListener(d) ==
    /\ daemonAt[d] = "cleared"
    /\ sock' = None /\ DaemonTo(d, "closed")
    /\ UNCHANGED <<callerVars, instance, state, faults, stops>>

CloseLease(d) ==
    /\ daemonAt[d] = "closed" /\ InstanceLease!GiveBack(d)
    /\ DaemonTo(d, "exiting")
    /\ UNCHANGED <<callerVars, state, sock, faults, stops>>

Exit(d) ==
    /\ daemonAt[d] = "exiting"
    /\ DaemonTo(d, "dead")
    /\ UNCHANGED <<callerVars, instance, state, sock, faults, stops>>

\* restartUpdatedDaemon: the updated daemon is launched without start.lock.
Succeed(d) ==
    /\ daemonAt[d] = "exiting"
    /\ \E n \in Daemons :
          /\ daemonAt[n] = "new"
          /\ daemonAt' = [daemonAt EXCEPT ![d] = "dead", ![n] = "boot"]
    /\ UNCHANGED <<callerVars, instance, state, sock, faults, stops>>

DaemonDies(d) ==
    /\ Alive(d) /\ Fault
    /\ DaemonTo(d, "dead") /\ instance' = instance \ {d}
    /\ UNCHANGED <<callerVars, state, sock, stops>>

\* Every caller has its answer.
Settled == (\A c \in Callers : callerAt[c] = "end") /\ UNCHANGED vars

CallerNext(c) ==
    \/ Begin(c) \/ BeginRestart(c) \/ TakeStart(c) \/ StartBusy(c) \/ Probe(c) \/ Load(c)
    \/ Reject(c) \/ SpawnDaemon(c) \/ SpawnFails(c) \/ Poll(c) \/ PollTimeout(c) \/ Unlock(c)

DaemonNext(d) ==
    \/ TakeInstance(d) \/ InstanceBusy(d) \/ RejectOwner(d) \/ DialEndpoint(d) \/ RemoveEndpoint(d)
    \/ Bind(d) \/ SaveBegin(d) \/ SaveEnd(d) \/ UndoListener(d) \/ UndoLease(d)
    \/ ClearState(d) \/ CloseListener(d) \/ CloseLease(d) \/ Exit(d)

Next ==
    \/ \E c \in Callers : CallerNext(c) \/ CallerDies(c)
    \/ \E d \in Daemons : DaemonNext(d) \/ InitFails(d) \/ SaveFails(d) \/ Stop(d) \/ Succeed(d) \/ DaemonDies(d)
    \/ Settled

Spec == Init /\ [][Next]_vars

\* Processes run; nothing else is promised.
LiveSpec ==
    /\ Spec
    /\ \A c \in Callers : WF_vars(CallerNext(c))
    /\ \A d \in Daemons : WF_vars(DaemonNext(d))
-----------------------------------------------------------------------------
(* Properties                                                              *)

\* Type invariant.
TypeOK ==
    /\ callerAt \in [Callers -> CallerSteps]
    /\ daemonAt \in [Daemons -> DaemonSteps]
    /\ start \in SUBSET Callers /\ instance \in SUBSET Daemons
    /\ state \in Daemons \cup {None, Torn} /\ sock \in Daemons \cup {None}
    /\ old \in [Callers -> Daemons \cup {None}]
    /\ result \in [Callers -> [kind : {"none", "already", "started", "failed"}, daemon : Daemons \cup {None}]]
    /\ faults \in 0..MaxFaults /\ stops \in 0..MaxStops

\* A daemon that serves can be found: the endpoint's socket and state.json are
\* its own, whatever starts, stops, failed starts and crashes of other daemons
\* surround it (Close unlinks the endpoint and clearDaemonState removes the
\* file without looking whose they are).
ServerIsFound == \A d \in Daemons : daemonAt[d] = "serving" => sock = d /\ state = d

\* What ServerIsFound rests on: all calls from rejectExistingDaemonOwner to the
\* end of Shutdown are made under instance.lock.
OwnerInv ==
    /\ \A d \in Daemons : daemonAt[d] \in Owning <=> d \in instance
    /\ \A d, e \in instance : d = e
    /\ \A d \in Daemons : daemonAt[d] = "bind" => sock = None
    /\ \A d \in Daemons : Listening(d) => sock = d
    /\ \A d \in Daemons : daemonAt[d] \in {"serving", "stopping"} => state = d

\* Nothing has failed, come too late or been stopped.
Undisturbed == faults = 0 /\ stops = 0 /\ \A c \in Callers : old[c] = None

\* daemon start is idempotent: as long as nothing fails and nothing is stopped,
\* concurrent starts create one daemon between them.
NoSecondInstance == Undisturbed => Cardinality({d \in Daemons : daemonAt[d] # "new"}) <= 1

\* Every start that meets no failure and no stop ends by naming a daemon that
\* serves.
Started(c) ==
    \/ ~Undisturbed
    \/ \E d \in Daemons : result[c].daemon = d /\ daemonAt[d] = "serving"
StartSucceeds == \A c \in Starters : <>Started(c)
=============================================================================
